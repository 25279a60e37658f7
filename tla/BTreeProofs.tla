----------------------------- MODULE BTreeProofs -----------------------------
(***************************************************************************)
(* Theorems about the whole B-tree, for every order, height and number of  *)
(* keys: its shape, that it leaks nothing, and, as long as it is used in   *)
(* the ways its code allows, its search order, and that it is a map.       *)
(***************************************************************************)
EXTENDS BTree, BTreeNodeProofs, FiniteSetTheorems

-----------------------------------------------------------------------------
(* Trees in memory                                                           *)

\* Nodes with entries E, whose children are in memory.
Heap(h, E) ==
    /\ DOMAIN h \subseteq Nat /\ IsFiniteSet(DOMAIN h)
    /\ h \in [DOMAIN h -> Nodes(E, DOMAIN h)]

\* They make a tree below r: p says of each how far it is from the leaves, whose
\* child it is, and which one.
Tree(h, r, p) ==
    /\ r \in DOMAIN h /\ p[r].up = NoTree
    /\ p \in [DOMAIN h -> [level : Nat, up : Int, at : Nat]]
    /\ \A x \in DOMAIN h : p[x].level <= p[r].level
    /\ \A a \in DOMAIN h : \A i \in DOMAIN h[a].kids :
          LET x == h[a].kids[i]
          IN  p[x].level = p[a].level - 1 /\ p[x].up = a /\ p[x].at = i
    /\ \A x \in DOMAIN h : x # r =>
          /\ p[x].up \in DOMAIN h /\ p[x].at \in DOMAIN h[p[x].up].kids
          /\ h[p[x].up].kids[p[x].at] = x
    /\ \A a \in DOMAIN h : IF p[a].level = 0 THEN h[a].kids = <<>>
                           ELSE Len(h[a].kids) = Len(h[a].ents) + 1

\* g is h with the i-th child of a split at its entry u, the new node at b.
Splits(h, g, a, i, u, b) ==
    LET c == h[a].kids[i]
    IN  /\ a \in DOMAIN h /\ i \in DOMAIN h[a].kids /\ u \in DOMAIN h[c].ents
        /\ b \in Nat /\ b \notin DOMAIN h /\ DOMAIN g = DOMAIN h \cup {b}
        /\ \A x \in DOMAIN h : x # a /\ x # c => g[x] = h[x]
        /\ Len(g[a].ents) = Len(h[a].ents) + 1 /\ Len(g[a].kids) = Len(h[a].kids) + 1
        /\ \A j \in DOMAIN h[a].ents : j < i => g[a].ents[j] = h[a].ents[j]
        /\ g[a].ents[i] = h[c].ents[u]
        /\ \A j \in DOMAIN h[a].ents : j >= i => g[a].ents[j + 1] = h[a].ents[j]
        /\ \A j \in DOMAIN h[a].kids : j <= i => g[a].kids[j] = h[a].kids[j]
        /\ g[a].kids[i + 1] = b
        /\ \A j \in DOMAIN h[a].kids : j > i => g[a].kids[j + 1] = h[a].kids[j]
        /\ Len(g[c].ents) = u - 1 /\ Len(g[b].ents) = Len(h[c].ents) - u
        /\ \A j \in 1 .. u - 1 : g[c].ents[j] = h[c].ents[j]
        /\ \A j \in u + 1 .. Len(h[c].ents) : g[b].ents[j - u] = h[c].ents[j]
        /\ IF h[c].kids = <<>> THEN g[c].kids = <<>> /\ g[b].kids = <<>>
           ELSE /\ Len(g[c].kids) = u /\ Len(g[b].kids) = Len(h[c].kids) - u
                /\ \A j \in 1 .. u : g[c].kids[j] = h[c].kids[j]
                /\ \A j \in u + 1 .. Len(h[c].kids) : g[b].kids[j - u] = h[c].kids[j]

-----------------------------------------------------------------------------
(* Splitting and merging                                                     *)

LEMMA HeapTypes ==
    ASSUME NEW E, NEW h, Heap(h, E), NEW a \in DOMAIN h
    PROVE  /\ h[a].ents \in Seq(E) /\ h[a].kids \in Seq(DOMAIN h)
           /\ Len(h[a].ents) \in Nat /\ Len(h[a].kids) \in Nat
           /\ DOMAIN h[a].ents = 1 .. Len(h[a].ents) /\ DOMAIN h[a].kids = 1 .. Len(h[a].kids)
           /\ \A i \in DOMAIN h[a].ents : h[a].ents[i] \in E
           /\ \A i \in DOMAIN h[a].kids : h[a].kids[i] \in DOMAIN h
           /\ a \in Nat
           /\ h[a].kids = <<>> <=> Len(h[a].kids) = 0
<1>1. h[a] \in Nodes(E, DOMAIN h) /\ a \in Nat
  BY DEF Heap
<1>2. h[a].ents \in Seq(E) /\ h[a].kids \in Seq(DOMAIN h)
  BY <1>1 DEF Nodes
<1> HIDE DEF Heap
<1> QED  BY <1>1, <1>2

\* What a split does, place by place: to the nodes, above the split one and below.
SplitNodes(h, g, a, i, u, b, c) ==
    /\ a \in DOMAIN h /\ c \in DOMAIN h /\ b \in DOMAIN g /\ a # b /\ c # b /\ a # c
    /\ a \in DOMAIN g /\ c \in DOMAIN g /\ b \notin DOMAIN h
    /\ DOMAIN g = DOMAIN h \cup {b}
    /\ a \in Nat /\ b \in Nat /\ c \in Nat /\ i \in Nat /\ u \in Nat /\ i >= 1 /\ u >= 1
    /\ i \in DOMAIN h[a].kids /\ u <= Len(h[c].ents) /\ u \in DOMAIN h[c].ents
    /\ \A x \in DOMAIN h : x # a /\ x # c => g[x] = h[x]
    /\ Len(g[a].kids) = Len(h[a].kids) + 1 /\ Len(g[a].ents) = Len(h[a].ents) + 1
    /\ Len(g[c].ents) = u - 1 /\ Len(g[b].ents) = Len(h[c].ents) - u

SplitAbove(h, g, a, i, b) ==
    /\ \A k \in DOMAIN g[a].kids :
          /\ k <= i => k \in DOMAIN h[a].kids /\ g[a].kids[k] = h[a].kids[k]
          /\ k = i + 1 => g[a].kids[k] = b
          /\ k > i + 1 => k - 1 \in DOMAIN h[a].kids /\ g[a].kids[k] = h[a].kids[k - 1]
    /\ \A k \in DOMAIN h[a].kids :
          /\ k <= i => k \in DOMAIN g[a].kids /\ g[a].kids[k] = h[a].kids[k]
          /\ k > i => k + 1 \in DOMAIN g[a].kids /\ g[a].kids[k + 1] = h[a].kids[k]
    /\ i + 1 \in DOMAIN g[a].kids

SplitBelow(h, g, u, b, c) ==
    /\ h[c].kids = <<>> => g[c].kids = <<>> /\ g[b].kids = <<>>
    /\ h[c].kids # <<>> /\ Len(h[c].kids) > u =>
       /\ g[c].kids # <<>> /\ g[b].kids # <<>>
       /\ Len(g[c].kids) = u /\ Len(g[b].kids) = Len(h[c].kids) - u
       /\ \A k \in DOMAIN g[c].kids : k <= u /\ k \in DOMAIN h[c].kids
                                      /\ g[c].kids[k] = h[c].kids[k]
       /\ \A k \in DOMAIN g[b].kids : k + u \in DOMAIN h[c].kids
                                      /\ g[b].kids[k] = h[c].kids[k + u]
       /\ \A k \in DOMAIN h[c].kids :
             /\ k <= u => k \in DOMAIN g[c].kids /\ g[c].kids[k] = h[c].kids[k]
             /\ k > u => k - u \in DOMAIN g[b].kids /\ g[b].kids[k - u] = h[c].kids[k]

LEMMA SplitFacts ==
    ASSUME NEW E, NEW h, NEW g, Heap(h, E), Heap(g, E),
           NEW a, NEW i, NEW u, NEW b, Splits(h, g, a, i, u, b), NEW c, c = h[a].kids[i], c # a
    PROVE  /\ SplitNodes(h, g, a, i, u, b, c) /\ SplitAbove(h, g, a, i, b)
           /\ SplitBelow(h, g, u, b, c)
<1> DEFINE ka == h[a].kids  kc == h[c].kids  ga == g[a].kids  gc == g[c].kids  gb == g[b].kids
           la == Len(ka)  lc == Len(kc)  le == Len(h[c].ents)
<1>1. /\ a \in DOMAIN h /\ i \in DOMAIN ka /\ u \in DOMAIN h[c].ents
      /\ b \in Nat /\ b \notin DOMAIN h /\ DOMAIN g = DOMAIN h \cup {b}
      /\ \A x \in DOMAIN h : x # a /\ x # c => g[x] = h[x]
      /\ Len(g[a].ents) = Len(h[a].ents) + 1 /\ Len(ga) = la + 1
      /\ Len(g[c].ents) = u - 1 /\ Len(g[b].ents) = Len(h[c].ents) - u
  BY DEF Splits
<1>2. /\ \A j \in DOMAIN ka : j <= i => ga[j] = ka[j]
      /\ ga[i + 1] = b
      /\ \A j \in DOMAIN ka : j > i => ga[j + 1] = ka[j]
  BY DEF Splits
<1>3. IF kc = <<>> THEN gc = <<>> /\ gb = <<>>
      ELSE /\ Len(gc) = u /\ Len(gb) = lc - u
           /\ \A j \in 1 .. u : gc[j] = kc[j]
           /\ \A j \in u + 1 .. lc : gb[j - u] = kc[j]
  BY DEF Splits
<1>4. /\ c \in DOMAIN h /\ a \in Nat /\ c \in Nat /\ DOMAIN ka = 1 .. la /\ la \in Nat
  BY <1>1, HeapTypes
<1>5. /\ a \in DOMAIN g /\ c \in DOMAIN g /\ b \in DOMAIN g /\ a # b /\ c # b
  BY <1>1, <1>4
<1>6. /\ DOMAIN ga = 1 .. Len(ga) /\ DOMAIN gc = 1 .. Len(gc) /\ DOMAIN gb = 1 .. Len(gb)
      /\ Len(gc) \in Nat /\ Len(gb) \in Nat
      /\ gc = <<>> <=> Len(gc) = 0
      /\ gb = <<>> <=> Len(gb) = 0
  BY <1>5, HeapTypes
<1>7. DOMAIN kc = 1 .. lc /\ DOMAIN h[c].ents = 1 .. le /\ lc \in Nat /\ le \in Nat
  BY <1>4, HeapTypes
<1>a. DOMAIN ga = 1 .. la + 1
  BY <1>1, <1>6
<1>b. Len(gc) = u /\ Len(gb) = lc - u => DOMAIN gc = 1 .. u /\ DOMAIN gb = 1 .. lc - u
  BY <1>6
<1> HIDE DEF ka, kc, ga, gc, gb, la, lc, le
<1>8. /\ i \in Nat /\ u \in Nat /\ i >= 1 /\ u >= 1 /\ i <= la /\ u <= le
  BY <1>1, <1>4, <1>7
<1>9. ASSUME NEW k \in DOMAIN ga
      PROVE  /\ k <= i => k \in DOMAIN ka /\ ga[k] = ka[k]
             /\ k = i + 1 => ga[k] = b
             /\ k > i + 1 => k - 1 \in DOMAIN ka /\ ga[k] = ka[k - 1]
  <2>1. k \in 1 .. la + 1
    BY <1>a
  <2>2. k > i + 1 => k - 1 \in DOMAIN ka /\ k - 1 > i /\ (k - 1) + 1 = k
    BY <2>1, <1>4, <1>8
  <2>3. k > i + 1 => ga[k] = ka[k - 1]
    <3> DEFINE m == k - 1
    <3>1. k > i + 1 => m \in DOMAIN ka /\ m > i /\ m + 1 = k
      BY <2>2
    <3> HIDE DEF m
    <3>2. k > i + 1 => ga[k] = ka[m]
      BY <3>1, <1>2
    <3> QED  BY <3>2 DEF m
  <2>4. k <= i => k \in DOMAIN ka
    BY <2>1, <1>4, <1>8
  <2> QED  BY <2>2, <2>3, <2>4, <1>2
<1>10. ASSUME NEW k \in DOMAIN ka
       PROVE  /\ k <= i => k \in DOMAIN ga /\ ga[k] = ka[k]
              /\ k > i => k + 1 \in DOMAIN ga /\ ga[k + 1] = ka[k]
  <2>1. k \in DOMAIN ga /\ k + 1 \in DOMAIN ga
    BY <1>a, <1>4
  <2> QED  BY <2>1, <1>2
<1>11. i + 1 \in DOMAIN ga
  BY <1>a, <1>4, <1>8
<1>12. ASSUME kc # <<>>, lc > u
       PROVE  /\ gc # <<>> /\ gb # <<>>
              /\ Len(gc) = u /\ Len(gb) = lc - u
              /\ \A k \in DOMAIN gc : k <= u /\ k \in DOMAIN kc /\ gc[k] = kc[k]
              /\ \A k \in DOMAIN gb : k + u \in DOMAIN kc /\ gb[k] = kc[k + u]
              /\ \A k \in DOMAIN kc :
                    /\ k <= u => k \in DOMAIN gc /\ gc[k] = kc[k]
                    /\ k > u => k - u \in DOMAIN gb /\ gb[k - u] = kc[k]
  <2>1. /\ Len(gc) = u /\ Len(gb) = lc - u
        /\ \A j \in 1 .. u : gc[j] = kc[j]
        /\ \A j \in u + 1 .. lc : gb[j - u] = kc[j]
    BY <1>12, <1>3
  <2>2. DOMAIN gc = 1 .. u /\ DOMAIN gb = 1 .. lc - u
    BY <1>b, <2>1
  <2>3. gc # <<>> /\ gb # <<>>
    BY <2>1, <1>6, <1>7, <1>8, <1>12
  <2>4. ASSUME NEW k \in DOMAIN gc PROVE k <= u /\ k \in DOMAIN kc /\ gc[k] = kc[k]
    <3>1. k \in 1 .. u
      BY <2>2
    <3> QED  BY <2>1, <3>1, <1>7, <1>8, <1>12
  <2>5. ASSUME NEW k \in DOMAIN gb PROVE k + u \in DOMAIN kc /\ gb[k] = kc[k + u]
    <3> DEFINE m == k + u
    <3>1. m \in u + 1 .. lc /\ m - u = k /\ m \in DOMAIN kc
      BY <2>2, <1>7, <1>8, <1>12
    <3> HIDE DEF m
    <3>2. m \in DOMAIN kc /\ gb[k] = kc[m]
      BY <2>1, <3>1
    <3> QED  BY <3>2 DEF m
  <2>6. ASSUME NEW k \in DOMAIN kc
        PROVE  /\ k <= u => k \in DOMAIN gc /\ gc[k] = kc[k]
               /\ k > u => k - u \in DOMAIN gb /\ gb[k - u] = kc[k]
    <3>1. k \in 1 .. lc /\ k \in Int
      BY <1>7
    <3>2. k <= u => k \in 1 .. u
      BY <3>1, <1>8
    <3>3. k > u => k \in u + 1 .. lc /\ k - u \in 1 .. lc - u
      BY <3>1, <1>7, <1>8
    <3> QED  BY <2>1, <2>2, <3>2, <3>3
  <2> QED  BY <2>1, <2>3, <2>4, <2>5, <2>6
<1>13. kc = <<>> => gc = <<>> /\ gb = <<>>
  BY <1>3
<1>14. SplitNodes(h, g, a, i, u, b, c)
  BY <1>1, <1>4, <1>5, <1>8 DEF ka, kc, ga, gc, gb, la, lc, le, SplitNodes
<1>15. SplitAbove(h, g, a, i, b)
  BY <1>9, <1>10, <1>11 DEF ka, kc, ga, gc, gb, la, lc, le, SplitAbove
<1>16. SplitBelow(h, g, u, b, c)
  BY <1>12, <1>13 DEF ka, kc, ga, gc, gb, la, lc, le, SplitBelow
<1> QED  BY <1>14, <1>15, <1>16

LEMMA TreeTypes ==
    ASSUME NEW E, NEW h, NEW r, NEW p, Heap(h, E), Tree(h, r, p), NEW x \in DOMAIN h
    PROVE  /\ p[x].level \in Nat /\ p[x].up \in Int /\ p[x].at \in Nat
           /\ p[x].level = 0 <=> h[x].kids = <<>>
           /\ h[x].kids # <<>> => Len(h[x].kids) = Len(h[x].ents) + 1
           /\ r \in DOMAIN h /\ p[x].level <= p[r].level
<1>1. p[x].level \in Nat /\ p[x].up \in Int /\ p[x].at \in Nat
  BY DEF Tree
<1>2. IF p[x].level = 0 THEN h[x].kids = <<>> ELSE Len(h[x].kids) = Len(h[x].ents) + 1
  BY DEF Tree
<1>3. Len(h[x].ents) \in Nat /\ (h[x].kids = <<>> <=> Len(h[x].kids) = 0)
  BY HeapTypes
<1>4. r \in DOMAIN h /\ p[x].level <= p[r].level
  BY DEF Tree
<1> QED  BY <1>1, <1>2, <1>3, <1>4

\* The children of a node are one level below it, and nobody else's.
LEMMA Kid ==
    ASSUME NEW E, NEW h, NEW r, NEW p, Heap(h, E), Tree(h, r, p),
           NEW a \in DOMAIN h, NEW k \in DOMAIN h[a].kids
    PROVE  LET x == h[a].kids[k]
           IN  /\ x \in DOMAIN h /\ x # a /\ x # r
               /\ p[x].level = p[a].level - 1 /\ p[x].up = a /\ p[x].at = k
               /\ p[a].level # 0
<1> DEFINE x == h[a].kids[k]
<1>1. x \in DOMAIN h /\ a \in Nat
  BY HeapTypes
<1>2. p[x].level = p[a].level - 1 /\ p[x].up = a /\ p[x].at = k
  BY DEF Tree
<1>3. p[x].level \in Nat /\ p[a].level \in Nat
  BY <1>1, TreeTypes
<1> HIDE DEF x
<1>5. x # r
  <2>1. p[r].up = NoTree
    BY DEF Tree
  <2> QED  BY <2>1, <1>1, <1>2 DEF NoTree
<1>6. x # a /\ p[a].level # 0
  BY <1>2, <1>3
<1> QED  BY <1>1, <1>2, <1>5, <1>6 DEF x

\* And every node but the root is a child.
LEMMA Parent ==
    ASSUME NEW E, NEW h, NEW r, NEW p, Heap(h, E), Tree(h, r, p), NEW x \in DOMAIN h, x # r
    PROVE  /\ p[x].up \in DOMAIN h /\ p[x].at \in DOMAIN h[p[x].up].kids
           /\ h[p[x].up].kids[p[x].at] = x /\ p[x].up # x
           /\ h[p[x].up].kids # <<>> /\ p[p[x].up].level = p[x].level + 1
<1>1. /\ p[x].up \in DOMAIN h /\ p[x].at \in DOMAIN h[p[x].up].kids
      /\ h[p[x].up].kids[p[x].at] = x
  BY DEF Tree
<1>2. x # p[x].up /\ p[x].level = p[p[x].up].level - 1
  BY <1>1, Kid
<1>3. p[x].level \in Nat /\ p[p[x].up].level \in Nat
  BY <1>1, TreeTypes
<1>4. h[p[x].up].kids # <<>>
  BY <1>1
<1> QED  BY <1>1, <1>2, <1>3, <1>4

\* Where the nodes are after a split.
SplitPlaces(h, g, p, a, i, u, b) ==
    LET c == h[a].kids[i]
    IN  [x \in DOMAIN g |->
           IF x = b THEN [level |-> p[c].level, up |-> a, at |-> i + 1]
           ELSE [level |-> p[x].level,
                 up |-> IF p[x].up = c /\ p[x].at > u THEN b ELSE p[x].up,
                 at |-> IF p[x].up = a /\ p[x].at > i THEN p[x].at + 1
                        ELSE IF p[x].up = c /\ p[x].at > u THEN p[x].at - u ELSE p[x].at]]

LEMMA SplitTree ==
    ASSUME NEW E, NEW h, NEW g, Heap(h, E), Heap(g, E),
           NEW a, NEW i, NEW u, NEW b, Splits(h, g, a, i, u, b),
           NEW r, NEW p, Tree(h, r, p)
    PROVE  Tree(g, r, SplitPlaces(h, g, p, a, i, u, b))
<1>c. PICK c : c = h[a].kids[i]
  OBVIOUS
<1> DEFINE q == SplitPlaces(h, g, p, a, i, u, b)
<1>1. a \in DOMAIN h /\ i \in DOMAIN h[a].kids
  BY DEF Splits
<1>2. /\ c \in DOMAIN h /\ c # a /\ c # r
      /\ p[c].level = p[a].level - 1 /\ p[c].up = a /\ p[c].at = i
  BY <1>1, <1>c, Kid
<1>s. /\ SplitNodes(h, g, a, i, u, b, c) /\ SplitAbove(h, g, a, i, b)
      /\ SplitBelow(h, g, u, b, c)
  BY <1>c, <1>2, SplitFacts
<1>3. /\ b \in DOMAIN g /\ a # b /\ c # b
      /\ a \in DOMAIN g /\ c \in DOMAIN g /\ b \notin DOMAIN h
      /\ DOMAIN g = DOMAIN h \cup {b}
      /\ a \in Nat /\ b \in Nat /\ c \in Nat /\ i \in Nat /\ u \in Nat /\ i >= 1 /\ u >= 1
  BY <1>s DEF SplitNodes
<1>n. \A x \in DOMAIN h : x # a /\ x # c => g[x] = h[x]
  BY <1>s DEF SplitNodes
<1>l. /\ Len(g[a].kids) = Len(h[a].kids) + 1 /\ Len(g[a].ents) = Len(h[a].ents) + 1
      /\ Len(g[c].ents) = u - 1 /\ Len(g[b].ents) = Len(h[c].ents) - u
  BY <1>s DEF SplitNodes
<1>4. /\ \A k \in DOMAIN g[a].kids :
            /\ k <= i => k \in DOMAIN h[a].kids /\ g[a].kids[k] = h[a].kids[k]
            /\ k = i + 1 => g[a].kids[k] = b
            /\ k > i + 1 => k - 1 \in DOMAIN h[a].kids /\ g[a].kids[k] = h[a].kids[k - 1]
      /\ i + 1 \in DOMAIN g[a].kids
  BY <1>s DEF SplitAbove
<1>4a. \A k \in DOMAIN h[a].kids :
          /\ k <= i => k \in DOMAIN g[a].kids /\ g[a].kids[k] = h[a].kids[k]
          /\ k > i => k + 1 \in DOMAIN g[a].kids /\ g[a].kids[k + 1] = h[a].kids[k]
  BY <1>s DEF SplitAbove
<1>l1. h[c].kids # <<>> => Len(h[c].kids) = Len(h[c].ents) + 1
  BY <1>2, TreeTypes
<1>l2. u <= Len(h[c].ents) /\ Len(h[c].ents) \in Nat
  BY <1>2, <1>s, HeapTypes DEF SplitNodes
<1>l3. h[c].kids # <<>> => Len(h[c].kids) > u
  <2>1. PICK le \in Nat : le = Len(h[c].ents) /\ u <= le
    BY <1>l2
  <2>2. le + 1 > u
    BY <2>1, <1>3
  <2> QED  BY <2>1, <2>2, <1>l1
<1>5. /\ h[c].kids = <<>> => g[c].kids = <<>> /\ g[b].kids = <<>>
      /\ h[c].kids # <<>> =>
         /\ g[c].kids # <<>> /\ g[b].kids # <<>>
         /\ Len(g[c].kids) = u /\ Len(g[b].kids) = Len(h[c].kids) - u
  BY <1>s, <1>l3 DEF SplitBelow
<1>5a. h[c].kids # <<>> =>
         /\ \A k \in DOMAIN g[c].kids : k <= u /\ k \in DOMAIN h[c].kids
                                        /\ g[c].kids[k] = h[c].kids[k]
         /\ \A k \in DOMAIN g[b].kids : k + u \in DOMAIN h[c].kids
                                        /\ g[b].kids[k] = h[c].kids[k + u]
  BY <1>s, <1>l3 DEF SplitBelow
<1>5b. h[c].kids # <<>> =>
         \A k \in DOMAIN h[c].kids :
               /\ k <= u => k \in DOMAIN g[c].kids /\ g[c].kids[k] = h[c].kids[k]
               /\ k > u => k - u \in DOMAIN g[b].kids /\ g[b].kids[k - u] = h[c].kids[k]
  BY <1>s, <1>l3 DEF SplitBelow
<1>6. \A x \in DOMAIN h : p[x].level \in Nat /\ p[x].up \in Int /\ p[x].at \in Nat
  BY TreeTypes
<1>7. q[b].level = p[c].level /\ q[b].up = a /\ q[b].at = i + 1
  BY <1>3, <1>c DEF SplitPlaces
<1>7a. \A x \in DOMAIN h : x \in DOMAIN g /\ q[x].level = p[x].level
  BY <1>3, <1>c DEF SplitPlaces
<1>7b. \A x \in DOMAIN h : q[x].up = IF p[x].up = c /\ p[x].at > u THEN b ELSE p[x].up
  BY <1>3, <1>c DEF SplitPlaces
<1>7c. \A x \in DOMAIN h : q[x].at = IF p[x].up = a /\ p[x].at > i THEN p[x].at + 1
                                     ELSE IF p[x].up = c /\ p[x].at > u THEN p[x].at - u ELSE p[x].at
  BY <1>3, <1>c DEF SplitPlaces
<1>8. q \in [DOMAIN g -> [level : Nat, up : Int, at : Nat]]
  <2> DEFINE rec(x) == IF x = b THEN [level |-> p[c].level, up |-> a, at |-> i + 1]
           ELSE [level |-> p[x].level,
                 up |-> IF p[x].up = c /\ p[x].at > u THEN b ELSE p[x].up,
                 at |-> IF p[x].up = a /\ p[x].at > i THEN p[x].at + 1
                        ELSE IF p[x].up = c /\ p[x].at > u THEN p[x].at - u ELSE p[x].at]
  <2>1. ASSUME NEW x \in DOMAIN g PROVE rec(x) \in [level : Nat, up : Int, at : Nat]
    <3>1. CASE x = b
      BY <3>1, <1>2, <1>3, <1>6
    <3>2. CASE x # b
      <4>1. x \in DOMAIN h
        BY <3>2, <1>3
      <4>2. PICK n \in Nat, m \in Int, l \in Nat : n = p[x].level /\ m = p[x].up /\ l = p[x].at
        BY <4>1, <1>6
      <4> QED  BY <3>2, <4>2, <1>3
    <3> QED  BY <3>1, <3>2
  <2> HIDE DEF rec
  <2>2. q = [x \in DOMAIN g |-> rec(x)]
    BY <1>c DEF SplitPlaces, rec
  <2> QED  BY <2>1, <2>2
<1> HIDE DEF q
<1>9. r \in DOMAIN g /\ q[r].up = NoTree /\ q[r].level = p[r].level
  <2>1. r \in DOMAIN h /\ p[r].up = NoTree
    BY DEF Tree
  <2>2. p[r].up # c
    BY <2>1, <1>3 DEF NoTree
  <2> QED  BY <2>1, <2>2, <1>7a, <1>7b
<1>9a. \A x \in DOMAIN g : q[x].level <= q[r].level
  <2>1. \A x \in DOMAIN h : p[x].level <= p[r].level
    BY DEF Tree
  <2> QED  BY <2>1, <1>2, <1>3, <1>7, <1>7a, <1>9
<1>10. \A y \in DOMAIN h : \A k \in DOMAIN h[y].kids :
          /\ h[y].kids[k] \in DOMAIN h
          /\ p[h[y].kids[k]].level = p[y].level - 1
          /\ p[h[y].kids[k]].up = y /\ p[h[y].kids[k]].at = k
  BY Kid
<1>k. \A y \in DOMAIN h : \A k \in DOMAIN h[y].kids : k \in Nat
  BY HeapTypes
<1>m. \A y \in DOMAIN g : \A k \in DOMAIN g[y].kids : k \in Nat /\ k >= 1
  <2>1. ASSUME NEW y \in DOMAIN g
        PROVE  DOMAIN g[y].kids = 1 .. Len(g[y].kids) /\ Len(g[y].kids) \in Nat
    BY HeapTypes
  <2> QED  BY <2>1
\* What becomes of the j-th child of a node.
<1>q. ASSUME NEW y \in DOMAIN h, NEW j \in DOMAIN h[y].kids
      PROVE  LET x == h[y].kids[j]
             IN  /\ x \in DOMAIN h /\ q[x].level = p[y].level - 1
                 /\ q[x].up = IF y = c /\ j > u THEN b ELSE y
                 /\ q[x].at = IF y = a /\ j > i THEN j + 1 ELSE IF y = c /\ j > u THEN j - u ELSE j
  <2>1. PICK x \in DOMAIN h : /\ x = h[y].kids[j] /\ p[x].level = p[y].level - 1
                              /\ p[x].up = y /\ p[x].at = j
    BY <1>10
  <2> QED  BY <2>1, <1>7a, <1>7b, <1>7c
<1>11. ASSUME NEW y \in DOMAIN g, NEW k \in DOMAIN g[y].kids
       PROVE  LET x == g[y].kids[k]
              IN  q[x].level = q[y].level - 1 /\ q[x].up = y /\ q[x].at = k
  <2>0. k \in Nat /\ k >= 1
    BY <1>m
  <2>1. CASE y = a
    <3>0. q[a].level = p[a].level
      BY <1>1, <1>7a
    <3>1. CASE k <= i
      <4>1. k \in DOMAIN h[a].kids /\ g[a].kids[k] = h[a].kids[k]
        BY <2>1, <3>1, <1>4
      <4> QED  BY <2>0, <2>1, <3>0, <3>1, <4>1, <1>1, <1>2, <1>3, <1>q
    <3>2. CASE k = i + 1
      <4>1. g[a].kids[k] = b
        BY <2>1, <3>2, <1>4
      <4> QED  BY <2>1, <3>0, <3>2, <4>1, <1>2, <1>7
    <3>3. CASE k > i + 1
      <4>1. PICK m \in DOMAIN h[a].kids : m = k - 1 /\ g[a].kids[k] = h[a].kids[m]
        BY <2>1, <3>3, <1>4
      <4>2. m > i /\ m + 1 = k
        BY <4>1, <3>3, <2>0, <1>3
      <4> QED  BY <2>1, <3>0, <4>1, <4>2, <1>1, <1>2, <1>q
    <3> QED  BY <3>1, <3>2, <3>3, <2>0, <1>3
  <2>2. CASE y = c
    <3>1. h[c].kids # <<>>
      BY <2>2, <1>5
    <3>2. k <= u /\ k \in DOMAIN h[c].kids /\ g[c].kids[k] = h[c].kids[k]
      BY <2>2, <3>1, <1>5a
    <3> QED  BY <2>0, <2>2, <3>2, <1>2, <1>3, <1>7a, <1>q
  <2>3. CASE y = b
    <3>1. h[c].kids # <<>>
      BY <2>3, <1>5
    <3>2. PICK m \in DOMAIN h[c].kids : m = k + u /\ g[b].kids[k] = h[c].kids[m]
      BY <2>3, <3>1, <1>5a
    <3>3. m > u /\ m - u = k
      BY <3>2, <2>0, <1>3
    <3> QED  BY <2>3, <3>2, <3>3, <1>2, <1>7, <1>q
  <2>4. CASE y # a /\ y # c /\ y # b
    <3>1. y \in DOMAIN h /\ g[y] = h[y]
      BY <2>4, <1>3, <1>n
    <3> QED  BY <2>4, <3>1, <1>7a, <1>q
  <2> QED  BY <2>1, <2>2, <2>3, <2>4
<1>12. ASSUME NEW x \in DOMAIN g, x # r
       PROVE  /\ q[x].up \in DOMAIN g /\ q[x].at \in DOMAIN g[q[x].up].kids
              /\ g[q[x].up].kids[q[x].at] = x
  <2>1. CASE x = b
    BY <2>1, <1>3, <1>4, <1>7
  <2>2. CASE x # b
    <3>1. x \in DOMAIN h
      BY <2>2, <1>3
    <3>2. \E y \in DOMAIN h : \E j \in DOMAIN h[y].kids :
             h[y].kids[j] = x /\ p[x].up = y /\ p[x].at = j
      BY <3>1, <1>12, Parent
    <3>y. PICK y \in DOMAIN h : \E j \in DOMAIN h[y].kids :
             h[y].kids[j] = x /\ p[x].up = y /\ p[x].at = j
      BY <3>2
    <3>j. PICK j \in DOMAIN h[y].kids : h[y].kids[j] = x /\ p[x].up = y /\ p[x].at = j
      BY <3>y
    <3>3. /\ q[x].up = IF y = c /\ j > u THEN b ELSE y
          /\ q[x].at = IF y = a /\ j > i THEN j + 1 ELSE IF y = c /\ j > u THEN j - u ELSE j
      BY <3>j, <1>q
    <3>4. CASE y = a
      <4>1. j \in Nat /\ (j <= i \/ j > i)
        BY <1>k, <1>3
      <4> QED  BY <3>j, <3>3, <3>4, <4>1, <1>2, <1>3, <1>4a
    <3>5. CASE y = c
      <4>1. h[c].kids # <<>> /\ j \in Nat /\ (j <= u \/ j > u)
        BY <3>5, <1>k, <1>3
      <4> QED  BY <3>j, <3>3, <3>5, <4>1, <1>2, <1>3, <1>5b
    <3>6. CASE y # a /\ y # c
      <4>1. g[y] = h[y]
        BY <3>6, <1>n
      <4> QED  BY <3>j, <3>3, <3>6, <4>1, <1>3
    <3> QED  BY <3>4, <3>5, <3>6
  <2> QED  BY <2>1, <2>2
<1>13. ASSUME NEW y \in DOMAIN g
       PROVE  IF q[y].level = 0 THEN g[y].kids = <<>> ELSE Len(g[y].kids) = Len(g[y].ents) + 1
  <2>0. \A z \in DOMAIN h : /\ p[z].level = 0 <=> h[z].kids = <<>>
                            /\ h[z].kids # <<>> => Len(h[z].kids) = Len(h[z].ents) + 1
    BY TreeTypes
  <2>1. CASE y = a
    <3>1. h[a].kids # <<>>
      BY <1>1
    <3>2. Len(h[a].kids) = Len(h[a].ents) + 1 /\ p[a].level # 0 /\ q[a].level = p[a].level
      BY <3>1, <2>0, <1>1, <1>7a
    <3> QED  BY <2>1, <3>2, <1>l
  <2>2. CASE y = c \/ y = b
    <3>1. q[y].level = p[c].level
      BY <2>2, <1>2, <1>7, <1>7a
    <3>2. CASE h[c].kids = <<>>
      BY <2>2, <3>1, <3>2, <2>0, <1>2, <1>5
    <3>3. CASE h[c].kids # <<>>
      <4>1. p[c].level # 0
        BY <3>3, <2>0, <1>2
      <4>2. PICK le \in Nat : le = Len(h[c].ents)
        BY <1>l2
      <4>3. CASE y = c
        <5>1. Len(g[c].kids) = u /\ Len(g[c].ents) = u - 1
          BY <3>3, <1>5, <1>l
        <5> QED  BY <3>1, <4>1, <4>3, <5>1, <1>3
      <4>4. CASE y = b
        <5>1. Len(g[b].kids) = (le + 1) - u /\ Len(g[b].ents) = le - u
          BY <3>3, <4>2, <1>5, <1>l, <1>l1
        <5>2. (le + 1) - u = (le - u) + 1
          BY <1>3
        <5> QED  BY <3>1, <4>1, <4>4, <5>1, <5>2
      <4> QED  BY <2>2, <4>3, <4>4
    <3> QED  BY <3>2, <3>3
  <2>3. CASE y # a /\ y # c /\ y # b
    <3>1. y \in DOMAIN h /\ g[y] = h[y]
      BY <2>3, <1>3, <1>n
    <3> QED  BY <3>1, <2>0, <1>7a
  <2> QED  BY <2>1, <2>2, <2>3
<1> QED  BY <1>8, <1>9, <1>9a, <1>11, <1>12, <1>13 DEF Tree, q

\* And back: where they are after the merge that undoes it.
MergePlaces(h, q, a, i, u, b, c) ==
    [x \in DOMAIN h |->
       [level |-> q[x].level,
        up |-> IF q[x].up = b THEN c ELSE q[x].up,
        at |-> IF q[x].up = a /\ q[x].at > i THEN q[x].at - 1
               ELSE IF q[x].up = b THEN q[x].at + u ELSE q[x].at]]

LEMMA MergeTree ==
    ASSUME NEW E, NEW h, NEW g, Heap(h, E), Heap(g, E),
           NEW a, NEW i, NEW u, NEW b, Splits(h, g, a, i, u, b),
           NEW r, NEW q, Tree(g, r, q), NEW c, c = h[a].kids[i]
    PROVE  Tree(h, r, MergePlaces(h, q, a, i, u, b, c))
<1> DEFINE p == MergePlaces(h, q, a, i, u, b, c)
<1>1. /\ a \in DOMAIN h /\ i \in DOMAIN h[a].kids /\ b \in Nat /\ b \notin DOMAIN h
      /\ DOMAIN g = DOMAIN h \cup {b} /\ g[a].kids[i + 1] = b
      /\ Len(g[a].kids) = Len(h[a].kids) + 1
  BY DEF Splits
<1>a. /\ \A j \in DOMAIN h[a].kids : j <= i => g[a].kids[j] = h[a].kids[j]
      /\ IF h[c].kids = <<>> THEN g[c].kids = <<>> /\ g[b].kids = <<>>
         ELSE Len(g[c].kids) = u /\ Len(g[b].kids) = Len(h[c].kids) - u
      /\ c = h[a].kids[i]
  BY DEF Splits
<1>b. /\ a \in DOMAIN g /\ b \in DOMAIN g /\ c \in DOMAIN h /\ c \in DOMAIN g /\ c \in Nat /\ a \in Nat
      /\ i \in Nat /\ i \in DOMAIN g[a].kids /\ i + 1 \in DOMAIN g[a].kids /\ g[a].kids[i] = c
  <2>1. a \in DOMAIN g /\ b \in DOMAIN g /\ c \in DOMAIN h /\ c \in DOMAIN g
    BY <1>1, <1>a, HeapTypes
  <2>2. PICK la \in Nat : /\ la = Len(h[a].kids) /\ DOMAIN h[a].kids = 1 .. la
                          /\ DOMAIN g[a].kids = 1 .. la + 1
    BY <2>1, <1>1, HeapTypes
  <2>3. i \in 1 .. la
    BY <2>2, <1>1
  <2>4. i \in Nat /\ i \in DOMAIN g[a].kids /\ i + 1 \in DOMAIN g[a].kids
    BY <2>2, <2>3
  <2>5. a \in Nat /\ c \in Nat
    BY <2>1, HeapTypes
  <2>6. g[a].kids[i] = c
    BY <2>4, <1>1, <1>a
  <2> QED  BY <2>1, <2>4, <2>5, <2>6
<1>2. /\ c # a /\ c # r /\ q[c].level = q[a].level - 1 /\ q[c].up = a /\ q[c].at = i
      /\ b # a /\ b # r /\ q[b].level = q[a].level - 1 /\ q[b].up = a /\ q[b].at = i + 1
  BY <1>1, <1>b, Kid
<1>s. /\ SplitNodes(h, g, a, i, u, b, c) /\ SplitAbove(h, g, a, i, b)
      /\ SplitBelow(h, g, u, b, c)
  BY <1>a, <1>2, SplitFacts
<1>3. /\ b \in DOMAIN g /\ a # b /\ c # b
      /\ a \in DOMAIN g /\ c \in DOMAIN g /\ b \notin DOMAIN h
      /\ DOMAIN g = DOMAIN h \cup {b}
      /\ a \in Nat /\ b \in Nat /\ c \in Nat /\ i \in Nat /\ u \in Nat /\ i >= 1 /\ u >= 1
  BY <1>s DEF SplitNodes
<1>n. \A x \in DOMAIN h : x # a /\ x # c => g[x] = h[x]
  BY <1>s DEF SplitNodes
<1>l. /\ Len(g[a].kids) = Len(h[a].kids) + 1 /\ Len(g[a].ents) = Len(h[a].ents) + 1
      /\ Len(g[c].ents) = u - 1 /\ Len(g[b].ents) = Len(h[c].ents) - u
  BY <1>s DEF SplitNodes
<1>4. \A k \in DOMAIN g[a].kids :
            /\ k <= i => k \in DOMAIN h[a].kids /\ g[a].kids[k] = h[a].kids[k]
            /\ k = i + 1 => g[a].kids[k] = b
            /\ k > i + 1 => k - 1 \in DOMAIN h[a].kids /\ g[a].kids[k] = h[a].kids[k - 1]
  BY <1>s DEF SplitAbove
<1>4a. \A k \in DOMAIN h[a].kids :
          /\ k <= i => k \in DOMAIN g[a].kids /\ g[a].kids[k] = h[a].kids[k]
          /\ k > i => k + 1 \in DOMAIN g[a].kids /\ g[a].kids[k + 1] = h[a].kids[k]
  BY <1>s DEF SplitAbove
<1>t. \A z \in DOMAIN g : /\ q[z].level \in Nat /\ q[z].up \in Int /\ q[z].at \in Nat
                          /\ q[z].level = 0 <=> g[z].kids = <<>>
                          /\ g[z].kids # <<>> => Len(g[z].kids) = Len(g[z].ents) + 1
  BY TreeTypes
<1>l2. /\ u <= Len(h[c].ents) /\ Len(h[c].ents) \in Nat
       /\ Len(h[c].kids) \in Nat /\ (h[c].kids = <<>> <=> Len(h[c].kids) = 0)
       /\ Len(g[b].kids) \in Nat /\ (g[b].kids = <<>> <=> Len(g[b].kids) = 0)
       /\ (g[c].kids = <<>> <=> Len(g[c].kids) = 0)
  <2>1. u <= Len(h[c].ents)
    BY <1>s DEF SplitNodes
  <2>2. /\ Len(h[c].ents) \in Nat /\ Len(h[c].kids) \in Nat
        /\ (h[c].kids = <<>> <=> Len(h[c].kids) = 0)
    BY <1>b, HeapTypes
  <2>3. /\ Len(g[b].kids) \in Nat /\ (g[b].kids = <<>> <=> Len(g[b].kids) = 0)
        /\ (g[c].kids = <<>> <=> Len(g[c].kids) = 0)
    BY <1>b, HeapTypes
  <2> QED  BY <2>1, <2>2, <2>3
<1>l3. h[c].kids # <<>> => Len(h[c].kids) > u
  <2> SUFFICES ASSUME h[c].kids # <<>> PROVE Len(h[c].kids) > u
    OBVIOUS
  <2>1. Len(g[c].kids) = u /\ Len(g[b].kids) = Len(h[c].kids) - u
    BY <1>a
  <2>2. g[c].kids # <<>>
    BY <2>1, <1>3, <1>l2
  <2>3. g[b].kids # <<>>
    BY <2>2, <1>2, <1>b, <1>t
  <2>4. PICK m \in Nat, n \in Nat : m = Len(g[b].kids) /\ m # 0 /\ n = Len(h[c].kids) /\ m = n - u
    BY <2>1, <2>3, <1>l2
  <2>5. n > u
    BY <2>4, <1>3
  <2> QED  BY <2>4, <2>5
<1>5. /\ h[c].kids = <<>> => g[c].kids = <<>> /\ g[b].kids = <<>>
      /\ h[c].kids # <<>> =>
         /\ g[c].kids # <<>> /\ g[b].kids # <<>>
         /\ Len(g[c].kids) = u /\ Len(g[b].kids) = Len(h[c].kids) - u
  BY <1>s, <1>l3 DEF SplitBelow
<1>5a. h[c].kids # <<>> =>
         /\ \A k \in DOMAIN g[c].kids : k <= u /\ k \in DOMAIN h[c].kids
                                        /\ g[c].kids[k] = h[c].kids[k]
         /\ \A k \in DOMAIN g[b].kids : k + u \in DOMAIN h[c].kids
                                        /\ g[b].kids[k] = h[c].kids[k + u]
  BY <1>s, <1>l3 DEF SplitBelow
<1>5b. h[c].kids # <<>> =>
         \A k \in DOMAIN h[c].kids :
               /\ k <= u => k \in DOMAIN g[c].kids /\ g[c].kids[k] = h[c].kids[k]
               /\ k > u => k - u \in DOMAIN g[b].kids /\ g[b].kids[k - u] = h[c].kids[k]
  BY <1>s, <1>l3 DEF SplitBelow
<1>7. \A x \in DOMAIN h : /\ x \in DOMAIN g /\ p[x].level = q[x].level
                          /\ p[x].up = IF q[x].up = b THEN c ELSE q[x].up
  BY <1>3 DEF MergePlaces
<1>7a. \A x \in DOMAIN h : p[x].at = IF q[x].up = a /\ q[x].at > i THEN q[x].at - 1
                                    ELSE IF q[x].up = b THEN q[x].at + u ELSE q[x].at
  BY <1>3 DEF MergePlaces
<1>8. p \in [DOMAIN h -> [level : Nat, up : Int, at : Nat]]
  <2> DEFINE rec(x) ==
               [level |-> q[x].level,
                up |-> IF q[x].up = b THEN c ELSE q[x].up,
                at |-> IF q[x].up = a /\ q[x].at > i THEN q[x].at - 1
                       ELSE IF q[x].up = b THEN q[x].at + u ELSE q[x].at]
  <2>1. ASSUME NEW x \in DOMAIN h PROVE rec(x) \in [level : Nat, up : Int, at : Nat]
    <3>2. PICK n \in Nat, m \in Int, l \in Nat : n = q[x].level /\ m = q[x].up /\ l = q[x].at
      BY <1>t, <1>3
    <3> QED  BY <3>2, <1>3
  <2> HIDE DEF rec
  <2>2. p = [x \in DOMAIN h |-> rec(x)]
    BY DEF MergePlaces, rec
  <2> QED  BY <2>1, <2>2
<1> HIDE DEF p
<1>9. r \in DOMAIN h /\ p[r].up = NoTree /\ p[r].level = q[r].level
  <2>1. r \in DOMAIN g /\ q[r].up = NoTree
    BY DEF Tree
  <2>2. q[r].up # b /\ r \in DOMAIN h
    BY <2>1, <1>2, <1>3 DEF NoTree
  <2> QED  BY <2>1, <2>2, <1>7
<1>9a. \A x \in DOMAIN h : p[x].level <= p[r].level
  <2>1. \A x \in DOMAIN g : q[x].level <= q[r].level
    BY DEF Tree
  <2> QED  BY <2>1, <1>7, <1>9
<1>10. \A y \in DOMAIN g : \A k \in DOMAIN g[y].kids :
          /\ g[y].kids[k] \in DOMAIN g
          /\ q[g[y].kids[k]].level = q[y].level - 1
          /\ q[g[y].kids[k]].up = y /\ q[g[y].kids[k]].at = k
  BY Kid
<1>k. \A y \in DOMAIN h : \A k \in DOMAIN h[y].kids : k \in Nat /\ h[y].kids[k] \in DOMAIN h
  BY SMTT(40), HeapTypes
<1>m. \A y \in DOMAIN g : \A k \in DOMAIN g[y].kids : k \in Nat /\ k >= 1
  <2>1. ASSUME NEW y \in DOMAIN g
        PROVE  DOMAIN g[y].kids = 1 .. Len(g[y].kids) /\ Len(g[y].kids) \in Nat
    BY HeapTypes
  <2> QED  BY <2>1
\* What becomes of the j-th child of a node.
<1>q. ASSUME NEW y \in DOMAIN g, NEW j \in DOMAIN g[y].kids, g[y].kids[j] # b
      PROVE  LET x == g[y].kids[j]
             IN  /\ x \in DOMAIN h /\ p[x].level = q[y].level - 1
                 /\ p[x].up = IF y = b THEN c ELSE y
                 /\ p[x].at = IF y = a /\ j > i THEN j - 1 ELSE IF y = b THEN j + u ELSE j
  <2>1. PICK x \in DOMAIN g : /\ x = g[y].kids[j] /\ q[x].level = q[y].level - 1
                              /\ q[x].up = y /\ q[x].at = j
    BY <1>10
  <2>2. x \in DOMAIN h
    BY <2>1, <1>q, <1>3
  <2> QED  BY <2>1, <2>2, <1>7, <1>7a
<1>11. ASSUME NEW y \in DOMAIN h, NEW k \in DOMAIN h[y].kids
       PROVE  LET x == h[y].kids[k]
              IN  p[x].level = p[y].level - 1 /\ p[x].up = y /\ p[x].at = k
  <2>0. k \in Nat /\ h[y].kids[k] # b /\ y \in DOMAIN g /\ y # b
    BY <1>k, <1>3
  <2>1. CASE y = a
    <3>0. p[a].level = q[a].level
      BY <1>1, <1>7
    <3>1. CASE k <= i
      <4>1. k \in DOMAIN g[a].kids /\ g[a].kids[k] = h[a].kids[k]
        BY <2>1, <3>1, <1>4a
      <4> QED  BY <2>0, <2>1, <3>0, <3>1, <4>1, <1>3, <1>q
    <3>2. CASE k > i
      <4>1. PICK m \in DOMAIN g[a].kids : m = k + 1 /\ g[a].kids[m] = h[a].kids[k]
        BY <2>1, <3>2, <1>4a
      <4>2. m > i /\ m - 1 = k
        BY <4>1, <3>2, <2>0, <1>3
      <4> QED  BY <2>0, <2>1, <3>0, <4>1, <4>2, <1>3, <1>q
    <3> QED  BY <3>1, <3>2, <2>0, <1>3
  <2>2. CASE y = c
    <3>0. h[c].kids # <<>> /\ p[c].level = q[c].level /\ q[b].level = q[c].level
      BY <2>2, <1>2, <1>7
    <3>1. CASE k <= u
      <4>1. k \in DOMAIN g[c].kids /\ g[c].kids[k] = h[c].kids[k]
        BY <2>2, <3>0, <3>1, <1>5b
      <4>2. LET x == g[c].kids[k]
            IN  p[x].level = q[c].level - 1 /\ p[x].up = c /\ p[x].at = k
        BY <2>0, <2>2, <4>1, <1>2, <1>3, <1>q
      <4> QED  BY <2>2, <3>0, <4>1, <4>2
    <3>2. CASE k > u
      <4>1. PICK m \in DOMAIN g[b].kids : m = k - u /\ g[b].kids[m] = h[c].kids[k]
        BY <2>2, <3>0, <3>2, <1>5b
      <4>2. m + u = k
        BY <4>1, <2>0, <1>3
      <4> QED  BY SMTT(40), <2>0, <2>2, <3>0, <4>1, <4>2, <1>3, <1>q
    <3> QED  BY <3>1, <3>2, <2>0, <1>3
  <2>3. CASE y # a /\ y # c
    <3>1. y \in DOMAIN g /\ g[y] = h[y]
      BY <2>3, <1>3, <1>n
    <3>2. k \in DOMAIN g[y].kids /\ g[y].kids[k] # b /\ g[y].kids[k] = h[y].kids[k]
      BY <2>0, <3>1
    <3>3. p[y].level = q[y].level
      BY <1>7
    <3>4. LET x == g[y].kids[k]
          IN  p[x].level = q[y].level - 1 /\ p[x].up = y /\ p[x].at = k
      BY <2>0, <2>3, <3>1, <3>2, <1>q
    <3> QED  BY <3>2, <3>3, <3>4
  <2> QED  BY <2>1, <2>2, <2>3
<1>12. ASSUME NEW x \in DOMAIN h, x # r
       PROVE  /\ p[x].up \in DOMAIN h /\ p[x].at \in DOMAIN h[p[x].up].kids
              /\ h[p[x].up].kids[p[x].at] = x
  <2>0. x \in DOMAIN g /\ x # b
    BY <1>3
  <2>1. \E y \in DOMAIN g : \E j \in DOMAIN g[y].kids : g[y].kids[j] = x
    BY <2>0, <1>12, Parent
  <2>y. PICK y \in DOMAIN g : \E j \in DOMAIN g[y].kids : g[y].kids[j] = x
    BY <2>1
  <2>j. PICK j \in DOMAIN g[y].kids : g[y].kids[j] = x
    BY <2>y
  <2>3. /\ p[x].up = IF y = b THEN c ELSE y
        /\ p[x].at = IF y = a /\ j > i THEN j - 1 ELSE IF y = b THEN j + u ELSE j
    BY <2>0, <2>j, <1>q
  <2>4. CASE y = a
    <3>1. j \in Nat /\ j # i + 1
      BY <2>0, <2>j, <2>4, <1>4, <1>m
    <3>2. CASE j <= i
      BY <2>j, <2>3, <2>4, <3>1, <3>2, <1>1, <1>3, <1>4
    <3>3. CASE j > i + 1
      <4>1. j - 1 \in DOMAIN h[a].kids /\ h[a].kids[j - 1] = x /\ j > i
        BY <2>j, <2>4, <3>1, <3>3, <1>3, <1>4
      <4> QED  BY <2>3, <2>4, <4>1, <1>1, <1>3
    <3> QED  BY <3>1, <3>2, <3>3, <1>3
  <2>5. CASE y = c \/ y = b
    <3>1. h[c].kids # <<>>
      BY <2>5, <2>j, <1>5
    <3>2. CASE y = c
      BY <2>j, <2>3, <3>1, <3>2, <1>2, <1>b, <1>3, <1>5a
    <3>3. CASE y = b
      BY <2>j, <2>3, <3>1, <3>3, <1>2, <1>b, <1>3, <1>5a
    <3> QED  BY <2>5, <3>2, <3>3
  <2>6. CASE y # a /\ y # c /\ y # b
    <3>1. y \in DOMAIN h /\ g[y] = h[y]
      BY <2>6, <1>3, <1>n
    <3> QED  BY <2>j, <2>3, <2>6, <3>1
  <2> QED  BY <2>4, <2>5, <2>6
<1>13. ASSUME NEW y \in DOMAIN h
       PROVE  IF p[y].level = 0 THEN h[y].kids = <<>> ELSE Len(h[y].kids) = Len(h[y].ents) + 1
  <2>1. CASE y = a
    <3>1. g[a].kids # <<>>
      BY <1>b
    <3>2. Len(g[a].kids) = Len(g[a].ents) + 1 /\ p[a].level # 0
      BY <3>1, <1>t, <1>1, <1>3, <1>7
    <3>3. Len(h[a].kids) \in Nat /\ Len(h[a].ents) \in Nat
      BY <1>1, HeapTypes
    <3> QED  BY <2>1, <3>2, <3>3, <1>l
  <2>2. CASE y = c
    <3>1. p[c].level = q[c].level /\ q[b].level = q[c].level
      BY <1>2, <1>b, <1>7
    <3>2. CASE h[c].kids = <<>>
      BY <2>2, <3>1, <3>2, <1>t, <1>3, <1>5
    <3>3. CASE h[c].kids # <<>>
      <4>1. p[c].level # 0
        BY <3>1, <3>3, <1>t, <1>3, <1>5
      <4>2. PICK le \in Nat : le = Len(h[c].ents)
        BY <1>l2
      <4>3. PICK lk \in Nat : lk = Len(h[c].kids)
        BY <1>l2
      <4>4. lk - u = (le - u) + 1
        BY <3>3, <4>2, <4>3, <1>t, <1>3, <1>5, <1>l
      <4>5. lk = le + 1
        BY <4>4, <1>3
      <4> QED  BY <2>2, <4>1, <4>2, <4>3, <4>5
    <3> QED  BY <3>2, <3>3
  <2>3. CASE y # a /\ y # c
    <3>1. y \in DOMAIN g /\ g[y] = h[y]
      BY <2>3, <1>3, <1>n
    <3> QED  BY <3>1, <1>t, <1>7
  <2> QED  BY <2>1, <2>2, <2>3
<1> QED  BY <1>8, <1>9, <1>9a, <1>11, <1>12, <1>13 DEF Tree, p

-----------------------------------------------------------------------------
(* A node with its children, and what is written over them                   *)

LEMMA ViewIs ==
    ASSUME NEW E, NEW h, Heap(h, E), NEW a \in DOMAIN h, NEW S,
           \A i \in DOMAIN h[a].kids : h[h[a].kids[i]] \in Nodes(E, S)
    PROVE  /\ View(h, a) \in Nodes(E, Nodes(E, S))
           /\ View(h, a).ents = h[a].ents
           /\ Len(View(h, a).kids) = Len(h[a].kids)
           /\ DOMAIN View(h, a).kids = DOMAIN h[a].kids
           /\ \A i \in DOMAIN h[a].kids : View(h, a).kids[i] = h[h[a].kids[i]]
           /\ IsLeaf(View(h, a)) <=> IsLeaf(h[a])
<1> DEFINE K == [i \in DOMAIN h[a].kids |-> h[h[a].kids[i]]]
<1>1. PICK n \in Nat : n = Len(h[a].kids) /\ DOMAIN h[a].kids = 1 .. n
  BY HeapTypes
<1>2. K \in [1 .. n -> Nodes(E, S)] /\ \A i \in DOMAIN h[a].kids : K[i] = h[h[a].kids[i]]
  BY <1>1
<1>3. View(h, a).ents = h[a].ents /\ View(h, a).kids = <<>> \o K
  BY DEF View
<1> HIDE DEF K
<1>4. K \in Seq(Nodes(E, S)) /\ Len(K) = n
  BY <1>2, FunctionIsSeq
<1>5. <<>> \o K = K /\ DOMAIN K = 1 .. n
  BY <1>2, <1>4, ConcatEmptySeq
<1>6. View(h, a) \in Nodes(E, Nodes(E, S))
  BY <1>3, <1>4, <1>5, HeapTypes DEF View, Nodes
<1>7. IsLeaf(View(h, a)) <=> IsLeaf(h[a])
  <2>1. K = <<>> <=> n = 0
    BY <1>4
  <2> QED  BY <1>1, <1>3, <1>5, <2>1, HeapTypes DEF IsLeaf
<1> QED  BY <1>1, <1>2, <1>3, <1>4, <1>5, <1>6, <1>7

LEMMA Viewed ==
    ASSUME NEW E, NEW h, Heap(h, E), NEW a \in DOMAIN h
    PROVE  /\ View(h, a) \in Nodes(E, Nodes(E, DOMAIN h))
           /\ View(h, a).ents = h[a].ents
           /\ Len(View(h, a).kids) = Len(h[a].kids)
           /\ DOMAIN View(h, a).kids = DOMAIN h[a].kids
           /\ \A i \in DOMAIN h[a].kids : View(h, a).kids[i] = h[h[a].kids[i]]
           /\ IsLeaf(View(h, a)) <=> IsLeaf(h[a])
<1>1. PICK S : S = DOMAIN h
  OBVIOUS
<1>2. \A i \in DOMAIN h[a].kids : h[h[a].kids[i]] \in Nodes(E, S)
  BY <1>1, HeapTypes DEF Heap
<1> QED  BY <1>1, <1>2, ViewIs

\* In a tree the children of the children are not among the children.
Others(h, p, a) == {x \in DOMAIN h : p[x].up # a}

LEMMA TreeView ==
    ASSUME NEW E, NEW h, NEW r, NEW p, Heap(h, E), Tree(h, r, p), NEW a \in DOMAIN h
    PROVE  /\ View(h, a) \in Nodes(E, Nodes(E, Others(h, p, a)))
           /\ View(h, a).ents = h[a].ents
           /\ Len(View(h, a).kids) = Len(h[a].kids)
           /\ DOMAIN View(h, a).kids = DOMAIN h[a].kids
           /\ \A i \in DOMAIN h[a].kids : View(h, a).kids[i] = h[h[a].kids[i]]
           /\ IsLeaf(View(h, a)) <=> IsLeaf(h[a])
           /\ h[a].kids # <<>> => Shaped(View(h, a))
<1>1. ASSUME NEW i \in DOMAIN h[a].kids
      PROVE  h[h[a].kids[i]] \in Nodes(E, Others(h, p, a))
  <2>1. PICK c \in DOMAIN h : c = h[a].kids[i] /\ c # a
    BY Kid
  <2>2. h[c] \in Nodes(E, DOMAIN h)
    BY DEF Heap
  <2>3. h[c].ents \in Seq(E) /\ h[c].kids \in Seq(DOMAIN h) /\ h[c] = [ents |-> h[c].ents, kids |-> h[c].kids]
    BY <2>2 DEF Nodes
  <2>4. PICK n \in Nat : n = Len(h[c].kids) /\ h[c].kids \in [1 .. n -> DOMAIN h]
    BY <2>3
  <2>5. DOMAIN h[c].kids = 1 .. n /\ \A k \in 1 .. n : p[h[c].kids[k]].up = c
    BY <2>4, Kid
  <2>6. h[c].kids \in [1 .. n -> Others(h, p, a)]
    BY <2>1, <2>4, <2>5 DEF Others
  <2>7. h[c].kids \in Seq(Others(h, p, a))
    BY <2>6, FunctionIsSeq
  <2> QED  BY <2>1, <2>3, <2>7 DEF Nodes
<1>2. /\ View(h, a) \in Nodes(E, Nodes(E, Others(h, p, a)))
      /\ View(h, a).ents = h[a].ents
      /\ Len(View(h, a).kids) = Len(h[a].kids)
      /\ DOMAIN View(h, a).kids = DOMAIN h[a].kids
      /\ \A i \in DOMAIN h[a].kids : View(h, a).kids[i] = h[h[a].kids[i]]
      /\ IsLeaf(View(h, a)) <=> IsLeaf(h[a])
  BY <1>1, ViewIs
<1>3. ASSUME h[a].kids # <<>> PROVE Shaped(View(h, a))
  <2>1. Len(h[a].kids) = Len(h[a].ents) + 1
    BY <1>3, TreeTypes
  <2>2. ASSUME NEW i \in DOMAIN h[a].kids
        PROVE  Fits(h[h[a].kids[i]]) /\ (IsLeaf(h[h[a].kids[i]]) <=> p[a].level - 1 = 0)
    <3>1. PICK c \in DOMAIN h : c = h[a].kids[i] /\ p[c].level = p[a].level - 1
      BY Kid
    <3>2. /\ p[c].level = 0 <=> h[c].kids = <<>>
          /\ h[c].kids # <<>> => Len(h[c].kids) = Len(h[c].ents) + 1
      BY TreeTypes
    <3> QED  BY <3>1, <3>2 DEF Fits, IsLeaf, Count
  <2> QED  BY <1>2, <2>1, <2>2 DEF Shaped, Count
<1> QED  BY <1>2, <1>3

\* What is written: the node and its children, in their places, and no other.
Written(h, g, a, n, ids) ==
    /\ DOMAIN g = (DOMAIN h \ Range(h[a].kids)) \cup Range(ids)
    /\ a \in DOMAIN g /\ g[a].ents = n.ents /\ g[a].kids = ids
    /\ \A j \in DOMAIN ids : ids[j] \in DOMAIN g /\ g[ids[j]] = n.kids[j]
    /\ \A x \in DOMAIN g : x # a /\ x \notin Range(ids) =>
          x \in DOMAIN h /\ x \notin Range(h[a].kids) /\ g[x] = h[x]
    /\ View(g, a) = n

LEMMA RewriteIs ==
    ASSUME NEW E, NEW h, NEW r, NEW p, Heap(h, E), Tree(h, r, p), NEW a \in DOMAIN h,
           NEW n \in Nodes(E, Nodes(E, Others(h, p, a))),
           NEW ids \in Seq(Nat), Len(ids) = Len(n.kids), a \notin Range(ids),
           \A i, j \in DOMAIN ids : ids[i] = ids[j] => i = j
    PROVE  LET g == Rewrite(h, a, n, ids)
           IN  Heap(g, E) /\ Written(h, g, a, n, ids)
<1> DEFINE K == Range(h[a].kids)  R == Range(ids)  D == (DOMAIN h \ K) \cup R
           g == Rewrite(h, a, n, ids)
<1>1. /\ n.ents \in Seq(E) /\ n.kids \in Seq(Nodes(E, Others(h, p, a)))
      /\ n = [ents |-> n.ents, kids |-> n.kids]
  BY DEF Nodes
<1>2. PICK l \in Nat : /\ l = Len(ids) /\ DOMAIN ids = 1 .. l /\ DOMAIN n.kids = 1 .. l
                       /\ \A j \in 1 .. l : n.kids[j] \in Nodes(E, Others(h, p, a)) /\ ids[j] \in Nat
  BY <1>1
<1>3. R = {ids[j] : j \in 1 .. l} /\ \A j \in 1 .. l : ids[j] \in R
  BY <1>2 DEF Range
<1>4. K = {h[a].kids[i] : i \in DOMAIN h[a].kids} /\ a \notin K
  <2>1. K = {h[a].kids[i] : i \in DOMAIN h[a].kids}
    BY DEF Range
  <2> QED  BY <2>1, Kid
<1>5. a \in D /\ Others(h, p, a) \subseteq D
  <2>1. ASSUME NEW x \in Others(h, p, a) PROVE x \notin K
    BY <1>4, Kid DEF Others
  <2> QED  BY <1>4, <2>1 DEF Others
<1>6. DOMAIN g = D
  BY DEF Rewrite
<1>7. g[a] = [ents |-> n.ents, kids |-> ids]
  BY <1>5, <1>6 DEF Rewrite
<1>8. ASSUME NEW j \in 1 .. l PROVE ids[j] \in D /\ g[ids[j]] = n.kids[j]
  <2>1. ids[j] \in R /\ ids[j] # a
    BY <1>3
  <2>2. g[ids[j]] = n.kids[CHOOSE i \in DOMAIN ids : ids[i] = ids[j]]
    BY <2>1, <1>6 DEF Rewrite
  <2>3. (CHOOSE i \in DOMAIN ids : ids[i] = ids[j]) = j
    BY <1>2
  <2> QED  BY <2>1, <2>2, <2>3
<1>9. ASSUME NEW x \in D, x # a, x \notin R PROVE x \in DOMAIN h /\ x \notin K /\ g[x] = h[x]
  BY <1>9, <1>6 DEF Rewrite
<1> HIDE DEF g
<1>10. \A x \in D : g[x] \in Nodes(E, D)
  <2>1. Nodes(E, Others(h, p, a)) \subseteq Nodes(E, D)
    <3>1. Seq(Others(h, p, a)) \subseteq Seq(D)
      BY <1>5
    <3> QED  BY <3>1 DEF Nodes
  <2>2. g[a] \in Nodes(E, D)
    <3>1. ids \in [1 .. l -> D]
      BY <1>2, <1>8
    <3>2. ids \in Seq(D)
      BY <3>1, FunctionIsSeq
    <3> QED  BY <3>2, <1>1, <1>7 DEF Nodes
  <2>3. \A j \in 1 .. l : g[ids[j]] \in Nodes(E, D)
    BY <2>1, <1>2, <1>8
  <2>4. ASSUME NEW x \in D, x # a, x \notin R PROVE g[x] \in Nodes(E, D)
    <3>1. x \in DOMAIN h /\ x \notin K /\ g[x] = h[x]
      BY <2>4, <1>9
    <3>2. h[x] \in Nodes(E, DOMAIN h)
      BY <3>1 DEF Heap
    <3>3. h[x].ents \in Seq(E) /\ h[x] = [ents |-> h[x].ents, kids |-> h[x].kids]
      BY <3>2 DEF Nodes
    <3>s. h[x].kids \in Seq(DOMAIN h)
      BY <3>2 DEF Nodes
    <3>4. PICK m \in Nat : DOMAIN h[x].kids = 1 .. m /\ h[x].kids \in [1 .. m -> DOMAIN h]
      BY <3>s
    <3>5. \A k \in 1 .. m : h[x].kids[k] \in Others(h, p, a)
      BY <3>1, <3>4, <2>4, Kid DEF Others
    <3>6. h[x].kids \in [1 .. m -> D]
      BY <3>4, <3>5, <1>5
    <3>7. h[x].kids \in Seq(D)
      BY <3>6, FunctionIsSeq
    <3> QED  BY <3>1, <3>3, <3>7 DEF Nodes
  <2> QED  BY <2>2, <2>3, <2>4, <1>3
<1>11. D \subseteq Nat /\ IsFiniteSet(D)
  <2>1. DOMAIN h \subseteq Nat /\ IsFiniteSet(DOMAIN h)
    BY DEF Heap
  <2>2. IsFiniteSet(DOMAIN h \ K)
    BY <2>1, FS_Subset
  <2>3. IsFiniteSet(R)
    <3>1. IsFiniteSet(1 .. l)
      BY FS_Interval
    <3> HIDE DEF R
    <3>2. ids \in [1 .. l -> R]
      BY <1>2, <1>3
    <3>3. ids \in Surjection(1 .. l, R)
      BY <3>2, <1>3 DEF Surjection
    <3> QED  BY <3>1, <3>3, FS_Surjection
  <2> HIDE DEF R, K
  <2>4. IsFiniteSet(D)
    BY <2>2, <2>3, FS_Union
  <2>5. R \subseteq Nat
    BY <1>2, <1>3
  <2> QED  BY <2>1, <2>4, <2>5
<1>12. Heap(g, E)
  <2>1. g = [x \in D |-> g[x]]
    BY <1>6 DEF g, Rewrite
  <2> QED  BY <1>6, <1>10, <1>11, <2>1 DEF Heap
<1>13. View(g, a) = n
  <2>1. a \in DOMAIN g /\ DOMAIN g[a].kids = 1 .. l /\ Len(g[a].kids) = l
    BY <1>2, <1>5, <1>6, <1>7
  <2>2. \A i \in DOMAIN g[a].kids : g[g[a].kids[i]] = n.kids[i]
    BY <2>1, <1>7, <1>8
  <2>3. \A i \in DOMAIN g[a].kids : g[g[a].kids[i]] \in Nodes(E, Others(h, p, a))
    BY <2>1, <2>2, <1>2
  <2>s. PICK S : S = Others(h, p, a)
    OBVIOUS
  <2>t. \A i \in DOMAIN g[a].kids : g[g[a].kids[i]] \in Nodes(E, S)
    BY <2>s, <2>3
  <2>u. a \in DOMAIN g
    BY <2>1
  <2>v. /\ View(g, a) \in Nodes(E, Nodes(E, S))
        /\ View(g, a).ents = g[a].ents
        /\ Len(View(g, a).kids) = Len(g[a].kids)
        /\ \A i \in DOMAIN g[a].kids : View(g, a).kids[i] = g[g[a].kids[i]]
    BY <1>12, <2>u, <2>t, ViewIs
  <2>4. /\ Len(View(g, a).kids) = l
        /\ \A i \in 1 .. l : View(g, a).kids[i] = n.kids[i]
    BY <2>v, <2>1, <2>2
  <2>5. View(g, a).kids = n.kids
    <3>1. View(g, a).kids \in Seq(Nodes(E, Others(h, p, a))) /\ Len(n.kids) = l
      BY <2>s, <2>v, <1>1, <1>2 DEF Nodes
    <3>2. PICK s \in Seq(Nodes(E, Others(h, p, a))) : s = View(g, a).kids
      BY <3>1
    <3>3. PICK t \in Seq(Nodes(E, Others(h, p, a))) : t = n.kids
      BY <1>1
    <3>4. s = t
      BY <2>4, <3>1, <3>2, <3>3, SeqEqual
    <3> QED  BY <3>2, <3>3, <3>4
  <2>6. View(g, a) = [ents |-> View(g, a).ents, kids |-> View(g, a).kids]
    BY DEF View
  <2> QED  BY <2>v, <2>5, <2>6, <1>1, <1>7
<1>14. Written(h, g, a, n, ids)
  BY <1>2, <1>5, <1>6, <1>7, <1>8, <1>9, <1>13 DEF Written
<1> QED  BY <1>12, <1>14 DEF g

\* A split of a node with its children is one in memory, when the new child is a
\* new node there.
LEMMA SplitsWhen ==
    ASSUME NEW E, NEW h, NEW g, Heap(h, E), Heap(g, E),
           NEW a \in DOMAIN h, a \in DOMAIN g, NEW i, NEW u, NEW b,
           IsSplit(View(h, a), View(g, a), i, u),
           b \in Nat, b \notin DOMAIN h, DOMAIN g = DOMAIN h \cup {b},
           \A j \in DOMAIN h[a].kids : j <= i => g[a].kids[j] = h[a].kids[j],
           g[a].kids[i + 1] = b,
           \A j \in DOMAIN h[a].kids : j > i => g[a].kids[j + 1] = h[a].kids[j],
           \A x \in DOMAIN h : x # a /\ x \notin Range(h[a].kids) => g[x] = h[x]
    PROVE  Splits(h, g, a, i, u, b)
<1> DEFINE n == View(h, a)  m == View(g, a)
<1>1. /\ n.ents = h[a].ents /\ Len(n.kids) = Len(h[a].kids) /\ DOMAIN n.kids = DOMAIN h[a].kids
      /\ \A j \in DOMAIN h[a].kids : n.kids[j] = h[h[a].kids[j]]
  BY Viewed
<1>2. /\ m.ents = g[a].ents /\ Len(m.kids) = Len(g[a].kids) /\ DOMAIN m.kids = DOMAIN g[a].kids
      /\ \A j \in DOMAIN g[a].kids : m.kids[j] = g[g[a].kids[j]]
  BY Viewed
<1>p. PICK nn, mm : nn = n /\ mm = m
  OBVIOUS
<1> DEFINE full == nn.kids[i]  left == mm.kids[i]  right == mm.kids[i + 1]
<1>3. /\ i \in DOMAIN nn.kids /\ u \in DOMAIN full.ents
      /\ Len(mm.ents) = Len(nn.ents) + 1 /\ Len(mm.kids) = Len(nn.kids) + 1
      /\ \A j \in DOMAIN nn.ents : j < i => mm.ents[j] = nn.ents[j]
      /\ mm.ents[i] = full.ents[u]
      /\ \A j \in DOMAIN nn.ents : j >= i => mm.ents[j + 1] = nn.ents[j]
  BY <1>p DEF IsSplit
<1>4. /\ \A j \in DOMAIN nn.kids : j < i => mm.kids[j] = nn.kids[j]
      /\ \A j \in DOMAIN nn.kids : j > i => mm.kids[j + 1] = nn.kids[j]
  BY <1>p DEF IsSplit
<1>5. /\ Len(left.ents) = u - 1 /\ Len(right.ents) = Len(full.ents) - u
      /\ \A j \in 1 .. u - 1 : left.ents[j] = full.ents[j]
      /\ \A j \in u + 1 .. Len(full.ents) : right.ents[j - u] = full.ents[j]
  BY <1>p DEF IsSplit
<1>6. IF full.kids = <<>> THEN left.kids = <<>> /\ right.kids = <<>>
      ELSE /\ Len(left.kids) = u /\ Len(right.kids) = Len(full.kids) - u
           /\ \A j \in 1 .. u : left.kids[j] = full.kids[j]
           /\ \A j \in u + 1 .. Len(full.kids) : right.kids[j - u] = full.kids[j]
  BY <1>p DEF IsSplit, IsLeaf
<1>7. PICK l \in Nat : /\ DOMAIN h[a].kids = 1 .. l /\ DOMAIN g[a].kids = 1 .. l + 1 /\ i \in 1 .. l
                       /\ Len(h[a].kids) = l /\ Len(g[a].kids) = l + 1
  <2>1. PICK l \in Nat : l = Len(h[a].kids) /\ DOMAIN h[a].kids = 1 .. l
    BY HeapTypes
  <2>2. Len(g[a].kids) = l + 1
    BY <2>1, <1>1, <1>2, <1>3, <1>p
  <2>3. DOMAIN g[a].kids = 1 .. l + 1
    BY <2>2, HeapTypes
  <2> QED  BY <2>1, <2>2, <2>3, <1>1, <1>3, <1>p
<1>8. PICK c : c = h[a].kids[i]
  OBVIOUS
<1>9. full = h[c] /\ left = g[c] /\ right = g[b]
  <2>1. i \in DOMAIN h[a].kids /\ i \in DOMAIN g[a].kids /\ i + 1 \in DOMAIN g[a].kids /\ i <= i
    BY <1>7
  <2>2. g[a].kids[i] = c /\ g[a].kids[i + 1] = b
    BY <2>1, <1>8
  <2> QED  BY <2>1, <2>2, <1>1, <1>2, <1>8, <1>p
<1> HIDE DEF full, left, right, n, m
<1>10. ASSUME NEW x \in DOMAIN h, x # a, x # c PROVE g[x] = h[x]
  <2>1. CASE x \notin Range(h[a].kids)
    BY <2>1, <1>10
  <2>2. CASE x \in Range(h[a].kids)
    <3>1. PICK j \in DOMAIN h[a].kids : x = h[a].kids[j]
      BY <2>2 DEF Range
    <3>2. j \in 1 .. l /\ j # i /\ j \in DOMAIN g[a].kids /\ j + 1 \in DOMAIN g[a].kids
      BY <3>1, <1>7, <1>8, <1>10
    <3>3. CASE j < i
      <4>0. j <= i
        BY <3>2, <3>3, <1>7
      <4>1. g[a].kids[j] = x
        BY <3>1, <4>0
      <4>2. mm.kids[j] = nn.kids[j]
        BY <3>1, <3>3, <1>1, <1>4, <1>p
      <4> QED  BY <3>1, <3>2, <4>1, <4>2, <1>1, <1>2, <1>p
    <3>4. CASE j > i
      <4>1. g[a].kids[j + 1] = x
        BY <3>1, <3>4
      <4>2. mm.kids[j + 1] = nn.kids[j]
        BY <3>1, <3>4, <1>1, <1>4, <1>p
      <4> QED  BY <3>1, <3>2, <4>1, <4>2, <1>1, <1>2, <1>p
    <3> QED  BY <3>2, <3>3, <3>4, <1>7
  <2> QED  BY <2>1, <2>2
<1>11. /\ i \in DOMAIN h[a].kids /\ u \in DOMAIN h[c].ents
       /\ Len(g[a].ents) = Len(h[a].ents) + 1 /\ Len(g[a].kids) = Len(h[a].kids) + 1
       /\ \A j \in DOMAIN h[a].ents : j < i => g[a].ents[j] = h[a].ents[j]
       /\ g[a].ents[i] = h[c].ents[u]
       /\ \A j \in DOMAIN h[a].ents : j >= i => g[a].ents[j + 1] = h[a].ents[j]
  BY <1>1, <1>2, <1>3, <1>9, <1>p
<1>12. /\ Len(g[c].ents) = u - 1 /\ Len(g[b].ents) = Len(h[c].ents) - u
       /\ \A j \in 1 .. u - 1 : g[c].ents[j] = h[c].ents[j]
       /\ \A j \in u + 1 .. Len(h[c].ents) : g[b].ents[j - u] = h[c].ents[j]
  BY <1>5, <1>9
<1>13. IF h[c].kids = <<>> THEN g[c].kids = <<>> /\ g[b].kids = <<>>
       ELSE /\ Len(g[c].kids) = u /\ Len(g[b].kids) = Len(h[c].kids) - u
            /\ \A j \in 1 .. u : g[c].kids[j] = h[c].kids[j]
            /\ \A j \in u + 1 .. Len(h[c].kids) : g[b].kids[j - u] = h[c].kids[j]
  BY <1>6, <1>9
<1> QED  BY <1>8, <1>10, <1>11, <1>12, <1>13 DEF Splits

LEMMA KidsDiffer ==
    ASSUME NEW E, NEW h, NEW r, NEW p, Heap(h, E), Tree(h, r, p), NEW a \in DOMAIN h
    PROVE  /\ \A i, j \in DOMAIN h[a].kids : h[a].kids[i] = h[a].kids[j] => i = j
           /\ a \notin Range(h[a].kids) /\ Range(h[a].kids) \subseteq DOMAIN h
           /\ \A i \in DOMAIN h[a].kids : h[a].kids[i] \in Range(h[a].kids)
           /\ h[a].kids \in Seq(Nat)
<1>1. \A i \in DOMAIN h[a].kids : h[a].kids[i] \in DOMAIN h /\ p[h[a].kids[i]].at = i
                                  /\ h[a].kids[i] # a
  BY Kid
<1>2. h[a].kids \in Seq(DOMAIN h) /\ DOMAIN h \subseteq Nat
  BY HeapTypes DEF Heap
<1>3. h[a].kids \in Seq(Nat)
  BY <1>2
<1> QED  BY <1>1, <1>3 DEF Range

\* node_split_child in memory.
SplitAt(h, a, i, b) == Rewrite(h, a, SplitChild(View(h, a), i), InsertAt(h[a].kids, i + 1, b))

LEMMA SplitInMemory ==
    ASSUME Order, NEW E, NEW h, NEW r, NEW p, Heap(h, E), Tree(h, r, p),
           NEW a \in DOMAIN h, NEW i \in DOMAIN h[a].kids,
           Len(h[h[a].kids[i]].ents) = MaxKeys, NEW b \in Nat, b \notin DOMAIN h
    PROVE  LET g == SplitAt(h, a, i, b)
           IN  /\ Heap(g, E) /\ DOMAIN g = DOMAIN h \cup {b}
               /\ Written(h, g, a, SplitChild(View(h, a), i), InsertAt(h[a].kids, i + 1, b))
               /\ Splits(h, g, a, i, SplitIndex + 1, b)
<1> DEFINE n == SplitChild(View(h, a), i)  K == h[a].kids  ids == InsertAt(K, i + 1, b)
           g == SplitAt(h, a, i, b)
<1>1. PICK S : S = Others(h, p, a)
  OBVIOUS
<1>2. /\ View(h, a) \in Nodes(E, Nodes(E, S)) /\ Shaped(View(h, a))
      /\ i \in DOMAIN View(h, a).kids /\ Count(View(h, a).kids[i]) = MaxKeys
      /\ Len(View(h, a).kids) = Len(K)
  <2>1. K # <<>>
    OBVIOUS
  <2> QED  BY <2>1, <1>1, TreeView DEF Count
<1>3. n \in Nodes(E, Nodes(E, S)) /\ IsSplit(View(h, a), n, i, SplitIndex + 1)
  BY <1>2, SplitIs
<1>4. Len(n.kids) = Len(K) + 1
  BY <1>2, <1>3 DEF IsSplit
<1>5. PICK l \in Nat : l = Len(K) /\ DOMAIN K = 1 .. l /\ K \in Seq(Nat)
  BY HeapTypes, KidsDiffer
<1>i. i \in 1 .. l
  BY <1>5
<1>9. /\ \A j, k \in DOMAIN K : K[j] = K[k] => j = k
      /\ \A j \in DOMAIN K : K[j] # b /\ K[j] # a /\ K[j] \in Range(K) /\ K[j] \in DOMAIN h
      /\ Range(K) \subseteq DOMAIN h
  BY KidsDiffer
<1> HIDE DEF K
<1>6. /\ ids \in Seq(Nat) /\ Len(ids) = l + 1 /\ ids[i + 1] = b
      /\ \A j \in 1 .. i : ids[j] = K[j]
      /\ \A j \in i + 1 .. l : ids[j + 1] = K[j]
  <2>1. PICK k \in 1 .. Len(K) + 1 : k = i + 1 /\ k - 1 = i
    BY <1>5, <1>i
  <2>2. /\ InsertAt(K, k, b) \in Seq(Nat) /\ Len(InsertAt(K, k, b)) = Len(K) + 1
        /\ \A j \in 1 .. k - 1 : InsertAt(K, k, b)[j] = K[j]
        /\ InsertAt(K, k, b)[k] = b
        /\ \A j \in k .. Len(K) : InsertAt(K, k, b)[j + 1] = K[j]
    <3>n. PICK T : T = Nat
      OBVIOUS
    <3>1. PICK s \in Seq(T) : s = K
      BY <1>5, <3>n
    <3>b. b \in T
      BY <3>n
    <3>2. k \in 1 .. Len(s) + 1
      BY <2>1, <3>1
    <3>3. /\ InsertAt(s, k, b) \in Seq(T) /\ Len(InsertAt(s, k, b)) = Len(s) + 1
          /\ \A j \in 1 .. k - 1 : InsertAt(s, k, b)[j] = s[j]
          /\ InsertAt(s, k, b)[k] = b
          /\ \A j \in k .. Len(s) : InsertAt(s, k, b)[j + 1] = s[j]
      BY <3>2, <3>b, Inserted
    <3> QED  BY <3>1, <3>3, <3>n
  <2> QED  BY <2>1, <2>2, <1>5
<1> HIDE DEF ids
<1>7. DOMAIN ids = 1 .. l + 1 /\ Len(ids) = Len(n.kids)
  BY <1>4, <1>5, <1>6
<1>8. \A j \in 1 .. l + 1 : \/ j \in 1 .. i /\ j \in DOMAIN K /\ ids[j] = K[j]
                            \/ j = i + 1 /\ ids[j] = b
                            \/ j - 1 \in i + 1 .. l /\ j - 1 \in DOMAIN K /\ ids[j] = K[j - 1]
  <2> SUFFICES ASSUME NEW j \in 1 .. l + 1
               PROVE  \/ j \in 1 .. i /\ j \in DOMAIN K /\ ids[j] = K[j]
                      \/ j = i + 1 /\ ids[j] = b
                      \/ j - 1 \in i + 1 .. l /\ j - 1 \in DOMAIN K /\ ids[j] = K[j - 1]
    OBVIOUS
  <2>1. CASE j <= i
    BY <2>1, <1>5, <1>6, <1>i
  <2>2. CASE j = i + 1
    BY <2>2, <1>6
  <2>3. CASE j > i + 1
    <3>1. PICK m \in i + 1 .. l : m = j - 1
      BY <2>3, <1>5, <1>i
    <3>2. m + 1 = j
      BY <3>1
    <3>3. ids[m + 1] = K[m]
      BY <3>1, <1>6
    <3>4. m \in 1 .. l
      BY <3>1, <1>i
    <3> QED  BY <3>1, <3>2, <3>3, <3>4, <1>5
  <2> QED  BY <2>1, <2>2, <2>3, <1>5, <1>i
<1>10. \A j, k \in DOMAIN ids : ids[j] = ids[k] => j = k
  <2> SUFFICES ASSUME NEW j \in 1 .. l + 1, NEW k \in 1 .. l + 1, ids[j] = ids[k] PROVE j = k
    BY <1>7
  <2>1. /\ \/ j \in 1 .. i /\ j \in DOMAIN K /\ ids[j] = K[j]
           \/ j = i + 1 /\ ids[j] = b
           \/ j - 1 \in i + 1 .. l /\ j - 1 \in DOMAIN K /\ ids[j] = K[j - 1]
        /\ \/ k \in 1 .. i /\ k \in DOMAIN K /\ ids[k] = K[k]
           \/ k = i + 1 /\ ids[k] = b
           \/ k - 1 \in i + 1 .. l /\ k - 1 \in DOMAIN K /\ ids[k] = K[k - 1]
    BY <1>8
  <2>2. PICK x, y : x = j - 1 /\ y = k - 1
    OBVIOUS
  <2>3. x = y => j = k
    BY <2>2
  <2>4. /\ j \in 1 .. i /\ y \in i + 1 .. l => j # y
        /\ k \in 1 .. i /\ x \in i + 1 .. l => k # x
    BY <2>2, <1>i
  <2> QED  BY <2>1, <2>2, <2>3, <2>4, <1>9
<1>11. Range(ids) = Range(K) \cup {b}
  <2>1. Range(ids) \subseteq Range(K) \cup {b}
    BY <1>7, <1>8, <1>9 DEF Range
  <2>2. ASSUME NEW j \in DOMAIN K PROVE K[j] \in Range(ids)
    <3>1. j \in 1 .. l
      BY <1>5
    <3>2. j \in 1 .. i => j \in DOMAIN ids
      BY <3>1, <1>7
    <3>3. j \in i + 1 .. l => j + 1 \in DOMAIN ids
      BY <3>1, <1>7
    <3>4. j \in 1 .. i \/ j \in i + 1 .. l
      BY <3>1, <1>5, <1>i
    <3> QED  BY <3>2, <3>3, <3>4, <1>6 DEF Range
  <2>3. b \in Range(ids)
    <3>1. i + 1 \in DOMAIN ids
      BY <1>i, <1>5, <1>7
    <3> QED  BY <3>1, <1>6 DEF Range
  <2>4. Range(K) = {K[j] : j \in DOMAIN K}
    BY DEF Range
  <2> QED  BY <2>1, <2>2, <2>3, <2>4
<1>12. a \notin Range(ids)
  BY <1>11, KidsDiffer DEF K
<1> HIDE DEF n
<1>13. Heap(Rewrite(h, a, n, ids), E) /\ Written(h, Rewrite(h, a, n, ids), a, n, ids)
  BY <1>1, <1>3, <1>6, <1>7, <1>10, <1>12, RewriteIs
<1>14. g = Rewrite(h, a, n, ids)
  BY DEF SplitAt, n, ids, K
<1> HIDE DEF g
<1>15. /\ Heap(g, E) /\ View(g, a) = n /\ a \in DOMAIN g /\ g[a].kids = ids
       /\ DOMAIN g = DOMAIN h \cup {b}
  BY <1>9, <1>11, <1>13, <1>14 DEF Written, K
<1>16. \A x \in DOMAIN h : x # a /\ x \notin Range(K) => g[x] = h[x]
  BY <1>11, <1>13, <1>14, <1>15 DEF Written
<1>17. /\ \A j \in DOMAIN K : j <= i => ids[j] = K[j]
       /\ \A j \in DOMAIN K : j > i => ids[j + 1] = K[j]
  <2>1. ASSUME NEW j \in DOMAIN K
        PROVE  (j <= i => j \in 1 .. i) /\ (j > i => j \in i + 1 .. l)
    BY <1>5, <1>i
  <2> QED  BY <2>1, <1>6
<1>18. Splits(h, g, a, i, SplitIndex + 1, b)
  BY <1>3, <1>6, <1>15, <1>16, <1>17, SplitsWhen DEF K
<1> QED  BY <1>13, <1>14, <1>15, <1>18 DEF g, n, ids, K

\* merge_nodes in memory: the split, read backwards.
MergeAt(h, a, i) == Rewrite(h, a, Merge(View(h, a), i), RemoveAt(h[a].kids, i + 1))

Merges(E, h, g, a, i) ==
    LET c == h[a].kids[i]  b == h[a].kids[i + 1]
    IN  /\ Heap(g, E)
        /\ Written(h, g, a, Merge(View(h, a), i), RemoveAt(h[a].kids, i + 1))
        /\ i \in DOMAIN h[a].kids /\ i + 1 \in DOMAIN h[a].kids
        /\ DOMAIN g = DOMAIN h \ {b} /\ b \in DOMAIN h
        /\ c = g[a].kids[i] /\ c \in DOMAIN g
        /\ Splits(g, h, a, i, Len(h[c].ents) + 1, b)

LEMMA MergeInMemory ==
    ASSUME NEW E, NEW h, NEW r, NEW p, Heap(h, E), Tree(h, r, p),
           NEW a \in DOMAIN h, h[a].kids # <<>>, NEW i \in 1 .. Len(h[a].ents)
    PROVE  Merges(E, h, MergeAt(h, a, i), a, i)
<1> DEFINE n == Merge(View(h, a), i)  K == h[a].kids  ids == RemoveAt(K, i + 1)
           g == MergeAt(h, a, i)  c == K[i]  b == K[i + 1]
<1>1. PICK S : S = Others(h, p, a)
  OBVIOUS
<1>k. Len(K) = Len(h[a].ents) + 1
  BY TreeTypes
<1>5. PICK l \in Nat : /\ l = Len(h[a].ents) /\ DOMAIN K = 1 .. l + 1 /\ K \in Seq(Nat)
                       /\ i \in 1 .. l /\ Len(K) = l + 1
  BY <1>k, HeapTypes, KidsDiffer
<1>c. i \in DOMAIN K /\ i + 1 \in DOMAIN K
  BY <1>5
<1>d. i \in DOMAIN K /\ i + 1 \in DOMAIN K /\ b \in DOMAIN h /\ b \in Nat /\ c \in DOMAIN h
  <2>1. \A j \in DOMAIN K : K[j] \in DOMAIN h /\ K[j] \in Nat
    BY HeapTypes DEF Heap
  <2> QED  BY <2>1, <1>c
<1>2. /\ View(h, a) \in Nodes(E, Nodes(E, S)) /\ Shaped(View(h, a))
      /\ i \in 1 .. Count(View(h, a)) /\ Count(View(h, a).kids[i]) = Len(h[c].ents)
      /\ Len(View(h, a).kids) = Len(K)
  BY <1>1, <1>d, TreeView DEF Count
<1>3. n \in Nodes(E, Nodes(E, S)) /\ IsSplit(n, View(h, a), i, Len(h[c].ents) + 1)
  BY <1>2, MergeIs
<1>4. Len(n.kids) = l
  <2>1. Len(View(h, a).kids) = Len(n.kids) + 1
    BY <1>3 DEF IsSplit
  <2>2. PICK s \in Seq(Nodes(E, S)) : s = n.kids
    BY <1>3 DEF Nodes
  <2>3. Len(s) \in Nat
    OBVIOUS
  <2> QED  BY <2>1, <2>2, <2>3, <1>2, <1>5
<1>9. /\ \A j, k \in DOMAIN K : K[j] = K[k] => j = k
      /\ \A j \in DOMAIN K : K[j] # a /\ K[j] \in Range(K) /\ K[j] \in DOMAIN h
      /\ Range(K) \subseteq DOMAIN h
  BY KidsDiffer
<1> HIDE DEF K
<1>6. /\ ids \in Seq(Nat) /\ Len(ids) = l
      /\ \A j \in 1 .. i : ids[j] = K[j]
      /\ \A j \in i + 2 .. l + 1 : ids[j - 1] = K[j]
  <2>1. i + 1 \in 1 .. Len(K) /\ (i + 1) - 1 = i /\ (i + 1) + 1 = i + 2 /\ Len(K) - 1 = l
    BY <1>5
  <2>2. /\ ids \in Seq(Nat) /\ Len(ids) = Len(K) - 1
        /\ \A j \in 1 .. (i + 1) - 1 : ids[j] = K[j]
        /\ \A j \in (i + 1) + 1 .. Len(K) : ids[j - 1] = K[j]
    BY <2>1, <1>5, Removed
  <2> QED  BY <2>1, <2>2, <1>5
<1> HIDE DEF ids, c, b
<1>7. DOMAIN ids = 1 .. l /\ Len(ids) = Len(n.kids)
  BY <1>4, <1>6
<1>8. \A j \in 1 .. l : \/ j <= i /\ j \in DOMAIN K /\ ids[j] = K[j]
                        \/ j > i /\ j + 1 \in DOMAIN K /\ ids[j] = K[j + 1]
  <2> SUFFICES ASSUME NEW j \in 1 .. l
               PROVE  \/ j <= i /\ j \in DOMAIN K /\ ids[j] = K[j]
                      \/ j > i /\ j + 1 \in DOMAIN K /\ ids[j] = K[j + 1]
    OBVIOUS
  <2>1. CASE j <= i
    BY <2>1, <1>5, <1>6
  <2>2. CASE j > i
    <3>1. PICK m \in i + 2 .. l + 1 : m = j + 1 /\ m - 1 = j
      BY <2>2, <1>5
    <3>2. ids[m - 1] = K[m]
      BY <3>1, <1>6
    <3> QED  BY <2>2, <3>1, <3>2, <1>5
  <2> QED  BY <2>1, <2>2, <1>5
<1>10. \A j, k \in DOMAIN ids : ids[j] = ids[k] => j = k
  <2> SUFFICES ASSUME NEW j \in 1 .. l, NEW k \in 1 .. l, ids[j] = ids[k] PROVE j = k
    BY <1>7
  <2>1. /\ \/ j <= i /\ j \in DOMAIN K /\ ids[j] = K[j]
           \/ j > i /\ j + 1 \in DOMAIN K /\ ids[j] = K[j + 1]
        /\ \/ k <= i /\ k \in DOMAIN K /\ ids[k] = K[k]
           \/ k > i /\ k + 1 \in DOMAIN K /\ ids[k] = K[k + 1]
    BY <1>8
  <2>2. PICK x, y : x = j + 1 /\ y = k + 1
    OBVIOUS
  <2>3. /\ x = y => j = k
        /\ j <= i /\ k > i => j # y
        /\ k <= i /\ j > i => k # x
    BY <2>2, <1>5
  <2> QED  BY <2>1, <2>2, <2>3, <1>9
<1>11. Range(ids) = Range(K) \ {b}
  <2>1. ASSUME NEW j \in 1 .. l PROVE ids[j] \in Range(K) /\ ids[j] # b
    <3>1. j <= i => j # i + 1
      BY <1>5
    <3>2. j > i => j + 1 # i + 1
      BY <1>5
    <3>3. \/ j <= i /\ j \in DOMAIN K /\ ids[j] = K[j]
          \/ j > i /\ j + 1 \in DOMAIN K /\ ids[j] = K[j + 1]
      BY <1>8
    <3> QED  BY <3>1, <3>2, <3>3, <1>c, <1>9 DEF b
  <2>2. ASSUME NEW j \in DOMAIN K, K[j] # b PROVE K[j] \in Range(ids)
    <3>1. j \in 1 .. l + 1 /\ j # i + 1
      BY <2>2, <1>5 DEF b
    <3>2. CASE j \in 1 .. i
      <4>1. j \in DOMAIN ids /\ ids[j] = K[j]
        BY <3>2, <1>5, <1>6, <1>7
      <4> QED  BY <4>1 DEF Range
    <3>3. CASE j \in i + 2 .. l + 1
      <4>1. j - 1 \in 1 .. l
        BY <3>3, <1>5
      <4>2. j - 1 \in DOMAIN ids /\ ids[j - 1] = K[j]
        BY <3>3, <4>1, <1>6, <1>7
      <4> QED  BY <4>2 DEF Range
    <3> QED  BY <3>1, <3>2, <3>3, <1>5
  <2>3. Range(K) = {K[j] : j \in DOMAIN K} /\ Range(ids) = {ids[j] : j \in 1 .. l}
    BY <1>7 DEF Range
  <2> QED  BY <2>1, <2>2, <2>3
<1>12. a \notin Range(ids)
  BY <1>11, KidsDiffer DEF K
<1> HIDE DEF n
<1>13. Heap(Rewrite(h, a, n, ids), E) /\ Written(h, Rewrite(h, a, n, ids), a, n, ids)
  BY <1>1, <1>3, <1>6, <1>7, <1>10, <1>12, RewriteIs
<1>14. g = Rewrite(h, a, n, ids)
  BY DEF MergeAt, n, ids, K
<1>b. b \in Range(K) /\ i \in DOMAIN ids /\ ids[i] = c
  <2>1. i \in 1 .. l /\ i \in 1 .. i
    BY <1>5
  <2> QED  BY <2>1, <1>c, <1>6, <1>7, <1>9 DEF b, c
<1> HIDE DEF g
<1>15. /\ Heap(g, E) /\ View(g, a) = n /\ a \in DOMAIN g /\ g[a].kids = ids
       /\ DOMAIN g = DOMAIN h \ {b} /\ c \in DOMAIN g
  <2>1. DOMAIN g = (DOMAIN h \ Range(K)) \cup Range(ids)
    BY <1>13, <1>14 DEF Written, K
  <2> QED  BY <2>1, <1>9, <1>11, <1>13, <1>14, <1>b DEF Written, K
<1>16. \A x \in DOMAIN g : x # a /\ x \notin Range(ids) => h[x] = g[x]
  BY <1>13, <1>14 DEF Written
<1>17. /\ \A j \in DOMAIN ids : j <= i => K[j] = ids[j]
       /\ K[i + 1] = b
       /\ \A j \in DOMAIN ids : j > i => K[j + 1] = ids[j]
  <2>1. \A j \in 1 .. l : (j <= i \/ j > i) /\ ~(j <= i /\ j > i)
    BY <1>5
  <2> QED  BY <2>1, <1>7, <1>8 DEF b
<1>18. DOMAIN h = DOMAIN g \cup {b} /\ b \notin DOMAIN g /\ b \in Nat
  BY <1>15, <1>d
<1>19. Splits(g, h, a, i, Len(h[c].ents) + 1, b)
  <2>1. IsSplit(View(g, a), View(h, a), i, Len(h[c].ents) + 1)
    BY <1>3, <1>15
  <2> HIDE DEF ids
  <2> QED  BY <2>1, <1>15, <1>16, <1>17, <1>18, SplitsWhen DEF K
<1>20. /\ Heap(g, E) /\ Written(h, g, a, n, ids) /\ DOMAIN g = DOMAIN h \ {b}
       /\ c = g[a].kids[i] /\ c \in DOMAIN g /\ b \in DOMAIN h
       /\ Splits(g, h, a, i, Len(h[c].ents) + 1, b)
  BY <1>13, <1>14, <1>15, <1>19, <1>b, <1>d
<1> QED  BY <1>20, <1>c DEF K, g, c, b, n, ids, Merges

\* Borrowing in memory: the merge of the two children, split at another entry.
LEMMA ShiftInMemory ==
    ASSUME NEW E, NEW h, NEW r, NEW p, Heap(h, E), Tree(h, r, p),
           NEW a \in DOMAIN h, h[a].kids # <<>>, NEW i \in 1 .. Len(h[a].ents),
           NEW n \in Nodes(E, Nodes(E, Others(h, p, a))), Len(n.kids) = Len(h[a].kids),
           NEW u, IsSplit(Merge(View(h, a), i), n, i, u)
    PROVE  LET g == Rewrite(h, a, n, h[a].kids)
           IN  /\ Heap(g, E) /\ Written(h, g, a, n, h[a].kids) /\ DOMAIN g = DOMAIN h
               /\ Splits(MergeAt(h, a, i), g, a, i, u, h[a].kids[i + 1])
<1> DEFINE K == h[a].kids  g == Rewrite(h, a, n, K)  v == MergeAt(h, a, i)  b == K[i + 1]
           ids == RemoveAt(K, i + 1)
<1>1. /\ Heap(v, E) /\ Written(h, v, a, Merge(View(h, a), i), ids)
      /\ i \in DOMAIN K /\ i + 1 \in DOMAIN K
      /\ DOMAIN v = DOMAIN h \ {b} /\ b \in DOMAIN h
  <2>1. Merges(E, h, v, a, i)
    BY MergeInMemory
  <2> HIDE DEF v
  <2> QED  BY <2>1 DEF Merges
<1>2. /\ K \in Seq(Nat) /\ a \notin Range(K) /\ \A j, k \in DOMAIN K : K[j] = K[k] => j = k
      /\ Range(K) \subseteq DOMAIN h
  BY KidsDiffer
<1>3. Heap(g, E) /\ Written(h, g, a, n, K)
  BY <1>2, RewriteIs
<1> HIDE DEF g, v
<1>4. DOMAIN g = DOMAIN h /\ a \in DOMAIN g /\ g[a].kids = K /\ View(g, a) = n
  BY <1>2, <1>3 DEF Written
<1>5. /\ a \in DOMAIN v /\ v[a].kids = ids /\ View(v, a) = Merge(View(h, a), i)
      /\ DOMAIN v = (DOMAIN h \ Range(K)) \cup Range(ids)
      /\ \A x \in DOMAIN v : x # a /\ x \notin Range(ids) =>
            x \in DOMAIN h /\ x \notin Range(K) /\ v[x] = h[x]
  BY <1>1 DEF Written
<1>6. \A x \in DOMAIN g : x # a /\ x \notin Range(K) => g[x] = h[x]
  BY <1>3 DEF Written
<1>7. PICK l \in Nat : l = Len(K) /\ DOMAIN K = 1 .. l /\ i \in 1 .. l - 1
  <2>1. PICK l \in Nat : l = Len(K) /\ DOMAIN K = 1 .. l
    BY <1>2
  <2> QED  BY <2>1, <1>1
<1> HIDE DEF K
<1>8. /\ Len(ids) = l - 1 /\ DOMAIN ids = 1 .. l - 1
      /\ \A j \in 1 .. i : ids[j] = K[j]
      /\ \A j \in i + 2 .. l : ids[j - 1] = K[j]
  <2>1. PICK k \in 1 .. Len(K) : k = i + 1 /\ k - 1 = i /\ k + 1 = i + 2
    BY <1>7
  <2>n. PICK T : T = Nat
    OBVIOUS
  <2>2. PICK s \in Seq(T) : s = K
    BY <2>n, <1>2
  <2>3. k \in 1 .. Len(s)
    BY <2>1, <2>2
  <2>4. /\ RemoveAt(s, k) \in Seq(T) /\ Len(RemoveAt(s, k)) = Len(s) - 1
        /\ \A j \in 1 .. k - 1 : RemoveAt(s, k)[j] = s[j]
        /\ \A j \in k + 1 .. Len(s) : RemoveAt(s, k)[j - 1] = s[j]
    BY <2>3, Removed
  <2>5. PICK t \in Seq(T) : t = ids /\ Len(t) = l - 1
    BY <2>1, <2>2, <2>4, <1>7
  <2>6. DOMAIN t = 1 .. l - 1
    BY <2>5, <1>7
  <2> QED  BY <2>1, <2>2, <2>4, <2>5, <2>6, <1>7
<1>9. \A j \in DOMAIN ids : (j <= i => K[j] = ids[j]) /\ (j > i => K[j + 1] = ids[j])
  <2> SUFFICES ASSUME NEW j \in 1 .. l - 1
               PROVE  (j <= i => K[j] = ids[j]) /\ (j > i => K[j + 1] = ids[j])
    BY <1>8
  <2>1. CASE j <= i
    <3>1. j \in 1 .. i /\ ~(j > i)
      BY <2>1, <1>7
    <3> QED  BY <2>1, <3>1, <1>8
  <2>2. CASE j > i
    <3>1. PICK m \in i + 2 .. l : m = j + 1 /\ m - 1 = j
      BY <2>2, <1>7
    <3>2. ids[m - 1] = K[m] /\ ~(j <= i)
      BY <2>2, <3>1, <1>7, <1>8
    <3> QED  BY <3>1, <3>2
  <2> QED  BY <2>1, <2>2, <1>7
<1>10. ASSUME NEW x \in DOMAIN v, x # a, x \notin Range(ids) PROVE g[x] = v[x]
  <2>1. x \in DOMAIN h /\ x \notin Range(K) /\ v[x] = h[x]
    BY <1>5, <1>10
  <2> QED  BY <2>1, <1>4, <1>6, <1>10
<1>11. b \in Nat /\ b \notin DOMAIN v /\ DOMAIN g = DOMAIN v \cup {b}
  <2>1. b \in Nat
    BY <1>1, HeapTypes
  <2> QED  BY <2>1, <1>1, <1>4
<1>12. Splits(v, g, a, i, u, b)
  <2>1. IsSplit(View(v, a), View(g, a), i, u)
    BY <1>4, <1>5
  <2> HIDE DEF ids, b
  <2>2. K[i + 1] = b
    BY DEF b
  <2> QED  BY <2>1, <2>2, <1>1, <1>3, <1>4, <1>5, <1>9, <1>10, <1>11, SplitsWhen
<1> QED  BY <1>3, <1>4, <1>12 DEF g, v, b, K

\* g is h after splits and merges of children of a, at the end of which the node
\* is n and its children are at ids.
Turned(E, h, g, a, n, ids) ==
    /\ Heap(g, E) /\ Written(h, g, a, n, ids)
    /\ \/ g = h
       \/ \E i, u, b : Splits(h, g, a, i, u, b)
       \/ \E i, u, b : Splits(g, h, a, i, u, b)
       \/ \E v, i, s, u, b : Heap(v, E) /\ Splits(v, h, a, i, s, b) /\ Splits(v, g, a, i, u, b)

LEMMA SplitTurns ==
    ASSUME Order, NEW E, NEW h, NEW r, NEW p, Heap(h, E), Tree(h, r, p),
           NEW a \in DOMAIN h, NEW i \in DOMAIN h[a].kids,
           Len(h[h[a].kids[i]].ents) = MaxKeys, NEW b \in Nat, b \notin DOMAIN h
    PROVE  Turned(E, h, SplitAt(h, a, i, b), a,
                  SplitChild(View(h, a), i), InsertAt(h[a].kids, i + 1, b))
<1> DEFINE g == SplitAt(h, a, i, b)
<1>1. /\ Heap(g, E) /\ Splits(h, g, a, i, SplitIndex + 1, b)
      /\ Written(h, g, a, SplitChild(View(h, a), i), InsertAt(h[a].kids, i + 1, b))
  BY SplitInMemory
<1> HIDE DEF g
<1>2. \E j, u, d : Splits(h, g, a, j, u, d)
  BY <1>1
<1>3. Turned(E, h, g, a, SplitChild(View(h, a), i), InsertAt(h[a].kids, i + 1, b))
  BY <1>1, <1>2 DEF Turned
<1> QED  BY <1>3 DEF g

LEMMA MergeTurns ==
    ASSUME NEW E, NEW h, NEW r, NEW p, Heap(h, E), Tree(h, r, p),
           NEW a \in DOMAIN h, h[a].kids # <<>>, NEW i \in 1 .. Len(h[a].ents)
    PROVE  Turned(E, h, MergeAt(h, a, i), a, Merge(View(h, a), i), RemoveAt(h[a].kids, i + 1))
<1> DEFINE g == MergeAt(h, a, i)
<1>1. Merges(E, h, g, a, i)
  BY MergeInMemory
<1> HIDE DEF g
<1>2. /\ Heap(g, E) /\ Written(h, g, a, Merge(View(h, a), i), RemoveAt(h[a].kids, i + 1))
      /\ Splits(g, h, a, i, Len(h[h[a].kids[i]].ents) + 1, h[a].kids[i + 1])
  BY <1>1 DEF Merges
<1>3. \E j, u, d : Splits(g, h, a, j, u, d)
  BY <1>2
<1>4. Turned(E, h, g, a, Merge(View(h, a), i), RemoveAt(h[a].kids, i + 1))
  BY <1>2, <1>3 DEF Turned
<1> QED  BY <1>4 DEF g

LEMMA BorrowTurns ==
    ASSUME NEW E, NEW h, NEW r, NEW p, Heap(h, E), Tree(h, r, p),
           NEW a \in DOMAIN h, h[a].kids # <<>>, NEW i \in 1 .. Len(h[a].ents),
           NEW n \in Nodes(E, Nodes(E, Others(h, p, a))), Len(n.kids) = Len(h[a].kids),
           NEW u, IsSplit(Merge(View(h, a), i), n, i, u)
    PROVE  Turned(E, h, Rewrite(h, a, n, h[a].kids), a, n, h[a].kids)
<1> DEFINE g == Rewrite(h, a, n, h[a].kids)  v == MergeAt(h, a, i)
<1>1. /\ Heap(g, E) /\ Written(h, g, a, n, h[a].kids)
      /\ Splits(v, g, a, i, u, h[a].kids[i + 1])
  BY ShiftInMemory
<1>2. Merges(E, h, v, a, i)
  BY MergeInMemory
<1> HIDE DEF g, v
<1>3. Heap(v, E) /\ Splits(v, h, a, i, Len(h[h[a].kids[i]].ents) + 1, h[a].kids[i + 1])
  BY <1>2 DEF Merges
<1>4. \E w, j, s, t, b : Heap(w, E) /\ Splits(w, h, a, j, s, b) /\ Splits(w, g, a, j, t, b)
  BY <1>1, <1>3
<1>5. Turned(E, h, g, a, n, h[a].kids)
  BY <1>1, <1>4 DEF Turned
<1> QED  BY <1>5 DEF g

\* btree_delete_node's refill in memory.
RefillIds(h, a, i) == LET r == Refill(View(h, a), i)
                      IN  IF Len(r.node.kids) < Len(h[a].kids) THEN RemoveAt(h[a].kids, r.at + 1)
                          ELSE h[a].kids
RefillAt(h, a, i) == Rewrite(h, a, Refill(View(h, a), i).node, RefillIds(h, a, i))

LEMMA RefillTurns ==
    ASSUME Order, NEW E, NEW h, NEW r, NEW p, Heap(h, E), Tree(h, r, p),
           NEW a \in DOMAIN h, NEW i \in DOMAIN h[a].kids,
           Len(h[a].ents) >= 1 \/ Len(h[h[a].kids[i]].ents) # MinKeys
    PROVE  /\ Turned(E, h, RefillAt(h, a, i), a, Refill(View(h, a), i).node, RefillIds(h, a, i))
           /\ Refill(View(h, a), i).at \in DOMAIN RefillIds(h, a, i)
<1>1. PICK S : S = Others(h, p, a)
  OBVIOUS
<1>2. PICK n : n = View(h, a)
  OBVIOUS
<1>3. PICK K : K = h[a].kids
  OBVIOUS
<1>4. /\ n \in Nodes(E, Nodes(E, S)) /\ Shaped(n) /\ n.ents = h[a].ents
      /\ Len(n.kids) = Len(K) /\ DOMAIN n.kids = DOMAIN K
      /\ \A j \in DOMAIN K : n.kids[j] = h[K[j]]
  <2>1. K # <<>>
    BY <1>3
  <2> QED  BY <2>1, <1>1, <1>2, <1>3, TreeView
<1>5. Len(K) = Len(h[a].ents) + 1 /\ K # <<>>
  <2>1. K # <<>>
    BY <1>3
  <2> QED  BY <2>1, <1>3, TreeTypes
<1>6. i \in DOMAIN n.kids /\ Count(n) = Len(h[a].ents) /\ Count(n) \in Nat
  BY <1>3, <1>4, HeapTypes DEF Count
<1>7. PICK l \in Nat : l = Len(h[a].ents) /\ Len(K) = l + 1 /\ DOMAIN K = 1 .. l + 1
  BY <1>3, <1>5, HeapTypes
<1>8. MinKeys \in Nat /\ MinKeys >= 1
  BY Bounds
<1>9. CASE Refill(n, i) = [node |-> n, at |-> i]
  <2>1. RefillIds(h, a, i) = K /\ RefillAt(h, a, i) = Rewrite(h, a, n, K)
    BY <1>2, <1>3, <1>4, <1>7, <1>9 DEF RefillIds, RefillAt
  <2>2. /\ K \in Seq(Nat) /\ a \notin Range(K) /\ \A j, k \in DOMAIN K : K[j] = K[k] => j = k
        /\ Range(K) \subseteq DOMAIN h
    BY <1>3, KidsDiffer
  <2>3. PICK g : g = Rewrite(h, a, n, K)
    OBVIOUS
  <2>4. Heap(g, E) /\ Written(h, g, a, n, K)
    BY <2>2, <2>3, <1>1, <1>4, RewriteIs
  <2>5. DOMAIN g = DOMAIN h
    BY <2>2, <2>4, <1>3 DEF Written
  <2>6. ASSUME NEW x \in DOMAIN h PROVE g[x] = h[x]
    <3>1. CASE x = a
      <4>1. g[a].ents = h[a].ents /\ g[a].kids = h[a].kids
        BY <2>4, <1>3, <1>4 DEF Written
      <4>2. g[a] \in Nodes(E, DOMAIN h) /\ h[a] \in Nodes(E, DOMAIN h)
        BY <2>4, <2>5 DEF Heap
      <4> QED  BY <3>1, <4>1, <4>2 DEF Nodes
    <3>2. CASE x \in Range(K)
      <4>1. PICK j \in DOMAIN K : x = K[j]
        BY <3>2 DEF Range
      <4> QED  BY <4>1, <2>4, <1>4 DEF Written
    <3>3. CASE x # a /\ x \notin Range(K)
      BY <3>3, <2>4, <2>5 DEF Written
    <3> QED  BY <3>1, <3>2, <3>3
  <2>7. g = h
    BY <2>4, <2>5, <2>6 DEF Heap
  <2>8. Turned(E, h, g, a, n, K)
    BY <2>4, <2>7 DEF Turned
  <2> QED  BY <2>1, <2>3, <2>8, <1>2, <1>3, <1>9
<1>10. CASE /\ Count(n.kids[i]) = MinKeys
            /\ i \in 2 .. Count(n) + 1 /\ Count(n.kids[i - 1]) > MinKeys
            /\ Refill(n, i) = [node |-> BorrowLeft(n, i), at |-> i]
  <2>1. PICK j \in 1 .. l : j = i - 1
    BY <1>6, <1>7, <1>10
  <2>2. Count(n.kids[i - 1]) >= 1
    <3>1. j \in DOMAIN n.kids
      BY <2>1, <1>4, <1>7
    <3>2. Count(n.kids[j]) \in Nat
      BY <3>1, <1>4, Nodes_
    <3> QED  BY <2>1, <3>2, <1>8, <1>10
  <2>3. /\ BorrowLeft(n, i) \in Nodes(E, Nodes(E, S))
        /\ IsSplit(Merge(n, i - 1), BorrowLeft(n, i), i - 1, Count(n.kids[i - 1]))
        /\ Len(BorrowLeft(n, i).kids) = Len(n.kids)
    BY <2>2, <1>4, <1>10, BorrowLeftIs
  <2>4. PICK m, u : /\ m \in Nodes(E, Nodes(E, S)) /\ m = BorrowLeft(n, i) /\ IsSplit(Merge(n, j), m, j, u)
                    /\ Len(m.kids) = Len(K)
    BY <2>1, <2>3, <1>4
  <2>5. Turned(E, h, Rewrite(h, a, m, K), a, m, K)
    BY <2>4, <1>1, <1>2, <1>3, <1>5, <1>7, BorrowTurns
  <2>6. RefillIds(h, a, i) = K /\ RefillAt(h, a, i) = Rewrite(h, a, m, K)
    BY <2>4, <1>2, <1>3, <1>7, <1>10 DEF RefillIds, RefillAt
  <2> QED  BY <2>4, <2>5, <2>6, <1>2, <1>3, <1>10
<1>11. CASE /\ Count(n.kids[i]) = MinKeys
            /\ i \in 1 .. Count(n) /\ Count(n.kids[i + 1]) > MinKeys
            /\ Refill(n, i) = [node |-> BorrowRight(n, i), at |-> i]
  <2>2. Count(n.kids[i + 1]) >= 1
    <3>1. i + 1 \in DOMAIN n.kids
      BY <1>4, <1>6, <1>7, <1>11
    <3>2. Count(n.kids[i + 1]) \in Nat
      BY <3>1, <1>4, Nodes_
    <3> QED  BY <3>2, <1>8, <1>11
  <2>3. /\ BorrowRight(n, i) \in Nodes(E, Nodes(E, S))
        /\ IsSplit(Merge(n, i), BorrowRight(n, i), i, Count(n.kids[i]) + 2)
        /\ Len(BorrowRight(n, i).kids) = Len(n.kids)
    BY <2>2, <1>4, <1>11, BorrowRightIs
  <2>4. PICK m, u : /\ m \in Nodes(E, Nodes(E, S)) /\ m = BorrowRight(n, i) /\ IsSplit(Merge(n, i), m, i, u)
                    /\ Len(m.kids) = Len(K)
    BY <2>3, <1>4
  <2>j. i \in 1 .. Len(h[a].ents)
    BY <1>6, <1>11
  <2>5. Turned(E, h, Rewrite(h, a, m, K), a, m, K)
    BY <2>4, <2>j, <1>1, <1>2, <1>3, <1>5, BorrowTurns
  <2>6. RefillIds(h, a, i) = K /\ RefillAt(h, a, i) = Rewrite(h, a, m, K)
    BY <2>4, <1>2, <1>3, <1>7, <1>11 DEF RefillIds, RefillAt
  <2> QED  BY <2>4, <2>5, <2>6, <1>2, <1>3, <1>11
<1>12. CASE \E j \in 1 .. Count(n) : Refill(n, i) = [node |-> Merge(n, j), at |-> j]
  <2>1. PICK j \in 1 .. Count(n) : Refill(n, i) = [node |-> Merge(n, j), at |-> j]
    BY <1>12
  <2>j. j \in 1 .. Len(h[a].ents) /\ j \in 1 .. l
    BY <2>1, <1>6, <1>7
  <2>2. PICK m : m = Merge(n, j)
    OBVIOUS
  <2>3. Turned(E, h, MergeAt(h, a, j), a, m, RemoveAt(K, j + 1))
    BY <2>2, <2>j, <1>2, <1>3, <1>5, MergeTurns
  <2>4. IsSplit(m, n, j, Count(n.kids[j]) + 1) /\ m \in Nodes(E, Nodes(E, S))
    BY <2>1, <2>2, <1>4, MergeIs
  <2>5. Len(n.kids) = Len(m.kids) + 1 /\ Len(m.kids) \in Nat
    <3>1. Len(n.kids) = Len(m.kids) + 1
      BY <2>4 DEF IsSplit
    <3>2. m.kids \in Seq(Nodes(E, S))
      BY <2>4 DEF Nodes
    <3> QED  BY <3>1, <3>2
  <2>6. Len(m.kids) = l /\ Len(m.kids) < Len(K)
    BY <2>5, <1>4, <1>7
  <2>7. RefillIds(h, a, i) = RemoveAt(K, j + 1)
    BY <2>1, <2>2, <2>6, <1>2, <1>3 DEF RefillIds
  <2>8. RefillAt(h, a, i) = MergeAt(h, a, j)
    BY <2>1, <2>2, <2>7, <1>2, <1>3 DEF RefillAt, MergeAt
  <2>9. j \in DOMAIN RemoveAt(K, j + 1)
    <3>1. Merges(E, h, MergeAt(h, a, j), a, j)
      BY <2>j, <1>3, <1>5, MergeInMemory
    <3>n. PICK T : T = Nat
      OBVIOUS
    <3>2. PICK s \in Seq(T) : s = K
      BY <3>n, <1>3, KidsDiffer
    <3>3. PICK k \in 1 .. Len(s) : k = j + 1
      BY <3>2, <2>j, <1>7
    <3>4. RemoveAt(s, k) \in Seq(T) /\ Len(RemoveAt(s, k)) = Len(s) - 1
      BY <3>3, Removed
    <3>5. PICK t \in Seq(T) : t = RemoveAt(s, k) /\ Len(t) = l
      BY <3>2, <3>4, <1>7
    <3>6. j \in DOMAIN t
      BY <3>5, <2>j
    <3> QED  BY <3>2, <3>3, <3>5, <3>6
  <2> QED  BY <2>1, <2>2, <2>3, <2>7, <2>8, <2>9, <1>2
<1>13. CASE Count(n.kids[i]) # MinKeys
  <2>1. Refill(n, i) = [node |-> n, at |-> i]
    BY <1>13 DEF Refill
  <2> QED  BY <2>1, <1>9
<1>14. CASE Count(n.kids[i]) = MinKeys
  <2>1. Len(h[a].ents) >= 1
    BY <1>14, <1>3, <1>4 DEF Count
  <2>2. Count(n) >= 1
    BY <2>1, <1>6
  <2> QED  BY <2>2, <1>4, <1>6, <1>9, <1>10, <1>11, <1>12, RefillCases
<1> QED  BY <1>13, <1>14

LEMMA TurnTree ==
    ASSUME NEW E, NEW h, NEW r, NEW p, Heap(h, E), Tree(h, r, p),
           NEW g, NEW a, NEW n, NEW ids, Turned(E, h, g, a, n, ids)
    PROVE  \E q : Tree(g, r, q)
<1>1. Heap(g, E)
  BY DEF Turned
<1>2. CASE g = h
  BY <1>2
<1>3. CASE \E i, u, b : Splits(h, g, a, i, u, b)
  BY <1>1, <1>3, SplitTree
<1>4. CASE \E i, u, b : Splits(g, h, a, i, u, b)
  <2>1. PICK i, u, b : Splits(g, h, a, i, u, b)
    BY <1>4
  <2>2. PICK c : c = g[a].kids[i]
    OBVIOUS
  <2> QED  BY <1>1, <2>1, <2>2, MergeTree
<1>5. CASE \E v, i, s, u, b : Heap(v, E) /\ Splits(v, h, a, i, s, b) /\ Splits(v, g, a, i, u, b)
  <2>1. PICK v, i, s, u, b : Heap(v, E) /\ Splits(v, h, a, i, s, b) /\ Splits(v, g, a, i, u, b)
    BY <1>5
  <2>2. PICK c : c = v[a].kids[i]
    OBVIOUS
  <2>3. PICK q : Tree(v, r, q)
    BY <2>1, <2>2, MergeTree
  <2> QED  BY <1>1, <2>1, <2>3, SplitTree
<1> QED  BY <1>2, <1>3, <1>4, <1>5 DEF Turned

-----------------------------------------------------------------------------
(* The other changes                                                         *)

\* Entries written over, as many as a node with children had.
NewEnts(h, g, a, s)  == g = [h EXCEPT ![a].ents = s]
OtherEnts(h, g, a, s) ==
    /\ DOMAIN g = DOMAIN h /\ g[a].ents = s
    /\ \A x \in DOMAIN h : g[x].kids = h[x].kids /\ (x # a => g[x] = h[x])

LEMMA EntriesTree ==
    ASSUME NEW E, NEW h, NEW r, NEW p, Heap(h, E), Tree(h, r, p),
           NEW a \in DOMAIN h, NEW s \in Seq(E),
           h[a].kids # <<>> => Len(s) = Len(h[a].ents), NEW g, NewEnts(h, g, a, s)
    PROVE  Heap(g, E) /\ Tree(g, r, p) /\ OtherEnts(h, g, a, s)
<1> USE DEF NewEnts
<1>1. DOMAIN g = DOMAIN h /\ \A x \in DOMAIN h : x # a => g[x] = h[x]
  OBVIOUS
<1>h. h \in [DOMAIN h -> Nodes(E, DOMAIN h)]
  BY DEF Heap
<1>2. g[a] = [h[a] EXCEPT !.ents = s]
  BY <1>h
<1>3. h[a] \in Nodes(E, DOMAIN h)
  BY <1>h
<1>4. g[a].ents = s /\ g[a].kids = h[a].kids /\ g[a] \in Nodes(E, DOMAIN h)
  BY <1>2, <1>3 DEF Nodes
<1>5. g = [x \in DOMAIN h |-> g[x]]
  BY <1>h
<1>6. Heap(g, E)
  BY <1>1, <1>4, <1>5 DEF Heap
<1>7. \A x \in DOMAIN h : g[x].kids = h[x].kids
  BY <1>1, <1>4
<1>8. /\ r \in DOMAIN h /\ p[r].up = NoTree
      /\ p \in [DOMAIN h -> [level : Nat, up : Int, at : Nat]]
      /\ \A x \in DOMAIN h : p[x].level <= p[r].level
  BY DEF Tree
<1>9. \A y \in DOMAIN g : \A i \in DOMAIN g[y].kids :
          LET x == g[y].kids[i]
          IN  p[x].level = p[y].level - 1 /\ p[x].up = y /\ p[x].at = i
  BY <1>1, <1>7, Kid
<1>10. \A x \in DOMAIN g : x # r =>
          /\ p[x].up \in DOMAIN g /\ p[x].at \in DOMAIN g[p[x].up].kids
          /\ g[p[x].up].kids[p[x].at] = x
  BY <1>1, <1>7, Parent
<1>11. ASSUME NEW y \in DOMAIN g
       PROVE  IF p[y].level = 0 THEN g[y].kids = <<>> ELSE Len(g[y].kids) = Len(g[y].ents) + 1
  <2>1. IF p[y].level = 0 THEN h[y].kids = <<>> ELSE Len(h[y].kids) = Len(h[y].ents) + 1
    BY <1>1 DEF Tree
  <2>2. p[y].level = 0 <=> h[y].kids = <<>>
    BY <1>1, TreeTypes
  <2> QED  BY <2>1, <2>2, <1>1, <1>4, <1>7
<1>12. Tree(g, r, p)
  BY <1>1, <1>8, <1>9, <1>10, <1>11 DEF Tree
<1> QED  BY <1>1, <1>4, <1>6, <1>7, <1>12 DEF OtherEnts

\* A tree of one node.
LEMMA OneNode ==
    ASSUME NEW E, NEW a \in Nat, NEW h, h = [x \in {a} |-> Leaf]
    PROVE  Heap(h, E) /\ \E p : Tree(h, a, p)
<1>1. DOMAIN h = {a} /\ h[a].ents = <<>> /\ h[a].kids = <<>> /\ h[a] = Leaf
  BY DEF Leaf
<1>2. Leaf \in Nodes(E, {a})
  BY EmptySeq DEF Leaf, Nodes
<1>3. IsFiniteSet({a})
  BY FS_Singleton
<1>4. Heap(h, E)
  BY <1>1, <1>2, <1>3 DEF Heap
<1> DEFINE p == [x \in {a} |-> [level |-> 0, up |-> NoTree, at |-> 0]]
<1>5. /\ p[a].up = NoTree /\ p[a].level = 0
      /\ p \in [{a} -> [level : Nat, up : Int, at : Nat]]
  BY DEF NoTree
<1> HIDE DEF p
<1>6. Tree(h, a, p)
  BY <1>1, <1>5 DEF Tree
<1> QED  BY <1>4, <1>6

\* A new root above the old one.
GrownPlaces(h, r, p, b) ==
    [x \in DOMAIN h \cup {b} |->
       IF x = b THEN [level |-> p[r].level + 1, up |-> NoTree, at |-> 0]
       ELSE [level |-> p[x].level, up |-> IF x = r THEN b ELSE p[x].up,
             at |-> IF x = r THEN 1 ELSE p[x].at]]

Raised(h, g, r, b) == g = With(h, b, [ents |-> <<>>, kids |-> <<r>>])

RaisedIs(E, h, g, r, p, b) ==
    /\ Heap(g, E) /\ Tree(g, b, GrownPlaces(h, r, p, b))
    /\ DOMAIN g = DOMAIN h \cup {b} /\ g[b].ents = <<>> /\ g[b].kids = <<r>>
    /\ \A x \in DOMAIN h : g[x] = h[x]

LEMMA OneMore == 1 = 0 + 1
OBVIOUS

LEMMA GrowTree ==
    ASSUME NEW E, NEW h, NEW r, NEW p, Heap(h, E), Tree(h, r, p),
           NEW b \in Nat, b \notin DOMAIN h, NEW g, Raised(h, g, r, b)
    PROVE  RaisedIs(E, h, g, r, p, b)
<1> DEFINE q == GrownPlaces(h, r, p, b)
<1>1. DOMAIN g = DOMAIN h \cup {b} /\ g[b] = [ents |-> <<>>, kids |-> <<r>>]
      /\ \A x \in DOMAIN h : g[x] = h[x]
  BY DEF With, Raised
<1>2. r \in DOMAIN h /\ p[r].up = NoTree /\ \A x \in DOMAIN h : p[x].level <= p[r].level
  BY DEF Tree
<1>3. g[b].ents = <<>> /\ g[b].kids = <<r>> /\ DOMAIN g[b].kids = {1} /\ Len(g[b].kids) = 1
      /\ Len(g[b].ents) = 0 /\ g[b].kids[1] = r /\ g[b].kids # <<>>
  BY <1>1
<1>4. Heap(g, E)
  <2>1. DOMAIN g \subseteq Nat /\ IsFiniteSet(DOMAIN g)
    BY <1>1, FS_AddElement DEF Heap
  <2>2. ASSUME NEW x \in DOMAIN g PROVE g[x] \in Nodes(E, DOMAIN g)
    <3>1. CASE x = b
      <4>1. PICK s \in Seq(E), t \in Seq(DOMAIN g) : s = <<>> /\ t = <<r>>
        <5>1. <<>> \in Seq(E)
          OBVIOUS
        <5>2. <<r>> \in Seq(DOMAIN g)
          <6>1. PICK T : T = DOMAIN g
            OBVIOUS
          <6>2. r \in T
            BY <6>1, <1>1, <1>2
          <6>3. <<r>> \in Seq(T)
            BY <6>2
          <6> QED  BY <6>1, <6>3
        <5> QED  BY <5>1, <5>2
      <4>2. g[x] = [ents |-> s, kids |-> t]
        BY <3>1, <4>1, <1>1
      <4> HIDE DEF q
      <4> QED  BY <4>2 DEF Nodes
    <3>2. CASE x \in DOMAIN h
      <4>1. h[x] \in Nodes(E, DOMAIN h)
        BY <3>2 DEF Heap
      <4>2. Seq(DOMAIN h) \subseteq Seq(DOMAIN g)
        BY <1>1
      <4>3. h[x].ents \in Seq(E) /\ h[x].kids \in Seq(DOMAIN g)
            /\ h[x] = [ents |-> h[x].ents, kids |-> h[x].kids]
        BY <4>1, <4>2 DEF Nodes
      <4>4. g[x] = h[x]
        BY <3>2, <1>1
      <4> HIDE DEF q
      <4> QED  BY <4>3, <4>4 DEF Nodes
    <3> QED  BY <3>1, <3>2, <1>1
  <2>3. g = [x \in DOMAIN g |-> g[x]]
    BY DEF With, Raised
  <2> QED  BY <2>1, <2>2, <2>3 DEF Heap
<1>5. \A x \in DOMAIN h : p[x].level \in Nat /\ p[x].up \in Int /\ p[x].at \in Nat
  BY TreeTypes
<1>6. /\ q[b].level = p[r].level + 1 /\ q[b].up = NoTree /\ q[b].at = 0
      /\ \A x \in DOMAIN h : /\ q[x].level = p[x].level
                             /\ q[x].up = IF x = r THEN b ELSE p[x].up
                             /\ q[x].at = IF x = r THEN 1 ELSE p[x].at
  BY DEF GrownPlaces
<1>7. q \in [DOMAIN g -> [level : Nat, up : Int, at : Nat]]
  <2> DEFINE rec(x) == IF x = b THEN [level |-> p[r].level + 1, up |-> NoTree, at |-> 0]
                       ELSE [level |-> p[x].level, up |-> IF x = r THEN b ELSE p[x].up,
                             at |-> IF x = r THEN 1 ELSE p[x].at]
  <2>1. ASSUME NEW x \in DOMAIN g PROVE rec(x) \in [level : Nat, up : Int, at : Nat]
    <3>1. CASE x = b
      BY <3>1, <1>2, <1>5 DEF NoTree
    <3>2. CASE x # b
      BY <3>2, <1>1, <1>5
    <3> QED  BY <3>1, <3>2
  <2> HIDE DEF rec
  <2>2. q = [x \in DOMAIN g |-> rec(x)]
    BY <1>1 DEF GrownPlaces, rec
  <2> QED  BY <2>1, <2>2
<1> HIDE DEF q
<1>8. \A x \in DOMAIN g : q[x].level <= q[b].level
  BY <1>1, <1>2, <1>5, <1>6
<1>9. ASSUME NEW y \in DOMAIN g, NEW k \in DOMAIN g[y].kids
      PROVE  LET x == g[y].kids[k]
             IN  q[x].level = q[y].level - 1 /\ q[x].up = y /\ q[x].at = k
  <2>1. CASE y = b
    BY <2>1, <1>2, <1>3, <1>5, <1>6
  <2>2. CASE y # b
    <3>1. y \in DOMAIN h /\ g[y] = h[y]
      BY <2>2, <1>1
    <3>2. PICK x \in DOMAIN h : /\ x = h[y].kids[k] /\ x # r /\ p[x].level = p[y].level - 1
                                /\ p[x].up = y /\ p[x].at = k
      BY <3>1, Kid
    <3> QED  BY <3>1, <3>2, <1>6
  <2> QED  BY <2>1, <2>2
<1>10. ASSUME NEW x \in DOMAIN g, x # b
       PROVE  /\ q[x].up \in DOMAIN g /\ q[x].at \in DOMAIN g[q[x].up].kids
              /\ g[q[x].up].kids[q[x].at] = x
  <2>1. x \in DOMAIN h
    BY <1>1, <1>10
  <2>2. CASE x = r
    BY <2>1, <2>2, <1>1, <1>3, <1>6
  <2>3. CASE x # r
    <3>1. /\ p[x].up \in DOMAIN h /\ p[x].at \in DOMAIN h[p[x].up].kids
          /\ h[p[x].up].kids[p[x].at] = x
      BY <2>1, <2>3, Parent
    <3> QED  BY <2>1, <2>3, <3>1, <1>1, <1>6
  <2> QED  BY <2>2, <2>3
<1>11. ASSUME NEW y \in DOMAIN g
       PROVE  IF q[y].level = 0 THEN g[y].kids = <<>> ELSE Len(g[y].kids) = Len(g[y].ents) + 1
  <2>1. CASE y = b
    <3>1. q[b].level # 0
      BY <1>2, <1>5, <1>6
    <3> QED  BY <2>1, <3>1, <1>3, OneMore, Zenon
  <2>2. CASE y \in DOMAIN h
    <3>1. IF p[y].level = 0 THEN h[y].kids = <<>> ELSE Len(h[y].kids) = Len(h[y].ents) + 1
      BY <2>2 DEF Tree
    <3> QED  BY <2>2, <3>1, <1>1, <1>6
  <2> QED  BY <2>1, <2>2, <1>1
<1>12. Tree(g, b, q)
  BY <1>1, <1>6, <1>7, <1>8, <1>9, <1>10, <1>11 DEF Tree
<1> QED  BY <1>1, <1>3, <1>4, <1>12 DEF q, RaisedIs

\* An emptied root freed: its only child is the root.
ShrunkPlaces(h, r, p) ==
    [x \in DOMAIN h \ {r} |->
       IF x = h[r].kids[1] THEN [level |-> p[x].level, up |-> NoTree, at |-> 0] ELSE p[x]]

Lowered(h, g, r) == g = Restrict(h, DOMAIN h \ {r})

LoweredIs(E, h, g, r, p) ==
    LET c == h[r].kids[1]
    IN  /\ Heap(g, E) /\ Tree(g, c, ShrunkPlaces(h, r, p))
        /\ DOMAIN g = DOMAIN h \ {r} /\ \A x \in DOMAIN g : g[x] = h[x]
        /\ c \in DOMAIN h /\ c # r

LEMMA ShrinkTree ==
    ASSUME NEW E, NEW h, NEW r, NEW p, Heap(h, E), Tree(h, r, p),
           h[r].ents = <<>>, h[r].kids # <<>>, NEW g, Lowered(h, g, r)
    PROVE  LoweredIs(E, h, g, r, p)
<1> DEFINE q == ShrunkPlaces(h, r, p)
<1>1. DOMAIN g = DOMAIN h \ {r} /\ \A x \in DOMAIN g : g[x] = h[x]
  BY DEF Restrict, Lowered
<1>2. r \in DOMAIN h
  BY DEF Tree
<1>3. Len(h[r].kids) = 1 /\ DOMAIN h[r].kids = {1}
  <2>1. Len(h[r].kids) = Len(h[r].ents) + 1
    BY <1>2, TreeTypes
  <2>2. Len(h[r].kids) = 1
    BY <2>1
  <2>3. DOMAIN h[r].kids = 1 .. 1
    BY <1>2, <2>2, HeapTypes
  <2> QED  BY <2>2, <2>3
<1>c. PICK c : c = h[r].kids[1]
  OBVIOUS
<1>4. /\ c \in DOMAIN h /\ c # r /\ p[c].level = p[r].level - 1 /\ p[c].up = r /\ p[c].at = 1
  BY <1>2, <1>3, <1>c, Kid
<1>5. \A x \in DOMAIN h : p[x].level \in Nat /\ p[x].up \in Int /\ p[x].at \in Nat
  BY TreeTypes
\* The root has no other child.
<1>6. ASSUME NEW x \in DOMAIN h, x # r, x # c
      PROVE  /\ p[x].up \in DOMAIN g /\ p[x].at \in DOMAIN h[p[x].up].kids
             /\ h[p[x].up].kids[p[x].at] = x
  <2>1. /\ p[x].up \in DOMAIN h /\ p[x].at \in DOMAIN h[p[x].up].kids
        /\ h[p[x].up].kids[p[x].at] = x
    BY <1>6, Parent
  <2>2. p[x].up # r
    BY <2>1, <1>3, <1>6, <1>c
  <2> QED  BY <2>1, <2>2, <1>1
<1>7. Heap(g, E)
  <2>1. DOMAIN g \subseteq Nat /\ IsFiniteSet(DOMAIN g)
    BY <1>1, FS_RemoveElement DEF Heap
  <2>2. ASSUME NEW x \in DOMAIN g PROVE g[x] \in Nodes(E, DOMAIN g)
    <3>1. h[x] \in Nodes(E, DOMAIN h) /\ g[x] = h[x] /\ x \in DOMAIN h
      BY <1>1 DEF Heap
    <3>2. h[x].ents \in Seq(E) /\ h[x].kids \in Seq(DOMAIN h) /\ h[x] = [ents |-> h[x].ents, kids |-> h[x].kids]
      BY <3>1 DEF Nodes
    <3>3. PICK n \in Nat : n = Len(h[x].kids) /\ h[x].kids \in [1 .. n -> DOMAIN h]
      BY <3>2
    <3>4. \A k \in 1 .. n : h[x].kids[k] \in DOMAIN g
      <4>1. DOMAIN h[x].kids = 1 .. n
        BY <3>3
      <4> QED  BY <3>1, <4>1, <1>1, Kid
    <3>5. h[x].kids \in [1 .. n -> DOMAIN g]
      BY <3>3, <3>4
    <3>6. h[x].kids \in Seq(DOMAIN g)
      BY <3>5, FunctionIsSeq
    <3> QED  BY <3>1, <3>2, <3>6 DEF Nodes
  <2>3. g = [x \in DOMAIN g |-> g[x]]
    BY DEF Restrict, Lowered
  <2> QED  BY <2>1, <2>2, <2>3 DEF Heap
<1>8. /\ q[c].level = p[c].level /\ q[c].up = NoTree /\ q[c].at = 0
      /\ \A x \in DOMAIN g : q[x].level = p[x].level
      /\ \A x \in DOMAIN g : x # c => q[x] = p[x]
  BY <1>1, <1>4, <1>c DEF ShrunkPlaces
<1>9. q \in [DOMAIN g -> [level : Nat, up : Int, at : Nat]]
  <2> DEFINE rec(x) == IF x = c THEN [level |-> p[x].level, up |-> NoTree, at |-> 0] ELSE p[x]
  <2>p. p \in [DOMAIN h -> [level : Nat, up : Int, at : Nat]]
    BY DEF Tree
  <2>1. \A x \in DOMAIN g : rec(x) \in [level : Nat, up : Int, at : Nat]
    BY <2>p, <1>1, <1>5 DEF NoTree
  <2> HIDE DEF rec
  <2>2. q = [x \in DOMAIN g |-> rec(x)]
    BY <1>1, <1>c DEF ShrunkPlaces, rec
  <2> QED  BY <2>1, <2>2
<1> HIDE DEF q
<1>10. ASSUME NEW x \in DOMAIN g PROVE q[x].level <= q[c].level
  <2>1. CASE x = c
    BY <2>1, <1>4, <1>5, <1>8
  <2>2. CASE x # c
    <3>1. p[x].up \in DOMAIN h /\ p[p[x].up].level = p[x].level + 1
      BY <2>2, <1>1, Parent
    <3>2. p[p[x].up].level <= p[r].level
      BY <3>1, TreeTypes
    <3>3. PICK lx \in Nat, lr \in Nat : lx = p[x].level /\ lr = p[r].level
      BY <1>1, <1>2, <1>5
    <3>4. lx <= lr - 1
      BY <3>1, <3>2, <3>3
    <3> QED  BY <3>3, <3>4, <1>4, <1>8
  <2> QED  BY <2>1, <2>2
<1>11. ASSUME NEW y \in DOMAIN g, NEW k \in DOMAIN g[y].kids
       PROVE  LET x == g[y].kids[k]
              IN  q[x].level = q[y].level - 1 /\ q[x].up = y /\ q[x].at = k
  <2>1. PICK x \in DOMAIN h : /\ x = h[y].kids[k] /\ x # r /\ p[x].level = p[y].level - 1
                              /\ p[x].up = y /\ p[x].at = k
    <3>1. y \in DOMAIN h /\ k \in DOMAIN h[y].kids
      BY <1>1
    <3> QED  BY <3>1, Kid
  <2>2. x # c /\ x \in DOMAIN g /\ g[y].kids[k] = x
    BY <2>1, <1>1, <1>4
  <2> QED  BY <2>1, <2>2, <1>8
<1>12. ASSUME NEW x \in DOMAIN g, x # c
       PROVE  /\ q[x].up \in DOMAIN g /\ q[x].at \in DOMAIN g[q[x].up].kids
              /\ g[q[x].up].kids[q[x].at] = x
  <2>1. x \in DOMAIN h /\ x # r /\ q[x] = p[x]
    BY <1>1, <1>8, <1>12
  <2>2. /\ p[x].up \in DOMAIN g /\ p[x].at \in DOMAIN h[p[x].up].kids
        /\ h[p[x].up].kids[p[x].at] = x
    BY <2>1, <1>6, <1>12
  <2> QED  BY <2>1, <2>2, <1>1
<1>13. ASSUME NEW y \in DOMAIN g
       PROVE  IF q[y].level = 0 THEN g[y].kids = <<>> ELSE Len(g[y].kids) = Len(g[y].ents) + 1
  <2>1. IF p[y].level = 0 THEN h[y].kids = <<>> ELSE Len(h[y].kids) = Len(h[y].ents) + 1
    BY <1>1 DEF Tree
  <2> QED  BY <2>1, <1>1, <1>8
<1>14. Tree(g, c, q)
  BY <1>1, <1>4, <1>8, <1>9, <1>10, <1>11, <1>12, <1>13 DEF Tree
<1> QED  BY <1>1, <1>4, <1>7, <1>14, <1>c DEF q, LoweredIs

-----------------------------------------------------------------------------
(* Sizes and addresses *)

\* The allocator finds an address, at Fresh.
LEMMA FreshIsFree ==
    ASSUME NEW E, Heap(mem, E)
    PROVE  Fresh \in Nat /\ Fresh \notin DOMAIN mem
<1>1. PICK D, n : D = DOMAIN mem /\ n = Cardinality(D)
  OBVIOUS
<1>2. IsFiniteSet(D) /\ n \in Nat
  BY <1>1, FS_CardinalityType DEF Heap
<1>3. IsFiniteSet(0 .. n) /\ Cardinality(0 .. n) = n + 1
  <2>1. 0 \in Int /\ n \in Int
    BY <1>2
  <2>2. IsFiniteSet(0 .. n) /\ Cardinality(0 .. n) = IF 0 > n THEN 0 ELSE n - 0 + 1
    BY <2>1, FS_Interval
  <2> QED  BY <2>2, <1>2
<1>4. ~(0 .. n \subseteq D)
  <2>1. SUFFICES ASSUME 0 .. n \subseteq D PROVE FALSE
    OBVIOUS
  <2>2. Cardinality(0 .. n) <= Cardinality(D)
    BY <1>2, <2>1, FS_Subset
  <2> QED  BY <2>2, <1>1, <1>2, <1>3
<1>5. \E a \in 0 .. Cardinality(DOMAIN mem) : a \notin DOMAIN mem
  BY <1>1, <1>4
<1>6. Fresh \in 0 .. Cardinality(DOMAIN mem) /\ Fresh \notin DOMAIN mem
  BY <1>5 DEF Fresh
<1> QED  BY <1>1, <1>2, <1>6

\* Whatever the order, a refill that fits leaves no child too big, and with an
\* even order none too small, and the one to go on with has an entry to spare.
LEMMA RefillSizes ==
    ASSUME Order, NEW E, NEW S, NEW n \in Nodes(E, Nodes(E, S)), Shaped(n),
           NEW i \in DOMAIN n.kids, RefillFits(n, i),
           \A k \in DOMAIN n.kids : Count(n.kids[k]) <= MaxKeys,
           NEW m, m = Refill(n, i).node, NEW o, o = Refill(n, i).at
    PROVE  /\ Count(n) >= 1 \/ Count(n.kids[i]) # MinKeys
           /\ o \in DOMAIN m.kids /\ Count(m) \in {Count(n), Count(n) - 1}
           /\ \A k \in DOMAIN m.kids : Count(m.kids[k]) <= MaxKeys
           /\ MaxChildren % 2 = 0 /\ Bounded(n) => Bounded(m) /\ Count(m.kids[o]) > MinKeys
<1>1. /\ Len(n.kids) = Count(n) + 1 /\ Count(n) \in Nat
      /\ DOMAIN n.kids = 1 .. Count(n) + 1 /\ DOMAIN n.ents = 1 .. Count(n)
      /\ \A k \in DOMAIN n.kids : n.kids[k] \in Nodes(E, S) /\ Count(n.kids[k]) \in Nat
  <2>1. Count(n) \in Nat /\ DOMAIN n.ents = 1 .. Count(n) /\ n.kids \in Seq(Nodes(E, S))
    BY Nodes_
  <2>2. Len(n.kids) = Count(n) + 1
    BY DEF Shaped
  <2>3. \A k \in DOMAIN n.kids : Count(n.kids[k]) \in Nat
    BY <2>1, Nodes_
  <2> QED  BY <2>1, <2>2, <2>3
<1>2. MinKeys \in Nat /\ MaxKeys \in Nat /\ MinKeys >= 1 /\ MinKeys < MaxKeys
  BY Bounds
<1>3. CASE Count(n.kids[i]) # MinKeys
  <2>1. m = n /\ o = i
    BY <1>3 DEF Refill
  <2>2. MaxChildren % 2 = 0 /\ Bounded(n) => Count(n.kids[i]) > MinKeys
    BY <1>1, <1>2, <1>3 DEF Bounded
  <2> QED  BY <2>1, <2>2, <1>1, <1>3
<1>4. CASE Count(n.kids[i]) = MinKeys
  <2>1. Count(n) >= 1
    BY <1>1, <1>2, <1>4 DEF RefillFits, MergeFits
  <2>2. MaxChildren % 2 = 0 /\ Bounded(n) => Bounded(m) /\ Count(m.kids[o]) > MinKeys
    BY <2>1, RefillLeavesRoom
  <2>3. CASE i > 1 /\ Count(n.kids[i - 1]) > MinKeys
    <3>1. m = BorrowLeft(n, i) /\ o = i
      BY <1>4, <2>3 DEF Refill
    <3>2. i \in 2 .. Count(n) + 1 /\ i - 1 \in DOMAIN n.kids
      BY <2>3, <1>1
    <3>3. Count(n.kids[i - 1]) >= 1
      BY <3>2, <2>3, <1>1, <1>2
    <3>4. /\ Count(m) = Count(n) /\ Len(m.kids) = Len(n.kids)
          /\ Count(m.kids[i - 1]) = Count(n.kids[i - 1]) - 1
          /\ Count(m.kids[i]) = Count(n.kids[i]) + 1
          /\ \A j \in DOMAIN n.kids : j # i /\ j # i - 1 => m.kids[j] = n.kids[j]
          /\ m.kids \in Seq(Nodes(E, S))
      <4>1. m \in Nodes(E, Nodes(E, S))
        BY <3>1, <3>2, <3>3, BorrowLeftIs
      <4>2. m.kids \in Seq(Nodes(E, S))
        BY <4>1 DEF Nodes
      <4> QED  BY <4>2, <3>1, <3>2, <3>3, BorrowLeftIs
    <3>5. DOMAIN m.kids = DOMAIN n.kids
      BY <3>4, <1>1
    <3>6. ASSUME NEW k \in DOMAIN m.kids PROVE Count(m.kids[k]) <= MaxKeys
      <4>1. CASE k = i - 1
        BY <4>1, <3>2, <3>4, <1>1, <1>2
      <4>2. CASE k = i
        BY <4>2, <3>4, <1>2, <1>4
      <4>3. CASE k # i /\ k # i - 1
        BY <4>3, <3>4, <3>5
      <4> QED  BY <4>1, <4>2, <4>3
    <3> QED  BY <2>1, <2>2, <3>1, <3>4, <3>5, <3>6
  <2>4. CASE /\ ~(i > 1 /\ Count(n.kids[i - 1]) > MinKeys)
             /\ i <= Count(n) /\ Count(n.kids[i + 1]) > MinKeys
    <3>1. m = BorrowRight(n, i) /\ o = i
      BY <1>4, <2>4 DEF Refill
    <3>2. i \in 1 .. Count(n) /\ i + 1 \in DOMAIN n.kids
      BY <2>4, <1>1
    <3>3. Count(n.kids[i + 1]) >= 1
      BY <3>2, <2>4, <1>1, <1>2
    <3>4. /\ Count(m) = Count(n) /\ Len(m.kids) = Len(n.kids)
          /\ Count(m.kids[i + 1]) = Count(n.kids[i + 1]) - 1
          /\ Count(m.kids[i]) = Count(n.kids[i]) + 1
          /\ \A j \in DOMAIN n.kids : j # i /\ j # i + 1 => m.kids[j] = n.kids[j]
          /\ m.kids \in Seq(Nodes(E, S))
      <4>1. m \in Nodes(E, Nodes(E, S))
        BY <3>1, <3>2, <3>3, BorrowRightIs
      <4>2. m.kids \in Seq(Nodes(E, S))
        BY <4>1 DEF Nodes
      <4> QED  BY <4>2, <3>1, <3>2, <3>3, BorrowRightIs
    <3>5. DOMAIN m.kids = DOMAIN n.kids
      BY <3>4, <1>1
    <3>6. ASSUME NEW k \in DOMAIN m.kids PROVE Count(m.kids[k]) <= MaxKeys
      <4>1. CASE k = i + 1
        BY <4>1, <3>2, <3>4, <1>1, <1>2
      <4>2. CASE k = i
        BY <4>2, <3>4, <1>2, <1>4
      <4>3. CASE k # i /\ k # i + 1
        BY <4>3, <3>4, <3>5
      <4> QED  BY <4>1, <4>2, <4>3
    <3> QED  BY <2>1, <2>2, <3>1, <3>4, <3>5, <3>6
  <2>5. CASE /\ ~(i > 1 /\ Count(n.kids[i - 1]) > MinKeys)
             /\ ~(i <= Count(n) /\ Count(n.kids[i + 1]) > MinKeys)
    <3>1. PICK j : j = IF i <= Count(n) THEN i ELSE i - 1
      OBVIOUS
    <3>2. m = Merge(n, j) /\ o = j
      BY <1>4, <2>5, <3>1 DEF Refill
    <3>3. MergeFits(n, j)
      BY <1>4, <2>5, <3>1 DEF RefillFits
    <3>4. j \in 1 .. Count(n) /\ Count(n.kids[j]) + 1 + Count(n.kids[j + 1]) <= MaxKeys
      BY <3>3, <1>1 DEF MergeFits
    <3>5. /\ Count(m) = Count(n) - 1 /\ j \in DOMAIN m.kids
          /\ Count(m.kids[j]) = Count(n.kids[j]) + 1 + Count(n.kids[j + 1])
          /\ \A a \in DOMAIN m.kids : a < j => m.kids[a] = n.kids[a]
          /\ \A a \in DOMAIN m.kids : a > j => m.kids[a] = n.kids[a + 1]
          /\ \A a \in DOMAIN m.kids : a \in DOMAIN n.kids /\ a + 1 \in DOMAIN n.kids
      BY <3>2, <3>4, MergeSizes
    <3>6. ASSUME NEW k \in DOMAIN m.kids PROVE Count(m.kids[k]) <= MaxKeys
      <4>1. k \in Int /\ j \in Int
        BY <3>4, <3>5, <1>1
      <4>2. CASE k = j
        BY <4>2, <3>4, <3>5
      <4>3. CASE k < j
        BY <4>3, <3>5
      <4>4. CASE k > j
        BY <4>4, <3>5
      <4> QED  BY <4>1, <4>2, <4>3, <4>4
    <3> QED  BY <2>1, <2>2, <3>2, <3>5, <3>6
  <2> QED  BY <2>3, <2>4, <2>5
<1> QED  BY <1>3, <1>4

-----------------------------------------------------------------------------
(* The invariant: of the memory h, the root r and the call c                *)

Stock     == Entries(Values)
EvenOrder == MaxChildren % 2 = 0
Jobs == {"idle", "search", "verify", "grow", "split", "insert", "remove", "shrink",
         "create", "free", "unsound"}
Calls == [op : {"none", "get", "update", "insert", "delete", "create", "free"},
          key : Keys \cup {Null}, val : Values \cup {Null},
          ret : Values \cup {Null, 0, 1}, job : Jobs,
          seek : Nat \cup {Null}, at : Int, short : BOOLEAN]

\* The allocated nodes are a tree, and its nodes have the sizes of btree.h:
\* with an odd order nothing can be said of the least.
IsTree(h, r) == IF r = NoTree THEN DOMAIN h = {} ELSE \E p : Tree(h, r, p)
Sizes(h, r) ==
    \A x \in DOMAIN h : /\ Len(h[x].ents) <= MaxKeys
                        /\ EvenOrder /\ x # r => Len(h[x].ents) >= MinKeys

\* The arguments of the call, and the node it has come to.
Asked(c) ==
    /\ c \in Calls
    /\ c.job \in {"search", "verify", "grow", "split", "insert", "remove", "shrink"} =>
          c.key \in Keys
    /\ c.op \in {"insert", "update"} => c.val \in Values
    /\ c.job \in {"grow", "split", "insert"} => c.op = "insert"
    /\ c.job \in {"remove", "shrink"} => c.op = "delete"
    /\ c.op = "delete" => Deletes
    /\ c.job = "search" => c.seek = c.key
    /\ c.job = "remove" => c.seek \in Nat
    /\ c.short => Short
Placed(h, r, c) ==
    /\ c.job \in {"search", "verify"} =>
          IF r = NoTree THEN c.at = NoTree ELSE c.at \in DOMAIN h
    /\ c.job \in {"split", "insert", "remove"} => c.at \in DOMAIN h
    /\ c.job \in {"shrink", "free"} => r # NoTree
    /\ c.job = "create" => r = NoTree

\* A root that has just grown has no entry, and one full child.  An insertion
\* comes to a full node only when memory is short, and a deletion to none that
\* has no entry to spare.
Grown(h, r, c) ==
    c.job = "split" =>
       /\ c.at = r /\ h[r].ents = <<>> /\ Len(h[r].kids) = 1
       /\ Len(h[h[r].kids[1]].ents) = MaxKeys
Room(h, c) == c.job = "insert" /\ Len(h[c.at].ents) = MaxKeys => c.short
Spare(h, r, c) ==
    EvenOrder /\ c.job = "remove" /\ c.at # r => Len(h[c.at].ents) > MinKeys

\* A root with children but no entry is there only while it is split or shrunk,
\* or memory was short.
RootOk(h, r) ==
    EvenOrder /\ ~Short /\ r # NoTree => h[r].kids = <<>> \/ Len(h[r].ents) >= 1
Rooted(h, r, c) ==
    c.job \notin {"split", "shrink"} /\ (c.job = "remove" => c.at = r) => RootOk(h, r)
Safe(c) == (EvenOrder \/ ~Deletes) /\ ~Short => c.job # "unsound"

Kept(h, r)      == Heap(h, Stock) /\ IsTree(h, r) /\ Sizes(h, r)
Taken(h, r, c)  == Asked(c) /\ Placed(h, r, c) /\ Grown(h, r, c) /\ Room(h, c)
                   /\ Spare(h, r, c) /\ Rooted(h, r, c) /\ Safe(c)
Inv == build \in Builds /\ Kept(mem, root) /\ Taken(mem, root, call)

LEMMA BuildOrder ==
    ASSUME build \in Builds
    PROVE  /\ Order /\ Keys \subseteq Nat /\ Null \notin Values
           /\ MaxKeys \in Nat /\ MinKeys \in Nat /\ MaxKeys >= 2 /\ MinKeys >= 1
           /\ MinKeys < MaxKeys
           /\ EvenOrder => MaxKeys = 2 * MinKeys + 1
<1>1. Order /\ Keys \subseteq Nat /\ Null \notin Values
  <2>1. build.order \in Nat /\ build.order >= 3 /\ Null \notin build.values
    BY BuildsAssumption
  <2>2. \A k \in build.keys : k \in Nat
    BY BuildsAssumption
  <2>3. Order
    BY <2>1 DEF Order, MaxChildren
  <2> QED  BY <2>1, <2>2, <2>3 DEF Keys, Values
<1> QED  BY <1>1, Bounds DEF EvenOrder

\* The next state is judged by the same build.
LEMMA Carried ==
    ASSUME build \in Builds, build' = build, Kept(mem', root'), Taken(mem', root', call')
    PROVE  Inv'
<1>1. /\ Stock' = Stock /\ MaxKeys' = MaxKeys /\ MinKeys' = MinKeys
      /\ EvenOrder' = EvenOrder /\ Keys' = Keys /\ Values' = Values
      /\ Deletes' = Deletes /\ Short' = Short
  BY DEF Stock, MaxKeys, MinKeys, EvenOrder, MaxChildren, Keys, Values, Deletes, Short
<1>2. Kept(mem, root)'
  BY <1>1 DEF Kept, IsTree, Sizes, Heap, Tree, Nodes
<1>3. Calls' = Calls
  BY <1>1 DEF Calls
<1>4. Taken(mem, root, call)'
  BY <1>1, <1>3 DEF Taken, Asked, Placed, Grown, Room, Spare, Rooted, RootOk, Safe
<1> QED  BY <1>2, <1>4 DEF Inv

\* The sizes seen from a node, and those after it and its children are written.
LEMMA SizesBelow ==
    ASSUME Order, NEW E, NEW h, NEW r, NEW p, Heap(h, E), Tree(h, r, p), Sizes(h, r),
           NEW a \in DOMAIN h
    PROVE  /\ \A k \in DOMAIN View(h, a).kids : Count(View(h, a).kids[k]) <= MaxKeys
           /\ EvenOrder => Bounded(View(h, a))
<1>1. PICK n : n = View(h, a)
  OBVIOUS
<1>2. DOMAIN n.kids = DOMAIN h[a].kids /\ \A k \in DOMAIN h[a].kids : n.kids[k] = h[h[a].kids[k]]
  BY <1>1, Viewed
<1>3. MinKeys \in Nat /\ MaxKeys \in Nat
  BY Bounds
<1>4. ASSUME NEW k \in DOMAIN n.kids
      PROVE  /\ Count(n.kids[k]) \in Nat /\ Count(n.kids[k]) <= MaxKeys
             /\ EvenOrder => Count(n.kids[k]) >= MinKeys
  <2>1. PICK x \in DOMAIN h : x = h[a].kids[k] /\ x # r /\ n.kids[k] = h[x]
    BY <1>2, Kid
  <2>2. Len(h[x].ents) \in Nat
    BY HeapTypes
  <2> QED  BY <2>1, <2>2 DEF Sizes, Count
<1>5. EvenOrder => Bounded(n)
  BY <1>3, <1>4 DEF Bounded
<1> QED  BY <1>1, <1>4, <1>5

LEMMA WrittenSizes ==
    ASSUME NEW h, NEW g, NEW r, NEW a, NEW n, NEW ids, Sizes(h, r), Written(h, g, a, n, ids),
           Order, DOMAIN ids = DOMAIN n.kids,
           Count(n) <= MaxKeys, EvenOrder /\ a # r => Count(n) >= MinKeys,
           \A k \in DOMAIN n.kids : Count(n.kids[k]) <= MaxKeys,
           EvenOrder => Bounded(n)
    PROVE  Sizes(g, r)
<1>1. ASSUME NEW x \in DOMAIN g
      PROVE  /\ Len(g[x].ents) <= MaxKeys
             /\ EvenOrder /\ x # r => Len(g[x].ents) >= MinKeys
  <2>1. CASE x = a
    BY <2>1 DEF Written, Count
  <2>2. CASE x \in Range(ids)
    <3>1. PICK k \in DOMAIN ids : x = ids[k]
      BY <2>2 DEF Range
    <3>2. g[x] = n.kids[k] /\ k \in DOMAIN n.kids
      BY <3>1 DEF Written
    <3>3. MinKeys \in Nat /\ MaxKeys \in Nat
      BY Bounds
    <3>4. EvenOrder => Count(n.kids[k]) >= MinKeys
      BY <3>2, <3>3 DEF Bounded
    <3> QED  BY <3>2, <3>4 DEF Count
  <2>3. CASE x # a /\ x \notin Range(ids)
    BY <2>3 DEF Written, Sizes
  <2> QED  BY <2>1, <2>2, <2>3
<1> QED  BY <1>1 DEF Sizes

\* A split leaves both halves with room.
LEMMA SplitSizes ==
    ASSUME Order, NEW E, NEW S, NEW n \in Nodes(E, Nodes(E, S)), Shaped(n),
           NEW i \in DOMAIN n.kids, Count(n.kids[i]) = MaxKeys,
           \A k \in DOMAIN n.kids : Count(n.kids[k]) <= MaxKeys,
           NEW m, m = SplitChild(n, i)
    PROVE  /\ m \in Nodes(E, Nodes(E, S)) /\ Len(m.kids) = Len(n.kids) + 1
           /\ Count(m) = Count(n) + 1
           /\ i \in DOMAIN m.kids /\ i + 1 \in DOMAIN m.kids
           /\ Count(m.kids[i]) < MaxKeys /\ Count(m.kids[i + 1]) < MaxKeys
           /\ \A k \in DOMAIN m.kids : Count(m.kids[k]) <= MaxKeys
<1>1. m \in Nodes(E, Nodes(E, S)) /\ IsSplit(n, m, i, SplitIndex + 1)
  BY SplitIs
<1>2. /\ MaxKeys \in Nat /\ SplitIndex \in Nat /\ SplitIndex < MaxKeys
  BY Bounds
<1>3. PICK u \in Nat : u = SplitIndex + 1 /\ u >= 1 /\ u <= MaxKeys
  BY <1>2
<1>4. /\ Len(m.kids) = Len(n.kids) + 1 /\ Count(m) = Count(n) + 1
      /\ Count(m.kids[i]) = u - 1 /\ Count(m.kids[i + 1]) = MaxKeys - u
      /\ \A j \in DOMAIN n.kids : j < i => m.kids[j] = n.kids[j]
      /\ \A j \in DOMAIN n.kids : j > i => m.kids[j + 1] = n.kids[j]
  BY <1>1, <1>3 DEF IsSplit, Count
<1>5. PICK l \in Nat : Len(n.kids) = l /\ DOMAIN n.kids = 1 .. l
  <2>1. n.kids \in Seq(Nodes(E, S))
    BY DEF Nodes
  <2> QED  BY <2>1
<1>6. DOMAIN m.kids = 1 .. l + 1
  <2>1. m.kids \in Seq(Nodes(E, S))
    BY <1>1 DEF Nodes
  <2> QED  BY <2>1, <1>4, <1>5
<1>7. ASSUME NEW k \in DOMAIN m.kids PROVE Count(m.kids[k]) <= MaxKeys
  <2>1. CASE k < i
    <3>1. k \in DOMAIN n.kids
      BY <2>1, <1>5, <1>6
    <3>2. m.kids[k] = n.kids[k]
      BY <2>1, <3>1, <1>4
    <3> QED  BY <3>1, <3>2
  <2>2. CASE k = i
    BY <2>2, <1>2, <1>3, <1>4
  <2>3. CASE k = i + 1
    BY <2>3, <1>2, <1>3, <1>4
  <2>4. CASE k > i + 1
    <3>1. k - 1 \in DOMAIN n.kids /\ k - 1 > i /\ (k - 1) + 1 = k
      BY <2>4, <1>5, <1>6
    <3>2. m.kids[(k - 1) + 1] = n.kids[k - 1]
      BY <3>1, <1>4
    <3> QED  BY <3>1, <3>2
  <2>5. k \in Int /\ i \in Int
    BY <1>5, <1>6
  <2> QED  BY <2>1, <2>2, <2>3, <2>4, <2>5
<1>8. i \in DOMAIN m.kids /\ i + 1 \in DOMAIN m.kids
  BY <1>5, <1>6
<1>9. Count(m.kids[i]) < MaxKeys /\ Count(m.kids[i + 1]) < MaxKeys
  BY <1>2, <1>3, <1>4
<1> QED  BY <1>1, <1>4, <1>7, <1>8, <1>9

\* node_split_child, below a node with room.
LEMMA SplitKeeps ==
    ASSUME Order, NEW E, NEW h, NEW r, NEW p, Heap(h, E), Tree(h, r, p), Sizes(h, r),
           NEW a \in DOMAIN h, Len(h[a].ents) < MaxKeys,
           NEW i \in DOMAIN h[a].kids, Len(h[h[a].kids[i]].ents) = MaxKeys,
           NEW b \in Nat, b \notin DOMAIN h, NEW g, g = SplitAt(h, a, i, b)
    PROVE  /\ Heap(g, E) /\ IsTree(g, r) /\ Sizes(g, r)
           /\ a \in DOMAIN g /\ Len(g[a].ents) = Len(h[a].ents) + 1
           /\ b \in DOMAIN g /\ Len(g[b].ents) < MaxKeys
           /\ h[a].kids[i] \in DOMAIN g /\ Len(g[h[a].kids[i]].ents) < MaxKeys
           /\ \A x \in DOMAIN h : x # a /\ x \notin Range(h[a].kids) => x \in DOMAIN g /\ g[x] = h[x]
<1>1. PICK n, m, ids, c, S :
         /\ n = View(h, a) /\ m = SplitChild(n, i) /\ ids = InsertAt(h[a].kids, i + 1, b)
         /\ c = h[a].kids[i] /\ S = Others(h, p, a)
  OBVIOUS
<1>2. Turned(E, h, g, a, m, ids)
  BY <1>1, SplitTurns
<1>3. Heap(g, E) /\ Written(h, g, a, m, ids)
  BY <1>2 DEF Turned
<1>4. \E q : Tree(g, r, q)
  BY <1>2, TurnTree
<1>5. r # NoTree
  BY HeapTypes DEF NoTree, Tree
<1>6. /\ n \in Nodes(E, Nodes(E, S)) /\ Shaped(n) /\ n.ents = h[a].ents
      /\ DOMAIN n.kids = DOMAIN h[a].kids /\ Len(n.kids) = Len(h[a].kids)
      /\ \A j \in DOMAIN h[a].kids : n.kids[j] = h[h[a].kids[j]]
  <2>1. h[a].kids # <<>>
    OBVIOUS
  <2> QED  BY <2>1, <1>1, TreeView
<1>7. /\ \A k \in DOMAIN n.kids : Count(n.kids[k]) <= MaxKeys
      /\ EvenOrder => Bounded(n)
  BY <1>1, SizesBelow
<1>8. i \in DOMAIN n.kids /\ Count(n.kids[i]) = MaxKeys
  BY <1>6 DEF Count
<1>9. /\ m \in Nodes(E, Nodes(E, S)) /\ Len(m.kids) = Len(n.kids) + 1
      /\ Count(m) = Count(n) + 1 /\ i \in DOMAIN m.kids /\ i + 1 \in DOMAIN m.kids
      /\ Count(m.kids[i]) < MaxKeys /\ Count(m.kids[i + 1]) < MaxKeys
      /\ \A k \in DOMAIN m.kids : Count(m.kids[k]) <= MaxKeys
  <2>1. \A k \in DOMAIN n.kids : Count(n.kids[k]) <= MaxKeys
    BY <1>7
  <2>2. n \in Nodes(E, Nodes(E, S)) /\ Shaped(n) /\ m = SplitChild(n, i)
    BY <1>1, <1>6
  <2> QED  BY <2>1, <2>2, <1>8, SplitSizes
<1>10. EvenOrder => Bounded(m)
  BY <1>1, <1>6, <1>7, <1>8, SplitKeepsBounds DEF EvenOrder
<1>11. MaxKeys \in Nat /\ MinKeys \in Nat
  BY Bounds
<1>12. PICK l \in Nat : /\ l = Len(h[a].kids) /\ DOMAIN h[a].kids = 1 .. l
                        /\ i \in 1 .. l /\ i + 1 \in 1 .. l + 1
  <2>1. PICK l \in Nat : l = Len(h[a].kids) /\ DOMAIN h[a].kids = 1 .. l
    BY HeapTypes
  <2>2. i \in 1 .. l
    BY <2>1
  <2> QED  BY <2>1, <2>2
\* The addresses are those of before, and the new one.
<1>13. /\ ids \in Seq(Nat) /\ Len(ids) = l + 1 /\ DOMAIN ids = 1 .. l + 1
       /\ ids[i] = c /\ ids[i + 1] = b
       /\ \A k \in 1 .. l + 1 : ids[k] = b \/ ids[k] \in Range(h[a].kids)
  <2>n. PICK T : T = Nat
    OBVIOUS
  <2>1. PICK s \in Seq(T) : s = h[a].kids
    BY <2>n, KidsDiffer
  <2>2. PICK k \in 1 .. Len(s) + 1 : k = i + 1
    BY <2>1, <1>12
  <2>3. b \in T
    BY <2>n
  <2>4. /\ ids \in Seq(T) /\ Len(ids) = Len(s) + 1
        /\ \A j \in 1 .. k - 1 : ids[j] = s[j]
        /\ ids[k] = b
        /\ \A j \in k .. Len(s) : ids[j + 1] = s[j]
    <3>1. ids = InsertAt(s, k, b)
      BY <2>1, <2>2, <1>1
    <3> QED  BY <3>1, <2>3, Inserted
  <2>5. ids[i] = c /\ ids[i + 1] = b
    BY <2>1, <2>2, <2>4, <1>1, <1>12
  <2>6. ASSUME NEW j \in 1 .. l + 1 PROVE ids[j] = b \/ ids[j] \in Range(h[a].kids)
    <3>1. CASE j <= i
      <4>1. j \in 1 .. k - 1 /\ j \in DOMAIN h[a].kids
        BY <3>1, <2>2, <1>12
      <4> QED  BY <4>1, <2>1, <2>4, KidsDiffer
    <3>2. CASE j = i + 1
      BY <3>2, <2>5
    <3>3. CASE j > i + 1
      <4>1. j - 1 \in k .. Len(s) /\ (j - 1) + 1 = j /\ j - 1 \in DOMAIN h[a].kids
        BY <3>3, <2>1, <2>2, <1>12
      <4>2. ids[(j - 1) + 1] = s[j - 1]
        BY <4>1, <2>4
      <4> QED  BY <4>1, <4>2, <2>1, KidsDiffer
    <3>4. j \in Int /\ i \in Int
      BY <1>12
    <3> QED  BY <3>1, <3>2, <3>3, <3>4
  <2>7. DOMAIN ids = 1 .. l + 1 /\ Len(ids) = l + 1
    BY <2>1, <2>4, <1>12
  <2> QED  BY <2>n, <2>4, <2>5, <2>6, <2>7
<1>14. DOMAIN ids = DOMAIN m.kids
  <2>1. m.kids \in Seq(Nodes(E, S)) /\ Len(m.kids) = l + 1
    BY <1>6, <1>9, <1>12 DEF Nodes
  <2> QED  BY <2>1, <1>13
<1>15. Count(n) \in Nat /\ Count(n) = Len(h[a].ents) /\ (EvenOrder /\ a # r => Count(n) >= MinKeys)
  BY <1>6, HeapTypes DEF Sizes, Count
<1>16. Sizes(g, r)
  <2>1. Count(m) <= MaxKeys /\ (EvenOrder /\ a # r => Count(m) >= MinKeys)
    BY <1>9, <1>11, <1>15
  <2> QED  BY <2>1, <1>3, <1>9, <1>10, <1>14, WrittenSizes
<1>17. /\ c \in DOMAIN g /\ g[c] = m.kids[i] /\ b \in DOMAIN g /\ g[b] = m.kids[i + 1]
       /\ a \in DOMAIN g /\ g[a].ents = m.ents
  <2>1. i \in DOMAIN ids /\ i + 1 \in DOMAIN ids
    BY <1>12, <1>13
  <2>2. /\ ids[i] \in DOMAIN g /\ g[ids[i]] = m.kids[i]
        /\ ids[i + 1] \in DOMAIN g /\ g[ids[i + 1]] = m.kids[i + 1]
        /\ a \in DOMAIN g /\ g[a].ents = m.ents
    BY <2>1, <1>3 DEF Written
  <2> QED  BY <2>2, <1>13
<1>18. ASSUME NEW x \in DOMAIN h, x # a, x \notin Range(h[a].kids)
       PROVE  x \in DOMAIN g /\ g[x] = h[x]
  <2>1. x \notin Range(ids)
    <3>1. SUFFICES ASSUME NEW k \in DOMAIN ids, x = ids[k] PROVE FALSE
      BY DEF Range
    <3> QED  BY <3>1, <1>13, <1>18
  <2> QED  BY <2>1, <1>3, <1>18 DEF Written
<1> QED  BY <1>1, <1>3, <1>4, <1>5, <1>9, <1>15, <1>16, <1>17, <1>18 DEF IsTree, Count

\* A change to a node and its children that leaves them the right sizes.
LEMMA TurnedSizes ==
    ASSUME Order, NEW E, NEW h, NEW r, NEW p, Heap(h, E), Tree(h, r, p), Sizes(h, r),
           NEW a, NEW g, NEW m, NEW ids, Turned(E, h, g, a, m, ids),
           Count(m) <= MaxKeys, EvenOrder /\ a # r => Count(m) >= MinKeys,
           \A k \in DOMAIN m.kids : Count(m.kids[k]) <= MaxKeys,
           EvenOrder => Bounded(m)
    PROVE  /\ Heap(g, E) /\ IsTree(g, r) /\ Sizes(g, r)
           /\ a \in DOMAIN g /\ g[a].ents = m.ents /\ DOMAIN ids = DOMAIN m.kids
           /\ \A k \in DOMAIN ids : ids[k] \in DOMAIN g /\ ids[k] # r /\ g[ids[k]] = m.kids[k]
<1>1. Heap(g, E) /\ Written(h, g, a, m, ids)
  BY DEF Turned
<1>2. PICK q : Tree(g, r, q)
  BY TurnTree
<1>3. r # NoTree
  BY HeapTypes DEF NoTree, Tree
<1>4. a \in DOMAIN g /\ g[a].ents = m.ents /\ g[a].kids = ids /\ View(g, a) = m
      /\ \A k \in DOMAIN ids : ids[k] \in DOMAIN g /\ g[ids[k]] = m.kids[k]
  BY <1>1 DEF Written
<1>5. DOMAIN ids = DOMAIN m.kids
  BY <1>1, <1>4, Viewed
<1>6. Sizes(g, r)
  BY <1>1, <1>5, WrittenSizes
<1>7. \A k \in DOMAIN ids : ids[k] # r
  BY <1>1, <1>2, <1>4, Kid
<1> QED  BY <1>1, <1>2, <1>3, <1>4, <1>5, <1>6, <1>7 DEF IsTree

LEMMA RefillKeeps ==
    ASSUME Order, NEW E, NEW h, NEW r, NEW p, Heap(h, E), Tree(h, r, p), Sizes(h, r),
           NEW a \in DOMAIN h, NEW i \in DOMAIN h[a].kids, RefillFits(View(h, a), i),
           EvenOrder /\ a # r => Len(h[a].ents) > MinKeys,
           NEW g, g = RefillAt(h, a, i), NEW o, o = Refill(View(h, a), i).at,
           NEW ids, ids = RefillIds(h, a, i)
    PROVE  /\ Heap(g, E) /\ IsTree(g, r) /\ Sizes(g, r)
           /\ ids[o] \in DOMAIN g /\ ids[o] # r
           /\ EvenOrder => Len(g[ids[o]].ents) > MinKeys
<1>1. PICK n, m, S : n = View(h, a) /\ m = Refill(n, i).node /\ S = Others(h, p, a)
  OBVIOUS
<1>2. h[a].kids # <<>>
  OBVIOUS
<1>3. /\ n \in Nodes(E, Nodes(E, S)) /\ Shaped(n) /\ n.ents = h[a].ents
      /\ DOMAIN n.kids = DOMAIN h[a].kids
      /\ \A j \in DOMAIN h[a].kids : n.kids[j] = h[h[a].kids[j]]
  BY <1>1, <1>2, TreeView
<1>4. \A k \in DOMAIN n.kids : Count(n.kids[k]) <= MaxKeys
  BY <1>1, SizesBelow
<1>5. EvenOrder => Bounded(n)
  BY <1>1, SizesBelow
<1>6. /\ Count(n) >= 1 \/ Count(n.kids[i]) # MinKeys
      /\ o \in DOMAIN m.kids /\ Count(m) \in {Count(n), Count(n) - 1}
      /\ \A k \in DOMAIN m.kids : Count(m.kids[k]) <= MaxKeys
      /\ EvenOrder /\ Bounded(n) => Bounded(m) /\ Count(m.kids[o]) > MinKeys
  <2>1. i \in DOMAIN n.kids /\ RefillFits(n, i) /\ o = Refill(n, i).at
    BY <1>1, <1>3
  <2> QED  BY SMTT(40), <2>1, <1>1, <1>3, <1>4, RefillSizes DEF EvenOrder
<1>7. Len(h[a].ents) >= 1 \/ Len(h[h[a].kids[i]].ents) # MinKeys
  BY <1>3, <1>6 DEF Count
<1>8. Turned(E, h, g, a, m, ids) /\ o \in DOMAIN ids
  BY <1>1, <1>7, RefillTurns
<1>9. Count(m) <= MaxKeys /\ (EvenOrder /\ a # r => Count(m) >= MinKeys)
  <2>1. PICK l \in Nat : l = Count(n) /\ l = Len(h[a].ents)
    BY <1>3, HeapTypes DEF Count
  <2>2. l <= MaxKeys
    BY <2>1 DEF Sizes
  <2>3. MaxKeys \in Nat /\ MinKeys \in Nat
    BY Bounds
  <2> QED  BY <2>1, <2>2, <2>3, <1>6
<1>10. /\ Heap(g, E) /\ IsTree(g, r) /\ Sizes(g, r) /\ DOMAIN ids = DOMAIN m.kids
       /\ \A k \in DOMAIN ids : ids[k] \in DOMAIN g /\ ids[k] # r /\ g[ids[k]] = m.kids[k]
  <2>1. \A k \in DOMAIN m.kids : Count(m.kids[k]) <= MaxKeys
    BY <1>6
  <2>2. EvenOrder => Bounded(m)
    BY <1>5, <1>6
  <2> QED  BY <2>1, <2>2, <1>8, <1>9, TurnedSizes
<1> QED  BY <1>5, <1>6, <1>8, <1>10 DEF Count

LEMMA MergeKeeps ==
    ASSUME Order, NEW E, NEW h, NEW r, NEW p, Heap(h, E), Tree(h, r, p), Sizes(h, r),
           NEW a \in DOMAIN h, h[a].kids # <<>>, NEW i \in 1 .. Len(h[a].ents),
           MergeFits(View(h, a), i), EvenOrder /\ a # r => Len(h[a].ents) > MinKeys,
           NEW g, g = MergeAt(h, a, i), NEW c, c = h[a].kids[i]
    PROVE  /\ Heap(g, E) /\ IsTree(g, r) /\ Sizes(g, r)
           /\ c \in DOMAIN g /\ c # r
           /\ EvenOrder => Len(g[c].ents) > MinKeys
<1>1. PICK n, m, S, ids : /\ n = View(h, a) /\ m = Merge(n, i) /\ S = Others(h, p, a)
                          /\ ids = RemoveAt(h[a].kids, i + 1)
  OBVIOUS
<1>2. /\ n \in Nodes(E, Nodes(E, S)) /\ Shaped(n) /\ n.ents = h[a].ents
      /\ DOMAIN n.kids = DOMAIN h[a].kids
  BY <1>1, TreeView
<1>3. \A k \in DOMAIN n.kids : Count(n.kids[k]) <= MaxKeys
  BY <1>1, SizesBelow
<1>4. EvenOrder => Bounded(n)
  BY <1>1, SizesBelow
<1>5. PICK l \in Nat : l = Count(n) /\ l = Len(h[a].ents) /\ i \in 1 .. l
  BY <1>2, HeapTypes DEF Count
<1>6. MaxKeys \in Nat /\ MinKeys \in Nat /\ MinKeys >= 1
  BY Bounds
<1>7. /\ Count(m) = l - 1 /\ i \in DOMAIN m.kids
      /\ Count(m.kids[i]) = Count(n.kids[i]) + 1 + Count(n.kids[i + 1])
      /\ \A k \in DOMAIN m.kids : k < i => m.kids[k] = n.kids[k]
      /\ \A k \in DOMAIN m.kids : k > i => m.kids[k] = n.kids[k + 1]
      /\ \A k \in DOMAIN m.kids : k \in DOMAIN n.kids /\ k + 1 \in DOMAIN n.kids
  <2>1. i \in 1 .. Count(n) /\ m = Merge(n, i) /\ l = Count(n)
    BY <1>1, <1>5
  <2>2. /\ Count(Merge(n, i)) = Count(n) - 1
        /\ i \in DOMAIN Merge(n, i).kids
        /\ Count(Merge(n, i).kids[i]) = Count(n.kids[i]) + 1 + Count(n.kids[i + 1])
        /\ \A k \in DOMAIN Merge(n, i).kids : k < i => Merge(n, i).kids[k] = n.kids[k]
        /\ \A k \in DOMAIN Merge(n, i).kids : k > i => Merge(n, i).kids[k] = n.kids[k + 1]
        /\ \A k \in DOMAIN Merge(n, i).kids : k \in DOMAIN n.kids /\ k + 1 \in DOMAIN n.kids
    BY <2>1, <1>2, MergeSizes
  <2> QED  BY <2>1, <2>2
<1>8. Count(n.kids[i]) + 1 + Count(n.kids[i + 1]) <= MaxKeys
  BY <1>1 DEF MergeFits
<1>9. \A k \in DOMAIN n.kids : k \in Int /\ Count(n.kids[k]) \in Nat
  <2>1. n.kids \in Seq(Nodes(E, S))
    BY <1>2 DEF Nodes
  <2>2. \A k \in DOMAIN n.kids : k \in Int /\ n.kids[k] \in Nodes(E, S)
    BY <2>1
  <2> QED  BY <2>2, Nodes_
<1>10. ASSUME NEW k \in DOMAIN m.kids
       PROVE  /\ Count(m.kids[k]) <= MaxKeys /\ Count(m.kids[k]) \in Nat
              /\ EvenOrder => Count(m.kids[k]) >= MinKeys
  <2>1. k \in DOMAIN n.kids /\ k + 1 \in DOMAIN n.kids /\ k \in Int
    BY <1>7, <1>9
  <2>2. CASE k = i
    <3>1. PICK x \in Nat, y \in Nat : x = Count(n.kids[i]) /\ y = Count(n.kids[i + 1])
      BY <2>1, <2>2, <1>9
    <3>2. EvenOrder => x >= MinKeys
      BY <2>1, <2>2, <3>1, <1>4, <1>6 DEF Bounded
    <3> QED  BY <2>2, <3>1, <3>2, <1>6, <1>7, <1>8
  <2>3. CASE k < i
    <3>1. m.kids[k] = n.kids[k]
      BY <2>3, <1>7
    <3>2. EvenOrder => Count(n.kids[k]) >= MinKeys
      BY <2>1, <1>4, <1>6 DEF Bounded
    <3> QED  BY <2>1, <3>1, <3>2, <1>3, <1>9
  <2>4. CASE k > i
    <3>1. m.kids[k] = n.kids[k + 1]
      BY <2>4, <1>7
    <3>2. EvenOrder => Count(n.kids[k + 1]) >= MinKeys
      BY <2>1, <1>4, <1>6 DEF Bounded
    <3> QED  BY <2>1, <3>1, <3>2, <1>3, <1>9
  <2> QED  BY <2>1, <2>2, <2>3, <2>4, <1>5
<1>11. EvenOrder => Bounded(m)
  BY <1>6, <1>10 DEF Bounded
<1>12. EvenOrder => Count(m.kids[i]) > MinKeys
  <2>1. SUFFICES ASSUME EvenOrder PROVE Count(m.kids[i]) > MinKeys
    OBVIOUS
  <2>2. i \in DOMAIN n.kids /\ i + 1 \in DOMAIN n.kids
    BY <1>7
  <2>3. PICK x \in Nat, y \in Nat : x = Count(n.kids[i]) /\ y = Count(n.kids[i + 1])
    BY <2>2, <1>9
  <2>4. x >= MinKeys
    BY <2>1, <2>2, <2>3, <1>4, <1>6 DEF Bounded
  <2> QED  BY <2>3, <2>4, <1>6, <1>7
<1>13. Count(m) <= MaxKeys /\ (EvenOrder /\ a # r => Count(m) >= MinKeys)
  <2>1. l <= MaxKeys
    BY <1>5 DEF Sizes
  <2> QED  BY <2>1, <1>5, <1>6, <1>7
<1>14. Turned(E, h, g, a, m, ids)
  BY <1>1, MergeTurns
<1>15. /\ Heap(g, E) /\ IsTree(g, r) /\ Sizes(g, r) /\ DOMAIN ids = DOMAIN m.kids
       /\ \A k \in DOMAIN ids : ids[k] \in DOMAIN g /\ ids[k] # r /\ g[ids[k]] = m.kids[k]
  <2>1. \A k \in DOMAIN m.kids : Count(m.kids[k]) <= MaxKeys
    BY <1>10
  <2> QED  BY <2>1, <1>11, <1>13, <1>14, TurnedSizes
<1>16. ids[i] = c
  <2>1. Merges(E, h, g, a, i)
    BY MergeInMemory
  <2>2. g[a].kids = ids
    BY <1>14 DEF Turned, Written
  <2> QED  BY <2>1, <2>2 DEF Merges
<1> QED  BY <1>7, <1>12, <1>15, <1>16 DEF Count

\* New entries for a node.
LEMMA EntriesKeep ==
    ASSUME Order, NEW E, NEW h, NEW r, NEW p, Heap(h, E), Tree(h, r, p), Sizes(h, r),
           NEW a \in DOMAIN h, NEW s \in Seq(E), h[a].kids # <<>> => Len(s) = Len(h[a].ents),
           Len(s) <= MaxKeys, EvenOrder /\ a # r => Len(s) >= MinKeys,
           NEW g, NewEnts(h, g, a, s)
    PROVE  Heap(g, E) /\ IsTree(g, r) /\ Sizes(g, r) /\ OtherEnts(h, g, a, s)
<1>1. Heap(g, E) /\ Tree(g, r, p) /\ OtherEnts(h, g, a, s)
  BY EntriesTree
<1>2. r # NoTree
  BY HeapTypes DEF NoTree, Tree
<1>3. Sizes(g, r)
  <2>1. ASSUME NEW x \in DOMAIN g
        PROVE  /\ Len(g[x].ents) <= MaxKeys
               /\ EvenOrder /\ x # r => Len(g[x].ents) >= MinKeys
    <3>1. CASE x = a
      BY <3>1, <1>1 DEF OtherEnts
    <3>2. CASE x # a
      BY <3>2, <1>1 DEF Sizes, OtherEnts
    <3> QED  BY <3>1, <3>2
  <2> QED  BY <2>1 DEF Sizes
<1> QED  BY <1>1, <1>2, <1>3 DEF IsTree

\* Entries changed at one place.
LEMMA NewEntry ==
    ASSUME NEW V, NEW s \in Seq(Entries(V)), NEW i \in DOMAIN s, NEW e \in Entries(V)
    PROVE  /\ [s EXCEPT ![i] = e] \in Seq(Entries(V)) /\ Len([s EXCEPT ![i] = e]) = Len(s)
           /\ DOMAIN [s EXCEPT ![i] = e] = DOMAIN s
<1>1. PICK E : E = Entries(V)
  OBVIOUS
<1>2. [s EXCEPT ![i] = e] \in Seq(E) /\ Len([s EXCEPT ![i] = e]) = Len(s)
  BY <1>1
<1> QED  BY <1>1, <1>2

LEMMA NewValue ==
    ASSUME NEW V, NEW s \in Seq(Entries(V)), NEW i \in DOMAIN s, NEW v \in V
    PROVE  /\ [s EXCEPT ![i].val = v] \in Seq(Entries(V))
           /\ Len([s EXCEPT ![i].val = v]) = Len(s)
<1>1. s[i] \in Entries(V)
  <2>1. PICK E : E = Entries(V)
    OBVIOUS
  <2>2. s[i] \in E
    BY <2>1
  <2> QED  BY <2>1, <2>2
<1>2. [s[i] EXCEPT !.val = v] \in Entries(V)
  BY <1>1 DEF Entries
<1>3. PICK e \in Entries(V) : e = [s[i] EXCEPT !.val = v]
  BY <1>2
<1>4. [s EXCEPT ![i].val = v] = [s EXCEPT ![i] = e]
  BY <1>3
<1> QED  BY <1>4, NewEntry

-----------------------------------------------------------------------------
(* What is under a node *)

\* Under and Height are recursive functions: each is a function that satisfies
\* its equation, if there is one.  Under a node are the members of every set
\* that it is in and that holds the children of its members.
LEMMA UnderIs ==
    ASSUME NEW E, Heap(mem, E)
    PROVE  /\ Under = [a \in DOMAIN mem |-> {a} \cup UNION {Under[b] : b \in Range(mem[a].kids)}]
           /\ \A a \in DOMAIN mem : \A i \in DOMAIN mem[a].kids : mem[a].kids[i] \in DOMAIN mem
<1> DEFINE Closed(C) == \A a \in C \cap DOMAIN mem : \A b \in Range(mem[a].kids) : b \in C
           f == [a \in DOMAIN mem |-> {x \in DOMAIN mem : \A C \in SUBSET DOMAIN mem :
                                          a \in C /\ Closed(C) => x \in C}]
<1>1. \A a \in DOMAIN mem : /\ \A i \in DOMAIN mem[a].kids : mem[a].kids[i] \in DOMAIN mem
                            /\ Range(mem[a].kids) \subseteq DOMAIN mem
  <2>1. \A a \in DOMAIN mem : \A i \in DOMAIN mem[a].kids : mem[a].kids[i] \in DOMAIN mem
    BY HeapTypes
  <2> QED  BY <2>1 DEF Range
<1>2. ASSUME NEW a \in DOMAIN mem
      PROVE  f[a] = {a} \cup UNION {f[b] : b \in Range(mem[a].kids)}
  <2> DEFINE U == {a} \cup UNION {f[b] : b \in Range(mem[a].kids)}
  <2>1. U \subseteq f[a]
    <3>1. a \in f[a]
      OBVIOUS
    <3>2. ASSUME NEW b \in Range(mem[a].kids) PROVE f[b] \subseteq f[a]
      <4>1. b \in DOMAIN mem
        BY <1>1
      <4>2. ASSUME NEW x \in f[b], NEW C \in SUBSET DOMAIN mem, a \in C, Closed(C) PROVE x \in C
        BY <4>1, <4>2
      <4> QED  BY <4>1, <4>2
    <3> HIDE DEF f, Closed
    <3> QED  BY <3>1, <3>2
  <2>2. U \in SUBSET DOMAIN mem
    BY <1>1
  <2>3. \A b \in Range(mem[a].kids) : b \in f[b]
    BY <1>1
  <2>4. Closed(U)
    <3>1. ASSUME NEW x \in U \cap DOMAIN mem, NEW y \in Range(mem[x].kids) PROVE y \in U
      <4>1. CASE x = a
        BY <4>1, <3>1, <2>3
      <4>2. CASE x # a
        <5>1. PICK b \in Range(mem[a].kids) : x \in f[b]
          BY <4>2, <3>1
        <5>2. y \in DOMAIN mem /\ b \in DOMAIN mem
          BY <3>1, <1>1
        <5>3. y \in f[b]
          BY <5>1, <5>2, <3>1
        <5> QED  BY <5>1, <5>3
      <4> QED  BY <4>1, <4>2
    <3> HIDE DEF U
    <3> QED  BY <3>1
  <2>5. f[a] \subseteq U
    <3>1. a \in U
      OBVIOUS
    <3> HIDE DEF U
    <3> QED  BY <3>1, <2>2, <2>4
  <2> QED  BY <2>1, <2>5
<1> HIDE DEF f
<1>3. f = [a \in DOMAIN mem |-> {a} \cup UNION {f[b] : b \in Range(mem[a].kids)}]
  <2>1. f = [a \in DOMAIN mem |-> f[a]]
    BY DEF f
  <2> QED  BY <2>1, <1>2
<1>4. Under = CHOOSE u : u = [a \in DOMAIN mem |-> {a} \cup UNION {u[b] : b \in Range(mem[a].kids)}]
  BY DEF Under
<1>5. Under = [a \in DOMAIN mem |-> {a} \cup UNION {Under[b] : b \in Range(mem[a].kids)}]
  <2>1. \E u : u = [a \in DOMAIN mem |-> {a} \cup UNION {u[b] : b \in Range(mem[a].kids)}]
    BY <1>3
  <2> QED  BY ZenonT(40), <2>1, <1>4
<1> QED  BY <1>1, <1>5

LEMMA UnderAll ==
    ASSUME NEW E, NEW p, Heap(mem, E), Tree(mem, root, p)
    PROVE  Under[root] = DOMAIN mem
<1>1. \A a \in DOMAIN mem : Under[a] = {a} \cup UNION {Under[b] : b \in Range(mem[a].kids)}
  BY UnderIs
<1>2. \A x \in DOMAIN mem : p[x].level \in Nat /\ p[x].level <= p[root].level
  BY TreeTypes
<1>r. root \in DOMAIN mem
  BY DEF Tree
<1>3. \A a \in DOMAIN mem : Under[a] \subseteq DOMAIN mem
  <2> DEFINE T == {p[a].level : a \in {x \in DOMAIN mem : ~(Under[x] \subseteq DOMAIN mem)}}
  <2>1. SUFFICES ASSUME T # {} PROVE FALSE
    OBVIOUS
  <2>2. T \subseteq Nat
    BY <1>2
  <2>3. PICK l \in T : \A k \in T : l <= k
    <3> HIDE DEF T
    <3> QED  BY <2>1, <2>2, LeastNat
  <2>4. PICK a \in DOMAIN mem : l = p[a].level /\ ~(Under[a] \subseteq DOMAIN mem)
    BY <2>3
  <2>5. ASSUME NEW b \in Range(mem[a].kids) PROVE Under[b] \subseteq DOMAIN mem
    <3>1. PICK i \in DOMAIN mem[a].kids : b = mem[a].kids[i]
      BY DEF Range
    <3>2. b \in DOMAIN mem /\ p[b].level = p[a].level - 1
      BY <3>1, Kid
    <3>3. p[b].level \in T \/ Under[b] \subseteq DOMAIN mem
      BY <3>2
    <3> HIDE DEF T
    <3>4. p[b].level \in T => l <= p[b].level
      BY <2>3
    <3> QED  BY <3>2, <3>3, <3>4, <2>4, <1>2
  <2> HIDE DEF T
  <2> QED  BY <2>4, <2>5, <1>1
<1>4. \A a \in DOMAIN mem : Under[a] \subseteq Under[root]
  <2> DEFINE T == {p[root].level - p[a].level :
                      a \in {x \in DOMAIN mem : ~(Under[x] \subseteq Under[root])}}
  <2>1. SUFFICES ASSUME T # {} PROVE FALSE
    OBVIOUS
  <2>2. T \subseteq Nat
    BY <1>2, <1>r
  <2>3. PICK l \in T : \A k \in T : l <= k
    <3> HIDE DEF T
    <3> QED  BY <2>1, <2>2, LeastNat
  <2>4. PICK x \in DOMAIN mem : l = p[root].level - p[x].level /\ ~(Under[x] \subseteq Under[root])
    BY <2>3
  <2>5. x # root
    BY <2>4
  <2>6. PICK a \in DOMAIN mem : a = p[x].up /\ p[a].level = p[x].level + 1 /\ x \in Range(mem[a].kids)
    BY <2>5, Parent DEF Range
  <2>7. Under[x] \subseteq Under[a]
    BY <2>6, <1>1
  <2>8. p[root].level - p[a].level \in T
    BY <2>4, <2>7
  <2> HIDE DEF T
  <2>9. l <= p[root].level - p[a].level
    BY <2>3, <2>8
  <2> QED  BY <2>4, <2>6, <2>9, <1>2, <1>r
<1>5. \A a \in DOMAIN mem : a \in Under[a]
  BY <1>1
<1> QED  BY <1>3, <1>4, <1>5, <1>r

-----------------------------------------------------------------------------
(* Every step keeps it                                                      *)

LEMMA InvFacts ==
    ASSUME Inv
    PROVE  /\ build \in Builds /\ Order /\ Keys \subseteq Nat
           /\ Heap(mem, Stock) /\ Sizes(mem, root) /\ Kept(mem, root) /\ Taken(mem, root, call)
           /\ Asked(call) /\ call \in Calls
           /\ root # NoTree => (\E p : Tree(mem, root, p)) /\ root \in DOMAIN mem
           /\ root = NoTree => DOMAIN mem = {}
           /\ root \in Int
<1>1. /\ build \in Builds /\ Kept(mem, root) /\ Taken(mem, root, call)
      /\ Heap(mem, Stock) /\ IsTree(mem, root) /\ Sizes(mem, root) /\ Asked(call) /\ call \in Calls
  BY DEF Inv, Kept, Taken, Asked
<1>2. root # NoTree => (\E p : Tree(mem, root, p)) /\ root \in DOMAIN mem
  BY <1>1 DEF IsTree, Tree
<1>3. DOMAIN mem \subseteq Nat
  BY <1>1 DEF Heap
<1>4. root \in Int
  BY <1>2, <1>3 DEF NoTree
<1> QED  BY <1>1, <1>2, <1>4, BuildOrder DEF IsTree

\* Where the scans of a node stop.
LEMMA Stops ==
    ASSUME NEW E, NEW h, NEW r, NEW p, Heap(h, E), Tree(h, r, p), NEW a \in DOMAIN h, NEW k
    PROVE  /\ NotLess(h[a], k) \in 1 .. Len(h[a].ents) + 1
           /\ NotGreater(h[a], k) \in 0 .. Len(h[a].ents)
           /\ h[a].kids # <<>> => /\ NotLess(h[a], k) \in DOMAIN h[a].kids
                                  /\ NotGreater(h[a], k) + 1 \in DOMAIN h[a].kids
<1>1. PICK S : S = DOMAIN h
  OBVIOUS
<1>2. h[a] \in Nodes(E, S)
  BY <1>1 DEF Heap
<1>3. PICK n \in Nodes(E, S) : n = h[a]
  BY <1>2
<1>4. PICK i, j : i = NotLess(n, k) /\ j = NotGreater(n, k)
  OBVIOUS
<1>5. i \in 1 .. Len(h[a].ents) + 1 /\ j \in 0 .. Len(h[a].ents)
  BY <1>3, <1>4, NotLessStops, NotGreaterStops DEF Count
<1>6. PICK c \in Nat : c = Len(h[a].ents)
  BY HeapTypes
<1>7. ASSUME h[a].kids # <<>> PROVE i \in DOMAIN h[a].kids /\ j + 1 \in DOMAIN h[a].kids
  <2>1. Len(h[a].kids) = c + 1
    BY <1>6, <1>7, TreeTypes
  <2>2. DOMAIN h[a].kids = 1 .. c + 1
    BY <2>1, HeapTypes
  <2> QED  BY <2>2, <1>5, <1>6
<1> QED  BY <1>3, <1>4, <1>5, <1>7

\* What a call is after it went on or returned.
LEMMA Went ==
    ASSUME Asked(call), NEW j \in Jobs, NEW a \in Int, GoOn(j, a)
    PROVE  /\ call' \in Calls /\ call'.job = j /\ call'.at = a
           /\ call'.op = call.op /\ call'.key = call.key /\ call'.val = call.val
           /\ call'.seek = call.seek /\ call'.short = call.short
<1>1. call \in Calls
  BY DEF Asked
<1>2. call' = [call EXCEPT !.job = j, !.at = a]
  BY DEF GoOn
<1> QED  BY <1>1, <1>2 DEF Calls

LEMMA Returned ==
    ASSUME build \in Builds, Asked(call), NEW x \in Values \cup {Null, 0, 1}, Return(x),
           NEW h, NEW r, RootOk(h, r)
    PROVE  Taken(h, r, call')
<1>1. call \in Calls /\ call' = [call EXCEPT !.ret = x, !.job = "idle", !.seek = call.key,
                                             !.at = NoTree, !.short = FALSE]
  BY DEF Asked, Return
<1>2. Keys \subseteq Nat
  BY BuildOrder
<1>3. /\ call' \in Calls /\ call'.job = "idle" /\ call'.op = call.op /\ call'.val = call.val
      /\ call'.short = FALSE
  <2>1. "idle" \in Jobs /\ NoTree \in Int
    BY DEF Jobs, NoTree
  <2>2. call.key \in Nat \cup {Null}
    BY <1>1, <1>2 DEF Calls
  <2> QED  BY <1>1, <2>1, <2>2 DEF Calls
<1>4. Asked(call')
  BY <1>3 DEF Asked
<1> QED  BY <1>3, <1>4 DEF Taken, Placed, Grown, Room, Spare, Rooted, Safe

\* After an unsound step nothing is claimed but that the memory was short or the
\* order odd.
LEMMA Undone ==
    ASSUME Asked(call), Unsound, NEW h, NEW r,
           ~((EvenOrder \/ ~Deletes) /\ ~Short)
    PROVE  Taken(h, r, call') /\ mem' = mem
<1>1. call \in Calls /\ call' = [call EXCEPT !.job = "unsound"] /\ mem' = mem
  BY DEF Asked, Unsound
<1>2. /\ call' \in Calls /\ call'.job = "unsound" /\ call'.op = call.op /\ call'.val = call.val
      /\ call'.short = call.short
  <2>1. "unsound" \in Jobs
    BY DEF Jobs
  <2> QED  BY <2>1, <1>1 DEF Calls
<1>3. Asked(call')
  BY <1>2 DEF Asked
<1>4. RootOk(h, r)
  BY DEF RootOk
<1> QED  BY <1>1, <1>2, <1>3, <1>4 DEF Taken, Placed, Grown, Room, Spare, Rooted, Safe

LEMMA StartsInv == Init => Inv
<1> SUFFICES ASSUME Init PROVE Inv
  OBVIOUS
<1>1. /\ build \in Builds /\ mem = << >> /\ root = NoTree
      /\ call = [op |-> "none", key |-> Null, val |-> Null, ret |-> Null,
                 job |-> "idle", seek |-> Null, at |-> NoTree, short |-> FALSE]
  BY DEF Init
<1>2. Heap(mem, Stock)
  <2>1. PICK D : D = DOMAIN mem
    OBVIOUS
  <2>2. D = {}
    BY <2>1, <1>1
  <2>3. IsFiniteSet(D)
    BY <2>2, FS_EmptySet
  <2>4. mem \in [D -> Nodes(Stock, D)]
    BY <2>1, <2>2, <1>1
  <2> QED  BY <2>1, <2>2, <2>3, <2>4 DEF Heap
<1>3. DOMAIN mem = {}
  BY <1>1
<1>4. Kept(mem, root)
  BY <1>1, <1>2, <1>3 DEF Kept, IsTree, Sizes
<1>5. call \in Calls /\ call.job = "idle" /\ call.op = "none" /\ call.short = FALSE
  BY <1>1 DEF Calls, Jobs, NoTree
<1>6. Asked(call)
  BY <1>5 DEF Asked
<1>7. Taken(mem, root, call)
  BY <1>1, <1>5, <1>6 DEF Taken, Placed, Grown, Room, Spare, Rooted, RootOk, Safe
<1> QED  BY <1>1, <1>4, <1>7 DEF Inv

LEMMA KeepsBeginCall == ASSUME Inv, BeginCall PROVE Inv'
<1>1. /\ build \in Builds /\ Keys \subseteq Nat /\ Kept(mem, root) /\ Taken(mem, root, call)
      /\ root # NoTree => root \in DOMAIN mem
      /\ root = NoTree => DOMAIN mem = {}
      /\ root \in Int
  BY InvFacts
<1>2. PICK op, k, v, job :
         /\ Call(op, k, v, job)
         /\ \/ op = "get" /\ job = "search" /\ k \in Keys /\ v = Null
            \/ op = "update" /\ job = "search" /\ k \in Keys /\ v \in Values
            \/ op = "insert" /\ job = "grow" /\ k \in Keys /\ v \in Values
            \/ op = "delete" /\ job = "search" /\ k \in Keys /\ v = Null /\ Deletes
            \/ op = "create" /\ job = "create" /\ k = Null /\ v = Null /\ root = NoTree
            \/ op = "free" /\ job = "free" /\ k = Null /\ v = Null /\ root # NoTree
  BY DEF BeginCall
<1>3. /\ call.job = "idle" /\ build' = build /\ mem' = mem /\ root' = root
      /\ call' = [op |-> op, key |-> k, val |-> v, ret |-> Null,
                  job |-> job, seek |-> k, at |-> root, short |-> FALSE]
  BY <1>2 DEF Call
<1>4. RootOk(mem, root)
  BY <1>1, <1>3 DEF Taken, Rooted
<1>5. call' \in Calls
  BY <1>1, <1>2, <1>3 DEF Calls, Jobs
<1>6. /\ call'.op = op /\ call'.key = k /\ call'.val = v /\ call'.job = job /\ call'.at = root
      /\ call'.seek = k /\ call'.short = FALSE
  BY <1>3
<1>7. Asked(call')
  BY <1>2, <1>5, <1>6 DEF Asked
<1>8. Placed(mem, root, call')
  BY <1>1, <1>2, <1>6 DEF Placed
<1>9. job \in {"search", "grow", "create", "free"}
  BY <1>2
<1>10. Taken(mem, root, call')
  BY <1>4, <1>6, <1>7, <1>8, <1>9 DEF Taken, Grown, Room, Spare, Rooted, Safe
<1> QED  BY <1>1, <1>3, <1>10, Carried

LEMMA KeepsDescend == ASSUME Inv, Descend PROVE Inv'
<1>1. /\ build \in Builds /\ Heap(mem, Stock) /\ Kept(mem, root) /\ Taken(mem, root, call)
      /\ Asked(call)
      /\ root # NoTree => \E p : Tree(mem, root, p)
  BY InvFacts
<1>2. /\ call.job \in {"search", "verify"} /\ call.at # NoTree /\ ~IsLeaf(mem[call.at])
      /\ GoOn(call.job, mem[call.at].kids[Scan]) /\ build' = build /\ mem' = mem /\ root' = root
  BY DEF Descend, Searching, Node
<1>3. PICK a \in DOMAIN mem : a = call.at /\ root # NoTree
  BY <1>1, <1>2 DEF Taken, Placed
<1>4. PICK p : Tree(mem, root, p)
  BY <1>1, <1>3
<1>5. PICK x : x = mem[a].kids[Scan]
  OBVIOUS
<1>6. Scan \in DOMAIN mem[a].kids
  BY <1>1, <1>2, <1>3, <1>4, Stops DEF Scan, Node, IsLeaf
<1>7. x \in DOMAIN mem /\ x \in Int
  BY <1>1, <1>5, <1>6, HeapTypes
<1>8. GoOn(call.job, x) /\ call.job \in Jobs
  BY <1>2, <1>3, <1>5 DEF Jobs
<1>9. /\ call' \in Calls /\ call'.job = call.job /\ call'.at = x
      /\ call'.op = call.op /\ call'.key = call.key /\ call'.val = call.val
      /\ call'.seek = call.seek /\ call'.short = call.short
  BY <1>1, <1>7, <1>8, Went
<1>10. Asked(call')
  BY <1>1, <1>9 DEF Asked
<1>11. RootOk(mem, root)
  BY <1>1, <1>2 DEF Taken, Rooted
<1>12. Taken(mem, root, call')
  BY <1>2, <1>3, <1>7, <1>9, <1>10, <1>11
     DEF Taken, Placed, Grown, Room, Spare, Rooted, Safe
<1> QED  BY <1>1, <1>2, <1>12, Carried

LEMMA KeepsMiss == ASSUME Inv, Miss PROVE Inv'
<1>1. /\ build \in Builds /\ Kept(mem, root) /\ Taken(mem, root, call) /\ Asked(call)
  BY InvFacts
<1>2. /\ call.job \in {"search", "verify"} /\ build' = build /\ mem' = mem /\ root' = root
      /\ Return(IF call.op = "get" THEN Null ELSE IF call.job = "verify" THEN 1 ELSE 0)
  BY DEF Miss, Searching
<1>3. PICK x \in Values \cup {Null, 0, 1} : Return(x)
  BY <1>2
<1>4. RootOk(mem, root)
  BY <1>1, <1>2 DEF Taken, Rooted
<1>5. Taken(mem, root, call')
  BY <1>1, <1>3, <1>4, Returned
<1> QED  BY <1>1, <1>2, <1>5, Carried

LEMMA KeepsFind == ASSUME Inv, Find PROVE Inv'
<1>1. /\ build \in Builds /\ Order /\ Heap(mem, Stock) /\ Sizes(mem, root) /\ Kept(mem, root)
      /\ Taken(mem, root, call) /\ Asked(call) /\ call \in Calls /\ Keys \subseteq Nat
      /\ root # NoTree => (\E p : Tree(mem, root, p)) /\ root \in DOMAIN mem
      /\ root \in Int
  BY InvFacts
<1>2. /\ call.job \in {"search", "verify"} /\ Met /\ build' = build /\ root' = root
      /\ call.at # NoTree
  BY DEF Find, Searching, Met
<1>3. PICK a \in DOMAIN mem : a = call.at /\ root # NoTree /\ root \in DOMAIN mem
  BY <1>1, <1>2 DEF Taken, Placed
<1>4. PICK p : Tree(mem, root, p)
  BY <1>1, <1>3
<1>5. PICK i \in DOMAIN mem[a].ents : i = Scan
  BY <1>2, <1>3 DEF Met, Holds, Node
<1>6. mem[a].ents \in Seq(Stock) /\ mem[a].ents[i] \in Stock /\ Len(mem[a].ents) \in Nat
  BY <1>1, HeapTypes
<1>7. PICK old \in Values : old = mem[a].ents[i].val
  BY <1>6 DEF Stock, Entries
<1>8. RootOk(mem, root)
  BY <1>1, <1>2 DEF Taken, Rooted
<1>9. \/ Return(old) /\ mem' = mem
      \/ call.op = "update" /\ Return(1) /\ mem' = [mem EXCEPT ![a].ents[i].val = call.val]
      \/ /\ call.op = "delete" /\ call.job = "search" /\ mem' = mem
         /\ call' = [call EXCEPT !.ret = old, !.job = "remove", !.at = root]
      \/ Return(0) /\ mem' = mem
  BY <1>3, <1>5, <1>7 DEF Find, Node
<1>10. CASE mem' = mem /\ \E x \in Values \cup {Null, 0, 1} : Return(x)
  <2>1. Taken(mem, root, call')
    BY <1>1, <1>8, <1>10, Returned
  <2> QED  BY <2>1, <1>1, <1>2, <1>10, Carried
<1>11. CASE call.op = "update" /\ Return(1) /\ mem' = [mem EXCEPT ![a].ents[i].val = call.val]
  <2>1. PICK v \in Values : v = call.val
    BY <1>1, <1>11 DEF Asked
  <2>2. PICK s \in Seq(Stock) : s = [mem[a].ents EXCEPT ![i].val = v] /\ Len(s) = Len(mem[a].ents)
    BY <2>1, <1>6, NewValue DEF Stock
  <2>3. NewEnts(mem, mem', a, s)
    <3>1. mem' = [mem EXCEPT ![a].ents = s]
      BY <2>1, <2>2, <1>11
    <3> QED  BY <3>1 DEF NewEnts
  <2>4. Len(s) <= MaxKeys /\ (EvenOrder /\ a # root => Len(s) >= MinKeys)
    BY <2>2, <1>1 DEF Sizes
  <2>5. Heap(mem', Stock) /\ IsTree(mem', root) /\ Sizes(mem', root) /\ OtherEnts(mem, mem', a, s)
    BY <2>2, <2>3, <2>4, <1>1, <1>4, EntriesKeep
  <2>6. RootOk(mem', root)
    BY <2>2, <2>5, <1>3, <1>8 DEF RootOk, OtherEnts
  <2>7. Taken(mem', root, call')
    BY <2>6, <1>1, <1>11, Returned
  <2> QED  BY <2>5, <2>7, <1>1, <1>2, Carried DEF Kept
<1>12. CASE /\ call.op = "delete" /\ call.job = "search" /\ mem' = mem
            /\ call' = [call EXCEPT !.ret = old, !.job = "remove", !.at = root]
  <2>1. /\ call' \in Calls /\ call'.job = "remove" /\ call'.at = root /\ call'.op = "delete"
        /\ call'.key = call.key /\ call'.val = call.val /\ call'.seek = call.seek
        /\ call'.short = call.short
    BY <1>1, <1>12 DEF Calls, Jobs
  <2>2. call.key \in Nat /\ call.key \in Keys /\ call.seek = call.key
    BY <1>1, <1>12 DEF Asked
  <2>3. Asked(call')
    BY <2>1, <2>2, <1>1, <1>12 DEF Asked
  <2>4. Taken(mem, root, call')
    BY <2>1, <2>3, <1>3, <1>8 DEF Taken, Placed, Grown, Room, Spare, Rooted, Safe
  <2> QED  BY <2>4, <1>1, <1>2, <1>12, Carried
<1> QED  BY <1>9, <1>10, <1>11, <1>12

LEMMA KeepsGrowRoot == ASSUME Inv, GrowRoot PROVE Inv'
<1>1. /\ build \in Builds /\ Order /\ Heap(mem, Stock) /\ Sizes(mem, root) /\ Kept(mem, root)
      /\ Taken(mem, root, call) /\ Asked(call) /\ call \in Calls
      /\ root # NoTree => (\E p : Tree(mem, root, p)) /\ root \in DOMAIN mem
      /\ root \in Int
  BY InvFacts
<1>2. call.job = "grow" /\ build' = build /\ call.op = "insert"
  BY <1>1 DEF GrowRoot, Asked
<1>3. RootOk(mem, root)
  BY <1>1, <1>2 DEF Taken, Rooted
<1>4. \/ Return(0) /\ mem' = mem /\ root' = root
      \/ /\ root # NoTree /\ Count(mem[root]) # MaxKeys
         /\ GoOn("insert", root) /\ mem' = mem /\ root' = root
      \/ /\ root # NoTree /\ Count(mem[root]) = MaxKeys
         /\ mem' = With(mem, Fresh, [ents |-> <<>>, kids |-> <<root>>]) /\ root' = Fresh
         /\ GoOn("split", Fresh)
  BY DEF GrowRoot
<1>5. CASE Return(0) /\ mem' = mem /\ root' = root
  <2>1. Taken(mem, root, call')
    BY <1>1, <1>3, <1>5, Returned
  <2> QED  BY <2>1, <1>1, <1>2, <1>5, Carried
<1>6. CASE /\ root # NoTree /\ Count(mem[root]) # MaxKeys
           /\ GoOn("insert", root) /\ mem' = mem /\ root' = root
  <2>1. "insert" \in Jobs
    BY DEF Jobs
  <2>2. /\ call' \in Calls /\ call'.job = "insert" /\ call'.at = root
        /\ call'.op = call.op /\ call'.key = call.key /\ call'.val = call.val
        /\ call'.seek = call.seek /\ call'.short = call.short
    BY <2>1, <1>1, <1>6, Went
  <2>3. Asked(call')
    BY <2>2, <1>1, <1>2 DEF Asked
  <2>4. Taken(mem, root, call')
    BY <2>2, <2>3, <1>1, <1>3, <1>6
       DEF Taken, Placed, Grown, Room, Spare, Rooted, Safe, Count
  <2> QED  BY <2>4, <1>1, <1>2, <1>6, Carried
<1>7. CASE /\ root # NoTree /\ Count(mem[root]) = MaxKeys
           /\ mem' = With(mem, Fresh, [ents |-> <<>>, kids |-> <<root>>]) /\ root' = Fresh
           /\ GoOn("split", Fresh)
  <2>1. PICK b \in Nat : b = Fresh /\ b \notin DOMAIN mem
    BY <1>1, FreshIsFree
  <2>2. PICK p : Tree(mem, root, p) /\ root \in DOMAIN mem
    BY <1>1, <1>7
  <2>3. PICK g : g = mem' /\ Raised(mem, g, root, b)
    BY <2>1, <1>7 DEF Raised
  <2>4. /\ Heap(g, Stock) /\ Tree(g, b, GrownPlaces(mem, root, p, b))
        /\ DOMAIN g = DOMAIN mem \cup {b} /\ g[b].ents = <<>> /\ g[b].kids = <<root>>
        /\ \A x \in DOMAIN mem : g[x] = mem[x]
    <3>1. /\ Heap(mem, Stock) /\ Tree(mem, root, p) /\ b \in Nat /\ b \notin DOMAIN mem
          /\ Raised(mem, g, root, b)
      BY <2>1, <2>2, <2>3, <1>1
    <3>2. RaisedIs(Stock, mem, g, root, p, b)
      BY <3>1, GrowTree
    <3> QED  BY <3>2 DEF RaisedIs
  <2>5. b # NoTree /\ b \in Int
    BY <2>1 DEF NoTree
  <2>6. MaxKeys \in Nat /\ MinKeys \in Nat /\ MinKeys < MaxKeys
    BY <1>1, BuildOrder
  <2>7. Sizes(g, b)
    <3>1. ASSUME NEW x \in DOMAIN g
          PROVE  /\ Len(g[x].ents) <= MaxKeys
                 /\ EvenOrder /\ x # b => Len(g[x].ents) >= MinKeys
      <4>1. CASE x = b
        <5>1. Len(g[b].ents) = 0
          BY <2>4
        <5> QED  BY <4>1, <5>1, <2>6
      <4>2. CASE x # b
        <5>1. g[x] = mem[x] /\ x \in DOMAIN mem
          BY <4>2, <2>4
        <5>2. Len(mem[x].ents) <= MaxKeys /\ (EvenOrder /\ x # root => Len(mem[x].ents) >= MinKeys)
          BY <5>1, <1>1 DEF Sizes
        <5>3. x = root => Len(mem[x].ents) >= MinKeys
          BY <2>6, <1>7 DEF Count
        <5> QED  BY <4>2, <5>1, <5>2, <5>3
      <4> QED  BY <4>1, <4>2
    <3> QED  BY <3>1 DEF Sizes
  <2>8. Kept(g, b)
    BY <2>4, <2>5, <2>7 DEF Kept, IsTree
  <2>9. "split" \in Jobs /\ GoOn("split", b)
    BY <2>1, <1>7 DEF Jobs
  <2>10. /\ call' \in Calls /\ call'.job = "split" /\ call'.at = b
         /\ call'.op = call.op /\ call'.key = call.key /\ call'.val = call.val
         /\ call'.seek = call.seek /\ call'.short = call.short
    BY <2>5, <2>9, <1>1, Went
  <2>11. Asked(call')
    BY <2>10, <1>1, <1>2 DEF Asked
  <2>12. /\ Len(g[b].kids) = 1 /\ g[b].kids[1] = root /\ g[root] = mem[root]
    BY <2>2, <2>4
  <2>13. Grown(g, b, call')
    BY <2>4, <2>10, <2>12, <1>7 DEF Grown, Count
  <2>14. Taken(g, b, call')
    BY <2>4, <2>10, <2>11, <2>13 DEF Taken, Placed, Room, Spare, Rooted, Safe
  <2> QED  BY <2>1, <2>3, <2>8, <2>14, <1>1, <1>2, <1>7, Carried
<1> QED  BY <1>4, <1>5, <1>6, <1>7

LEMMA Mallocs ==
    ASSUME Asked(call), NEW got \in Malloc
    PROVE  got \in BOOLEAN /\ (~got => Short) /\ (call.short => ~got)
BY DEF Malloc, Asked

LEMMA KeepsSplitRoot == ASSUME Inv, SplitRoot PROVE Inv'
<1>1. /\ build \in Builds /\ Order /\ Heap(mem, Stock) /\ Sizes(mem, root) /\ Kept(mem, root)
      /\ Taken(mem, root, call) /\ Asked(call) /\ call \in Calls
      /\ root # NoTree => (\E p : Tree(mem, root, p)) /\ root \in DOMAIN mem
      /\ root = NoTree => DOMAIN mem = {}
  BY InvFacts
<1>2. /\ call.job = "split" /\ build' = build /\ root' = root /\ call.op = "insert"
      /\ call.at \in DOMAIN mem /\ call.at = root
      /\ mem[root].ents = <<>> /\ Len(mem[root].kids) = 1
      /\ Len(mem[mem[root].kids[1]].ents) = MaxKeys
  BY <1>1 DEF SplitRoot, Taken, Asked, Placed, Grown
<1>3. PICK p : Tree(mem, root, p) /\ root \in DOMAIN mem
  BY <1>1, <1>2
<1>4. PICK got \in BOOLEAN :
         /\ ~got => Short
         /\ mem' = IF got THEN Split(root, 1) ELSE mem
         /\ call' = [call EXCEPT !.job = "insert", !.short = ~got]
  BY <1>1, <1>2, Mallocs DEF SplitRoot
<1>5. /\ call' \in Calls /\ call'.job = "insert" /\ call'.at = root /\ call'.op = "insert"
      /\ call'.key = call.key /\ call'.val = call.val /\ call'.short = ~got
  <2>1. "insert" \in Jobs /\ (~got) \in BOOLEAN
    BY DEF Jobs
  <2> QED  BY <2>1, <1>1, <1>2, <1>4 DEF Calls
<1>6. Asked(call')
  BY <1>1, <1>2, <1>4, <1>5 DEF Asked
<1>7. MaxKeys \in Nat /\ MaxKeys >= 2
  BY <1>1, BuildOrder
<1>8. Len(mem[root].ents) = 0
  BY <1>2
<1>9. CASE ~got
  <2>1. Taken(mem, root, call')
    BY <1>3, <1>4, <1>5, <1>6, <1>9
       DEF Taken, Placed, Grown, Room, Spare, Rooted, RootOk, Safe
  <2> QED  BY <2>1, <1>1, <1>2, <1>4, <1>9, Carried
<1>10. CASE got
  <2>1. PICK b \in Nat : b = Fresh /\ b \notin DOMAIN mem
    BY <1>1, FreshIsFree
  <2>2. PICK g : g = mem' /\ g = SplitAt(mem, root, 1, b)
    BY <2>1, <1>4, <1>10 DEF Split, SplitIds, SplitAt
  <2>3. PICK i \in DOMAIN mem[root].kids : i = 1
    BY <1>1, <1>2, <1>3, HeapTypes
  <2>4. Len(mem[root].ents) < MaxKeys
    BY <1>7, <1>8
  <2>5. /\ Heap(g, Stock) /\ IsTree(g, root) /\ Sizes(g, root)
        /\ root \in DOMAIN g /\ Len(g[root].ents) = Len(mem[root].ents) + 1
    <3>1. Len(mem[mem[root].kids[i]].ents) = MaxKeys /\ g = SplitAt(mem, root, i, b)
      BY <2>2, <2>3, <1>2
    <3> QED  BY <3>1, <2>1, <2>4, <1>1, <1>3, SplitKeeps
  <2>6. Len(g[root].ents) = 1
    BY <2>5, <1>8
  <2>7. RootOk(g, root) /\ Room(g, call')
    <3>1. Len(g[root].ents) >= 1
      BY <2>6
    <3>2. Len(g[root].ents) # MaxKeys
      BY <2>6, <1>7
    <3>3. RootOk(g, root)
      BY <3>1 DEF RootOk
    <3>4. Room(g, call')
      BY <3>2, <1>5 DEF Room
    <3> QED  BY <3>3, <3>4
  <2>8. Taken(g, root, call')
    BY <2>5, <2>7, <1>5, <1>6 DEF Taken, Placed, Grown, Spare, Rooted, Safe
  <2> QED  BY <2>2, <2>5, <2>8, <1>1, <1>2, Carried DEF Kept
<1> QED  BY <1>9, <1>10

LEMMA KeepsInsertIntoLeaf == ASSUME Inv, InsertIntoLeaf PROVE Inv'
<1>1. /\ build \in Builds /\ Order /\ Heap(mem, Stock) /\ Sizes(mem, root) /\ Kept(mem, root)
      /\ Taken(mem, root, call) /\ Asked(call) /\ call \in Calls /\ Keys \subseteq Nat
      /\ root # NoTree => (\E p : Tree(mem, root, p)) /\ root \in DOMAIN mem
      /\ root = NoTree => DOMAIN mem = {}
  BY InvFacts
<1>2. /\ call.job = "insert" /\ build' = build /\ root' = root /\ IsLeaf(mem[call.at])
      /\ call.op = "insert" /\ call.key \in Keys /\ call.val \in Values
  BY <1>1 DEF InsertIntoLeaf, Inserting, Node, Asked
<1>3. PICK a \in DOMAIN mem : a = call.at /\ root # NoTree
  BY <1>1, <1>2 DEF Taken, Placed
<1>4. PICK p : Tree(mem, root, p) /\ root \in DOMAIN mem
  BY <1>1, <1>3
<1>5. RootOk(mem, root)
  BY <1>1, <1>2 DEF Taken, Rooted
<1>6. PICK i \in 0 .. Len(mem[a].ents) : i = Slot
  BY <1>1, <1>3, <1>4, Stops DEF Slot, Node
<1>7. PICK k \in Nat, v \in Values : k = call.key /\ v = call.val
  BY <1>1, <1>2
<1>8. mem[a].ents \in Seq(Stock) /\ Len(mem[a].ents) \in Nat /\ mem[a].kids = <<>>
  BY <1>1, <1>2, <1>3, HeapTypes DEF IsLeaf
<1>9. CASE Len(mem[a].ents) = MaxKeys /\ ~(i = MaxKeys /\ Holds(mem[a], i, k))
  <2>1. Unsound
    BY <1>3, <1>6, <1>7, <1>9 DEF InsertIntoLeaf, Node, Count
  <2>2. Short
    BY <1>1, <1>2, <1>3, <1>9 DEF Taken, Room, Asked
  <2>3. Taken(mem, root, call') /\ mem' = mem
    BY <2>1, <2>2, <1>1, Undone
  <2> QED  BY <2>3, <1>1, <1>2, Carried
<1>10. CASE ~(Len(mem[a].ents) = MaxKeys /\ ~(i = MaxKeys /\ Holds(mem[a], i, k)))
  <2>1. Return(1) /\ mem' = [mem EXCEPT ![a].ents = LeafInsert(@, i, k, v)]
    BY <1>3, <1>6, <1>7, <1>10 DEF InsertIntoLeaf, Node, Count
  <2>2. PICK s : s = LeafInsert(mem[a].ents, i, k, v)
    OBVIOUS
  <2>3. /\ s \in Seq(Stock)
        /\ Len(s) = IF i \in DOMAIN mem[a].ents /\ mem[a].ents[i].key = k
                      THEN Len(mem[a].ents) ELSE Len(mem[a].ents) + 1
    <3>1. PICK t \in Seq(Entries(Values)) : t = mem[a].ents
      BY <1>8 DEF Stock
    <3>2. i \in 0 .. Len(t)
      BY <3>1, <1>6
    <3>3. /\ LeafInsert(t, i, k, v) \in Seq(Entries(Values))
          /\ Len(LeafInsert(t, i, k, v))
                = IF i \in DOMAIN t /\ t[i].key = k THEN Len(t) ELSE Len(t) + 1
      BY <3>2, LeafInsertIs
    <3> QED  BY <3>1, <3>3, <2>2 DEF Stock
  <2>4. NewEnts(mem, mem', a, s)
    BY <2>1, <2>2 DEF NewEnts
  <2>5. PICK l \in Nat : /\ l = Len(mem[a].ents) /\ l <= MaxKeys
                         /\ EvenOrder /\ a # root => l >= MinKeys
    BY <1>1, <1>8 DEF Sizes
  <2>6. Len(s) <= MaxKeys /\ (EvenOrder /\ a # root => Len(s) >= MinKeys)
    <3>1. MaxKeys \in Nat /\ MinKeys \in Nat
      BY <1>1, BuildOrder
    <3>2. l = MaxKeys => i \in DOMAIN mem[a].ents /\ mem[a].ents[i].key = k
      BY <2>5, <1>10 DEF Holds
    <3>3. Len(s) = l \/ (Len(s) = l + 1 /\ l # MaxKeys)
      BY <2>3, <2>5, <3>2
    <3> QED  BY <3>1, <3>3, <2>5
  <2>7. mem[a].kids # <<>> => Len(s) = Len(mem[a].ents)
    BY <1>8
  <2>8. Heap(mem', Stock) /\ IsTree(mem', root) /\ Sizes(mem', root) /\ OtherEnts(mem, mem', a, s)
    BY <2>3, <2>4, <2>6, <2>7, <1>1, <1>4, EntriesKeep
  <2>9. RootOk(mem', root)
    BY <2>8, <1>4, <1>5, <1>8 DEF RootOk, OtherEnts
  <2>10. Taken(mem', root, call')
    BY <2>1, <2>9, <1>1, Returned
  <2> QED  BY <2>8, <2>10, <1>1, <1>2, Carried DEF Kept
<1> QED  BY <1>9, <1>10

LEMMA KeepsInsertBelow == ASSUME Inv, InsertBelow PROVE Inv'
<1>1. /\ build \in Builds /\ Order /\ Heap(mem, Stock) /\ Sizes(mem, root) /\ Kept(mem, root)
      /\ Taken(mem, root, call) /\ Asked(call) /\ call \in Calls /\ Keys \subseteq Nat
      /\ root # NoTree => (\E p : Tree(mem, root, p)) /\ root \in DOMAIN mem
      /\ root = NoTree => DOMAIN mem = {}
  BY InvFacts
<1>2. /\ call.job = "insert" /\ build' = build /\ root' = root /\ ~IsLeaf(mem[call.at])
      /\ call.op = "insert" /\ call.key \in Keys /\ call.val \in Values
  BY <1>1 DEF InsertBelow, Inserting, Node, Asked
<1>3. PICK a \in DOMAIN mem : a = call.at /\ root # NoTree
  BY <1>1, <1>2 DEF Taken, Placed
<1>4. PICK p : Tree(mem, root, p) /\ root \in DOMAIN mem
  BY <1>1, <1>3
<1>5. RootOk(mem, root)
  BY <1>1, <1>2 DEF Taken, Rooted
<1>6. mem[a].kids # <<>>
  BY <1>2, <1>3 DEF IsLeaf
<1>7. PICK i, c : i = Slot /\ c = i + 1 /\ i \in 0 .. Len(mem[a].ents) /\ c \in DOMAIN mem[a].kids
  BY <1>1, <1>3, <1>4, <1>6, Stops DEF Slot, Node
<1>8. PICK x \in DOMAIN mem : x = mem[a].kids[c] /\ x \in Int /\ x # a /\ x # root
  <2>1. mem[a].kids[c] \in DOMAIN mem /\ mem[a].kids[c] # root /\ mem[a].kids[c] # a
    BY <1>1, <1>4, <1>7, Kid
  <2>2. mem[a].kids[c] \in Nat
    BY <2>1, <1>1 DEF Heap
  <2> QED  BY <2>1, <2>2
<1>9. \/ /\ Holds(mem[a], i, call.key)
         /\ mem' = [mem EXCEPT ![a].ents[i].val = call.val] /\ Return(1)
      \/ /\ Len(mem[x].ents) # MaxKeys /\ GoOn("insert", x) /\ mem' = mem
      \/ /\ Len(mem[x].ents) = MaxKeys
         /\ \E got \in Malloc :
               IF got
                 THEN /\ mem' = Split(a, c)
                      /\ \E y \in {Fresh, x} : GoOn("insert", y)
                 ELSE \/ /\ call' = [call EXCEPT !.at = x, !.short = TRUE]
                         /\ mem' = mem
                      \/ Unsound
  BY <1>3, <1>7, <1>8 DEF InsertBelow, Node, Count
<1>j. "insert" \in Jobs
  BY DEF Jobs
\* The key is here.
<1>10. CASE /\ Holds(mem[a], i, call.key)
            /\ mem' = [mem EXCEPT ![a].ents[i].val = call.val] /\ Return(1)
  <2>1. PICK v \in Values : v = call.val
    BY <1>2
  <2>2. mem[a].ents \in Seq(Stock) /\ i \in DOMAIN mem[a].ents /\ Len(mem[a].ents) \in Nat
    BY <1>1, <1>10, HeapTypes DEF Holds
  <2>3. PICK s \in Seq(Stock) : s = [mem[a].ents EXCEPT ![i].val = v] /\ Len(s) = Len(mem[a].ents)
    BY ZenonT(40), <2>1, <2>2, NewValue DEF Stock
  <2>4. NewEnts(mem, mem', a, s)
    <3>1. mem' = [mem EXCEPT ![a].ents = s]
      BY <2>1, <2>3, <1>10
    <3> QED  BY <3>1 DEF NewEnts
  <2>5. Len(s) <= MaxKeys /\ (EvenOrder /\ a # root => Len(s) >= MinKeys)
    BY <2>3, <1>1 DEF Sizes
  <2>6. Heap(mem', Stock) /\ IsTree(mem', root) /\ Sizes(mem', root) /\ OtherEnts(mem, mem', a, s)
    BY <2>3, <2>4, <2>5, <1>1, <1>4, EntriesKeep
  <2>7. RootOk(mem', root)
    BY <2>3, <2>6, <1>4, <1>5 DEF RootOk, OtherEnts
  <2>8. Taken(mem', root, call')
    BY <2>7, <1>1, <1>10, Returned
  <2> QED  BY <2>6, <2>8, <1>1, <1>2, Carried DEF Kept
\* The child has room.
<1>11. CASE Len(mem[x].ents) # MaxKeys /\ GoOn("insert", x) /\ mem' = mem
  <2>1. /\ call' \in Calls /\ call'.job = "insert" /\ call'.at = x
        /\ call'.op = call.op /\ call'.key = call.key /\ call'.val = call.val
        /\ call'.seek = call.seek /\ call'.short = call.short
    BY <1>1, <1>j, <1>8, <1>11, Went
  <2>2. Asked(call')
    BY <2>1, <1>1, <1>2 DEF Asked
  <2>3. Taken(mem, root, call')
    BY <2>1, <2>2, <1>5, <1>8, <1>11
       DEF Taken, Placed, Grown, Room, Spare, Rooted, Safe
  <2> QED  BY <2>3, <1>1, <1>2, <1>11, Carried
\* There is no memory to split it.
<1>12. CASE /\ Len(mem[x].ents) = MaxKeys /\ FALSE \in Malloc
            /\ \/ call' = [call EXCEPT !.at = x, !.short = TRUE] /\ mem' = mem
               \/ Unsound
  <2>1. Short
    BY <1>1, <1>12, Mallocs
  <2>2. CASE call' = [call EXCEPT !.at = x, !.short = TRUE] /\ mem' = mem
    <3>1. /\ call' \in Calls /\ call'.job = "insert" /\ call'.at = x /\ call'.op = call.op
          /\ call'.key = call.key /\ call'.val = call.val /\ call'.short = TRUE
      BY <2>2, <1>1, <1>2, <1>8 DEF Calls
    <3>2. Asked(call')
      BY <2>1, <3>1, <1>1, <1>2 DEF Asked
    <3>3. Taken(mem, root, call')
      BY <3>1, <3>2, <1>5, <1>8 DEF Taken, Placed, Grown, Room, Spare, Rooted, Safe
    <3> QED  BY <2>2, <3>3, <1>1, <1>2, Carried
  <2>3. CASE Unsound
    <3>1. Taken(mem, root, call') /\ mem' = mem
      BY <2>1, <2>3, <1>1, Undone
    <3> QED  BY <3>1, <1>1, <1>2, Carried
  <2> QED  BY <2>2, <2>3, <1>12
\* It is split, which takes a place in the node: there is one, as memory was
\* never short in this call.
<1>13. CASE /\ Len(mem[x].ents) = MaxKeys /\ TRUE \in Malloc
            /\ mem' = Split(a, c) /\ \E y \in {Fresh, x} : GoOn("insert", y)
  <2>1. PICK b \in Nat : b = Fresh /\ b \notin DOMAIN mem
    BY <1>1, FreshIsFree
  <2>2. PICK g : g = mem' /\ g = SplitAt(mem, a, c, b)
    BY <2>1, <1>13 DEF Split, SplitIds, SplitAt
  <2>3. Len(mem[a].ents) < MaxKeys
    <3>1. ~call.short
      BY <1>1, <1>13, Mallocs
    <3>2. Len(mem[a].ents) # MaxKeys
      BY <3>1, <1>1, <1>2, <1>3 DEF Taken, Room
    <3>3. Len(mem[a].ents) <= MaxKeys /\ Len(mem[a].ents) \in Nat /\ MaxKeys \in Nat
      BY <1>1, HeapTypes, BuildOrder DEF Sizes
    <3> QED  BY <3>2, <3>3
  <2>4. Len(mem[mem[a].kids[c]].ents) = MaxKeys
    BY <1>8, <1>13
  <2>5. /\ Heap(g, Stock) /\ IsTree(g, root) /\ Sizes(g, root)
        /\ a \in DOMAIN g /\ Len(g[a].ents) = Len(mem[a].ents) + 1
        /\ b \in DOMAIN g /\ Len(g[b].ents) < MaxKeys
        /\ mem[a].kids[c] \in DOMAIN g /\ Len(g[mem[a].kids[c]].ents) < MaxKeys
        /\ \A y \in DOMAIN mem : y # a /\ y \notin Range(mem[a].kids) =>
              y \in DOMAIN g /\ g[y] = mem[y]
    BY <2>1, <2>2, <2>3, <2>4, <1>1, <1>4, <1>7, SplitKeeps
  <2>6. RootOk(g, root)
    <3>1. CASE a = root
      <4>1. Len(g[root].ents) >= 1
        BY <3>1, <2>5, <1>1, HeapTypes
      <4> QED  BY <4>1 DEF RootOk
    <3>2. CASE a # root
      <4>1. root \notin Range(mem[a].kids)
        <5>1. SUFFICES ASSUME NEW k \in DOMAIN mem[a].kids, root = mem[a].kids[k] PROVE FALSE
          BY DEF Range
        <5> QED  BY <5>1, <1>1, <1>4, Kid
      <4>2. g[root] = mem[root]
        BY <3>2, <4>1, <2>5, <1>4
      <4> QED  BY <4>2, <1>5 DEF RootOk
    <3> QED  BY <3>1, <3>2
  <2>7. PICK y \in DOMAIN g : GoOn("insert", y) /\ y \in Int /\ Len(g[y].ents) < MaxKeys
    BY <2>1, <2>5, <1>8, <1>13
  <2>8. /\ call' \in Calls /\ call'.job = "insert" /\ call'.at = y
        /\ call'.op = call.op /\ call'.key = call.key /\ call'.val = call.val
        /\ call'.seek = call.seek /\ call'.short = call.short
    BY <2>7, <1>1, <1>j, Went
  <2>9. Asked(call')
    BY <2>8, <1>1, <1>2 DEF Asked
  <2>10. Room(g, call')
    <3>1. Len(g[y].ents) # MaxKeys
      BY <2>5, <2>7, <1>1, HeapTypes, BuildOrder
    <3> QED  BY <3>1, <2>8 DEF Room
  <2>11. Taken(g, root, call')
    BY <2>6, <2>7, <2>8, <2>9, <2>10 DEF Taken, Placed, Grown, Spare, Rooted, Safe
  <2> QED  BY <2>2, <2>5, <2>11, <1>1, <1>2, Carried DEF Kept
<1>14. \A got \in Malloc : got \in BOOLEAN
  BY <1>1, Mallocs
<1> QED  BY <1>9, <1>10, <1>11, <1>12, <1>13, <1>14

LEMMA KeepsRemoveFromLeaf == ASSUME Inv, RemoveFromLeaf PROVE Inv'
<1>1. /\ build \in Builds /\ Order /\ Heap(mem, Stock) /\ Sizes(mem, root) /\ Kept(mem, root)
      /\ Taken(mem, root, call) /\ Asked(call) /\ call \in Calls /\ Keys \subseteq Nat
      /\ root # NoTree => (\E p : Tree(mem, root, p)) /\ root \in DOMAIN mem
      /\ root = NoTree => DOMAIN mem = {}
      /\ root \in Int
  BY InvFacts
<1>2. /\ call.job = "remove" /\ build' = build /\ root' = root /\ IsLeaf(mem[call.at])
      /\ call.op = "delete" /\ call.key \in Keys /\ GoOn("shrink", root)
      /\ mem' = IF Held THEN [mem EXCEPT ![call.at].ents = RemoveAt(@, Position)] ELSE mem
  BY <1>1 DEF RemoveFromLeaf, Removing, Node, Asked
<1>3. PICK a \in DOMAIN mem : a = call.at /\ root # NoTree
  BY <1>1, <1>2 DEF Taken, Placed
<1>4. PICK p : Tree(mem, root, p) /\ root \in DOMAIN mem
  BY <1>1, <1>3
<1>5. "shrink" \in Jobs
  BY DEF Jobs
<1>6. /\ call' \in Calls /\ call'.job = "shrink" /\ call'.at = root
      /\ call'.op = call.op /\ call'.key = call.key /\ call'.val = call.val
      /\ call'.seek = call.seek /\ call'.short = call.short
  BY <1>1, <1>2, <1>5, Went
<1>7. Asked(call')
  BY <1>1, <1>2, <1>6 DEF Asked
<1>8. Taken(mem', root, call')
  BY <1>3, <1>6, <1>7 DEF Taken, Placed, Grown, Room, Spare, Rooted, Safe
<1>9. CASE ~Held
  <2>1. mem' = mem
    BY <1>2, <1>9
  <2> QED  BY <2>1, <1>1, <1>2, <1>8, Carried
<1>10. CASE Held
  <2>1. PICK i \in DOMAIN mem[a].ents : i = Position
    BY <1>3, <1>10 DEF Held, Holds, Node
  <2>2. /\ mem[a].ents \in Seq(Stock) /\ i \in 1 .. Len(mem[a].ents) /\ mem[a].kids = <<>>
        /\ Len(mem[a].ents) \in Nat
    BY <2>1, <1>1, <1>2, <1>3, HeapTypes DEF IsLeaf
  <2>3. PICK s \in Seq(Stock) : s = RemoveAt(mem[a].ents, i) /\ Len(s) = Len(mem[a].ents) - 1
    <3>1. PICK t \in Seq(Stock) : t = mem[a].ents /\ i \in 1 .. Len(t)
      BY <2>2
    <3>2. RemoveAt(t, i) \in Seq(Stock) /\ Len(RemoveAt(t, i)) = Len(t) - 1
      BY <3>1, Removed
    <3> QED  BY <3>1, <3>2
  <2>4. NewEnts(mem, mem', a, s)
    <3>1. mem' = [mem EXCEPT ![a].ents = RemoveAt(@, i)]
      BY <2>1, <1>2, <1>3, <1>10
    <3>2. mem' = [mem EXCEPT ![a].ents = s]
      BY <2>3, <3>1
    <3> QED  BY <3>2 DEF NewEnts
  <2>5. Len(s) <= MaxKeys /\ (EvenOrder /\ a # root => Len(s) >= MinKeys)
    <3>1. EvenOrder /\ a # root => Len(mem[a].ents) > MinKeys
      BY <1>1, <1>2, <1>3 DEF Taken, Spare
    <3>2. Len(mem[a].ents) <= MaxKeys /\ MaxKeys \in Nat /\ MinKeys \in Nat
      BY <1>1, BuildOrder DEF Sizes
    <3> QED  BY <2>2, <2>3, <3>1, <3>2
  <2>6. mem[a].kids # <<>> => Len(s) = Len(mem[a].ents)
    BY <2>2
  <2>7. Heap(mem', Stock) /\ IsTree(mem', root) /\ Sizes(mem', root)
    BY <2>3, <2>4, <2>5, <2>6, <1>1, <1>4, EntriesKeep
  <2> QED  BY <2>7, <1>1, <1>2, <1>8, Carried DEF Kept
<1> QED  BY <1>9, <1>10

\* With an even order a refill fits below a node with an entry, and so does the
\* merge of two children with none to spare.
LEMMA EvenFits ==
    ASSUME Order, EvenOrder, NEW E, NEW S, NEW n \in Nodes(E, Nodes(E, S)), Shaped(n), Bounded(n)
    PROVE  /\ \A j \in 1 .. Count(n) :
                 ~(Count(n.kids[j]) > MinKeys) /\ ~(Count(n.kids[j + 1]) > MinKeys) => MergeFits(n, j)
           /\ Count(n) >= 1 => \A i \in DOMAIN n.kids : RefillFits(n, i)
<1>1. /\ Count(n) \in Nat /\ DOMAIN n.kids = 1 .. Count(n) + 1 /\ DOMAIN n.ents = 1 .. Count(n)
  <2>1. n.kids \in Seq(Nodes(E, S)) /\ Count(n) \in Nat /\ DOMAIN n.ents = 1 .. Count(n)
    BY Nodes_
  <2>2. Len(n.kids) = Count(n) + 1
    BY DEF Shaped
  <2> QED  BY <2>1, <2>2
<1>2. MinKeys \in Nat /\ MaxKeys = 2 * MinKeys + 1
  BY Bounds DEF EvenOrder
<1>3. \A k \in DOMAIN n.kids : Count(n.kids[k]) \in Int /\ Count(n.kids[k]) >= MinKeys
  BY <1>2 DEF Bounded
<1>4. ASSUME NEW j \in 1 .. Count(n),
             ~(Count(n.kids[j]) > MinKeys), ~(Count(n.kids[j + 1]) > MinKeys)
      PROVE  MergeFits(n, j)
  <2>1. j \in DOMAIN n.kids /\ j + 1 \in DOMAIN n.kids /\ j \in DOMAIN n.ents
    BY <1>1
  <2>2. Count(n.kids[j]) = MinKeys /\ Count(n.kids[j + 1]) = MinKeys
    BY <2>1, <1>2, <1>3, <1>4
  <2> QED  BY <2>1, <2>2, <1>2 DEF MergeFits
<1>5. ASSUME Count(n) >= 1, NEW i \in DOMAIN n.kids PROVE RefillFits(n, i)
  <2>1. SUFFICES ASSUME Count(n.kids[i]) = MinKeys,
                        ~(i > 1 /\ Count(n.kids[i - 1]) > MinKeys),
                        ~(i <= Count(n) /\ Count(n.kids[i + 1]) > MinKeys)
                 PROVE  MergeFits(n, IF i <= Count(n) THEN i ELSE i - 1)
    BY DEF RefillFits
  <2>2. i \in 1 .. Count(n) + 1 /\ ~(Count(n.kids[i]) > MinKeys)
    BY <2>1, <1>1, <1>2
  <2>3. CASE i <= Count(n)
    BY <2>1, <2>2, <2>3, <1>1, <1>4
  <2>4. CASE ~(i <= Count(n))
    <3>1. PICK j \in 1 .. Count(n) : j = i - 1 /\ j + 1 = i /\ i > 1
      BY <2>2, <2>4, <1>1, <1>5
    <3>2. ~(Count(n.kids[j]) > MinKeys) /\ ~(Count(n.kids[j + 1]) > MinKeys)
      BY <3>1, <2>1, <2>2
    <3>3. MergeFits(n, j)
      BY <3>2, <1>4
    <3> QED  BY <2>4, <3>1, <3>3
  <2> QED  BY <2>3, <2>4
<1> QED  BY <1>4, <1>5

LEMMA KeepsRemoveBelow == ASSUME Inv, RemoveBelow PROVE Inv'
<1>1. /\ build \in Builds /\ Order /\ Heap(mem, Stock) /\ Sizes(mem, root) /\ Kept(mem, root)
      /\ Taken(mem, root, call) /\ Asked(call) /\ call \in Calls /\ Keys \subseteq Nat
      /\ root # NoTree => (\E p : Tree(mem, root, p)) /\ root \in DOMAIN mem
      /\ root = NoTree => DOMAIN mem = {}
      /\ root \in Int
  BY InvFacts
<1>2. /\ call.job = "remove" /\ build' = build /\ root' = root /\ ~IsLeaf(mem[call.at])
      /\ call.op = "delete" /\ call.key \in Keys /\ call.seek \in Nat
  BY <1>1 DEF RemoveBelow, Removing, Node, Asked
<1>3. PICK a \in DOMAIN mem : a = call.at /\ root # NoTree
  BY <1>1, <1>2 DEF Taken, Placed
<1>4. PICK p : Tree(mem, root, p) /\ root \in DOMAIN mem
  BY <1>1, <1>3
<1>5. mem[a].kids # <<>>
  BY <1>2, <1>3 DEF IsLeaf
<1>6. PICK i \in DOMAIN mem[a].kids : i = Position
  BY <1>1, <1>3, <1>4, <1>5, Stops DEF Position, Node
<1>7. PICK n : n = View(mem, a)
  OBVIOUS
<1>8. IF RefillFits(n, i)
        THEN mem' = RefillAt(mem, a, i)
             /\ GoOn("remove", RefillIds(mem, a, i)[Refill(n, i).at])
        ELSE Unsound
  BY <1>3, <1>6, <1>7 DEF RemoveBelow, RefillAt, RefillIds, Here, Node
<1>9. EvenOrder /\ a # root => Len(mem[a].ents) > MinKeys
  BY <1>1, <1>2, <1>3 DEF Taken, Spare
<1>10. a = root => RootOk(mem, root)
  BY <1>1, <1>2, <1>3 DEF Taken, Rooted
<1>11. CASE RefillFits(n, i)
  <2>1. PICK g, o, ids : /\ g = RefillAt(mem, a, i) /\ o = Refill(View(mem, a), i).at
                         /\ ids = RefillIds(mem, a, i)
    OBVIOUS
  <2>2. /\ Heap(g, Stock) /\ IsTree(g, root) /\ Sizes(g, root)
        /\ ids[o] \in DOMAIN g /\ ids[o] # root
        /\ EvenOrder => Len(g[ids[o]].ents) > MinKeys
    BY <2>1, <1>1, <1>4, <1>7, <1>9, <1>11, RefillKeeps
  <2>3. PICK x \in DOMAIN g : x = ids[o] /\ x \in Int
    BY <2>2 DEF Heap
  <2>4. mem' = g /\ GoOn("remove", x) /\ "remove" \in Jobs
    BY <2>1, <2>3, <1>7, <1>8, <1>11 DEF Jobs
  <2>5. /\ call' \in Calls /\ call'.job = "remove" /\ call'.at = x
        /\ call'.op = call.op /\ call'.key = call.key /\ call'.val = call.val
        /\ call'.seek = call.seek /\ call'.short = call.short
    BY <2>3, <2>4, <1>1, Went
  <2>6. Asked(call')
    BY <2>5, <1>1, <1>2 DEF Asked
  <2>7. Taken(g, root, call')
    BY <2>2, <2>3, <2>5, <2>6 DEF Taken, Placed, Grown, Room, Spare, Rooted, Safe
  <2> QED  BY <2>2, <2>4, <2>7, <1>1, <1>2, Carried DEF Kept
<1>12. CASE ~RefillFits(n, i)
  <2>1. Unsound
    BY <1>8, <1>12
  <2>2. ~(EvenOrder /\ ~Short)
    <3>1. SUFFICES ASSUME EvenOrder, ~Short PROVE RefillFits(n, i)
      BY <1>12
    <3>2. PICK S : S = Others(mem, p, a)
      OBVIOUS
    <3>3. /\ n \in Nodes(Stock, Nodes(Stock, S)) /\ Shaped(n) /\ n.ents = mem[a].ents
          /\ DOMAIN n.kids = DOMAIN mem[a].kids
      BY <3>2, <1>1, <1>4, <1>5, <1>7, TreeView
    <3>4. Bounded(n)
      BY <3>1, <1>1, <1>4, <1>7, SizesBelow
    <3>5. Len(mem[a].ents) >= 1
      <4>1. CASE a = root
        BY <4>1, <3>1, <1>3, <1>5, <1>10 DEF RootOk
      <4>2. CASE a # root
        BY <4>2, <3>1, <1>1, <1>9, HeapTypes, BuildOrder
      <4> QED  BY <4>1, <4>2
    <3>6. Count(n) >= 1
      BY <3>3, <3>5 DEF Count
    <3> QED  BY <3>1, <3>3, <3>4, <3>6, <1>1, EvenFits
  <2>3. Deletes
    BY <1>1, <1>2 DEF Asked
  <2>4. ~((EvenOrder \/ ~Deletes) /\ ~Short)
    BY <2>2, <2>3
  <2>5. Taken(mem, root, call') /\ mem' = mem
    BY <2>1, <2>4, <1>1, Undone
  <2> QED  BY <2>5, <1>1, <1>2, Carried
<1> QED  BY <1>11, <1>12

\* An entry replaced by one from a child that has an entry to spare.
LEMMA KeepsReplace ==
    ASSUME Inv, call.job = "remove", ~IsLeaf(mem[call.at]), Held,
           NEW c \in DOMAIN mem[call.at].kids, NEW x, x = mem[call.at].kids[c],
           Len(mem[x].ents) > MinKeys, NEW j \in DOMAIN mem[x].ents,
           NEW e, e = mem[x].ents[j], Replace(e, x)
    PROVE  Inv'
<1>1. /\ build \in Builds /\ Order /\ Heap(mem, Stock) /\ Sizes(mem, root) /\ Kept(mem, root)
      /\ Taken(mem, root, call) /\ Asked(call) /\ call \in Calls /\ Keys \subseteq Nat
      /\ root # NoTree => (\E p : Tree(mem, root, p)) /\ root \in DOMAIN mem
      /\ root = NoTree => DOMAIN mem = {}
      /\ root \in Int
  BY InvFacts
<1>2. /\ build' = build /\ root' = root /\ mem' = [mem EXCEPT ![call.at].ents[Position] = e]
      /\ call' = [call EXCEPT !.seek = e.key, !.at = x]
      /\ call.op = "delete" /\ call.key \in Keys
  BY <1>1 DEF Replace, Asked
<1>3. PICK a \in DOMAIN mem : a = call.at /\ root # NoTree
  BY <1>1 DEF Taken, Placed
<1>4. PICK p : Tree(mem, root, p) /\ root \in DOMAIN mem
  BY <1>1, <1>3
<1>5. x \in DOMAIN mem /\ x # a /\ x # root /\ x \in Int
  <2>1. x \in DOMAIN mem /\ x # a /\ x # root
    BY <1>1, <1>3, <1>4, Kid
  <2> QED  BY <2>1, <1>1 DEF Heap
<1>6. PICK i \in DOMAIN mem[a].ents : i = Position
  BY <1>3 DEF Held, Holds, Node
<1>7. e \in Stock /\ e.key \in Nat
  <2>1. e \in Stock
    BY <1>1, <1>5, HeapTypes
  <2> QED  BY <2>1 DEF Stock, Entries
<1>8. mem[a].ents \in Seq(Stock) /\ Len(mem[a].ents) \in Nat
  BY <1>1, HeapTypes
<1>9. PICK s \in Seq(Stock) : s = [mem[a].ents EXCEPT ![i] = e] /\ Len(s) = Len(mem[a].ents)
  <2>1. PICK t, f : t = mem[a].ents /\ f = e
    OBVIOUS
  <2>2. t \in Seq(Entries(Values)) /\ i \in DOMAIN t /\ f \in Entries(Values)
    BY <2>1, <1>6, <1>7, <1>8 DEF Stock
  <2>3. [t EXCEPT ![i] = f] \in Seq(Entries(Values)) /\ Len([t EXCEPT ![i] = f]) = Len(t)
    BY SMTT(40), <2>2, NewEntry
  <2> QED  BY <2>1, <2>3 DEF Stock
<1>10. NewEnts(mem, mem', a, s)
  <2>1. mem' = [mem EXCEPT ![a].ents = s]
    BY <1>2, <1>3, <1>6, <1>9
  <2> QED  BY <2>1 DEF NewEnts
<1>11. Len(s) <= MaxKeys /\ (EvenOrder /\ a # root => Len(s) >= MinKeys)
  BY <1>1, <1>9 DEF Sizes
<1>12. Heap(mem', Stock) /\ IsTree(mem', root) /\ Sizes(mem', root) /\ OtherEnts(mem, mem', a, s)
  BY <1>1, <1>4, <1>9, <1>10, <1>11, EntriesKeep
<1>13. /\ call' \in Calls /\ call'.job = "remove" /\ call'.at = x /\ call'.op = call.op
       /\ call'.key = call.key /\ call'.val = call.val /\ call'.seek \in Nat
       /\ call'.short = call.short
  BY <1>1, <1>2, <1>5, <1>7 DEF Calls
<1>14. Asked(call')
  BY <1>1, <1>2, <1>13 DEF Asked
<1>15. x \in DOMAIN mem' /\ Len(mem'[x].ents) > MinKeys
  BY <1>5, <1>12 DEF OtherEnts
<1>16. Taken(mem', root, call')
  BY <1>5, <1>13, <1>14, <1>15 DEF Taken, Placed, Grown, Room, Spare, Rooted, Safe
<1> QED  BY <1>1, <1>2, <1>12, <1>16, Carried DEF Kept

LEMMA KeepsTakePredecessor == ASSUME Inv, TakePredecessor PROVE Inv'
<1>1. /\ call.job = "remove" /\ ~IsLeaf(mem[call.at]) /\ Held
      /\ Len(mem[mem[call.at].kids[Position]].ents) > MinKeys
      /\ Replace(Last(mem[mem[call.at].kids[Position]].ents), mem[call.at].kids[Position])
  BY DEF TakePredecessor, Internal, Removing, LeftSpares, Child, Node, Count
<1>2. Order /\ Heap(mem, Stock) /\ call.at \in DOMAIN mem /\ \E p : Tree(mem, root, p)
  BY <1>1, InvFacts DEF Taken, Placed
<1>3. PICK c \in DOMAIN mem[call.at].kids : c = Position
  BY <1>1, <1>2, Stops DEF Position, Node, IsLeaf
<1>4. PICK x \in DOMAIN mem : x = mem[call.at].kids[c]
  BY <1>2, HeapTypes
<1>5. PICK l \in Nat : l = Len(mem[x].ents) /\ DOMAIN mem[x].ents = 1 .. l /\ l > MinKeys
  BY <1>1, <1>2, <1>3, <1>4, HeapTypes
<1>6. l \in DOMAIN mem[x].ents /\ Last(mem[x].ents) = mem[x].ents[l]
  <2>1. MinKeys \in Nat
    BY <1>2, Bounds
  <2> QED  BY <2>1, <1>5 DEF Last
<1>7. Replace(mem[x].ents[l], x) /\ Len(mem[x].ents) > MinKeys
  BY <1>1, <1>3, <1>4, <1>6
<1> QED  BY <1>1, <1>4, <1>6, <1>7, KeepsReplace

LEMMA KeepsTakeSuccessor == ASSUME Inv, TakeSuccessor PROVE Inv'
<1>1. /\ call.job = "remove" /\ ~IsLeaf(mem[call.at]) /\ Held
      /\ Len(mem[mem[call.at].kids[Position + 1]].ents) > MinKeys
      /\ Replace(Head(mem[mem[call.at].kids[Position + 1]].ents), mem[call.at].kids[Position + 1])
  BY DEF TakeSuccessor, Internal, Removing, RightSpares, Child, Node, Count
<1>2. Order /\ Heap(mem, Stock) /\ call.at \in DOMAIN mem
  BY <1>1, InvFacts DEF Taken, Placed
<1>3. PICK p : Tree(mem, root, p)
  BY <1>1, <1>2, InvFacts
<1>4. PICK c \in DOMAIN mem[call.at].kids : c = Position + 1
  <2>1. Position \in DOMAIN mem[call.at].ents
    BY <1>1 DEF Held, Holds, Node
  <2>2. mem[call.at].kids # <<>>
    BY <1>1 DEF IsLeaf
  <2>3. PICK l \in Nat : l = Len(mem[call.at].ents) /\ DOMAIN mem[call.at].ents = 1 .. l
    BY <1>2, HeapTypes
  <2>4. DOMAIN mem[call.at].kids = 1 .. Len(mem[call.at].kids)
    BY <1>2, HeapTypes
  <2>5. Len(mem[call.at].kids) = l + 1
    BY <2>2, <2>3, <1>2, <1>3, TreeTypes
  <2> QED  BY <2>1, <2>3, <2>4, <2>5
<1>5. PICK x \in DOMAIN mem : x = mem[call.at].kids[c]
  BY <1>2, HeapTypes
<1>6. PICK l \in Nat : l = Len(mem[x].ents) /\ DOMAIN mem[x].ents = 1 .. l /\ l > MinKeys
  BY <1>1, <1>2, <1>4, <1>5, HeapTypes
<1>7. 1 \in DOMAIN mem[x].ents /\ Head(mem[x].ents) = mem[x].ents[1]
  <2>1. MinKeys \in Nat
    BY <1>2, Bounds
  <2>2. mem[x].ents \in Seq(Stock)
    BY <1>2, HeapTypes
  <2> QED  BY <2>1, <2>2, <1>6
<1>8. Replace(mem[x].ents[1], x) /\ Len(mem[x].ents) > MinKeys
  BY <1>1, <1>4, <1>5, <1>7
<1> QED  BY <1>1, <1>5, <1>7, <1>8, KeepsReplace

LEMMA KeepsMergeBoth == ASSUME Inv, MergeBoth PROVE Inv'
<1>1. /\ build \in Builds /\ Order /\ Heap(mem, Stock) /\ Sizes(mem, root) /\ Kept(mem, root)
      /\ Taken(mem, root, call) /\ Asked(call) /\ call \in Calls /\ Keys \subseteq Nat
      /\ root # NoTree => (\E p : Tree(mem, root, p)) /\ root \in DOMAIN mem
      /\ root = NoTree => DOMAIN mem = {}
      /\ root \in Int
  BY InvFacts
<1>2. /\ call.job = "remove" /\ build' = build /\ root' = root /\ ~IsLeaf(mem[call.at]) /\ Held
      /\ call.op = "delete" /\ call.key \in Keys /\ call.seek \in Nat
  BY <1>1 DEF MergeBoth, Internal, Removing, Node, Asked
<1>3. PICK a \in DOMAIN mem : a = call.at /\ root # NoTree
  BY <1>1, <1>2 DEF Taken, Placed
<1>4. PICK p : Tree(mem, root, p) /\ root \in DOMAIN mem
  BY <1>1, <1>3
<1>5. mem[a].kids # <<>>
  BY <1>2, <1>3 DEF IsLeaf
<1>6. PICK i \in 1 .. Len(mem[a].ents) : i = Position
  <2>1. Position \in DOMAIN mem[a].ents
    BY <1>2, <1>3 DEF Held, Holds, Node
  <2> QED  BY <2>1, <1>1, HeapTypes
<1>7. PICK n : n = View(mem, a)
  OBVIOUS
<1>8. IF MergeFits(n, i)
        THEN mem' = MergeAt(mem, a, i) /\ GoOn("remove", mem[a].kids[i])
        ELSE Unsound
  BY <1>3, <1>6, <1>7 DEF MergeBoth, MergeAt, Here, Node, Child
<1>9. EvenOrder /\ a # root => Len(mem[a].ents) > MinKeys
  BY <1>1, <1>2, <1>3 DEF Taken, Spare
<1>10. CASE MergeFits(n, i)
  <2>1. PICK g, c : g = MergeAt(mem, a, i) /\ c = mem[a].kids[i]
    OBVIOUS
  <2>2. /\ Heap(g, Stock) /\ IsTree(g, root) /\ Sizes(g, root)
        /\ c \in DOMAIN g /\ c # root
        /\ EvenOrder => Len(g[c].ents) > MinKeys
    BY <2>1, <1>1, <1>4, <1>5, <1>7, <1>9, <1>10, MergeKeeps
  <2>3. c \in Int
    BY <2>2 DEF Heap
  <2>4. mem' = g /\ GoOn("remove", c) /\ "remove" \in Jobs
    BY <2>1, <1>8, <1>10 DEF Jobs
  <2>5. /\ call' \in Calls /\ call'.job = "remove" /\ call'.at = c
        /\ call'.op = call.op /\ call'.key = call.key /\ call'.val = call.val
        /\ call'.seek = call.seek /\ call'.short = call.short
    BY <2>3, <2>4, <1>1, Went
  <2>6. Asked(call')
    BY <2>5, <1>1, <1>2 DEF Asked
  <2>7. Taken(g, root, call')
    BY <2>2, <2>5, <2>6 DEF Taken, Placed, Grown, Room, Spare, Rooted, Safe
  <2> QED  BY <2>2, <2>4, <2>7, <1>1, <1>2, Carried DEF Kept
<1>11. CASE ~MergeFits(n, i)
  <2>1. Unsound
    BY <1>8, <1>11
  <2>2. ~EvenOrder
    <3>1. SUFFICES ASSUME EvenOrder PROVE MergeFits(n, i)
      BY <1>11
    <3>2. PICK S : S = Others(mem, p, a)
      OBVIOUS
    <3>3. /\ n \in Nodes(Stock, Nodes(Stock, S)) /\ Shaped(n) /\ n.ents = mem[a].ents
          /\ DOMAIN n.kids = DOMAIN mem[a].kids
          /\ \A k \in DOMAIN mem[a].kids : n.kids[k] = mem[mem[a].kids[k]]
      BY <3>2, <1>1, <1>4, <1>5, <1>7, TreeView
    <3>4. Bounded(n)
      BY <3>1, <1>1, <1>4, <1>7, SizesBelow
    <3>5. i \in 1 .. Count(n)
      BY <3>3, <1>6 DEF Count
    <3>6. PICK l \in Nat : /\ l = Len(mem[a].ents) /\ i \in 1 .. l
                           /\ DOMAIN mem[a].kids = 1 .. l + 1
      BY <1>1, <1>4, <1>5, <1>6, HeapTypes, TreeTypes
    <3>7. i \in DOMAIN mem[a].kids /\ i + 1 \in DOMAIN mem[a].kids
      BY <3>6
    <3>8. ~(Count(n.kids[i]) > MinKeys) /\ ~(Count(n.kids[i + 1]) > MinKeys)
      BY <3>3, <3>7, <1>3, <1>6 DEF MergeBoth, LeftSpares, RightSpares, Child, Node
    <3> QED  BY <3>1, <3>3, <3>4, <3>5, <3>8, <1>1, EvenFits
  <2>3. Deletes
    BY <1>1, <1>2 DEF Asked
  <2>4. Taken(mem, root, call') /\ mem' = mem
    BY <2>1, <2>2, <2>3, <1>1, Undone
  <2> QED  BY <2>4, <1>1, <1>2, Carried
<1> QED  BY <1>10, <1>11

LEMMA KeepsShrinkRoot == ASSUME Inv, ShrinkRoot PROVE Inv'
<1>1. /\ build \in Builds /\ Order /\ Heap(mem, Stock) /\ Sizes(mem, root) /\ Kept(mem, root)
      /\ Taken(mem, root, call) /\ Asked(call) /\ call \in Calls
      /\ root # NoTree => (\E p : Tree(mem, root, p)) /\ root \in DOMAIN mem
      /\ root \in Int
  BY InvFacts
<1>2. call.job = "shrink" /\ build' = build /\ call.key \in Keys /\ call.op = "delete"
      /\ GoOn("verify", root')
  BY <1>1 DEF ShrinkRoot, Asked
<1>3. PICK p : Tree(mem, root, p) /\ root \in DOMAIN mem /\ root # NoTree
  BY <1>1, <1>2 DEF Taken, Placed
<1>4. PICK l \in Nat : l = Len(mem[root].ents)
                       /\ (mem[root].ents = <<>> <=> l = 0)
  <2>1. PICK s \in Seq(Stock) : s = mem[root].ents
    BY <1>1, <1>3, HeapTypes
  <2> QED  BY <2>1, EmptySeq
\* Its only child takes the place of the root, and has entries of its own.
<1>5. CASE Emptied
  <2>1. PICK g, c : g = Restrict(mem, DOMAIN mem \ {root}) /\ c = mem[root].kids[1]
    OBVIOUS
  <2>2. mem[root].ents = <<>> /\ mem[root].kids # <<>>
    BY <1>4, <1>5 DEF Emptied, Count, IsLeaf
  <2>3. mem' = g /\ root' = c
    BY <2>1, <1>5 DEF ShrinkRoot, FreeOldRoot
  <2>4. /\ Heap(g, Stock) /\ Tree(g, c, ShrunkPlaces(mem, root, p))
        /\ DOMAIN g = DOMAIN mem \ {root} /\ \A x \in DOMAIN g : g[x] = mem[x]
        /\ c \in DOMAIN mem /\ c # root
    <3>1. Lowered(mem, g, root)
      BY <2>1 DEF Lowered
    <3>2. LoweredIs(Stock, mem, g, root, p)
      BY <3>1, <2>2, <1>1, <1>3, ShrinkTree
    <3> QED  BY <3>2, <2>1 DEF LoweredIs
  <2>5. c \in DOMAIN g /\ c \in Int /\ c # NoTree
    BY <2>4 DEF Heap, NoTree
  <2>6. Sizes(g, c)
    BY <2>4, <1>1 DEF Sizes
  <2>7. RootOk(g, c)
    <3>1. EvenOrder => Len(mem[c].ents) >= MinKeys
      BY <2>4, <1>1 DEF Sizes
    <3>2. PICK n \in Nat : n = Len(mem[c].ents)
      BY <2>4, <1>1, HeapTypes
    <3>3. MinKeys \in Nat /\ MinKeys >= 1
      BY <1>1, BuildOrder
    <3>4. EvenOrder => Len(g[c].ents) >= 1
      BY <2>4, <2>5, <3>1, <3>2, <3>3
    <3> QED  BY <3>4 DEF RootOk
  <2>8. Kept(g, c)
    BY <2>4, <2>5, <2>6 DEF Kept, IsTree
  <2>9. "verify" \in Jobs /\ GoOn("verify", c)
    BY <2>3, <1>2 DEF Jobs
  <2>10. /\ call' \in Calls /\ call'.job = "verify" /\ call'.at = c
         /\ call'.op = call.op /\ call'.key = call.key /\ call'.val = call.val
         /\ call'.seek = call.seek /\ call'.short = call.short
    BY <2>5, <2>9, <1>1, Went
  <2>11. Asked(call')
    BY <2>10, <1>1, <1>2 DEF Asked
  <2>12. Taken(g, c, call')
    BY <2>5, <2>7, <2>10, <2>11 DEF Taken, Placed, Grown, Room, Spare, Rooted, Safe
  <2> QED  BY <2>3, <2>8, <2>12, <1>1, <1>2, Carried
<1>6. CASE ~Emptied
  <2>1. mem' = mem /\ root' = root
    BY <1>6 DEF ShrinkRoot
  <2>2. RootOk(mem, root)
    BY <1>4, <1>6 DEF RootOk, Emptied, Count, IsLeaf
  <2>3. "verify" \in Jobs /\ GoOn("verify", root)
    BY <2>1, <1>2 DEF Jobs
  <2>4. /\ call' \in Calls /\ call'.job = "verify" /\ call'.at = root
        /\ call'.op = call.op /\ call'.key = call.key /\ call'.val = call.val
        /\ call'.seek = call.seek /\ call'.short = call.short
    BY <2>3, <1>1, Went
  <2>5. Asked(call')
    BY <2>4, <1>1, <1>2 DEF Asked
  <2>6. Taken(mem, root, call')
    BY <2>2, <2>4, <2>5, <1>3 DEF Taken, Placed, Grown, Room, Spare, Rooted, Safe
  <2> QED  BY <2>1, <2>6, <1>1, <1>2, Carried
<1> QED  BY <1>5, <1>6

\* btree_create as far as the nodes go: its first allocation changes none.
Create ==
    /\ call.job = "create"
    /\ \E got \in Malloc :
          IF got THEN mem' = With(mem, Fresh, Leaf) /\ root' = Fresh /\ Return(1)
          ELSE Return(0) /\ UNCHANGED <<mem, root>>
    /\ UNCHANGED build
Still == UNCHANGED <<build, mem, root, call>>

LEMMA Steps ==
    ASSUME [Next]_vars
    PROVE  \/ BeginCall \/ Descend \/ Miss \/ Find \/ GrowRoot \/ SplitRoot \/ InsertIntoLeaf
           \/ InsertBelow \/ RemoveFromLeaf \/ RemoveBelow \/ TakePredecessor \/ TakeSuccessor
           \/ MergeBoth \/ ShrinkRoot \/ Create \/ Free \/ Still
<1>1. UNCHANGED vars => Still
  BY DEF vars, Still
<1>2. CreateTree => Create \/ Still
  BY DEF CreateTree, Create, Still
<1>3. CreateRoot => Create
  BY DEF CreateRoot, Create
<1> QED  BY <1>1, <1>2, <1>3 DEF Next

LEMMA KeepsCreate == ASSUME Inv, Create PROVE Inv'
<1>1. /\ build \in Builds /\ Heap(mem, Stock) /\ Kept(mem, root)
      /\ Taken(mem, root, call) /\ Asked(call)
      /\ root = NoTree => DOMAIN mem = {}
  BY InvFacts
<1>2. call.job = "create" /\ build' = build
  BY DEF Create
<1>3. root = NoTree /\ DOMAIN mem = {}
  BY <1>1, <1>2 DEF Taken, Placed
<1>4. \/ Return(0) /\ mem' = mem /\ root' = root
      \/ Return(1) /\ mem' = With(mem, Fresh, Leaf) /\ root' = Fresh
  BY DEF Create
<1>5. CASE Return(0) /\ mem' = mem /\ root' = root
  <2>1. RootOk(mem, root)
    BY <1>3 DEF RootOk
  <2>2. Taken(mem, root, call')
    BY <2>1, <1>1, <1>5, Returned
  <2> QED  BY <2>2, <1>1, <1>2, <1>5, Carried
<1>6. CASE Return(1) /\ mem' = With(mem, Fresh, Leaf) /\ root' = Fresh
  <2>1. PICK a \in Nat : a = Fresh
    BY <1>1, FreshIsFree
  <2>2. PICK g : g = [x \in {a} |-> Leaf]
    OBVIOUS
  <2>3. mem' = g
    BY <2>1, <2>2, <1>3, <1>6 DEF With
  <2>4. Heap(g, Stock) /\ \E p : Tree(g, a, p)
    BY <2>1, <2>2, OneNode
  <2>5. a # NoTree /\ IsTree(g, a)
    BY <2>1, <2>4 DEF IsTree, NoTree
  <2>6. DOMAIN g = {a} /\ g[a] = Leaf
    BY <2>2
  <2>7. Sizes(g, a)
    <3>1. Len(g[a].ents) = 0 /\ MaxKeys \in Nat
      BY <2>6, <1>1, BuildOrder DEF Leaf
    <3> QED  BY <2>6, <3>1 DEF Sizes
  <2>8. RootOk(g, a)
    BY <2>6 DEF RootOk, Leaf
  <2>9. Taken(g, a, call')
    BY <2>8, <1>1, <1>6, Returned
  <2> QED  BY <2>1, <2>3, <2>4, <2>5, <2>7, <2>9, <1>1, <1>2, <1>6, Carried DEF Kept
<1> QED  BY <1>4, <1>5, <1>6

LEMMA KeepsFree == ASSUME Inv, Free PROVE Inv'
<1>1. /\ build \in Builds /\ Heap(mem, Stock) /\ Kept(mem, root)
      /\ Taken(mem, root, call) /\ Asked(call)
      /\ root # NoTree => (\E p : Tree(mem, root, p)) /\ root \in DOMAIN mem
  BY InvFacts
<1>2. call.job = "free" /\ build' = build /\ root' = NoTree /\ Return(1)
      /\ mem' = Restrict(mem, DOMAIN mem \ Under[root])
  BY DEF Free
<1>3. PICK p : Tree(mem, root, p)
  BY <1>1, <1>2 DEF Taken, Placed
<1>4. Under[root] = DOMAIN mem
  BY <1>1, <1>3, UnderAll
<1>5. PICK g, D : g = mem' /\ D = DOMAIN g
  OBVIOUS
<1>6. D = {}
  BY <1>2, <1>4, <1>5 DEF Restrict
<1>7. Heap(g, Stock)
  <2>1. IsFiniteSet(D)
    BY <1>6, FS_EmptySet
  <2>2. g \in [D -> Nodes(Stock, D)]
    <3>1. g = [x \in D |-> g[x]]
      BY <1>2, <1>5 DEF Restrict
    <3> QED  BY <3>1, <1>6
  <2> QED  BY <2>1, <2>2, <1>5, <1>6 DEF Heap
<1>8. Kept(g, NoTree)
  BY <1>5, <1>6, <1>7 DEF Kept, IsTree, Sizes
<1>9. RootOk(g, NoTree)
  BY DEF RootOk
<1>10. Taken(g, NoTree, call')
  BY <1>1, <1>2, <1>9, Returned
<1> QED  BY <1>1, <1>2, <1>5, <1>8, <1>10, Carried

LEMMA KeepsStill == ASSUME Inv, Still PROVE Inv'
<1>1. build' = build /\ mem' = mem /\ root' = root /\ call' = call
  BY DEF Still
<1> QED  BY <1>1, Carried DEF Inv

\* Whatever the calls, the memory, the order and the sizes: the allocated nodes
\* are a tree of the shape the code means them to be, and the call in progress is
\* at a node of it that is as full as that step of the call needs it to be.
THEOREM InductiveInvariant == Spec => []Inv
<1>1. ASSUME Inv, [Next]_vars PROVE Inv'
  BY <1>1, KeepsBeginCall, KeepsDescend, KeepsMiss, KeepsFind, KeepsGrowRoot, KeepsSplitRoot,
     KeepsInsertIntoLeaf, KeepsInsertBelow, KeepsRemoveFromLeaf, KeepsRemoveBelow,
     KeepsTakePredecessor, KeepsTakeSuccessor, KeepsMergeBoth, KeepsShrinkRoot, KeepsCreate,
     KeepsFree, KeepsStill, Steps
<1> QED  BY <1>1, StartsInv, PTL DEF Spec

-----------------------------------------------------------------------------
(* What follows from it                                                     *)

\* Height is the level of the tree's places.
LEMMA HeightIs ==
    ASSUME NEW E, NEW p, Heap(mem, E), Tree(mem, root, p)
    PROVE  \A a \in DOMAIN mem : Height[a] = p[a].level
<1> DEFINE f == [a \in DOMAIN mem |-> p[a].level]
           Solves(u) == u = [a \in DOMAIN mem |-> IF IsLeaf(mem[a]) THEN 0
                                                  ELSE u[mem[a].kids[1]] + 1]
<1>1. \A a \in DOMAIN mem : p[a].level \in Nat /\ (p[a].level = 0 <=> IsLeaf(mem[a]))
  BY TreeTypes DEF IsLeaf
<1>2. ASSUME NEW a \in DOMAIN mem, ~IsLeaf(mem[a])
      PROVE  mem[a].kids[1] \in DOMAIN mem /\ p[mem[a].kids[1]].level = p[a].level - 1
  <2>1. 1 \in DOMAIN mem[a].kids
    <3>1. PICK l \in Nat : l = Len(mem[a].kids) /\ DOMAIN mem[a].kids = 1 .. l
                           /\ (mem[a].kids = <<>> <=> l = 0)
      BY HeapTypes
    <3> QED  BY <3>1, <1>2 DEF IsLeaf
  <2> QED  BY <2>1, Kid
<1>3. ASSUME NEW a \in DOMAIN mem
      PROVE  f[a] = IF IsLeaf(mem[a]) THEN 0 ELSE f[mem[a].kids[1]] + 1
  <2>1. CASE IsLeaf(mem[a])
    BY <2>1, <1>1
  <2>2. CASE ~IsLeaf(mem[a])
    <3>1. PICK b \in DOMAIN mem : b = mem[a].kids[1] /\ p[b].level = p[a].level - 1
      BY <2>2, <1>2
    <3>2. p[a].level \in Nat
      BY <1>1
    <3>3. p[a].level = p[b].level + 1
      BY <3>1, <3>2
    <3> QED  BY <3>1, <3>3, <2>2
  <2> QED  BY <2>1, <2>2
<1>4. Solves(f)
  <2>1. f = [a \in DOMAIN mem |-> f[a]]
    OBVIOUS
  <2> HIDE DEF f
  <2> QED  BY <2>1, <1>3
<1>5. Solves(Height)
  <2>1. Height = CHOOSE u : Solves(u)
    BY DEF Height
  <2> HIDE DEF f, Solves
  <2> QED  BY <2>1, <1>4
<1>6. \A a \in DOMAIN mem : Height[a] = IF IsLeaf(mem[a]) THEN 0 ELSE Height[mem[a].kids[1]] + 1
  BY <1>5
<1> DEFINE T == {p[a].level : a \in {x \in DOMAIN mem : Height[x] # p[x].level}}
<1>7. SUFFICES ASSUME T # {} PROVE FALSE
  OBVIOUS
<1>8. T \subseteq Nat
  BY <1>1
<1>9. PICK l \in T : \A k \in T : l <= k
  <2> HIDE DEF T
  <2> QED  BY <1>7, <1>8, LeastNat
<1>10. PICK a \in DOMAIN mem : l = p[a].level /\ Height[a] # p[a].level
  BY <1>9
<1>11. ~IsLeaf(mem[a])
  BY <1>1, <1>6, <1>10
<1>12. PICK b \in DOMAIN mem : b = mem[a].kids[1] /\ p[b].level = p[a].level - 1
  BY <1>11, <1>2
<1>13. p[b].level \in T \/ Height[b] = p[b].level
  BY <1>12
<1> HIDE DEF T, Solves, f
<1>14. Height[b] = p[b].level
  BY <1>1, <1>8, <1>9, <1>10, <1>12, <1>13
<1> QED  BY <1>1, <1>6, <1>10, <1>11, <1>12, <1>14

LEMMA InvBalanced == Inv => Balanced
<1> SUFFICES ASSUME Inv PROVE Balanced
  OBVIOUS
<1>1. /\ Heap(mem, Stock) /\ Sizes(mem, root)
      /\ root # NoTree => \E p : Tree(mem, root, p)
      /\ root = NoTree => DOMAIN mem = {}
  BY InvFacts
<1>2. SUFFICES ASSUME NEW a \in DOMAIN mem
      PROVE  /\ a # root /\ MaxChildren % 2 = 0 => Count(mem[a]) >= MinKeys
             /\ Count(mem[a]) <= MaxKeys
             /\ ~IsLeaf(mem[a]) => /\ Len(mem[a].kids) = Count(mem[a]) + 1
                                   /\ \A b \in Range(mem[a].kids) : Height[a] = Height[b] + 1
  BY DEF Balanced
<1>3. PICK p : Tree(mem, root, p)
  BY <1>1
<1>4. /\ Count(mem[a]) <= MaxKeys
      /\ a # root /\ MaxChildren % 2 = 0 => Count(mem[a]) >= MinKeys
  BY <1>1 DEF Sizes, EvenOrder, Count
<1>5. ~IsLeaf(mem[a]) => Len(mem[a].kids) = Count(mem[a]) + 1
  BY <1>1, <1>3, TreeTypes DEF IsLeaf, Count
<1>6. ASSUME NEW b \in Range(mem[a].kids) PROVE Height[a] = Height[b] + 1
  <2>1. PICK k \in DOMAIN mem[a].kids : b = mem[a].kids[k]
    BY DEF Range
  <2>2. b \in DOMAIN mem /\ p[b].level = p[a].level - 1
    BY <2>1, <1>1, <1>3, Kid
  <2>3. p[a].level \in Nat /\ p[b].level \in Nat
    BY <2>2, <1>1, <1>3, TreeTypes
  <2>4. Height[a] = p[a].level /\ Height[b] = p[b].level
    BY <2>2, <1>1, <1>3, HeightIs
  <2> QED  BY <2>2, <2>3, <2>4
<1> QED  BY <1>4, <1>5, <1>6

\* After every step of every call, in every build, no node of the tree is too
\* full, with an even order none but the root too empty, and all leaves are
\* equally deep: what btree.h's BTREE_MIN_KEYS and BTREE_MAX_KEYS promise.
THEOREM BalancedHolds == Spec => []Balanced
<1> QED  BY InductiveInvariant, InvBalanced, PTL

\* The block of the tree is there as long as the tree.
BlockInv == call.job # "create" => (block <=> root # NoTree)

LEMMA KeepsBlock == ASSUME Inv, BlockInv, [Next]_vars PROVE BlockInv'
<1>1. /\ Heap(mem, Stock) /\ DOMAIN mem \subseteq Nat
      /\ root # NoTree => (\E p : Tree(mem, root, p)) /\ root \in DOMAIN mem
      /\ call.job = "create" => root = NoTree
      /\ call.job \in {"shrink", "free"} => root # NoTree
  BY InvFacts DEF Taken, Placed, Heap
<1>2. Fresh # NoTree
  BY <1>1, FreshIsFree DEF NoTree
<1>3. CASE CreateTree
  BY <1>1, <1>3 DEF CreateTree, Return, BlockInv
<1>4. CASE CreateRoot
  BY <1>1, <1>2, <1>4 DEF CreateRoot, FreeTree, Return, BlockInv
<1>5. CASE Free
  BY <1>5 DEF Free, BlockInv
<1>6. CASE UNCHANGED vars
  BY <1>6 DEF vars, BlockInv
<1>7. ASSUME block' = block, call.job # "create", root' = NoTree <=> root = NoTree
      PROVE  BlockInv'
  BY <1>7 DEF BlockInv
<1>8. CASE BeginCall \/ Descend \/ Miss \/ Find
  BY <1>7, <1>8 DEF BeginCall, Call, Descend, Miss, Find, Searching
<1>9. CASE GrowRoot
  BY <1>2, <1>7, <1>9 DEF GrowRoot
<1>10. CASE SplitRoot \/ InsertIntoLeaf \/ InsertBelow
  BY <1>7, <1>10 DEF SplitRoot, InsertIntoLeaf, InsertBelow, Inserting
<1>11. CASE RemoveFromLeaf \/ RemoveBelow \/ TakePredecessor \/ TakeSuccessor \/ MergeBoth
  BY <1>7, <1>11 DEF RemoveFromLeaf, RemoveBelow, TakePredecessor, TakeSuccessor, MergeBoth,
     Internal, Removing, Replace
<1>12. CASE ShrinkRoot
  <2>1. call.job = "shrink" /\ block' = block /\ root # NoTree
    BY <1>1, <1>12 DEF ShrinkRoot
  <2>2. CASE root' = root
    BY <1>7, <2>1, <2>2
  <2>3. CASE Emptied /\ root' = mem[root].kids[1]
    <3>1. PICK p : Tree(mem, root, p)
      BY <1>1, <2>1
    <3>2. 1 \in DOMAIN mem[root].kids
      <4>1. PICK l \in Nat : l = Len(mem[root].kids) /\ DOMAIN mem[root].kids = 1 .. l
                             /\ (mem[root].kids = <<>> <=> l = 0)
        BY HeapTypes, <1>1, <2>1
      <4> QED  BY <4>1, <2>3 DEF Emptied, IsLeaf
    <3>3. mem[root].kids[1] \in DOMAIN mem
      BY <3>1, <3>2, <1>1, <2>1, Kid
    <3>4. root' # NoTree
      BY <3>3, <2>3, <1>1 DEF NoTree
    <3> QED  BY <3>4, <2>1, <1>7
  <2> QED  BY <2>2, <2>3, <1>12 DEF ShrinkRoot
<1> QED  BY <1>3, <1>4, <1>5, <1>6, <1>8, <1>9, <1>10, <1>11, <1>12 DEF Next

\* Every node that was allocated and not freed is in the tree, whatever splits
\* did not get their memory, whatever was merged, shrunk, destroyed or created,
\* and a btree_create that fails gives back what it got.
THEOREM NoLeakHolds == Spec => []NoLeak
<1>1. ASSUME Inv, BlockInv PROVE NoLeak
  <2>1. /\ Heap(mem, Stock)
        /\ root # NoTree => \E p : Tree(mem, root, p)
        /\ root = NoTree => DOMAIN mem = {}
    BY <1>1, InvFacts
  <2>2. CASE root = NoTree
    BY <1>1, <2>1, <2>2 DEF NoLeak, BlockInv
  <2>3. CASE root # NoTree
    <3>1. PICK p : Tree(mem, root, p)
      BY <2>1, <2>3
    <3>2. Under[root] = DOMAIN mem
      BY <3>1, <2>1, UnderAll
    <3> QED  BY <1>1, <3>2, <2>3 DEF NoLeak, BlockInv
  <2> QED  BY <2>2, <2>3
<1>2. Init => BlockInv
  BY DEF Init, BlockInv
<1>3. Inv /\ BlockInv /\ [Next]_vars => BlockInv'
  BY KeepsBlock
<1> QED  BY <1>1, <1>2, <1>3, InductiveInvariant, PTL DEF Spec

\* Where nothing is deleted with an odd order, as in the build of the program
\* (order 10), no step writes behind the arrays of a node or follows a child that
\* is not there, while there is memory.
THEOREM StaysInsideHolds ==
    ASSUME \A b \in Builds : b.order % 2 = 0 \/ ~b.deletes
    PROVE  Spec => []StaysInside
<1>1. ASSUME Inv PROVE StaysInside
  <2>1. build \in Builds /\ Safe(call)
    BY <1>1, InvFacts DEF Taken
  <2>2. EvenOrder \/ ~Deletes
    BY <2>1 DEF EvenOrder, MaxChildren, Deletes
  <2> QED  BY <2>1, <2>2 DEF Safe, StaysInside
<1> QED  BY <1>1, InductiveInvariant, PTL

-----------------------------------------------------------------------------
(* The search order                                                          *)

\* The range of all keys, between the least and the greatest of an unsigned int.
Whole      == [lo |-> -1, hi |-> UIntMax + 1]

\* f says of each node below the root r which keys can be below it.
Labels(h, r, f) ==
    /\ f \in [DOMAIN h -> Spans] /\ f[r] = Whole
    /\ \A a \in DOMAIN h : \A i \in DOMAIN h[a].kids : f[h[a].kids[i]] = Between(h[a].ents, i, f[a])

\* In the leaves the keys increase from end to end: the other nodes' entries are
\* the ends of leaves.
Ascends(h, f) ==
    \A a \in DOMAIN h : h[a].kids = <<>> =>
       \A i \in 1 .. Len(h[a].ents) + 1 : Strict(Between(h[a].ents, i, f[a]))

\* Nodes in memory as btree.c searches them.
Ordered(V, h, r, p, f) ==
    Heap(h, Entries(V)) /\ Tree(h, r, p) /\ Labels(h, r, f) /\ Ascends(h, f)

LEMMA Orders ==
    ASSUME NEW V, NEW h, NEW r, NEW p, NEW f, Ordered(V, h, r, p, f)
    PROVE  \A a \in DOMAIN h : /\ f[a] \in Spans /\ Within(h[a].ents, f[a])
                               /\ h[a].ents \in Seq(Entries(V))
<1>1. Heap(h, Entries(V)) /\ Tree(h, r, p) /\ Labels(h, r, f) /\ Ascends(h, f)
  BY DEF Ordered
<1>2. \A a \in DOMAIN h : f[a] \in Spans
  BY <1>1 DEF Labels
<1>3. \A a \in DOMAIN h : /\ p[a].level \in Nat /\ h[a].ents \in Seq(Entries(V))
                          /\ DOMAIN h[a].kids = 1 .. Len(h[a].kids)
                          /\ h[a].kids # <<>> => Len(h[a].kids) = Len(h[a].ents) + 1
  BY <1>1, TreeTypes, HeapTypes
<1> DEFINE bad == {a \in DOMAIN h : ~Within(h[a].ents, f[a])}
           T == {p[a].level : a \in bad}
<1>4. SUFFICES ASSUME T # {} PROVE FALSE
  BY <1>2, <1>3
<1>5. T \subseteq Nat
  BY <1>3
<1>6. PICK l \in T : \A y \in T : l <= y
  <2> HIDE DEF T
  <2> QED  BY <1>4, <1>5, LeastNat
<1>7. PICK a \in DOMAIN h : l = p[a].level /\ ~Within(h[a].ents, f[a])
  BY <1>6
<1>8. PICK s \in Seq(Entries(V)), w \in Spans : s = h[a].ents /\ w = f[a]
  BY <1>2, <1>3
<1>9. \A i \in 1 .. Len(s) + 1 : Strict(Between(s, i, w))
  <2>1. CASE h[a].kids = <<>>
    BY <1>1, <1>8, <2>1 DEF Ascends
  <2>2. CASE h[a].kids # <<>>
    <3> SUFFICES ASSUME NEW i \in 1 .. Len(s) + 1 PROVE Strict(Between(s, i, w))
      OBVIOUS
    <3>1. i \in DOMAIN h[a].kids
      BY <1>3, <1>8, <2>2
    <3>2. PICK x \in DOMAIN h : x = h[a].kids[i] /\ p[x].level = p[a].level - 1
      BY <1>1, <3>1, Kid
    <3>3. f[x] = Between(s, i, w)
      BY <1>1, <1>8, <3>1, <3>2 DEF Labels
    <3>4. x \notin bad
      <4>1. x \in bad => p[x].level \in T
        OBVIOUS
      <4> HIDE DEF bad, T
      <4>2. p[x].level \in Nat /\ p[a].level \in Nat
        BY <1>3
      <4> QED  BY <4>1, <4>2, <3>2, <1>6, <1>7
    <3>5. Strict(f[x])
      BY <3>4 DEF Within
    <3> QED  BY <3>3, <3>5
  <2> QED  BY <2>1, <2>2
<1>10. Within(s, w)
  BY <1>9, Chain
<1> QED  BY <1>7, <1>8, <1>10

\* What is in the range of a child is in the range of the node, between the
\* entries around the child.
LEMMA Inside ==
    ASSUME NEW V, NEW h, NEW r, NEW p, NEW f, Ordered(V, h, r, p, f),
           NEW a \in DOMAIN h, NEW i \in DOMAIN h[a].kids, NEW k \in Int, In(k, f[h[a].kids[i]])
    PROVE  /\ In(k, f[a])
           /\ \A j \in 1 .. Len(h[a].ents) : IF j < i THEN h[a].ents[j].key < k
                                             ELSE k < h[a].ents[j].key
<1>1. Heap(h, Entries(V)) /\ Tree(h, r, p) /\ Labels(h, r, f)
  BY DEF Ordered
<1>2. PICK s \in Seq(Entries(V)), w \in Spans : s = h[a].ents /\ w = f[a] /\ Within(s, w)
  BY Orders
<1>3. i \in 1 .. Len(s) + 1
  <2>1. DOMAIN h[a].kids = 1 .. Len(h[a].kids) /\ (h[a].kids = <<>> <=> Len(h[a].kids) = 0)
    BY <1>1, HeapTypes
  <2>2. h[a].kids # <<>>
    BY <2>1
  <2>3. Len(h[a].kids) = Len(s) + 1
    BY <1>1, <1>2, <2>2, TreeTypes
  <2> QED  BY <2>1, <2>3
<1>4. In(k, Between(s, i, w))
  BY <1>1, <1>2 DEF Labels
<1>5. /\ In(k, w)
      /\ \A j \in 1 .. Len(s) : IF j < i THEN s[j].key < k ELSE k < s[j].key
  BY <1>2, <1>3, <1>4, Narrow
<1> QED  BY <1>2, <1>5

\* No two nodes as far from the leaves have a key in both their ranges.
LEMMA Apart ==
    ASSUME NEW V, NEW h, NEW r, NEW p, NEW f, Ordered(V, h, r, p, f), NEW k \in Int
    PROVE  \A a, b \in DOMAIN h :
              p[a].level = p[b].level /\ In(k, f[a]) /\ In(k, f[b]) => a = b
<1>1. Heap(h, Entries(V)) /\ Tree(h, r, p) /\ r \in DOMAIN h
  BY DEF Ordered, Tree
<1>2. \A x \in DOMAIN h : /\ p[x].level \in Nat /\ p[x].level <= p[r].level
                          /\ DOMAIN h[x].kids = 1 .. Len(h[x].kids)
                          /\ Len(h[x].kids) \in Nat /\ Len(h[x].ents) \in Nat
                          /\ h[x].kids # <<>> => Len(h[x].kids) = Len(h[x].ents) + 1
  BY <1>1, TreeTypes, HeapTypes
<1> DEFINE Twin(a, b) == p[a].level = p[b].level /\ In(k, f[a]) /\ In(k, f[b]) /\ a # b
           bad == {a \in DOMAIN h : \E b \in DOMAIN h : Twin(a, b)}
           T == {p[r].level - p[a].level : a \in bad}
<1>3. SUFFICES ASSUME T # {} PROVE FALSE
  OBVIOUS
<1>4. T \subseteq Nat
  BY <1>1, <1>2
<1>5. PICK l \in T : \A y \in T : l <= y
  <2> HIDE DEF T
  <2> QED  BY <1>3, <1>4, LeastNat
<1>6. PICK a \in DOMAIN h, b \in DOMAIN h : l = p[r].level - p[a].level /\ Twin(a, b)
  BY <1>5
<1>7. \A x \in bad : l <= p[r].level - p[x].level
  BY <1>5
<1> HIDE DEF T, bad
<1>8. a # r /\ b # r
  <2>1. ASSUME NEW x \in DOMAIN h, NEW y \in DOMAIN h, p[x].level = p[y].level, y # x
        PROVE  x # r
    <3>1. SUFFICES ASSUME x = r PROVE FALSE
      OBVIOUS
    <3>2. p[y].up \in DOMAIN h /\ p[p[y].up].level = p[y].level + 1
      BY <1>1, <2>1, <3>1, Parent
    <3>3. p[p[y].up].level <= p[y].level
      BY <1>2, <2>1, <3>1, <3>2
    <3> QED  BY <1>2, <3>2, <3>3
  <2> QED  BY <2>1, <1>6
<1>9. PICK x, i :
         /\ x \in DOMAIN h /\ i \in DOMAIN h[x].kids
         /\ a = h[x].kids[i] /\ p[x].level = p[a].level + 1 /\ h[x].kids # <<>>
  BY <1>1, <1>8, Parent
<1>10. PICK y, j :
         /\ y \in DOMAIN h /\ j \in DOMAIN h[y].kids
         /\ b = h[y].kids[j] /\ p[y].level = p[b].level + 1
  BY <1>1, <1>8, Parent
<1>11. /\ In(k, f[x])
       /\ \A z \in 1 .. Len(h[x].ents) : IF z < i THEN h[x].ents[z].key < k
                                         ELSE k < h[x].ents[z].key
  BY <1>6, <1>9, Inside
<1>12. /\ In(k, f[y])
       /\ \A z \in 1 .. Len(h[y].ents) : IF z < j THEN h[y].ents[z].key < k
                                         ELSE k < h[y].ents[z].key
  BY <1>6, <1>10, Inside
<1>13. x = y
  <2>1. SUFFICES ASSUME x # y PROVE FALSE
    OBVIOUS
  <2>2. x \in bad
    BY <1>6, <1>9, <1>10, <1>11, <1>12, <2>1 DEF bad
  <2>3. l <= p[r].level - p[x].level
    BY <1>7, <2>2
  <2> QED  BY <2>3, <1>1, <1>2, <1>6, <1>9
<1>14. i # j
  BY <1>6, <1>9, <1>10, <1>13
<1>15. i \in 1 .. Len(h[x].ents) + 1 /\ j \in 1 .. Len(h[x].ents) + 1
  BY <1>2, <1>9, <1>10, <1>13
<1>16. \A z \in 1 .. Len(h[x].ents) : h[x].ents[z].key \in Int
  <2>1. h[x].ents \in Seq(Entries(V))
    BY <1>1, <1>9, HeapTypes
  <2> QED  BY <2>1, KeysAre
<1>17. CASE i < j
  <2>1. i \in 1 .. Len(h[x].ents) /\ ~(i < i)
    BY <1>2, <1>15, <1>17
  <2>2. k < h[x].ents[i].key /\ h[x].ents[i].key < k
    BY <1>11, <1>12, <1>13, <1>17, <2>1
  <2> QED  BY <2>1, <2>2, <1>16
<1>18. CASE j < i
  <2>1. j \in 1 .. Len(h[x].ents) /\ ~(j < j)
    BY <1>2, <1>15, <1>18
  <2>2. k < h[x].ents[j].key /\ h[x].ents[j].key < k
    BY <1>11, <1>12, <1>13, <1>18, <2>1
  <2> QED  BY <2>1, <2>2, <1>16
<1> QED  BY <1>14, <1>15, <1>17, <1>18

\* Nor has one a key in its range that a node above it holds.
LEMMA Above ==
    ASSUME NEW V, NEW h, NEW r, NEW p, NEW f, Ordered(V, h, r, p, f), NEW k \in Int
    PROVE  \A a, b \in DOMAIN h : \A i \in DOMAIN h[b].ents :
              p[a].level < p[b].level /\ In(k, f[a]) => h[b].ents[i].key # k
<1>1. Heap(h, Entries(V)) /\ Tree(h, r, p) /\ r \in DOMAIN h
  BY DEF Ordered, Tree
<1>2. \A x \in DOMAIN h : /\ p[x].level \in Nat /\ p[x].level <= p[r].level
                          /\ h[x].ents \in Seq(Entries(V)) /\ Within(h[x].ents, f[x])
                          /\ DOMAIN h[x].ents = 1 .. Len(h[x].ents)
  BY <1>1, TreeTypes, HeapTypes, Orders
<1> SUFFICES ASSUME NEW b \in DOMAIN h, NEW i \in DOMAIN h[b].ents, h[b].ents[i].key = k
             PROVE  \A a \in DOMAIN h : ~(p[a].level < p[b].level /\ In(k, f[a]))
  OBVIOUS
<1>3. In(k, f[b])
  BY <1>2 DEF Within
<1> DEFINE bad == {a \in DOMAIN h : p[a].level < p[b].level /\ In(k, f[a])}
           T == {p[b].level - p[a].level : a \in bad}
<1>4. SUFFICES ASSUME T # {} PROVE FALSE
  OBVIOUS
<1>5. T \subseteq Nat
  BY <1>2
<1>6. PICK l \in T : \A y \in T : l <= y
  <2> HIDE DEF T
  <2> QED  BY <1>4, <1>5, LeastNat
<1>7. PICK a \in DOMAIN h : /\ l = p[b].level - p[a].level
                            /\ p[a].level < p[b].level /\ In(k, f[a])
  BY <1>6
<1>8. \A x \in bad : l <= p[b].level - p[x].level
  BY <1>6
<1> HIDE DEF T, bad
<1>9. a # r
  BY <1>1, <1>2, <1>7
<1>10. PICK x, j :
         /\ x \in DOMAIN h /\ j \in DOMAIN h[x].kids
         /\ a = h[x].kids[j] /\ p[x].level = p[a].level + 1 /\ h[x].kids # <<>>
  BY <1>1, <1>9, Parent
<1>11. /\ In(k, f[x])
       /\ \A z \in 1 .. Len(h[x].ents) : IF z < j THEN h[x].ents[z].key < k
                                         ELSE k < h[x].ents[z].key
  BY <1>7, <1>10, Inside
<1>12. CASE p[x].level = p[b].level
  <2>1. x = b
    BY <1>3, <1>10, <1>11, <1>12, Apart
  <2>2. i \in 1 .. Len(h[x].ents) /\ h[x].ents[i].key = k
    BY <1>2, <2>1
  <2> QED  BY <1>11, <2>2
<1>13. CASE p[x].level # p[b].level
  <2>1. p[x].level < p[b].level
    BY <1>2, <1>7, <1>10, <1>13
  <2>2. x \in bad
    BY <1>10, <1>11, <2>1 DEF bad
  <2>3. l <= p[b].level - p[x].level
    BY <1>8, <2>2
  <2> QED  BY <2>3, <1>2, <1>7, <1>10
<1> QED  BY <1>12, <1>13

\* A key is in one place at most.
LEMMA Unique ==
    ASSUME NEW V, NEW h, NEW r, NEW p, NEW f, Ordered(V, h, r, p, f),
           NEW a \in DOMAIN h, NEW b \in DOMAIN h, NEW i \in DOMAIN h[a].ents,
           NEW j \in DOMAIN h[b].ents, h[a].ents[i].key = h[b].ents[j].key
    PROVE  a = b /\ i = j
<1>1. Heap(h, Entries(V)) /\ Tree(h, r, p)
  BY DEF Ordered
<1>2. \A x \in DOMAIN h : /\ p[x].level \in Nat
                          /\ h[x].ents \in Seq(Entries(V)) /\ Within(h[x].ents, f[x])
  BY <1>1, TreeTypes, Orders
<1>3. PICK k \in Int : k = h[a].ents[i].key
  <2>1. PICK s \in Seq(Entries(V)) : s = h[a].ents
    BY <1>2
  <2> QED  BY <2>1, KeysAre
<1>4. In(k, f[a]) /\ In(k, f[b])
  BY <1>2, <1>3 DEF Within
<1>5. ~(p[a].level < p[b].level) /\ ~(p[b].level < p[a].level)
  BY <1>3, <1>4, Above
<1>6. a = b
  <2>1. p[a].level = p[b].level
    BY <1>2, <1>5
  <2> QED  BY <2>1, <1>4, Apart
<1>7. ASSUME i # j PROVE FALSE
  <2>1. PICK s \in Seq(Entries(V)) : s = h[a].ents /\ Rising(s)
    BY <1>2 DEF Within
  <2>2. i \in 1 .. Len(s) /\ j \in 1 .. Len(s) /\ s[i].key \in Nat /\ s[i].key = s[j].key
    BY <1>6, <2>1, KeysAre
  <2>3. Len(s) \in Nat /\ DOMAIN s = 1 .. Len(s)
    BY KeysAre
  <2>4. i < j \/ j < i
    BY <1>7, <2>2, <2>3
  <2>5. s[i].key < s[j].key \/ s[j].key < s[i].key
    BY <2>1, <2>2, <2>3, <2>4 DEF Rising
  <2> QED  BY <2>2, <2>5
<1> QED  BY <1>6, <1>7

\* A key in the range of a leaf that the leaf has not is nowhere.
LEMMA Missing ==
    ASSUME NEW V, NEW h, NEW r, NEW p, NEW f, Ordered(V, h, r, p, f),
           NEW a \in DOMAIN h, h[a].kids = <<>>, NEW k \in Int, In(k, f[a]),
           \A i \in DOMAIN h[a].ents : h[a].ents[i].key # k
    PROVE  \A e \in Stored(h) : e.key # k
<1>1. Heap(h, Entries(V)) /\ Tree(h, r, p)
  BY DEF Ordered
<1>2. SUFFICES ASSUME NEW b \in DOMAIN h, NEW j \in DOMAIN h[b].ents PROVE h[b].ents[j].key # k
  BY DEF Stored, Range
<1>3. p[a].level = 0 /\ p[b].level \in Nat
  BY <1>1, TreeTypes
<1>4. CASE p[b].level = 0
  <2>1. In(k, f[b]) => a = b
    <3>1. p[a].level = p[b].level
      BY <1>3, <1>4
    <3> QED  BY <3>1, Apart
  <2>2. In(h[b].ents[j].key, f[b])
    BY Orders DEF Within
  <2> QED  BY <2>1, <2>2
<1>5. CASE p[b].level # 0
  <2>1. p[a].level < p[b].level
    BY <1>3, <1>5
  <2> QED  BY <2>1, Above
<1> QED  BY <1>4, <1>5

-----------------------------------------------------------------------------
(* Where the scans of a node lead                                            *)

\* Both scans stop at the key, if the node has it, or else at the child in whose
\* range it is.
LEMMA Scans ==
    ASSUME NEW V, NEW h, NEW r, NEW p, NEW f, Ordered(V, h, r, p, f),
           NEW a \in DOMAIN h, NEW k \in Nat, In(k, f[a])
    PROVE  LET i   == NotLess(h[a], k)
               j   == NotGreater(h[a], k)
               has == \E x \in DOMAIN h[a].ents : h[a].ents[x].key = k
           IN  /\ (Holds(h[a], i, k) <=> has) /\ (Holds(h[a], j, k) <=> has)
               /\ i \in 1 .. Len(h[a].ents) + 1 /\ j \in 0 .. Len(h[a].ents)
               /\ ~has => /\ In(k, Between(h[a].ents, i, f[a]))
                          /\ In(k, Between(h[a].ents, j + 1, f[a]))
               /\ ~has /\ h[a].kids # <<>> =>
                  /\ i \in DOMAIN h[a].kids /\ In(k, f[h[a].kids[i]])
                  /\ j + 1 \in DOMAIN h[a].kids /\ In(k, f[h[a].kids[j + 1]])
<1> DEFINE has == \E x \in DOMAIN h[a].ents : h[a].ents[x].key = k
<1>1. Heap(h, Entries(V)) /\ Tree(h, r, p) /\ Labels(h, r, f)
  BY DEF Ordered
<1>2. PICK s \in Seq(Entries(V)), w \in Spans : s = h[a].ents /\ w = f[a] /\ Within(s, w)
  BY Orders
<1>3. PICK l \in Nat : /\ l = Len(s) /\ DOMAIN s = 1 .. l
                       /\ \A x \in 1 .. l : s[x].key \in Nat
  BY KeysAre
<1>4. PICK S : h[a] \in Nodes(Entries(V), S)
  BY <1>1 DEF Heap
<1>5. PICK n \in Nodes(Entries(V), S) : n = h[a]
  BY <1>4
<1>6. PICK i, j : i = NotLess(n, k) /\ j = NotGreater(n, k)
  OBVIOUS
<1>7. Rising(n.ents) /\ Count(n) = l /\ n.ents = s
  BY <1>2, <1>3, <1>5 DEF Within, Count
<1>8. /\ i \in 1 .. l + 1
      /\ Holds(n, i, k) <=> has
      /\ ~Holds(n, i, k) => \A x \in 1 .. l : IF x < i THEN s[x].key < k ELSE s[x].key > k
  <2>1. i \in 1 .. Count(n) + 1
    BY <1>6, <1>7, NotLessIs
  <2>2. /\ Holds(n, i, k) <=> \E x \in DOMAIN n.ents : n.ents[x].key = k
        /\ ~Holds(n, i, k) => \A x \in DOMAIN n.ents : IF x < i THEN n.ents[x].key < k
                                                        ELSE n.ents[x].key > k
    BY <1>6, <1>7, ScanFindsKey
  <2>3. DOMAIN n.ents = 1 .. l /\ Count(n) = l /\ n.ents = s /\ s = h[a].ents
    BY <1>2, <1>3, <1>7
  <2> QED  BY <2>1, <2>2, <2>3
<1>9. /\ j \in 0 .. l
      /\ \A x \in 1 .. l : x <= j => s[x].key <= k
      /\ \A x \in 1 .. l : x > j => s[x].key > k
  BY <1>3, <1>6, <1>7, NotGreaterIs
<1>10. Holds(n, j, k) <=> has
  <2>1. Holds(n, j, k) => has
    BY <1>5 DEF Holds
  <2>2. ASSUME NEW x \in 1 .. l, s[x].key = k PROVE Holds(n, j, k)
    <3>1. ~(x > j)
      BY <1>9, <2>2
    <3>2. j \in 1 .. l /\ (x = j \/ x < j)
      BY <1>9, <3>1
    <3>3. x < j => s[x].key < s[j].key
      BY <1>3, <1>7, <3>2 DEF Rising
    <3>4. s[j].key <= k
      BY <1>9, <3>2
    <3>5. x = j
      BY <1>3, <2>2, <3>2, <3>3, <3>4
    <3> QED  BY <2>2, <3>2, <3>5, <1>3, <1>7 DEF Holds
  <2> QED  BY <2>1, <2>2, <1>2, <1>3
<1>11. ASSUME ~has
       PROVE  In(k, Between(s, i, w)) /\ In(k, Between(s, j + 1, w))
  <2>1. \A x \in 1 .. l : s[x].key # k
    BY <1>2, <1>3, <1>11
  <2>2. \A x \in 1 .. l : IF x < i THEN s[x].key < k ELSE k < s[x].key
    BY <1>3, <1>8, <1>11
  <2>3. \A x \in 1 .. l : IF x < j + 1 THEN s[x].key < k ELSE k < s[x].key
    BY <2>1, <1>3, <1>9
  <2>4. j + 1 \in 1 .. Len(s) + 1 /\ i \in 1 .. Len(s) + 1 /\ k \in Int /\ In(k, w)
    BY <1>2, <1>3, <1>8, <1>9
  <2>5. In(k, Between(s, i, w))
    BY <2>2, <2>4, <1>3, Pass
  <2>6. In(k, Between(s, j + 1, w))
    BY <2>3, <2>4, <1>3, Pass
  <2> QED  BY <2>5, <2>6
<1>12. ASSUME ~has, h[a].kids # <<>>
       PROVE  /\ i \in DOMAIN h[a].kids /\ In(k, f[h[a].kids[i]])
              /\ j + 1 \in DOMAIN h[a].kids /\ In(k, f[h[a].kids[j + 1]])
  <2>1. DOMAIN h[a].kids = 1 .. l + 1
    <3>1. Len(h[a].kids) = l + 1
      BY <1>1, <1>2, <1>3, <1>12, TreeTypes
    <3> QED  BY <3>1, <1>1, HeapTypes
  <2>2. i \in DOMAIN h[a].kids /\ j + 1 \in DOMAIN h[a].kids
    BY <2>1, <1>8, <1>9
  <2>3. /\ f[h[a].kids[i]] = Between(s, i, w)
        /\ f[h[a].kids[j + 1]] = Between(s, j + 1, w)
    BY <1>1, <1>2, <2>2 DEF Labels
  <2> QED  BY <2>2, <2>3, <1>11, <1>12
<1> HIDE DEF has
<1>13. /\ NotLess(h[a], k) = i /\ NotGreater(h[a], k) = j /\ n = h[a]
       /\ s = h[a].ents /\ w = f[a] /\ l = Len(h[a].ents)
  BY <1>2, <1>3, <1>5, <1>6
<1> QED  BY <1>8, <1>9, <1>10, <1>11, <1>12, <1>13 DEF has

-----------------------------------------------------------------------------
(* A change that keeps the walk of a node keeps the order                    *)

\* The same seen in memory.
LEMMA PlaceInMemory ==
    ASSUME NEW V, NEW h, NEW r, NEW p, NEW f, Heap(h, Entries(V)), Tree(h, r, p), NEW a \in DOMAIN h,
           h[a].kids # <<>>, NEW i \in DOMAIN h[a].kids, NEW w \in Spans,
           NEW j \in 1 .. Len(h[h[a].kids[i]].ents) + 1
    PROVE  /\ Between(h[h[a].kids[i]].ents, j, Between(h[a].ents, i, w))
                = RangeAt(Gap(View(h, a), i, j), w)
           /\ Gap(View(h, a), i, j) \in ChildGaps(View(h, a), i)
           /\ Gap(View(h, a), i, j) \in Gaps(View(h, a))
           /\ Gap(View(h, a), i, j)[2] = IF h[h[a].kids[i]].kids = <<>> THEN NoNode
                                         ELSE h[h[a].kids[i]].kids[j]
<1>1. PICK n : n = View(h, a)
  OBVIOUS
<1>2. /\ n \in Nodes(Entries(V), Nodes(Entries(V), Others(h, p, a)))
      /\ n.ents = h[a].ents /\ DOMAIN n.kids = DOMAIN h[a].kids
      /\ Shaped(n) /\ \A x \in DOMAIN h[a].kids : n.kids[x] = h[h[a].kids[x]]
  BY <1>1, TreeView
<1>3. n.kids[i] = h[h[a].kids[i]] /\ i \in DOMAIN n.kids /\ Len(n.kids) = Count(n) + 1
  BY <1>2 DEF Shaped
<1>4. j \in Places(n, i)
  BY <1>3 DEF Places, Count
<1>5. Between(n.kids[i].ents, j, Between(n.ents, i, w)) = RangeAt(Gap(n, i, j), w)
  BY <1>2, <1>3, <1>4, PlaceRange
<1>6. Gap(n, i, j) \in ChildGaps(n, i) /\ Gap(n, i, j) \in Gaps(n)
  BY <1>3, <1>4 DEF ChildGaps, Gaps
<1>7. Gap(n, i, j)[2] = IF h[h[a].kids[i]].kids = <<>> THEN NoNode ELSE h[h[a].kids[i]].kids[j]
  BY <1>3 DEF Gap, Below, IsLeaf
<1> QED  BY <1>1, <1>2, <1>3, <1>5, <1>6, <1>7

LEMMA PlaceOf ==
    ASSUME NEW V, NEW h, NEW r, NEW p, Heap(h, Entries(V)), Tree(h, r, p), NEW a \in DOMAIN h,
           h[a].kids # <<>>, NEW t, t \in Gaps(View(h, a))
    PROVE  \E i \in DOMAIN h[a].kids : \E j \in 1 .. Len(h[h[a].kids[i]].ents) + 1 :
              t = Gap(View(h, a), i, j)
<1>1. PICK n : n = View(h, a)
  OBVIOUS
<1>2. /\ DOMAIN n.kids = DOMAIN h[a].kids
      /\ \A x \in DOMAIN h[a].kids : n.kids[x] = h[h[a].kids[x]]
  BY <1>1, TreeView
<1>3. PICK i \in DOMAIN n.kids : t \in ChildGaps(n, i)
  BY <1>1 DEF Gaps
<1>4. PICK j \in Places(n, i) : t = Gap(n, i, j)
  BY <1>3 DEF ChildGaps
<1> QED  BY <1>1, <1>2, <1>3, <1>4 DEF Places, Count

\* The children are leaves before and after.
LEMMA SplitLeaf ==
    ASSUME NEW E, NEW h, NEW g, Heap(h, E), Heap(g, E), NEW a, NEW i, NEW u, NEW b,
           Splits(h, g, a, i, u, b)
    PROVE  /\ a \in DOMAIN h /\ i \in DOMAIN h[a].kids /\ g[a].kids[i] = h[a].kids[i]
           /\ a \in DOMAIN g => i \in DOMAIN g[a].kids
           /\ h[h[a].kids[i]].kids = <<>> <=> g[g[a].kids[i]].kids = <<>>
<1> DEFINE c == h[a].kids[i]
<1>1. /\ a \in DOMAIN h /\ i \in DOMAIN h[a].kids /\ u \in DOMAIN h[c].ents
      /\ Len(g[a].kids) = Len(h[a].kids) + 1 /\ DOMAIN g = DOMAIN h \cup {b}
      /\ \A j \in DOMAIN h[a].kids : j <= i => g[a].kids[j] = h[a].kids[j]
      /\ IF h[c].kids = <<>> THEN g[c].kids = <<>> ELSE Len(g[c].kids) = u
  BY DEF Splits
<1>2. c \in DOMAIN h /\ i \in Nat /\ DOMAIN h[a].kids = 1 .. Len(h[a].kids) /\ Len(h[a].kids) \in Nat
  BY SMTT(40), <1>1, HeapTypes
<1>3. u \in Nat /\ u >= 1
  <2>1. DOMAIN h[c].ents = 1 .. Len(h[c].ents) /\ Len(h[c].ents) \in Nat
    BY <1>2, HeapTypes
  <2> QED  BY <1>1, <2>1
<1>4. g[a].kids[i] = c
  BY <1>1, <1>2
<1>5. ASSUME a \in DOMAIN g PROVE i \in DOMAIN g[a].kids
  <2>1. DOMAIN g[a].kids = 1 .. Len(g[a].kids)
    BY <1>5, HeapTypes
  <2> QED  BY <2>1, <1>1, <1>2
<1>6. c \in DOMAIN g
  BY <1>1, <1>2
<1>7. h[c].kids = <<>> <=> g[c].kids = <<>>
  <2>1. g[c].kids = <<>> <=> Len(g[c].kids) = 0
    BY <1>6, HeapTypes
  <2> QED  BY <2>1, <1>1, <1>3
<1> QED  BY <1>1, <1>4, <1>5, <1>7

LEMMA TurnLeaves ==
    ASSUME NEW E, NEW h, NEW r, NEW p, Heap(h, E), Tree(h, r, p), NEW a \in DOMAIN h,
           h[a].kids # <<>>,
           NEW g, NEW n, NEW ids, Turned(E, h, g, a, n, ids), NEW q, Tree(g, r, q)
    PROVE  /\ a \in DOMAIN g /\ g[a].kids # <<>>
           /\ \A i \in DOMAIN h[a].kids : \A j \in DOMAIN g[a].kids :
                 h[h[a].kids[i]].kids = <<>> <=> g[g[a].kids[j]].kids = <<>>
<1>1. Heap(g, E) /\ a \in DOMAIN g
  BY DEF Turned, Written
<1>2. ASSUME NEW z, NEW s, NEW l, Heap(z, E), Tree(z, s, l), a \in DOMAIN z
      PROVE  \A i, j \in DOMAIN z[a].kids : z[z[a].kids[i]].kids = <<>> <=> z[z[a].kids[j]].kids = <<>>
  <2>1. \A i \in DOMAIN z[a].kids : /\ z[a].kids[i] \in DOMAIN z
                                    /\ l[z[a].kids[i]].level = l[a].level - 1
    BY <1>2, Kid
  <2>2. \A x \in DOMAIN z : l[x].level = 0 <=> z[x].kids = <<>>
    BY <1>2, TreeTypes
  <2> QED  BY <2>1, <2>2
<1>3. \A i, j \in DOMAIN h[a].kids : h[h[a].kids[i]].kids = <<>> <=> h[h[a].kids[j]].kids = <<>>
  BY <1>2
<1>4. \A i, j \in DOMAIN g[a].kids : g[g[a].kids[i]].kids = <<>> <=> g[g[a].kids[j]].kids = <<>>
  BY <1>1, <1>2
<1>5. \E i : /\ i \in DOMAIN h[a].kids /\ i \in DOMAIN g[a].kids
             /\ h[h[a].kids[i]].kids = <<>> <=> g[g[a].kids[i]].kids = <<>>
  <2>1. CASE g = h
    <3>1. 1 \in DOMAIN h[a].kids
      BY HeapTypes
    <3> QED  BY <2>1, <3>1
  <2>2. CASE \E i, u, b : Splits(h, g, a, i, u, b)
    <3>1. PICK i, u, b : Splits(h, g, a, i, u, b)
      BY <2>2
    <3>2. /\ i \in DOMAIN h[a].kids /\ i \in DOMAIN g[a].kids
          /\ h[h[a].kids[i]].kids = <<>> <=> g[g[a].kids[i]].kids = <<>>
      BY <3>1, <1>1, SplitLeaf
    <3> QED  BY <3>2
  <2>3. CASE \E i, u, b : Splits(g, h, a, i, u, b)
    <3>1. PICK i, u, b : Splits(g, h, a, i, u, b)
      BY <2>3
    <3>2. /\ i \in DOMAIN h[a].kids /\ i \in DOMAIN g[a].kids
          /\ h[h[a].kids[i]].kids = <<>> <=> g[g[a].kids[i]].kids = <<>>
      BY <3>1, <1>1, SplitLeaf
    <3> QED  BY <3>2
  <2>4. CASE \E v, i, s, u, b : Heap(v, E) /\ Splits(v, h, a, i, s, b) /\ Splits(v, g, a, i, u, b)
    <3>1. PICK v, i, s, u, b : Heap(v, E) /\ Splits(v, h, a, i, s, b) /\ Splits(v, g, a, i, u, b)
      BY <2>4
    <3>2. /\ i \in DOMAIN h[a].kids /\ h[a].kids[i] = v[a].kids[i]
          /\ v[v[a].kids[i]].kids = <<>> <=> h[h[a].kids[i]].kids = <<>>
      BY <3>1, SplitLeaf
    <3>3. /\ i \in DOMAIN g[a].kids /\ g[a].kids[i] = v[a].kids[i]
          /\ v[v[a].kids[i]].kids = <<>> <=> g[g[a].kids[i]].kids = <<>>
      BY <3>1, <1>1, SplitLeaf
    <3> QED  BY <3>2, <3>3
  <2> QED  BY <2>1, <2>2, <2>3, <2>4 DEF Turned
<1>6. g[a].kids # <<>>
  BY <1>5
<1> QED  BY <1>1, <1>3, <1>4, <1>5, <1>6

\* The node's children have new ranges, all others keep theirs.
Relabel(g, q, f, a) ==
    [x \in DOMAIN g |-> IF q[x].up = a THEN Between(g[a].ents, q[x].at, f[a]) ELSE f[x]]

LEMMA TurnLabels ==
    ASSUME NEW V, NEW h, NEW r, NEW p, NEW f, Ordered(V, h, r, p, f), NEW a \in DOMAIN h,
           h[a].kids # <<>>, NEW g, NEW n, NEW ids, Turned(Entries(V), h, g, a, n, ids),
           Gaps(n) = Gaps(View(h, a)), NEW q, Tree(g, r, q)
    PROVE  Ordered(V, g, r, q, Relabel(g, q, f, a)) /\ Relabel(g, q, f, a)[a] = f[a]
<1> DEFINE f2 == Relabel(g, q, f, a)
<1>1. Heap(h, Entries(V)) /\ Tree(h, r, p) /\ Labels(h, r, f) /\ Ascends(h, f)
  BY DEF Ordered
<1>2. /\ Heap(g, Entries(V)) /\ a \in DOMAIN g /\ g[a].kids = ids /\ View(g, a) = n
      /\ DOMAIN g = (DOMAIN h \ Range(h[a].kids)) \cup Range(ids)
      /\ \A x \in DOMAIN g : x # a /\ x \notin Range(ids) =>
            x \in DOMAIN h /\ x \notin Range(h[a].kids) /\ g[x] = h[x]
  BY DEF Turned, Written
<1>3. /\ g[a].kids # <<>>
      /\ \A i \in DOMAIN h[a].kids : \A j \in DOMAIN g[a].kids :
            h[h[a].kids[i]].kids = <<>> <=> g[g[a].kids[j]].kids = <<>>
  BY <1>1, TurnLeaves
<1>4. \A x \in DOMAIN g : \A j \in DOMAIN g[x].kids :
         /\ g[x].kids[j] \in DOMAIN g /\ q[g[x].kids[j]].up = x /\ q[g[x].kids[j]].at = j
         /\ g[x].kids[j] # x /\ g[x].kids[j] # r
  BY <1>2, Kid
<1>5. \A x \in DOMAIN g : q[x].up = a => q[x].at \in DOMAIN g[a].kids /\ g[a].kids[q[x].at] = x
  <2> SUFFICES ASSUME NEW x \in DOMAIN g, q[x].up = a
               PROVE  q[x].at \in DOMAIN g[a].kids /\ g[a].kids[q[x].at] = x
    OBVIOUS
  <2>1. x # r
    <3>1. q[r].up = NoTree /\ a \in Nat
      BY <1>2, HeapTypes DEF Tree
    <3> QED  BY <3>1 DEF NoTree
  <2> QED  BY <2>1, <1>2, Parent
<1>6. \A x \in DOMAIN g : q[x].up = a <=> x \in Range(ids)
  <2>1. \A x \in DOMAIN g : q[x].up = a => x \in Range(ids)
    BY <1>2, <1>5 DEF Range
  <2>2. \A x \in Range(ids) : q[x].up = a
    BY <1>2, <1>4 DEF Range
  <2> QED  BY <2>1, <2>2
<1>7. q[a].up # a /\ r \in DOMAIN g /\ q[r].up # a
  <2>1. r \in DOMAIN g /\ q[r].up = NoTree /\ a \in Nat
    BY <1>2, HeapTypes DEF Tree
  <2>2. q[r].up # a
    BY <2>1 DEF NoTree
  <2>3. q[a].up # a
    BY <1>4, <1>5, <1>2
  <2> QED  BY <2>1, <2>2, <2>3
<1>8. f[a] \in Spans /\ \A x \in DOMAIN h : f[x] \in Spans
  BY <1>1 DEF Labels
<1>9. \A j \in DOMAIN g[a].kids : Between(g[a].ents, j, f[a]) \in Spans
  <2>1. PICK s \in Seq(Entries(V)) : s = g[a].ents
    BY <1>2, HeapTypes
  <2>2. DOMAIN g[a].kids = 1 .. Len(s) + 1
    <3>1. Len(g[a].kids) = Len(s) + 1
      BY <1>2, <1>3, <2>1, TreeTypes
    <3> QED  BY <3>1, <1>2, HeapTypes
  <2> QED  BY <2>1, <2>2, <1>8, BetweenSpan
<1>10. f2 \in [DOMAIN g -> Spans]
  <2>1. ASSUME NEW x \in DOMAIN g
        PROVE  (IF q[x].up = a THEN Between(g[a].ents, q[x].at, f[a]) ELSE f[x]) \in Spans
    <3>1. CASE q[x].up = a
      BY <3>1, <1>5, <1>9
    <3>2. CASE q[x].up # a
      BY <3>2, <1>2, <1>6, <1>8
    <3> QED  BY <3>1, <3>2
  <2> QED  BY <2>1 DEF Relabel
<1>11. /\ \A x \in DOMAIN g : q[x].up # a => f2[x] = f[x]
       /\ \A j \in DOMAIN g[a].kids : f2[g[a].kids[j]] = Between(g[a].ents, j, f[a])
  BY <1>2, <1>4 DEF Relabel
<1> HIDE DEF f2
<1>12. f2[a] = f[a] /\ f2[r] = Whole
  BY <1>1, <1>2, <1>7, <1>11 DEF Labels
\* What is at a place below a child, before and after.
<1> DEFINE From(c, j) ==
              \E k \in DOMAIN h[a].kids : \E d \in DOMAIN h : \E m \in 1 .. Len(h[d].ents) + 1 :
                 /\ d = h[a].kids[k]
                 /\ Between(g[c].ents, j, f2[c]) = Between(h[d].ents, m, f[d])
                 /\ h[d].kids = <<>> <=> g[c].kids = <<>>
                 /\ g[c].kids # <<>> => h[d].kids[m] = g[c].kids[j]
<1>13. ASSUME NEW i \in DOMAIN g[a].kids, NEW c, c = g[a].kids[i], NEW j \in 1 .. Len(g[c].ents) + 1
       PROVE  From(c, j)
  <2>1. /\ Between(g[c].ents, j, Between(g[a].ents, i, f[a])) = RangeAt(Gap(n, i, j), f[a])
        /\ Gap(n, i, j) \in Gaps(n)
        /\ Gap(n, i, j)[2] = IF g[c].kids = <<>> THEN NoNode ELSE g[c].kids[j]
    BY <1>2, <1>3, <1>8, <1>13, PlaceInMemory
  <2>2. Gap(n, i, j) \in Gaps(View(h, a))
    BY <2>1
  <2>3. PICK k \in DOMAIN h[a].kids : \E m \in 1 .. Len(h[h[a].kids[k]].ents) + 1 :
           Gap(n, i, j) = Gap(View(h, a), k, m)
    BY <1>1, <2>2, PlaceOf
  <2>4. PICK d : d = h[a].kids[k]
    OBVIOUS
  <2>5. PICK m \in 1 .. Len(h[d].ents) + 1 : Gap(n, i, j) = Gap(View(h, a), k, m)
    BY <2>3, <2>4
  <2>6. d \in DOMAIN h
    BY <1>1, <2>3, <2>4, HeapTypes
  <2>7. /\ Between(h[d].ents, m, Between(h[a].ents, k, f[a])) = RangeAt(Gap(View(h, a), k, m), f[a])
        /\ Gap(View(h, a), k, m)[2] = IF h[d].kids = <<>> THEN NoNode ELSE h[d].kids[m]
    BY <1>1, <1>8, <2>3, <2>4, <2>5, PlaceInMemory
  <2>8. f[d] = Between(h[a].ents, k, f[a])
    BY <1>1, <2>3, <2>4 DEF Labels
  <2>9. f2[c] = Between(g[a].ents, i, f[a])
    BY <1>11, <1>13
  <2>10. h[d].kids = <<>> <=> g[c].kids = <<>>
    BY <1>3, <1>13, <2>3, <2>4
  <2>11. Between(g[c].ents, j, f2[c]) = Between(h[d].ents, m, f[d])
    BY <2>1, <2>5, <2>7, <2>8, <2>9
  <2>12. g[c].kids # <<>> => h[d].kids[m] = g[c].kids[j]
    BY <2>1, <2>5, <2>7, <2>10
  <2> QED  BY <2>3, <2>4, <2>5, <2>6, <2>10, <2>11, <2>12
<1> HIDE DEF From
<1>14. ASSUME NEW x \in DOMAIN g, NEW j \in DOMAIN g[x].kids
       PROVE  f2[g[x].kids[j]] = Between(g[x].ents, j, f2[x])
  <2>1. PICK y \in DOMAIN g : y = g[x].kids[j] /\ q[y].up = x
    BY <1>4
  <2>2. CASE x = a
    BY <2>2, <1>11, <1>12
  <2>3. CASE q[x].up = a
    <3>1. PICK i \in DOMAIN g[a].kids : x = g[a].kids[i]
      BY <2>3, <1>5
    <3>2. x # a
      BY <2>3, <1>7
    <3>3. g[x].kids # <<>> /\ j \in 1 .. Len(g[x].ents) + 1
      <4>1. DOMAIN g[x].kids = 1 .. Len(g[x].kids) /\ (g[x].kids = <<>> <=> Len(g[x].kids) = 0)
        BY <1>2, HeapTypes
      <4>2. g[x].kids # <<>>
        BY <4>1
      <4>3. Len(g[x].kids) = Len(g[x].ents) + 1
        BY <4>2, <1>2, TreeTypes
      <4> QED  BY <4>1, <4>2, <4>3
    <3>4. PICK d, m :
             /\ d \in DOMAIN h /\ m \in 1 .. Len(h[d].ents) + 1
             /\ Between(g[x].ents, j, f2[x]) = Between(h[d].ents, m, f[d])
             /\ h[d].kids # <<>> /\ h[d].kids[m] = y
      <4>1. From(x, j)
        BY <1>13, <3>1, <3>3
      <4> QED  BY <4>1, <3>3, <2>1 DEF From
    <3>5. m \in DOMAIN h[d].kids
      <4>1. Len(h[d].kids) = Len(h[d].ents) + 1
        BY <3>4, <1>1, TreeTypes
      <4>2. DOMAIN h[d].kids = 1 .. Len(h[d].kids)
        BY <3>4, <1>1, HeapTypes
      <4> QED  BY <3>4, <4>1, <4>2
    <3>6. f[y] = Between(h[d].ents, m, f[d])
      BY <1>1, <3>4, <3>5 DEF Labels
    <3>7. f2[y] = f[y]
      BY <1>11, <2>1, <3>2
    <3> QED  BY <2>1, <3>4, <3>6, <3>7
  <2>4. CASE x # a /\ q[x].up # a
    <3>1. x \in DOMAIN h /\ g[x] = h[x]
      BY <2>4, <1>2, <1>6
    <3>2. f[y] = Between(h[x].ents, j, f[x])
      BY <3>1, <2>1, <1>1 DEF Labels
    <3>3. f2[y] = f[y] /\ f2[x] = f[x]
      BY <1>11, <2>1, <2>4
    <3> QED  BY <2>1, <3>1, <3>2, <3>3
  <2> QED  BY <2>2, <2>3, <2>4
<1>15. Labels(g, r, f2)
  BY <1>10, <1>12, <1>14 DEF Labels
<1>16. Ascends(g, f2)
  <2> SUFFICES ASSUME NEW x \in DOMAIN g, g[x].kids = <<>>, NEW j \in 1 .. Len(g[x].ents) + 1
               PROVE  Strict(Between(g[x].ents, j, f2[x]))
    BY DEF Ascends
  <2>1. x # a
    BY <1>3
  <2>2. CASE q[x].up = a
    <3>1. PICK i \in DOMAIN g[a].kids : x = g[a].kids[i]
      BY <2>2, <1>5
    <3>2. PICK d, m :
             /\ d \in DOMAIN h /\ m \in 1 .. Len(h[d].ents) + 1 /\ h[d].kids = <<>>
             /\ Between(g[x].ents, j, f2[x]) = Between(h[d].ents, m, f[d])
      <4>1. From(x, j)
        BY <1>13, <3>1
      <4> QED  BY <4>1 DEF From
    <3> QED  BY <1>1, <3>2 DEF Ascends
  <2>3. CASE q[x].up # a
    <3>1. x \in DOMAIN h /\ g[x] = h[x]
      BY <2>1, <2>3, <1>2, <1>6
    <3>2. f2[x] = f[x]
      BY <1>11, <2>3
    <3> QED  BY <1>1, <3>1, <3>2 DEF Ascends
  <2> QED  BY <2>2, <2>3
<1> QED  BY <1>2, <1>12, <1>15, <1>16 DEF Ordered, f2

\* What is stored stays: every entry is next to a place of the walk.
LEMMA Entered ==
    ASSUME NEW V, NEW h, NEW r, NEW p, Heap(h, Entries(V)), Tree(h, r, p), NEW a \in DOMAIN h,
           h[a].kids # <<>>, NEW e \in Entries(V)
    PROVE  (\E t \in Gaps(View(h, a)) : e = t[1] \/ e = t[3]) <=>
              \/ e \in Range(h[a].ents)
              \/ \E i \in DOMAIN h[a].kids : e \in Range(h[h[a].kids[i]].ents)
<1>1. PICK n : n = View(h, a)
  OBVIOUS
<1>2. /\ n \in Nodes(Entries(V), Nodes(Entries(V), Others(h, p, a)))
      /\ n.ents = h[a].ents /\ DOMAIN n.kids = DOMAIN h[a].kids
      /\ Shaped(n) /\ \A x \in DOMAIN h[a].kids : n.kids[x] = h[h[a].kids[x]]
  BY <1>1, TreeView
<1>3. PICK s \in Seq(Entries(V)) : s = h[a].ents
  BY HeapTypes
<1>4. PICK l \in Nat : l = Len(s) /\ DOMAIN s = 1 .. l /\ DOMAIN h[a].kids = 1 .. l + 1
  <2>1. Len(h[a].kids) = Len(s) + 1
    BY <1>3, TreeTypes
  <2> QED  BY <2>1, <1>3, KeysAre, HeapTypes
<1>5. \A i \in 1 .. l + 1 : /\ h[h[a].kids[i]].ents \in Seq(Entries(V))
                            /\ DOMAIN h[h[a].kids[i]].ents = 1 .. Len(h[h[a].kids[i]].ents)
                            /\ Len(h[h[a].kids[i]].ents) \in Nat
  BY <1>4, HeapTypes
<1>6. e # NoEntry
  BY Real
<1>7. ASSUME NEW i \in 1 .. l + 1, NEW j \in 1 .. Len(h[h[a].kids[i]].ents) + 1
      PROVE  /\ Gap(n, i, j)[1] = IF j > 1 THEN h[h[a].kids[i]].ents[j - 1]
                                  ELSE IF i > 1 THEN s[i - 1] ELSE NoEntry
             /\ Gap(n, i, j)[3] = IF j <= Len(h[h[a].kids[i]].ents) THEN h[h[a].kids[i]].ents[j]
                                  ELSE IF i <= l THEN s[i] ELSE NoEntry
             /\ Gap(n, i, j) \in Gaps(n)
  <2>1. i \in DOMAIN h[a].kids
    BY <1>4
  <2>2. n.kids[i] = h[h[a].kids[i]] /\ n.ents = s /\ Count(n) = l
    BY <2>1, <1>2, <1>3, <1>4 DEF Count
  <2>3. Gap(n, i, j)[1] = Before(n, i, j) /\ Gap(n, i, j)[3] = After(n, i, j)
    BY DEF Gap
  <2>4. Gap(n, i, j) \in Gaps(n)
    <3>1. Whole \in Spans
      BY DEF Whole, Spans, UIntMax
    <3> QED  BY <3>1, <1>1, <2>1, PlaceInMemory
  <2> QED  BY <2>2, <2>3, <2>4 DEF Before, After, Count
<1>8. ASSUME NEW t \in Gaps(n), e = t[1] \/ e = t[3]
      PROVE  \/ e \in Range(s)
             \/ \E i \in DOMAIN h[a].kids : e \in Range(h[h[a].kids[i]].ents)
  <2>1. PICK i \in 1 .. l + 1 : \E j \in 1 .. Len(h[h[a].kids[i]].ents) + 1 : t = Gap(n, i, j)
    BY <1>1, <1>4, PlaceOf
  <2>2. PICK j \in 1 .. Len(h[h[a].kids[i]].ents) + 1 : t = Gap(n, i, j)
    BY <2>1
  <2>3. PICK u \in Seq(Entries(V)), m \in Nat :
           u = h[h[a].kids[i]].ents /\ m = Len(u) /\ DOMAIN u = 1 .. m
    BY <1>5
  <2>4. /\ t[1] = IF j > 1 THEN u[j - 1] ELSE IF i > 1 THEN s[i - 1] ELSE NoEntry
        /\ t[3] = IF j <= m THEN u[j] ELSE IF i <= l THEN s[i] ELSE NoEntry
    BY <1>7, <2>2, <2>3
  <2>5. (\E x \in 1 .. m : e = u[x]) \/ (\E x \in 1 .. l : e = s[x])
    <3>1. CASE e = t[1]
      <4>1. j > 1 => j - 1 \in 1 .. m
        BY SMTT(40), <2>3
      <4>2. i > 1 => i - 1 \in 1 .. l
        BY <1>4
      <4> QED  BY <3>1, <4>1, <4>2, <2>4, <1>6
    <3>2. CASE e = t[3]
      <4>1. j <= m => j \in 1 .. m
        BY <2>3
      <4>2. i <= l => i \in 1 .. l
        BY <1>4
      <4> QED  BY <3>2, <4>1, <4>2, <2>4, <1>6
    <3> QED  BY <1>8, <3>1, <3>2
  <2>6. e \in Range(u) \/ e \in Range(s)
    BY <2>5, <2>3, <1>4 DEF Range
  <2> QED  BY <2>6, <2>3, <1>4
<1>9. ASSUME NEW x \in 1 .. l, e = s[x] PROVE \E t \in Gaps(n) : e = t[1] \/ e = t[3]
  <2>1. x + 1 \in 1 .. l + 1 /\ x + 1 > 1 /\ (x + 1) - 1 = x
    BY <1>4
  <2>2. PICK i \in 1 .. l + 1 : i = x + 1
    BY <2>1
  <2>3. 1 \in 1 .. Len(h[h[a].kids[i]].ents) + 1
    BY <1>5
  <2>4. Gap(n, i, 1)[1] = s[i - 1] /\ Gap(n, i, 1) \in Gaps(n)
    BY <1>7, <2>1, <2>2, <2>3
  <2> QED  BY <2>1, <2>2, <2>4, <1>9
<1>10. ASSUME NEW i \in 1 .. l + 1, e \in Range(h[h[a].kids[i]].ents)
       PROVE  \E t \in Gaps(n) : e = t[1] \/ e = t[3]
  <2>1. PICK u \in Seq(Entries(V)), m \in Nat :
           u = h[h[a].kids[i]].ents /\ m = Len(u) /\ DOMAIN u = 1 .. m
    BY <1>5
  <2>2. PICK x \in 1 .. m : e = u[x]
    BY <1>10, <2>1 DEF Range
  <2>3. x \in 1 .. m + 1 /\ x <= m
    BY <2>2
  <2>4. Gap(n, i, x)[3] = u[x] /\ Gap(n, i, x) \in Gaps(n)
    BY <1>7, <2>1, <2>3
  <2> QED  BY <2>2, <2>4
<1>11. e \in Range(s) => \E x \in 1 .. l : e = s[x]
  BY <1>4 DEF Range
<1> QED  BY <1>1, <1>3, <1>4, <1>8, <1>9, <1>10, <1>11

LEMMA StoredTypes ==
    ASSUME NEW V, NEW h, Heap(h, Entries(V))
    PROVE  \A e \in Stored(h) : e \in Entries(V) /\ e.key \in Nat /\ e.val \in V
<1>1. ASSUME NEW a \in DOMAIN h, NEW e \in Range(h[a].ents) PROVE e \in Entries(V)
  <2>1. PICK i \in DOMAIN h[a].ents : e = h[a].ents[i]
    BY DEF Range
  <2> QED  BY <2>1, HeapTypes
<1>2. \A e \in Stored(h) : e \in Entries(V)
  BY <1>1 DEF Stored
<1> QED  BY <1>2 DEF Entries

LEMMA SplitKids ==
    ASSUME NEW E, NEW h, NEW g, Heap(h, E), Heap(g, E), NEW a, NEW i, NEW u, NEW b,
           Splits(h, g, a, i, u, b)
    PROVE  /\ Range(g[a].kids) \subseteq Range(h[a].kids) \cup {b}
           /\ Range(h[a].kids) \subseteq Range(g[a].kids) /\ b \in Range(g[a].kids)
           /\ b \notin DOMAIN h
<1>1. /\ a \in DOMAIN h /\ i \in DOMAIN h[a].kids /\ b \notin DOMAIN h
      /\ Len(g[a].kids) = Len(h[a].kids) + 1 /\ DOMAIN g = DOMAIN h \cup {b}
      /\ \A j \in DOMAIN h[a].kids : j <= i => g[a].kids[j] = h[a].kids[j]
      /\ g[a].kids[i + 1] = b
      /\ \A j \in DOMAIN h[a].kids : j > i => g[a].kids[j + 1] = h[a].kids[j]
  BY DEF Splits
<1>2. PICK l \in Nat : l = Len(h[a].kids) /\ DOMAIN h[a].kids = 1 .. l
  BY <1>1, HeapTypes
<1>3. DOMAIN g[a].kids = 1 .. l + 1
  BY <1>1, <1>2, HeapTypes
<1>4. PICK s, t : s = h[a].kids /\ t = g[a].kids
  OBVIOUS
<1>5. /\ i \in 1 .. l /\ DOMAIN s = 1 .. l /\ DOMAIN t = 1 .. l + 1 /\ t[i + 1] = b
      /\ \A j \in 1 .. l : IF j <= i THEN t[j] = s[j] ELSE t[j + 1] = s[j]
  BY <1>1, <1>2, <1>3, <1>4
<1>6. ASSUME NEW j \in 1 .. l + 1 PROVE t[j] = b \/ \E k \in 1 .. l : t[j] = s[k]
  <2>1. CASE j <= i
    BY <2>1, <1>5
  <2>2. CASE j = i + 1
    BY <2>2, <1>5
  <2>3. CASE j > i + 1
    <3>1. j - 1 \in 1 .. l /\ ~(j - 1 <= i) /\ (j - 1) + 1 = j
      BY <2>3, <1>5
    <3> QED  BY <3>1, <1>5
  <2> QED  BY <2>1, <2>2, <2>3, <1>5
<1>7. ASSUME NEW j \in 1 .. l PROVE \E k \in 1 .. l + 1 : s[j] = t[k]
  <2>1. j \in 1 .. l + 1 /\ j + 1 \in 1 .. l + 1
    OBVIOUS
  <2> QED  BY <2>1, <1>5
<1>8. i + 1 \in 1 .. l + 1
  BY <1>5
<1>9. /\ \A x \in Range(t) : \E j \in 1 .. l + 1 : x = t[j]
      /\ \A x \in Range(s) : \E j \in 1 .. l : x = s[j]
      /\ \A j \in 1 .. l + 1 : t[j] \in Range(t)
      /\ \A j \in 1 .. l : s[j] \in Range(s)
  BY <1>5 DEF Range
<1>10. Range(t) \subseteq Range(s) \cup {b} /\ Range(s) \subseteq Range(t) /\ b \in Range(t)
  BY <1>5, <1>6, <1>7, <1>8, <1>9
<1> QED  BY <1>1, <1>4, <1>10

\* A new child was not in memory.
LEMMA NewKids ==
    ASSUME NEW E, NEW h, Heap(h, E), NEW g, NEW a \in DOMAIN h, NEW n, NEW ids,
           Turned(E, h, g, a, n, ids), NEW x \in DOMAIN h, x \notin Range(h[a].kids)
    PROVE  x \notin Range(ids)
<1>1. Heap(g, E) /\ g[a].kids = ids
  BY DEF Turned, Written
<1>2. CASE g = h
  BY <1>1, <1>2
<1>3. CASE \E i, u, b : Splits(h, g, a, i, u, b)
  <2>1. PICK i, u, b : Splits(h, g, a, i, u, b)
    BY <1>3
  <2>2. Range(g[a].kids) \subseteq Range(h[a].kids) \cup {b} /\ b \notin DOMAIN h
    BY <2>1, <1>1, SplitKids
  <2> QED  BY <1>1, <2>2
<1>4. CASE \E i, u, b : Splits(g, h, a, i, u, b)
  <2>1. PICK i, u, b : Splits(g, h, a, i, u, b)
    BY <1>4
  <2>2. Range(g[a].kids) \subseteq Range(h[a].kids)
    BY <2>1, <1>1, SplitKids
  <2> QED  BY <1>1, <2>2
<1>5. CASE \E v, i, s, u, b : Heap(v, E) /\ Splits(v, h, a, i, s, b) /\ Splits(v, g, a, i, u, b)
  <2>1. PICK v, i, s, u, b : Heap(v, E) /\ Splits(v, h, a, i, s, b) /\ Splits(v, g, a, i, u, b)
    BY <1>5
  <2>2. Range(g[a].kids) \subseteq Range(v[a].kids) \cup {b}
    BY <2>1, <1>1, SplitKids
  <2>3. Range(v[a].kids) \subseteq Range(h[a].kids) /\ b \in Range(h[a].kids)
    BY <2>1, SplitKids
  <2> QED  BY <1>1, <2>2, <2>3
<1> QED  BY <1>2, <1>3, <1>4, <1>5 DEF Turned

LEMMA TurnStored ==
    ASSUME NEW V, NEW h, NEW r, NEW p, Heap(h, Entries(V)), Tree(h, r, p), NEW a \in DOMAIN h,
           h[a].kids # <<>>, NEW g, NEW n, NEW ids, Turned(Entries(V), h, g, a, n, ids),
           Gaps(n) = Gaps(View(h, a)), NEW q, Tree(g, r, q)
    PROVE  Stored(g) = Stored(h)
<1>1. /\ Heap(g, Entries(V)) /\ a \in DOMAIN g /\ g[a].kids = ids /\ View(g, a) = n
      /\ DOMAIN g = (DOMAIN h \ Range(h[a].kids)) \cup Range(ids)
      /\ \A x \in DOMAIN g : x # a /\ x \notin Range(ids) =>
            x \in DOMAIN h /\ x \notin Range(h[a].kids) /\ g[x] = h[x]
  BY DEF Turned, Written
<1>2. g[a].kids # <<>>
  BY TurnLeaves
<1>3. /\ \A x \in Range(h[a].kids) : \E i \in DOMAIN h[a].kids : x = h[a].kids[i]
      /\ \A x \in Range(ids) : \E i \in DOMAIN g[a].kids : x = g[a].kids[i]
  BY <1>1 DEF Range
<1>4. /\ \A i \in DOMAIN h[a].kids : h[a].kids[i] \in DOMAIN h
      /\ \A i \in DOMAIN g[a].kids : g[a].kids[i] \in DOMAIN g
  BY <1>1, HeapTypes
<1> DEFINE Near(z, e) == \/ e \in Range(z[a].ents)
                         \/ \E i \in DOMAIN z[a].kids : e \in Range(z[z[a].kids[i]].ents)
<1>5. \A e \in Entries(V) : Near(h, e) <=> Near(g, e)
  <2> SUFFICES ASSUME NEW e \in Entries(V) PROVE Near(h, e) <=> Near(g, e)
    OBVIOUS
  <2>1. (\E t \in Gaps(View(h, a)) : e = t[1] \/ e = t[3]) <=> Near(h, e)
    BY Entered
  <2>2. (\E t \in Gaps(View(g, a)) : e = t[1] \/ e = t[3]) <=> Near(g, e)
    BY <1>1, <1>2, Entered
  <2> HIDE DEF Near
  <2> QED  BY <2>1, <2>2, <1>1
<1>6. /\ \A e : Near(h, e) => e \in Stored(h)
      /\ \A e : Near(g, e) => e \in Stored(g)
  BY <1>1, <1>4 DEF Stored
<1>7. ASSUME NEW e \in Stored(h) PROVE e \in Stored(g)
  <2>1. e \in Entries(V)
    BY StoredTypes
  <2>2. PICK x \in DOMAIN h : e \in Range(h[x].ents)
    BY DEF Stored
  <2>3. CASE x = a \/ x \in Range(h[a].kids)
    <3>1. Near(h, e)
      BY <2>2, <2>3, <1>3
    <3> HIDE DEF Near
    <3> QED  BY <2>1, <3>1, <1>5, <1>6
  <2>4. CASE x # a /\ x \notin Range(h[a].kids)
    <3>1. x \in DOMAIN g
      BY <2>4, <1>1
    <3>2. x \notin Range(ids)
      BY <2>2, <2>4, NewKids
    <3> QED  BY <1>1, <2>2, <2>4, <3>1, <3>2 DEF Stored
  <2> QED  BY <2>3, <2>4
<1>8. ASSUME NEW e \in Stored(g) PROVE e \in Stored(h)
  <2>1. e \in Entries(V)
    BY <1>1, StoredTypes
  <2>2. PICK x \in DOMAIN g : e \in Range(g[x].ents)
    BY DEF Stored
  <2>3. CASE x = a \/ x \in Range(ids)
    <3>1. Near(g, e)
      BY <2>2, <2>3, <1>3
    <3> HIDE DEF Near
    <3> QED  BY <2>1, <3>1, <1>5, <1>6
  <2>4. CASE x # a /\ x \notin Range(ids)
    BY <1>1, <2>2, <2>4 DEF Stored
  <2> QED  BY <2>3, <2>4
<1> QED  BY <1>7, <1>8

Covers(w, v) == w.lo \in Int /\ w.hi \in Int /\ w.lo <= v.lo /\ v.hi <= w.hi

\* A child that holds what was below another has at least its range.
LEMMA TurnCovers ==
    ASSUME NEW V, NEW h, NEW r, NEW p, NEW f, Ordered(V, h, r, p, f), NEW a \in DOMAIN h,
           h[a].kids # <<>>, NEW g, NEW n, NEW ids, Turned(Entries(V), h, g, a, n, ids),
           Gaps(n) = Gaps(View(h, a)), NEW q, Tree(g, r, q),
           NEW i \in DOMAIN h[a].kids, NEW o \in DOMAIN ids,
           ChildGaps(View(h, a), i) \subseteq ChildGaps(n, o)
    PROVE  Covers(Relabel(g, q, f, a)[ids[o]], f[h[a].kids[i]])
<1>1. PICK e : e = Relabel(g, q, f, a)
  OBVIOUS
<1>2. Ordered(V, g, r, q, e) /\ e[a] = f[a]
  BY <1>1, TurnLabels
<1>3. /\ Heap(h, Entries(V)) /\ Tree(h, r, p) /\ Labels(h, r, f)
      /\ Heap(g, Entries(V)) /\ Labels(g, r, e) /\ a \in DOMAIN g /\ g[a].kids = ids /\ View(g, a) = n
  BY <1>2 DEF Ordered, Turned, Written
<1>4. g[a].kids # <<>>
  BY <1>3, TurnLeaves
<1>5. PICK x \in DOMAIN h, y \in DOMAIN g : x = h[a].kids[i] /\ y = ids[o]
  BY <1>3, HeapTypes
<1>6. PICK w \in Spans : w = f[a]
  BY <1>3 DEF Labels
<1>7. f[x] = Between(h[a].ents, i, w) /\ e[y] = Between(g[a].ents, o, w)
  BY <1>2, <1>3, <1>5, <1>6 DEF Labels
<1>8. PICK u \in Seq(Entries(V)), m \in Nat : u = h[x].ents /\ m = Len(u)
  BY <1>3, <1>5, HeapTypes
<1>9. PICK v \in Seq(Entries(V)), l \in Nat : v = g[y].ents /\ l = Len(v)
  BY <1>3, <1>5, HeapTypes
<1>10. e[y] \in Spans /\ Within(v, e[y]) /\ f[x] \in Spans
  BY <1>2, <1>3, <1>5, <1>9, Orders DEF Labels
<1>11. ASSUME NEW j \in 1 .. m + 1
       PROVE  \E d \in 1 .. l + 1 : Between(u, j, f[x]) = Between(v, d, e[y])
  <2>1. /\ Between(u, j, f[x]) = RangeAt(Gap(View(h, a), i, j), w)
        /\ Gap(View(h, a), i, j) \in ChildGaps(View(h, a), i)
    BY <1>3, <1>5, <1>7, <1>8, PlaceInMemory
  <2>2. PICK d \in Places(n, o) : Gap(View(h, a), i, j) = Gap(n, o, d)
    BY <2>1 DEF ChildGaps
  <2>3. n.kids[o] = g[y]
    BY <1>3, <1>5, Viewed
  <2>4. d \in 1 .. l + 1
    BY <2>2, <2>3, <1>9 DEF Places, Count
  <2>5. Between(v, d, e[y]) = RangeAt(Gap(n, o, d), w)
    BY <2>4, <1>3, <1>4, <1>5, <1>7, <1>9, PlaceInMemory
  <2> QED  BY <2>1, <2>2, <2>4, <2>5
<1>12. 1 \in 1 .. m + 1 /\ m + 1 \in 1 .. m + 1
  OBVIOUS
<1>13. PICK c \in 1 .. l + 1 : Between(u, 1, f[x]) = Between(v, c, e[y])
  BY <1>11, <1>12
<1>14. PICK d \in 1 .. l + 1 : Between(u, m + 1, f[x]) = Between(v, d, e[y])
  BY <1>11, <1>12
<1>15. Between(u, 1, f[x]).lo = f[x].lo /\ Between(u, m + 1, f[x]).hi = f[x].hi
  BY <1>8 DEF Between
<1>16. f[x].lo >= e[y].lo /\ f[x].hi <= e[y].hi
  <2>1. Between(v, c, e[y]).lo >= e[y].lo
    BY <1>9, <1>10, Wider
  <2>2. Between(v, d, e[y]).hi <= e[y].hi
    BY <1>9, <1>10, Wider
  <2> QED  BY <2>1, <2>2, <1>13, <1>14, <1>15
<1>17. Covers(e[y], f[x])
  BY <1>10, <1>16 DEF Covers, Spans
<1> QED  BY <1>1, <1>5, <1>17

\* btree_delete_node's refill and merge, and node_split_child, keep the order, and what is
\* stored; the deletion goes on with a child in whose range its key is.
LEMMA SplitOrder ==
    ASSUME Order, NEW V, NEW h, NEW r, NEW p, NEW f, Ordered(V, h, r, p, f),
           NEW a \in DOMAIN h, NEW i \in DOMAIN h[a].kids,
           Len(h[h[a].kids[i]].ents) = MaxKeys, NEW b \in Nat, b \notin DOMAIN h,
           NEW g, g = SplitAt(h, a, i, b)
    PROVE  /\ \E q : /\ Ordered(V, g, r, q, Relabel(g, q, f, a))
                     /\ Relabel(g, q, f, a)[a] = f[a]
           /\ Stored(g) = Stored(h)
<1>1. Heap(h, Entries(V)) /\ Tree(h, r, p)
  BY DEF Ordered
<1>2. h[a].kids # <<>>
  BY <1>1
<1>3. PICK n, ids : n = SplitChild(View(h, a), i) /\ ids = InsertAt(h[a].kids, i + 1, b)
  OBVIOUS
<1>4. Turned(Entries(V), h, g, a, n, ids)
  BY <1>1, <1>3, SplitTurns
<1>5. PICK S : S = Others(h, p, a)
  OBVIOUS
<1>6. PICK m : m = View(h, a)
  OBVIOUS
<1>7. /\ m \in Nodes(Entries(V), Nodes(Entries(V), S)) /\ Shaped(m)
      /\ i \in DOMAIN m.kids /\ m.kids[i] = h[h[a].kids[i]]
  BY <1>1, <1>2, <1>5, <1>6, TreeView
<1>8. Count(m.kids[i]) = MaxKeys
  BY <1>7 DEF Count
<1>9. Gaps(SplitChild(m, i)) = Gaps(m)
  BY <1>7, <1>8, SplitKeepsWalk
<1>10. Gaps(n) = Gaps(View(h, a))
  BY <1>3, <1>6, <1>9
<1>11. PICK q : Tree(g, r, q)
  BY <1>1, <1>4, TurnTree
<1>12. Ordered(V, g, r, q, Relabel(g, q, f, a)) /\ Relabel(g, q, f, a)[a] = f[a]
  BY <1>2, <1>4, <1>10, <1>11, TurnLabels
<1>13. Stored(g) = Stored(h)
  BY <1>1, <1>2, <1>4, <1>10, <1>11, TurnStored
<1> QED  BY <1>12, <1>13

LEMMA MergeOrder ==
    ASSUME NEW V, NEW h, NEW r, NEW p, NEW f, Ordered(V, h, r, p, f),
           NEW a \in DOMAIN h, h[a].kids # <<>>, NEW i \in 1 .. Len(h[a].ents),
           NEW g, g = MergeAt(h, a, i)
    PROVE  /\ \E q, e : /\ Ordered(V, g, r, q, e)
                        /\ h[a].kids[i] \in DOMAIN g /\ In(h[a].ents[i].key, e[h[a].kids[i]])
           /\ Stored(g) = Stored(h)
<1>1. Heap(h, Entries(V)) /\ Tree(h, r, p) /\ Labels(h, r, f)
  BY DEF Ordered
<1>2. PICK n, ids : n = Merge(View(h, a), i) /\ ids = RemoveAt(h[a].kids, i + 1)
  OBVIOUS
<1>3. Turned(Entries(V), h, g, a, n, ids)
  BY <1>1, <1>2, MergeTurns
<1>4. PICK S : S = Others(h, p, a)
  OBVIOUS
<1>5. PICK m : m = View(h, a)
  OBVIOUS
<1>6. m \in Nodes(Entries(V), Nodes(Entries(V), S)) /\ Shaped(m) /\ m.ents = h[a].ents
  BY <1>1, <1>4, <1>5, TreeView
<1>7. i \in 1 .. Count(m)
  BY <1>6 DEF Count
<1>8. Gaps(Merge(m, i)) = Gaps(m) /\ ChildGaps(Merge(m, i), i) = ChildGaps(m, i) \cup ChildGaps(m, i + 1)
  BY <1>6, <1>7, MergeKeepsWalk
<1>9. /\ Gaps(n) = Gaps(View(h, a))
      /\ ChildGaps(View(h, a), i) \subseteq ChildGaps(n, i)
      /\ ChildGaps(View(h, a), i + 1) \subseteq ChildGaps(n, i)
  BY <1>2, <1>5, <1>8
<1>10. PICK q : Tree(g, r, q)
  BY <1>1, <1>3, TurnTree
<1>11. PICK e : e = Relabel(g, q, f, a)
  OBVIOUS
<1>12. Ordered(V, g, r, q, e)
  BY <1>3, <1>9, <1>10, <1>11, TurnLabels
<1>13. Stored(g) = Stored(h)
  BY <1>1, <1>3, <1>9, <1>10, TurnStored
<1>14. PICK l \in Nat : l = Len(h[a].ents) /\ DOMAIN h[a].kids = 1 .. l + 1
  <2>1. Len(h[a].kids) = Len(h[a].ents) + 1
    BY <1>1, TreeTypes
  <2> QED  BY <2>1, <1>1, HeapTypes
<1>15. i \in DOMAIN h[a].kids /\ i + 1 \in DOMAIN h[a].kids
  BY <1>14
<1>16. PICK K \in Seq(DOMAIN h) : K = h[a].kids /\ Len(K) = l + 1
  BY <1>1, <1>14, HeapTypes, TreeTypes
<1>17. ids \in Seq(DOMAIN h) /\ Len(ids) = l /\ ids[i] = K[i]
  <2>1. i + 1 \in 1 .. Len(K) /\ ids = RemoveAt(K, i + 1) /\ i \in 1 .. (i + 1) - 1
    BY <1>2, <1>14, <1>16
  <2>2. /\ RemoveAt(K, i + 1) \in Seq(DOMAIN h) /\ Len(RemoveAt(K, i + 1)) = Len(K) - 1
        /\ \A j \in 1 .. (i + 1) - 1 : RemoveAt(K, i + 1)[j] = K[j]
    BY <2>1, Removed
  <2> QED  BY <2>1, <2>2, <1>16
<1>18. i \in DOMAIN ids /\ h[a].kids[i] \in DOMAIN g
  <2>1. i \in DOMAIN ids
    BY <1>14, <1>17
  <2> QED  BY <2>1, <1>3, <1>16, <1>17 DEF Turned, Written
<1>19. Covers(e[K[i]], f[h[a].kids[i]]) /\ Covers(e[K[i]], f[h[a].kids[i + 1]])
  <2>1. Covers(e[ids[i]], f[h[a].kids[i]])
    BY <1>3, <1>9, <1>10, <1>11, <1>15, <1>18, TurnCovers
  <2>2. Covers(e[ids[i]], f[h[a].kids[i + 1]])
    BY <1>3, <1>9, <1>10, <1>11, <1>15, <1>18, TurnCovers
  <2> QED  BY <2>1, <2>2, <1>17
<1>20. PICK k : k = h[a].ents[i].key
  OBVIOUS
<1>21. k \in Nat
  <2>1. PICK s \in Seq(Entries(V)) : s = h[a].ents
    BY <1>1, HeapTypes
  <2> QED  BY <2>1, <1>20, KeysAre
<1>22. f[h[a].kids[i]].hi = k /\ f[h[a].kids[i + 1]].lo = k
  <2>1. /\ f[h[a].kids[i]] = Between(h[a].ents, i, f[a])
        /\ f[h[a].kids[i + 1]] = Between(h[a].ents, i + 1, f[a])
    BY <1>1, <1>15 DEF Labels
  <2>2. i <= Len(h[a].ents) /\ i + 1 > 1 /\ (i + 1) - 1 = i
    BY <1>14
  <2> QED  BY <2>1, <2>2, <1>20 DEF Between
<1>23. PICK v \in Spans, w \in Spans : /\ v = f[h[a].kids[i]] /\ w = f[h[a].kids[i + 1]]
                                       /\ Strict(v) /\ Strict(w)
  BY <1>1, <1>15, HeapTypes, Orders DEF Within
<1>24. In(k, e[K[i]])
  BY SMTT(40), <1>19, <1>21, <1>22, <1>23 DEF Covers, Strict, In, Spans
<1> QED  BY <1>12, <1>13, <1>16, <1>18, <1>20, <1>24

LEMMA RefillOrder ==
    ASSUME Order, NEW V, NEW h, NEW r, NEW p, NEW f, Ordered(V, h, r, p, f),
           NEW a \in DOMAIN h, NEW i \in DOMAIN h[a].kids,
           Len(h[a].ents) >= 1 \/ Len(h[h[a].kids[i]].ents) # MinKeys,
           NEW k \in Int, In(k, f[h[a].kids[i]]), NEW g, g = RefillAt(h, a, i),
           NEW c, c = RefillIds(h, a, i)[Refill(View(h, a), i).at]
    PROVE  /\ \E q, e : Ordered(V, g, r, q, e) /\ c \in DOMAIN g /\ In(k, e[c])
           /\ Stored(g) = Stored(h)
<1>1. Heap(h, Entries(V)) /\ Tree(h, r, p) /\ Labels(h, r, f)
  BY DEF Ordered
<1>2. PICK n, o, ids : /\ n = Refill(View(h, a), i).node /\ o = Refill(View(h, a), i).at
                       /\ ids = RefillIds(h, a, i)
  OBVIOUS
<1>3. Turned(Entries(V), h, g, a, n, ids) /\ o \in DOMAIN ids
  BY <1>1, <1>2, RefillTurns
<1>4. PICK S : S = Others(h, p, a)
  OBVIOUS
<1>5. PICK m : m = View(h, a)
  OBVIOUS
<1>6. h[a].kids # <<>>
  BY <1>1
<1>7. /\ m \in Nodes(Entries(V), Nodes(Entries(V), S)) /\ Shaped(m) /\ m.ents = h[a].ents
      /\ i \in DOMAIN m.kids /\ m.kids[i] = h[h[a].kids[i]]
  BY <1>1, <1>4, <1>5, <1>6, TreeView
<1>8. Gaps(Refill(m, i).node) = Gaps(m) /\ ChildGaps(m, i) \subseteq ChildGaps(Refill(m, i).node, Refill(m, i).at)
  <2>1. CASE Len(h[a].ents) >= 1
    <3>1. Count(m) >= 1
      BY <2>1, <1>7 DEF Count
    <3> QED  BY <3>1, <1>7, RefillKeepsWalk
  <2>2. CASE Len(h[h[a].kids[i]].ents) # MinKeys
    <3>1. Count(m.kids[i]) # MinKeys
      BY <2>2, <1>7 DEF Count
    <3>2. Refill(m, i) = [node |-> m, at |-> i]
      BY <3>1 DEF Refill
    <3> QED  BY <3>2
  <2> QED  BY <2>1, <2>2
<1>9. /\ Gaps(n) = Gaps(View(h, a))
      /\ ChildGaps(View(h, a), i) \subseteq ChildGaps(n, o)
  BY <1>2, <1>5, <1>8
<1>10. PICK q : Tree(g, r, q)
  BY <1>1, <1>3, TurnTree
<1>11. PICK e : e = Relabel(g, q, f, a)
  OBVIOUS
<1>12. Ordered(V, g, r, q, e)
  BY <1>3, <1>6, <1>9, <1>10, <1>11, TurnLabels
<1>13. Stored(g) = Stored(h)
  BY <1>1, <1>3, <1>6, <1>9, <1>10, TurnStored
<1>14. Covers(e[c], f[h[a].kids[i]])
  BY <1>2, <1>3, <1>6, <1>9, <1>10, <1>11, TurnCovers
<1>15. PICK w \in Spans : w = f[h[a].kids[i]]
  BY <1>1, HeapTypes DEF Labels
<1>16. In(k, e[c])
  BY <1>14, <1>15 DEF Covers, In, Spans
<1>17. c \in DOMAIN g
  BY <1>2, <1>3 DEF Turned, Written
<1> QED  BY <1>12, <1>13, <1>16, <1>17

-----------------------------------------------------------------------------
(* Changes in a leaf, and above the root                                     *)

\* What is stored when the entries of one node are written over.
Elsewhere(h, a) == UNION {Range(h[x].ents) : x \in DOMAIN h \ {a}}

LEMMA NewStored ==
    ASSUME NEW E, NEW h, Heap(h, E), NEW a \in DOMAIN h, NEW s, NEW g, OtherEnts(h, g, a, s)
    PROVE  /\ Stored(h) = Range(h[a].ents) \cup Elsewhere(h, a)
           /\ Stored(g) = Range(s) \cup Elsewhere(h, a)
<1>1. DOMAIN g = DOMAIN h /\ g[a].ents = s /\ \A x \in DOMAIN h : x # a => g[x] = h[x]
  BY DEF OtherEnts
<1>2. Stored(h) = Range(h[a].ents) \cup Elsewhere(h, a)
  BY DEF Stored, Elsewhere
<1>3. \A e : e \in Stored(g) <=> e \in Range(s) \/ \E x \in DOMAIN h \ {a} : e \in Range(h[x].ents)
  BY <1>1 DEF Stored
<1>4. Stored(g) = Range(s) \cup Elsewhere(h, a)
  BY <1>3 DEF Elsewhere
<1> QED  BY <1>2, <1>4

\* A leaf is written over with entries that are in order and in its range.
LEMMA LeafOrder ==
    ASSUME NEW V, NEW h, NEW r, NEW p, NEW f, Ordered(V, h, r, p, f),
           NEW a \in DOMAIN h, h[a].kids = <<>>, NEW s \in Seq(Entries(V)),
           \A i \in 1 .. Len(s) + 1 : Strict(Between(s, i, f[a])),
           NEW g, NewEnts(h, g, a, s)
    PROVE  Ordered(V, g, r, p, f) /\ OtherEnts(h, g, a, s)
<1>1. Heap(h, Entries(V)) /\ Tree(h, r, p) /\ Labels(h, r, f) /\ Ascends(h, f)
  BY DEF Ordered
<1>2. Heap(g, Entries(V)) /\ Tree(g, r, p) /\ OtherEnts(h, g, a, s)
  BY <1>1, EntriesTree
<1>3. /\ DOMAIN g = DOMAIN h /\ g[a].ents = s /\ g[a].kids = <<>>
      /\ \A x \in DOMAIN h : g[x].kids = h[x].kids /\ (x # a => g[x] = h[x])
  BY <1>2 DEF OtherEnts
<1>4. ASSUME NEW x \in DOMAIN g, NEW i \in DOMAIN g[x].kids
      PROVE  f[g[x].kids[i]] = Between(g[x].ents, i, f[x])
  <2>1. x # a
    BY <1>3
  <2> QED  BY <2>1, <1>1, <1>3 DEF Labels
<1>5. Labels(g, r, f)
  BY <1>1, <1>3, <1>4 DEF Labels
<1>6. Ascends(g, f)
  BY <1>1, <1>3 DEF Ascends
<1> QED  BY <1>2, <1>5, <1>6 DEF Ordered

\* A node is written over with other values under the same keys.
LEMMA ValueOrder ==
    ASSUME NEW V, NEW h, NEW r, NEW p, NEW f, Ordered(V, h, r, p, f),
           NEW a \in DOMAIN h, NEW s \in Seq(Entries(V)), Len(s) = Len(h[a].ents),
           \A i \in 1 .. Len(s) : s[i].key = h[a].ents[i].key,
           NEW g, NewEnts(h, g, a, s)
    PROVE  Ordered(V, g, r, p, f) /\ OtherEnts(h, g, a, s)
<1>1. Heap(h, Entries(V)) /\ Tree(h, r, p) /\ Labels(h, r, f) /\ Ascends(h, f)
  BY DEF Ordered
<1>2. Heap(g, Entries(V)) /\ Tree(g, r, p) /\ OtherEnts(h, g, a, s)
  BY <1>1, EntriesTree
<1>3. /\ DOMAIN g = DOMAIN h /\ g[a].ents = s
      /\ \A x \in DOMAIN h : g[x].kids = h[x].kids /\ (x # a => g[x] = h[x])
  BY <1>2 DEF OtherEnts
<1>4. ASSUME NEW i \in Int, 1 <= i, i <= Len(s) + 1, NEW w PROVE Between(s, i, w) = Between(h[a].ents, i, w)
  <2>1. Len(s) \in Nat
    BY KeysAre
  <2>2. (i > 1 => i - 1 \in 1 .. Len(s)) /\ (i <= Len(s) => i \in 1 .. Len(s))
    BY <2>1, <1>4
  <2> QED  BY <2>2 DEF Between
<1>5. ASSUME NEW x \in DOMAIN g, NEW i \in DOMAIN g[x].kids
      PROVE  f[g[x].kids[i]] = Between(g[x].ents, i, f[x])
  <2>1. i \in DOMAIN h[x].kids
    BY <1>3
  <2>2. f[h[x].kids[i]] = Between(h[x].ents, i, f[x])
    BY <2>1, <1>1, <1>3 DEF Labels
  <2>3. CASE x = a
    <3>1. h[a].kids # <<>>
      BY <2>1, <2>3
    <3>2. Len(h[a].kids) = Len(h[a].ents) + 1
      BY <1>1, <3>1, TreeTypes
    <3>3. i \in 1 .. Len(s) + 1
      BY <1>1, <2>1, <2>3, <3>2, HeapTypes
    <3>4. i \in Int /\ 1 <= i /\ i <= Len(s) + 1
      BY <3>3
    <3>5. Between(s, i, f[x]) = Between(h[a].ents, i, f[x])
      BY <3>4, <1>4
    <3> QED  BY <2>2, <2>3, <3>5, <1>3
  <2>4. CASE x # a
    BY <2>2, <2>4, <1>3
  <2> QED  BY <2>3, <2>4
<1>6. Labels(g, r, f)
  BY <1>1, <1>3, <1>5 DEF Labels
<1>7. ASSUME NEW x \in DOMAIN g, g[x].kids = <<>>, NEW i \in 1 .. Len(g[x].ents) + 1
      PROVE  Strict(Between(g[x].ents, i, f[x]))
  <2>1. CASE x = a
    <3>1. i \in Int /\ 1 <= i /\ i <= Len(s) + 1
      BY <2>1, <1>3
    <3>2. Between(s, i, f[a]) = Between(h[a].ents, i, f[a])
      BY <3>1, <1>4
    <3> QED  BY <2>1, <3>2, <1>1, <1>3, <1>7 DEF Ascends
  <2>2. CASE x # a
    BY <2>2, <1>1, <1>3, <1>7 DEF Ascends
  <2> QED  BY <2>1, <2>2
<1>8. Ascends(g, f)
  BY <1>7 DEF Ascends
<1> QED  BY <1>2, <1>6, <1>8 DEF Ordered

LEMMA InsertOrder ==
    ASSUME NEW V, NEW h, NEW r, NEW p, NEW f, Ordered(V, h, r, p, f),
           NEW a \in DOMAIN h, h[a].kids = <<>>, NEW c \in 1 .. Len(h[a].ents) + 1,
           NEW e \in Entries(V), In(e.key, Between(h[a].ents, c, f[a])),
           NEW g, NewEnts(h, g, a, InsertAt(h[a].ents, c, e))
    PROVE  Ordered(V, g, r, p, f) /\ Stored(g) = Stored(h) \cup {e}
<1>1. Heap(h, Entries(V)) /\ Labels(h, r, f) /\ Ascends(h, f)
  BY DEF Ordered
<1>2. PICK s \in Seq(Entries(V)) : s = h[a].ents
  BY <1>1, HeapTypes
<1>3. PICK t : t = InsertAt(s, c, e)
  OBVIOUS
<1>4. f[a] \in Spans /\ \A i \in 1 .. Len(s) + 1 : Strict(Between(s, i, f[a]))
  BY <1>1, <1>2 DEF Labels, Ascends
<1>5. /\ t \in Seq(Entries(V)) /\ Len(t) = Len(s) + 1
      /\ \A i \in 1 .. Len(t) + 1 : Strict(Between(t, i, f[a]))
  BY <1>2, <1>3, <1>4, InsertGaps
<1>6. Ordered(V, g, r, p, f) /\ OtherEnts(h, g, a, t)
  BY <1>2, <1>3, <1>5, LeafOrder
<1>7. Stored(h) = Range(s) \cup Elsewhere(h, a) /\ Stored(g) = Range(t) \cup Elsewhere(h, a)
  BY <1>1, <1>2, <1>6, NewStored
<1>8. PICK n \in Nat : n = Len(s) /\ DOMAIN s = 1 .. n /\ DOMAIN t = 1 .. n + 1 /\ c \in 1 .. n + 1
  BY <1>2, <1>5, KeysAre
<1>9. /\ \A j \in 1 .. c - 1 : t[j] = s[j]
      /\ t[c] = e
      /\ \A j \in c .. n : t[j + 1] = s[j]
  BY <1>2, <1>3, <1>8, Inserted
<1>10. ASSUME NEW j \in 1 .. n + 1 PROVE t[j] = e \/ \E i \in 1 .. n : t[j] = s[i]
  <2>1. CASE j < c
    BY <2>1, <1>8, <1>9
  <2>2. CASE j > c
    <3>1. j - 1 \in c .. n /\ j - 1 \in 1 .. n /\ (j - 1) + 1 = j
      BY <2>2, <1>8
    <3> QED  BY <3>1, <1>9
  <2> QED  BY <2>1, <2>2, <1>8, <1>9
<1>11. ASSUME NEW i \in 1 .. n PROVE \E j \in 1 .. n + 1 : t[j] = s[i]
  <2>1. i \in 1 .. n + 1 /\ i + 1 \in 1 .. n + 1
    OBVIOUS
  <2> QED  BY <2>1, <1>8, <1>9
<1>12. /\ \A x \in Range(t) : \E j \in 1 .. n + 1 : x = t[j]
       /\ \A x \in Range(s) : \E j \in 1 .. n : x = s[j]
       /\ \A j \in 1 .. n + 1 : t[j] \in Range(t)
       /\ \A j \in 1 .. n : s[j] \in Range(s)
  BY <1>8 DEF Range
<1>13. Range(t) = Range(s) \cup {e}
  <2>1. e \in Range(t)
    BY <1>8, <1>9, <1>12
  <2>2. \A x \in Range(t) : x \in Range(s) \cup {e}
    BY <1>10, <1>12
  <2>3. \A x \in Range(s) : x \in Range(t)
    BY <1>11, <1>12
  <2> QED  BY <2>1, <2>2, <2>3
<1> QED  BY <1>6, <1>7, <1>13

LEMMA RemoveOrder ==
    ASSUME NEW V, NEW h, NEW r, NEW p, NEW f, Ordered(V, h, r, p, f),
           NEW a \in DOMAIN h, h[a].kids = <<>>, NEW c \in DOMAIN h[a].ents,
           NEW g, NewEnts(h, g, a, RemoveAt(h[a].ents, c))
    PROVE  Ordered(V, g, r, p, f) /\ Stored(g) = Stored(h) \ {h[a].ents[c]}
<1>1. Heap(h, Entries(V)) /\ Labels(h, r, f) /\ Ascends(h, f)
  BY DEF Ordered
<1>2. PICK s \in Seq(Entries(V)) : s = h[a].ents
  BY <1>1, HeapTypes
<1>3. PICK t : t = RemoveAt(s, c)
  OBVIOUS
<1>4. f[a] \in Spans /\ \A i \in 1 .. Len(s) + 1 : Strict(Between(s, i, f[a]))
  BY <1>1, <1>2 DEF Labels, Ascends
<1>5. PICK n \in Nat : n = Len(s) /\ DOMAIN s = 1 .. n /\ c \in 1 .. n
  BY <1>2, KeysAre
<1>6. /\ t \in Seq(Entries(V)) /\ Len(t) = n - 1
      /\ \A i \in 1 .. Len(t) + 1 : Strict(Between(t, i, f[a]))
  BY <1>3, <1>4, <1>5, RemoveGaps
<1>7. Ordered(V, g, r, p, f) /\ OtherEnts(h, g, a, t)
  BY <1>2, <1>3, <1>6, LeafOrder
<1>8. Stored(h) = Range(s) \cup Elsewhere(h, a) /\ Stored(g) = Range(t) \cup Elsewhere(h, a)
  BY <1>1, <1>2, <1>7, NewStored
<1>9. /\ \A j \in 1 .. c - 1 : t[j] = s[j]
      /\ \A j \in c + 1 .. n : t[j - 1] = s[j]
      /\ DOMAIN t = 1 .. n - 1
  BY <1>3, <1>5, <1>6, Removed, KeysAre
<1>10. ASSUME NEW j \in 1 .. n - 1 PROVE \E i \in 1 .. n : i # c /\ t[j] = s[i]
  <2>1. CASE j < c
    BY <2>1, <1>5, <1>9
  <2>2. CASE j >= c
    <3>1. j + 1 \in c + 1 .. n /\ j + 1 \in 1 .. n /\ (j + 1) - 1 = j /\ j + 1 # c
      BY <2>2, <1>5
    <3> QED  BY <3>1, <1>9
  <2> QED  BY <2>1, <2>2, <1>5
<1>11. ASSUME NEW i \in 1 .. n, i # c PROVE \E j \in 1 .. n - 1 : t[j] = s[i]
  <2>1. CASE i < c
    <3>1. i \in 1 .. c - 1 /\ i \in 1 .. n - 1
      BY <2>1, <1>5
    <3> QED  BY <3>1, <1>9
  <2>2. CASE i > c
    <3>1. i \in c + 1 .. n /\ i - 1 \in 1 .. n - 1
      BY <2>2, <1>5
    <3> QED  BY <3>1, <1>9
  <2> QED  BY <2>1, <2>2, <1>5, <1>11
<1>12. ASSUME NEW b \in DOMAIN h, NEW i \in DOMAIN h[b].ents, h[b].ents[i] = s[c]
       PROVE  b = a /\ i = c
  <2>1. h[b].ents[i].key = h[a].ents[c].key
    BY <1>2, <1>12
  <2> QED  BY <2>1, Unique
<1>13. s[c] \notin Elsewhere(h, a)
  <2>1. ASSUME NEW b \in DOMAIN h \ {a}, s[c] \in Range(h[b].ents) PROVE FALSE
    <3>1. PICK i \in DOMAIN h[b].ents : h[b].ents[i] = s[c]
      BY <2>1 DEF Range
    <3> QED  BY <3>1, <1>12
  <2> QED  BY <2>1 DEF Elsewhere
<1>14. /\ \A x \in Range(t) : \E j \in 1 .. n - 1 : x = t[j]
       /\ \A x \in Range(s) : \E j \in 1 .. n : x = s[j]
       /\ \A j \in 1 .. n - 1 : t[j] \in Range(t)
       /\ \A j \in 1 .. n : s[j] \in Range(s)
  BY <1>5, <1>9 DEF Range
<1>15. Range(t) = Range(s) \ {s[c]}
  <2>1. ASSUME NEW x \in Range(t) PROVE x \in Range(s) /\ x # s[c]
    <3>1. PICK i \in 1 .. n : i # c /\ x = s[i]
      BY <1>10, <1>14
    <3>2. i \in DOMAIN h[a].ents
      BY <1>2, <1>5
    <3>3. x # s[c]
      BY <3>1, <3>2, <1>2, <1>12
    <3> QED  BY <3>1, <3>3, <1>14
  <2>2. ASSUME NEW x \in Range(s), x # s[c] PROVE x \in Range(t)
    BY <2>2, <1>11, <1>14
  <2> QED  BY <2>1, <2>2
<1> QED  BY <1>2, <1>7, <1>8, <1>13, <1>15

Revalued(h, g, a, c, v) == g = [h EXCEPT ![a].ents[c].val = v]

LEMMA UpdateOrder ==
    ASSUME NEW V, NEW h, NEW r, NEW p, NEW f, Ordered(V, h, r, p, f),
           NEW a \in DOMAIN h, NEW c \in DOMAIN h[a].ents, NEW v \in V,
           NEW g, Revalued(h, g, a, c, v)
    PROVE  /\ Ordered(V, g, r, p, f)
           /\ Stored(g) = (Stored(h) \ {h[a].ents[c]}) \cup {Entry(h[a].ents[c].key, v)}
<1>1. Heap(h, Entries(V))
  BY DEF Ordered
<1>2. PICK s \in Seq(Entries(V)) : s = h[a].ents
  BY <1>1, HeapTypes
<1>3. PICK t : t = [s EXCEPT ![c].val = v]
  OBVIOUS
<1>4. PICK n \in Nat : n = Len(s) /\ DOMAIN s = 1 .. n /\ c \in 1 .. n /\ \A j \in 1 .. n : s[j] \in Entries(V)
  BY <1>2, KeysAre
<1>5. t \in Seq(Entries(V)) /\ Len(t) = n
  BY <1>3, <1>4, NewValue
<1>6. DOMAIN t = 1 .. n /\ \A i \in 1 .. n : t[i] = IF i = c THEN Entry(s[c].key, v) ELSE s[i]
  <2>1. [s[c] EXCEPT !.val = v] = Entry(s[c].key, v)
    BY <1>4 DEF Entry, Entries
  <2>2. DOMAIN t = 1 .. n /\ \A i \in 1 .. n : t[i] = IF i = c THEN [s[c] EXCEPT !.val = v] ELSE s[i]
    BY <1>3, <1>4
  <2> QED  BY <2>1, <2>2
<1>7. Entry(s[c].key, v).key = s[c].key
  BY DEF Entry
<1>8. \A i \in 1 .. Len(t) : t[i].key = h[a].ents[i].key
  BY <1>2, <1>5, <1>6, <1>7
<1>9. NewEnts(h, g, a, t)
  <2>1. g = [h EXCEPT ![a].ents = t]
    BY <1>2, <1>3 DEF Revalued
  <2> QED  BY <2>1 DEF NewEnts
<1>10. Ordered(V, g, r, p, f) /\ OtherEnts(h, g, a, t)
  <2>1. Len(t) = Len(h[a].ents)
    BY <1>2, <1>4, <1>5
  <2> QED  BY <2>1, <1>5, <1>8, <1>9, ValueOrder
<1>11. Stored(h) = Range(s) \cup Elsewhere(h, a) /\ Stored(g) = Range(t) \cup Elsewhere(h, a)
  BY <1>1, <1>2, <1>10, NewStored
<1>12. ASSUME NEW b \in DOMAIN h, NEW i \in DOMAIN h[b].ents, h[b].ents[i] = s[c]
       PROVE  b = a /\ i = c
  <2>1. h[b].ents[i].key = h[a].ents[c].key
    BY <1>2, <1>12
  <2> QED  BY <2>1, Unique
<1>13. s[c] \notin Elsewhere(h, a)
  <2>1. ASSUME NEW b \in DOMAIN h \ {a}, s[c] \in Range(h[b].ents) PROVE FALSE
    <3>1. PICK i \in DOMAIN h[b].ents : h[b].ents[i] = s[c]
      BY <2>1 DEF Range
    <3> QED  BY <3>1, <1>12
  <2> QED  BY <2>1 DEF Elsewhere
<1>14. /\ \A x \in Range(t) : \E j \in 1 .. n : x = t[j]
       /\ \A x \in Range(s) : \E j \in 1 .. n : x = s[j]
       /\ \A j \in 1 .. n : t[j] \in Range(t)
       /\ \A j \in 1 .. n : s[j] \in Range(s)
  BY <1>4, <1>6 DEF Range
<1>15. Range(t) = (Range(s) \ {s[c]}) \cup {Entry(s[c].key, v)}
  <2>1. ASSUME NEW x \in Range(t), x # Entry(s[c].key, v) PROVE x \in Range(s) /\ x # s[c]
    <3>1. PICK i \in 1 .. n : i # c /\ x = s[i]
      BY <2>1, <1>6, <1>14
    <3>2. i \in DOMAIN h[a].ents
      BY <1>2, <1>4
    <3>3. x # s[c]
      BY <3>1, <3>2, <1>2, <1>12
    <3> QED  BY <3>1, <3>3, <1>14
  <2>2. ASSUME NEW x \in Range(s), x # s[c] PROVE x \in Range(t)
    BY <2>2, <1>6, <1>14
  <2>3. Entry(s[c].key, v) \in Range(t)
    BY <1>4, <1>6, <1>14
  <2> QED  BY <2>1, <2>2, <2>3
<1> QED  BY <1>2, <1>10, <1>11, <1>13, <1>15

\* The range of the whole tree.
LEMMA WholeIs == Whole \in Spans /\ Strict(Whole) /\ Between(<<>>, 1, Whole) = Whole
<1>1. UIntMax \in Nat
  BY DEF UIntMax
<1>2. Whole \in Spans /\ Whole.lo = -1 /\ Whole.hi = UIntMax + 1
  BY <1>1 DEF Whole, Spans
<1>3. Strict(Whole)
  BY <1>1, <1>2 DEF Strict
<1>4. Between(<<>>, 1, Whole) = Whole
  BY DEF Between, Whole
<1> QED  BY <1>2, <1>3, <1>4

LEMMA GrowOrder ==
    ASSUME NEW V, NEW h, NEW r, NEW p, NEW f, Ordered(V, h, r, p, f),
           NEW b \in Nat, b \notin DOMAIN h, NEW g, Raised(h, g, r, b)
    PROVE  (\E q, e : Ordered(V, g, b, q, e)) /\ Stored(g) = Stored(h)
<1>1. Heap(h, Entries(V)) /\ Tree(h, r, p) /\ Labels(h, r, f) /\ Ascends(h, f)
  BY DEF Ordered
<1>2. PICK q : q = GrownPlaces(h, r, p, b)
  OBVIOUS
<1>3. /\ Heap(g, Entries(V)) /\ Tree(g, b, q)
      /\ DOMAIN g = DOMAIN h \cup {b} /\ g[b].ents = <<>> /\ g[b].kids = <<r>>
      /\ \A x \in DOMAIN h : g[x] = h[x]
  <2>1. RaisedIs(Entries(V), h, g, r, p, b)
    BY <1>1, GrowTree
  <2> QED  BY <2>1, <1>2 DEF RaisedIs
<1> DEFINE e == [x \in DOMAIN g |-> IF x = b THEN Whole ELSE f[x]]
<1>4. e \in [DOMAIN g -> Spans] /\ e[b] = Whole /\ \A x \in DOMAIN h : e[x] = f[x]
  <2>1. \A x \in DOMAIN g : (IF x = b THEN Whole ELSE f[x]) \in Spans
    BY <1>1, <1>3, WholeIs DEF Labels
  <2> QED  BY <2>1, <1>3
<1> HIDE DEF e
<1>5. ASSUME NEW x \in DOMAIN g, NEW i \in DOMAIN g[x].kids
      PROVE  e[g[x].kids[i]] = Between(g[x].ents, i, e[x])
  <2>1. CASE x = b
    <3>1. i = 1 /\ g[x].kids[i] = r
      BY <2>1, <1>3
    <3>2. e[r] = Whole
      BY <1>1, <1>4 DEF Labels, Tree
    <3> QED  BY <2>1, <3>1, <3>2, <1>3, <1>4, WholeIs
  <2>2. CASE x # b
    <3>1. x \in DOMAIN h /\ g[x] = h[x] /\ e[x] = f[x]
      BY <2>2, <1>3, <1>4
    <3>2. h[x].kids[i] \in DOMAIN h
      BY <3>1, <1>1, HeapTypes
    <3>3. f[h[x].kids[i]] = Between(h[x].ents, i, f[x])
      BY <3>1, <1>1 DEF Labels
    <3> QED  BY <3>1, <3>2, <3>3, <1>4
  <2> QED  BY <2>1, <2>2
<1>6. Labels(g, b, e)
  BY <1>4, <1>5 DEF Labels
<1>7. Ascends(g, e)
  <2>1. g[b].kids # <<>>
    BY <1>3
  <2> QED  BY <2>1, <1>1, <1>3, <1>4 DEF Ascends
<1>8. Ordered(V, g, b, q, e)
  BY <1>3, <1>6, <1>7 DEF Ordered
<1>9. Stored(g) = Stored(h)
  <2>1. Range(g[b].ents) = {}
    BY <1>3 DEF Range
  <2> QED  BY <2>1, <1>3 DEF Stored
<1> QED  BY <1>8, <1>9

LEMMA ShrinkOrder ==
    ASSUME NEW V, NEW h, NEW r, NEW p, NEW f, Ordered(V, h, r, p, f),
           h[r].ents = <<>>, h[r].kids # <<>>, NEW g, Lowered(h, g, r)
    PROVE  (\E q, e : Ordered(V, g, h[r].kids[1], q, e)) /\ Stored(g) = Stored(h)
<1>1. Heap(h, Entries(V)) /\ Tree(h, r, p) /\ Labels(h, r, f) /\ Ascends(h, f)
  BY DEF Ordered
<1>2. PICK q : q = ShrunkPlaces(h, r, p)
  OBVIOUS
<1>3. PICK c : c = h[r].kids[1]
  OBVIOUS
<1>4. /\ Heap(g, Entries(V)) /\ Tree(g, c, q)
      /\ DOMAIN g = DOMAIN h \ {r} /\ \A x \in DOMAIN g : g[x] = h[x]
      /\ c \in DOMAIN h /\ c # r
  <2>1. LoweredIs(Entries(V), h, g, r, p)
    BY <1>1, ShrinkTree
  <2> QED  BY <2>1, <1>2, <1>3 DEF LoweredIs
<1> DEFINE e == [x \in DOMAIN g |-> f[x]]
<1>5. e \in [DOMAIN g -> Spans] /\ \A x \in DOMAIN g : e[x] = f[x]
  BY <1>1, <1>4 DEF Labels
<1> HIDE DEF e
<1>6. e[c] = Whole
  <2>1. r \in DOMAIN h /\ 1 \in DOMAIN h[r].kids
    <3>1. r \in DOMAIN h
      BY <1>1 DEF Tree
    <3>2. Len(h[r].kids) \in Nat /\ DOMAIN h[r].kids = 1 .. Len(h[r].kids)
          /\ (h[r].kids = <<>> <=> Len(h[r].kids) = 0)
      BY <1>1, <3>1, HeapTypes
    <3> QED  BY <3>1, <3>2
  <2>2. f[c] = Between(<<>>, 1, Whole)
    BY <2>1, <1>1, <1>3 DEF Labels
  <2> QED  BY <2>2, <1>4, <1>5, WholeIs
<1>7. ASSUME NEW x \in DOMAIN g, NEW i \in DOMAIN g[x].kids
      PROVE  e[g[x].kids[i]] = Between(g[x].ents, i, e[x])
  <2>1. x \in DOMAIN h /\ g[x] = h[x] /\ e[x] = f[x]
    BY <1>4, <1>5
  <2>2. g[x].kids[i] \in DOMAIN g
    BY <1>4, HeapTypes
  <2>3. f[h[x].kids[i]] = Between(h[x].ents, i, f[x])
    BY <2>1, <1>1 DEF Labels
  <2> QED  BY <2>1, <2>2, <2>3, <1>5
<1>8. Labels(g, c, e)
  BY <1>5, <1>6, <1>7 DEF Labels
<1>9. Ascends(g, e)
  BY <1>1, <1>4, <1>5 DEF Ascends
<1>10. Ordered(V, g, c, q, e)
  BY <1>4, <1>8, <1>9 DEF Ordered
<1>11. Stored(g) = Stored(h)
  <2>1. Range(h[r].ents) = {}
    BY DEF Range
  <2> QED  BY <2>1, <1>4 DEF Stored
<1> QED  BY <1>3, <1>10, <1>11

LEMMA OneOrder ==
    ASSUME NEW V, NEW a \in Nat, NEW h, h = [x \in {a} |-> Leaf]
    PROVE  (\E p, f : Ordered(V, h, a, p, f)) /\ Stored(h) = {}
<1>1. PICK p : Heap(h, Entries(V)) /\ Tree(h, a, p)
  BY OneNode
<1>2. DOMAIN h = {a} /\ h[a].ents = <<>> /\ h[a].kids = <<>>
  BY DEF Leaf
<1> DEFINE f == [x \in {a} |-> Whole]
<1>3. f \in [DOMAIN h -> Spans] /\ f[a] = Whole
  BY <1>2, WholeIs
<1> HIDE DEF f
<1>4. Labels(h, a, f)
  BY <1>2, <1>3 DEF Labels
<1>5. Ascends(h, f)
  <2>1. \A i \in 1 .. Len(<<>>) + 1 : i = 1
    OBVIOUS
  <2> QED  BY <2>1, <1>2, <1>3, WholeIs DEF Ascends
<1>6. Ordered(V, h, a, p, f)
  BY <1>1, <1>4, <1>5 DEF Ordered
<1>7. Stored(h) = {}
  BY <1>2 DEF Stored, Range
<1> QED  BY <1>6, <1>7

\* An entry taken out of a leaf may still be elsewhere.
LEMMA RemoveRange ==
    ASSUME NEW E, NEW s \in Seq(E), NEW c \in 1 .. Len(s)
    PROVE  Range(RemoveAt(s, c)) \cup {s[c]} = Range(s)
<1>1. PICK n \in Nat : n = Len(s) /\ DOMAIN s = 1 .. n /\ c \in 1 .. n
  OBVIOUS
<1>2. PICK t : t = RemoveAt(s, c)
  OBVIOUS
<1>3. /\ \A j \in 1 .. c - 1 : t[j] = s[j]
      /\ \A j \in c + 1 .. n : t[j - 1] = s[j]
      /\ t \in Seq(E) /\ Len(t) = n - 1
  BY <1>1, <1>2, Removed
<1>4. DOMAIN t = 1 .. n - 1
  BY <1>3
<1>5. ASSUME NEW j \in 1 .. n - 1 PROVE \E i \in 1 .. n : t[j] = s[i]
  <2>1. CASE j < c
    BY <2>1, <1>1, <1>3
  <2>2. CASE j >= c
    <3>1. j + 1 \in c + 1 .. n /\ j + 1 \in 1 .. n /\ (j + 1) - 1 = j
      BY <2>2, <1>1
    <3> QED  BY <3>1, <1>3
  <2> QED  BY <2>1, <2>2, <1>1
<1>6. ASSUME NEW i \in 1 .. n, i # c PROVE \E j \in 1 .. n - 1 : t[j] = s[i]
  <2>1. CASE i < c
    <3>1. i \in 1 .. c - 1 /\ i \in 1 .. n - 1
      BY <2>1, <1>1
    <3> QED  BY <3>1, <1>3
  <2>2. CASE i > c
    <3>1. i \in c + 1 .. n /\ i - 1 \in 1 .. n - 1
      BY <2>2, <1>1
    <3> QED  BY <3>1, <1>3
  <2> QED  BY <2>1, <2>2, <1>1, <1>6
<1>7. /\ \A x \in Range(t) : \E j \in 1 .. n - 1 : x = t[j]
      /\ \A x \in Range(s) : \E j \in 1 .. n : x = s[j]
      /\ \A j \in 1 .. n - 1 : t[j] \in Range(t)
      /\ \A j \in 1 .. n : s[j] \in Range(s)
  BY <1>1, <1>4 DEF Range
<1>8. \A x \in Range(t) : x \in Range(s)
  BY <1>5, <1>7
<1>9. \A x \in Range(s) : x # s[c] => x \in Range(t)
  BY <1>6, <1>7
<1>10. s[c] \in Range(s)
  BY <1>1, <1>7
<1> QED  BY <1>2, <1>8, <1>9, <1>10

\* The entry next to an entry of a node above leaves, in the leaf before or after
\* it, takes its place: with the entry gone from the leaf, the order is kept.
Neighbour(h, a, i, b, c) ==
    /\ a \in DOMAIN h /\ i \in DOMAIN h[a].ents /\ h[a].kids # <<>>
    /\ b \in DOMAIN h /\ h[b].kids = <<>> /\ c \in DOMAIN h[b].ents
    /\ \/ b = h[a].kids[i] /\ c = Len(h[b].ents)
       \/ b = h[a].kids[i + 1] /\ c = 1
Promoted(h, m, a, i, b, c) == m = [h EXCEPT ![a].ents[i] = h[b].ents[c]]
TakenOut(m, g, b, c)       == g = [m EXCEPT ![b].ents = RemoveAt(@, c)]

LEMMA PromoteWritten ==
    ASSUME NEW V, NEW h, NEW r, NEW p, Heap(h, Entries(V)), Tree(h, r, p),
           NEW a, NEW i, NEW b, NEW c, Neighbour(h, a, i, b, c),
           NEW m, Promoted(h, m, a, i, b, c), NEW g, TakenOut(m, g, b, c)
    PROVE  /\ Heap(m, Entries(V)) /\ Heap(g, Entries(V)) /\ Tree(m, r, p) /\ Tree(g, r, p) /\ a # b
           /\ OtherEnts(h, m, a, [h[a].ents EXCEPT ![i] = h[b].ents[c]])
           /\ OtherEnts(m, g, b, RemoveAt(h[b].ents, c))
           /\ i \in DOMAIN h[a].kids /\ i + 1 \in DOMAIN h[a].kids
<1>1. /\ a \in DOMAIN h /\ i \in DOMAIN h[a].ents /\ h[a].kids # <<>>
      /\ b \in DOMAIN h /\ h[b].kids = <<>> /\ c \in DOMAIN h[b].ents /\ a # b
  BY DEF Neighbour
<1>2. PICK s \in Seq(Entries(V)), u \in Seq(Entries(V)) : s = h[a].ents /\ u = h[b].ents
  BY <1>1, HeapTypes
<1>3. /\ c \in 1 .. Len(u) /\ i \in 1 .. Len(s) /\ u[c] \in Entries(V)
      /\ Len(u) \in Nat /\ Len(s) \in Nat
  BY <1>1, <1>2, KeysAre
<1>4. PICK s2 : s2 = [s EXCEPT ![i] = u[c]]
  OBVIOUS
<1>5. s2 \in Seq(Entries(V)) /\ Len(s2) = Len(s)
  BY <1>1, <1>2, <1>3, <1>4, NewEntry
<1>6. NewEnts(h, m, a, s2)
  <2>1. m = [h EXCEPT ![a].ents = s2]
    BY <1>2, <1>4 DEF Promoted
  <2> QED  BY <2>1 DEF NewEnts
<1>7. Heap(m, Entries(V)) /\ Tree(m, r, p) /\ OtherEnts(h, m, a, s2)
  BY <1>1, <1>2, <1>5, <1>6, EntriesTree
<1>8. b \in DOMAIN m /\ m[b] = h[b]
  BY <1>1, <1>7 DEF OtherEnts
<1>9. PICK t : t = RemoveAt(u, c)
  OBVIOUS
<1>10. t \in Seq(Entries(V))
  BY <1>2, <1>3, <1>9, Removed
<1>11. NewEnts(m, g, b, t)
  <2>1. m[b].ents = u
    BY <1>2, <1>8
  <2>2. g = [m EXCEPT ![b].ents = t]
    BY <2>1, <1>9 DEF TakenOut
  <2> QED  BY <2>2 DEF NewEnts
<1>12. Heap(g, Entries(V)) /\ Tree(g, r, p) /\ OtherEnts(m, g, b, t)
  <2>1. m[b].kids = <<>>
    BY <1>1, <1>8
  <2> QED  BY <2>1, <1>7, <1>8, <1>10, <1>11, EntriesTree
<1>13. i \in DOMAIN h[a].kids /\ i + 1 \in DOMAIN h[a].kids
  <2>1. Len(h[a].kids) = Len(s) + 1
    BY <1>1, <1>2, TreeTypes
  <2>2. DOMAIN h[a].kids = 1 .. Len(s) + 1
    BY <2>1, <1>1, HeapTypes
  <2> QED  BY <2>2, <1>3
<1> QED  BY <1>1, <1>2, <1>4, <1>7, <1>9, <1>12, <1>13

LEMMA PromoteStored ==
    ASSUME NEW V, NEW h, NEW r, NEW p, NEW f, Ordered(V, h, r, p, f),
           NEW a, NEW i, NEW b, NEW c, Neighbour(h, a, i, b, c),
           NEW m, Promoted(h, m, a, i, b, c), NEW g, TakenOut(m, g, b, c)
    PROVE  Stored(g) = Stored(h) \ {h[a].ents[i]} /\ Stored(m) = Stored(g)
<1>1. Heap(h, Entries(V)) /\ Tree(h, r, p)
  BY DEF Ordered
<1>2. /\ a \in DOMAIN h /\ i \in DOMAIN h[a].ents /\ b \in DOMAIN h /\ c \in DOMAIN h[b].ents
  BY DEF Neighbour
<1>3. PICK s, u, s2, t :
         /\ s \in Seq(Entries(V)) /\ u \in Seq(Entries(V))
         /\ s = h[a].ents /\ u = h[b].ents /\ s2 = [s EXCEPT ![i] = u[c]] /\ t = RemoveAt(u, c)
  BY <1>1, <1>2, HeapTypes
<1>4. /\ Heap(m, Entries(V)) /\ a # b
      /\ OtherEnts(h, m, a, s2) /\ OtherEnts(m, g, b, t)
  BY <1>1, <1>3, PromoteWritten
<1>5. b \in DOMAIN m /\ m[b].ents = u /\ a \in DOMAIN m /\ m[a].ents = s2
  BY <1>2, <1>3, <1>4 DEF OtherEnts
<1>6. /\ Stored(h) = Range(s) \cup Elsewhere(h, a) /\ Stored(m) = Range(s2) \cup Elsewhere(h, a)
      /\ Stored(m) = Range(u) \cup Elsewhere(m, b) /\ Stored(g) = Range(t) \cup Elsewhere(m, b)
  <2>1. Stored(h) = Range(s) \cup Elsewhere(h, a) /\ Stored(m) = Range(s2) \cup Elsewhere(h, a)
    BY <1>1, <1>2, <1>3, <1>4, NewStored
  <2>2. Stored(m) = Range(u) \cup Elsewhere(m, b) /\ Stored(g) = Range(t) \cup Elsewhere(m, b)
    BY <1>4, <1>5, NewStored
  <2> QED  BY <2>1, <2>2
<1>7. Range(t) \cup {u[c]} = Range(u)
  <2>1. c \in 1 .. Len(u)
    BY <1>2, <1>3, KeysAre
  <2> QED  BY <2>1, <1>3, RemoveRange
<1>8. u[c] \in Elsewhere(h, a) /\ u[c] \in Elsewhere(m, b)
  <2>1. u[c] \in Range(h[b].ents)
    BY <1>2, <1>3 DEF Range
  <2>2. u[c] \in Range(m[a].ents)
    <3>1. i \in DOMAIN s2 /\ s2[i] = u[c]
      BY <1>2, <1>3
    <3> QED  BY <3>1, <1>5 DEF Range
  <2> QED  BY <2>1, <2>2, <1>2, <1>4, <1>5 DEF Elsewhere
<1>9. ASSUME NEW d \in DOMAIN h, NEW j \in DOMAIN h[d].ents, h[d].ents[j] = s[i]
      PROVE  d = a /\ j = i
  <2>1. h[d].ents[j].key = h[a].ents[i].key
    BY <1>3, <1>9
  <2> QED  BY <2>1, <1>2, Unique
<1>10. s[i] \notin Elsewhere(h, a)
  <2>1. ASSUME NEW d \in DOMAIN h \ {a}, s[i] \in Range(h[d].ents) PROVE FALSE
    <3>1. PICK j \in DOMAIN h[d].ents : h[d].ents[j] = s[i]
      BY <2>1 DEF Range
    <3> QED  BY <3>1, <1>9
  <2> QED  BY <2>1 DEF Elsewhere
<1>11. DOMAIN s2 = DOMAIN s /\ \A j \in DOMAIN s : s2[j] = IF j = i THEN u[c] ELSE s[j]
  BY <1>3
<1>12. /\ \A x \in Range(s2) : \E j \in DOMAIN s : x = s2[j]
       /\ \A x \in Range(s) : \E j \in DOMAIN s : x = s[j]
       /\ \A j \in DOMAIN s : s2[j] \in Range(s2) /\ s[j] \in Range(s)
  BY <1>11 DEF Range
<1>13. \A x : x # u[c] => (x \in Range(s2) <=> x \in Range(s) /\ x # s[i])
  <2>1. ASSUME NEW x \in Range(s2), x # u[c] PROVE x \in Range(s) /\ x # s[i]
    <3>1. PICK j \in DOMAIN s : x = s[j] /\ j # i
      BY <2>1, <1>11, <1>12
    <3> QED  BY <3>1, <1>2, <1>3, <1>9, <1>12
  <2>2. ASSUME NEW x \in Range(s), x # s[i] PROVE x \in Range(s2)
    <3>1. PICK j \in DOMAIN s : x = s[j] /\ j # i
      BY <2>2, <1>12
    <3> QED  BY <3>1, <1>11, <1>12
  <2> QED  BY <2>1, <2>2
<1>14. u[c] # s[i]
  BY <1>2, <1>3, <1>4, <1>9
<1>15. Stored(m) = Stored(h) \ {s[i]}
  BY <1>6, <1>8, <1>10, <1>13, <1>14
<1>16. Stored(g) = Stored(m)
  BY <1>6, <1>7, <1>8
<1> QED  BY <1>3, <1>15, <1>16

LEMMA PromoteOrder ==
    ASSUME NEW V, NEW h, NEW r, NEW p, NEW f, Ordered(V, h, r, p, f),
           NEW a, NEW i, NEW b, NEW c, Neighbour(h, a, i, b, c),
           NEW m, Promoted(h, m, a, i, b, c), NEW g, TakenOut(m, g, b, c)
    PROVE  Ordered(V, g, r, p, Relabel(g, p, f, a))
<1>1. Heap(h, Entries(V)) /\ Tree(h, r, p) /\ Labels(h, r, f) /\ Ascends(h, f)
  BY DEF Ordered
<1>2. /\ a \in DOMAIN h /\ i \in DOMAIN h[a].ents /\ h[a].kids # <<>> /\ b \in DOMAIN h
      /\ h[b].kids = <<>> /\ c \in DOMAIN h[b].ents
      /\ \/ b = h[a].kids[i] /\ c = Len(h[b].ents)
         \/ b = h[a].kids[i + 1] /\ c = 1
  BY DEF Neighbour
<1>3. PICK s, u, s2, t :
         /\ s \in Seq(Entries(V)) /\ u \in Seq(Entries(V))
         /\ s = h[a].ents /\ u = h[b].ents /\ s2 = [s EXCEPT ![i] = u[c]] /\ t = RemoveAt(u, c)
  BY <1>1, <1>2, HeapTypes
<1>4. /\ Heap(g, Entries(V)) /\ Tree(g, r, p) /\ a # b
      /\ OtherEnts(h, m, a, s2) /\ OtherEnts(m, g, b, t)
      /\ i \in DOMAIN h[a].kids /\ i + 1 \in DOMAIN h[a].kids
  BY <1>1, <1>3, PromoteWritten
<1>5. /\ DOMAIN g = DOMAIN h /\ g[a].ents = s2 /\ g[b].ents = t
      /\ \A x \in DOMAIN h : g[x].kids = h[x].kids /\ (x # a /\ x # b => g[x].ents = h[x].ents)
  BY <1>2, <1>4 DEF OtherEnts
<1>6. /\ \A x \in DOMAIN h : \A j \in DOMAIN h[x].kids :
            /\ h[x].kids[j] \in DOMAIN h /\ p[h[x].kids[j]].up = x /\ p[h[x].kids[j]].at = j
            /\ p[h[x].kids[j]].level = p[x].level - 1
  BY <1>1, Kid
<1>7. \A x \in DOMAIN h : p[x].up = a => p[x].at \in DOMAIN h[a].kids /\ h[a].kids[p[x].at] = x
  <2> SUFFICES ASSUME NEW x \in DOMAIN h, p[x].up = a
               PROVE  p[x].at \in DOMAIN h[a].kids /\ h[a].kids[p[x].at] = x
    OBVIOUS
  <2>1. x # r
    <3>1. p[r].up = NoTree /\ a \in Nat
      BY <1>1, <1>2, HeapTypes DEF Tree
    <3> QED  BY <3>1 DEF NoTree
  <2> QED  BY <2>1, <1>1, Parent
<1>8. p[b].up = a /\ p[a].up # a /\ r \in DOMAIN h /\ p[r].up # a
  <2>1. r \in DOMAIN h /\ p[r].up = NoTree /\ a \in Nat
    BY <1>1, <1>2, HeapTypes DEF Tree
  <2>2. p[r].up # a
    BY <2>1 DEF NoTree
  <2>3. p[a].up # a
    <3>1. \A j \in DOMAIN h[a].kids : h[a].kids[j] # a
      BY <1>1, <1>2, Kid
    <3> QED  BY <3>1, <1>2, <1>7
  <2> QED  BY <2>1, <2>2, <2>3, <1>2, <1>4, <1>6
<1>9. \A x \in DOMAIN h : p[x].up = a => h[x].kids = <<>>
  <2>1. \A x \in DOMAIN h : p[x].up = a => p[x].level = p[a].level - 1
    BY <1>2, <1>6, <1>7
  <2>2. p[b].level = p[a].level - 1 /\ p[b].level = 0
    BY <2>1, <1>1, <1>2, <1>8, TreeTypes
  <2> QED  BY <2>1, <2>2, <1>1, TreeTypes
<1>10. PICK w \in Spans : w = f[a]
  BY <1>1, <1>2 DEF Labels
<1>11. PICK l \in Nat, n \in Nat : /\ l = Len(s) /\ DOMAIN s = 1 .. l /\ i \in 1 .. l
                                   /\ n = Len(u) /\ DOMAIN u = 1 .. n /\ c \in 1 .. n
                                   /\ DOMAIN h[a].kids = 1 .. l + 1
  <2>1. Len(h[a].kids) = Len(s) + 1
    BY <1>1, <1>2, <1>3, TreeTypes
  <2>2. Len(s) \in Nat /\ DOMAIN s = 1 .. Len(s) /\ Len(u) \in Nat /\ DOMAIN u = 1 .. Len(u)
    BY <1>3, KeysAre
  <2>3. DOMAIN h[a].kids = 1 .. Len(s) + 1
    BY <2>1, <1>1, <1>2, HeapTypes
  <2> QED  BY <2>2, <2>3, <1>2, <1>3
<1>12. /\ \A j \in 1 .. l : s[j] \in Entries(V) /\ s[j].key \in Nat
       /\ \A j \in 1 .. n : u[j] \in Entries(V) /\ u[j].key \in Nat
  BY <1>3, <1>11, KeysAre
<1>13. s2 \in Seq(Entries(V)) /\ Len(s2) = l
  BY <1>3, <1>11, <1>12, NewEntry
<1>14. DOMAIN s2 = 1 .. l /\ \A j \in 1 .. l : s2[j] = IF j = i THEN u[c] ELSE s[j]
  BY <1>3, <1>11
<1>15. PICK e : e = Relabel(g, p, f, a)
  OBVIOUS
<1>16. /\ DOMAIN e = DOMAIN h
       /\ \A x \in DOMAIN h : e[x] = IF p[x].up = a THEN Between(s2, p[x].at, w) ELSE f[x]
  BY <1>5, <1>10, <1>15 DEF Relabel
<1>17. /\ e[a] = w /\ e[r] = Whole
       /\ \A j \in 1 .. l + 1 : e[h[a].kids[j]] = Between(s2, j, w)
  <2>1. e[a] = w
    BY <1>2, <1>8, <1>10, <1>16
  <2>2. e[r] = Whole
    BY <1>1, <1>8, <1>16 DEF Labels
  <2>3. \A j \in 1 .. l + 1 : e[h[a].kids[j]] = Between(s2, j, w)
    BY <1>2, <1>6, <1>11, <1>16
  <2> QED  BY <2>1, <2>2, <2>3
<1>18. e \in [DOMAIN g -> Spans]
  <2>1. \A j \in 1 .. l + 1 : Between(s2, j, w) \in Spans
    BY <1>13, BetweenSpan
  <2>2. \A x \in DOMAIN h : e[x] \in Spans
    BY <2>1, <1>1, <1>7, <1>11, <1>16 DEF Labels
  <2>3. e = [x \in DOMAIN h |-> e[x]]
    BY <1>15, <1>5 DEF Relabel
  <2> QED  BY <2>2, <2>3, <1>5
<1>19. ASSUME NEW x \in DOMAIN g, NEW j \in DOMAIN g[x].kids
       PROVE  e[g[x].kids[j]] = Between(g[x].ents, j, e[x])
  <2>1. PICK y \in DOMAIN h : y = g[x].kids[j] /\ p[y].up = x /\ p[y].at = j /\ x \in DOMAIN h
    BY <1>5, <1>6
  <2>2. CASE x = a
    BY <2>1, <2>2, <1>5, <1>16, <1>17
  <2>3. CASE x # a
    <3>1. h[x].kids # <<>> /\ x # b /\ p[x].up # a
      BY <2>1, <1>2, <1>5, <1>9
    <3>2. f[y] = Between(h[x].ents, j, f[x])
      BY <2>1, <1>1, <1>5 DEF Labels
    <3> QED  BY <2>1, <2>3, <3>1, <3>2, <1>5, <1>16
  <2> QED  BY <2>2, <2>3
<1>20. Labels(g, r, e)
  BY <1>17, <1>18, <1>19 DEF Labels
<1>21. \A j \in 1 .. l + 1 : f[h[a].kids[j]] = Between(s, j, w) /\ Between(s, j, w) \in Spans
  BY <1>1, <1>2, <1>3, <1>10, <1>11, BetweenSpan DEF Labels
<1>22. /\ b = h[a].kids[i] => u[c].key <= s[i].key
       /\ b = h[a].kids[i + 1] => u[c].key >= s[i].key
  <2>1. Within(u, f[b]) /\ f[b] \in Spans
    BY <1>2, <1>3, Orders
  <2>2. f[b].lo < u[c].key /\ u[c].key < f[b].hi /\ f[b].lo \in Int /\ f[b].hi \in Int
    BY <2>1, <1>11 DEF Within, In, Spans
  <2>3. CASE b = h[a].kids[i]
    <3>1. f[b] = Between(s, i, w) /\ i <= l /\ b # h[a].kids[i + 1]
      BY <2>3, <1>11, <1>21, <1>2, <1>6
    <3>2. f[b].hi = s[i].key
      BY <3>1, <1>11 DEF Between
    <3> QED  BY <2>2, <3>1, <3>2, <1>11, <1>12
  <2>4. CASE b = h[a].kids[i + 1]
    <3>1. f[b] = Between(s, i + 1, w) /\ i + 1 > 1 /\ (i + 1) - 1 = i /\ b # h[a].kids[i]
      BY <2>4, <1>11, <1>21, <1>2, <1>6
    <3>2. f[b].lo = s[i].key
      BY <3>1 DEF Between
    <3> QED  BY <2>2, <3>1, <3>2, <1>11, <1>12
  <2> QED  BY <2>3, <2>4
<1>23. ASSUME NEW j \in 1 .. l + 1
       PROVE  /\ Between(s2, j, w).lo = IF j = i + 1 THEN u[c].key ELSE Between(s, j, w).lo
              /\ Between(s2, j, w).hi = IF j = i THEN u[c].key ELSE Between(s, j, w).hi
  <2>1. /\ Between(s2, j, w).lo = IF j > 1 THEN s2[j - 1].key ELSE w.lo
        /\ Between(s2, j, w).hi = IF j <= l THEN s2[j].key ELSE w.hi
        /\ Between(s, j, w).lo = IF j > 1 THEN s[j - 1].key ELSE w.lo
        /\ Between(s, j, w).hi = IF j <= l THEN s[j].key ELSE w.hi
    BY <1>11, <1>13 DEF Between
  <2>2. /\ j > 1 => j - 1 \in 1 .. l /\ (j - 1 = i <=> j = i + 1)
        /\ j <= l => j \in 1 .. l
        /\ j = i + 1 => j > 1
        /\ j = i => j <= l
    BY <1>11
  <2> QED  BY <2>1, <2>2, <1>14
<1>24. ASSUME NEW j \in 1 .. l + 1, NEW x, x = h[a].kids[j]
       PROVE  \A k \in 1 .. Len(g[x].ents) + 1 : Strict(Between(g[x].ents, k, e[x]))
  <2>1. x \in DOMAIN h /\ p[x].up = a /\ p[x].at = j /\ h[x].kids = <<>> /\ x # a
    BY <1>2, <1>6, <1>8, <1>9, <1>11, <1>24
  <2>2. PICK v \in Seq(Entries(V)) : v = h[x].ents
    BY <2>1, <1>1, HeapTypes
  <2>3. \A k \in 1 .. Len(v) + 1 : Strict(Between(v, k, f[x]))
    BY <2>1, <2>2, <1>1 DEF Ascends
  <2>4. /\ e[x].lo = IF j = i + 1 THEN u[c].key ELSE f[x].lo
        /\ e[x].hi = IF j = i THEN u[c].key ELSE f[x].hi
        /\ f[x] = Between(s, j, w) /\ e[x] \in Spans /\ f[x] \in Spans
    BY <2>1, <1>5, <1>17, <1>18, <1>21, <1>23, <1>24
  <2>5. CASE x = b /\ b = h[a].kids[i]
    <3>1. j = i /\ c = Len(u) /\ c = n
      BY <2>1, <2>5, <1>2, <1>3, <1>4, <1>6, <1>11
    <3>2. e[x].lo = f[x].lo /\ e[x].hi = u[Len(u)].key /\ g[x].ents = t /\ t = RemoveAt(u, Len(u))
      <4>1. j # i + 1 /\ j = i
        BY <3>1, <1>11
      <4>2. e[x].lo = f[x].lo /\ e[x].hi = u[c].key
        BY <2>4, <4>1
      <4> QED  BY <2>5, <3>1, <4>2, <1>3, <1>5
    <3>3. Len(u) >= 1 /\ v = u
      BY <2>2, <2>5, <1>3, <1>11
    <3> QED  BY <2>3, <2>4, <3>2, <3>3, LastUp
  <2>6. CASE x = b /\ b = h[a].kids[i + 1]
    <3>1. j = i + 1 /\ c = 1
      <4>1. j = i + 1 /\ b # h[a].kids[i]
        BY <2>1, <2>6, <1>2, <1>4, <1>6, <1>11
      <4> QED  BY <4>1, <1>2
    <3>2. e[x].lo = u[1].key /\ e[x].hi = f[x].hi /\ g[x].ents = t /\ t = RemoveAt(u, 1)
      <4>1. j # i /\ j = i + 1
        BY <3>1, <1>11
      <4>2. e[x].lo = u[c].key /\ e[x].hi = f[x].hi
        BY <2>4, <4>1
      <4> QED  BY <2>6, <3>1, <4>2, <1>3, <1>5
    <3>3. Len(u) >= 1 /\ v = u
      BY <2>2, <2>6, <1>3, <1>11
    <3> QED  BY <2>3, <2>4, <3>2, <3>3, FirstUp
  <2>7. CASE x # b
    <3>1. g[x].ents = v
      BY <2>1, <2>2, <2>7, <1>5
    <3>2. f[x].lo \in Int /\ f[x].hi \in Int
      BY <2>4 DEF Spans
    <3>3. e[x].lo <= f[x].lo
      <4>1. CASE j = i + 1
        <5>1. b = h[a].kids[i]
          BY <2>7, <4>1, <1>2, <1>24
        <5>2. f[x].lo = s[i].key
          <6>1. j > 1 /\ j - 1 = i
            BY <4>1, <1>11
          <6> QED  BY <2>4, <6>1 DEF Between
        <5> QED  BY <2>4, <4>1, <5>1, <5>2, <1>22
      <4>2. CASE j # i + 1
        BY <2>4, <3>2, <4>2
      <4> QED  BY <4>1, <4>2
    <3>4. f[x].hi <= e[x].hi
      <4>1. CASE j = i
        <5>1. b = h[a].kids[i + 1]
          BY <2>7, <4>1, <1>2, <1>24
        <5>2. f[x].hi = s[i].key
          <6>1. j <= l
            BY <4>1, <1>11
          <6> QED  BY <2>4, <4>1, <6>1, <1>11 DEF Between
        <5>3. e[x].hi = u[c].key
          BY <2>4, <4>1
        <5> QED  BY <5>1, <5>2, <5>3, <1>11, <1>12, <1>22
      <4>2. CASE j # i
        BY <2>4, <3>2, <4>2
      <4> QED  BY <4>1, <4>2
    <3> QED  BY <2>3, <2>4, <3>1, <3>3, <3>4, Loosened
  <2> QED  BY <2>5, <2>6, <2>7, <1>2
<1>25. ASSUME NEW x \in DOMAIN g, g[x].kids = <<>>, NEW k \in 1 .. Len(g[x].ents) + 1
       PROVE  Strict(Between(g[x].ents, k, e[x]))
  <2>1. CASE p[x].up = a
    <3>1. p[x].at \in 1 .. l + 1 /\ x = h[a].kids[p[x].at]
      BY <2>1, <1>5, <1>7, <1>11
    <3> QED  BY <3>1, <1>24, <1>25
  <2>2. CASE p[x].up # a
    <3>1. x # a /\ x # b /\ x \in DOMAIN h
      BY <2>2, <1>2, <1>5, <1>8, <1>25
    <3>2. g[x].ents = h[x].ents /\ h[x].kids = <<>> /\ e[x] = f[x]
      BY <2>2, <3>1, <1>5, <1>16, <1>25
    <3> QED  BY <3>1, <3>2, <1>1, <1>25 DEF Ascends
  <2> QED  BY <2>1, <2>2
<1>26. Ascends(g, e)
  BY <1>25 DEF Ascends
<1> QED  BY <1>4, <1>15, <1>20, <1>26 DEF Ordered

-----------------------------------------------------------------------------
(* The invariant of the search order                                         *)

Has(h, k)    == \E e \in Stored(h) : e.key = k
Except(S, k) == {e \in S : e.key # k}

\* From an internal node the key has gone, and the entry that has replaced it is
\* there twice, until the leaf it comes from, where the call is, has lost it.
Replaced(c)   == c.job = "remove" /\ c.seek # c.key
Cleared(h, c) == IF Replaced(c)
                   THEN [h EXCEPT ![c.at].ents = RemoveAt(@, NotLess(h[c.at], c.seek))] ELSE h
Twice(h, c) ==
    Replaced(c) =>
       /\ c.at \in DOMAIN h /\ h[c.at].kids = <<>>
       /\ Holds(h[c.at], NotLess(h[c.at], c.seek), c.seek)
       /\ Stored(Cleared(h, c)) = Stored(h)

\* The nodes are in order, and the key sought is in the range of the node the
\* call has come to.
Sought(c, f) ==
    c.job \in {"search", "verify", "insert", "remove"} /\ ~Replaced(c) => In(c.key, f[c.at])
Searched(V, h, r, c) ==
    r # NoTree => \E p, f : Ordered(V, Cleared(h, c), r, p, f) /\ Sought(c, f)

\* What is known by then of the key, and of what will be returned.
Told(V, h, c) ==
    /\ c.job \in {"grow", "split", "insert", "shrink", "verify"} => ~Has(h, c.key)
    /\ c.job = "remove" => (Has(h, c.key) <=> ~Replaced(c))
    /\ c.op = "delete" /\ c.job \notin {"idle", "search"} => c.ret \in V
    /\ c.job = "search" => c.op \in {"get", "update", "delete"}
    /\ c.job = "verify" => c.op = "delete"
    /\ c.job = "create" => c.op = "create"
    /\ c.job = "free" => c.op = "free"

OrderIs(V, h, r, c) == Searched(V, h, r, c) /\ Twice(h, c) /\ Told(V, h, c)
OrderInv == OrderIs(Values, mem, root, call)

\* The entry that replaces another comes from a leaf: the deletion code takes it
\* from the child itself, whatever there is below it.
FromLeaves == Internal /\ (LeftSpares \/ RightSpares) => IsLeaf(mem[Child(Position)])

LEMMA OrderCarried ==
    ASSUME build' = build, OrderIs(Values, mem', root', call')
    PROVE  OrderInv'
<1>1. Values' = Values
  BY DEF Values
<1>2. OrderIs(Values', mem', root', call')
  BY <1>1
<1> QED  BY <1>2 DEF OrderInv

LEMMA InWhole ==
    ASSUME build \in Builds, NEW k \in Keys
    PROVE  k \in Nat /\ In(k, Whole)
<1>1. k \in 0 .. UIntMax
  BY BuildsAssumption DEF Keys
<1>2. PICK m \in Nat : m = UIntMax
  BY DEF UIntMax
<1>3. -1 < k /\ k < m + 1 /\ k \in Nat
  BY <1>1, <1>2
<1> QED  BY <1>2, <1>3 DEF In, Whole

LEMMA OrderFacts ==
    ASSUME Inv, OrderInv
    PROVE  /\ build \in Builds /\ Order /\ Keys \subseteq Nat /\ Null \notin Values
           /\ Heap(mem, Entries(Values)) /\ Sizes(mem, root)
           /\ Asked(call) /\ call \in Calls /\ Placed(mem, root, call)
           /\ Grown(mem, root, call) /\ Room(mem, call) /\ Spare(mem, root, call)
           /\ Rooted(mem, root, call)
           /\ Told(Values, mem, call) /\ Twice(mem, call)
           /\ root # NoTree => root \in DOMAIN mem /\ \E p : Tree(mem, root, p)
           /\ root = NoTree => DOMAIN mem = {} /\ Stored(mem) = {}
           /\ root \in Int
           /\ root # NoTree /\ ~Replaced(call) =>
                 \E p, f : Ordered(Values, mem, root, p, f) /\ Sought(call, f)
<1>1. /\ build \in Builds /\ Order /\ Keys \subseteq Nat
      /\ Heap(mem, Stock) /\ Sizes(mem, root) /\ Taken(mem, root, call)
      /\ Asked(call) /\ call \in Calls
      /\ root # NoTree => (\E p : Tree(mem, root, p)) /\ root \in DOMAIN mem
      /\ root = NoTree => DOMAIN mem = {}
      /\ root \in Int
  BY InvFacts
<1>2. Null \notin Values
  BY <1>1, BuildOrder
<1>3. Heap(mem, Entries(Values))
  BY <1>1 DEF Stock
<1>4. Searched(Values, mem, root, call) /\ Told(Values, mem, call) /\ Twice(mem, call)
  BY DEF OrderInv, OrderIs
<1>5. ASSUME root # NoTree, ~Replaced(call)
      PROVE  \E p, f : Ordered(Values, mem, root, p, f) /\ Sought(call, f)
  <2>1. Cleared(mem, call) = mem
    BY <1>5 DEF Cleared
  <2> QED  BY <2>1, <1>4, <1>5 DEF Searched
<1>6. root = NoTree => Stored(mem) = {}
  BY <1>1 DEF Stored
<1>7. /\ Placed(mem, root, call) /\ Grown(mem, root, call) /\ Room(mem, call)
      /\ Spare(mem, root, call) /\ Rooted(mem, root, call)
  BY <1>1 DEF Taken
<1> QED  BY <1>1, <1>2, <1>3, <1>4, <1>5, <1>6, <1>7

\* Of a call that is not about to remove an entry a second time.
LEMMA Resumed ==
    ASSUME NEW V, NEW h, NEW r, NEW c, ~Replaced(c), Told(V, h, c),
           r # NoTree => \E p, f : Ordered(V, h, r, p, f) /\ Sought(c, f)
    PROVE  OrderIs(V, h, r, c)
<1>1. Cleared(h, c) = h
  BY DEF Cleared
<1>2. Searched(V, h, r, c)
  BY <1>1 DEF Searched
<1>3. Twice(h, c)
  BY DEF Twice
<1> QED  BY <1>2, <1>3 DEF OrderIs

LEMMA Settled ==
    ASSUME Asked(call), NEW x, Return(x), NEW h, NEW r,
           r # NoTree => \E p, f : Ordered(Values, h, r, p, f)
    PROVE  /\ OrderIs(Values, h, r, call')
           /\ call'.op = call.op /\ call'.key = call.key /\ call'.val = call.val
           /\ call'.ret = x /\ call'.job = "idle"
<1>1. call \in Calls /\ call' = [call EXCEPT !.ret = x, !.job = "idle", !.seek = call.key,
                                             !.at = NoTree, !.short = FALSE]
  BY DEF Asked, Return
<1>2. /\ call'.op = call.op /\ call'.key = call.key /\ call'.val = call.val
      /\ call'.ret = x /\ call'.job = "idle"
  BY <1>1 DEF Calls
<1>3. ~Replaced(call') /\ Told(Values, h, call') /\ \A f : Sought(call', f)
  BY <1>2 DEF Replaced, Told, Sought
<1>4. OrderIs(Values, h, r, call')
  BY <1>3, Resumed
<1> QED  BY <1>2, <1>4

\* After an unsound step the nodes are still in order.
LEMMA Broken ==
    ASSUME Asked(call), Unsound, Told(Values, mem, call), call.job \notin {"idle", "search"},
           root # NoTree => \E p, f : Ordered(Values, mem, root, p, f), root' = root
    PROVE  /\ OrderIs(Values, mem', root', call')
           /\ call'.op = call.op /\ call'.key = call.key /\ call'.val = call.val
           /\ call'.ret = call.ret /\ call'.job = "unsound" /\ mem' = mem
<1>1. call \in Calls /\ call' = [call EXCEPT !.job = "unsound"] /\ mem' = mem
  BY DEF Asked, Unsound
<1>2. /\ call'.op = call.op /\ call'.key = call.key /\ call'.val = call.val
      /\ call'.ret = call.ret /\ call'.job = "unsound"
  BY <1>1 DEF Calls
<1>3. ~Replaced(call') /\ \A f : Sought(call', f)
  BY <1>2 DEF Replaced, Sought
<1>4. Told(Values, mem, call')
  BY <1>2 DEF Told
<1>5. OrderIs(Values, mem, root, call')
  BY <1>3, <1>4, Resumed
<1> QED  BY <1>1, <1>2, <1>5

LEMMA StartsOrder == Init => OrderInv
<1> SUFFICES ASSUME Init PROVE OrderInv
  OBVIOUS
<1>1. /\ root = NoTree
      /\ call = [op |-> "none", key |-> Null, val |-> Null, ret |-> Null,
                 job |-> "idle", seek |-> Null, at |-> NoTree, short |-> FALSE]
  BY DEF Init
<1>2. call.job = "idle" /\ call.op = "none"
  BY <1>1
<1>3. ~Replaced(call) /\ Told(Values, mem, call)
  BY <1>2 DEF Replaced, Told
<1>4. OrderIs(Values, mem, root, call)
  BY <1>1, <1>3, Resumed
<1> QED  BY <1>4 DEF OrderInv

LEMMA NotStored ==
    ASSUME NEW V, NEW h, Heap(h, Entries(V)), Null \notin V, NEW k,
           (IF \E e \in Stored(h) : e.key = k
               THEN (CHOOSE e \in Stored(h) : e.key = k).val ELSE Null) = Null
    PROVE  ~Has(h, k)
<1> SUFFICES ASSUME \E e \in Stored(h) : e.key = k PROVE FALSE
  BY DEF Has
<1>1. PICK x : x = CHOOSE e \in Stored(h) : e.key = k
  OBVIOUS
<1>2. x \in Stored(h)
  BY <1>1
<1>3. x.val \in V
  BY <1>2, StoredTypes
<1> QED  BY <1>1, <1>3

LEMMA OrderBeginCall == ASSUME Inv, OrderInv, BeginCall, ~Reinsert PROVE OrderInv'
<1>1. /\ build \in Builds /\ Heap(mem, Entries(Values)) /\ Null \notin Values
      /\ call \in Calls
      /\ root # NoTree /\ ~Replaced(call) =>
            \E p, f : Ordered(Values, mem, root, p, f) /\ Sought(call, f)
  BY OrderFacts
<1>2. PICK op, k, v, job :
         /\ Call(op, k, v, job)
         /\ \/ op = "get" /\ job = "search" /\ k \in Keys
            \/ op = "update" /\ job = "search" /\ k \in Keys
            \/ op = "insert" /\ job = "grow" /\ k \in Keys /\ Lookup(k) = Null
            \/ op = "delete" /\ job = "search" /\ k \in Keys
            \/ op = "create" /\ job = "create"
            \/ op = "free" /\ job = "free"
  BY DEF BeginCall
<1>3. /\ call.job = "idle" /\ build' = build /\ mem' = mem /\ root' = root
      /\ call' = [op |-> op, key |-> k, val |-> v, ret |-> Null,
                  job |-> job, seek |-> k, at |-> root, short |-> FALSE]
  BY <1>2 DEF Call
<1>4. /\ call'.op = op /\ call'.key = k /\ call'.job = job /\ call'.at = root
  BY <1>3
<1>5. ~Replaced(call) /\ ~Replaced(call')
  BY <1>2, <1>3, <1>4 DEF Replaced
<1>6. job = "grow" => ~Has(mem, k)
  BY <1>1, <1>2, NotStored DEF Lookup
<1>7. Told(Values, mem, call')
  BY <1>2, <1>4, <1>6 DEF Told
<1>8. ASSUME root # NoTree
      PROVE  \E p, f : Ordered(Values, mem, root, p, f) /\ Sought(call', f)
  <2>1. PICK p, f : Ordered(Values, mem, root, p, f)
    BY <1>1, <1>5, <1>8
  <2>2. f[root] = Whole
    BY <2>1 DEF Ordered, Labels
  <2>3. job = "search" => In(k, Whole)
    BY <1>1, <1>2, InWhole
  <2>4. Sought(call', f)
    BY <2>2, <2>3, <1>2, <1>4 DEF Sought
  <2> QED  BY <2>1, <2>4
<1>9. OrderIs(Values, mem, root, call')
  BY <1>5, <1>7, <1>8, Resumed
<1> QED  BY <1>3, <1>9, OrderCarried

\* What the scan for a key that is below the node shows.
LEMMA ScanShows ==
    ASSUME NEW V, NEW h, NEW r, NEW p, NEW f, Ordered(V, h, r, p, f), NEW a \in DOMAIN h,
           NEW k \in Nat, In(k, f[a]), NEW i, i = NotLess(h[a], k)
    PROVE  /\ Holds(h[a], i, k) => i \in DOMAIN h[a].ents /\ Has(h, k)
           /\ ~Holds(h[a], i, k) /\ h[a].kids = <<>> => ~Has(h, k)
           /\ ~Holds(h[a], i, k) /\ h[a].kids # <<>> =>
                 i \in DOMAIN h[a].kids /\ In(k, f[h[a].kids[i]])
           /\ h[a].kids = <<>> /\ Has(h, k) => Holds(h[a], i, k)
<1>1. ~Holds(h[a], i, k) => \A x \in DOMAIN h[a].ents : h[a].ents[x].key # k
  BY Scans
<1>2. ~Holds(h[a], i, k) /\ h[a].kids # <<>> => i \in DOMAIN h[a].kids /\ In(k, f[h[a].kids[i]])
  BY Scans
<1>3. ASSUME ~Holds(h[a], i, k), h[a].kids = <<>> PROVE ~Has(h, k)
  <2>1. \A e \in Stored(h) : e.key # k
    BY <1>1, <1>3, Missing
  <2> QED  BY <2>1 DEF Has
<1>4. ASSUME Holds(h[a], i, k) PROVE i \in DOMAIN h[a].ents /\ Has(h, k)
  <2>1. i \in DOMAIN h[a].ents /\ h[a].ents[i].key = k
    BY <1>4 DEF Holds
  <2>2. h[a].ents[i] \in Stored(h)
    BY <2>1 DEF Stored, Range
  <2> QED  BY <2>1, <2>2 DEF Has
<1> QED  BY <1>2, <1>3, <1>4

LEMMA OrderDescend == ASSUME Inv, OrderInv, Descend PROVE OrderInv'
<1>1. /\ Keys \subseteq Nat /\ Asked(call) /\ Placed(mem, root, call) /\ Told(Values, mem, call)
      /\ root # NoTree /\ ~Replaced(call) =>
            \E p, f : Ordered(Values, mem, root, p, f) /\ Sought(call, f)
  BY OrderFacts
<1>2. /\ call.job \in {"search", "verify"} /\ call.at # NoTree /\ mem[call.at].kids # <<>> /\ ~Met
      /\ GoOn(call.job, mem[call.at].kids[Scan]) /\ build' = build /\ mem' = mem /\ root' = root
  BY DEF Descend, Searching, Node, IsLeaf
<1>3. PICK a \in DOMAIN mem : a = call.at /\ root # NoTree
  BY <1>1, <1>2 DEF Placed
<1>4. PICK k \in Nat : k = call.key
  BY <1>1, <1>2 DEF Asked
<1>5. ~Replaced(call)
  BY <1>2 DEF Replaced
<1>6. PICK p, f : Ordered(Values, mem, root, p, f) /\ Sought(call, f)
  BY <1>1, <1>3, <1>5
<1>7. PICK i : i = Scan /\ i = NotLess(mem[a], k)
  BY <1>3, <1>4 DEF Scan, Node
<1>8. ~Holds(mem[a], i, k)
  BY <1>2, <1>3, <1>4, <1>7 DEF Met, Node
<1>9. In(k, f[a])
  BY <1>2, <1>3, <1>4, <1>5, <1>6 DEF Sought
<1>10. i \in DOMAIN mem[a].kids /\ In(k, f[mem[a].kids[i]])
  BY <1>2, <1>3, <1>6, <1>7, <1>8, <1>9, ScanShows
<1>11. PICK x \in DOMAIN mem : x = mem[a].kids[i] /\ x \in Int
  BY <1>6, <1>10, HeapTypes DEF Ordered
<1>12. GoOn(call.job, x) /\ call.job \in Jobs
  BY <1>2, <1>3, <1>7, <1>11 DEF Jobs
<1>13. /\ call'.job = call.job /\ call'.at = x /\ call'.op = call.op /\ call'.key = call.key
       /\ call'.ret = call.ret
  <2>1. call \in Calls
    BY <1>1 DEF Asked
  <2> QED  BY <2>1, <1>12 DEF GoOn, Calls
<1>14. ~Replaced(call') /\ Sought(call', f) /\ Told(Values, mem, call')
  BY <1>1, <1>2, <1>4, <1>10, <1>11, <1>13 DEF Replaced, Sought, Told
<1>15. OrderIs(Values, mem, root, call')
  BY <1>6, <1>14, Resumed
<1> QED  BY <1>2, <1>15, OrderCarried

LEMMA OrderMiss ==
    ASSUME Inv, OrderInv, Miss
    PROVE  OrderInv' /\ ~Has(mem, call.key)
<1>1. /\ Heap(mem, Entries(Values)) /\ Keys \subseteq Nat /\ Asked(call)
      /\ Placed(mem, root, call) /\ Told(Values, mem, call)
      /\ root = NoTree => Stored(mem) = {}
      /\ root # NoTree /\ ~Replaced(call) =>
            \E p, f : Ordered(Values, mem, root, p, f) /\ Sought(call, f)
  BY OrderFacts
<1>2. /\ call.job \in {"search", "verify"} /\ ~Met /\ build' = build /\ mem' = mem /\ root' = root
      /\ call.at # NoTree => mem[call.at].kids = <<>>
  BY DEF Miss, Searching, Node, IsLeaf
<1>3. PICK x : Return(x)
  BY DEF Miss
<1>4. ~Replaced(call)
  BY <1>2 DEF Replaced
<1>5. OrderIs(Values, mem, root, call')
  BY <1>1, <1>3, <1>4, Settled
<1>6. root = NoTree => ~Has(mem, call.key)
  BY <1>1 DEF Has
<1>7. ASSUME root # NoTree PROVE ~Has(mem, call.key)
  <2>1. PICK a \in DOMAIN mem : a = call.at
    BY <1>1, <1>2, <1>7 DEF Placed
  <2>0. a # NoTree
    BY <1>1 DEF Heap, NoTree
  <2>2. PICK k \in Nat : k = call.key
    BY <1>1, <1>2 DEF Asked
  <2>3. PICK p, f : Ordered(Values, mem, root, p, f) /\ Sought(call, f)
    BY <1>1, <1>4, <1>7
  <2>4. PICK i : i = Scan /\ i = NotLess(mem[a], k)
    BY <2>1, <2>2 DEF Scan, Node
  <2>5. ~Holds(mem[a], i, k)
    BY <1>2, <2>0, <2>1, <2>2, <2>4 DEF Met, Node
  <2>6. In(k, f[a])
    BY <1>2, <1>4, <2>1, <2>2, <2>3 DEF Sought
  <2>7. mem[a].kids = <<>>
    BY <1>2, <2>0, <2>1
  <2>8. ~Has(mem, k)
    BY <2>3, <2>4, <2>5, <2>6, <2>7, ScanShows
  <2> QED  BY <2>2, <2>8
<1>8. OrderInv'
  BY <1>2, <1>5, OrderCarried
<1> QED  BY <1>6, <1>7, <1>8

Single(S) == \A d, e \in S : d.key = e.key => d = e

LEMMA Singles ==
    ASSUME NEW V, NEW h, NEW r, NEW p, NEW f, Ordered(V, h, r, p, f)
    PROVE  Single(Stored(h))
<1> SUFFICES ASSUME NEW d \in Stored(h), NEW e \in Stored(h), d.key = e.key PROVE d = e
  BY DEF Single
<1>1. PICK a \in DOMAIN h : d \in Range(h[a].ents)
  BY DEF Stored
<1>2. PICK b \in DOMAIN h : e \in Range(h[b].ents)
  BY DEF Stored
<1>3. PICK i \in DOMAIN h[a].ents : d = h[a].ents[i]
  BY <1>1 DEF Range
<1>4. PICK j \in DOMAIN h[b].ents : e = h[b].ents[j]
  BY <1>2 DEF Range
<1>5. a = b /\ i = j
  BY <1>3, <1>4, Unique
<1> QED  BY <1>3, <1>4, <1>5

LEMMA OneLess ==
    ASSUME NEW V, NEW h, NEW r, NEW p, NEW f, Ordered(V, h, r, p, f),
           NEW a \in DOMAIN h, NEW c \in DOMAIN h[a].ents, NEW k, h[a].ents[c].key = k
    PROVE  /\ h[a].ents[c] \in Stored(h)
           /\ Stored(h) \ {h[a].ents[c]} = Except(Stored(h), k)
<1>1. h[a].ents[c] \in Stored(h)
  BY DEF Stored, Range
<1>2. Single(Stored(h))
  BY Singles
<1> QED  BY <1>1, <1>2 DEF Single, Except

\* A search that meets the key is the first one of its call.
LEMMA OrderFind ==
    ASSUME Inv, OrderInv, Find
    PROVE  /\ OrderInv' /\ call.job = "search"
           /\ \E d \in Stored(mem) :
                 /\ d.key = call.key
                 /\ \/ call.op = "get" /\ Return(d.val) /\ mem' = mem
                    \/ /\ call.op = "update" /\ Return(1)
                       /\ Stored(mem') = Except(Stored(mem), call.key) \cup {Entry(call.key, call.val)}
                    \/ /\ call.op = "delete" /\ mem' = mem
                       /\ call' = [call EXCEPT !.ret = d.val, !.job = "remove", !.at = root]
<1>1. /\ build \in Builds /\ Heap(mem, Entries(Values)) /\ Keys \subseteq Nat /\ Asked(call)
      /\ Placed(mem, root, call) /\ Told(Values, mem, call) /\ call \in Calls
      /\ root # NoTree /\ ~Replaced(call) =>
            \E p, f : Ordered(Values, mem, root, p, f) /\ Sought(call, f)
  BY OrderFacts
<1>2. /\ call.job \in {"search", "verify"} /\ Met /\ build' = build /\ root' = root
      /\ call.at # NoTree
  BY DEF Find, Searching, Met
<1>3. PICK a \in DOMAIN mem : a = call.at /\ root # NoTree
  BY <1>1, <1>2 DEF Placed
<1>4. PICK k \in Nat : k = call.key /\ k \in Keys
  BY <1>1, <1>2 DEF Asked
<1>5. ~Replaced(call)
  BY <1>2 DEF Replaced
<1>6. PICK p, f : Ordered(Values, mem, root, p, f) /\ Sought(call, f)
  BY <1>1, <1>3, <1>5
<1>7. PICK i \in DOMAIN mem[a].ents : i = Scan /\ mem[a].ents[i].key = k
  BY <1>2, <1>3, <1>4 DEF Met, Holds, Node
<1>8. PICK d : d = mem[a].ents[i] /\ d.key = k
  BY <1>7
<1>9. d \in Stored(mem) /\ Stored(mem) \ {d} = Except(Stored(mem), k)
  BY <1>6, <1>7, <1>8, OneLess
<1>10. call.job = "search" /\ call.op \in {"get", "update", "delete"}
  BY <1>1, <1>2, <1>4, <1>8, <1>9 DEF Told, Has
<1>11. d.val \in Values
  BY <1>1, <1>9, StoredTypes
<1>12. \/ call.op = "get" /\ Return(d.val) /\ mem' = mem
       \/ call.op = "update" /\ Return(1) /\ mem' = [mem EXCEPT ![a].ents[i].val = call.val]
       \/ /\ call.op = "delete" /\ mem' = mem
          /\ call' = [call EXCEPT !.ret = d.val, !.job = "remove", !.at = root]
  BY <1>3, <1>7, <1>8, <1>10 DEF Find, Node
<1>13. CASE call.op = "get" /\ Return(d.val) /\ mem' = mem
  <2>1. OrderIs(Values, mem, root, call')
    BY <1>1, <1>6, <1>13, Settled
  <2>2. OrderInv'
    BY <2>1, <1>2, <1>13, OrderCarried
  <2> QED  BY <2>2, <1>4, <1>8, <1>9, <1>10, <1>13
<1>14. CASE call.op = "update" /\ Return(1) /\ mem' = [mem EXCEPT ![a].ents[i].val = call.val]
  <2>1. PICK v \in Values : v = call.val
    BY <1>1, <1>14 DEF Asked
  <2>2. PICK g : g = mem' /\ Revalued(mem, g, a, i, v)
    BY <2>1, <1>14 DEF Revalued
  <2>3. /\ Ordered(Values, g, root, p, f)
        /\ Stored(g) = (Stored(mem) \ {mem[a].ents[i]}) \cup {Entry(mem[a].ents[i].key, v)}
    BY <2>1, <2>2, <1>3, <1>6, <1>7, UpdateOrder
  <2>4. Stored(g) = Except(Stored(mem), k) \cup {Entry(k, v)}
    BY <2>3, <1>8, <1>9
  <2>5. OrderIs(Values, g, root, call')
    BY <2>3, <1>1, <1>14, Settled
  <2>6. OrderInv'
    BY <2>2, <2>5, <1>2, OrderCarried
  <2> QED  BY <2>1, <2>2, <2>4, <2>6, <1>4, <1>8, <1>9, <1>10, <1>14
<1>15. CASE /\ call.op = "delete" /\ mem' = mem
            /\ call' = [call EXCEPT !.ret = d.val, !.job = "remove", !.at = root]
  <2>1. /\ call'.ret = d.val /\ call'.job = "remove" /\ call'.at = root /\ call'.op = "delete"
        /\ call'.key = k /\ call'.seek = k
    BY <1>1, <1>4, <1>10, <1>15 DEF Calls, Asked
  <2>2. ~Replaced(call') /\ Told(Values, mem, call')
    BY <2>1, <1>8, <1>9, <1>11 DEF Replaced, Told, Has
  <2>3. f[root] = Whole
    BY <1>6 DEF Ordered, Labels
  <2>4. Sought(call', f)
    BY <2>1, <2>3, <1>1, <1>4, InWhole DEF Sought
  <2>5. OrderIs(Values, mem, root, call')
    BY <2>2, <2>4, <1>6, Resumed
  <2>6. OrderInv'
    BY <2>5, <1>2, <1>15, OrderCarried
  <2> QED  BY <2>6, <1>4, <1>8, <1>9, <1>10, <1>15
<1> QED  BY <1>12, <1>13, <1>14, <1>15

\* Where there is a tree, an insertion that returns nothing found no memory.
LEMMA OrderGrowRoot ==
    ASSUME Inv, OrderInv, GrowRoot
    PROVE  /\ OrderInv' /\ Stored(mem') = Stored(mem)
           /\ \/ Return(0) /\ (root # NoTree => Short) /\ root' = root
              \/ /\ root # NoTree /\ root' # NoTree
                 /\ \E j \in {"insert", "split"}, a \in Int : GoOn(j, a)
<1>1. /\ build \in Builds /\ Heap(mem, Entries(Values)) /\ Keys \subseteq Nat
      /\ Asked(call) /\ Told(Values, mem, call) /\ call \in Calls
      /\ root \in Int
      /\ root # NoTree /\ ~Replaced(call) =>
            \E p, f : Ordered(Values, mem, root, p, f) /\ Sought(call, f)
  BY OrderFacts
<1>2. call.job = "grow" /\ build' = build /\ call.op = "insert" /\ ~Replaced(call)
  BY <1>1 DEF GrowRoot, Asked, Replaced
<1>3. PICK k \in Nat : k = call.key /\ k \in Keys /\ ~Has(mem, k)
  BY <1>1, <1>2 DEF Asked, Told
<1>4. \/ Return(0) /\ (root # NoTree => Short) /\ mem' = mem /\ root' = root
      \/ root # NoTree /\ GoOn("insert", root) /\ mem' = mem /\ root' = root
      \/ /\ root # NoTree
         /\ mem' = With(mem, Fresh, [ents |-> <<>>, kids |-> <<root>>]) /\ root' = Fresh
         /\ GoOn("split", Fresh)
  BY <1>1, Mallocs DEF GrowRoot
<1>5. CASE Return(0) /\ (root # NoTree => Short) /\ mem' = mem /\ root' = root
  <2>1. OrderIs(Values, mem, root, call')
    BY <1>1, <1>2, <1>5, Settled
  <2>2. OrderInv'
    BY <2>1, <1>2, <1>5, OrderCarried
  <2> QED  BY <2>2, <1>5
<1>6. CASE root # NoTree /\ GoOn("insert", root) /\ mem' = mem /\ root' = root
  <2>1. "insert" \in Jobs
    BY DEF Jobs
  <2>2. call'.job = "insert" /\ call'.at = root /\ call'.key = k /\ call'.op = "insert"
    BY <2>1, <1>1, <1>2, <1>3, <1>6, Went
  <2>3. PICK p, f : Ordered(Values, mem, root, p, f)
    BY <1>1, <1>2, <1>6
  <2>4. f[root] = Whole
    BY <2>3 DEF Ordered, Labels
  <2>5. ~Replaced(call') /\ Told(Values, mem, call')
    BY <2>2, <1>3 DEF Replaced, Told
  <2>6. Sought(call', f)
    BY <2>2, <2>4, <1>1, <1>3, InWhole DEF Sought
  <2>7. OrderIs(Values, mem, root, call')
    BY <2>3, <2>5, <2>6, Resumed
  <2>8. OrderInv'
    BY <2>7, <1>2, <1>6, OrderCarried
  <2> QED  BY <2>8, <1>1, <1>6
<1>7. CASE /\ root # NoTree
           /\ mem' = With(mem, Fresh, [ents |-> <<>>, kids |-> <<root>>]) /\ root' = Fresh
           /\ GoOn("split", Fresh)
  <2>1. PICK b \in Nat : b = Fresh /\ b \notin DOMAIN mem
    BY <1>1, FreshIsFree
  <2>2. "split" \in Jobs /\ b \in Int /\ b # NoTree
    BY <2>1 DEF Jobs, NoTree
  <2>3. call'.job = "split" /\ call'.key = k /\ call'.op = "insert"
    BY <2>1, <2>2, <1>1, <1>2, <1>3, <1>7, Went
  <2>4. PICK p, f : Ordered(Values, mem, root, p, f)
    BY <1>1, <1>2, <1>7
  <2>5. PICK g : g = mem' /\ Raised(mem, g, root, b)
    BY <2>1, <1>7 DEF Raised
  <2>6. PICK q, e : Ordered(Values, g, b, q, e)
    BY <2>1, <2>4, <2>5, GrowOrder
  <2>7. Stored(g) = Stored(mem)
    BY <2>1, <2>4, <2>5, GrowOrder
  <2>8. ~Replaced(call') /\ Told(Values, g, call') /\ Sought(call', e)
    BY <2>3, <2>7, <1>3 DEF Replaced, Told, Has, Sought
  <2>9. OrderIs(Values, g, b, call')
    BY <2>6, <2>8, Resumed
  <2>10. OrderInv'
    BY <2>1, <2>5, <2>9, <1>2, <1>7, OrderCarried
  <2> QED  BY <2>1, <2>2, <2>5, <2>7, <2>10, <1>7
<1> QED  BY <1>4, <1>5, <1>6, <1>7

LEMMA OrderSplitRoot ==
    ASSUME Inv, OrderInv, SplitRoot
    PROVE  OrderInv' /\ Stored(mem') = Stored(mem)
<1>1. /\ build \in Builds /\ Order /\ Heap(mem, Entries(Values)) /\ Keys \subseteq Nat
      /\ Asked(call) /\ Told(Values, mem, call) /\ call \in Calls /\ Placed(mem, root, call)
      /\ Grown(mem, root, call)
      /\ root = NoTree => DOMAIN mem = {}
      /\ root # NoTree /\ ~Replaced(call) =>
            \E p, f : Ordered(Values, mem, root, p, f) /\ Sought(call, f)
  BY OrderFacts
<1>2. /\ call.job = "split" /\ build' = build /\ root' = root /\ call.op = "insert"
      /\ call.at \in DOMAIN mem /\ call.at = root /\ root # NoTree
      /\ Len(mem[root].kids) = 1
      /\ Len(mem[mem[root].kids[1]].ents) = MaxKeys
  BY <1>1 DEF SplitRoot, Asked, Placed, Grown
<1>3. PICK k \in Nat : k = call.key /\ k \in Keys /\ ~Has(mem, k)
  BY <1>1, <1>2 DEF Asked, Told
<1>4. PICK got \in BOOLEAN :
         /\ mem' = IF got THEN Split(root, 1) ELSE mem
         /\ call' = [call EXCEPT !.job = "insert", !.short = ~got]
  BY <1>1, <1>2, Mallocs DEF SplitRoot
<1>5. call'.job = "insert" /\ call'.at = root /\ call'.op = "insert" /\ call'.key = k
  BY <1>1, <1>2, <1>3, <1>4 DEF Calls
<1>6. PICK p, f : Ordered(Values, mem, root, p, f)
  BY <1>1, <1>2 DEF Replaced
<1>7. PICK g : g = mem'
  OBVIOUS
<1>8. (\E q, e : Ordered(Values, g, root, q, e)) /\ Stored(g) = Stored(mem)
  <2>1. CASE ~got
    BY <2>1, <1>4, <1>6, <1>7
  <2>2. CASE got
    <3>1. PICK b \in Nat : b = Fresh /\ b \notin DOMAIN mem
      BY <1>1, FreshIsFree
    <3>2. g = SplitAt(mem, root, 1, b)
      BY <3>1, <2>2, <1>4, <1>7 DEF Split, SplitIds, SplitAt
    <3>3. mem[root].kids \in Seq(DOMAIN mem)
      BY <1>1, <1>2, HeapTypes
    <3>4. 1 \in DOMAIN mem[root].kids
      BY <3>3, <1>2
    <3>5. root \in DOMAIN mem /\ Len(mem[mem[root].kids[1]].ents) = MaxKeys
      BY <1>2
    <3> QED  BY <3>1, <3>2, <3>4, <3>5, <1>1, <1>6, SplitOrder
  <2> QED  BY <2>1, <2>2
<1>9. PICK q, e : Ordered(Values, g, root, q, e)
  BY <1>8
<1>10. e[root] = Whole
  BY <1>9 DEF Ordered, Labels
<1>11. ~Replaced(call') /\ Told(Values, g, call')
  BY <1>3, <1>5, <1>8 DEF Replaced, Told, Has
<1>12. Sought(call', e)
  BY <1>1, <1>3, <1>5, <1>10, InWhole DEF Sought
<1>13. OrderIs(Values, g, root, call')
  BY <1>9, <1>11, <1>12, Resumed
<1>14. OrderInv'
  BY <1>2, <1>7, <1>13, OrderCarried
<1> QED  BY <1>7, <1>8, <1>14

\* What the other scan for a key that is not stored shows.
LEMMA ScanMisses ==
    ASSUME NEW V, NEW h, NEW r, NEW p, NEW f, Ordered(V, h, r, p, f), NEW a \in DOMAIN h,
           NEW k \in Nat, In(k, f[a]), ~Has(h, k), NEW j, j = NotGreater(h[a], k)
    PROVE  /\ ~Holds(h[a], j, k)
           /\ j \in 0 .. Len(h[a].ents) /\ In(k, Between(h[a].ents, j + 1, f[a]))
           /\ h[a].kids # <<>> => j + 1 \in DOMAIN h[a].kids /\ In(k, f[h[a].kids[j + 1]])
<1>1. \A x \in DOMAIN h[a].ents : h[a].ents[x] \in Stored(h)
  BY DEF Stored, Range
<1>2. ~\E x \in DOMAIN h[a].ents : h[a].ents[x].key = k
  BY <1>1 DEF Has
<1>3. /\ ~Holds(h[a], j, k)
      /\ j \in 0 .. Len(h[a].ents) /\ In(k, Between(h[a].ents, j + 1, f[a]))
  BY <1>2, Scans
<1>4. h[a].kids # <<>> => j + 1 \in DOMAIN h[a].kids /\ In(k, f[h[a].kids[j + 1]])
  BY <1>2, Scans
<1> QED  BY <1>3, <1>4

\* An insertion that returns has inserted.
LEMMA OrderInsertIntoLeaf ==
    ASSUME Inv, OrderInv, InsertIntoLeaf
    PROVE  /\ OrderInv'
           /\ \/ Unsound
              \/ /\ Return(1)
                 /\ Stored(mem') = Except(Stored(mem), call.key) \cup {Entry(call.key, call.val)}
<1>1. /\ build \in Builds /\ Heap(mem, Entries(Values)) /\ Keys \subseteq Nat
      /\ Asked(call) /\ Told(Values, mem, call) /\ call \in Calls /\ Placed(mem, root, call)
      /\ root = NoTree => DOMAIN mem = {}
      /\ root # NoTree /\ ~Replaced(call) =>
            \E p, f : Ordered(Values, mem, root, p, f) /\ Sought(call, f)
  BY OrderFacts
<1>2. /\ call.job = "insert" /\ build' = build /\ root' = root /\ mem[call.at].kids = <<>>
      /\ call.op = "insert" /\ call.key \in Keys /\ call.val \in Values
  BY <1>1 DEF InsertIntoLeaf, Inserting, Node, Asked, IsLeaf
<1>3. PICK a \in DOMAIN mem : a = call.at /\ root # NoTree /\ mem[a].kids = <<>>
  BY <1>1, <1>2 DEF Placed
<1>4. PICK k \in Nat, v \in Values : k = call.key /\ v = call.val /\ ~Has(mem, k)
  BY <1>1, <1>2 DEF Told
<1>5. PICK p, f : Ordered(Values, mem, root, p, f) /\ In(k, f[a])
  BY <1>1, <1>2, <1>3, <1>4 DEF Sought, Replaced
<1>6. PICK j : j = Slot /\ j = NotGreater(mem[a], k)
  BY <1>3, <1>4 DEF Slot, Node
<1>7. ~Holds(mem[a], j, k) /\ j \in 0 .. Len(mem[a].ents) /\ In(k, Between(mem[a].ents, j + 1, f[a]))
  BY <1>3, <1>4, <1>5, <1>6, ScanMisses
<1>8. \/ Unsound
      \/ Return(1) /\ mem' = [mem EXCEPT ![a].ents = LeafInsert(@, j, k, v)]
  BY <1>3, <1>4, <1>6 DEF InsertIntoLeaf
<1>9. CASE Unsound
  <2>1. OrderIs(Values, mem', root', call')
    BY <1>1, <1>2, <1>5, <1>9, Broken
  <2> QED  BY <2>1, <1>2, <1>9, OrderCarried
<1>10. CASE Return(1) /\ mem' = [mem EXCEPT ![a].ents = LeafInsert(@, j, k, v)]
  <2>0. Entry(k, v) \in Entries(Values) /\ Entry(k, v).key = k
    BY <1>4 DEF Entry, Entries
  <2>1. PICK e \in Entries(Values) : e = Entry(k, v) /\ e.key = k
    BY <2>0
  <2>2. LeafInsert(mem[a].ents, j, k, v) = InsertAt(mem[a].ents, j + 1, e)
    BY <2>1, <1>7 DEF LeafInsert, Holds
  <2>3. PICK g : g = mem' /\ NewEnts(mem, g, a, InsertAt(mem[a].ents, j + 1, e))
    BY <2>2, <1>10 DEF NewEnts
  <2>4. PICK c \in 1 .. Len(mem[a].ents) + 1 : c = j + 1
    <3>1. Len(mem[a].ents) \in Nat
      BY <1>1, <1>3, HeapTypes
    <3> QED  BY <3>1, <1>7
  <2>5. Ordered(Values, g, root, p, f) /\ Stored(g) = Stored(mem) \cup {e}
    BY <2>1, <2>3, <2>4, <1>3, <1>5, <1>7, InsertOrder
  <2>6. Stored(mem) = Except(Stored(mem), k)
    BY <1>4 DEF Has, Except
  <2>7. OrderIs(Values, g, root, call')
    BY <2>5, <1>1, <1>10, Settled
  <2>8. OrderInv'
    BY <2>3, <2>7, <1>2, OrderCarried
  <2> QED  BY <2>1, <2>3, <2>5, <2>6, <2>8, <1>4, <1>10
<1> QED  BY <1>8, <1>9, <1>10

\* node_split_child: the range of the key is that of the one half or the other.
LEMMA SplitSides ==
    ASSUME Order, NEW V, NEW h, NEW r, NEW p, NEW f, Ordered(V, h, r, p, f),
           NEW a \in DOMAIN h, NEW i \in DOMAIN h[a].kids, NEW x, x = h[a].kids[i],
           Len(h[x].ents) = MaxKeys, NEW b \in Nat, b \notin DOMAIN h,
           NEW g, g = SplitAt(h, a, i, b),
           NEW k \in Nat, ~Has(h, k), In(k, f[x]),
           NEW y, y = IF k > h[x].ents[SplitIndex + 1].key THEN b ELSE x
    PROVE  /\ \E q, e : Ordered(V, g, r, q, e) /\ y \in DOMAIN g /\ In(k, e[y])
           /\ Stored(g) = Stored(h)
<1>1. Heap(h, Entries(V)) /\ Tree(h, r, p) /\ Labels(h, r, f)
  BY DEF Ordered
<1>2. PICK q, e : Ordered(V, g, r, q, e) /\ e[a] = f[a]
  <2>1. \E q : Ordered(V, g, r, q, Relabel(g, q, f, a)) /\ Relabel(g, q, f, a)[a] = f[a]
    BY SplitOrder
  <2>2. PICK q : Ordered(V, g, r, q, Relabel(g, q, f, a)) /\ Relabel(g, q, f, a)[a] = f[a]
    BY <2>1
  <2>3. PICK e : e = Relabel(g, q, f, a)
    OBVIOUS
  <2> QED  BY <2>2, <2>3
<1>3. Stored(g) = Stored(h)
  BY SplitOrder
<1>4. Splits(h, g, a, i, SplitIndex + 1, b)
  BY <1>1, SplitInMemory
<1>5. PICK u : u = SplitIndex + 1
  OBVIOUS
<1>6. PICK n \in Nat : /\ n = Len(h[a].ents) /\ DOMAIN h[a].ents = 1 .. n
                       /\ h[a].ents \in Seq(Entries(V))
                       /\ i \in 1 .. n + 1 /\ Len(h[a].kids) = n + 1
                       /\ DOMAIN h[a].kids = 1 .. n + 1
  <2>1. h[a].kids # <<>> /\ h[a].ents \in Seq(Entries(V)) /\ h[a].kids \in Seq(DOMAIN h)
    BY <1>1, HeapTypes
  <2>2. Len(h[a].kids) = Len(h[a].ents) + 1
    BY <2>1, <1>1, TreeTypes
  <2>3. PICK n \in Nat : n = Len(h[a].ents)
    BY <2>1
  <2>4. DOMAIN h[a].ents = 1 .. n /\ DOMAIN h[a].kids = 1 .. n + 1
    BY <2>1, <2>2, <2>3
  <2> QED  BY <2>1, <2>2, <2>3, <2>4
<1>7. /\ u \in DOMAIN h[x].ents /\ DOMAIN g = DOMAIN h \cup {b}
      /\ Len(g[a].ents) = n + 1 /\ Len(g[a].kids) = n + 2
      /\ \A j \in 1 .. n : j < i => g[a].ents[j] = h[a].ents[j]
      /\ g[a].ents[i] = h[x].ents[u]
      /\ \A j \in 1 .. n : j >= i => g[a].ents[j + 1] = h[a].ents[j]
      /\ g[a].kids[i] = x /\ g[a].kids[i + 1] = b
  <2>1. /\ u \in DOMAIN h[x].ents /\ DOMAIN g = DOMAIN h \cup {b}
        /\ Len(g[a].ents) = Len(h[a].ents) + 1 /\ Len(g[a].kids) = Len(h[a].kids) + 1
        /\ \A j \in DOMAIN h[a].ents : j < i => g[a].ents[j] = h[a].ents[j]
        /\ g[a].ents[i] = h[x].ents[u]
        /\ \A j \in DOMAIN h[a].ents : j >= i => g[a].ents[j + 1] = h[a].ents[j]
        /\ \A j \in DOMAIN h[a].kids : j <= i => g[a].kids[j] = h[a].kids[j]
        /\ g[a].kids[i + 1] = b
    BY <1>4, <1>5 DEF Splits
  <2>2. Len(g[a].ents) = n + 1 /\ Len(g[a].kids) = n + 2
    BY <2>1, <1>6
  <2>3. g[a].kids[i] = x
    BY SMTT(40), <2>1, <1>6
  <2> QED  BY <2>1, <2>2, <2>3, <1>6
<1>8. PICK s \in Nat : s = h[x].ents[u].key
  <2>1. x \in DOMAIN h
    BY <1>1, HeapTypes
  <2>2. h[x].ents \in Seq(Entries(V))
    BY <2>1, <1>1, HeapTypes
  <2>3. h[x].ents[u].key \in Nat
    BY <2>2, <1>7, KeysAre
  <2> QED  BY <2>3
<1>9. k # s
  <2>1. h[x].ents[u] \in Stored(h)
    BY <1>1, <1>7, HeapTypes DEF Stored, Range
  <2> QED  BY <2>1, <1>8 DEF Has
<1>10. PICK w \in Spans : w = f[a] /\ In(k, Between(h[a].ents, i, w))
  BY <1>1 DEF Labels
<1>11. a \in DOMAIN g /\ i \in DOMAIN g[a].kids /\ i + 1 \in DOMAIN g[a].kids /\ x \in DOMAIN g
  <2>1. a \in DOMAIN g /\ x \in DOMAIN g
    BY <1>1, <1>7, HeapTypes
  <2>2. Heap(g, Entries(V))
    BY <1>2 DEF Ordered
  <2>3. DOMAIN g[a].kids = 1 .. n + 2
    BY <2>1, <2>2, <1>7, HeapTypes
  <2> QED  BY <2>1, <2>3, <1>6
<1>12. e[x] = Between(g[a].ents, i, w) /\ e[b] = Between(g[a].ents, i + 1, w)
  <2>1. Labels(g, r, e)
    BY <1>2 DEF Ordered
  <2> QED  BY <2>1, <1>2, <1>7, <1>10, <1>11 DEF Labels
<1>13. Between(h[a].ents, i, w).lo < k /\ k < Between(h[a].ents, i, w).hi
  BY <1>10 DEF In
<1>14. PICK lo, hi : lo = Between(h[a].ents, i, w).lo /\ hi = Between(h[a].ents, i, w).hi
  OBVIOUS
<1>15. PICK t, z : t = g[a].ents /\ z = h[a].ents
  OBVIOUS
<1>16. /\ Len(z) = n /\ Len(t) = n + 1 /\ t[i].key = s
       /\ \A m \in 1 .. n : (m < i => t[m] = z[m]) /\ (m >= i => t[m + 1] = z[m])
  BY <1>6, <1>7, <1>8, <1>15
<1>b. Between(g[a].ents, i, w).lo = lo /\ Between(g[a].ents, i, w).hi = s
  <2>1. i > 1 => i - 1 \in 1 .. n /\ i - 1 < i
    BY <1>6
  <2>2. i <= n + 1
    BY <1>6
  <2> QED  BY <2>1, <2>2, <1>14, <1>15, <1>16 DEF Between
<1>c. Between(g[a].ents, i + 1, w).lo = s /\ Between(g[a].ents, i + 1, w).hi = hi
  <2>1. i + 1 > 1 /\ (i + 1) - 1 = i /\ (i + 1 <= n + 1 <=> i <= n)
    BY <1>6
  <2>2. i <= n => i \in 1 .. n /\ i >= i
    BY <1>6
  <2> QED  BY <2>1, <2>2, <1>14, <1>15, <1>16 DEF Between
<1>17. y \in DOMAIN g /\ In(k, e[y])
  <2>1. CASE k > s
    <3>1. y = b /\ s < k
      BY <2>1, <1>5, <1>8
    <3> QED  BY <3>1, <1>7, <1>12, <1>13, <1>14, <1>c DEF In
  <2>2. CASE ~(k > s)
    <3>1. y = x /\ k < s
      BY <2>2, <1>5, <1>8, <1>9
    <3> QED  BY <3>1, <1>11, <1>12, <1>13, <1>14, <1>b DEF In
  <2> QED  BY <2>1, <2>2
<1> QED  BY <1>2, <1>3, <1>17

LEMMA OrderInsertBelow ==
    ASSUME Inv, OrderInv, InsertBelow
    PROVE  /\ OrderInv' /\ Stored(mem') = Stored(mem)
           /\ \/ Unsound
              \/ \E y \in Int : GoOn("insert", y)
              \/ \E y : call' = [call EXCEPT !.at = y, !.short = TRUE]
<1>1. /\ build \in Builds /\ Order /\ Heap(mem, Entries(Values)) /\ Keys \subseteq Nat
      /\ Asked(call) /\ Told(Values, mem, call) /\ call \in Calls /\ Placed(mem, root, call)
      /\ root = NoTree => DOMAIN mem = {}
      /\ root # NoTree /\ ~Replaced(call) =>
            \E p, f : Ordered(Values, mem, root, p, f) /\ Sought(call, f)
  BY OrderFacts
<1>2. /\ call.job = "insert" /\ build' = build /\ root' = root /\ mem[call.at].kids # <<>>
      /\ call.op = "insert" /\ call.key \in Keys
  BY <1>1 DEF InsertBelow, Inserting, Node, Asked, IsLeaf
<1>3. PICK a \in DOMAIN mem : a = call.at /\ root # NoTree /\ mem[a].kids # <<>>
  BY <1>1, <1>2 DEF Placed
<1>4. PICK k \in Nat : k = call.key /\ ~Has(mem, k)
  BY <1>1, <1>2 DEF Told
<1>5. PICK p, f : Ordered(Values, mem, root, p, f) /\ In(k, f[a])
  BY <1>1, <1>2, <1>3, <1>4 DEF Sought, Replaced
<1>6. PICK j : j = Slot /\ j = NotGreater(mem[a], k)
  BY <1>3, <1>4 DEF Slot, Node
<1>7. ~Holds(mem[a], j, k) /\ j + 1 \in DOMAIN mem[a].kids /\ In(k, f[mem[a].kids[j + 1]])
  BY <1>3, <1>4, <1>5, <1>6, ScanMisses
<1>8. PICK c \in DOMAIN mem[a].kids, x \in DOMAIN mem : c = j + 1 /\ x = mem[a].kids[c] /\ In(k, f[x])
  BY <1>1, <1>7, HeapTypes
<1>9. x \in Int
  BY <1>1 DEF Heap
<1>10. \/ GoOn("insert", x) /\ mem' = mem
       \/ /\ Len(mem[x].ents) = MaxKeys /\ mem' = Split(a, c)
          /\ GoOn("insert", IF k > mem[x].ents[SplitIndex + 1].key THEN Fresh ELSE x)
       \/ call' = [call EXCEPT !.at = x, !.short = TRUE] /\ mem' = mem
       \/ Unsound
  BY <1>3, <1>4, <1>6, <1>7, <1>8 DEF InsertBelow, Node, Count
<1>11. "insert" \in Jobs
  BY DEF Jobs
\* Wherever the call is then, if the key is in the range there.
<1>12. ASSUME NEW g, g = mem', NEW y, call'.job = "insert", call'.at = y, call'.key = k,
              call'.op = "insert", Stored(g) = Stored(mem),
              NEW q, NEW e, Ordered(Values, g, root, q, e), In(k, e[y])
       PROVE  OrderInv'
  <2>1. ~Replaced(call') /\ Told(Values, g, call') /\ Sought(call', e)
    BY <1>4, <1>12 DEF Replaced, Told, Has, Sought
  <2>2. OrderIs(Values, g, root, call')
    BY <2>1, <1>12, Resumed
  <2> QED  BY <2>2, <1>2, <1>12, OrderCarried
<1>13. CASE GoOn("insert", x) /\ mem' = mem
  <2>1. call'.job = "insert" /\ call'.at = x /\ call'.key = k /\ call'.op = "insert"
    BY <1>1, <1>2, <1>4, <1>9, <1>11, <1>13, Went
  <2>2. OrderInv'
    BY <2>1, <1>5, <1>8, <1>12, <1>13
  <2> QED  BY <2>2, <1>9, <1>13
<1>14. CASE /\ Len(mem[x].ents) = MaxKeys /\ mem' = Split(a, c)
            /\ GoOn("insert", IF k > mem[x].ents[SplitIndex + 1].key THEN Fresh ELSE x)
  <2>1. PICK b \in Nat : b = Fresh /\ b \notin DOMAIN mem
    BY <1>1, FreshIsFree
  <2>2. PICK g : g = mem' /\ g = SplitAt(mem, a, c, b)
    BY <2>1, <1>14 DEF Split, SplitIds, SplitAt
  <2>3. PICK y : y = IF k > mem[x].ents[SplitIndex + 1].key THEN b ELSE x
    OBVIOUS
  <2>4. (\E q, e : Ordered(Values, g, root, q, e) /\ y \in DOMAIN g /\ In(k, e[y]))
        /\ Stored(g) = Stored(mem)
    BY <2>1, <2>2, <2>3, <1>1, <1>4, <1>5, <1>8, <1>14, SplitSides
  <2>5. PICK q, e : Ordered(Values, g, root, q, e) /\ In(k, e[y])
    BY <2>4
  <2>6. y \in Int /\ GoOn("insert", y)
    BY <2>1, <2>3, <1>9, <1>14
  <2>7. call'.job = "insert" /\ call'.at = y /\ call'.key = k /\ call'.op = "insert"
    BY <2>6, <1>1, <1>2, <1>4, <1>11, Went
  <2>8. OrderInv'
    BY <2>2, <2>4, <2>5, <2>7, <1>12
  <2> QED  BY <2>2, <2>4, <2>6, <2>8
<1>15. CASE call' = [call EXCEPT !.at = x, !.short = TRUE] /\ mem' = mem
  <2>1. call'.job = "insert" /\ call'.at = x /\ call'.key = k /\ call'.op = "insert"
    BY <1>1, <1>2, <1>4, <1>15 DEF Calls
  <2>2. OrderInv'
    BY <2>1, <1>5, <1>8, <1>12, <1>15
  <2> QED  BY <2>2, <1>15
<1>16. CASE Unsound
  <2>1. OrderIs(Values, mem', root', call') /\ mem' = mem
    BY <1>1, <1>2, <1>5, <1>16, Broken
  <2> QED  BY <2>1, <1>2, <1>16, OrderCarried
<1> QED  BY <1>10, <1>13, <1>14, <1>15, <1>16

\* The deletion goes on where it still seeks its key.
LEMMA Removes ==
    ASSUME Asked(call), Told(Values, mem, call), call.job = "remove", ~Replaced(call),
           NEW x \in Int, GoOn("remove", x), NEW g, g = mem', Stored(g) = Stored(mem),
           NEW q, NEW e, Ordered(Values, g, root, q, e), In(call.key, e[x]), root' = root,
           build' = build
    PROVE  OrderInv'
<1>1. call \in Calls /\ "remove" \in Jobs
  BY DEF Asked, Jobs
<1>2. call'.job = "remove" /\ call'.at = x /\ call'.key = call.key /\ call'.op = call.op
      /\ call'.seek = call.seek /\ call'.ret = call.ret
  BY <1>1 DEF GoOn, Calls
<1>3. ~Replaced(call') /\ Told(Values, g, call') /\ Sought(call', e)
  BY <1>2 DEF Replaced, Told, Has, Sought
<1>4. OrderIs(Values, g, root, call')
  BY <1>3, Resumed
<1> QED  BY <1>4, OrderCarried

\* The leaf has the entry that is sought there.
LEMMA OrderRemoveFromLeaf ==
    ASSUME Inv, OrderInv, RemoveFromLeaf
    PROVE  OrderInv' /\ Except(Stored(mem'), call.key) = Except(Stored(mem), call.key)
<1>1. /\ build \in Builds /\ Heap(mem, Entries(Values)) /\ Keys \subseteq Nat
      /\ Asked(call) /\ Told(Values, mem, call) /\ call \in Calls /\ Placed(mem, root, call)
      /\ Twice(mem, call)
      /\ root = NoTree => DOMAIN mem = {}
      /\ root \in Int
      /\ root # NoTree /\ ~Replaced(call) =>
            \E p, f : Ordered(Values, mem, root, p, f) /\ Sought(call, f)
  BY OrderFacts
<1>2. /\ call.job = "remove" /\ build' = build /\ root' = root /\ mem[call.at].kids = <<>>
      /\ call.op = "delete" /\ call.key \in Keys /\ GoOn("shrink", root)
      /\ mem' = IF Held THEN [mem EXCEPT ![call.at].ents = RemoveAt(@, Position)] ELSE mem
  BY <1>1 DEF RemoveFromLeaf, Removing, Node, Asked, IsLeaf
<1>3. PICK a \in DOMAIN mem : a = call.at /\ root # NoTree /\ mem[a].kids = <<>>
  BY <1>1, <1>2 DEF Placed
<1>4. PICK k \in Nat : k = call.key
  BY <1>1, <1>2
<1>5. PICK i : i = Position /\ i = NotLess(mem[a], call.seek)
  BY <1>3 DEF Position, Node
<1>6. call'.job = "shrink" /\ call'.key = k /\ call'.op = "delete" /\ call'.ret = call.ret
  <2>1. "shrink" \in Jobs
    BY DEF Jobs
  <2> QED  BY <2>1, <1>1, <1>2, <1>4 DEF GoOn, Calls
<1>7. call.ret \in Values
  BY <1>1, <1>2 DEF Told
<1>8. PICK g : g = mem'
  OBVIOUS
<1>9. (\E q, e : Ordered(Values, g, root, q, e)) /\ Stored(g) = Except(Stored(mem), k)
  <2>1. CASE Replaced(call)
    <3>1. Holds(mem[a], i, call.seek) /\ Stored(Cleared(mem, call)) = Stored(mem)
      BY <2>1, <1>1, <1>3, <1>5 DEF Twice
    <3>2. Held
      BY <3>1, <1>3, <1>5 DEF Held, Node
    <3>3. g = Cleared(mem, call)
      BY <2>1, <3>2, <1>2, <1>8 DEF Cleared, Position, Node
    <3>4. \E q, e : Ordered(Values, g, root, q, e)
      BY <3>3, <1>3 DEF OrderInv, OrderIs, Searched
    <3>5. ~Has(mem, k)
      BY <2>1, <1>1, <1>2, <1>4 DEF Told
    <3>6. Stored(mem) = Except(Stored(mem), k)
      BY <3>5 DEF Has, Except
    <3> QED  BY <3>1, <3>3, <3>4, <3>6
  <2>2. CASE ~Replaced(call)
    <3>1. call.seek = k /\ Has(mem, k)
      BY <2>2, <1>1, <1>2, <1>4 DEF Replaced, Told
    <3>2. PICK p, f : Ordered(Values, mem, root, p, f) /\ In(k, f[a])
      BY <2>2, <1>1, <1>2, <1>3, <1>4 DEF Sought
    <3>3. i = NotLess(mem[a], k)
      BY <3>1, <1>5
    <3>4. Holds(mem[a], i, k)
      BY <3>1, <3>2, <3>3, <1>3, ScanShows
    <3>5. Held
      BY <3>1, <3>4, <1>3, <1>5 DEF Held, Node
    <3>6. i \in DOMAIN mem[a].ents /\ mem[a].ents[i].key = k
      BY <3>4 DEF Holds
    <3>7. NewEnts(mem, g, a, RemoveAt(mem[a].ents, i))
      BY <3>5, <1>2, <1>3, <1>5, <1>8 DEF NewEnts
    <3>8. Ordered(Values, g, root, p, f) /\ Stored(g) = Stored(mem) \ {mem[a].ents[i]}
      BY <3>2, <3>6, <3>7, <1>3, RemoveOrder
    <3>9. Stored(mem) \ {mem[a].ents[i]} = Except(Stored(mem), k)
      BY <3>2, <3>6, <1>3, OneLess
    <3> QED  BY <3>8, <3>9
  <2> QED  BY <2>1, <2>2
<1>10. ~Replaced(call') /\ Told(Values, g, call') /\ \A e : Sought(call', e)
  BY <1>6, <1>7, <1>9 DEF Replaced, Told, Has, Except, Sought
<1>11. OrderIs(Values, g, root, call')
  BY <1>9, <1>10, Resumed
<1>12. OrderInv'
  BY <1>2, <1>8, <1>11, OrderCarried
<1>13. Except(Stored(g), k) = Except(Stored(mem), k)
  BY <1>9 DEF Except
<1> QED  BY <1>4, <1>8, <1>12, <1>13

LEMMA OrderRemoveBelow ==
    ASSUME Inv, OrderInv, RemoveBelow
    PROVE  OrderInv' /\ Stored(mem') = Stored(mem)
<1>1. /\ build \in Builds /\ Order /\ Heap(mem, Entries(Values)) /\ Sizes(mem, root)
      /\ Keys \subseteq Nat
      /\ Asked(call) /\ Told(Values, mem, call) /\ call \in Calls /\ Placed(mem, root, call)
      /\ Twice(mem, call)
      /\ root = NoTree => DOMAIN mem = {}
      /\ root # NoTree /\ ~Replaced(call) =>
            \E p, f : Ordered(Values, mem, root, p, f) /\ Sought(call, f)
  BY OrderFacts
<1>2. /\ call.job = "remove" /\ build' = build /\ root' = root /\ mem[call.at].kids # <<>>
      /\ call.op = "delete" /\ call.key \in Keys /\ ~Held
  BY <1>1 DEF RemoveBelow, Removing, Node, Asked, IsLeaf
<1>3. PICK a \in DOMAIN mem : a = call.at /\ root # NoTree /\ mem[a].kids # <<>>
  BY <1>1, <1>2 DEF Placed
<1>4. PICK k \in Nat : k = call.key
  BY <1>1, <1>2
<1>5. ~Replaced(call) /\ call.seek = k
  BY <1>1, <1>2, <1>4 DEF Twice, Replaced
<1>6. PICK i : i = Position /\ i = NotLess(mem[a], k)
  BY <1>3, <1>5 DEF Position, Node
<1>7. PICK p, f : Ordered(Values, mem, root, p, f) /\ In(k, f[a])
  BY <1>1, <1>2, <1>3, <1>4, <1>5 DEF Sought
<1>8. ~Holds(mem[a], i, k)
  BY <1>2, <1>3, <1>5, <1>6 DEF Held, Node
<1>9. i \in DOMAIN mem[a].kids /\ In(k, f[mem[a].kids[i]])
  BY <1>3, <1>6, <1>7, <1>8, ScanShows
<1>10. PICK n : n = View(mem, a)
  OBVIOUS
<1>11. IF RefillFits(n, i)
         THEN mem' = RefillAt(mem, a, i)
              /\ GoOn("remove", RefillIds(mem, a, i)[Refill(n, i).at])
         ELSE Unsound
  BY <1>3, <1>6, <1>10 DEF RemoveBelow, RefillAt, RefillIds, Here, Node
<1>12. CASE RefillFits(n, i)
  <2>1. PICK g, x : g = RefillAt(mem, a, i) /\ x = RefillIds(mem, a, i)[Refill(View(mem, a), i).at]
    OBVIOUS
  <2>2. Len(mem[a].ents) >= 1 \/ Len(mem[mem[a].kids[i]].ents) # MinKeys
    <3>1. PICK S : S = Others(mem, p, a)
      OBVIOUS
    <3>2. Heap(mem, Entries(Values)) /\ Tree(mem, root, p)
      BY <1>7 DEF Ordered
    <3>3. /\ n \in Nodes(Entries(Values), Nodes(Entries(Values), S)) /\ Shaped(n)
          /\ n.ents = mem[a].ents /\ DOMAIN n.kids = DOMAIN mem[a].kids
          /\ \A j \in DOMAIN mem[a].kids : n.kids[j] = mem[mem[a].kids[j]]
      BY <3>1, <3>2, <1>3, <1>10, TreeView
    <3>4. \A c \in DOMAIN n.kids : Count(n.kids[c]) <= MaxKeys
      BY <3>2, <1>1, <1>10, SizesBelow
    <3>5. i \in DOMAIN n.kids
      BY <3>3, <1>9
    <3>6. Count(n) >= 1 \/ Count(n.kids[i]) # MinKeys
      BY <3>3, <3>4, <3>5, <1>1, <1>12, RefillSizes
    <3> QED  BY <3>3, <3>6, <1>9 DEF Count
  <2>3. (\E q, e : Ordered(Values, g, root, q, e) /\ x \in DOMAIN g /\ In(k, e[x]))
        /\ Stored(g) = Stored(mem)
    BY <2>1, <2>2, <1>1, <1>7, <1>9, RefillOrder
  <2>4. PICK q, e : Ordered(Values, g, root, q, e) /\ x \in DOMAIN g /\ In(k, e[x])
    BY <2>3
  <2>5. x \in Int
    BY <2>4 DEF Ordered, Heap
  <2>6. g = mem' /\ GoOn("remove", x)
    BY <2>1, <1>10, <1>11, <1>12
  <2>7. OrderInv'
    BY <2>3, <2>4, <2>5, <2>6, <1>1, <1>2, <1>4, <1>5, Removes
  <2> QED  BY <2>3, <2>6, <2>7
<1>13. CASE ~RefillFits(n, i)
  <2>1. Unsound
    BY <1>11, <1>13
  <2>2. OrderIs(Values, mem', root', call') /\ mem' = mem
    BY <2>1, <1>1, <1>2, <1>7, Broken
  <2> QED  BY <2>2, <1>2, OrderCarried
<1> QED  BY <1>12, <1>13

LEMMA OrderMergeBoth ==
    ASSUME Inv, OrderInv, MergeBoth
    PROVE  OrderInv' /\ Stored(mem') = Stored(mem)
<1>1. /\ build \in Builds /\ Heap(mem, Entries(Values)) /\ Keys \subseteq Nat
      /\ Asked(call) /\ Told(Values, mem, call) /\ call \in Calls /\ Placed(mem, root, call)
      /\ Twice(mem, call)
      /\ root = NoTree => DOMAIN mem = {}
      /\ root # NoTree /\ ~Replaced(call) =>
            \E p, f : Ordered(Values, mem, root, p, f) /\ Sought(call, f)
  BY OrderFacts
<1>2. /\ call.job = "remove" /\ build' = build /\ root' = root /\ mem[call.at].kids # <<>>
      /\ call.op = "delete" /\ call.key \in Keys /\ Held
  BY <1>1 DEF MergeBoth, Internal, Removing, Node, Asked, IsLeaf
<1>3. PICK a \in DOMAIN mem : a = call.at /\ root # NoTree /\ mem[a].kids # <<>>
  BY <1>1, <1>2 DEF Placed
<1>4. PICK k \in Nat : k = call.key
  BY <1>1, <1>2
<1>5. ~Replaced(call) /\ call.seek = k
  BY <1>1, <1>2, <1>4 DEF Twice, Replaced
<1>6. PICK i \in 1 .. Len(mem[a].ents) : i = Position /\ mem[a].ents[i].key = k
  <2>1. Position \in DOMAIN mem[a].ents /\ mem[a].ents[Position].key = k
    BY <1>2, <1>3, <1>5 DEF Held, Holds, Node
  <2>2. DOMAIN mem[a].ents = 1 .. Len(mem[a].ents)
    BY <1>1, HeapTypes
  <2> QED  BY <2>1, <2>2
<1>7. PICK p, f : Ordered(Values, mem, root, p, f)
  BY <1>1, <1>3, <1>5
<1>8. \/ mem' = MergeAt(mem, a, i) /\ GoOn("remove", mem[a].kids[i])
      \/ Unsound
  BY <1>3, <1>6 DEF MergeBoth, MergeAt, Here, Node, Child
<1>9. CASE mem' = MergeAt(mem, a, i) /\ GoOn("remove", mem[a].kids[i])
  <2>1. PICK g, x : g = MergeAt(mem, a, i) /\ x = mem[a].kids[i]
    OBVIOUS
  <2>2. (\E q, e : Ordered(Values, g, root, q, e) /\ x \in DOMAIN g /\ In(k, e[x]))
        /\ Stored(g) = Stored(mem)
    BY <2>1, <1>3, <1>6, <1>7, MergeOrder
  <2>3. PICK q, e : Ordered(Values, g, root, q, e) /\ x \in DOMAIN g /\ In(k, e[x])
    BY <2>2
  <2>4. x \in Int
    BY <2>3 DEF Ordered, Heap
  <2>5. g = mem' /\ GoOn("remove", x)
    BY <2>1, <1>9
  <2>6. OrderInv'
    BY <2>2, <2>3, <2>4, <2>5, <1>1, <1>2, <1>4, <1>5, Removes
  <2> QED  BY <2>2, <2>5, <2>6
<1>10. CASE Unsound
  <2>1. OrderIs(Values, mem', root', call') /\ mem' = mem
    BY <1>1, <1>2, <1>7, <1>10, Broken
  <2> QED  BY <2>1, <1>2, OrderCarried
<1> QED  BY <1>8, <1>9, <1>10

\* An entry taken from the end of a leaf next to the one it replaces.
LEMMA OrderReplace ==
    ASSUME Inv, OrderInv, Internal, NEW a \in DOMAIN mem, a = call.at, NEW i, i = Position,
           NEW b, NEW c, Neighbour(mem, a, i, b, c), NEW d, d = mem[b].ents[c], Replace(d, b)
    PROVE  OrderInv' /\ Stored(mem') = Except(Stored(mem), call.key)
<1>1. /\ build \in Builds /\ Heap(mem, Entries(Values)) /\ Keys \subseteq Nat
      /\ Asked(call) /\ Told(Values, mem, call) /\ call \in Calls
      /\ Twice(mem, call)
      /\ root = NoTree => DOMAIN mem = {}
      /\ root # NoTree /\ ~Replaced(call) =>
            \E p, f : Ordered(Values, mem, root, p, f) /\ Sought(call, f)
  BY OrderFacts
<1>2. /\ call.job = "remove" /\ mem[a].kids # <<>> /\ call.op = "delete" /\ call.key \in Keys
      /\ Held /\ root # NoTree
  BY <1>1 DEF Internal, Removing, Node, Asked, IsLeaf
<1>3. PICK k \in Nat : k = call.key
  BY <1>1, <1>2
<1>4. ~Replaced(call) /\ call.seek = k
  BY <1>1, <1>2, <1>3 DEF Twice, Replaced
<1>5. PICK p, f : Ordered(Values, mem, root, p, f)
  BY <1>1, <1>2, <1>4
<1>6. /\ i \in DOMAIN mem[a].ents /\ mem[a].ents[i].key = k
      /\ b \in DOMAIN mem /\ mem[b].kids = <<>> /\ c \in DOMAIN mem[b].ents
  BY <1>2, <1>4 DEF Neighbour, Held, Holds, Node
<1>7. /\ build' = build /\ root' = root /\ mem' = [mem EXCEPT ![a].ents[i] = d]
      /\ call' = [call EXCEPT !.seek = d.key, !.at = b]
  BY DEF Replace
<1>8. PICK m : m = mem' /\ Promoted(mem, m, a, i, b, c)
  BY <1>7 DEF Promoted
<1>9. PICK g : TakenOut(m, g, b, c)
  BY DEF TakenOut
<1>10. Stored(g) = Stored(mem) \ {mem[a].ents[i]} /\ Stored(m) = Stored(g)
  BY <1>5, <1>8, <1>9, PromoteStored
<1>11. PICK e : Ordered(Values, g, root, p, e)
  <2>1. Ordered(Values, g, root, p, Relabel(g, p, f, a))
    BY <1>5, <1>8, <1>9, PromoteOrder
  <2> QED  BY <2>1
<1>12. Stored(mem) \ {mem[a].ents[i]} = Except(Stored(mem), k)
  BY <1>5, <1>6, OneLess
\* The scan of the leaf for the key that is twice in the tree finds it at its end.
<1>13. PICK s \in Seq(Entries(Values)) : s = mem[b].ents
  BY <1>1, <1>6, HeapTypes
<1>14. d.key \in Nat
  BY <1>6, <1>13, KeysAre
<1>15. PICK j : j = NotLess(mem[b], d.key)
  OBVIOUS
<1>16. j = c
  <2>1. In(d.key, f[b])
    BY <1>5, <1>6, Orders DEF Within
  <2>2. Holds(mem[b], j, d.key)
    <3>1. \E x \in DOMAIN mem[b].ents : mem[b].ents[x].key = d.key
      BY <1>6
    <3> QED  BY <2>1, <3>1, <1>5, <1>6, <1>14, <1>15, Scans
  <2>3. j \in DOMAIN mem[b].ents /\ mem[b].ents[j].key = mem[b].ents[c].key
    BY <2>2 DEF Holds
  <2> QED  BY <2>3, <1>5, <1>6, Unique
<1>17. a # b
  BY <1>2, <1>6
<1>18. b \in DOMAIN m /\ m[b] = mem[b]
  BY <1>6, <1>7, <1>8, <1>17
<1>19. k # d.key
  BY <1>5, <1>6, <1>17, Unique
<1>20. /\ call'.job = "remove" /\ call'.key = k /\ call'.op = "delete" /\ call'.ret = call.ret
       /\ call'.seek = d.key /\ call'.at = b
  BY <1>1, <1>2, <1>3, <1>7 DEF Calls
<1>21. Replaced(call')
  BY <1>19, <1>20 DEF Replaced
<1>22. Cleared(m, call') = g
  BY <1>9, <1>15, <1>16, <1>18, <1>20, <1>21 DEF Cleared, TakenOut
<1>23. Twice(m, call')
  BY <1>6, <1>10, <1>15, <1>16, <1>18, <1>20, <1>22 DEF Twice, Holds
<1>24. Searched(Values, m, root, call')
  BY <1>11, <1>21, <1>22 DEF Searched, Sought
<1>25. ~Has(m, k)
  BY <1>10, <1>12 DEF Has, Except
<1>26. Told(Values, m, call')
  BY <1>1, <1>2, <1>20, <1>21, <1>25 DEF Told
<1>27. OrderIs(Values, m, root, call')
  BY <1>23, <1>24, <1>26 DEF OrderIs
<1>28. OrderInv'
  BY <1>7, <1>8, <1>27, OrderCarried
<1> QED  BY <1>3, <1>8, <1>10, <1>12, <1>28

LEMMA OrderTakePredecessor ==
    ASSUME Inv, OrderInv, FromLeaves, TakePredecessor
    PROVE  OrderInv' /\ Stored(mem') = Except(Stored(mem), call.key)
<1>1. /\ Order /\ Heap(mem, Entries(Values)) /\ Placed(mem, root, call)
      /\ root = NoTree => DOMAIN mem = {}
      /\ root # NoTree => \E p : Tree(mem, root, p)
  BY OrderFacts
<1>2. /\ Internal /\ call.job = "remove" /\ mem[call.at].kids # <<>> /\ Held
      /\ Len(mem[mem[call.at].kids[Position]].ents) > MinKeys
      /\ mem[mem[call.at].kids[Position]].kids = <<>>
      /\ Replace(Last(mem[mem[call.at].kids[Position]].ents), mem[call.at].kids[Position])
  BY DEF TakePredecessor, FromLeaves, Internal, Removing, LeftSpares, Child, Node, Count, IsLeaf
<1>3. PICK a \in DOMAIN mem : a = call.at /\ root # NoTree
  BY <1>1, <1>2 DEF Placed
<1>4. PICK p : Tree(mem, root, p)
  BY <1>1, <1>3
<1>5. PICK i \in DOMAIN mem[a].ents : i = Position
  BY <1>2, <1>3 DEF Held, Holds, Node
<1>6. i \in DOMAIN mem[a].kids
  BY <1>1, <1>2, <1>3, <1>4, <1>5, Stops DEF Position, Node
<1>7. PICK b \in DOMAIN mem : b = mem[a].kids[i]
  BY <1>1, <1>6, HeapTypes
<1>8. PICK c \in Nat : c = Len(mem[b].ents) /\ DOMAIN mem[b].ents = 1 .. c /\ c > MinKeys
  BY SMTT(40), <1>1, <1>2, <1>3, <1>5, <1>7, HeapTypes
<1>9. c \in DOMAIN mem[b].ents /\ Last(mem[b].ents) = mem[b].ents[c]
  <2>1. MinKeys \in Nat
    BY <1>1, Bounds
  <2> QED  BY <2>1, <1>8 DEF Last
<1>10. Neighbour(mem, a, i, b, c)
  BY <1>2, <1>3, <1>5, <1>7, <1>8, <1>9 DEF Neighbour
<1>11. PICK d : d = mem[b].ents[c] /\ Replace(d, b)
  BY <1>2, <1>3, <1>5, <1>7, <1>9
<1> QED  BY <1>2, <1>3, <1>5, <1>10, <1>11, OrderReplace

LEMMA OrderTakeSuccessor ==
    ASSUME Inv, OrderInv, FromLeaves, TakeSuccessor
    PROVE  OrderInv' /\ Stored(mem') = Except(Stored(mem), call.key)
<1>1. /\ Order /\ Heap(mem, Entries(Values)) /\ Placed(mem, root, call)
      /\ root = NoTree => DOMAIN mem = {}
      /\ root # NoTree => \E p : Tree(mem, root, p)
  BY OrderFacts
<1>2. /\ Internal /\ call.job = "remove" /\ mem[call.at].kids # <<>> /\ Held
      /\ Len(mem[mem[call.at].kids[Position + 1]].ents) > MinKeys
      /\ mem[mem[call.at].kids[Position]].kids = <<>>
      /\ Replace(Head(mem[mem[call.at].kids[Position + 1]].ents), mem[call.at].kids[Position + 1])
  BY DEF TakeSuccessor, FromLeaves, Internal, Removing, RightSpares, Child, Node, Count, IsLeaf
<1>3. PICK a \in DOMAIN mem : a = call.at /\ root # NoTree
  BY <1>1, <1>2 DEF Placed
<1>4. PICK p : Tree(mem, root, p)
  BY <1>1, <1>3
<1>5. PICK i \in DOMAIN mem[a].ents : i = Position
  BY <1>2, <1>3 DEF Held, Holds, Node
<1>6. i \in DOMAIN mem[a].kids /\ i + 1 \in DOMAIN mem[a].kids
  <2>1. PICK l \in Nat : l = Len(mem[a].ents) /\ DOMAIN mem[a].ents = 1 .. l
    BY <1>1, HeapTypes
  <2>2. DOMAIN mem[a].kids = 1 .. Len(mem[a].kids)
    BY <1>1, HeapTypes
  <2>3. Heap(mem, Entries(Values)) /\ mem[a].kids # <<>>
    BY <1>1, <1>2, <1>3
  <2>4. Len(mem[a].kids) = Len(mem[a].ents) + 1
    BY <2>3, <1>4, TreeTypes
  <2> QED  BY <2>1, <2>2, <2>4, <1>5
<1>7. PICK x, b : x = mem[a].kids[i] /\ b = mem[a].kids[i + 1]
  OBVIOUS
\* Both children are equally far from the leaves.
<1>8. b \in DOMAIN mem /\ mem[b].kids = <<>>
  <2>1. x \in DOMAIN mem /\ b \in DOMAIN mem /\ p[x].level = p[b].level
    BY <1>1, <1>4, <1>6, <1>7, Kid
  <2>2. Heap(mem, Entries(Values)) /\ mem[x].kids = <<>>
    BY <1>1, <1>2, <1>3, <1>5, <1>7
  <2>3. p[x].level = 0
    BY <2>1, <2>2, <1>4, TreeTypes
  <2>4. p[b].level = 0
    BY <2>1, <2>3
  <2>5. mem[b].kids = <<>>
    BY <2>1, <2>2, <2>4, <1>4, TreeTypes
  <2> QED  BY <2>1, <2>5
<1>9. PICK c \in Nat : c = Len(mem[b].ents) /\ DOMAIN mem[b].ents = 1 .. c /\ c > MinKeys
  <2>1. Len(mem[b].ents) > MinKeys
    BY <1>2, <1>3, <1>5, <1>7
  <2>2. Len(mem[b].ents) \in Nat /\ DOMAIN mem[b].ents = 1 .. Len(mem[b].ents)
    BY <1>1, <1>8, HeapTypes
  <2> QED  BY <2>1, <2>2
<1>10. 1 \in DOMAIN mem[b].ents /\ Head(mem[b].ents) = mem[b].ents[1]
  <2>1. MinKeys \in Nat
    BY <1>1, Bounds
  <2>2. mem[b].ents \in Seq(Entries(Values))
    BY <1>1, <1>8, HeapTypes
  <2> QED  BY <2>1, <2>2, <1>9
<1>11. Neighbour(mem, a, i, b, 1)
  BY <1>2, <1>3, <1>5, <1>7, <1>8, <1>10 DEF Neighbour
<1>12. PICK d : d = mem[b].ents[1] /\ Replace(d, b)
  BY <1>2, <1>3, <1>5, <1>7, <1>10
<1> QED  BY <1>2, <1>3, <1>5, <1>11, <1>12, OrderReplace

LEMMA OrderShrinkRoot ==
    ASSUME Inv, OrderInv, ShrinkRoot
    PROVE  OrderInv' /\ Stored(mem') = Stored(mem) /\ root # NoTree /\ root' # NoTree /\ root' \in Int
<1>1. /\ build \in Builds /\ Heap(mem, Entries(Values)) /\ Keys \subseteq Nat
      /\ Asked(call) /\ Told(Values, mem, call) /\ call \in Calls /\ Placed(mem, root, call)
      /\ root # NoTree => root \in DOMAIN mem /\ \E p : Tree(mem, root, p)
      /\ root \in Int
      /\ root # NoTree /\ ~Replaced(call) =>
            \E p, f : Ordered(Values, mem, root, p, f) /\ Sought(call, f)
  BY OrderFacts
<1>2. call.job = "shrink" /\ build' = build /\ call.key \in Keys /\ call.op = "delete"
      /\ GoOn("verify", root')
  BY <1>1 DEF ShrinkRoot, Asked
<1>3. PICK p, f : Ordered(Values, mem, root, p, f) /\ root \in DOMAIN mem /\ root # NoTree
  BY <1>1, <1>2 DEF Placed, Replaced
<1>4. PICK k \in Nat : k = call.key /\ k \in Keys /\ ~Has(mem, k)
  BY <1>1, <1>2 DEF Told
<1>5. \E g, r, q, e : /\ mem' = g /\ root' = r /\ r \in Int /\ r # NoTree
                      /\ Ordered(Values, g, r, q, e) /\ Stored(g) = Stored(mem)
  <2>1. CASE Emptied
    <3>1. mem[root].ents = <<>> /\ mem[root].kids # <<>>
      <4>1. PICK s \in Seq(Entries(Values)) : s = mem[root].ents
        BY <1>1, <1>3, HeapTypes
      <4>2. Len(s) = 0
        BY <2>1, <4>1 DEF Emptied, Count
      <4>3. s = <<>>
        BY <4>2, EmptySeq
      <4> QED  BY <4>1, <4>3, <2>1 DEF Emptied, IsLeaf
    <3>2. PICK g : g = mem' /\ Lowered(mem, g, root)
      BY <2>1 DEF ShrinkRoot, FreeOldRoot, Lowered
    <3>3. PICK r : r = root' /\ r = mem[root].kids[1]
      BY <2>1 DEF ShrinkRoot
    <3>4. (\E q, e : Ordered(Values, g, mem[root].kids[1], q, e)) /\ Stored(g) = Stored(mem)
      BY <3>1, <3>2, <1>3, ShrinkOrder
    <3>5. PICK q, e : Ordered(Values, g, r, q, e)
      BY <3>3, <3>4
    <3>6. r \in Int /\ r # NoTree
      BY <3>5 DEF Ordered, Tree, Heap, NoTree
    <3> QED  BY <3>2, <3>3, <3>4, <3>5, <3>6
  <2>2. CASE ~Emptied
    <3>1. mem' = mem /\ root' = root
      BY <2>2 DEF ShrinkRoot
    <3> QED  BY <3>1, <1>1, <1>3
  <2> QED  BY <2>1, <2>2
<1>6. PICK g, r, q, e : /\ mem' = g /\ root' = r /\ r \in Int /\ r # NoTree
                        /\ Ordered(Values, g, r, q, e) /\ Stored(g) = Stored(mem)
  BY <1>5
<1>7. call'.job = "verify" /\ call'.at = r /\ call'.key = k /\ call'.op = "delete"
      /\ call'.ret = call.ret
  <2>1. "verify" \in Jobs
    BY DEF Jobs
  <2> QED  BY <2>1, <1>1, <1>2, <1>4, <1>6 DEF GoOn, Calls
<1>8. ~Replaced(call') /\ Told(Values, g, call')
  BY <1>1, <1>2, <1>4, <1>6, <1>7 DEF Replaced, Told, Has
<1>9. Sought(call', e)
  <2>1. e[r] = Whole
    BY <1>6 DEF Ordered, Labels
  <2> QED  BY <2>1, <1>1, <1>4, <1>7, InWhole DEF Sought
<1>10. OrderIs(Values, g, r, call')
  BY <1>6, <1>8, <1>9, Resumed
<1>11. OrderInv'
  BY <1>2, <1>6, <1>10, OrderCarried
<1> QED  BY <1>3, <1>6, <1>11

LEMMA OrderCreate ==
    ASSUME Inv, OrderInv, Create
    PROVE  /\ OrderInv' /\ Stored(mem) = {} /\ Stored(mem') = {} /\ call.op = "create"
           /\ \/ Return(1) /\ root' # NoTree
              \/ Return(0) /\ Short /\ root' = root
<1>1. /\ build \in Builds /\ Heap(mem, Entries(Values))
      /\ Asked(call) /\ Told(Values, mem, call) /\ Placed(mem, root, call)
      /\ root = NoTree => DOMAIN mem = {} /\ Stored(mem) = {}
  BY OrderFacts
<1>2. call.job = "create" /\ build' = build /\ call.op = "create"
  BY <1>1 DEF Create, Told
<1>3. root = NoTree /\ DOMAIN mem = {} /\ Stored(mem) = {}
  BY <1>1, <1>2 DEF Placed
<1>4. \/ Return(0) /\ Short /\ mem' = mem /\ root' = root
      \/ Return(1) /\ mem' = With(mem, Fresh, Leaf) /\ root' = Fresh
  BY <1>1, Mallocs DEF Create
<1>5. CASE Return(0) /\ Short /\ mem' = mem /\ root' = root
  <2>1. OrderIs(Values, mem, root, call')
    BY <1>1, <1>3, <1>5, Settled
  <2>2. OrderInv'
    BY <2>1, <1>2, <1>5, OrderCarried
  <2> QED  BY <2>2, <1>2, <1>3, <1>5
<1>6. CASE Return(1) /\ mem' = With(mem, Fresh, Leaf) /\ root' = Fresh
  <2>1. PICK a \in Nat : a = Fresh
    BY <1>1, FreshIsFree
  <2>2. PICK g : g = [x \in {a} |-> Leaf]
    OBVIOUS
  <2>3. mem' = g
    BY <2>1, <2>2, <1>3, <1>6 DEF With
  <2>4. (\E p, f : Ordered(Values, g, a, p, f)) /\ Stored(g) = {}
    BY <2>2, OneOrder
  <2>5. OrderIs(Values, g, a, call')
    BY <2>4, <1>1, <1>6, Settled
  <2>6. OrderInv'
    BY <2>1, <2>3, <2>5, <1>2, <1>6, OrderCarried
  <2>7. a # NoTree
    BY <2>1 DEF NoTree
  <2> QED  BY <2>1, <2>3, <2>4, <2>6, <2>7, <1>2, <1>3, <1>6
<1> QED  BY <1>4, <1>5, <1>6

LEMMA OrderFree ==
    ASSUME Inv, OrderInv, Free
    PROVE  OrderInv' /\ Stored(mem') = {} /\ call.op = "free"
<1>1. /\ Heap(mem, Entries(Values)) /\ Asked(call) /\ Told(Values, mem, call)
      /\ Placed(mem, root, call)
      /\ root # NoTree => \E p : Tree(mem, root, p)
  BY OrderFacts
<1>2. call.job = "free" /\ build' = build /\ root' = NoTree /\ Return(1) /\ call.op = "free"
      /\ mem' = Restrict(mem, DOMAIN mem \ Under[root])
  BY <1>1 DEF Free, Told
<1>3. PICK p : Tree(mem, root, p)
  BY <1>1, <1>2 DEF Placed
<1>4. Under[root] = DOMAIN mem
  BY <1>1, <1>3, UnderAll
<1>5. PICK g, D : g = mem' /\ D = DOMAIN g
  OBVIOUS
<1>6. D = {}
  BY <1>2, <1>4, <1>5 DEF Restrict
<1>7. Stored(g) = {}
  BY <1>5, <1>6 DEF Stored
<1>8. OrderIs(Values, g, NoTree, call')
  BY <1>1, <1>2, Settled
<1>9. OrderInv'
  BY <1>2, <1>5, <1>8, OrderCarried
<1> QED  BY <1>2, <1>5, <1>7, <1>9

LEMMA OrderStill == ASSUME OrderInv, Still PROVE OrderInv'
<1>1. build' = build /\ mem' = mem /\ root' = root /\ call' = call
  BY DEF Still
<1>2. OrderIs(Values, mem', root', call')
  BY <1>1 DEF OrderInv
<1> QED  BY <1>1, <1>2, OrderCarried

\* Every step keeps the order, if no key is inserted that is in the tree, and the
\* entry that replaces another comes from a leaf.
LEMMA KeepsOrder ==
    ASSUME Inv, OrderInv, [Next]_vars, ~Reinsert, FromLeaves
    PROVE  OrderInv'
BY OrderBeginCall, OrderDescend, OrderMiss, OrderFind, OrderGrowRoot, OrderSplitRoot,
   OrderInsertIntoLeaf, OrderInsertBelow, OrderRemoveFromLeaf, OrderRemoveBelow,
   OrderTakePredecessor, OrderTakeSuccessor, OrderMergeBoth, OrderShrinkRoot, OrderCreate,
   OrderFree, OrderStill, Steps

-----------------------------------------------------------------------------
(* What follows from it                                                      *)

LEMMA BelowRange ==
    ASSUME NEW V, NEW p, NEW f, Ordered(V, mem, root, p, f)
    PROVE  \A a \in DOMAIN mem : \A b \in Under[a] :
              b \in DOMAIN mem /\ f[a].lo <= f[b].lo /\ f[b].hi <= f[a].hi
<1>1. Heap(mem, Entries(V)) /\ Tree(mem, root, p) /\ Labels(mem, root, f)
  BY DEF Ordered
<1>2. \A a \in DOMAIN mem : Under[a] = {a} \cup UNION {Under[b] : b \in Range(mem[a].kids)}
  BY <1>1, UnderIs
<1>3. \A a \in DOMAIN mem : p[a].level \in Nat
  BY <1>1, TreeTypes
<1>4. \A a \in DOMAIN mem : f[a].lo \in Int /\ f[a].hi \in Int
  BY <1>1 DEF Labels, Spans
<1> DEFINE Good(a) == \A b \in Under[a] :
                         b \in DOMAIN mem /\ f[a].lo <= f[b].lo /\ f[b].hi <= f[a].hi
           T == {p[a].level : a \in {x \in DOMAIN mem : ~Good(x)}}
<1>5. SUFFICES ASSUME T # {} PROVE FALSE
  OBVIOUS
<1>6. T \subseteq Nat
  BY <1>3
<1>7. PICK l \in T : \A k \in T : l <= k
  <2> HIDE DEF T
  <2> QED  BY <1>5, <1>6, LeastNat
<1>8. PICK a \in DOMAIN mem : l = p[a].level /\ ~Good(a)
  BY <1>7
<1>9. ASSUME NEW b \in Range(mem[a].kids)
      PROVE  b \in DOMAIN mem /\ Good(b) /\ f[a].lo <= f[b].lo /\ f[b].hi <= f[a].hi
  <2>1. PICK i \in DOMAIN mem[a].kids : b = mem[a].kids[i]
    BY DEF Range
  <2>2. b \in DOMAIN mem /\ p[b].level = p[a].level - 1
    BY <2>1, <1>1, Kid
  <2>3. Good(b)
    <3>1. ~Good(b) => p[b].level \in T
      BY <2>2
    <3> HIDE DEF T, Good
    <3> QED  BY <3>1, <2>2, <1>3, <1>7, <1>8
  <2>4. f[b] = Between(mem[a].ents, i, f[a])
    BY <2>1, <1>1 DEF Labels
  <2>5. PICK s \in Seq(Entries(V)), w \in Spans : s = mem[a].ents /\ w = f[a] /\ Within(s, w)
    BY Orders
  <2>6. i \in 1 .. Len(s) + 1
    <3>1. Len(mem[a].kids) = Len(mem[a].ents) + 1
      BY <2>1, <1>1, TreeTypes
    <3>2. DOMAIN mem[a].kids = 1 .. Len(mem[a].kids)
      BY <1>1, HeapTypes
    <3> QED  BY <2>1, <2>5, <3>1, <3>2
  <2>7. Between(s, i, w).lo >= w.lo /\ Between(s, i, w).hi <= w.hi
    BY <2>5, <2>6, Wider
  <2> HIDE DEF Good
  <2> QED  BY <2>2, <2>3, <2>4, <2>5, <2>7, <1>4
<1>10. Good(a)
  <2> SUFFICES ASSUME NEW b \in Under[a]
               PROVE  b \in DOMAIN mem /\ f[a].lo <= f[b].lo /\ f[b].hi <= f[a].hi
    OBVIOUS
  <2>1. CASE b = a
    BY <2>1, <1>4
  <2>2. CASE b # a
    <3>1. PICK c \in Range(mem[a].kids) : b \in Under[c]
      BY <2>2, <1>2
    <3>2. /\ c \in DOMAIN mem /\ f[a].lo <= f[c].lo /\ f[c].hi <= f[a].hi
          /\ b \in DOMAIN mem /\ f[c].lo <= f[b].lo /\ f[b].hi <= f[c].hi
      BY <3>1, <1>9
    <3> QED  BY <3>2, <1>4
  <2> QED  BY <2>1, <2>2
<1> QED  BY <1>8, <1>10

LEMMA InvSorted == ASSUME Inv, OrderInv PROVE Sorted
<1>1. /\ root = NoTree => DOMAIN mem = {}
      /\ root # NoTree /\ ~Replaced(call) =>
            \E p, f : Ordered(Values, mem, root, p, f) /\ Sought(call, f)
  BY OrderFacts
<1> SUFFICES ASSUME call.job # "remove", NEW a \in DOMAIN mem
             PROVE  /\ \A i, j \in DOMAIN mem[a].ents : i < j => mem[a].ents[i].key < mem[a].ents[j].key
                    /\ \A i \in DOMAIN mem[a].kids : \A b \in Under[mem[a].kids[i]] :
                          \A e \in Range(mem[b].ents) :
                             /\ i > 1 => mem[a].ents[i - 1].key < e.key
                             /\ i <= Len(mem[a].ents) => e.key < mem[a].ents[i].key
  BY DEF Sorted, Removing, Count
<1>2. PICK p, f : Ordered(Values, mem, root, p, f)
  BY <1>1 DEF Replaced
<1>3. Heap(mem, Entries(Values)) /\ Tree(mem, root, p)
  BY <1>2 DEF Ordered
<1>4. \A i, j \in DOMAIN mem[a].ents : i < j => mem[a].ents[i].key < mem[a].ents[j].key
  BY <1>2, Orders DEF Within, Rising
<1>5. ASSUME NEW i \in DOMAIN mem[a].kids, NEW b \in Under[mem[a].kids[i]],
             NEW e \in Range(mem[b].ents)
      PROVE  /\ i > 1 => mem[a].ents[i - 1].key < e.key
             /\ i <= Len(mem[a].ents) => e.key < mem[a].ents[i].key
  <2>1. PICK x \in DOMAIN mem : x = mem[a].kids[i]
    BY <1>3, HeapTypes
  <2>2. b \in DOMAIN mem /\ f[x].lo <= f[b].lo /\ f[b].hi <= f[x].hi
    BY <2>1, <1>2, BelowRange
  <2>3. PICK j \in DOMAIN mem[b].ents : e = mem[b].ents[j]
    BY DEF Range
  <2>4. e.key \in Int /\ In(e.key, f[b])
    <3>1. mem[b].ents \in Seq(Entries(Values)) /\ Within(mem[b].ents, f[b])
      BY <2>2, <1>2, Orders
    <3>2. e.key \in Nat
      BY <2>3, <3>1, KeysAre
    <3> QED  BY <2>3, <3>1, <3>2 DEF Within
  <2>5. In(e.key, f[x])
    <3>1. f[x] \in Spans /\ f[b] \in Spans
      BY <2>1, <2>2, <1>2, Orders
    <3> QED  BY <3>1, <2>2, <2>4 DEF In, Spans
  <2>6. \A c \in 1 .. Len(mem[a].ents) : IF c < i THEN mem[a].ents[c].key < e.key
                                         ELSE e.key < mem[a].ents[c].key
    BY <2>1, <2>4, <2>5, <1>2, Inside
  <2>7. PICK n \in Nat : n = Len(mem[a].ents) /\ i \in 1 .. n + 1
    <3>1. Len(mem[a].kids) = Len(mem[a].ents) + 1
      BY <1>3, TreeTypes
    <3>2. DOMAIN mem[a].kids = 1 .. Len(mem[a].kids) /\ Len(mem[a].ents) \in Nat
      BY <1>3, HeapTypes
    <3> QED  BY <3>1, <3>2
  <2>8. i > 1 => i - 1 \in 1 .. n /\ i - 1 < i
    BY <2>7
  <2>9. i <= n => i \in 1 .. n /\ ~(i < i)
    BY <2>7
  <2> QED  BY <2>6, <2>7, <2>8, <2>9
<1> QED  BY <1>4, <1>5

LEMMA OrderKept ==
    ASSUME \A b \in Builds : ~b.reinsert
    PROVE  Spec /\ []FromLeaves => [](Inv /\ OrderInv)
<1>1. ASSUME Inv, OrderInv, FromLeaves, [Next]_vars PROVE OrderInv'
  <2>1. build \in Builds
    BY <1>1, InvFacts
  <2>2. ~Reinsert
    BY <2>1 DEF Reinsert
  <2> QED  BY <2>2, <1>1, KeepsOrder
<1> QED  BY <1>1, StartsOrder, InductiveInvariant, PTL DEF Spec

\* Whatever the order of the tree and its height: as long as no key is inserted
\* that is in it, and the entries that replace deleted ones come from leaves, the
\* nodes are in search order after every step but those that remove an entry.
\* Both provisos are needed: see the runs TreeReinsert and TreeDeep.
THEOREM SortedHolds ==
    ASSUME \A b \in Builds : ~b.reinsert
    PROVE  Spec /\ []FromLeaves => []Sorted
<1>1. Spec /\ []FromLeaves => [](Inv /\ OrderInv)
  BY OrderKept
<1> QED  BY <1>1, InvSorted, PTL

LEMMA LeavesWhenKept == ASSUME Inv, ~Deletes PROVE FromLeaves
<1>1. Asked(call)
  BY InvFacts
<1>2. call.job # "remove"
  BY <1>1 DEF Asked
<1> QED  BY <1>2 DEF FromLeaves, Internal, Removing

\* Where nothing is deleted, as in the application, the first proviso is enough
\* for the search order (btree_insert).
THEOREM SortedWithoutDeletions ==
    ASSUME \A b \in Builds : ~b.reinsert /\ ~b.deletes
    PROVE  Spec => []Sorted
<1>1. ASSUME Inv PROVE FromLeaves
  <2>1. build \in Builds
    BY <1>1, InvFacts
  <2>2. ~Deletes
    BY <2>1 DEF Deletes
  <2> QED  BY <2>2, <1>1, LeavesWhenKept
<1>2. \A b \in Builds : ~b.reinsert
  OBVIOUS
<1>3. Spec /\ []FromLeaves => []Sorted
  BY <1>2, SortedHolds
<1> QED  BY <1>1, <1>3, InductiveInvariant, PTL

-----------------------------------------------------------------------------
(* What is found in the tree                                                 *)

\* The map that is stored, in a memory with entries S, and its call.
LookupIn(S, k) == IF \E e \in S : e.key = k THEN (CHOOSE e \in S : e.key = k).val ELSE Null
Underway(c)  == c.op = "delete" /\ c.job \notin {"idle", "search"}
MapOf(S, c)  == [k \in AllKeys |-> IF Underway(c) /\ k = c.key THEN c.ret ELSE LookupIn(S, k)]
CallOf(c)    == [op |-> c.op, key |-> c.key, val |-> c.val,
                 ret |-> IF c.job = "idle" THEN c.ret ELSE Null, done |-> c.job = "idle"]

LEMMA Looked ==
    ASSUME NEW S, Single(S), NEW d \in S
    PROVE  LookupIn(S, d.key) = d.val
<1>1. PICK x : x = CHOOSE e \in S : e.key = d.key
  OBVIOUS
<1>2. x \in S /\ x.key = d.key
  BY <1>1
<1>3. x = d
  BY <1>2 DEF Single
<1> QED  BY <1>1, <1>3 DEF LookupIn

LEMMA NotLooked ==
    ASSUME NEW S, NEW k, \A e \in S : e.key # k
    PROVE  LookupIn(S, k) = Null
BY DEF LookupIn

\* What happens to the entry under one key shows under no other.
LEMMA LookedApart ==
    ASSUME NEW S, NEW T, NEW k, Single(S), Except(T, k) = Except(S, k), NEW j, j # k
    PROVE  LookupIn(T, j) = LookupIn(S, j)
<1>1. \A e : e.key = j => (e \in T <=> e \in S)
  BY DEF Except
<1>2. CASE \E e \in S : e.key = j
  <2>1. PICK d \in S : d.key = j
    BY <1>2
  <2>2. PICK x : x = CHOOSE e \in T : e.key = j
    OBVIOUS
  <2>3. x \in T /\ x.key = j
    BY <1>1, <2>1, <2>2
  <2>4. x = d
    BY <1>1, <2>1, <2>3 DEF Single
  <2>5. LookupIn(T, j) = d.val
    BY <1>1, <2>1, <2>2, <2>4 DEF LookupIn
  <2> QED  BY <2>1, <2>5, Looked
<1>3. CASE ~\E e \in S : e.key = j
  BY <1>1, <1>3, NotLooked
<1> QED  BY <1>2, <1>3

LEMMA Put ==
    ASSUME NEW S, NEW T, NEW k, NEW v, Single(S), T = Except(S, k) \cup {Entry(k, v)}
    PROVE  /\ LookupIn(T, k) = v
           /\ \A j : j # k => LookupIn(T, j) = LookupIn(S, j)
<1>1. Entry(k, v).key = k /\ Entry(k, v).val = v
  BY DEF Entry
<1>2. PICK d : d = Entry(k, v)
  OBVIOUS
<1>3. d \in T /\ d.key = k /\ d.val = v /\ \A e \in T : e.key = k => e = d
  BY <1>1, <1>2 DEF Except
<1>4. LookupIn(T, k) = v
  <2>1. PICK x : x = CHOOSE e \in T : e.key = k
    OBVIOUS
  <2>2. x = d
    BY <1>3, <2>1
  <2> QED  BY <1>3, <2>1, <2>2 DEF LookupIn
<1>5. Except(T, k) = Except(S, k)
  BY <1>1 DEF Except
<1> QED  BY <1>4, <1>5, LookedApart

\* Each key is there once, and nothing is stored under Null.
LEMMA OrderSingle ==
    ASSUME Inv, OrderInv
    PROVE  /\ Single(Stored(mem)) /\ \A e \in Stored(mem) : e.val \in Values /\ e.val # Null
           /\ \A d \in Stored(mem) : LookupIn(Stored(mem), d.key) = d.val
<1>1. /\ Heap(mem, Entries(Values)) /\ Null \notin Values /\ Twice(mem, call)
      /\ root = NoTree => Stored(mem) = {}
  BY OrderFacts
<1>2. \A e \in Stored(mem) : e.val \in Values /\ e.val # Null
  BY <1>1, StoredTypes
<1>3. root = NoTree => Single(Stored(mem))
  BY <1>1 DEF Single
<1>4. ASSUME root # NoTree PROVE Single(Stored(mem))
  <2>1. PICK p, f : Ordered(Values, Cleared(mem, call), root, p, f)
    BY <1>4 DEF OrderInv, OrderIs, Searched
  <2>2. Stored(Cleared(mem, call)) = Stored(mem)
    BY <1>1 DEF Twice, Cleared
  <2>3. Single(Stored(Cleared(mem, call)))
    BY <2>1, Singles
  <2> QED  BY <2>2, <2>3
<1>5. Single(Stored(mem))
  BY <1>3, <1>4
<1> QED  BY <1>2, <1>5, Looked

-----------------------------------------------------------------------------
(* The steps of the map                                                      *)

\* The same in both, and what a call returns.
SameTree == build' = build /\ (root' # NoTree) = (root # NoTree)

LEMMA AllUsed ==
    ASSUME build \in Builds
    PROVE  Keys \subseteq AllKeys /\ Values \subseteq AllValues
BY DEF Keys, Values, AllKeys, AllValues

LEMMA Given ==
    ASSUME Asked(call), NEW x, Return(x)
    PROVE  /\ CallOf(call') = [CallOf(call) EXCEPT !.ret = x, !.done = TRUE]
           /\ ~Underway(call') /\ call'.key = call.key
<1>1. call \in Calls
  BY DEF Asked
<1>2. /\ call'.op = call.op /\ call'.key = call.key /\ call'.val = call.val
      /\ call'.ret = x /\ call'.job = "idle"
  BY <1>1 DEF Return, Calls
<1>3. CallOf(call') = [op |-> call.op, key |-> call.key, val |-> call.val, ret |-> x, done |-> TRUE]
  BY <1>2 DEF CallOf
<1>4. CallOf(call) = [op |-> call.op, key |-> call.key, val |-> call.val,
                      ret |-> IF call.job = "idle" THEN call.ret ELSE Null,
                      done |-> call.job = "idle"]
  BY DEF CallOf
<1>5. ASSUME NEW r, NEW d \in BOOLEAN
      PROVE  [[op |-> call.op, key |-> call.key, val |-> call.val, ret |-> r, done |-> d]
                   EXCEPT !.ret = x, !.done = TRUE]
                = [op |-> call.op, key |-> call.key, val |-> call.val, ret |-> x, done |-> TRUE]
  <2>1. PICK o, k, v : o = call.op /\ k = call.key /\ v = call.val
    OBVIOUS
  <2>2. [[op |-> o, key |-> k, val |-> v, ret |-> r, done |-> d] EXCEPT !.ret = x]
        = [op |-> o, key |-> k, val |-> v, ret |-> x, done |-> d]
    OBVIOUS
  <2>3. \A t : [[op |-> o, key |-> k, val |-> v, ret |-> x, done |-> d] EXCEPT !.done = t]
               = [op |-> o, key |-> k, val |-> v, ret |-> x, done |-> t]
    OBVIOUS
  <2> QED  BY <2>1, <2>2, <2>3
<1>6. ~Underway(call')
  BY <1>2 DEF Underway
<1>7. (call.job = "idle") \in BOOLEAN
  OBVIOUS
<1>8. CallOf(call') = [CallOf(call) EXCEPT !.ret = x, !.done = TRUE]
  BY ZenonT(40), <1>3, <1>4, <1>5, <1>7
<1> QED  BY <1>2, <1>6, <1>8

\* A step that leaves the call under way and the entries as they are, but
\* perhaps the one that is being deleted, shows nothing.
LEMMA Quiet ==
    ASSUME SameTree, call.job # "idle", call'.job # "idle",
           call.job = "search" <=> call'.job = "search",
           call'.op = call.op, call'.key = call.key, call'.val = call.val, call'.ret = call.ret,
           \/ Stored(mem') = Stored(mem)
           \/ /\ Underway(call) /\ Single(Stored(mem))
              /\ Except(Stored(mem'), call.key) = Except(Stored(mem), call.key)
    PROVE  UNCHANGED Map!vars
<1>1. CallOf(call') = CallOf(call)
  BY DEF CallOf
<1>2. Underway(call') <=> Underway(call)
  BY DEF Underway
<1>3. ASSUME NEW k \in AllKeys, ~(Underway(call) /\ k = call.key)
      PROVE  LookupIn(Stored(mem'), k) = LookupIn(Stored(mem), k)
  BY <1>3, LookedApart
<1>4. MapOf(Stored(mem'), call') = MapOf(Stored(mem), call)
  BY <1>2, <1>3 DEF MapOf
<1> QED  BY <1>1, <1>4 DEF SameTree, Map!vars, MapOf, CallOf, LookupIn, Lookup, Deleting,
                           Underway, Short

\* A call returns and changes nothing.
LEMMA AsReturned ==
    ASSUME SameTree, call.job # "idle", NEW x, Asked(call), Return(x),
           MapOf(Stored(mem'), call') = MapOf(Stored(mem), call),
           \/ call.op = "get" /\ x = MapOf(Stored(mem), call)[call.key]
           \/ call.op = "insert" /\ x = 0 /\ (root # NoTree => Short)
           \/ call.op \in {"update", "delete"} /\ x = 0 /\ MapOf(Stored(mem), call)[call.key] = Null
           \/ call.op = "create" /\ x = 0 /\ Short
    PROVE  Map!Next
<1>1. CallOf(call') = [CallOf(call) EXCEPT !.ret = x, !.done = TRUE]
  BY Given
<1>2. CASE call.op = "get" /\ x = MapOf(Stored(mem), call)[call.key]
  <2>1. Map!Get
    BY <1>1, <1>2 DEF Map!Get, Map!Return, MapOf, CallOf, LookupIn, Lookup, Deleting, Underway,
                      SameTree, Short
  <2> QED  BY <2>1 DEF Map!Next
<1>3. CASE call.op = "insert" /\ x = 0 /\ (root # NoTree => Short)
  <2>1. Map!Drop
    BY <1>1, <1>3 DEF Map!Drop, Map!Return, MapOf, CallOf, LookupIn, Lookup, Deleting, Underway,
                      SameTree, Short
  <2> QED  BY <2>1 DEF Map!Next
<1>4. CASE call.op = "update" /\ x = 0 /\ MapOf(Stored(mem), call)[call.key] = Null
  <2>1. Map!Update
    BY <1>1, <1>4 DEF Map!Update, Map!Return, MapOf, CallOf, LookupIn, Lookup, Deleting, Underway,
                      SameTree, Short
  <2> QED  BY <2>1 DEF Map!Next
<1>5. CASE call.op = "delete" /\ x = 0 /\ MapOf(Stored(mem), call)[call.key] = Null
  <2>1. Map!Delete
    BY <1>1, <1>5 DEF Map!Delete, Map!Return, MapOf, CallOf, LookupIn, Lookup, Deleting, Underway,
                      SameTree, Short
  <2> QED  BY <2>1 DEF Map!Next
<1>6. CASE call.op = "create" /\ x = 0 /\ Short
  <2>1. Map!Create
    BY <1>1, <1>6 DEF Map!Create, Map!Return, MapOf, CallOf, LookupIn, Lookup, Deleting, Underway,
                      SameTree, Short
  <2> QED  BY <2>1 DEF Map!Next
<1> QED  BY <1>2, <1>3, <1>4, <1>5, <1>6

\* A call returns and has changed what is stored under its key.
LEMMA AsChanged ==
    ASSUME SameTree, call.job # "idle", Asked(call), Return(1), NEW y,
           MapOf(Stored(mem'), call') = [MapOf(Stored(mem), call) EXCEPT ![call.key] = y],
           \/ call.op = "insert" /\ y = call.val /\ root # NoTree
           \/ call.op = "update" /\ y = call.val /\ MapOf(Stored(mem), call)[call.key] # Null
           \/ call.op = "delete" /\ y = Null /\ MapOf(Stored(mem), call)[call.key] # Null
    PROVE  Map!Next
<1>1. CallOf(call') = [CallOf(call) EXCEPT !.ret = 1, !.done = TRUE]
  BY Given
<1>2. CASE call.op = "insert" /\ y = call.val /\ root # NoTree
  <2>1. Map!Insert
    BY <1>1, <1>2 DEF Map!Insert, Map!Return, MapOf, CallOf, LookupIn, Lookup, Deleting, Underway,
                      SameTree, Short
  <2> QED  BY <2>1 DEF Map!Next
<1>3. CASE call.op = "update" /\ y = call.val /\ MapOf(Stored(mem), call)[call.key] # Null
  <2>1. Map!Update
    BY <1>1, <1>3 DEF Map!Update, Map!Return, MapOf, CallOf, LookupIn, Lookup, Deleting, Underway,
                      SameTree, Short
  <2> QED  BY <2>1 DEF Map!Next
<1>4. CASE call.op = "delete" /\ y = Null /\ MapOf(Stored(mem), call)[call.key] # Null
  <2>1. Map!Delete
    BY <1>1, <1>4 DEF Map!Delete, Map!Return, MapOf, CallOf, LookupIn, Lookup, Deleting, Underway,
                      SameTree, Short
  <2> QED  BY <2>1 DEF Map!Next
<1> QED  BY <1>2, <1>3, <1>4

\* The map is created or freed.
LEMMA AsMade ==
    ASSUME build' = build, call.job # "idle", Asked(call), Return(1),
           \/ /\ call.op = "create" /\ root' # NoTree
              /\ MapOf(Stored(mem'), call') = MapOf(Stored(mem), call)
           \/ /\ call.op = "free" /\ root' = NoTree
              /\ MapOf(Stored(mem'), call') = [k \in AllKeys |-> Null]
    PROVE  Map!Next
<1>1. CallOf(call') = [CallOf(call) EXCEPT !.ret = 1, !.done = TRUE]
  BY Given
<1>2. CASE /\ call.op = "create" /\ root' # NoTree
           /\ MapOf(Stored(mem'), call') = MapOf(Stored(mem), call)
  <2>1. Map!Create
    BY <1>1, <1>2 DEF Map!Create, Map!Return, MapOf, CallOf, LookupIn, Lookup, Deleting, Underway,
                      Short
  <2> QED  BY <2>1 DEF Map!Next
<1>3. CASE /\ call.op = "free" /\ root' = NoTree
           /\ MapOf(Stored(mem'), call') = [k \in AllKeys |-> Null]
  <2>1. Map!Free
    BY <1>1, <1>3 DEF Map!Free, Map!Empty, Map!Return, MapOf, CallOf, LookupIn, Lookup, Deleting,
                      Underway, Short
  <2> QED  BY <2>1 DEF Map!Next
<1> QED  BY <1>2, <1>3

LEMMA AsBegun ==
    ASSUME SameTree, call.job = "idle", NEW op, NEW k, NEW v,
           CallOf(call') = [op |-> op, key |-> k, val |-> v, ret |-> Null, done |-> FALSE],
           MapOf(Stored(mem'), call') = MapOf(Stored(mem), call),
           \/ op \in {"get", "delete"} /\ k \in AllKeys /\ v = Null
           \/ op \in {"insert", "update"} /\ k \in AllKeys /\ v \in AllValues
           \/ op = "create" /\ root = NoTree /\ k = Null /\ v = Null
           \/ op = "free" /\ root # NoTree /\ k = Null /\ v = Null
    PROVE  Map!Next
<1>1. Map!Begin(op, k, v)
  BY DEF Map!Begin, MapOf, CallOf, LookupIn, Lookup, Deleting, Underway, SameTree, Short
<1> QED  BY <1>1 DEF Map!Next

-----------------------------------------------------------------------------
(* Every step is one of the map, or shows nothing                            *)

LEMMA GoneOn ==
    ASSUME call \in Calls, NEW j, NEW a, GoOn(j, a)
    PROVE  /\ call'.op = call.op /\ call'.key = call.key /\ call'.val = call.val
           /\ call'.ret = call.ret /\ call'.job = j
BY DEF GoOn, Calls

\* Of a call that is under way in the same tree.
LEMMA QuietStep ==
    ASSUME Inv, OrderInv, SameTree, call.job \notin {"idle", "search"}, Stored(mem') = Stored(mem),
           \/ Unsound
           \/ \E j, a : GoOn(j, a) /\ j \notin {"idle", "search"}
    PROVE  UNCHANGED Map!vars
<1>1. call \in Calls
  BY OrderFacts
<1>2. CASE Unsound
  <2>1. /\ call'.op = call.op /\ call'.key = call.key /\ call'.val = call.val
        /\ call'.ret = call.ret /\ call'.job = "unsound"
    BY <1>1, <1>2 DEF Unsound, Calls
  <2> QED  BY <2>1, Quiet
<1>3. ASSUME NEW j, NEW a, GoOn(j, a), j \notin {"idle", "search"} PROVE UNCHANGED Map!vars
  <2>1. /\ call'.op = call.op /\ call'.key = call.key /\ call'.val = call.val
        /\ call'.ret = call.ret /\ call'.job = j
    BY <1>1, <1>3, GoneOn
  <2> QED  BY <1>3, <2>1, Quiet
<1> QED  BY <1>2, <1>3

LEMMA MapBeginCall == ASSUME Inv, OrderInv, BeginCall PROVE Map!Next
<1>1. Keys \subseteq AllKeys /\ Values \subseteq AllValues
  BY OrderFacts, AllUsed
<1>2. PICK op, k, v, job :
         /\ Call(op, k, v, job)
         /\ \/ op \in {"get", "delete"} /\ job = "search" /\ k \in AllKeys /\ v = Null
            \/ op = "update" /\ job = "search" /\ k \in AllKeys /\ v \in AllValues
            \/ op = "insert" /\ job = "grow" /\ k \in AllKeys /\ v \in AllValues
            \/ op = "create" /\ job = "create" /\ root = NoTree /\ k = Null /\ v = Null
            \/ op = "free" /\ job = "free" /\ root # NoTree /\ k = Null /\ v = Null
  BY <1>1 DEF BeginCall
<1>3. /\ call.job = "idle" /\ build' = build /\ mem' = mem /\ root' = root
      /\ call' = [op |-> op, key |-> k, val |-> v, ret |-> Null,
                  job |-> job, seek |-> k, at |-> root, short |-> FALSE]
  BY <1>2 DEF Call
<1>4. /\ call'.op = op /\ call'.key = k /\ call'.val = v /\ call'.job = job
  BY <1>3
<1>5. job # "idle"
  BY <1>2
<1>6. CallOf(call') = [op |-> op, key |-> k, val |-> v, ret |-> Null, done |-> FALSE]
  BY <1>4, <1>5 DEF CallOf
<1>7. ~Underway(call) /\ ~Underway(call')
  BY <1>2, <1>3, <1>4 DEF Underway
<1>8. MapOf(Stored(mem'), call') = MapOf(Stored(mem), call)
  BY <1>3, <1>7 DEF MapOf
<1>9. SameTree
  BY <1>3 DEF SameTree
<1> QED  BY <1>2, <1>3, <1>6, <1>8, <1>9, AsBegun

LEMMA MapDescend == ASSUME Inv, OrderInv, Descend PROVE UNCHANGED Map!vars
<1>1. /\ call.job \in {"search", "verify"} /\ build' = build /\ mem' = mem /\ root' = root
      /\ GoOn(call.job, Node.kids[Scan])
  BY DEF Descend, Searching
<1>2. /\ call'.op = call.op /\ call'.key = call.key /\ call'.val = call.val
      /\ call'.ret = call.ret /\ call'.job = call.job
  BY <1>1, OrderFacts, GoneOn
<1>3. SameTree
  BY <1>1 DEF SameTree
<1> QED  BY <1>1, <1>2, <1>3, Quiet

LEMMA MapMiss == ASSUME Inv, OrderInv, Miss PROVE Map!Next
<1>1. /\ build \in Builds /\ Asked(call) /\ Told(Values, mem, call) /\ Null \notin Values
  BY OrderFacts
<1>2. /\ call.job \in {"search", "verify"} /\ build' = build /\ mem' = mem /\ root' = root
      /\ Return(IF call.op = "get" THEN Null ELSE IF call.job = "verify" THEN 1 ELSE 0)
  BY DEF Miss, Searching
<1>3. SameTree
  BY <1>2 DEF SameTree
<1>4. call.key \in AllKeys
  BY <1>1, <1>2, AllUsed DEF Asked
<1>5. LookupIn(Stored(mem), call.key) = Null
  BY OrderMiss, NotLooked DEF Has
<1>6. call.op \in {"get", "update", "delete"} /\ (call.job = "verify" => call.op = "delete")
  BY <1>1, <1>2 DEF Told
<1>7. ~Underway(call') /\ call'.key = call.key
  BY <1>1, <1>2, Given
<1>8. CASE call.job = "search"
  <2>1. ~Underway(call)
    BY <1>8 DEF Underway
  <2>2. MapOf(Stored(mem'), call') = MapOf(Stored(mem), call)
    BY <1>2, <1>7, <2>1 DEF MapOf
  <2>3. MapOf(Stored(mem), call)[call.key] = Null
    BY <1>4, <1>5, <2>1 DEF MapOf
  <2>4. Return(IF call.op = "get" THEN Null ELSE 0)
    BY <1>2, <1>8
  <2>5. CASE call.op = "get"
    <3>1. Return(Null)
      BY <2>4, <2>5
    <3> QED  BY <1>1, <1>3, <1>8, <2>2, <2>3, <2>5, <3>1, AsReturned
  <2>6. CASE call.op \in {"update", "delete"}
    <3>1. Return(0)
      BY <2>4, <2>6
    <3> QED  BY <1>1, <1>3, <1>8, <2>2, <2>3, <2>6, <3>1, AsReturned
  <2> QED  BY <1>6, <2>5, <2>6
<1>9. CASE call.job = "verify"
  <2>1. call.op = "delete" /\ Return(1)
    BY <1>2, <1>6, <1>9
  <2>2. Underway(call) /\ call.ret \in Values
    BY <1>1, <1>9, <2>1 DEF Underway, Told
  <2>3. MapOf(Stored(mem), call)[call.key] # Null
    BY <1>1, <1>4, <2>2 DEF MapOf
  <2>4. MapOf(Stored(mem'), call') = [MapOf(Stored(mem), call) EXCEPT ![call.key] = Null]
    BY <1>2, <1>4, <1>5, <1>7, <2>2 DEF MapOf
  <2> QED  BY <1>1, <1>3, <1>9, <2>1, <2>3, <2>4, AsChanged
<1> QED  BY <1>2, <1>8, <1>9

\* What was inserted or updated is there.
LEMMA MapChanged ==
    ASSUME Inv, OrderInv, SameTree, call.job \notin {"idle", "verify"}, Return(1),
           \/ call.op = "insert" /\ root # NoTree
           \/ call.op = "update" /\ Has(mem, call.key),
           call.key \in Keys,
           Stored(mem') = Except(Stored(mem), call.key) \cup {Entry(call.key, call.val)}
    PROVE  Map!Next
<1>1. build \in Builds /\ Asked(call) /\ Single(Stored(mem))
  BY OrderFacts, OrderSingle
<1>2. call.key \in AllKeys
  BY <1>1, AllUsed
<1>3. ~Underway(call)
  BY DEF Underway
<1>4. ~Underway(call') /\ call'.key = call.key
  BY <1>1, Given
<1>5. /\ LookupIn(Stored(mem'), call.key) = call.val
      /\ \A k : k # call.key => LookupIn(Stored(mem'), k) = LookupIn(Stored(mem), k)
  <2>1. PICK S, T, k, v : S = Stored(mem) /\ T = Stored(mem') /\ k = call.key /\ v = call.val
    OBVIOUS
  <2>2. Single(S) /\ T = Except(S, k) \cup {Entry(k, v)}
    BY <1>1, <2>1
  <2>3. LookupIn(T, k) = v /\ \A j : j # k => LookupIn(T, j) = LookupIn(S, j)
    BY <2>2, Put
  <2> QED  BY <2>1, <2>3
<1>6. MapOf(Stored(mem'), call') = [MapOf(Stored(mem), call) EXCEPT ![call.key] = call.val]
  BY <1>2, <1>3, <1>4, <1>5 DEF MapOf
<1>7. Has(mem, call.key) => MapOf(Stored(mem), call)[call.key] # Null
  BY <1>2, <1>3, OrderSingle DEF MapOf, Has
<1> QED  BY <1>1, <1>6, <1>7, AsChanged

LEMMA MapFind == ASSUME Inv, OrderInv, Find PROVE [Map!Next]_Map!vars
<1>1. /\ build \in Builds /\ Asked(call) /\ call \in Calls /\ call.job = "search"
  BY OrderFacts, OrderFind
<1>2. SameTree /\ call.key \in AllKeys /\ call.key \in Keys
  BY <1>1, AllUsed DEF SameTree, Find, Asked
<1>3. PICK d \in Stored(mem) :
         /\ d.key = call.key
         /\ \/ call.op = "get" /\ Return(d.val) /\ mem' = mem
            \/ /\ call.op = "update" /\ Return(1)
               /\ Stored(mem') = Except(Stored(mem), call.key) \cup {Entry(call.key, call.val)}
            \/ /\ call.op = "delete" /\ mem' = mem
               /\ call' = [call EXCEPT !.ret = d.val, !.job = "remove", !.at = root]
  BY OrderFind
<1>4. LookupIn(Stored(mem), call.key) = d.val /\ Has(mem, call.key)
  BY <1>3, OrderSingle DEF Has
<1>5. ~Underway(call)
  BY <1>1 DEF Underway
<1>6. CASE call.op = "get" /\ Return(d.val) /\ mem' = mem
  <2>1. ~Underway(call') /\ call'.key = call.key
    BY <1>1, <1>6, Given
  <2>2. MapOf(Stored(mem'), call') = MapOf(Stored(mem), call)
    BY <1>5, <1>6, <2>1 DEF MapOf
  <2>3. MapOf(Stored(mem), call)[call.key] = d.val
    BY <1>2, <1>4, <1>5 DEF MapOf
  <2> QED  BY <1>1, <1>2, <1>6, <2>2, <2>3, AsReturned
<1>7. CASE /\ call.op = "update" /\ Return(1)
           /\ Stored(mem') = Except(Stored(mem), call.key) \cup {Entry(call.key, call.val)}
  BY <1>1, <1>2, <1>4, <1>7, MapChanged
<1>8. CASE /\ call.op = "delete" /\ mem' = mem
           /\ call' = [call EXCEPT !.ret = d.val, !.job = "remove", !.at = root]
  <2>1. /\ call'.op = call.op /\ call'.key = call.key /\ call'.val = call.val
        /\ call'.ret = d.val /\ call'.job = "remove"
    BY <1>1, <1>8 DEF Calls
  <2>2. CallOf(call') = CallOf(call)
    BY <1>1, <2>1 DEF CallOf
  <2>3. MapOf(Stored(mem'), call') = MapOf(Stored(mem), call)
    BY <1>4, <1>5, <1>8, <2>1 DEF MapOf
  <2> QED  BY <1>2, <2>2, <2>3 DEF SameTree, Map!vars, MapOf, CallOf, LookupIn, Lookup, Deleting,
                                   Underway, Short
<1> QED  BY <1>3, <1>6, <1>7, <1>8

LEMMA MapGrowRoot == ASSUME Inv, OrderInv, GrowRoot PROVE [Map!Next]_Map!vars
<1>1. Asked(call) /\ call.job = "grow" /\ build' = build /\ Stored(mem') = Stored(mem)
  BY OrderFacts, OrderGrowRoot DEF GrowRoot
<1>2. call.op = "insert" /\ ~Underway(call)
  BY <1>1 DEF Asked, Underway
<1>3. CASE Return(0) /\ (root # NoTree => Short) /\ root' = root
  <2>1. ~Underway(call') /\ SameTree
    BY <1>1, <1>3, Given DEF SameTree
  <2>2. MapOf(Stored(mem'), call') = MapOf(Stored(mem), call)
    BY <1>1, <1>2, <2>1 DEF MapOf
  <2> QED  BY <1>1, <1>2, <1>3, <2>1, <2>2, AsReturned
<1>4. CASE /\ root # NoTree /\ root' # NoTree
           /\ \E j \in {"insert", "split"}, a \in Int : GoOn(j, a)
  <2>1. SameTree
    BY <1>1, <1>4 DEF SameTree
  <2> QED  BY <1>1, <1>4, <2>1, QuietStep
<1> QED  BY <1>3, <1>4, OrderGrowRoot

LEMMA MapSplitRoot == ASSUME Inv, OrderInv, SplitRoot PROVE UNCHANGED Map!vars
<1>1. /\ call \in Calls /\ call.job = "split" /\ Stored(mem') = Stored(mem) /\ SameTree
      /\ \E got : call' = [call EXCEPT !.job = "insert", !.short = ~got]
  BY OrderFacts, OrderSplitRoot DEF SplitRoot, SameTree
<1>2. /\ call'.op = call.op /\ call'.key = call.key /\ call'.val = call.val
      /\ call'.ret = call.ret /\ call'.job = "insert"
  BY <1>1 DEF Calls
<1> QED  BY <1>1, <1>2, Quiet

LEMMA MapInsertIntoLeaf ==
    ASSUME Inv, OrderInv, InsertIntoLeaf
    PROVE  [Map!Next]_Map!vars
<1>1. /\ Asked(call) /\ Placed(mem, root, call) /\ (root = NoTree => DOMAIN mem = {})
      /\ call.job = "insert" /\ SameTree
  BY OrderFacts DEF InsertIntoLeaf, Inserting, SameTree
<1>2. call.op = "insert" /\ call.key \in Keys /\ root # NoTree
  BY <1>1 DEF Asked, Placed
<1>3. CASE Unsound
  <2>1. mem' = mem
    BY <1>3 DEF Unsound
  <2> QED  BY <1>1, <1>3, <2>1, QuietStep
<1>4. CASE /\ Return(1)
           /\ Stored(mem') = Except(Stored(mem), call.key) \cup {Entry(call.key, call.val)}
  BY <1>1, <1>2, <1>4, MapChanged
<1> QED  BY <1>3, <1>4, OrderInsertIntoLeaf

LEMMA MapInsertBelow == ASSUME Inv, OrderInv, InsertBelow PROVE UNCHANGED Map!vars
<1>1. /\ call \in Calls /\ call.job = "insert" /\ Stored(mem') = Stored(mem) /\ SameTree
  BY OrderFacts, OrderInsertBelow DEF InsertBelow, Inserting, SameTree
<1>2. CASE Unsound \/ \E y \in Int : GoOn("insert", y)
  BY <1>1, <1>2, QuietStep
<1>3. ASSUME NEW y, call' = [call EXCEPT !.at = y, !.short = TRUE] PROVE UNCHANGED Map!vars
  <2>1. /\ call'.op = call.op /\ call'.key = call.key /\ call'.val = call.val
        /\ call'.ret = call.ret /\ call'.job = call.job
    BY <1>1, <1>3 DEF Calls
  <2> QED  BY <1>1, <2>1, Quiet
<1> QED  BY <1>2, <1>3, OrderInsertBelow

LEMMA MapRemoveFromLeaf ==
    ASSUME Inv, OrderInv, RemoveFromLeaf
    PROVE  UNCHANGED Map!vars
<1>1. /\ call \in Calls /\ Asked(call) /\ call.job = "remove" /\ SameTree /\ GoOn("shrink", root)
      /\ Single(Stored(mem)) /\ Except(Stored(mem'), call.key) = Except(Stored(mem), call.key)
  BY OrderFacts, OrderSingle, OrderRemoveFromLeaf DEF RemoveFromLeaf, Removing, SameTree
<1>2. /\ call'.op = call.op /\ call'.key = call.key /\ call'.val = call.val
      /\ call'.ret = call.ret /\ call'.job = "shrink"
  BY <1>1, GoneOn
<1>3. Underway(call)
  BY <1>1 DEF Asked, Underway
<1> QED  BY <1>1, <1>2, <1>3, Quiet

LEMMA MapRemoveBelow == ASSUME Inv, OrderInv, RemoveBelow PROVE UNCHANGED Map!vars
<1>1. /\ call.job = "remove" /\ SameTree /\ Stored(mem') = Stored(mem)
      /\ Unsound \/ \E a : GoOn("remove", a)
  BY OrderRemoveBelow DEF RemoveBelow, Removing, SameTree
<1> QED  BY <1>1, QuietStep

LEMMA MapMergeBoth == ASSUME Inv, OrderInv, MergeBoth PROVE UNCHANGED Map!vars
<1>1. /\ call.job = "remove" /\ SameTree /\ Stored(mem') = Stored(mem)
      /\ Unsound \/ \E a : GoOn("remove", a)
  BY OrderMergeBoth DEF MergeBoth, Internal, Removing, SameTree
<1> QED  BY <1>1, QuietStep

\* The entry that is deleted has gone, but counts as stored until the call returns.
LEMMA MapReplace ==
    ASSUME Inv, OrderInv, Removing, NEW d, NEW b, Replace(d, b),
           Stored(mem') = Except(Stored(mem), call.key)
    PROVE  UNCHANGED Map!vars
<1>1. /\ call \in Calls /\ Asked(call) /\ call.job = "remove" /\ SameTree /\ Single(Stored(mem))
      /\ call' = [call EXCEPT !.seek = d.key, !.at = b]
  BY OrderFacts, OrderSingle DEF Removing, SameTree, Replace
<1>2. /\ call'.op = call.op /\ call'.key = call.key /\ call'.val = call.val
      /\ call'.ret = call.ret /\ call'.job = call.job
  BY <1>1 DEF Calls
<1>3. Except(Stored(mem'), call.key) = Except(Stored(mem), call.key)
  BY DEF Except
<1>4. Underway(call)
  BY <1>1 DEF Asked, Underway
<1> QED  BY <1>1, <1>2, <1>3, <1>4, Quiet

LEMMA MapTakePredecessor ==
    ASSUME Inv, OrderInv, FromLeaves, TakePredecessor
    PROVE  UNCHANGED Map!vars
<1>1. \E d, b : Replace(d, b)
  BY DEF TakePredecessor
<1> QED  BY <1>1, OrderTakePredecessor, MapReplace DEF TakePredecessor, Internal

LEMMA MapTakeSuccessor ==
    ASSUME Inv, OrderInv, FromLeaves, TakeSuccessor
    PROVE  UNCHANGED Map!vars
<1>1. \E d, b : Replace(d, b)
  BY DEF TakeSuccessor
<1> QED  BY <1>1, OrderTakeSuccessor, MapReplace DEF TakeSuccessor, Internal

LEMMA MapShrinkRoot == ASSUME Inv, OrderInv, ShrinkRoot PROVE UNCHANGED Map!vars
<1>1. /\ call.job = "shrink" /\ SameTree /\ Stored(mem') = Stored(mem)
      /\ \E a : GoOn("verify", a)
  BY OrderShrinkRoot DEF ShrinkRoot, SameTree
<1> QED  BY <1>1, QuietStep

LEMMA MapCreate == ASSUME Inv, OrderInv, Create PROVE Map!Next
<1>1. /\ Asked(call) /\ call.job = "create" /\ call.op = "create" /\ build' = build
      /\ Stored(mem') = Stored(mem)
  BY OrderFacts, OrderCreate DEF Create
<1>2. ~Underway(call)
  BY <1>1 DEF Underway
<1>3. ASSUME NEW x, Return(x) PROVE MapOf(Stored(mem'), call') = MapOf(Stored(mem), call)
  <2>1. ~Underway(call')
    BY <1>1, <1>3, Given
  <2> QED  BY <1>1, <1>2, <2>1 DEF MapOf
<1>4. CASE Return(1) /\ root' # NoTree
  BY <1>1, <1>3, <1>4, AsMade
<1>5. CASE Return(0) /\ Short /\ root' = root
  <2>1. SameTree
    BY <1>1, <1>5 DEF SameTree
  <2> QED  BY <1>1, <1>3, <1>5, <2>1, AsReturned
<1> QED  BY <1>4, <1>5, OrderCreate

LEMMA MapFree == ASSUME Inv, OrderInv, Free PROVE Map!Next
<1>1. /\ Asked(call) /\ call.job = "free" /\ call.op = "free" /\ build' = build
      /\ Stored(mem') = {} /\ Return(1) /\ root' = NoTree
  BY OrderFacts, OrderFree DEF Free
<1>2. ~Underway(call')
  BY <1>1, Given
<1>3. \A k : LookupIn(Stored(mem'), k) = Null
  BY <1>1, NotLooked
<1>4. MapOf(Stored(mem'), call') = [k \in AllKeys |-> Null]
  BY <1>2, <1>3 DEF MapOf
<1> QED  BY <1>1, <1>4, AsMade

LEMMA MapStill == ASSUME Still PROVE UNCHANGED Map!vars
BY DEF Still, Map!vars, MapOf, CallOf, LookupIn, Lookup, Deleting, Short

LEMMA StartsMap == Init => Map!Init
<1> SUFFICES ASSUME Init PROVE Map!Init
  OBVIOUS
<1>1. Stored(mem) = {} /\ Short \in BOOLEAN
  BY BuildsAssumption DEF Init, Stored, Short
<1>2. \A k : Lookup(k) = Null
  BY <1>1 DEF Lookup
<1> QED  BY <1>1, <1>2 DEF Init, Map!Init, Map!Empty, Deleting

LEMMA StepsOfMap ==
    ASSUME Inv, OrderInv, FromLeaves, [Next]_vars
    PROVE  [Map!Next]_Map!vars
BY MapBeginCall, MapDescend, MapMiss, MapFind, MapGrowRoot, MapSplitRoot, MapInsertIntoLeaf,
   MapInsertBelow, MapRemoveFromLeaf, MapRemoveBelow, MapTakePredecessor, MapTakeSuccessor,
   MapMergeBoth, MapShrinkRoot, MapCreate, MapFree, MapStill, Steps

\* Under the same provisos every call does to what btree_get finds, and returns,
\* what it would with a map, or ends in the silent loss of an insertion, or never,
\* where memory is short.
THEOREM IsMapHolds ==
    ASSUME \A b \in Builds : ~b.reinsert
    PROVE  Spec /\ []FromLeaves => IsMap
<1>1. Spec /\ []FromLeaves => [](Inv /\ OrderInv)
  BY OrderKept
<1>2. Init => Map!Init
  BY StartsMap
<1>3. Inv /\ OrderInv /\ FromLeaves /\ [Next]_vars => [Map!Next]_Map!vars
  BY StepsOfMap
<1> QED  BY <1>1, <1>2, <1>3, PTL DEF Spec, IsMap, Map!Spec

\* The same without deletions, where the first proviso is enough.
THEOREM IsMapWithoutDeletions ==
    ASSUME \A b \in Builds : ~b.reinsert /\ ~b.deletes
    PROVE  Spec => IsMap
<1>1. ASSUME Inv PROVE FromLeaves
  <2>1. build \in Builds
    BY <1>1, InvFacts
  <2>2. ~Deletes
    BY <2>1 DEF Deletes
  <2> QED  BY <2>2, <1>1, LeavesWhenKept
<1>2. \A b \in Builds : ~b.reinsert
  OBVIOUS
<1>3. Spec /\ []FromLeaves => IsMap
  BY <1>2, IsMapHolds
<1> QED  BY <1>1, <1>3, InductiveInvariant, PTL

-----------------------------------------------------------------------------
(* Few keys                                                                  *)

\* All keys in the tree are those its caller uses.
OwnKeys == \A e \in Stored(mem) : e.key \in Keys

LEMMA KeepsOwnKeys ==
    ASSUME Inv, OrderInv, FromLeaves, OwnKeys, [Next]_vars
    PROVE  OwnKeys'
<1> SUFFICES \A e \in Stored(mem') : e.key \in Keys
  <2>1. build' = build
    BY Steps DEF BeginCall, Call, Descend, Miss, Find, GrowRoot, SplitRoot, InsertIntoLeaf,
           InsertBelow, RemoveFromLeaf, RemoveBelow, TakePredecessor, TakeSuccessor, Replace,
           MergeBoth, ShrinkRoot, Create, Free, Still
  <2> QED  BY <2>1 DEF OwnKeys, Keys
<1>1. Asked(call)
  BY OrderFacts
<1>2. CASE Stored(mem') = Stored(mem) \/ Stored(mem') = {}
  BY <1>2 DEF OwnKeys
<1>3. ASSUME call.key \in Keys, Except(Stored(mem'), call.key) = Except(Stored(mem), call.key)
      PROVE  \A e \in Stored(mem') : e.key \in Keys
  BY <1>3 DEF OwnKeys, Except
<1>4. CASE mem' = mem
  BY <1>2, <1>4
<1>5. \A v, S : Except(Except(S, call.key) \cup {Entry(call.key, v)}, call.key)
                = Except(S, call.key)
  BY DEF Except, Entry
<1>6. CASE BeginCall \/ Descend \/ Miss \/ Still
  BY <1>4, <1>6 DEF BeginCall, Call, Descend, Miss, Still
<1>7. CASE Find
  <2>1. call.key \in Keys
    BY <1>1, <1>7, OrderFind DEF Asked
  <2> QED  BY <1>3, <1>4, <1>5, <1>7, <2>1, OrderFind
<1>8. CASE GrowRoot \/ SplitRoot \/ InsertBelow \/ RemoveBelow \/ MergeBoth \/ ShrinkRoot
  BY <1>2, <1>8, OrderGrowRoot, OrderSplitRoot, OrderInsertBelow, OrderRemoveBelow, OrderMergeBoth,
     OrderShrinkRoot
<1>9. CASE InsertIntoLeaf
  <2>1. call.key \in Keys
    BY <1>1, <1>9 DEF Asked, InsertIntoLeaf, Inserting
  <2> QED  BY <1>3, <1>4, <1>5, <1>9, <2>1, OrderInsertIntoLeaf DEF Unsound
<1>10. CASE RemoveFromLeaf
  <2>1. call.key \in Keys
    BY <1>1, <1>10 DEF Asked, RemoveFromLeaf, Removing
  <2> QED  BY <1>3, <1>10, <2>1, OrderRemoveFromLeaf
<1>11. CASE TakePredecessor \/ TakeSuccessor
  <2>1. Stored(mem') = Except(Stored(mem), call.key)
    BY <1>11, OrderTakePredecessor, OrderTakeSuccessor
  <2> QED  BY <2>1 DEF OwnKeys, Except
<1>12. CASE Create \/ Free
  BY <1>2, <1>12, OrderCreate, OrderFree
<1> QED  BY <1>6, <1>7, <1>8, <1>9, <1>10, <1>11, <1>12, Steps

\* Keys of as many entries as there are places for them.
LEMMA KeysAtPlaces ==
    ASSUME NEW V, NEW h, NEW r, NEW p, NEW f, Ordered(V, h, r, p, f),
           NEW K, IsFiniteSet(K), \A e \in Stored(h) : e.key \in K,
           NEW Q \in SUBSET ((DOMAIN h) \X Nat), \A q \in Q : q[2] \in DOMAIN h[q[1]].ents
    PROVE  IsFiniteSet(Q) /\ Cardinality(Q) <= Cardinality(K)
<1> DEFINE g == [q \in Q |-> h[q[1]].ents[q[2]].key]
<1>1. ASSUME NEW q \in Q PROVE q[1] \in DOMAIN h /\ q = <<q[1], q[2]>> /\ g[q] \in K
  <2>1. q[1] \in DOMAIN h /\ q = <<q[1], q[2]>>
    OBVIOUS
  <2>2. h[q[1]].ents[q[2]] \in Stored(h)
    BY <2>1 DEF Stored, Range
  <2> QED  BY <2>1, <2>2
<1>2. ASSUME NEW q \in Q, NEW s \in Q, g[q] = g[s] PROVE q = s
  <2>1. PICK a \in DOMAIN h, b \in DOMAIN h : a = q[1] /\ b = s[1]
    BY <1>1
  <2>2. PICK i \in DOMAIN h[a].ents, j \in DOMAIN h[b].ents : i = q[2] /\ j = s[2]
    BY <2>1
  <2>3. h[a].ents[i].key = h[b].ents[j].key
    BY <1>2, <2>1, <2>2
  <2>4. a = b /\ i = j
    BY <2>3, Unique
  <2> QED  BY <1>1, <2>1, <2>2, <2>4
<1>3. g \in Injection(Q, K)
  BY <1>1, <1>2 DEF Injection, IsInjective
<1> QED  BY <1>3, FS_Injection

LEMMA Disjoint ==
    ASSUME NEW S, NEW T, IsFiniteSet(S), IsFiniteSet(T), \A x \in S : x \notin T
    PROVE  IsFiniteSet(S \cup T) /\ Cardinality(S \cup T) = Cardinality(S) + Cardinality(T)
<1>1. S \cap T = {}
  OBVIOUS
<1>2. Cardinality(S) \in Nat /\ Cardinality(T) \in Nat
  BY FS_CardinalityType
<1>3. Cardinality(S \cap T) = 0
  BY <1>1, FS_EmptySet
<1>4. /\ IsFiniteSet(S \cup T)
      /\ Cardinality(S \cup T) = Cardinality(S) + Cardinality(T) - Cardinality(S \cap T)
  BY FS_Union
<1> QED  BY <1>2, <1>3, <1>4

\* The first n entries of the nodes in X.
EntryPlaces(X, n) == X \X (1 .. n)

LEMMA PlaceCount ==
    ASSUME NEW X, IsFiniteSet(X), NEW n \in Nat
    PROVE  IsFiniteSet(EntryPlaces(X, n)) /\ Cardinality(EntryPlaces(X, n)) = Cardinality(X) * n
<1>1. IsFiniteSet(1 .. n) /\ Cardinality(1 .. n) = n
  BY FS_Interval
<1>2. /\ IsFiniteSet(X \X (1 .. n))
      /\ Cardinality(X \X (1 .. n)) = Cardinality(X) * Cardinality(1 .. n)
  BY <1>1, FS_Product
<1> QED  BY <1>1, <1>2 DEF EntryPlaces

\* The first n children of a node.
KidsOf(h, b, n) == {h[b].kids[j] : j \in 1 .. n}

LEMMA KidCount ==
    ASSUME NEW E, NEW h, NEW r, NEW p, Heap(h, E), Tree(h, r, p), NEW b \in DOMAIN h, NEW n \in Nat,
           n <= Len(h[b].kids)
    PROVE  /\ IsFiniteSet(KidsOf(h, b, n)) /\ Cardinality(KidsOf(h, b, n)) = n
           /\ \A x \in KidsOf(h, b, n) : /\ x \in DOMAIN h /\ x # r /\ p[x].up = b
                                         /\ p[x].level = p[b].level - 1
<1>1. DOMAIN h[b].kids = 1 .. Len(h[b].kids) /\ Len(h[b].kids) \in Nat
  BY HeapTypes
<1>2. \A j \in 1 .. n : j \in DOMAIN h[b].kids
  BY <1>1
<1>3. \A j \in 1 .. n : LET x == h[b].kids[j]
                        IN  /\ x \in DOMAIN h /\ x # r /\ p[x].up = b
                            /\ p[x].level = p[b].level - 1 /\ p[x].at = j
  BY <1>2, Kid
<1> DEFINE g == [j \in 1 .. n |-> h[b].kids[j]]
<1>4. g \in Bijection(1 .. n, KidsOf(h, b, n))
  <2>1. g \in [1 .. n -> KidsOf(h, b, n)]
    BY DEF KidsOf
  <2>2. \A i, j \in 1 .. n : g[i] = g[j] => i = j
    BY <1>3
  <2>3. \A x \in KidsOf(h, b, n) : \E j \in 1 .. n : g[j] = x
    BY DEF KidsOf
  <2> QED  BY <2>1, <2>2, <2>3 DEF Bijection, Injection, IsInjective, Surjection
<1>5. IsFiniteSet(1 .. n) /\ Cardinality(1 .. n) = n
  BY FS_Interval
<1>6. IsFiniteSet(KidsOf(h, b, n)) /\ Cardinality(KidsOf(h, b, n)) = n
  <2>1. ExistsBijection(1 .. n, KidsOf(h, b, n))
    BY <1>4 DEF ExistsBijection
  <2> QED  BY <1>5, <2>1, FS_Bijection
<1> QED  BY <1>3, <1>6 DEF KidsOf

\* The fewest keys of a tree in which a node has children that are no leaves, one
\* of them with an entry to spare, when all nodes below it have m entries or more.
LeastDeep(m) == 1 + (m + 1) + m + (m + 2) * m + (m + 1) * m

LEMMA ManyKeys ==
    ASSUME NEW V, NEW h, NEW r, NEW p, NEW f, Ordered(V, h, r, p, f),
           NEW K, IsFiniteSet(K), \A e \in Stored(h) : e.key \in K,
           NEW m \in Nat, \A x \in DOMAIN h : x # r => Len(h[x].ents) >= m,
           NEW a \in DOMAIN h, NEW i \in DOMAIN h[a].ents,
           NEW b \in DOMAIN h, NEW c \in DOMAIN h, b # c, b # r, c # r, p[b].up = a, p[c].up = a,
           h[b].kids # <<>>, h[c].kids # <<>>, Len(h[b].ents) > m
    PROVE  Cardinality(K) >= LeastDeep(m)
<1> DEFINE B == EntryPlaces({b}, m + 1)  C == EntryPlaces({c}, m)
           D == EntryPlaces(KidsOf(h, b, m + 2), m)  E == EntryPlaces(KidsOf(h, c, m + 1), m)
           A == {<<a, i>>}  S == A \cup B  T == S \cup C  U == T \cup D  Q == U \cup E
<1>1. Heap(h, Entries(V)) /\ Tree(h, r, p)
  BY DEF Ordered
<1>2. /\ Len(h[b].kids) = Len(h[b].ents) + 1 /\ Len(h[c].kids) = Len(h[c].ents) + 1
      /\ \A x \in DOMAIN h : /\ p[x].level \in Nat /\ Len(h[x].ents) \in Nat
                             /\ DOMAIN h[x].ents = 1 .. Len(h[x].ents)
      /\ i \in Nat
  <2>1. \A x \in DOMAIN h : /\ p[x].level \in Nat /\ Len(h[x].ents) \in Nat
                            /\ DOMAIN h[x].ents = 1 .. Len(h[x].ents)
    <3> SUFFICES ASSUME NEW x \in DOMAIN h
                 PROVE  /\ p[x].level \in Nat /\ Len(h[x].ents) \in Nat
                        /\ DOMAIN h[x].ents = 1 .. Len(h[x].ents)
      OBVIOUS
    <3>1. p[x].level \in Nat
      BY <1>1, TreeTypes
    <3> QED  BY <1>1, <3>1, HeapTypes
  <2>2. /\ Len(h[b].kids) = Len(h[b].ents) + 1 /\ Len(h[c].kids) = Len(h[c].ents) + 1
    BY <1>1, TreeTypes
  <2>3. i \in 1 .. Len(h[a].ents)
    BY <2>1
  <2> QED  BY <2>1, <2>2, <2>3
<1>3. /\ IsFiniteSet(KidsOf(h, b, m + 2)) /\ Cardinality(KidsOf(h, b, m + 2)) = m + 2
      /\ \A x \in KidsOf(h, b, m + 2) : /\ x \in DOMAIN h /\ x # r /\ p[x].up = b
                                        /\ p[x].level = p[b].level - 1
  <2>1. m + 2 \in Nat /\ m + 2 <= Len(h[b].kids)
    BY <1>2
  <2> QED  BY <1>1, <2>1, KidCount
<1>4. /\ IsFiniteSet(KidsOf(h, c, m + 1)) /\ Cardinality(KidsOf(h, c, m + 1)) = m + 1
      /\ \A x \in KidsOf(h, c, m + 1) : /\ x \in DOMAIN h /\ x # r /\ p[x].up = c
                                        /\ p[x].level = p[c].level - 1
  <2>1. m + 1 \in Nat /\ m + 1 <= Len(h[c].kids)
    BY <1>2
  <2> QED  BY <1>1, <2>1, KidCount
<1>5. p[a].level = p[b].level + 1 /\ p[a].level = p[c].level + 1
  BY <1>1, Parent
<1>6. /\ IsFiniteSet({<<a, i>>}) /\ Cardinality({<<a, i>>}) = 1
      /\ IsFiniteSet(B) /\ Cardinality(B) = m + 1
      /\ IsFiniteSet(C) /\ Cardinality(C) = m
      /\ IsFiniteSet(D) /\ Cardinality(D) = (m + 2) * m
      /\ IsFiniteSet(E) /\ Cardinality(E) = (m + 1) * m
  <2>1. \A x : IsFiniteSet({x}) /\ Cardinality({x}) = 1
    BY FS_Singleton
  <2>2. IsFiniteSet(B) /\ Cardinality(B) = m + 1
    <3>1. m + 1 \in Nat /\ 1 * (m + 1) = m + 1
      OBVIOUS
    <3>2. IsFiniteSet(B) /\ Cardinality(B) = Cardinality({b}) * (m + 1)
      BY <2>1, <3>1, PlaceCount
    <3> QED  BY <2>1, <3>1, <3>2
  <2>3. IsFiniteSet(C) /\ Cardinality(C) = m
    <3>1. IsFiniteSet(C) /\ Cardinality(C) = Cardinality({c}) * m
      BY <2>1, PlaceCount
    <3>2. 1 * m = m
      OBVIOUS
    <3> QED  BY <2>1, <3>1, <3>2
  <2>4. IsFiniteSet(D) /\ Cardinality(D) = (m + 2) * m
    BY <1>3, PlaceCount
  <2>5. IsFiniteSet(E) /\ Cardinality(E) = (m + 1) * m
    BY <1>4, PlaceCount
  <2> HIDE DEF B, C, D, E
  <2> QED  BY <2>1, <2>2, <2>3, <2>4, <2>5
<1>7. /\ \A q \in B : q = <<q[1], q[2]>> /\ q[1] = b /\ q[2] \in 1 .. m + 1
      /\ \A q \in C : q = <<q[1], q[2]>> /\ q[1] = c /\ q[2] \in 1 .. m
      /\ \A q \in D : q = <<q[1], q[2]>> /\ q[1] \in KidsOf(h, b, m + 2) /\ q[2] \in 1 .. m
      /\ \A q \in E : q = <<q[1], q[2]>> /\ q[1] \in KidsOf(h, c, m + 1) /\ q[2] \in 1 .. m
  <2>1. \A X, n : \A q \in EntryPlaces(X, n) :
           q = <<q[1], q[2]>> /\ q[1] \in X /\ q[2] \in 1 .. n
    BY DEF EntryPlaces
  <2>2. /\ \A q \in B : q = <<q[1], q[2]>> /\ q[1] \in {b} /\ q[2] \in 1 .. m + 1
        /\ \A q \in C : q = <<q[1], q[2]>> /\ q[1] \in {c} /\ q[2] \in 1 .. m
        /\ \A q \in D : q = <<q[1], q[2]>> /\ q[1] \in KidsOf(h, b, m + 2) /\ q[2] \in 1 .. m
        /\ \A q \in E : q = <<q[1], q[2]>> /\ q[1] \in KidsOf(h, c, m + 1) /\ q[2] \in 1 .. m
    BY <2>1
  <2> QED  BY <2>2
<1>l. PICK l \in Nat : p[b].level = l /\ p[c].level = l /\ p[a].level = l + 1
  BY SMTT(40), <1>2, <1>5
<1>k. \A x : x \in KidsOf(h, b, m + 2) \/ x \in KidsOf(h, c, m + 1) => p[x].level = l - 1
  BY <1>3, <1>4, <1>l
<1>n. l + 1 # l /\ l - 1 # l /\ l - 1 # l + 1
  BY <1>l
<1>8. a # b /\ a # c /\ a \notin KidsOf(h, b, m + 2) /\ a \notin KidsOf(h, c, m + 1)
  BY <1>l, <1>k, <1>n
<1>9. /\ b \notin KidsOf(h, b, m + 2) /\ b \notin KidsOf(h, c, m + 1)
      /\ c \notin KidsOf(h, b, m + 2) /\ c \notin KidsOf(h, c, m + 1)
  BY <1>l, <1>k, <1>n
<1>10. \A x \in KidsOf(h, b, m + 2) : x \notin KidsOf(h, c, m + 1)
  BY <1>3, <1>4
<1>a. \A q \in A : q = <<q[1], q[2]>> /\ q[1] = a /\ q[2] = i
  OBVIOUS
<1> HIDE DEF A, B, C, D, E
<1>11. IsFiniteSet(Q) /\ Cardinality(Q) = LeastDeep(m)
  <2>1. IsFiniteSet(S) /\ Cardinality(S) = 1 + (m + 1)
    <3>1. \A q \in A : q \notin B
      BY <1>7, <1>8, <1>a
    <3>2. IsFiniteSet(A) /\ Cardinality(A) = 1 /\ IsFiniteSet(B) /\ Cardinality(B) = m + 1
      BY <1>6 DEF A
    <3>3. IsFiniteSet(A \cup B) /\ Cardinality(A \cup B) = Cardinality(A) + Cardinality(B)
      BY <3>1, <3>2, Disjoint
    <3> QED  BY <3>2, <3>3
  <2>2. \A q \in S : q[1] = a \/ q[1] = b
    BY <1>7, <1>a
  <2> HIDE DEF S
  <2>3. IsFiniteSet(T) /\ Cardinality(T) = (1 + (m + 1)) + m
    <3>1. \A q \in S : q \notin C
      BY <1>7, <1>8, <2>2
    <3>2. IsFiniteSet(C) /\ Cardinality(C) = m
      BY <1>6
    <3>3. IsFiniteSet(S \cup C) /\ Cardinality(S \cup C) = Cardinality(S) + Cardinality(C)
      BY <2>1, <3>1, <3>2, Disjoint
    <3> QED  BY <2>1, <3>2, <3>3
  <2>4. \A q \in T : q[1] = a \/ q[1] = b \/ q[1] = c
    BY <1>7, <2>2
  <2> HIDE DEF T
  <2>5. IsFiniteSet(U) /\ Cardinality(U) = ((1 + (m + 1)) + m) + (m + 2) * m
    <3>1. \A q \in T : q \notin D
      BY <1>7, <1>8, <1>9, <2>4
    <3>2. IsFiniteSet(D) /\ Cardinality(D) = (m + 2) * m
      BY <1>6
    <3>3. IsFiniteSet(T \cup D) /\ Cardinality(T \cup D) = Cardinality(T) + Cardinality(D)
      BY <2>3, <3>1, <3>2, Disjoint
    <3> QED  BY <2>3, <3>2, <3>3
  <2>6. \A q \in U : q[1] \notin KidsOf(h, c, m + 1)
    BY <1>7, <1>8, <1>9, <1>10, <2>4
  <2> HIDE DEF U
  <2>7. IsFiniteSet(Q) /\ Cardinality(Q) = (((1 + (m + 1)) + m) + (m + 2) * m) + (m + 1) * m
    <3>1. \A q \in U : q \notin E
      BY <1>7, <2>6
    <3>2. IsFiniteSet(E) /\ Cardinality(E) = (m + 1) * m
      BY <1>6
    <3>3. IsFiniteSet(U \cup E) /\ Cardinality(U \cup E) = Cardinality(U) + Cardinality(E)
      BY <2>5, <3>1, <3>2, Disjoint
    <3> QED  BY <2>5, <3>2, <3>3
  <2> QED  BY <2>7 DEF LeastDeep
<1>12. \A q \in Q : q = <<q[1], q[2]>> /\ q[1] \in DOMAIN h /\ q[2] \in DOMAIN h[q[1]].ents
                    /\ q[2] \in Nat
  <2>1. \A q \in Q : q \in A \/ q \in B \/ q \in C \/ q \in D \/ q \in E
    OBVIOUS
  <2> HIDE DEF Q
  <2> DEFINE Ok(q) == q = <<q[1], q[2]>> /\ q[1] \in DOMAIN h /\ q[2] \in DOMAIN h[q[1]].ents
                      /\ q[2] \in Nat
  <2>2. \A x, j : x \in DOMAIN h /\ j \in 1 .. m /\ x # r => j \in DOMAIN h[x].ents /\ j \in Nat
    BY <1>2
  <2>3. \A j : j \in 1 .. m + 1 => j \in DOMAIN h[b].ents /\ j \in Nat
    BY <1>2
  <2>4. ASSUME NEW q \in A PROVE Ok(q)
    BY <1>2, <1>a
  <2>5. ASSUME NEW q \in B PROVE Ok(q)
    BY <1>7, <2>3
  <2>6. ASSUME NEW q \in C PROVE Ok(q)
    BY <1>7, <2>2
  <2>7. ASSUME NEW q \in D PROVE Ok(q)
    BY <1>3, <1>7, <2>2
  <2>8. ASSUME NEW q \in E PROVE Ok(q)
    BY <1>4, <1>7, <2>2
  <2> QED  BY <2>1, <2>4, <2>5, <2>6, <2>7, <2>8
<1>13. Q \in SUBSET ((DOMAIN h) \X Nat)
  BY <1>12
<1> HIDE DEF Q
<1>14. Cardinality(Q) <= Cardinality(K)
  BY <1>12, <1>13, KeysAtPlaces
<1> QED  BY <1>11, <1>14

\* A tree of an even order that is used with so few keys is never so deep: there
\* the entries that replace others come from leaves.
Few(b) == b.order % 2 = 0 /\ Cardinality(b.keys) < LeastDeep(b.order \div 2 - 1)

LEMMA LeavesOfFew ==
    ASSUME Inv, OrderInv, OwnKeys, \A b \in Builds : Few(b)
    PROVE  FromLeaves
<1> SUFFICES ASSUME Internal, LeftSpares \/ RightSpares, mem[Child(Position)].kids # <<>>
             PROVE  FALSE
  BY DEF FromLeaves, IsLeaf
<1>1. /\ build \in Builds /\ Order /\ Heap(mem, Entries(Values)) /\ Sizes(mem, root)
      /\ Placed(mem, root, call) /\ Twice(mem, call)
      /\ root = NoTree => DOMAIN mem = {}
      /\ root # NoTree /\ ~Replaced(call) =>
            \E p, f : Ordered(Values, mem, root, p, f) /\ Sought(call, f)
  BY OrderFacts
<1>2. /\ call.job = "remove" /\ mem[call.at].kids # <<>> /\ Held
      /\ \/ Len(mem[mem[call.at].kids[Position]].ents) > MinKeys
         \/ Len(mem[mem[call.at].kids[Position + 1]].ents) > MinKeys
      /\ mem[mem[call.at].kids[Position]].kids # <<>>
  BY DEF Internal, Removing, LeftSpares, RightSpares, Child, Node, Count, IsLeaf
<1>3. PICK a \in DOMAIN mem : a = call.at /\ root # NoTree
  BY <1>1, <1>2 DEF Placed
<1>4. ~Replaced(call)
  BY <1>1, <1>2 DEF Twice
<1>5. PICK p, f : Ordered(Values, mem, root, p, f)
  BY <1>1, <1>3, <1>4
<1>6. Tree(mem, root, p)
  BY <1>5 DEF Ordered
<1>7. PICK i \in DOMAIN mem[a].ents : i = Position
  BY <1>2, <1>3 DEF Held, Holds, Node
<1>8. i \in DOMAIN mem[a].kids /\ i + 1 \in DOMAIN mem[a].kids /\ i # i + 1
  <2>1. PICK n \in Nat : /\ n = Len(mem[a].ents) /\ DOMAIN mem[a].ents = 1 .. n
                         /\ DOMAIN mem[a].kids = 1 .. Len(mem[a].kids)
    BY <1>1, HeapTypes
  <2>2. DOMAIN mem[a].kids = 1 .. n + 1
    BY <1>1, <1>2, <1>3, <1>6, <2>1, TreeTypes
  <2> QED  BY <1>7, <2>1, <2>2
<1>9. PICK x \in DOMAIN mem, y \in DOMAIN mem :
         /\ x = mem[a].kids[i] /\ y = mem[a].kids[i + 1] /\ x # root /\ y # root
         /\ p[x].up = a /\ p[y].up = a /\ x # y /\ p[x].level = p[y].level
  BY <1>1, <1>6, <1>8, Kid
<1>10. mem[x].kids # <<>> /\ mem[y].kids # <<>>
  <2>1. mem[x].kids # <<>>
    BY <1>2, <1>3, <1>7, <1>9
  <2> QED  BY <1>1, <1>6, <1>9, <2>1, TreeTypes
<1>11. PICK m \in Nat : m = MinKeys /\ m = build.order \div 2 - 1 /\ EvenOrder
  <2>1. build.order \in Nat /\ build.order >= 3 /\ build.order % 2 = 0
    BY <1>1, BuildsAssumption DEF Few
  <2>2. (build.order + 1) \div 2 - 1 = build.order \div 2 - 1 /\ build.order \div 2 - 1 \in Nat
    BY <2>1
  <2> QED  BY <2>1, <2>2 DEF MinKeys, MaxChildren, EvenOrder
<1>12. \A z \in DOMAIN mem : z # root => Len(mem[z].ents) >= m
  BY <1>1, <1>11 DEF Sizes
<1>13. IsFiniteSet(Keys) /\ Cardinality(Keys) < LeastDeep(m)
  <2>1. Cardinality(Keys) < LeastDeep(m)
    BY <1>1, <1>11 DEF Few, Keys
  <2>2. Keys \in SUBSET (0 .. UIntMax)
    BY <1>1, BuildsAssumption DEF Keys
  <2>3. IsFiniteSet(0 .. UIntMax)
    <3>1. 0 \in Int /\ UIntMax \in Int
      BY DEF UIntMax
    <3> QED  BY <3>1, FS_Interval
  <2> QED  BY <2>1, <2>2, <2>3, FS_Subset
<1>14. \A e \in Stored(mem) : e.key \in Keys
  BY DEF OwnKeys
<1>15. Cardinality(Keys) >= LeastDeep(m)
  <2>1. CASE Len(mem[x].ents) > m
    BY <1>5, <1>9, <1>10, <1>12, <1>13, <1>14, <2>1, ManyKeys
  <2>2. CASE Len(mem[y].ents) > m
    BY <1>5, <1>9, <1>10, <1>12, <1>13, <1>14, <2>2, ManyKeys
  <2> QED  BY <1>2, <1>3, <1>7, <1>9, <1>11, <2>1, <2>2
<1>16. Cardinality(Keys) \in Nat /\ LeastDeep(m) \in Nat
  BY <1>13, FS_CardinalityType DEF LeastDeep
<1> QED  BY <1>13, <1>15, <1>16

LEMMA FewKept ==
    ASSUME \A b \in Builds : ~b.reinsert /\ Few(b)
    PROVE  Spec => []FromLeaves
<1>1. ASSUME Inv, OrderInv, OwnKeys PROVE FromLeaves
  BY <1>1, LeavesOfFew
<1>2. ASSUME Inv, OrderInv, FromLeaves, [Next]_vars PROVE OrderInv'
  <2>1. build \in Builds
    BY <1>2, InvFacts
  <2>2. ~Reinsert
    BY <2>1 DEF Reinsert
  <2> QED  BY <2>2, <1>2, KeepsOrder
<1>3. Init => OwnKeys
  BY DEF Init, OwnKeys, Stored
<1>4. Inv /\ OrderInv /\ FromLeaves /\ OwnKeys /\ [Next]_vars => OwnKeys'
  BY KeepsOwnKeys
<1> QED  BY <1>1, <1>2, <1>3, <1>4, StartsOrder, InductiveInvariant, PTL DEF Spec

\* With fewer than 54 keys in the tree of order 10 that is built, or fewer than 9
\* in one of order 4, the search order holds under all calls that insert no key
\* that is in the tree. (TreeDeep has ten keys in one of order 4.)
THEOREM SortedOfFew ==
    ASSUME \A b \in Builds : ~b.reinsert /\ Few(b)
    PROVE  Spec => []Sorted
<1>1. Spec => []FromLeaves
  BY FewKept
<1>2. Spec /\ []FromLeaves => []Sorted
  BY SortedHolds
<1> QED  BY <1>1, <1>2, PTL

\* And the tree is a map.
THEOREM IsMapOfFew ==
    ASSUME \A b \in Builds : ~b.reinsert /\ Few(b)
    PROVE  Spec => IsMap
<1>1. Spec => []FromLeaves
  BY FewKept
<1>2. Spec /\ []FromLeaves => IsMap
  BY IsMapHolds
<1> QED  BY <1>1, <1>2, PTL
=============================================================================
