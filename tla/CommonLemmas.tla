----------------------------- MODULE CommonLemmas -----------------------------
(***************************************************************************)
(* Facts about numbers and sequences that the proofs of several components *)
(* rest on.                                                                *)
(***************************************************************************)
EXTENDS Integers, Sequences, SequenceTheorems, WellFoundedInduction, TLAPS

\* A non-empty set of naturals has a least element.
LEMMA LeastNat ==
    ASSUME NEW T, T \subseteq Nat, T # {}
    PROVE  \E m \in T : \A k \in T : m <= k
<1>1. PICK m \in T : \A k \in T : ~(<<k, m>> \in OpToRel(<, Nat))
  BY WFMin, NatLessThanWellFounded
<1>2. \A k \in T : ~(k < m)
  BY <1>1 DEF OpToRel
<1> QED  BY <1>2

\* Positions on a circle of m: the distance from a to b, the place after b, and the
\* places from a on.
LEMMA Circle ==
    ASSUME NEW m \in Nat \ {0}, NEW a \in 0 .. m - 1, NEW b \in 0 .. m - 1
    PROVE  /\ (b - a) % m = IF a <= b THEN b - a ELSE b - a + m
           /\ (b + 1) % m = IF b + 1 = m THEN 0 ELSE b + 1
           /\ \A k \in 1 .. m : (a + k - 1) % m = IF a + k - 1 < m THEN a + k - 1
                                                                   ELSE a + k - 1 - m
OBVIOUS

\* The stretch from a up to, and without, b.
LEMMA Stretch ==
    ASSUME NEW m \in Nat \ {0}, NEW a \in 0 .. m - 1, NEW b \in 0 .. m - 1
    PROVE  /\ (b - a) % m \in 0 .. m - 1
           /\ (b - a) % m = 0 <=> a = b
           /\ \A k \in 1 .. (b - a) % m : (a + k - 1) % m \in 0 .. m - 1
<1>1. (b - a) % m \in 0 .. m - 1 /\ ((b - a) % m = 0 <=> a = b)
  BY Circle
<1>2. \A k \in 1 .. m : (a + k - 1) % m \in 0 .. m - 1
  BY Circle
<1> QED  BY <1>1, <1>2

\* It grows at b, when there is room.
LEMMA StretchGrows ==
    ASSUME NEW m \in Nat \ {0}, NEW a \in 0 .. m - 1, NEW b \in 0 .. m - 1, (b + 1) % m # a
    PROVE  /\ (b - a) % m < m - 1
           /\ (((b + 1) % m) - a) % m = ((b - a) % m) + 1
           /\ \A k \in 1 .. ((b - a) % m) + 1 : (a + k - 1) % m = b <=> k = ((b - a) % m) + 1
<1>1. PICK c \in 0 .. m - 1 : c = (b + 1) % m
  OBVIOUS
<1>2. c = IF b + 1 = m THEN 0 ELSE b + 1
  BY <1>1, Circle
<1>3. PICK l \in 0 .. m - 1 : l = (b - a) % m
  OBVIOUS
<1>4. l = IF a <= b THEN b - a ELSE b - a + m
  BY <1>3, Circle
<1>5. c # a
  BY <1>1
<1>6. (c - a) % m = IF a <= c THEN c - a ELSE c - a + m
  BY Circle
<1>7. l < m - 1 /\ (c - a) % m = l + 1
  BY <1>2, <1>4, <1>5, <1>6
<1>8. \A k \in 1 .. m : (a + k - 1) % m = IF a + k - 1 < m THEN a + k - 1
                                                           ELSE a + k - 1 - m
  BY Circle
<1>9. \A k \in 1 .. l + 1 : (a + k - 1) % m = b <=> k = l + 1
  BY <1>4, <1>7, <1>8
<1> QED  BY <1>1, <1>3, <1>7, <1>9

\* It shrinks at a, when it is not empty.
LEMMA StretchShrinks ==
    ASSUME NEW m \in Nat \ {0}, NEW a \in 0 .. m - 1, NEW b \in 0 .. m - 1, a # b
    PROVE  /\ (b - ((a + 1) % m)) % m = ((b - a) % m) - 1
           /\ (b - a) % m \in 1 .. m - 1
           /\ (a + 1 - 1) % m = a
           /\ \A k \in 1 .. m - 1 : (((a + 1) % m) + k - 1) % m = (a + (k + 1) - 1) % m
<1>1. PICK c \in 0 .. m - 1 : c = (a + 1) % m
  OBVIOUS
<1>2. c = IF a + 1 = m THEN 0 ELSE a + 1
  BY <1>1, Circle
<1>3. (b - c) % m = ((b - a) % m) - 1 /\ (b - a) % m \in 1 .. m - 1
  <2>1. (b - c) % m = IF c <= b THEN b - c ELSE b - c + m
    BY Circle
  <2>2. (b - a) % m = IF a <= b THEN b - a ELSE b - a + m
    BY Circle
  <2> QED  BY <1>2, <2>1, <2>2
<1>4. \A k \in 1 .. m : (a + k - 1) % m = IF a + k - 1 < m THEN a + k - 1
                                                           ELSE a + k - 1 - m
  BY Circle
<1>5. \A k \in 1 .. m : (c + k - 1) % m = IF c + k - 1 < m THEN c + k - 1
                                                           ELSE c + k - 1 - m
  BY Circle
<1>6. ASSUME NEW k \in 1 .. m - 1
      PROVE  (c + k - 1) % m = (a + (k + 1) - 1) % m
  <2>1. k + 1 \in 1 .. m /\ k \in 1 .. m
    OBVIOUS
  <2> QED  BY <1>2, <1>4, <1>5, <2>1
<1>7. 1 \in 1 .. m
  OBVIOUS
<1>8. (a + 1 - 1) % m = a
  BY <1>4, <1>7
<1> QED  BY <1>1, <1>3, <1>6, <1>8

\* A function on 1 .. n is a sequence of length n.
LEMMA FunctionIsSeq ==
    ASSUME NEW S, NEW n \in Nat, NEW f \in [1 .. n -> S]
    PROVE  f \in Seq(S) /\ Len(f) = n
<1>1. f \in Seq(S)
  BY SeqDef
<1>2. 1 .. Len(f) = 1 .. n /\ Len(f) \in Nat
  BY <1>1, LenProperties
<1> QED  BY <1>1, <1>2
=============================================================================
