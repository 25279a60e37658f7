------------------------- MODULE ContextSwitchProofs -------------------------
(***************************************************************************)
(* Theorems about ContextSwitch, for any number of tasks, wherever they    *)
(* wait and however deep, whether or not their functions return.           *)
(***************************************************************************)
EXTENDS ContextSwitch, FiniteSetTheorems, SequenceTheorems, TLAPS

-----------------------------------------------------------------------------
(* The inductive invariant *)

\* A task's calls begin with its entry, which is nowhere else among them.
EntersOnce(calls) ==
    /\ Len(calls) >= 2 /\ calls[1][2] = "start_task" /\ calls[2][2] = "fn"
    /\ \A j \in 3 .. Len(calls) : calls[j][2] # "fn"

\* A task gives up the processor in ctx_switch and nowhere else.
InSwitch(calls) == EntersOnce(calls) /\ Len(calls) >= 3 /\ Last(calls)[2] = "ctx_switch"

BeforeRun ==
    /\ \A t \in Contexts : chain[t] = <<>>
    /\ \A t \in Tasks : ~started[t]
    /\ control = "ok" /\ returns = 0

\* What is on the stack page and in the buffers are the calls in progress.
ChainInv ==
    /\ running = Main => BeforeRun
    /\ running \in Tasks =>
          /\ started[running] /\ EntersOnce(chain[running])
          /\ control = "ok" => hw = chain[running]
    /\ chain[Main] = <<>>
    /\ \A t \in Tasks : ~started[t] => chain[t] = <<>>
    /\ \A t \in Tasks : t # running /\ chain[t] # <<>> =>
          saved[t] = chain[t] /\ InSwitch(chain[t])

\* The words that the calls c[t] of all contexts t keep.
AllKept(c) == UNION {{t} \X Kept(c[t]) : t \in Contexts}

IndInv ==
    /\ TypeOK /\ ChainInv
    /\ IsFiniteSet(AllKept(chain)) /\ SoftBalanced

\* How many return addresses a waiting task has.
WaitingDepth(wait) == (IF wait[1] = "sleep" THEN 5 ELSE 4) + wait[2]

\* The tasks wait where those of main.c do: in their outermost functions.
WaitsOfMain == Waits \subseteq {<<"sleep", 0>>, <<"yield", 0>>}

\* Relative to IndInv: every stack restored is one of a place where such tasks
\* wait.
WaitsThere(calls) == Len(calls) = 4 \/ (Len(calls) = 5 /\ Slept(calls))
DepthInv == \A t \in Tasks : t # running /\ chain[t] # <<>> => WaitsThere(chain[t])

-----------------------------------------------------------------------------
(* Stacks *)

LEMMA Names ==
    /\ Main \in Contexts /\ Main \notin Tasks /\ Tasks \subseteq Contexts
    /\ Sites \subseteq Callees /\ "fn" \notin Sites
    /\ Depth \in Nat /\ DeepestWait = Depth + 5
    /\ \A wait \in Waits : wait[1] \in {"sleep", "yield"} /\ wait[2] \in 0 .. Depth
<1>1. DeepestWait = Depth + 5
  BY DepthAssumption DEF DeepestWait
<1>2. \A wait \in Waits : wait[1] \in {"sleep", "yield"} /\ wait[2] \in 0 .. Depth
  BY WaitsAssumption
<1> QED  BY <1>1, <1>2, TasksAssumption, SitesAssumption, DepthAssumption DEF Contexts, Callees

LEMMA Words_ ==
    /\ \A callee \in Callees : Words(callee) \in 0 .. 2
    /\ Words("yield") = 2 /\ Words("sleep") = 1
    /\ Words("start_task") = 1 /\ Words("fn") = 1
    /\ Words("task_return") = 0 /\ Words("ctx_switch") = 0
BY DEF Words

\* A stack that is not empty is its front and its top.
LEMMA FrontAndLast ==
    ASSUME NEW s \in Stacks, s # <<>>
    PROVE  /\ Len(s) \in Nat \ {0}
           /\ Front(s) \in Stacks /\ Len(Front(s)) = Len(s) - 1
           /\ Last(s) \in Contexts \X Callees
           /\ \A j \in 1 .. Len(s) - 1 : Front(s)[j] = s[j]
           /\ s = Append(Front(s), Last(s))
<1>1. s \in Seq(Contexts \X Callees) /\ Len(s) \in Nat \ {0}
  BY EmptySeq DEF Stacks
<1>2. Front(s) = SubSeq(s, 1, Len(s) - 1) /\ Last(s) = s[Len(s)]
  BY DEF Front, Last
<1>3. Front(s) \in Seq(Contexts \X Callees) /\ Len(Front(s)) = Len(s) - 1
  <2>1. PICK n \in Nat : n = Len(s) - 1
    BY <1>1
  <2>2. SubSeq(s, 1, n) \in Seq(Contexts \X Callees)
        /\ Len(SubSeq(s, 1, n)) = IF 1 <= n THEN (n - 1) + 1 ELSE 0
    BY <1>1, <2>1, SubSeqProperties
  <2>3. Len(SubSeq(s, 1, n)) = n
    BY <2>2
  <2> QED  BY <1>2, <2>1, <2>2, <2>3
<1>4. \A j \in 1 .. Len(s) - 1 : Front(s)[j] = s[j]
  BY <1>1, <1>2
<1>5. Last(s) \in Contexts \X Callees
  BY <1>1, <1>2
<1>6. s = Append(Front(s), Last(s))
  <2>1. Append(Front(s), Last(s)) \in Seq(Contexts \X Callees)
        /\ Len(Append(Front(s), Last(s))) = Len(s)
    BY <1>1, <1>3, <1>5
  <2>2. ASSUME NEW j \in 1 .. Len(s)
        PROVE  s[j] = Append(Front(s), Last(s))[j]
    <3>1. CASE j = Len(s)
      BY <1>1, <1>2, <1>3, <1>5, <3>1, AppendProperties
    <3>2. CASE j # Len(s)
      <4>1. j \in 1 .. Len(s) - 1
        BY <1>1, <3>2
      <4> QED  BY <1>1, <1>3, <1>4, <1>5, <4>1, AppendProperties
    <3> QED  BY <3>1, <3>2
  <2> QED  BY <1>1, <2>1, <2>2, SeqEqual
<1> QED  BY <1>1, <1>3, <1>4, <1>5, <1>6 DEF Stacks

LEMMA AppendStack ==
    ASSUME NEW s \in Stacks, NEW w \in Contexts \X Callees
    PROVE  /\ Append(s, w) \in Stacks /\ Len(Append(s, w)) = Len(s) + 1 /\ Len(s) \in Nat
           /\ \A j \in 1 .. Len(s) : Append(s, w)[j] = s[j]
           /\ Append(s, w)[Len(s) + 1] = w /\ Last(Append(s, w)) = w
           /\ Append(s, w) # <<>>
<1>1. s \in Seq(Contexts \X Callees)
  BY DEF Stacks
<1>2. /\ Append(s, w) \in Seq(Contexts \X Callees) /\ Len(Append(s, w)) = Len(s) + 1 /\ Len(s) \in Nat
      /\ \A j \in 1 .. Len(s) : Append(s, w)[j] = s[j]
      /\ Append(s, w)[Len(s) + 1] = w /\ Append(s, w) # <<>>
  BY <1>1, AppendProperties, LenProperties
<1> QED  BY <1>2 DEF Stacks, Last

\* Pushed one after the other.
LEMMA PushTwo ==
    ASSUME NEW s \in Stacks, NEW v \in Contexts \X Callees, NEW w \in Contexts \X Callees
    PROVE  s \o <<v, w>> = Append(Append(s, v), w)
<1>1. s \in Seq(Contexts \X Callees)
  BY DEF Stacks
<1> QED  BY <1>1
LEMMA PushThree ==
    ASSUME NEW s \in Stacks, NEW u \in Contexts \X Callees, NEW v \in Contexts \X Callees,
           NEW w \in Contexts \X Callees
    PROVE  s \o (<<u>> \o <<v, w>>) = Append(Append(Append(s, u), v), w)
<1>1. s \in Seq(Contexts \X Callees)
  BY DEF Stacks
<1> QED  BY <1>1

-----------------------------------------------------------------------------
(* Words *)

LEMMA NumberOfWords ==
    ASSUME NEW s \in Stacks
    PROVE  IsFiniteSet(Kept(s)) /\ WordsOf(s) \in Nat
<1>1. Len(s) \in Nat
  BY LenProperties DEF Stacks
<1>2. IsFiniteSet(1 .. Len(s)) /\ IsFiniteSet(1 .. 2)
  <2>1. 1 \in Int /\ 2 \in Int /\ Len(s) \in Int
    BY <1>1
  <2> QED  BY <2>1, FS_Interval
<1>3. IsFiniteSet((1 .. Len(s)) \X (1 .. 2))
  BY <1>2, FS_Product
<1>4. Kept(s) \in SUBSET ((1 .. Len(s)) \X (1 .. 2))
  BY DEF Kept
<1>5. IsFiniteSet(Kept(s))
  BY <1>3, <1>4, FS_Subset
<1> QED  BY <1>5, FS_CardinalityType DEF WordsOf

LEMMA NoCallsNoWords == Kept(<<>>) = {} /\ WordsOf(<<>>) = 0
<1>1. Kept(<<>>) = {}
  BY DEF Kept
<1> QED  BY <1>1, FS_EmptySet DEF WordsOf

LEMMA WordsPushed ==
    ASSUME NEW s \in Stacks, NEW w \in Contexts \X Callees
    PROVE  WordsOf(Append(s, w)) = WordsOf(s) + Words(w[2])
<1> DEFINE n   == Words(w[2])
           new == {Len(s) + 1} \X (1 .. n)
<1>1. /\ Len(s) \in Nat /\ Len(Append(s, w)) = Len(s) + 1
      /\ \A j \in 1 .. Len(s) : Append(s, w)[j] = s[j]
      /\ Append(s, w)[Len(s) + 1] = w
  BY AppendStack
<1>2. n \in 0 .. 2
  BY Words_
<1>3. Kept(Append(s, w)) = Kept(s) \cup new
  <2>1. ASSUME NEW x \in (1 .. Len(s) + 1) \X (1 .. 2)
        PROVE  x[2] <= Words(Append(s, w)[x[1]][2]) <=> x \in Kept(s) \cup new
    <3>1. PICK j \in 1 .. Len(s) + 1, k \in 1 .. 2 : x = <<j, k>>
      OBVIOUS
    <3>2. CASE j = Len(s) + 1
      <4>1. x \notin Kept(s)
        BY <1>1, <3>1, <3>2 DEF Kept
      <4>2. x \in new <=> k <= n
        BY <1>2, <3>1, <3>2
      <4> QED  BY <1>1, <3>1, <3>2, <4>1, <4>2
    <3>3. CASE j \in 1 .. Len(s)
      <4>1. x \notin new
        BY <1>1, <3>1, <3>3
      <4>2. x \in Kept(s) <=> k <= Words(s[j][2])
        BY <3>1, <3>3 DEF Kept
      <4> QED  BY <1>1, <3>1, <3>3, <4>1, <4>2
    <3> QED  BY <1>1, <3>2, <3>3
  <2>2. Kept(s) \cup new \subseteq (1 .. Len(s) + 1) \X (1 .. 2)
    BY <1>1, <1>2 DEF Kept
  <2>3. Kept(Append(s, w)) = {x \in (1 .. Len(s) + 1) \X (1 .. 2) : x[2] <= Words(Append(s, w)[x[1]][2])}
    BY <1>1 DEF Kept
  <2> HIDE DEF new
  <2> QED  BY <2>1, <2>2, <2>3
<1>4. Kept(s) \cap new = {}
  BY <1>1 DEF Kept
<1>5. IsFiniteSet(new) /\ Cardinality(new) = n
  <2>1. IsFiniteSet(1 .. n) /\ Cardinality(1 .. n) = n
    BY <1>2, FS_Interval
  <2>2. IsFiniteSet({Len(s) + 1}) /\ Cardinality({Len(s) + 1}) = 1
    BY FS_Singleton
  <2>3. IsFiniteSet(new) /\ Cardinality(new) = 1 * n
    BY <2>1, <2>2, FS_Product
  <2> QED  BY <1>2, <2>3
<1>6. IsFiniteSet(Kept(s)) /\ Cardinality(Kept(s)) \in Nat
  BY NumberOfWords DEF WordsOf
<1>7. Cardinality(Kept(s) \cup new) = Cardinality(Kept(s)) + n - 0
  BY <1>4, <1>5, <1>6, FS_Union, FS_EmptySet
<1> QED  BY <1>2, <1>3, <1>6, <1>7 DEF WordsOf

LEMMA WordsPopped ==
    ASSUME NEW s \in Stacks, s # <<>>
    PROVE  WordsOf(s) = WordsOf(Front(s)) + Words(Last(s)[2])
BY FrontAndLast, WordsPushed

\* One context's calls change: so do the words kept, by as many.
LEMMA WordsChange ==
    ASSUME NEW c \in [Contexts -> Stacks], IsFiniteSet(AllKept(c)),
           NEW t \in Contexts, NEW calls \in Stacks
    PROVE  /\ IsFiniteSet(AllKept([c EXCEPT ![t] = calls]))
           /\ Cardinality(AllKept([c EXCEPT ![t] = calls]))
                = Cardinality(AllKept(c)) - WordsOf(c[t]) + WordsOf(calls)
           /\ Cardinality(AllKept(c)) \in Nat /\ WordsOf(c[t]) \in Nat /\ WordsOf(calls) \in Nat
           /\ Cardinality(AllKept(c)) >= WordsOf(c[t])
<1> DEFINE old  == {t} \X Kept(c[t])
           new  == {t} \X Kept(calls)
           rest == AllKept(c) \ old
           e    == [c EXCEPT ![t] = calls]
<1>1. c[t] \in Stacks
  OBVIOUS
<1>2. ASSUME NEW s \in Stacks
      PROVE  /\ IsFiniteSet({t} \X Kept(s)) /\ Cardinality({t} \X Kept(s)) = WordsOf(s)
             /\ WordsOf(s) \in Nat
  <2>1. IsFiniteSet(Kept(s)) /\ WordsOf(s) \in Nat /\ Cardinality(Kept(s)) = WordsOf(s)
    BY NumberOfWords DEF WordsOf
  <2>2. IsFiniteSet({t}) /\ Cardinality({t}) = 1
    BY FS_Singleton
  <2>3. IsFiniteSet({t} \X Kept(s)) /\ Cardinality({t} \X Kept(s)) = 1 * WordsOf(s)
    BY <2>1, <2>2, FS_Product
  <2> QED  BY <2>1, <2>3
<1>3. old \subseteq AllKept(c) /\ AllKept(c) \cap old = old
  BY DEF AllKept
<1>4. /\ IsFiniteSet(old) /\ IsFiniteSet(new)
      /\ Cardinality(old) = WordsOf(c[t]) /\ Cardinality(new) = WordsOf(calls)
      /\ WordsOf(c[t]) \in Nat /\ WordsOf(calls) \in Nat
  BY <1>1, <1>2
<1>5. /\ IsFiniteSet(rest) /\ Cardinality(rest) \in Nat
      /\ Cardinality(rest) = Cardinality(AllKept(c)) - WordsOf(c[t])
  <2>1. IsFiniteSet(rest) /\ Cardinality(rest) = Cardinality(AllKept(c)) - Cardinality(old)
    BY <1>3, FS_Difference
  <2> QED  BY <1>4, <2>1, FS_CardinalityType
<1>6. Cardinality(AllKept(c)) \in Nat
  BY FS_CardinalityType
<1>7. rest \cap new = {}
  <2>1. ASSUME NEW x \in new, x \in AllKept(c)
        PROVE  x \in old
    <3>1. PICK u \in Contexts : x \in {u} \X Kept(c[u])
      BY <2>1 DEF AllKept
    <3> QED  BY <2>1, <3>1
  <2> QED  BY <2>1
<1>8. AllKept(e) = rest \cup new
  <2>1. e[t] = calls /\ \A u \in Contexts : u # t => e[u] = c[u]
    OBVIOUS
  <2>2. ASSUME NEW x \in AllKept(e)
        PROVE  x \in rest \cup new
    <3>1. PICK u \in Contexts : x \in {u} \X Kept(e[u])
      BY <2>2 DEF AllKept
    <3>2. CASE u = t
      BY <2>1, <3>1, <3>2
    <3>3. CASE u # t
      <4>1. x \in {u} \X Kept(c[u])
        BY <2>1, <3>1, <3>3
      <4>2. x \in AllKept(c)
        BY <4>1 DEF AllKept
      <4>3. x \notin old
        BY <3>3, <4>1
      <4> QED  BY <4>2, <4>3
    <3> QED  BY <3>2, <3>3
  <2>3. ASSUME NEW x \in rest
        PROVE  x \in AllKept(e)
    <3>1. PICK u \in Contexts : x \in {u} \X Kept(c[u])
      BY <2>3 DEF AllKept
    <3>2. u # t
      BY <2>3, <3>1
    <3>3. x \in {u} \X Kept(e[u])
      BY <2>1, <3>1, <3>2
    <3> QED  BY <3>3 DEF AllKept
  <2>4. new \subseteq AllKept(e)
    BY <2>1 DEF AllKept
  <2> QED  BY <2>2, <2>3, <2>4
<1>9. /\ IsFiniteSet(rest \cup new)
      /\ Cardinality(rest \cup new) = Cardinality(rest) + WordsOf(calls) - 0
  <2>1. Cardinality(rest \cap new) = 0
    BY <1>7, FS_EmptySet
  <2>2. /\ IsFiniteSet(rest \cup new)
        /\ Cardinality(rest \cup new)
             = Cardinality(rest) + Cardinality(new) - Cardinality(rest \cap new)
    BY <1>4, <1>5, FS_Union
  <2> QED  BY <1>4, <2>1, <2>2
<1> HIDE DEF rest, new, old, e
<1>10. /\ IsFiniteSet(AllKept(e))
       /\ Cardinality(AllKept(e)) = Cardinality(AllKept(c)) - WordsOf(c[t]) + WordsOf(calls)
       /\ Cardinality(AllKept(c)) >= WordsOf(c[t])
  BY <1>4, <1>5, <1>6, <1>8, <1>9
<1> QED  BY <1>4, <1>6, <1>10 DEF e

\* Nothing changes when what goes keeps no words.
LEMMA NothingKept ==
    \A c : (\A t \in Contexts : c[t] = <<>>) => AllKept(c) = {}
BY NoCallsNoWords DEF AllKept

-----------------------------------------------------------------------------
(* The functions that switch, and how deep they are *)

LEMMA Pushed ==
    ASSUME NEW t \in Contexts, NEW callee \in Callees
    PROVE  Word(t, callee) \in Contexts \X Callees /\ Word(t, callee)[2] = callee
BY DEF Word

LEMMA Empty == <<>> \in Stacks /\ Len(<<>>) = 0
BY EmptySeq DEF Stacks

\* The first call's words.
LEMMA FirstPushed ==
    ASSUME NEW w \in Contexts \X Callees
    PROVE  /\ Append(<<>>, w) \in Stacks /\ Len(Append(<<>>, w)) = 1
           /\ WordsOf(Append(<<>>, w)) = Words(w[2])
<1>1. PICK e \in Stacks : e = <<>>
  BY Empty
<1>2. WordsOf(Append(e, w)) = WordsOf(e) + Words(w[2])
  BY WordsPushed
<1>3. WordsOf(e) = 0 /\ Words(w[2]) \in 0 .. 2 /\ Len(e) = 0
  BY <1>1, NoCallsNoWords, Words_, Empty
<1>4. Append(e, w) \in Stacks /\ Len(Append(e, w)) = Len(e) + 1
  BY AppendStack
<1> QED  BY <1>1, <1>2, <1>3, <1>4

LEMMA EntryIs ==
    ASSUME NEW t \in Contexts
    PROVE  /\ Entry(t) \in Stacks /\ Len(Entry(t)) = 2 /\ EntersOnce(Entry(t))
           /\ WordsOf(Entry(t)) = 2
<1> DEFINE a == Word(t, "start_task")
           b == Word(t, "fn")
<1>1. /\ a \in Contexts \X Callees /\ a[2] = "start_task"
      /\ b \in Contexts \X Callees /\ b[2] = "fn"
  BY Pushed DEF Callees
<1>2. Entry(t) = <<a, b>>
  BY DEF Entry
<1> HIDE DEF a, b
<1>3. <<a, b>> = Append(Append(<<>>, a), b)
  OBVIOUS
<1>4. Entry(t) \in Stacks /\ Len(Entry(t)) = 2 /\ Entry(t)[1] = a /\ Entry(t)[2] = b
  BY <1>1, <1>2 DEF Stacks
<1>5. EntersOnce(Entry(t))
  BY <1>1, <1>4 DEF EntersOnce
<1>6. WordsOf(Append(<<>>, a)) = 1
  BY <1>1, FirstPushed, Words_
<1>7. WordsOf(Append(Append(<<>>, a), b)) = 2
  BY <1>1, <1>6, FirstPushed, WordsPushed, Words_
<1> QED  BY <1>2, <1>3, <1>4, <1>5, <1>7

\* A task that waits has the return addresses of its own calls, and those of the
\* scheduler's.
LEMMA Waiting ==
    ASSUME NEW t \in Contexts, NEW wait \in {"sleep", "yield"}, NEW s \in Stacks, EntersOnce(s)
    PROVE  /\ s \o Gate(t, wait) \in Stacks /\ InSwitch(s \o Gate(t, wait))
           /\ Len(s \o Gate(t, wait)) = Len(s) + (IF wait = "sleep" THEN 3 ELSE 2)
           /\ WordsOf(s \o Gate(t, wait)) = WordsOf(s) + WordsOf(Gate(t, wait))
           /\ WordsOf(Gate(t, wait)) \in Nat
<1> DEFINE a == Word(t, "sleep")
           b == Word(t, "yield")
           c == Word(t, "ctx_switch")
<1>1. /\ a \in Contexts \X Callees /\ a[2] = "sleep"
      /\ b \in Contexts \X Callees /\ b[2] = "yield"
      /\ c \in Contexts \X Callees /\ c[2] = "ctx_switch"
  BY Pushed DEF Callees
<1>2. Gate(t, wait) = (IF wait = "sleep" THEN <<a>> ELSE <<>>) \o <<b, c>>
  BY DEF Gate
<1> HIDE DEF a, b, c
\* What a push does to the calls.
<1>3. ASSUME NEW r \in Stacks, EntersOnce(r), NEW w \in Contexts \X Callees, w[2] # "fn"
      PROVE  EntersOnce(Append(r, w))
  <2>1. /\ Len(Append(r, w)) = Len(r) + 1 /\ Len(r) \in Nat
        /\ \A j \in 1 .. Len(r) : Append(r, w)[j] = r[j]
        /\ Append(r, w)[Len(r) + 1] = w
    BY AppendStack
  <2> QED  BY <1>3, <2>1 DEF EntersOnce
<1>4. ASSUME NEW r \in Stacks, EntersOnce(r)
      PROVE  /\ Append(Append(r, b), c) \in Stacks /\ InSwitch(Append(Append(r, b), c))
             /\ Len(Append(Append(r, b), c)) = Len(r) + 2
             /\ WordsOf(Append(Append(r, b), c)) = WordsOf(r) + 2
  <2>1. Append(r, b) \in Stacks /\ Len(Append(r, b)) = Len(r) + 1 /\ EntersOnce(Append(r, b))
        /\ Len(r) \in Nat
    BY <1>1, <1>3, <1>4, AppendStack
  <2>2. /\ Append(Append(r, b), c) \in Stacks /\ Len(Append(Append(r, b), c)) = Len(r) + 2
        /\ EntersOnce(Append(Append(r, b), c)) /\ Last(Append(Append(r, b), c)) = c
    BY <1>1, <1>3, <2>1, AppendStack
  <2>3. WordsOf(Append(r, b)) = WordsOf(r) + 2
    BY <1>1, WordsPushed, Words_
  <2>4. WordsOf(Append(Append(r, b), c)) = WordsOf(Append(r, b)) + 0
    BY <1>1, <2>1, WordsPushed, Words_
  <2>5. WordsOf(r) \in Nat
    BY NumberOfWords
  <2>6. Len(r) >= 2
    BY <1>4 DEF EntersOnce
  <2> QED  BY <1>1, <2>1, <2>2, <2>3, <2>4, <2>5, <2>6 DEF InSwitch
<1>5. CASE wait = "yield"
  <2>1. Gate(t, wait) = <<b, c>>
    BY <1>2, <1>5
  <2>2. s \o Gate(t, wait) = Append(Append(s, b), c)
    BY <1>1, <2>1, PushTwo
  <2>3. Gate(t, wait) = Append(Append(<<>>, b), c)
    BY <2>1
  <2>4. WordsOf(Append(<<>>, b)) = 2
    BY <1>1, FirstPushed, Words_
  <2>5. WordsOf(Gate(t, wait)) = 2
    BY <1>1, <2>3, <2>4, FirstPushed, WordsPushed, Words_
  <2>6. /\ s \o Gate(t, wait) \in Stacks /\ InSwitch(s \o Gate(t, wait))
        /\ Len(s \o Gate(t, wait)) = Len(s) + 2
        /\ WordsOf(s \o Gate(t, wait)) = WordsOf(s) + 2
    BY <1>4, <2>2
  <2> QED  BY <1>5, <2>5, <2>6
<1>6. CASE wait = "sleep"
  <2>1. Gate(t, wait) = <<a>> \o <<b, c>>
    BY <1>2, <1>6
  <2>2. s \o Gate(t, wait) = Append(Append(Append(s, a), b), c)
    BY <1>1, <2>1, PushThree
  <2>3. Gate(t, wait) = Append(Append(Append(<<>>, a), b), c)
    BY <2>1
  <2>4. WordsOf(Append(<<>>, a)) = 1 /\ Append(<<>>, a) \in Stacks
    BY <1>1, FirstPushed, Words_
  <2>5. WordsOf(Append(Append(<<>>, a), b)) = 3 /\ Append(Append(<<>>, a), b) \in Stacks
    BY <1>1, <2>4, AppendStack, WordsPushed, Words_
  <2>6. WordsOf(Gate(t, wait)) = 3
    BY <1>1, <2>3, <2>5, WordsPushed, Words_
  <2>7. /\ Append(s, a) \in Stacks /\ EntersOnce(Append(s, a)) /\ Len(Append(s, a)) = Len(s) + 1
        /\ WordsOf(Append(s, a)) = WordsOf(s) + 1 /\ Len(s) \in Nat /\ WordsOf(s) \in Nat
    BY <1>1, <1>3, AppendStack, WordsPushed, NumberOfWords, Words_
  <2>8. /\ s \o Gate(t, wait) \in Stacks /\ InSwitch(s \o Gate(t, wait))
        /\ Len(s \o Gate(t, wait)) = Len(Append(s, a)) + 2
        /\ WordsOf(s \o Gate(t, wait)) = WordsOf(Append(s, a)) + 2
    BY <1>4, <2>2, <2>7
  <2> QED  BY <1>6, <2>6, <2>7, <2>8
<1> QED  BY <1>5, <1>6

\* The stack that a task which ends leaves behind.
LEMMA Ending ==
    ASSUME NEW t \in Contexts, NEW s \in Stacks, Len(s) = 2
    PROVE  LET left == Front(s) \o <<Word(t, "task_return")>>
                         \o (IF TailCalls THEN <<>> ELSE <<Word(t, "yield")>>)
                         \o <<Word(t, "ctx_switch")>>
           IN  left \in Stacks /\ Len(left) = IF TailCalls THEN 3 ELSE 4
<1> DEFINE a == Word(t, "task_return")
           b == Word(t, "yield")
           c == Word(t, "ctx_switch")
<1>1. /\ a \in Contexts \X Callees /\ b \in Contexts \X Callees /\ c \in Contexts \X Callees
  BY Pushed DEF Callees
<1> HIDE DEF a, b, c
<1>2. Front(s) \in Seq(Contexts \X Callees) /\ Len(Front(s)) = 1
  <2>1. s # <<>>
    <3>1. Len(<<>>) = 0 /\ Len(s) # 0
      BY Empty
    <3> QED  BY <3>1, Zenon
  <2>2. Front(s) \in Stacks /\ Len(Front(s)) = Len(s) - 1
    BY <2>1, FrontAndLast
  <2> QED  BY <2>2 DEF Stacks
<1> DEFINE f == Front(s)
<1> HIDE DEF f
<1>3. f \o <<a>> \in Seq(Contexts \X Callees) /\ Len(f \o <<a>>) = 2
  <2>1. f \in Seq(Contexts \X Callees) /\ Len(f) = 1
    BY <1>2 DEF f
  <2>2. <<a>> \in Seq(Contexts \X Callees) /\ Len(<<a>>) = 1
    BY <1>1
  <2> QED  BY <2>1, <2>2, ConcatProperties
<1>4. CASE TailCalls
  <2>1. f \o <<a>> \o <<>> \in Seq(Contexts \X Callees)
        /\ Len(f \o <<a>> \o <<>>) = 2
    BY <1>3
  <2>2. f \o <<a>> \o <<>> \o <<c>> \in Seq(Contexts \X Callees)
        /\ Len(f \o <<a>> \o <<>> \o <<c>>) = 3
    BY <1>1, <2>1
  <2> QED  BY <1>4, <2>2 DEF a, b, c, f, Stacks
<1>5. CASE ~TailCalls
  <2>1. f \o <<a>> \o <<b>> \in Seq(Contexts \X Callees)
        /\ Len(f \o <<a>> \o <<b>>) = 3
    BY <1>1, <1>3
  <2>2. f \o <<a>> \o <<b>> \o <<c>> \in Seq(Contexts \X Callees)
        /\ Len(f \o <<a>> \o <<b>> \o <<c>>) = 4
    BY <1>1, <2>1
  <2> QED  BY <1>5, <2>2 DEF a, b, c, f, Stacks
<1> QED  BY <1>4, <1>5

\* Where a task runs its own code.
LEMMA OwnCode ==
    ASSUME IndInv, control = "ok", running \in Tasks
    PROVE  /\ hw = chain[running] /\ hw \in Stacks /\ hw # <<>> /\ EntersOnce(hw)
           /\ Len(hw) \in Nat /\ Len(hw) >= 2 /\ Len(Entry(running)) = 2
           /\ started[running] /\ running # Main /\ running \in Contexts
<1>1. hw = chain[running] /\ EntersOnce(hw) /\ started[running]
  BY DEF IndInv, ChainInv
<1>2. hw \in Stacks /\ running \in Contexts /\ running # Main
  BY Names DEF IndInv, TypeOK
<1>3. Len(hw) \in Nat /\ Len(hw) >= 2
  BY <1>1, <1>2, LenProperties DEF Stacks, EntersOnce
<1> QED  BY <1>1, <1>2, <1>3, Empty, EntryIs

-----------------------------------------------------------------------------
(* The invariant is kept *)

LEMMA Balance ==
    ASSUME TypeOK, IsFiniteSet(AllKept(chain))
    PROVE  /\ SoftBalanced <=> soft = 3 * returns + Cardinality(AllKept(chain))
           /\ Cardinality(AllKept(chain)) \in Nat /\ returns \in Nat
<1>1. Cardinality(AllKept(chain)) \in Nat
  BY FS_CardinalityType
<1>2. returns \in Nat
  BY MaxReturnsAssumption DEF TypeOK
<1>3. SoftBalanced <=> soft = 3 * returns + Cardinality(AllKept(chain))
  BY DEF SoftBalanced, AllKept, LeakOnly
<1> QED  BY <1>1, <1>2, <1>3

LEMMA InitStep == Init => IndInv
<1> SUFFICES ASSUME Init PROVE IndInv
  OBVIOUS
<1>1. TypeOK
  <2>1. hw \in Stacks /\ Len(hw) = 0 /\ saved \in [Contexts -> Stacks] /\ chain \in [Contexts -> Stacks]
        /\ \A t \in Contexts : Len(saved[t]) = 0
    BY Empty DEF Init
  <2>2. DeepestWait \in Nat /\ 0 \in 0 .. DeepestWait /\ 0 \in 0 .. MaxReturns
    BY Names, MaxReturnsAssumption
  <2>3. mark \in [Tasks -> 0 .. DeepestWait] /\ base \in [Tasks -> Nat] /\ started \in [Tasks -> BOOLEAN]
    BY <2>2 DEF Init
  <2> QED  BY <2>1, <2>2, <2>3, Names DEF Init, TypeOK
<1>2. ChainInv
  BY Names DEF Init, ChainInv, BeforeRun
<1>3. AllKept(chain) = {}
  BY NothingKept DEF Init
<1>4. IsFiniteSet(AllKept(chain)) /\ Cardinality(AllKept(chain)) = 0
  BY <1>3, FS_EmptySet
<1>5. SoftBalanced
  BY <1>1, <1>4, Balance DEF Init
<1> QED  BY <1>1, <1>2, <1>4, <1>5 DEF IndInv

\* The running task calls functions of its own and returns from them.
LEMMA OwnCalls ==
    ASSUME IndInv, control = "ok", running \in Tasks,
           NEW calls \in Stacks, EntersOnce(calls), Len(calls) <= DeepestWait,
           hw' = calls, chain' = [chain EXCEPT ![running] = calls],
           soft' = soft - WordsOf(chain[running]) + WordsOf(calls),
           UNCHANGED <<saved, started, running, control, mark, base, returns>>
    PROVE  IndInv'
<1>1. TypeOK /\ ChainInv /\ IsFiniteSet(AllKept(chain)) /\ SoftBalanced
  BY DEF IndInv
<1>2. chain \in [Contexts -> Stacks] /\ running \in Contexts /\ running # Main
  BY <1>1, Names DEF TypeOK
<1>3. /\ IsFiniteSet(AllKept(chain')) /\ Cardinality(AllKept(chain')) \in Nat
      /\ Cardinality(AllKept(chain'))
           = Cardinality(AllKept(chain)) - WordsOf(chain[running]) + WordsOf(calls)
      /\ WordsOf(chain[running]) \in Nat /\ WordsOf(calls) \in Nat
      /\ Cardinality(AllKept(chain)) >= WordsOf(chain[running])
  BY <1>1, <1>2, WordsChange, FS_CardinalityType
<1>4. /\ soft = 3 * returns + Cardinality(AllKept(chain))
      /\ Cardinality(AllKept(chain)) \in Nat /\ returns \in Nat
  BY <1>1, Balance
<1>5. soft' = 3 * returns + Cardinality(AllKept(chain')) /\ soft' \in Nat
  <2> DEFINE all  == Cardinality(AllKept(chain))
             all_ == Cardinality(AllKept(chain'))
             out  == WordsOf(chain[running])
             in   == WordsOf(calls)
  <2>1. /\ all \in Nat /\ all_ \in Nat /\ out \in Nat /\ in \in Nat /\ returns \in Nat
        /\ all_ = (all - out) + in /\ all >= out /\ soft = 3 * returns + all
        /\ soft' = (soft - out) + in
    BY <1>3, <1>4
  <2> HIDE DEF all, all_, out, in
  <2>2. soft' = 3 * returns + all_ /\ soft' \in Nat
    BY <2>1
  <2> QED  BY <2>2 DEF all_
<1>6. TypeOK'
  <2>1. chain' \in [Contexts -> Stacks]
    BY <1>2
  <2> QED  BY <1>1, <1>5, <2>1 DEF TypeOK
<1>7. ChainInv'
  <2>1. chain'[running] = calls /\ \A t \in Contexts : t # running => chain'[t] = chain[t]
    BY <1>2
  <2>2. started[running]
    BY <1>1 DEF ChainInv
  <2> QED  BY <1>1, <1>2, <2>1, <2>2, Names DEF ChainInv
<1>8. SoftBalanced'
  BY <1>5 DEF SoftBalanced, AllKept, LeakOnly
<1> QED  BY <1>3, <1>6, <1>7, <1>8 DEF IndInv

LEMMA CallStep ==
    ASSUME IndInv, NEW site \in Sites, Call(site)
    PROVE  IndInv'
<1> DEFINE w == Word(running, site)
<1>1. control = "ok" /\ running \in Tasks
  BY DEF Call, InTask
<1>2. /\ hw = chain[running] /\ hw \in Stacks /\ EntersOnce(hw)
      /\ Len(hw) \in Nat /\ Len(hw) >= 2 /\ Len(Entry(running)) = 2 /\ running \in Contexts
  BY <1>1, OwnCode
<1>3. w \in Contexts \X Callees /\ w[2] = site /\ site # "fn"
  BY <1>2, Pushed, Names
<1> HIDE DEF w
<1>4. /\ Append(hw, w) \in Stacks /\ Len(Append(hw, w)) = Len(hw) + 1
      /\ \A j \in 1 .. Len(hw) : Append(hw, w)[j] = hw[j]
      /\ Append(hw, w)[Len(hw) + 1] = w
  BY <1>2, <1>3, AppendStack
<1>5. EntersOnce(Append(hw, w))
  BY <1>2, <1>3, <1>4 DEF EntersOnce
<1>6. Len(Append(hw, w)) <= DeepestWait
  <2>1. Len(hw) < 2 + Depth
    BY <1>2 DEF Call
  <2> QED  BY <1>2, <1>4, <2>1, Names
<1>7. soft' = soft - WordsOf(hw) + WordsOf(Append(hw, w))
  <2>1. WordsOf(Append(hw, w)) = WordsOf(hw) + Words(site)
    BY <1>2, <1>3, WordsPushed
  <2>2. WordsOf(hw) \in Nat /\ Words(site) \in 0 .. 2 /\ soft \in Nat
    BY <1>2, NumberOfWords, Words_, Names DEF IndInv, TypeOK
  <2>3. soft' = soft + Words(site)
    BY DEF Call
  <2> QED  BY <2>1, <2>2, <2>3
<1>8. hw' = Append(hw, w) /\ chain' = [chain EXCEPT ![running] = Append(hw, w)]
      /\ UNCHANGED <<saved, started, running, control, mark, base, returns>>
  BY <1>2 DEF Call, w
<1> QED  BY <1>1, <1>2, <1>4, <1>5, <1>6, <1>7, <1>8, OwnCalls

LEMMA ReturnStep ==
    ASSUME IndInv, Return
    PROVE  IndInv'
<1>1. control = "ok" /\ running \in Tasks
  BY DEF Return
<1>2. /\ hw = chain[running] /\ hw \in Stacks /\ hw # <<>> /\ EntersOnce(hw)
      /\ Len(hw) \in Nat /\ Len(hw) > 2
  <2>1. Len(hw) > Len(Entry(running))
    BY DEF Return
  <2> QED  BY <1>1, <2>1, OwnCode
<1>3. /\ Front(hw) \in Stacks /\ Len(Front(hw)) = Len(hw) - 1
      /\ \A j \in 1 .. Len(hw) - 1 : Front(hw)[j] = hw[j]
      /\ Last(hw) \in Contexts \X Callees
  BY <1>2, FrontAndLast
<1>4. EntersOnce(Front(hw))
  BY <1>2, <1>3 DEF EntersOnce
<1>5. Len(Front(hw)) <= DeepestWait
  BY <1>2, <1>3, Names DEF IndInv, TypeOK
<1>6. soft' = soft - WordsOf(hw) + WordsOf(Front(hw))
  <2>1. WordsOf(hw) = WordsOf(Front(hw)) + Words(Last(hw)[2])
    BY <1>2, WordsPopped
  <2>2. WordsOf(Front(hw)) \in Nat /\ Words(Last(hw)[2]) \in 0 .. 2 /\ soft \in Nat
    BY <1>3, NumberOfWords, Words_ DEF IndInv, TypeOK
  <2>3. soft' = soft - Words(Last(hw)[2])
    BY DEF Return
  <2> QED  BY <2>1, <2>2, <2>3
<1>7. hw' = Front(hw) /\ chain' = [chain EXCEPT ![running] = Front(hw)]
      /\ UNCHANGED <<saved, started, running, control, mark, base, returns>>
  BY <1>2 DEF Return
<1> QED  BY <1>1, <1>2, <1>3, <1>4, <1>5, <1>6, <1>7, OwnCalls

\* scheduler_add concerns a slot whose task has no calls left.
LEMMA AddStep ==
    ASSUME IndInv, NEW t \in Tasks, Add(t)
    PROVE  IndInv'
<1>1. /\ t # running /\ chain[t] = <<>>
      /\ started' = [started EXCEPT ![t] = FALSE]
      /\ saved' = [saved EXCEPT ![t] = <<>>]
      /\ UNCHANGED <<hw, running, control, soft, mark, chain, base, returns>>
  BY DEF Add
<1>2. TypeOK /\ ChainInv
  BY DEF IndInv
<1>3. TypeOK'
  <2>1. saved' \in [Contexts -> Stacks] /\ started' \in [Tasks -> BOOLEAN]
    BY <1>1, <1>2, Empty DEF TypeOK
  <2>2. \A u \in Contexts : Len(saved'[u]) <= DeepestWait
    BY <1>1, <1>2, Empty, Names DEF TypeOK
  <2> QED  BY <1>1, <1>2, <2>1, <2>2 DEF TypeOK
<1>4. ChainInv'
  <2>1. \A u \in Tasks : u # t => saved'[u] = saved[u] /\ started'[u] = started[u]
    BY <1>1, <1>2, Names DEF TypeOK
  <2>2. started'[t] = FALSE
    BY <1>1, <1>2 DEF TypeOK
  <2> QED  BY <1>1, <1>2, <2>1, <2>2, Names DEF ChainInv, BeforeRun
<1>5. (IsFiniteSet(AllKept(chain)) /\ SoftBalanced)'
  BY <1>1 DEF IndInv, AllKept, SoftBalanced
<1> QED  BY <1>3, <1>4, <1>5 DEF IndInv

LEMMA MeasureStep ==
    ASSUME IndInv, NEW t \in Tasks, Measure(t)
    PROVE  IndInv'
<1>1. /\ mark' = [mark EXCEPT ![t] = Len(saved[t])]
      /\ UNCHANGED <<hw, saved, started, running, control, soft, chain, base, returns>>
  BY DEF Measure
<1>2. TypeOK'
  <2>1. Len(saved[t]) \in 0 .. DeepestWait
    BY Names, LenProperties DEF IndInv, TypeOK, Stacks
  <2>2. mark' \in [Tasks -> 0 .. DeepestWait]
    BY <1>1, <2>1 DEF IndInv, TypeOK
  <2> QED  BY <1>1, <2>2 DEF IndInv, TypeOK
<1>3. ChainInv'
  BY <1>1 DEF IndInv, ChainInv, BeforeRun
<1>4. (IsFiniteSet(AllKept(chain)) /\ SoftBalanced)'
  BY <1>1 DEF IndInv, AllKept, SoftBalanced
<1> QED  BY <1>2, <1>3, <1>4 DEF IndInv

-----------------------------------------------------------------------------
(* ctx_switch *)

\* What a caller of ctx_switch sees to: calls is the stack it leaves, if it is
\* to come back, and words counts the others' and its own.
Leaves(next, stack, words, calls) ==
    /\ stack \in Stacks /\ Len(stack) \in 1 .. DeepestWait
    /\ words \in Nat /\ calls \in Stacks
    /\ calls # <<>> => running \in Tasks /\ calls = stack /\ InSwitch(calls)
    /\ next = running => calls # <<>>
    /\ returns' \in 0 .. MaxReturns
    /\ words = 3 * returns' + (Cardinality(AllKept(chain)) - WordsOf(chain[running]) + WordsOf(calls))

\* ctx_switch resumes a task: one that waits, with what it has saved, or the
\* same one again.
LEMMA Resumed ==
    ASSUME IndInv, NEW next \in Tasks, Live(next), started[next],
           NEW stack, NEW words, NEW calls,
           Leaves(next, stack, words, calls), CtxSwitch(next, stack, words, calls)
    PROVE  LET resumed == IF next = running THEN calls ELSE chain[next]
           IN  /\ resumed \in Stacks /\ resumed # <<>> /\ InSwitch(resumed)
               /\ saved'[next] = resumed /\ Len(resumed) <= DeepestWait
               /\ chain' = [[chain EXCEPT ![running] = calls] EXCEPT ![next] = Front(resumed)]
               /\ chain'[next] = Front(resumed)
               /\ \E r \in Restore(Len(stack), resumed) : control' = r[1] /\ hw' = r[2]
               /\ saved' = [saved EXCEPT ![running] = stack]
               /\ running' = next /\ soft' = words
               /\ UNCHANGED <<started, base, mark>>
<1> DEFINE resumed == IF next = running THEN calls ELSE chain[next]
<1>1. /\ saved' = [saved EXCEPT ![running] = stack]
      /\ running' = next
      /\ \E r \in Restore(Len(stack), saved'[next]) : control' = r[1] /\ hw' = r[2]
      /\ chain' = [chain EXCEPT ![running] = calls,
                                ![next] = IF next = running THEN Front(calls) ELSE Front(@)]
      /\ soft' = words
      /\ UNCHANGED <<started, base, mark>>
  BY DEF CtxSwitch, Save
<1>2. TypeOK /\ ChainInv
  BY DEF IndInv
<1>3. /\ chain \in [Contexts -> Stacks] /\ saved \in [Contexts -> Stacks]
      /\ running \in Contexts /\ next \in Contexts
      /\ \A t \in Contexts : Len(saved[t]) <= DeepestWait
  BY <1>2, Names DEF TypeOK
<1>4. /\ stack \in Stacks /\ calls \in Stacks /\ Len(stack) <= DeepestWait
      /\ calls # <<>> => running \in Tasks /\ calls = stack /\ InSwitch(calls)
      /\ next = running => calls # <<>>
  BY Names DEF Leaves
<1>5. /\ next = running => resumed = calls
      /\ next # running => resumed = chain[next]
  OBVIOUS
<1> HIDE DEF resumed
<1>6. /\ resumed \in Stacks /\ resumed # <<>> /\ InSwitch(resumed) /\ saved'[next] = resumed
      /\ Len(resumed) <= DeepestWait
  <2>1. CASE next = running
    <3>1. resumed = calls /\ calls # <<>> /\ calls = stack /\ InSwitch(calls)
      BY <1>4, <1>5, <2>1
    <3>2. saved' = [saved EXCEPT ![running] = stack]
      BY <1>1
    <3>3. saved'[running] = stack
      BY <1>3, <3>2
    <3> QED  BY <1>4, <2>1, <3>1, <3>3
  <2>2. CASE next # running
    <3>1. chain[next] # <<>> /\ saved'[next] = saved[next]
      BY <1>1, <1>3, <2>2 DEF Live
    <3> QED  BY <1>2, <1>3, <1>5, <2>2, <3>1 DEF ChainInv
  <2> QED  BY <2>1, <2>2
<1>7. chain' = [[chain EXCEPT ![running] = calls] EXCEPT ![next] = Front(resumed)]
  <2> DEFINE c1 == [chain EXCEPT ![running] = calls]
  <2>1. chain' = [c1 EXCEPT ![next] = IF next = running THEN Front(calls) ELSE Front(c1[next])]
    BY <1>1
  <2>2. c1[next] = resumed
    BY <1>3, <1>5
  <2>3. (IF next = running THEN Front(calls) ELSE Front(c1[next])) = Front(resumed)
    <3> HIDE DEF c1
    <3> QED  BY <1>5, <2>2
  <2> HIDE DEF c1
  <2>4. chain' = [c1 EXCEPT ![next] = Front(resumed)]
    BY <2>1, <2>3
  <2> QED  BY <2>4 DEF c1
<1>8. chain'[next] = Front(resumed)
  BY <1>3, <1>7
<1> QED  BY <1>1, <1>6, <1>7, <1>8 DEF resumed

LEMMA ResumeStep ==
    ASSUME IndInv, NEW next \in Tasks, Live(next), started[next],
           NEW stack, NEW words, NEW calls,
           Leaves(next, stack, words, calls), CtxSwitch(next, stack, words, calls)
    PROVE  IndInv'
<1> DEFINE resumed == IF next = running THEN calls ELSE chain[next]
           c1      == [chain EXCEPT ![running] = calls]
<1>1. /\ resumed \in Stacks /\ resumed # <<>> /\ InSwitch(resumed)
      /\ saved'[next] = resumed /\ Len(resumed) <= DeepestWait
      /\ chain' = [c1 EXCEPT ![next] = Front(resumed)]
      /\ chain'[next] = Front(resumed)
      /\ \E r \in Restore(Len(stack), resumed) : control' = r[1] /\ hw' = r[2]
      /\ saved' = [saved EXCEPT ![running] = stack]
      /\ running' = next /\ soft' = words
      /\ UNCHANGED <<started, base, mark>>
  BY Resumed
<1>2. TypeOK /\ ChainInv /\ IsFiniteSet(AllKept(chain))
  BY DEF IndInv
<1>3. /\ chain \in [Contexts -> Stacks] /\ saved \in [Contexts -> Stacks]
      /\ running \in Contexts /\ next \in Contexts /\ next # Main
  BY <1>2, Names DEF TypeOK
<1>4. /\ stack \in Stacks /\ Len(stack) \in 1 .. DeepestWait
      /\ words \in Nat /\ calls \in Stacks
      /\ calls # <<>> => running \in Tasks /\ calls = stack /\ InSwitch(calls)
      /\ next = running => calls # <<>>
      /\ returns' \in 0 .. MaxReturns
  BY DEF Leaves
<1>5. /\ Front(resumed) \in Stacks /\ Len(Front(resumed)) = Len(resumed) - 1 /\ Len(resumed) \in Nat
      /\ \A j \in 1 .. Len(resumed) - 1 : Front(resumed)[j] = resumed[j]
  BY <1>1, FrontAndLast
<1>6. EntersOnce(Front(resumed))
  <2> HIDE DEF resumed
  <2>1. EntersOnce(resumed) /\ Len(resumed) >= 3
    BY <1>1 DEF InSwitch
  <2>2. \A j \in 1 .. Len(resumed) - 1 : Front(resumed)[j] = resumed[j]
    BY <1>5
  <2>3. Front(resumed)[1] = resumed[1] /\ Front(resumed)[2] = resumed[2]
    BY <1>5, <2>1, <2>2
  <2> QED  BY <1>5, <2>1, <2>2, <2>3 DEF EntersOnce
<1>7. /\ c1 \in [Contexts -> Stacks] /\ c1[next] = resumed
      /\ chain' \in [Contexts -> Stacks]
      /\ \A t \in Contexts : chain'[t] = IF t = next THEN Front(resumed)
                                         ELSE IF t = running THEN calls ELSE chain[t]
  BY <1>1, <1>3, <1>4, <1>5
<1>8. /\ \/ control' = "ok" /\ hw' = Front(resumed)
         \/ control' = "astray" /\ hw' \in Stacks
         \/ control' = "wild" /\ hw' \in Stacks
      /\ Len(hw') <= DeepestWait /\ hw' \in Stacks
  <2>1. CASE Len(resumed) <= Len(stack) + 1
    <3>1. Restore(Len(stack), resumed) = {<<"ok", Front(resumed)>>}
      BY <2>1 DEF Restore
    <3>2. control' = "ok" /\ hw' = Front(resumed)
      BY <1>1, <3>1
    <3> QED  BY <1>1, <1>5, <3>2, Names
  <2>2. CASE ~(Len(resumed) <= Len(stack) + 1)
    <3>1. Restore(Len(stack), resumed)
            = {<<"astray", SubSeq(resumed, 1, Len(stack))>>, <<"wild", <<>>>>}
      BY <2>2 DEF Restore
    <3>2. \/ control' = "astray" /\ hw' = SubSeq(resumed, 1, Len(stack))
          \/ control' = "wild" /\ hw' = <<>>
      BY <1>1, <3>1
    <3>3. PICK n \in 1 .. DeepestWait : n = Len(stack)
      BY <1>4
    <3>4. SubSeq(resumed, 1, n) \in Stacks /\ Len(SubSeq(resumed, 1, n)) = n
      <4>1. n \in Int /\ 1 <= n /\ n <= Len(resumed) /\ resumed \in Seq(Contexts \X Callees)
        BY <1>1, <1>5, <2>2, <3>3, Names DEF Stacks
      <4>2. \A j \in 1 .. n : resumed[j] \in Contexts \X Callees
        BY <1>5, <4>1
      <4>3. SubSeq(resumed, 1, n) \in Seq(Contexts \X Callees)
            /\ Len(SubSeq(resumed, 1, n)) = IF 1 <= n THEN (n - 1) + 1 ELSE 0
        BY <4>1, <4>2, SubSeqProperties
      <4> QED  BY <4>1, <4>3 DEF Stacks
    <3>5. CASE control' = "astray" /\ hw' = SubSeq(resumed, 1, n)
      BY <3>4, <3>5, Names
    <3>6. CASE control' = "wild" /\ hw' = <<>>
      BY <3>6, Empty, Names
    <3> QED  BY <3>2, <3>3, <3>5, <3>6
  <2> QED  BY <2>1, <2>2
<1>9. TypeOK'
  <2>1. saved' \in [Contexts -> Stacks] /\ \A t \in Contexts : Len(saved'[t]) <= DeepestWait
    BY <1>1, <1>2, <1>3, <1>4, Names DEF TypeOK
  <2>2. running' \in Contexts /\ soft' \in Nat /\ control' \in {"ok", "astray", "wild"}
    BY <1>1, <1>3, <1>4, <1>8
  <2> HIDE DEF resumed, c1
  <2> QED  BY <1>1, <1>2, <1>4, <1>7, <1>8, <2>1, <2>2 DEF TypeOK
<1>10. ChainInv'
  <2> HIDE DEF resumed, c1
  <2>1. running' = next /\ running' # Main /\ started'[next] /\ EntersOnce(chain'[next])
    BY <1>1, <1>3, <1>6
  <2>2. control' = "ok" => hw' = chain'[next]
    BY <1>1, <1>8
  <2>3. chain'[Main] = <<>>
    BY <1>2, <1>3, <1>4, <1>7, Names DEF ChainInv
  <2>4. ASSUME NEW t \in Tasks, ~started'[t]
        PROVE  chain'[t] = <<>>
    <3>1. t # next /\ t # running /\ ~started[t] /\ t \in Contexts
      BY <1>1, <1>2, <2>4, Names DEF ChainInv
    <3> QED  BY <1>2, <1>7, <3>1 DEF ChainInv
  <2>5. ASSUME NEW t \in Tasks, t # next, chain'[t] # <<>>
        PROVE  saved'[t] = chain'[t] /\ InSwitch(chain'[t])
    <3>1. CASE t = running
      <4>1. chain'[t] = calls /\ saved'[t] = stack
        BY <1>1, <1>3, <1>7, <2>5, <3>1
      <4> QED  BY <1>4, <2>5, <4>1
    <3>2. CASE t # running
      <4>1. chain'[t] = chain[t] /\ saved'[t] = saved[t]
        BY <1>1, <1>3, <1>7, <2>5, <3>2, Names
      <4> QED  BY <1>2, <2>5, <3>2, <4>1 DEF ChainInv
    <3> QED  BY <3>1, <3>2
  <2> QED  BY <2>1, <2>2, <2>3, <2>4, <2>5 DEF ChainInv
<1>11. IsFiniteSet(AllKept(chain')) /\ soft' = 3 * returns' + Cardinality(AllKept(chain'))
  <2>1. /\ IsFiniteSet(AllKept(c1))
        /\ Cardinality(AllKept(c1))
             = Cardinality(AllKept(chain)) - WordsOf(chain[running]) + WordsOf(calls)
    BY <1>2, <1>3, <1>4, WordsChange
  <2>2. /\ IsFiniteSet(AllKept(chain'))
        /\ Cardinality(AllKept(chain'))
             = Cardinality(AllKept(c1)) - WordsOf(resumed) + WordsOf(Front(resumed))
        /\ Cardinality(AllKept(c1)) \in Nat
    <3> HIDE DEF c1, resumed
    <3>1. chain' = [c1 EXCEPT ![next] = Front(resumed)] /\ c1[next] = resumed
      BY <1>1, <1>7
    <3>2. /\ IsFiniteSet(AllKept([c1 EXCEPT ![next] = Front(resumed)]))
          /\ Cardinality(AllKept([c1 EXCEPT ![next] = Front(resumed)]))
               = Cardinality(AllKept(c1)) - WordsOf(c1[next]) + WordsOf(Front(resumed))
          /\ Cardinality(AllKept(c1)) \in Nat
      BY <1>3, <1>5, <1>7, <2>1, WordsChange
    <3> QED  BY <3>1, <3>2
  <2>3. WordsOf(resumed) = WordsOf(Front(resumed)) + 0 /\ WordsOf(Front(resumed)) \in Nat
    BY <1>1, <1>5, WordsPopped, NumberOfWords, Words_ DEF InSwitch
  <2>4. words = 3 * returns' + Cardinality(AllKept(c1))
    BY <2>1 DEF Leaves
  <2> HIDE DEF c1, resumed
  <2>5. Cardinality(AllKept(chain')) = Cardinality(AllKept(c1))
    BY <2>2, <2>3
  <2> QED  BY <1>1, <2>2, <2>4, <2>5
<1>12. SoftBalanced'
  BY <1>11 DEF SoftBalanced, AllKept, LeakOnly
<1> QED  BY <1>9, <1>10, <1>11, <1>12 DEF IndInv

\* ctx_switch enters a new task.
LEMMA EnterStep ==
    ASSUME IndInv, NEW next \in Tasks, ~started[next],
           NEW stack, NEW words, NEW calls,
           Leaves(next, stack, words, calls), CtxSwitch(next, stack, words, calls)
    PROVE  IndInv'
<1> DEFINE c1 == [chain EXCEPT ![running] = calls]
<1>1. /\ saved' = [saved EXCEPT ![running] = stack]
      /\ running' = next /\ hw' = Entry(next) /\ control' = "ok"
      /\ chain' = [chain EXCEPT ![running] = calls, ![next] = Entry(next)]
      /\ started' = [started EXCEPT ![next] = TRUE]
      /\ soft' = words + WordsOf(Entry(next))
      /\ base' = [base EXCEPT ![next] = words]
      /\ mark' = mark
  BY DEF CtxSwitch, Save
<1>2. TypeOK /\ ChainInv /\ IsFiniteSet(AllKept(chain))
  BY DEF IndInv
<1>3. /\ chain \in [Contexts -> Stacks] /\ saved \in [Contexts -> Stacks]
      /\ running \in Contexts /\ next \in Contexts /\ next # Main
      /\ started \in [Tasks -> BOOLEAN] /\ base \in [Tasks -> Nat]
      /\ \A t \in Contexts : Len(saved[t]) <= DeepestWait
  BY <1>2, Names DEF TypeOK
<1>4. /\ stack \in Stacks /\ Len(stack) \in 1 .. DeepestWait
      /\ words \in Nat /\ calls \in Stacks
      /\ calls # <<>> => running \in Tasks /\ calls = stack /\ InSwitch(calls)
      /\ returns' \in 0 .. MaxReturns
  BY DEF Leaves
<1>5. next # running /\ chain[next] = <<>>
  BY <1>2 DEF ChainInv
<1>6. Entry(next) \in Stacks /\ Len(Entry(next)) = 2 /\ EntersOnce(Entry(next)) /\ WordsOf(Entry(next)) = 2
  BY <1>3, EntryIs
<1>7. /\ chain' = [c1 EXCEPT ![next] = Entry(next)]
      /\ c1 \in [Contexts -> Stacks] /\ c1[next] = <<>>
      /\ chain' \in [Contexts -> Stacks]
      /\ \A t \in Contexts : chain'[t] = IF t = next THEN Entry(next)
                                         ELSE IF t = running THEN calls ELSE chain[t]
  BY <1>1, <1>3, <1>4, <1>5, <1>6
<1> HIDE DEF c1
<1>8. TypeOK'
  <2>1. saved' \in [Contexts -> Stacks] /\ \A t \in Contexts : Len(saved'[t]) <= DeepestWait
    BY <1>1, <1>3, <1>4, Names
  <2>2. running' \in Contexts /\ soft' \in Nat /\ control' = "ok"
    BY <1>1, <1>3, <1>4, <1>6
  <2>3. started' \in [Tasks -> BOOLEAN] /\ base' \in [Tasks -> Nat]
    BY <1>1, <1>3, <1>4
  <2>4. hw' \in Stacks /\ Len(hw') <= DeepestWait
    BY <1>1, <1>6, Names
  <2> QED  BY <1>1, <1>2, <1>4, <1>7, <2>1, <2>2, <2>3, <2>4 DEF TypeOK
<1>9. ChainInv'
  <2>1. running' = next /\ running' # Main /\ started'[next] /\ hw' = chain'[next] /\ EntersOnce(chain'[next])
    BY <1>1, <1>3, <1>6, <1>7
  <2>2. chain'[Main] = <<>>
    BY <1>2, <1>3, <1>4, <1>7, Names DEF ChainInv
  <2>3. ASSUME NEW t \in Tasks, ~started'[t]
        PROVE  chain'[t] = <<>>
    <3>1. t # next /\ ~started[t] /\ t \in Contexts
      BY <1>1, <1>3, <2>3, Names
    <3>2. t # running
      BY <1>2, <3>1 DEF ChainInv
    <3> QED  BY <1>2, <1>7, <3>1, <3>2 DEF ChainInv
  <2>4. ASSUME NEW t \in Tasks, t # next, chain'[t] # <<>>
        PROVE  saved'[t] = chain'[t] /\ InSwitch(chain'[t])
    <3>1. CASE t = running
      <4>1. chain'[t] = calls /\ saved'[t] = stack
        BY <1>1, <1>3, <1>7, <2>4, <3>1
      <4> QED  BY <1>4, <2>4, <4>1
    <3>2. CASE t # running
      <4>1. chain'[t] = chain[t] /\ saved'[t] = saved[t]
        BY <1>1, <1>3, <1>7, <2>4, <3>2, Names
      <4> QED  BY <1>2, <2>4, <3>2, <4>1 DEF ChainInv
    <3> QED  BY <3>1, <3>2
  <2> QED  BY <2>1, <2>2, <2>3, <2>4 DEF ChainInv
<1>10. IsFiniteSet(AllKept(chain')) /\ soft' = 3 * returns' + Cardinality(AllKept(chain'))
  <2>1. /\ IsFiniteSet(AllKept(c1))
        /\ Cardinality(AllKept(c1))
             = Cardinality(AllKept(chain)) - WordsOf(chain[running]) + WordsOf(calls)
    BY <1>2, <1>3, <1>4, WordsChange DEF c1
  <2>2. /\ IsFiniteSet(AllKept([c1 EXCEPT ![next] = Entry(next)]))
        /\ Cardinality(AllKept([c1 EXCEPT ![next] = Entry(next)]))
             = Cardinality(AllKept(c1)) - WordsOf(c1[next]) + WordsOf(Entry(next))
        /\ Cardinality(AllKept(c1)) \in Nat
    <3>1. c1 \in [Contexts -> Stacks] /\ Entry(next) \in Stacks
      BY <1>6, <1>7
    <3> QED  BY <1>3, <2>1, <3>1, WordsChange
  <2>3. IsFiniteSet(AllKept(chain')) /\ Cardinality(AllKept(chain')) = Cardinality(AllKept(c1)) - 0 + 2
    <3>1. WordsOf(c1[next]) = 0
      BY <1>7, NoCallsNoWords
    <3>2. WordsOf(Entry(next)) = 2
      BY <1>6
    <3>3. chain' = [c1 EXCEPT ![next] = Entry(next)]
      BY <1>7
    <3> QED  BY <2>2, <3>1, <3>2, <3>3
  <2>4. words = 3 * returns' + Cardinality(AllKept(c1))
    BY <2>1 DEF Leaves
  <2> QED  BY <1>1, <1>4, <1>6, <1>7, <2>2, <2>3, <2>4
<1>11. SoftBalanced'
  BY <1>10 DEF SoftBalanced, AllKept, LeakOnly
<1> QED  BY <1>8, <1>9, <1>10, <1>11 DEF IndInv

LEMMA SwitchStep ==
    ASSUME IndInv, NEW next \in Tasks, Live(next),
           NEW stack, NEW words, NEW calls,
           Leaves(next, stack, words, calls), CtxSwitch(next, stack, words, calls)
    PROVE  IndInv'
BY ResumeStep, EnterStep

\* scheduler_sleep and scheduler_yield.
LEMMA WaitLeaves ==
    ASSUME IndInv, NEW wait \in {"sleep", "yield"}, NEW next \in Tasks, Live(next), Wait(wait, next)
    PROVE  /\ Leaves(next, hw \o Gate(running, wait), soft + WordsOf(Gate(running, wait)),
                     chain[running] \o Gate(running, wait))
           /\ CtxSwitch(next, hw \o Gate(running, wait), soft + WordsOf(Gate(running, wait)),
                        chain[running] \o Gate(running, wait))
           /\ chain[running] \o Gate(running, wait) # <<>>
           /\ \E w \in Waits : Len(hw \o Gate(running, wait)) = WaitingDepth(w)
<1> DEFINE stack == hw \o Gate(running, wait)
<1>1. /\ control = "ok" /\ running \in Tasks /\ <<wait, Len(hw) - Len(Entry(running))>> \in Waits
      /\ CtxSwitch(next, stack, soft + WordsOf(Gate(running, wait)), chain[running] \o Gate(running, wait))
      /\ returns' = returns
  BY DEF Wait, InTask
<1>2. /\ hw = chain[running] /\ hw \in Stacks /\ EntersOnce(hw)
      /\ Len(hw) \in Nat /\ Len(hw) >= 2 /\ Len(Entry(running)) = 2 /\ running \in Contexts
  BY <1>1, OwnCode
<1>3. /\ stack \in Stacks /\ InSwitch(stack)
      /\ Len(stack) = Len(hw) + (IF wait = "sleep" THEN 3 ELSE 2)
      /\ WordsOf(stack) = WordsOf(hw) + WordsOf(Gate(running, wait))
      /\ WordsOf(Gate(running, wait)) \in Nat
  BY <1>2, Waiting
<1>4. PICK w \in Waits : w = <<wait, Len(hw) - 2>>
  BY <1>1, <1>2
<1>5. Len(hw) - 2 \in 0 .. Depth /\ w[1] = wait /\ w[2] = Len(hw) - 2
  BY <1>4, Names
<1>6. Len(stack) \in 1 .. DeepestWait /\ Len(stack) = WaitingDepth(w)
  <2>1. CASE wait = "sleep"
    <3>1. Len(stack) = Len(hw) + 3 /\ WaitingDepth(w) = 5 + (Len(hw) - 2)
      BY <1>3, <1>5, <2>1 DEF WaitingDepth
    <3> QED  BY <1>2, <1>5, <3>1, Names
  <2>2. CASE wait = "yield"
    <3>1. Len(stack) = Len(hw) + 2 /\ WaitingDepth(w) = 4 + (Len(hw) - 2)
      BY <1>3, <1>5, <2>2 DEF WaitingDepth
    <3> QED  BY <1>2, <1>5, <3>1, Names
  <2> QED  BY <2>1, <2>2
<1>7. stack # <<>>
  <2>1. Len(stack) # 0 /\ Len(<<>>) = 0
    BY <1>6, Empty
  <2> QED  BY <2>1, Zenon
<1>8. soft + WordsOf(Gate(running, wait)) \in Nat
      /\ soft + WordsOf(Gate(running, wait))
           = 3 * returns' + (Cardinality(AllKept(chain)) - WordsOf(chain[running]) + WordsOf(stack))
  <2>1. soft = 3 * returns + Cardinality(AllKept(chain)) /\ Cardinality(AllKept(chain)) \in Nat
        /\ soft \in Nat /\ returns \in Nat
    BY Balance DEF IndInv, TypeOK
  <2>2. WordsOf(hw) \in Nat
    BY <1>2, NumberOfWords
  <2> QED  BY <1>1, <1>2, <1>3, <2>1, <2>2
<1>9. returns' \in 0 .. MaxReturns
  BY <1>1 DEF IndInv, TypeOK
<1> HIDE DEF stack
<1>10. Leaves(next, stack, soft + WordsOf(Gate(running, wait)), stack)
  BY <1>1, <1>3, <1>6, <1>7, <1>8, <1>9 DEF Leaves
<1>11. stack = chain[running] \o Gate(running, wait) /\ stack = hw \o Gate(running, wait)
  BY <1>2 DEF stack
<1> QED  BY <1>1, <1>6, <1>7, <1>10, <1>11

\* The end of a task's function and scheduler_task_return.
Left == Front(hw) \o <<Word(running, "task_return")>>
                  \o (IF TailCalls THEN <<>> ELSE <<Word(running, "yield")>>)
                  \o <<Word(running, "ctx_switch")>>

LEMMA TaskReturnLeaves ==
    ASSUME IndInv, NEW next \in Tasks, TaskReturn(next)
    PROVE  /\ Leaves(next, Left, soft - Words("fn") + Words("yield"), <<>>)
           /\ CtxSwitch(next, Left, soft - Words("fn") + Words("yield"), <<>>)
           /\ Ends /\ next # running /\ running \in Tasks
           /\ Len(Left) = IF TailCalls THEN 3 ELSE 4
<1>1. /\ control = "ok" /\ running \in Tasks /\ Last(hw)[2] = "fn" /\ Ends /\ next # running
      /\ returns < MaxReturns /\ returns' = returns + 1
      /\ CtxSwitch(next, Left, soft - Words("fn") + Words("yield"), <<>>)
  BY DEF TaskReturn, InTask, Left
<1>2. /\ hw = chain[running] /\ hw \in Stacks /\ hw # <<>> /\ EntersOnce(hw)
      /\ Len(hw) \in Nat /\ Len(hw) >= 2 /\ running \in Contexts
  BY <1>1, OwnCode
<1>3. Len(hw) = 2
  <2>1. PICK n \in Nat : n = Len(hw)
    BY <1>2
  <2>2. n >= 2 /\ \A j \in 3 .. n : hw[j][2] # "fn"
    BY <1>2, <2>1 DEF EntersOnce
  <2>3. hw[n][2] = "fn"
    BY <1>1, <2>1 DEF Last
  <2> QED  BY <2>1, <2>2, <2>3
<1>4. Left \in Stacks /\ Len(Left) = IF TailCalls THEN 3 ELSE 4
  BY <1>2, <1>3, Ending DEF Left
<1>5. WordsOf(hw) \in Nat /\ Cardinality(AllKept(chain)) >= WordsOf(hw)
  <2>1. chain \in [Contexts -> Stacks] /\ IsFiniteSet(AllKept(chain))
    BY DEF IndInv, TypeOK
  <2> QED  BY <1>2, <2>1, WordsChange
<1>6. soft = 3 * returns + Cardinality(AllKept(chain)) /\ Cardinality(AllKept(chain)) \in Nat
      /\ soft \in Nat /\ returns \in Nat
  BY Balance DEF IndInv, TypeOK
<1>7. WordsOf(hw) = 2
  <2>1. /\ Front(hw) \in Stacks /\ Len(Front(hw)) = 1 /\ Front(hw)[1] = hw[1]
        /\ WordsOf(hw) = WordsOf(Front(hw)) + Words(Last(hw)[2])
    <3>1. /\ Front(hw) \in Stacks /\ Len(Front(hw)) = Len(hw) - 1
          /\ \A j \in 1 .. Len(hw) - 1 : Front(hw)[j] = hw[j]
      BY <1>2, FrontAndLast
    <3>2. WordsOf(hw) = WordsOf(Front(hw)) + Words(Last(hw)[2])
      BY <1>2, WordsPopped
    <3> QED  BY <1>3, <3>1, <3>2
  <2>2. Front(hw) # <<>>
    <3>1. Len(Front(hw)) # 0 /\ Len(<<>>) = 0
      BY <2>1, Empty
    <3> QED  BY <3>1, Zenon
  <2> DEFINE f == Front(hw)
  <2>3. f \in Stacks /\ f # <<>> /\ Len(f) = 1 /\ f[1][2] = "start_task"
    BY <1>2, <2>1, <2>2 DEF EntersOnce
  <2> HIDE DEF f
  <2>4. Last(f)[2] = "start_task" /\ Front(f) \in Stacks /\ Len(Front(f)) = 0
    BY <2>3, FrontAndLast DEF Last
  <2>5. Front(f) = <<>>
    BY <2>4, EmptySeq DEF Stacks
  <2>6. WordsOf(f) = WordsOf(Front(f)) + Words(Last(f)[2])
    BY <2>3, WordsPopped
  <2>7. WordsOf(f) = 1
    BY <2>4, <2>5, <2>6, NoCallsNoWords, Words_
  <2> QED  BY <1>1, <2>1, <2>7, Words_ DEF f
<1>8. /\ soft - Words("fn") + Words("yield") \in Nat
      /\ soft - Words("fn") + Words("yield")
           = 3 * returns' + (Cardinality(AllKept(chain)) - WordsOf(chain[running]) + WordsOf(<<>>))
  <2>1. WordsOf(<<>>) = 0 /\ Words("fn") = 1 /\ Words("yield") = 2
    BY NoCallsNoWords, Words_
  <2> QED  BY <1>1, <1>2, <1>5, <1>6, <1>7, <2>1
<1>9. returns' \in 0 .. MaxReturns
  BY <1>1, <1>6, MaxReturnsAssumption DEF IndInv, TypeOK
<1>10. Len(Left) \in 1 .. DeepestWait
  BY <1>4, Names
<1>11. Leaves(next, Left, soft - Words("fn") + Words("yield"), <<>>)
  BY <1>1, <1>4, <1>8, <1>9, <1>10, Empty DEF Leaves
<1> QED  BY <1>1, <1>4, <1>11

\* scheduler_run: main()'s stack is left for good.
LEMMA RunLeaves ==
    ASSUME IndInv, NEW first \in Tasks, Run(first)
    PROVE  /\ Leaves(first, <<Word(Main, "ctx_switch")>>, 0, <<>>)
           /\ CtxSwitch(first, <<Word(Main, "ctx_switch")>>, 0, <<>>)
           /\ ~started[first] /\ BeforeRun
<1> DEFINE w == Word(Main, "ctx_switch")
<1>1. running = Main /\ CtxSwitch(first, <<w>>, 0, <<>>) /\ returns' = returns
  BY DEF Run
<1>2. BeforeRun /\ first # running
  BY <1>1, Names DEF IndInv, ChainInv
<1>3. w \in Contexts \X Callees
  BY Pushed, Names DEF Callees
<1>4. <<w>> \in Stacks /\ Len(<<w>>) = 1
  BY <1>3 DEF Stacks
<1>5. Len(<<w>>) \in 1 .. DeepestWait
  BY <1>4, Names
<1>6. AllKept(chain) = {} /\ chain[running] = <<>> /\ returns = 0
  BY <1>1, <1>2, NothingKept, Names DEF BeforeRun
<1>7. Cardinality(AllKept(chain)) = 0 /\ WordsOf(chain[running]) = 0 /\ WordsOf(<<>>) = 0
  BY <1>6, NoCallsNoWords, FS_EmptySet
<1>8. 0 = 3 * returns' + (Cardinality(AllKept(chain)) - WordsOf(chain[running]) + WordsOf(<<>>))
  BY <1>1, <1>6, <1>7
<1>9. returns' \in 0 .. MaxReturns
  BY <1>1 DEF IndInv, TypeOK
<1> HIDE DEF w
<1>10. Leaves(first, <<w>>, 0, <<>>)
  BY <1>2, <1>4, <1>5, <1>8, <1>9, Empty DEF Leaves
<1> QED  BY <1>1, <1>2, <1>10 DEF w, BeforeRun

LEMMA NextStep == IndInv /\ [Next]_vars => IndInv'
<1> SUFFICES ASSUME IndInv, [Next]_vars PROVE IndInv'
  OBVIOUS
<1>1. CASE \E site \in Sites : Call(site)
  BY <1>1, CallStep
<1>2. CASE Return
  BY <1>2, ReturnStep
<1>3. CASE \E wait \in {"sleep", "yield"}, next \in Tasks : Live(next) /\ Wait(wait, next)
  <2>1. PICK wait \in {"sleep", "yield"}, next \in Tasks : Live(next) /\ Wait(wait, next)
    BY <1>3
  <2> QED  BY <2>1, WaitLeaves, SwitchStep
<1>4. CASE \E next \in Tasks : Live(next) /\ TaskReturn(next)
  <2>1. PICK next \in Tasks : Live(next) /\ TaskReturn(next)
    BY <1>4
  <2> QED  BY <2>1, TaskReturnLeaves, SwitchStep
<1>5. CASE \E t \in Tasks : Add(t)
  BY <1>5, AddStep
<1>6. CASE \E t \in Measured : Measure(t)
  BY <1>6, MeasureStep, MeasuredAssumption
<1>7. CASE \E first \in Tasks : Run(first)
  <2>1. PICK first \in Tasks : Run(first)
    BY <1>7
  <2> QED  BY <2>1, RunLeaves, EnterStep
<1>8. CASE UNCHANGED vars \/ Lost
  <2> USE DEF Lost
  <2>1. TypeOK'
    BY <1>8 DEF vars, IndInv, TypeOK
  <2>2. ChainInv'
    BY <1>8 DEF vars, IndInv, ChainInv, BeforeRun
  <2>3. (IsFiniteSet(AllKept(chain)) /\ SoftBalanced)'
    BY <1>8 DEF vars, IndInv, AllKept, SoftBalanced
  <2> QED  BY <2>1, <2>2, <2>3 DEF IndInv
<1> QED  BY <1>1, <1>2, <1>3, <1>4, <1>5, <1>6, <1>7, <1>8 DEF Next

-----------------------------------------------------------------------------
(* Where a switch goes *)

LEMMA SleepSeen ==
    ASSUME NEW t \in Contexts, NEW s \in Stacks
    PROVE  Slept(s \o Gate(t, "sleep"))
<1> DEFINE a == Word(t, "sleep")
           b == Word(t, "yield")
           c == Word(t, "ctx_switch")
<1>1. /\ a \in Contexts \X Callees /\ a[2] = "sleep"
      /\ b \in Contexts \X Callees /\ c \in Contexts \X Callees
  BY Pushed DEF Callees
<1>2. Gate(t, "sleep") = (IF "sleep" = "sleep" THEN <<a>> ELSE <<>>) \o <<b, c>>
  BY DEF Gate
<1> HIDE DEF a, b, c
<1>3. s \o Gate(t, "sleep") = Append(Append(Append(s, a), b), c)
  <2>1. s \o (<<a>> \o <<b, c>>) = Append(Append(Append(s, a), b), c)
    BY <1>1, PushThree
  <2> QED  BY <1>2, <2>1, Zenon
<1>4. /\ Append(s, a) \in Stacks /\ Len(Append(s, a)) = Len(s) + 1 /\ Len(s) \in Nat
      /\ Append(s, a)[Len(s) + 1] = a
  BY <1>1, AppendStack
<1>5. /\ Append(Append(s, a), b) \in Stacks /\ Len(Append(Append(s, a), b)) = Len(s) + 2
      /\ Append(Append(s, a), b)[Len(s) + 1] = a
  BY <1>1, <1>4, AppendStack
<1>6. /\ Append(Append(Append(s, a), b), c) \in Stacks
      /\ Len(Append(Append(Append(s, a), b), c)) = Len(s) + 3
      /\ Append(Append(Append(s, a), b), c)[Len(s) + 1] = a
  BY <1>1, <1>5, AppendStack
<1> DEFINE calls == Append(Append(Append(s, a), b), c)
<1>7. DOMAIN calls = 1 .. Len(calls)
  BY <1>6, LenProperties DEF Stacks
<1>8. Len(s) + 1 \in DOMAIN calls /\ calls[Len(s) + 1][2] = "sleep"
  BY <1>1, <1>4, <1>6, <1>7
<1> HIDE DEF calls
<1>9. Slept(calls)
  BY <1>8 DEF Slept
<1> QED  BY <1>3, <1>9 DEF calls

\* What a task leaves that sleeps or yields in its outermost function.
LEMMA WaitIsThere ==
    ASSUME WaitsOfMain, IndInv,
           NEW wait \in {"sleep", "yield"}, NEW next \in Tasks, Wait(wait, next)
    PROVE  WaitsThere(hw \o Gate(running, wait))
<1>1. /\ control = "ok" /\ running \in Tasks /\ <<wait, Len(hw) - Len(Entry(running))>> \in Waits
  BY DEF Wait, InTask
<1>2. /\ hw \in Stacks /\ EntersOnce(hw) /\ Len(hw) \in Nat /\ Len(Entry(running)) = 2
      /\ running \in Contexts
  BY <1>1, OwnCode
<1>3. Len(hw) = 2
  <2>1. PICK w \in Waits : w = <<wait, Len(hw) - 2>>
    BY <1>1, <1>2
  <2>2. w = <<"sleep", 0>> \/ w = <<"yield", 0>>
    BY DEF WaitsOfMain
  <2>3. PICK n \in Nat : n = Len(hw)
    BY <1>2
  <2>4. w = <<wait, n - 2>> /\ n - 2 \in Int
    BY <2>1, <2>3
  <2>5. n - 2 = 0
    BY <2>2, <2>4
  <2>6. n = 2
    BY <2>5
  <2> QED  BY <2>3, <2>6, Zenon
<1>4. Len(hw \o Gate(running, wait)) = 2 + (IF wait = "sleep" THEN 3 ELSE 2)
  BY <1>2, <1>3, Waiting
<1> QED  BY <1>2, <1>4, SleepSeen DEF WaitsThere

\* The waiting tasks' stacks stay like that.
LEMMA DepthStep ==
    ASSUME WaitsOfMain
    PROVE  IndInv /\ DepthInv /\ [Next]_vars => DepthInv'
<1> SUFFICES ASSUME IndInv, DepthInv, [Next]_vars PROVE DepthInv'
  OBVIOUS
<1>1. TypeOK /\ ChainInv
  BY DEF IndInv
<1>2. ASSUME NEW next \in Tasks, NEW stack, NEW words, NEW calls,
             CtxSwitch(next, stack, words, calls),
             calls # <<>> => WaitsThere(calls)
      PROVE  DepthInv'
  <2>1. chain \in [Contexts -> Stacks] /\ running \in Contexts /\ next \in Contexts
    BY <1>1, Names DEF TypeOK
  <2>2. running' = next
        /\ \A t \in Tasks : t # next => chain'[t] = IF t = running THEN calls ELSE chain[t]
    BY <1>2, <2>1, Names DEF CtxSwitch
  <2>3. ASSUME NEW t \in Tasks, t # next, chain'[t] # <<>>
        PROVE  WaitsThere(chain'[t])
    <3>1. CASE t = running
      BY <1>2, <2>2, <2>3, <3>1
    <3>2. CASE t # running
      <4>1. chain'[t] = chain[t]
        BY <2>2, <2>3, <3>2
      <4> QED  BY <2>3, <3>2, <4>1 DEF DepthInv
    <3> QED  BY <3>1, <3>2
  <2>4. \A t \in Tasks : t # running' /\ chain'[t] # <<>> => WaitsThere(chain'[t])
    BY <2>2, <2>3
  <2> QED  BY <2>4 DEF DepthInv, WaitsThere, Slept
<1>3. CASE (\E site \in Sites : Call(site)) \/ Return
  <2>1. /\ running' = running /\ running \in Contexts
        /\ \A t \in Tasks : t # running => chain'[t] = chain[t]
    BY <1>1, <1>3, Names DEF Call, Return, TypeOK
  <2> QED  BY <2>1 DEF DepthInv, WaitsThere, Slept
<1>4. CASE \E wait \in {"sleep", "yield"}, next \in Tasks : Live(next) /\ Wait(wait, next)
  <2>1. PICK wait \in {"sleep", "yield"}, next \in Tasks : Live(next) /\ Wait(wait, next)
    BY <1>4
  <2>2. control = "ok" /\ running \in Tasks
    BY <2>1 DEF Wait, InTask
  <2>3. hw = chain[running]
    BY <2>2, OwnCode
  <2>4. WaitsThere(chain[running] \o Gate(running, wait))
    BY <2>1, <2>3, WaitIsThere
  <2> QED  BY <1>2, <2>1, <2>4, WaitLeaves
<1>5. CASE \E next \in Tasks : Live(next) /\ TaskReturn(next)
  <2>1. PICK next \in Tasks : TaskReturn(next)
    BY <1>5
  <2> QED  BY <1>2, <2>1, TaskReturnLeaves
<1>6. CASE \E t \in Tasks : Add(t)
  BY <1>6 DEF Add, DepthInv, WaitsThere, Slept
<1>7. CASE \E t \in Measured : Measure(t)
  BY <1>7 DEF Measure, DepthInv, WaitsThere, Slept
<1>8. CASE \E first \in Tasks : Run(first)
  <2>1. PICK first \in Tasks : Run(first)
    BY <1>8
  <2> QED  BY <1>2, <2>1, RunLeaves
<1>9. CASE UNCHANGED vars \/ Lost
  BY <1>9 DEF vars, Lost, DepthInv, WaitsThere, Slept
<1> QED  BY <1>3, <1>4, <1>5, <1>6, <1>7, <1>8, <1>9 DEF Next

\* The copier comes back to ctx_switch if the stack it writes is no more than
\* one deeper than the one it runs on.
LEMMA ComesBack ==
    ASSUME IndInv, NEW next \in Tasks, Live(next),
           NEW stack, NEW words, NEW calls,
           Leaves(next, stack, words, calls), CtxSwitch(next, stack, words, calls),
           started[next] /\ next # running => Len(chain[next]) <= Len(stack) + 1
    PROVE  control' = "ok"
<1>1. CASE ~started[next]
  BY <1>1 DEF CtxSwitch
<1>2. CASE started[next]
  <2> DEFINE resumed == IF next = running THEN calls ELSE chain[next]
  <2>1. resumed # <<>> /\ \E r \in Restore(Len(stack), resumed) : control' = r[1] /\ hw' = r[2]
    BY <1>2, Resumed
  <2>2. calls \in Stacks /\ (calls # <<>> => calls = stack) /\ (next = running => calls # <<>>)
        /\ Len(stack) \in 1 .. DeepestWait
    BY DEF Leaves
  <2>3. Len(resumed) <= Len(stack) + 1
    BY <1>2, <2>2, Names
  <2> HIDE DEF resumed
  <2>4. Restore(Len(stack), resumed) = {<<"ok", Front(resumed)>>}
    BY <2>3 DEF Restore
  <2> QED  BY <2>1, <2>4
<1> QED  BY <1>1, <1>2

LEMMA AstrayStep ==
    ASSUME WaitsOfMain, IndInv, DepthInv, IndInv', ResumesWhereItLeft, [Next]_vars
    PROVE  ResumesWhereItLeft' \/ (returns' # returns /\ Slept(saved[running])')
<1>1. control = "ok" /\ TypeOK /\ ChainInv /\ ChainInv'
  BY DEF ResumesWhereItLeft, IndInv
<1>2. control' = "ok" => ResumesWhereItLeft'
  BY <1>1 DEF ChainInv, ResumesWhereItLeft
\* What waits.
<1>3. ASSUME NEW next \in Tasks, next # running, Live(next), started[next]
      PROVE  WaitsThere(chain[next])
  BY <1>3 DEF DepthInv, Live
<1>4. CASE \/ \E site \in Sites : Call(site)
           \/ Return
           \/ \E t \in Tasks : Add(t)
           \/ \E t \in Measured : Measure(t)
           \/ UNCHANGED vars
  BY <1>1, <1>2, <1>4 DEF Call, Return, Add, Measure, vars
<1>5. CASE \E wait \in {"sleep", "yield"}, next \in Tasks : Live(next) /\ Wait(wait, next)
  <2>1. PICK wait \in {"sleep", "yield"}, next \in Tasks : Live(next) /\ Wait(wait, next)
    BY <1>5
  <2> DEFINE stack == hw \o Gate(running, wait)
             words == soft + WordsOf(Gate(running, wait))
             calls == chain[running] \o Gate(running, wait)
  <2>2. Leaves(next, stack, words, calls) /\ CtxSwitch(next, stack, words, calls)
    BY <2>1, WaitLeaves
  <2>3. WaitsThere(stack)
    BY <2>1, WaitIsThere
  <2> HIDE DEF stack, words, calls
  <2>4. ASSUME started[next], next # running
        PROVE  Len(chain[next]) <= Len(stack) + 1
    <3>1. WaitsThere(chain[next])
      BY <1>3, <2>1, <2>4
    <3> DEFINE d == Len(chain[next])
               e == Len(stack)
    <3>2. d \in {4, 5} /\ e \in {4, 5}
      BY <2>3, <3>1 DEF WaitsThere
    <3> HIDE DEF d, e
    <3>3. d <= e + 1
      BY <3>2
    <3> QED  BY <3>3 DEF d, e
  <2> QED  BY <1>2, <2>1, <2>2, <2>4, ComesBack
<1>6. CASE \E next \in Tasks : Live(next) /\ TaskReturn(next)
  <2>1. PICK next \in Tasks : Live(next) /\ TaskReturn(next)
    BY <1>6
  <2> DEFINE words == soft - Words("fn") + Words("yield")
  <2>2. /\ Leaves(next, Left, words, <<>>) /\ CtxSwitch(next, Left, words, <<>>)
        /\ next # running /\ Len(Left) = IF TailCalls THEN 3 ELSE 4
    BY <2>1, TaskReturnLeaves
  <2>3. returns' # returns
    BY <1>1, <2>1 DEF TaskReturn, TypeOK
  <2> HIDE DEF words
  <2>4. CASE started[next] => Len(chain[next]) = 4
    <3> DEFINE e == Len(Left)
    <3>1. e \in {3, 4}
      BY <2>2
    <3> HIDE DEF e
    <3>2. 4 <= e + 1
      BY <3>1
    <3>3. 4 <= Len(Left) + 1
      BY <3>2 DEF e
    <3>4. ASSUME started[next], next # running
          PROVE  Len(chain[next]) <= Len(Left) + 1
      <4>1. Len(chain[next]) = 4
        BY <2>4, <3>4
      <4> QED  BY <3>3, <4>1, Zenon
    <3> QED  BY <1>2, <2>1, <2>2, <3>4, ComesBack
  <2>5. CASE started[next] /\ Slept(chain[next])
    <3>1. saved'[next] = chain[next] /\ running' = next
      BY <2>1, <2>2, <2>5, Resumed
    <3>2. Slept(saved'[running'])
      BY <2>5, <3>1
    <3> QED  BY <2>3, <3>2 DEF Slept
  <2> QED  BY <1>3, <2>1, <2>2, <2>4, <2>5 DEF WaitsThere
<1>7. CASE \E first \in Tasks : Run(first)
  <2>1. PICK first \in Tasks : Run(first)
    BY <1>7
  <2>2. /\ Leaves(first, <<Word(Main, "ctx_switch")>>, 0, <<>>)
        /\ CtxSwitch(first, <<Word(Main, "ctx_switch")>>, 0, <<>>)
        /\ ~started[first]
    BY <2>1, RunLeaves
  <2>3. Live(first)
    BY <2>2 DEF Live
  <2> QED  BY <1>2, <2>2, <2>3, ComesBack
<1>8. CASE Lost
  BY <1>1, <1>8 DEF Lost
<1> QED  BY <1>4, <1>5, <1>6, <1>7, <1>8 DEF Next

-----------------------------------------------------------------------------
(* Theorems *)

\* The invariant that everything below follows from, wherever the tasks wait.
THEOREM InductiveInvariant == Spec => []IndInv
BY InitStep, NextStep, PTL DEF Spec

\* The variables keep their types: in particular, no stack saved in a buffer is
\* deeper than the deepest wait, also where a copy has gone astray.
THEOREM TypeCorrect == Spec => []TypeOK
<1>1. IndInv => TypeOK
  BY DEF IndInv
<1> QED  BY <1>1, InductiveInvariant, PTL

\* scheduler_copy_stacks saves what it should, wherever the tasks wait: the
\* buffer of a task that waits is untouched by what the others do.
THEOREM BuffersStayIntact == Spec => []BuffersIntact
<1>1. IndInv => BuffersIntact
  BY DEF IndInv, ChainInv, BuffersIntact
<1> QED  BY <1>1, InductiveInvariant, PTL

\* The compiler's one stack, on which all tasks push and pop in turn, holds the
\* words of the calls in progress, and three for every task that has returned.
THEOREM SoftIsBalanced == Spec => []SoftBalanced
<1>1. IndInv => SoftBalanced
  BY DEF IndInv
<1> QED  BY <1>1, InductiveInvariant, PTL

\* Where all tasks sleep and yield in their outermost functions, as those of
\* main.c do, every switch goes where it should but those a returning task
\* makes into one that sleeps.
THEOREM OnlyReturnsDo ==
    ASSUME WaitsOfMain
    PROVE  Spec => OnlyReturnsGoAstray
<1>1. Init => DepthInv
  BY Names DEF Init, DepthInv
<1>2. IndInv /\ DepthInv /\ [Next]_vars => DepthInv'
  BY DepthStep
<1>3. IndInv /\ DepthInv /\ IndInv' /\ [Next]_vars
        => [ResumesWhereItLeft =>
               \/ ResumesWhereItLeft'
               \/ returns' # returns /\ Slept(saved[running])']_vars
  BY AstrayStep
<1> QED  BY <1>1, <1>2, <1>3, InductiveInvariant, PTL DEF Spec, OnlyReturnsGoAstray

\* In particular no switch goes astray before the first task function returns:
\* at all, where they never do.
COROLLARY EndlessTasksResume ==
    ASSUME WaitsOfMain, ~Ends
    PROVE  Spec => []ResumesWhereItLeft
<1>1. Init => ResumesWhereItLeft /\ DepthInv
  BY Names DEF Init, ResumesWhereItLeft, DepthInv
<1>2. IndInv /\ DepthInv /\ [Next]_vars => DepthInv'
  BY DepthStep
<1>3. IndInv /\ [Next]_vars => returns' = returns
  <2> SUFFICES ASSUME [Next]_vars PROVE returns' = returns
    OBVIOUS
  <2> QED  BY DEF Next, Call, Return, Wait, TaskReturn, Add, Measure, Run, Lost, vars
<1>4. IndInv /\ DepthInv /\ IndInv' /\ ResumesWhereItLeft /\ [Next]_vars => ResumesWhereItLeft'
  BY <1>3, AstrayStep
<1> QED  BY <1>1, <1>2, <1>4, InductiveInvariant, PTL DEF Spec

=============================================================================
