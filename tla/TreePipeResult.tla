--------------------------- MODULE TreePipeResult ---------------------------
(***************************************************************************)
(* Proof that the root of TreePipe prints the result of the in-order       *)
(* evaluation (InOrderResult), for trees of every depth and all numbers.   *)
(* First that InOrder is the function its definition describes, at every   *)
(* height; then the invariant: what each node has read, computed and       *)
(* sent, as values of InOrder, and what is in the pipes between a node and *)
(* the child it waits for.                                                 *)
(***************************************************************************)
EXTENDS TreePipeProofs

-----------------------------------------------------------------------------
(* Induction on heights, as a fact about sets of numbers.                   *)

LEMMA LeastNumber ==
    ASSUME NEW T \in SUBSET Nat, T # {}
    PROVE  \E n \in T : \A m \in T : n <= m
<1> DEFINE R == OpToRel(<, Nat)
<1>1. IsWellFoundedOn(R, Nat)
  BY NatLessThanWellFounded
<1>2. \A m, n \in Nat : m < n => <<m, n>> \in R
  BY DEF OpToRel
<1> HIDE DEF R
<1>3. PICK n \in T : \A m \in T : <<m, n>> \notin R
  BY <1>1, WFMin
<1>4. \A m \in T : ~(m < n)
  BY <1>2, <1>3
<1>5. \A m \in T : n <= m
  BY <1>4
<1> QED
  BY <1>5

LEMMA EveryNumber ==
    ASSUME NEW S \in SUBSET Nat, 0 \in S, \A n \in S : n + 1 \in S
    PROVE  S = Nat
<1> SUFFICES ASSUME Nat \ S # {} PROVE FALSE
  OBVIOUS
<1>1. PICK n \in Nat \ S : \A m \in Nat \ S : n <= m
  BY LeastNumber
<1>2. n - 1 \in Nat /\ n - 1 + 1 = n
  BY <1>1
<1>3. n - 1 \in S
  BY <1>1, <1>2
<1> QED
  BY <1>1, <1>2, <1>3

-----------------------------------------------------------------------------
(* InOrder is what its definition says.                                     *)

\* A tree of height h, when f has those of height h - 1.
Evaluated(f, h) == [lr \in {0, 1} |-> [x \in Int |->
    IF h = 0
      THEN LET own == Compute(lr, x, 1)
           IN  [result |-> own, read |-> {own}]
      ELSE LET left == f[h - 1][0][x]
               own == Compute(lr, x, left.result)
               right == f[h - 1][1][own]
           IN  [result |-> right.result,
                read |-> left.read \cup right.read
                           \cup {left.result, own, right.result}]]]

LEMMA EvaluatedBelow ==
    ASSUME NEW f, NEW g, NEW h \in Nat, h # 0 => f[h - 1] = g[h - 1]
    PROVE  Evaluated(f, h) = Evaluated(g, h)
BY DEF Evaluated

\* f has the trees of all heights up to n.
UpTo(f, n) == f = [h \in 0..n |-> Evaluated(f, h)]

LEMMA UpToExists == \A n \in Nat : \E f : UpTo(f, n)
<1> DEFINE S == {n \in Nat : \E f : UpTo(f, n)}
<1>1. 0 \in S
  <2> DEFINE f == [h \in 0..0 |-> Evaluated(<<>>, h)]
  <2>1. ASSUME NEW h \in 0..0 PROVE Evaluated(<<>>, h) = Evaluated(f, h)
    BY EvaluatedBelow
  <2>2. f = [h \in 0..0 |-> Evaluated(f, h)]
    BY <2>1
  <2> HIDE DEF f
  <2>3. UpTo(f, 0)
    BY <2>2 DEF UpTo
  <2> QED
    BY <2>3
<1>2. ASSUME NEW n \in S PROVE n + 1 \in S
  <2>1. PICK f : UpTo(f, n)
    OBVIOUS
  <2>2. n \in Nat /\ f = [h \in 0..n |-> Evaluated(f, h)]
    BY <2>1 DEF UpTo
  <2> DEFINE g == [h \in 0..(n + 1) |-> Evaluated(f, h)]
  <2> HIDE DEF S
  <2>3. ASSUME NEW h \in 0..(n + 1) PROVE Evaluated(f, h) = Evaluated(g, h)
    <3>1. h \in Nat
      BY <2>2
    <3>2. ASSUME h # 0 PROVE f[h - 1] = g[h - 1]
      <4>1. h - 1 \in 0..n /\ h - 1 \in 0..(n + 1)
        BY <2>2, <3>2
      <4>2. f[h - 1] = Evaluated(f, h - 1)
        BY <2>2, <4>1
      <4>3. g[h - 1] = Evaluated(f, h - 1)
        BY <4>1
      <4> QED
        BY <4>2, <4>3
    <3> HIDE DEF g
    <3> QED
      BY <3>1, <3>2, EvaluatedBelow
  <2>4. g = [h \in 0..(n + 1) |-> Evaluated(g, h)]
    <3> DEFINE k == [h \in 0..(n + 1) |-> Evaluated(g, h)]
    <3>1. \A h \in 0..(n + 1) : g[h] = k[h]
      BY <2>3
    <3> QED
      BY <3>1
  <2>5. UpTo(g, n + 1)
    <3> HIDE DEF g
    <3> QED BY <2>4 DEF UpTo
  <2>6. n + 1 \in Nat
    BY <2>2
  <2> QED
    BY <2>5, <2>6 DEF S
<1>3. S = Nat
  <2> HIDE DEF S
  <2>1. S \in SUBSET Nat
    BY DEF S
  <2> QED
    BY <1>1, <1>2, <2>1, EveryNumber
<1> QED
  BY <1>3

LEMMA UpToUnique ==
    ASSUME NEW n \in Nat, NEW m \in Nat, NEW f, NEW g, UpTo(f, n), UpTo(g, m)
    PROVE  \A h \in Nat : h <= n /\ h <= m => f[h] = g[h]
<1> DEFINE S == {h \in Nat : h <= n /\ h <= m => f[h] = g[h]}
<1>1. \A h \in 0..n : f[h] = Evaluated(f, h)
  BY DEF UpTo
<1>2. \A h \in 0..m : g[h] = Evaluated(g, h)
  BY DEF UpTo
<1>3. 0 \in S
  <2>1. 0 \in 0..n /\ 0 \in 0..m
    OBVIOUS
  <2>2. Evaluated(f, 0) = Evaluated(g, 0)
    BY EvaluatedBelow
  <2> QED
    BY <1>1, <1>2, <2>1, <2>2
<1>4. ASSUME NEW h \in S PROVE h + 1 \in S
  <2>1. h \in Nat /\ h + 1 \in Nat /\ h + 1 # 0 /\ h + 1 - 1 = h
    OBVIOUS
  <2>2. ASSUME h + 1 <= n, h + 1 <= m PROVE f[h + 1] = g[h + 1]
    <3>1. f[h] = g[h]
      BY <2>1, <2>2
    <3>2. h + 1 \in 0..n /\ h + 1 \in 0..m
      BY <2>1, <2>2
    <3> HIDE DEF S
    <3>3. Evaluated(f, h + 1) = Evaluated(g, h + 1)
      BY <2>1, <3>1, EvaluatedBelow
    <3> QED
      BY <1>1, <1>2, <3>2, <3>3
  <2> QED
    BY <2>1, <2>2
<1>5. S = Nat
  <2> HIDE DEF S
  <2>1. S \in SUBSET Nat
    BY DEF S
  <2> QED
    BY <1>3, <1>4, <2>1, EveryNumber
<1> QED
  BY <1>5

LEMMA InOrderUnfolds == InOrder = [h \in Nat |-> Evaluated(InOrder, h)]
<1> DEFINE Up(n) == CHOOSE f : UpTo(f, n)
           all == [h \in Nat |-> Up(h)[h]]
           P(f) == f = [h \in Nat |-> Evaluated(f, h)]
<1>1. \A n \in Nat : UpTo(Up(n), n)
  BY UpToExists
<1>2. ASSUME NEW h \in Nat PROVE Up(h)[h] = Evaluated(all, h)
  <2>1. UpTo(Up(h), h)
    BY <1>1
  <2>2. Up(h)[h] = Evaluated(Up(h), h)
    <3> HIDE DEF Up
    <3>1. h \in 0..h
      OBVIOUS
    <3> QED
      BY <2>1, <3>1 DEF UpTo
  <2>3. ASSUME h # 0 PROVE Up(h)[h - 1] = all[h - 1]
    <3>1. h - 1 \in Nat /\ h - 1 <= h
      BY <2>3
    <3>2. UpTo(Up(h - 1), h - 1)
      BY <1>1, <3>1
    <3> HIDE DEF Up
    <3>3. Up(h)[h - 1] = Up(h - 1)[h - 1]
      BY <2>1, <3>1, <3>2, UpToUnique
    <3> QED
      BY <3>1, <3>3
  <2> HIDE DEF Up, all
  <2>4. Evaluated(Up(h), h) = Evaluated(all, h)
    BY <2>3, EvaluatedBelow
  <2> QED
    BY <2>2, <2>4
<1>3. P(all)
  <2> DEFINE k == [h \in Nat |-> Evaluated(all, h)]
  <2>1. \A h \in Nat : all[h] = k[h]
    BY <1>2
  <2> QED
    BY <2>1
<1>4. InOrder = CHOOSE f : P(f)
  BY DEF InOrder, Evaluated
<1> HIDE DEF P, all
<1>5. P(CHOOSE f : P(f))
  BY <1>3
<1>6. P(InOrder)
  BY <1>4, <1>5
<1> QED
  BY <1>6 DEF P

\* What a tree of height h gives back for x, and the numbers read back in it.
ResultOf(h, lr, x) == InOrder[h][lr][x].result
ReadOf(h, lr, x) == InOrder[h][lr][x].read

LEMMA LeafResult ==
    ASSUME NEW lr \in {0, 1}, NEW x \in Int
    PROVE  /\ ResultOf(0, lr, x) = Compute(lr, x, 1)
           /\ ReadOf(0, lr, x) = {Compute(lr, x, 1)}
<1> DEFINE Leaf(o) == [result |-> o, read |-> {o}]
<1>1. InOrder[0] = Evaluated(InOrder, 0)
  BY InOrderUnfolds
<1>2. Evaluated(InOrder, 0)[lr][x] = Leaf(Compute(lr, x, 1))
  BY DEF Evaluated
<1>3. InOrder[0][lr][x] = Leaf(Compute(lr, x, 1))
  <2> HIDE DEF Leaf
  <2> QED
    BY <1>1, <1>2
<1>4. \A o : Leaf(o).result = o /\ Leaf(o).read = {o}
  OBVIOUS
<1> HIDE DEF Leaf
<1>5. ResultOf(0, lr, x) = Leaf(Compute(lr, x, 1)).result
  BY <1>3 DEF ResultOf
<1>6. ReadOf(0, lr, x) = Leaf(Compute(lr, x, 1)).read
  BY <1>3 DEF ReadOf
<1> QED
  BY <1>4, <1>5, <1>6

LEMMA NodeResult ==
    ASSUME NEW h \in Nat, h # 0, NEW lr \in {0, 1}, NEW x \in Int,
           NEW own, own = Compute(lr, x, ResultOf(h - 1, 0, x))
    PROVE  /\ ResultOf(h, lr, x) = ResultOf(h - 1, 1, own)
           /\ ReadOf(h, lr, x) = ReadOf(h - 1, 0, x) \cup ReadOf(h - 1, 1, own)
                  \cup {ResultOf(h - 1, 0, x), own, ResultOf(h - 1, 1, own)}
<1> DEFINE Node(l, o, r) == [result |-> r.result,
                             read |-> l.read \cup r.read \cup {l.result, o, r.result}]
<1>1. InOrder[h] = Evaluated(InOrder, h)
  BY InOrderUnfolds
<1>2. Evaluated(InOrder, h)[lr][x] =
          Node(InOrder[h - 1][0][x], Compute(lr, x, InOrder[h - 1][0][x].result),
               InOrder[h - 1][1][Compute(lr, x, InOrder[h - 1][0][x].result)])
  BY DEF Evaluated
<1>3. \A l, o, r : /\ Node(l, o, r).result = r.result
                   /\ Node(l, o, r).read = l.read \cup r.read \cup {l.result, o, r.result}
  OBVIOUS
<1> HIDE DEF Node
<1>4. InOrder[h][lr][x] = Node(InOrder[h - 1][0][x], own, InOrder[h - 1][1][own])
  BY <1>1, <1>2 DEF ResultOf
<1>5. ResultOf(h, lr, x) = InOrder[h - 1][1][own].result
  BY <1>3, <1>4 DEF ResultOf
<1>6. ReadOf(h, lr, x) =
          InOrder[h - 1][0][x].read \cup InOrder[h - 1][1][own].read
            \cup {InOrder[h - 1][0][x].result, own, InOrder[h - 1][1][own].result}
  BY <1>3, <1>4 DEF ReadOf
<1> QED
  BY <1>5, <1>6 DEF ResultOf, ReadOf

LEMMA ComputeInts ==
    ASSUME NEW lr, NEW x \in Int, NEW y \in Int
    PROVE  Compute(lr, x, y) \in Ints
<1>1. CASE lr = 0
  BY <1>1, WrapFacts DEF Compute
<1>2. CASE lr # 0
  <2>1. x * y \in Int
    OBVIOUS
  <2> QED
    BY <1>2, <2>1, WrapFacts DEF Compute
<1> QED
  BY <1>1, <1>2

LEMMA ResultInts == \A h \in Nat, lr \in {0, 1}, x \in Int : ResultOf(h, lr, x) \in Ints
<1> DEFINE S == {h \in Nat : \A lr \in {0, 1}, x \in Int : ResultOf(h, lr, x) \in Ints}
<1>1. 0 \in S
  BY LeafResult, ComputeInts
<1>2. ASSUME NEW h \in S PROVE h + 1 \in S
  <2>1. /\ h \in Nat
        /\ \A lr \in {0, 1}, x \in Int : ResultOf(h, lr, x) \in Ints
    OBVIOUS
  <2> HIDE DEF S
  <2>2. ASSUME NEW lr \in {0, 1}, NEW x \in Int PROVE ResultOf(h + 1, lr, x) \in Ints
    <3> DEFINE own == Compute(lr, x, ResultOf(h, 0, x))
    <3>1. ResultOf(h, 0, x) \in Int
      BY <2>1, IntsFacts
    <3>2. own \in Int
      BY <3>1, ComputeInts, IntsFacts
    <3>3. ResultOf(h, 1, own) \in Ints
      BY <2>1, <3>2
    <3>4. PICK k \in Nat : k = h + 1 /\ k # 0 /\ k - 1 = h
      BY <2>1
    <3>5. own = Compute(lr, x, ResultOf(k - 1, 0, x))
      BY <3>4
    <3> HIDE DEF own
    <3>6. ResultOf(k, lr, x) = ResultOf(k - 1, 1, own)
      BY <3>4, <3>5, NodeResult
    <3> QED
      BY <3>3, <3>4, <3>6
  <2> QED
    BY <2>1, <2>2 DEF S
<1>3. S = Nat
  <2> HIDE DEF S
  <2>1. S \in SUBSET Nat
    BY DEF S
  <2> QED
    BY <1>1, <1>2, <2>1, EveryNumber
<1> QED
  BY <1>3

-----------------------------------------------------------------------------
(* The invariant: the numbers of each node are values of InOrder.           *)

Reporting == {"deliver", "exit", "zombie"}
Working == Busy \cup Reporting
Attending(p) == pc[p] \in Busy \ {"fork"}
IsNode(p) == p = Root \/ Last(p) # "own"

\* The tree below a node as long as nobody is a stray copy.
Height(p) == maxDepth - Len(p)
Side(p) == IF p = Root THEN rootLr ELSE IF Last(p) = "left" THEN 0 ELSE 1

\* What a node has for num2, what its program computes, its final result, and the
\* numbers read back below it.
Second(p) == IF Height(p) = 0 THEN 1 ELSE ResultOf(Height(p) - 1, 0, num1[p])
Own(p) == Compute(Side(p), num1[p], Second(p))
Final(p) == ResultOf(Height(p), Side(p), num1[p])
ReadBelow(p) == ReadOf(Height(p), Side(p), num1[p])

NumbersOf(p) ==
    IsNode(p) /\ pc[p] \in Working =>
        /\ \A n \in ReadBelow(p) : Kept(n)
        /\ stage[p] # "left" \/ pc[p] = "wait" => num2[p] = Second(p)
        /\ stage[p] = "own" /\ pc[p] = "wait" => res[p] = Own(p)
        /\ stage[p] = "right" /\ pc[p] \in Busy \ {"wait"} => res[p] = Own(p)
        /\ pc[p] \in Reporting \/ (stage[p] = "right" /\ pc[p] = "wait") =>
             res[p] = Final(p)

\* What a node sends to the child it is at.
Operand(p) == IF stage[p] = "left" THEN num1[p] ELSE res[p]
Message(p) == IF stage[p] = "own" THEN <<num1[p], num2[p]>> ELSE <<Operand(p)>>

\* A child starts to work when its parent has come to the read, works on what it
\* was sent, and has answered when it ends.
LinkOf(p) ==
    LET c == Child(p)
    IN  Attending(p) =>
          /\ pc[c] # "gone"
          /\ pc[c] \notin Early => pc[p] \in {"receive", "wait"}
          /\ pc[p] = "wait" => pc[c] \in Finished
          /\ pc[p] \in {"closeTo", "receive"} /\ pc[c] \in Early =>
               data[PipeTo(c)] = Message(p)
          /\ pc[p] = "receive" /\ pc[c] \in Working =>
               /\ stage[p] # "own" => num1[c] = Operand(p)
               /\ stage[p] = "own" /\ pc[c] \in Reporting =>
                    res[c] = Compute(Side(p), num1[p], num2[p])
          /\ pc[p] = "receive" /\ pc[c] \in {"exit", "zombie"} =>
               data[PipeFrom(c)] = <<res[c]>>

PrintedOnce == printed = IF pc[Root] \in {"exit", "gone"} THEN <<Final(Root)>> ELSE <<>>

Correct == PrintedOnce /\ \A p \in Procs : NumbersOf(p) /\ LinkOf(p)

\* All numbers that are read back fit, once there is a number.
Fits == pc[Root] # "input" => \A n \in ReadBelow(Root) : Kept(n)

ResultInv ==
    /\ rootLr \in {0, 1}
    /\ failed = {} /\ missing = {} /\ Fits => Correct

\* The states the proof is about.
Sound == WholeInv /\ rootLr \in {0, 1} /\ missing = {} /\ Correct

SameTree == maxDepth' = maxDepth /\ rootLr' = rootLr

SamePlace(q) ==
    /\ pc'[q] = pc[q] /\ stage'[q] = stage[q]
    /\ num1'[q] = num1[q] /\ num2'[q] = num2[q] /\ res'[q] = res[q]

-----------------------------------------------------------------------------
(* Without stray copies.                                                    *)

LEMMA NobodyStrays ==
    ASSUME WholeInv, missing = {}
    PROVE  strays = {}
BY DEF WholeInv, RoomInv, RoomOf, TreeInv, PcTypes

LEMMA OriginIsItself ==
    ASSUME NEW p \in Procs, strays = {}
    PROVE  LR(p) = Side(p)
<1>1. p \in Seq(Kids) /\ Len(p) \in Nat
  BY ProcFacts
<1> DEFINE P(n) == /\ SubSeq(p, 1, n) \notin strays
                   /\ \A m \in (n + 1)..Len(p) : SubSeq(p, 1, m) \in strays
           n == CHOOSE n \in 0..Len(p) : P(n)
<1>2. Len(p) \in 0..Len(p) /\ P(Len(p))
  BY <1>1
<1>3. n \in 0..Len(p) /\ P(n)
  <2> HIDE DEF P
  <2> QED
    BY <1>2
<1>4. n = Len(p)
  <2>1. n + 1 \notin (n + 1)..Len(p)
    BY <1>3
  <2> HIDE DEF n
  <2> QED
    BY <1>1, <1>3, <2>1
<1>5. SubSeq(p, 1, Len(p)) = p
  BY <1>1
<1>6. Origin(p) = p
  BY <1>4, <1>5 DEF Origin
<1> QED
  BY <1>6 DEF LR, Side

LEMMA Plain ==
    ASSUME WholeInv, missing = {}, NEW p \in Procs
    PROVE  /\ ~Lost(p) /\ (Attended(p) <=> Attending(p)) /\ (IsProgram(p) <=> ~IsNode(p))
           /\ Depth(p) = Len(p) /\ LR(p) = Side(p) /\ (IsLeaf(p) <=> Height(p) = 0)
           /\ pc[p] \in Busy => IsNode(p)
           /\ pc[p] # "unborn" /\ IsNode(p) => Height(p) \in Nat
<1>1. strays = {}
  BY NobodyStrays
<1>2. ~Lost(p) /\ (Attended(p) <=> Attending(p))
  BY <1>1 DEF Lost, Attended, Attending, Busy
<1>3. IsProgram(p) <=> ~IsNode(p)
  BY <1>1 DEF IsProgram, IsNode
<1>4. p \in Seq(Kids) /\ Len(p) \in Nat /\ maxDepth \in Nat
  BY ProcFacts, TreeAssumption DEF WholeInv, RoomInv, ArgumentsOK
<1>5. Depth(p) = Len(p)
  BY <1>1, <1>4, DepthIsLength
<1>6. IsLeaf(p) <=> Height(p) = 0
  BY <1>4, <1>5 DEF IsLeaf, Height
<1>7. RoomOf(p)
  BY DEF WholeInv, RoomInv
<1>8. pc[p] \in Busy => IsNode(p)
  BY <1>3, <1>7 DEF RoomOf
<1>9. pc[p] # "unborn" /\ IsNode(p) => Height(p) \in Nat
  BY <1>3, <1>4, <1>5, <1>7 DEF RoomOf, Born, Height
<1> QED
  BY <1>1, <1>2, <1>3, <1>5, <1>6, <1>8, <1>9, OriginIsItself

-----------------------------------------------------------------------------
(* What a step leaves as it is.                                             *)

LEMMA SameValues ==
    ASSUME SameTree, NEW q, num1'[q] = num1[q]
    PROVE  /\ Height(q)' = Height(q) /\ Side(q)' = Side(q) /\ Second(q)' = Second(q)
           /\ Own(q)' = Own(q) /\ Final(q)' = Final(q) /\ ReadBelow(q)' = ReadBelow(q)
BY DEF SameTree, Height, Side, Second, Own, Final, ReadBelow

LEMMA NumbersStay ==
    ASSUME SameTree, NEW q, SamePlace(q), NumbersOf(q)
    PROVE  NumbersOf(q)'
<1>1. /\ Second(q)' = Second(q) /\ Own(q)' = Own(q) /\ Final(q)' = Final(q)
      /\ ReadBelow(q)' = ReadBelow(q)
  BY SameValues DEF SamePlace
<1> QED
  BY <1>1 DEF NumbersOf, SamePlace, IsNode

LEMMA LinkStays ==
    ASSUME SameTree, NEW q, NEW d, d = Child(q), SamePlace(q), SamePlace(d), LinkOf(q),
           data'[PipeTo(d)] = data[PipeTo(d)], data'[PipeFrom(d)] = data[PipeFrom(d)]
    PROVE  LinkOf(q)'
<1>1. Child(q)' = d /\ Side(q)' = Side(q) /\ Operand(q)' = Operand(q) /\ Message(q)' = Message(q)
  BY SameValues DEF SamePlace, Child, Operand, Message
<1>2. Attending(q)' <=> Attending(q)
  BY DEF SamePlace, Attending
<1> QED
  BY <1>1, <1>2 DEF LinkOf, SamePlace

\* A step of p, which may fork its child or reap it, and touches no other pipes
\* than its own and its child's.
LEMMA OneMoves ==
    ASSUME Sound, SameTree, NEW p \in Procs, NEW c, c = Child(p),
           \A q \in Procs : q # p /\ q # c => SamePlace(q),
           \/ c \in Procs => SamePlace(c)
           \/ pc'[c] \in {"redirect", "gone"},
           \A pipe \in Pipes \ {PipeTo(p), PipeFrom(p), PipeTo(c), PipeFrom(c)} :
               data'[pipe] = data[pipe],
           NumbersOf(p)', LinkOf(p)', \A q \in Procs : Child(q) = p => LinkOf(q)'
    PROVE  \A q \in Procs : NumbersOf(q)' /\ LinkOf(q)'
<1> SUFFICES ASSUME NEW q \in Procs, q # p PROVE NumbersOf(q)' /\ LinkOf(q)'
  OBVIOUS
<1>1. NumbersOf(q) /\ LinkOf(q) /\ TreeInv /\ RoomInv /\ PcTypes
  BY DEF Sound, Correct, WholeInv, TreeInv
<1>2. CASE ~SamePlace(q)
  <2>1. q = c /\ pc'[q] \in {"redirect", "gone"}
    BY <1>2
  <2> QED
    BY <2>1 DEF NumbersOf, LinkOf, Attending, Working, Busy, Reporting
<1>3. CASE SamePlace(q)
  <2>1. NumbersOf(q)'
    BY <1>1, <1>3, NumbersStay
  <2>2. CASE ~Attending(q)
    BY <1>3, <2>1, <2>2 DEF LinkOf, Attending, SamePlace
  <2>3. CASE Child(q) = p
    BY <2>1, <2>3
  <2>4. CASE Attending(q) /\ Child(q) # p
    <3> DEFINE d == Child(q)
    <3>1. Attended(q)
      BY <2>4, Plain DEF Sound
    <3>2. d \in Procs /\ d # Root /\ d # p /\ d # c
      BY <1>1, <2>4, <3>1, AttendedChild, OneParent
    <3>3. SamePlace(d)
      BY <3>2
    <3> HIDE DEF d
    <3>4. data'[PipeTo(d)] = data[PipeTo(d)] /\ data'[PipeFrom(d)] = data[PipeFrom(d)]
      <4>1. PipeTo(d) \in Pipes /\ PipeFrom(d) \in Pipes
        BY <3>2, ChildPipes
      <4> QED
        BY <3>2, <4>1, PipesDistinct
    <3>5. LinkOf(q)'
      BY <1>1, <1>3, <3>3, <3>4, LinkStays DEF d
    <3> QED
      BY <2>1, <3>5
  <2> QED
    BY <2>1, <2>2, <2>3, <2>4
<1> QED
  BY <1>2, <1>3

\* Nobody is the child of its own child.
LEMMA ParentNotChild ==
    ASSUME Sound, NEW p \in Procs, NEW q \in Procs, Child(q) = p
    PROVE  Child(p) # q /\ p # q
<1>1. /\ p \in Seq(Kids) /\ q \in Seq(Kids) /\ stage[p] \in Kids /\ stage[q] \in Kids
  BY ProcFacts DEF Sound, WholeInv, TreeInv, PcTypes
<1>2. Len(p) = Len(q) + 1 /\ Len(Child(p)) = Len(p) + 1 /\ Len(p) \in Nat /\ Len(q) \in Nat
  BY <1>1, AppendFacts DEF Child
<1>3. Len(Child(p)) # Len(q) /\ Len(p) # Len(q)
  BY <1>2
<1> QED
  BY <1>3

LEMMA LastOfChild ==
    ASSUME Sound, NEW q \in Procs
    PROVE  Child(q) # Root /\ Last(Child(q)) = stage[q]
<1>1. q \in Seq(Kids) /\ stage[q] \in Kids
  BY ProcFacts DEF Sound, WholeInv, TreeInv, PcTypes
<1> QED
  BY <1>1, AppendFacts DEF Child

\* What a parent relies on while its child, a node, is busy.
LEMMA BusyLink ==
    ASSUME Sound, SameTree, NEW p \in Procs, NEW q \in Procs, Child(q) = p, SamePlace(q),
           pc[p] \in Busy, pc'[p] \in Busy \cup {"deliver"}, num1'[p] = num1[p]
    PROVE  LinkOf(q)'
<1>1. LinkOf(q) /\ Child(q)' = p /\ Operand(q)' = Operand(q) /\ (Attending(q)' <=> Attending(q))
  BY DEF Sound, Correct, SamePlace, Child, Operand, Attending
<1>2. /\ pc[p] \notin Early /\ pc[p] \notin Finished /\ pc[p] \in Working /\ pc[p] # "gone"
      /\ pc'[p] \notin Early /\ pc'[p] \notin {"exit", "zombie", "orphan", "gone"}
  BY DEF Busy, Early, Finished, Working
<1>3. pc'[p] \in Reporting => stage[q] # "own"
  <2>1. IsNode(p)
    BY Plain DEF Sound
  <2>2. p # Root /\ Last(p) = stage[q]
    BY LastOfChild
  <2> QED
    BY <2>1, <2>2 DEF IsNode
<1> QED
  BY <1>1, <1>2, <1>3 DEF LinkOf, SamePlace

\* The same before a child reads.
LEMMA EarlyLink ==
    ASSUME Sound, SameTree, NEW p, NEW q \in Procs, Child(q) = p, SamePlace(q), data' = data,
           pc[p] \in Early, pc'[p] \in Early
    PROVE  LinkOf(q)'
<1>1. /\ LinkOf(q) /\ Child(q)' = p /\ Message(q)' = Message(q)
      /\ Attending(q)' <=> Attending(q)
  BY DEF Sound, Correct, SamePlace, Child, Message, Operand, Attending
<1>2. /\ pc[p] \notin Finished /\ pc'[p] \notin Finished /\ pc'[p] \notin Working
      /\ pc'[p] \notin {"exit", "zombie", "orphan", "gone"}
  BY DEF Busy, Early, Finished, Working, Reporting
<1> QED
  BY <1>1, <1>2 DEF LinkOf, SamePlace

\* A busy node that has not read its child's number keeps its own.
LEMMA BusyNumbers ==
    ASSUME Sound, SameTree, NEW p \in Procs, stage'[p] = stage[p], num1'[p] = num1[p],
           num2'[p] = num2[p], res'[p] = res[p],
           pc[p] \in Busy \ {"wait"}, pc'[p] \in Busy \ {"wait"}
    PROVE  NumbersOf(p)'
<1>1. /\ Second(p)' = Second(p) /\ Own(p)' = Own(p) /\ Final(p)' = Final(p)
      /\ ReadBelow(p)' = ReadBelow(p)
  BY SameValues
<1>2. NumbersOf(p) /\ pc[p] \in Working /\ pc'[p] \notin Reporting
  BY DEF Sound, Correct, Working, Busy, Reporting
<1> QED
  BY <1>1, <1>2 DEF NumbersOf, IsNode

-----------------------------------------------------------------------------
(* The actions.                                                             *)

LEMMA TypesOf ==
    ASSUME Sound
    PROVE  /\ PcTypes /\ TreeInv /\ RoomInv /\ StdInv /\ EndsExact /\ PipesInv
           /\ pc \in [Procs -> Labels] /\ stage \in [Procs -> Kids]
           /\ num1 \in [Procs -> Ints] /\ num2 \in [Procs -> Ints] /\ res \in [Procs -> Ints]
           /\ data \in [Pipes -> Seq(Ints)]
           /\ \A p \in Procs : NumbersOf(p) /\ LinkOf(p)
BY DEF Sound, Correct, WholeInv, TreeInv, PcTypes, NumInv, PipesInv

\* The root has neither printed nor ended in this step.
LEMMA PrintedStays ==
    ASSUME Sound, SameTree, printed' = printed, NEW p \in Procs,
           p # Root => SamePlace(Root),
           p = Root => pc[p] \notin {"exit", "gone"} /\ pc'[p] \notin {"exit", "gone"}
    PROVE  PrintedOnce'
<1>1. num1'[Root] = num1[Root] => Final(Root)' = Final(Root)
  BY SameValues
<1> QED
  BY <1>1 DEF PrintedOnce, Sound, Correct, SamePlace

LEMMA ForkCorrect ==
    ASSUME Sound, NEW p \in Procs, Fork(p), NEW c, c = Child(p)
    PROVE  Correct'
<1>1. /\ pc[p] = "fork" /\ pc' = [pc EXCEPT ![p] = "closeTheirs", ![c] = "redirect"]
      /\ stage' = [stage EXCEPT ![c] = stage[p]] /\ num1' = [num1 EXCEPT ![c] = num1[p]]
      /\ num2' = [num2 EXCEPT ![c] = num2[p]] /\ res' = [res EXCEPT ![c] = res[p]]
      /\ data' = data /\ printed' = printed /\ SameTree
  BY DEF Fork, At, programs, arguments, SameTree
<1>2. c \in Procs /\ c # p /\ c # Root
  BY <1>1, TypesOf, ThereIsRoom, FrontOfChild
<1>3. /\ pc'[p] = "closeTheirs" /\ pc'[c] = "redirect"
      /\ stage'[p] = stage[p] /\ num1'[p] = num1[p] /\ num2'[p] = num2[p] /\ res'[p] = res[p]
      /\ \A q \in Procs : q # p /\ q # c => SamePlace(q)
  BY <1>1, <1>2, TypesOf DEF SamePlace
<1>4. NumbersOf(p)'
  BY <1>1, <1>3, BusyNumbers DEF Busy
<1>5. LinkOf(p)'
  <2>1. Child(p)' = c
    BY <1>3 DEF Child
  <2> QED
    BY <1>3, <2>1 DEF LinkOf, Early, Working, Busy, Reporting
<1>6. ASSUME NEW q \in Procs, Child(q) = p PROVE LinkOf(q)'
  <2>1. q # p /\ q # c
    BY <1>6, ParentNotChild
  <2> QED
    BY <1>1, <1>3, <1>6, <2>1, BusyLink DEF Busy
<1>7. PrintedOnce'
  BY <1>1, <1>2, <1>3, RootFacts, PrintedStays
<1>8. \A q \in Procs : NumbersOf(q)' /\ LinkOf(q)'
  BY <1>1, <1>3, <1>4, <1>5, <1>6, OneMoves
<1> QED
  BY <1>7, <1>8 DEF Correct

\* The steps of a parent before its read.
LEMMA AttendingCorrect ==
    ASSUME Sound, NEW p \in Procs, CloseTheirs(p) \/ Send(p) \/ CloseTo(p)
    PROVE  Correct'
<1> DEFINE c == Child(p)
<1>1. /\ UNCHANGED <<stage, numbers, printed>> /\ SameTree
      /\ \/ pc[p] = "closeTheirs" /\ Goto(p, "send") /\ data' = data
         \/ /\ pc[p] = "send" /\ Goto(p, "closeTo")
            /\ data' = [data EXCEPT ![PipeTo(c)] = Message(p)]
         \/ pc[p] = "closeTo" /\ Goto(p, "receive") /\ data' = data
  <2>1. CASE CloseTheirs(p)
    BY <2>1 DEF CloseTheirs, At, programs, arguments, SameTree, numbers
  <2>2. CASE Send(p)
    BY <2>2, TypesOf DEF Send, At, programs, arguments, SameTree, numbers, Message, Operand
  <2>3. CASE CloseTo(p)
    BY <2>3 DEF CloseTo, At, programs, arguments, SameTree, numbers
  <2> QED
    BY <2>1, <2>2, <2>3
<1>2. /\ \A q \in Procs : q # p => pc'[q] = pc[q]
      /\ \/ pc[p] = "closeTheirs" /\ pc'[p] = "send" /\ data' = data
         \/ /\ pc[p] = "send" /\ pc'[p] = "closeTo"
            /\ data' = [data EXCEPT ![PipeTo(c)] = Message(p)]
         \/ pc[p] = "closeTo" /\ pc'[p] = "receive" /\ data' = data
  BY <1>1, TypesOf, GotoFacts DEF Labels
<1>3. /\ stage' = stage /\ num1' = num1 /\ num2' = num2 /\ res' = res
      /\ \A q \in Procs : q # p => SamePlace(q)
  BY <1>1, <1>2 DEF numbers, SamePlace
<1>4. Attending(p) /\ Attended(p)
  BY <1>2, Plain DEF Attending, Busy, Sound
<1>5. c \in Procs /\ c # Root /\ c # p
  BY <1>4, TypesOf, AttendedChild
<1>6. NumbersOf(p)'
  BY <1>1, <1>2, <1>3, BusyNumbers DEF Busy
<1>7. LinkOf(p)'
  <2>1. Child(p)' = c /\ Message(p)' = Message(p)
    BY <1>3 DEF Child, Message, Operand
  <2>2. LinkOf(p) /\ data \in [Pipes -> Seq(Ints)] /\ PipeTo(c) \in Pipes
    BY <1>5, TypesOf, ChildPipes
  <2>3. pc[c] \in Early /\ pc'[c] = pc[c]
    BY <1>2, <1>4, <1>5, <2>2 DEF LinkOf
  <2>4. pc[c] \notin Working /\ pc[c] \notin {"exit", "zombie", "orphan", "gone"}
    BY <2>3 DEF Early, Working, Busy, Reporting
  <2>5. pc'[p] \in {"closeTo", "receive"} => data'[PipeTo(c)] = Message(p)
    <3>1. CASE pc[p] = "send"
      BY <1>2, <2>2, <3>1
    <3>2. CASE pc[p] # "send"
      BY <1>2, <1>4, <2>2, <2>3, <3>2 DEF LinkOf
    <3> QED
      BY <3>1, <3>2
  <2> HIDE DEF c
  <2> QED
    BY <1>2, <2>1, <2>3, <2>4, <2>5 DEF LinkOf
<1>8. ASSUME NEW q \in Procs, Child(q) = p PROVE LinkOf(q)'
  <2>1. q # p
    BY <1>8, ParentNotChild
  <2> QED
    BY <1>1, <1>2, <1>3, <1>8, <2>1, BusyLink DEF Busy
<1>9. PrintedOnce'
  BY <1>1, <1>2, <1>3, RootFacts, PrintedStays
<1>10. \A pipe \in Pipes \ {PipeTo(p), PipeFrom(p), PipeTo(c), PipeFrom(c)} :
          data'[pipe] = data[pipe]
  BY <1>2, TypesOf
<1>11. \A q \in Procs : NumbersOf(q)' /\ LinkOf(q)'
  <2> HIDE DEF c
  <2>1. c = Child(p)
    BY DEF c
  <2> QED
    BY <1>1, <1>3, <1>5, <1>6, <1>7, <1>8, <1>10, <2>1, OneMoves
<1> QED
  BY <1>9, <1>11 DEF Correct

\* The steps of a child before it reads.
LEMMA EarlyCorrect ==
    ASSUME Sound, NEW p \in Procs, Redirect(p) \/ CloseAndExec(p)
    PROVE  Correct'
<1>1. /\ UNCHANGED <<stage, numbers, data, printed>> /\ SameTree
      /\ \/ pc[p] = "redirect" /\ Goto(p, "close")
         \/ pc[p] = "close" /\ Goto(p, "input")
  BY DEF Redirect, CloseAndExec, At, programs, arguments, SameTree, numbers, Sound
<1>2. /\ \A q \in Procs : q # p => pc'[q] = pc[q]
      /\ \/ pc[p] = "redirect" /\ pc'[p] = "close"
         \/ pc[p] = "close" /\ pc'[p] = "input"
  BY <1>1, TypesOf, GotoFacts DEF Labels
<1>3. /\ stage' = stage /\ num1' = num1 /\ num2' = num2 /\ res' = res /\ data' = data
      /\ \A q \in Procs : q # p => SamePlace(q)
  BY <1>1, <1>2 DEF numbers, SamePlace
<1>4. NumbersOf(p)' /\ LinkOf(p)'
  BY <1>2 DEF NumbersOf, LinkOf, Working, Attending, Busy, Reporting
<1>5. ASSUME NEW q \in Procs, Child(q) = p PROVE LinkOf(q)'
  <2>1. q # p
    BY <1>5, ParentNotChild
  <2> QED
    BY <1>1, <1>2, <1>3, <1>5, <2>1, EarlyLink DEF Early
<1>6. PrintedOnce'
  BY <1>1, <1>2, <1>3, RootFacts, PrintedStays
<1>7. \A q \in Procs : NumbersOf(q)' /\ LinkOf(q)'
  <2>1. PICK c : c = Child(p)
    OBVIOUS
  <2>2. c \in Procs => SamePlace(c)
    BY <1>3, <2>1, ParentNotChild
  <2> QED
    BY <1>1, <1>3, <1>4, <1>5, <2>1, <2>2, OneMoves
<1> QED
  BY <1>6, <1>7 DEF Correct

\* The values at a leaf and at an inner node.
LEMMA LeafValues ==
    ASSUME Sound, NEW p \in Procs, Height(p) = 0
    PROVE  Second(p) = 1 /\ Final(p) = Own(p) /\ ReadBelow(p) = {Own(p)}
<1>1. num1[p] \in Int /\ Side(p) \in {0, 1}
  BY TypesOf, IntsFacts DEF Side, Sound
<1> QED
  BY <1>1, LeafResult DEF Second, Final, Own, ReadBelow

LEMMA InnerValues ==
    ASSUME Sound, NEW p \in Procs, NEW h \in Nat, h = Height(p), h # 0
    PROVE  /\ Second(p) = ResultOf(h - 1, 0, num1[p]) /\ Final(p) = ResultOf(h - 1, 1, Own(p))
           /\ ReadBelow(p) = ReadOf(h - 1, 0, num1[p]) \cup ReadOf(h - 1, 1, Own(p))
                                \cup {Second(p), Own(p), Final(p)}
<1>1. num1[p] \in Int /\ Side(p) \in {0, 1}
  BY TypesOf, IntsFacts DEF Side, Sound
<1>2. Second(p) = ResultOf(h - 1, 0, num1[p])
  BY DEF Second
<1>3. Own(p) = Compute(Side(p), num1[p], ResultOf(h - 1, 0, num1[p]))
  BY <1>2 DEF Own
<1>4. /\ ResultOf(h, Side(p), num1[p]) = ResultOf(h - 1, 1, Own(p))
      /\ ReadOf(h, Side(p), num1[p]) =
             ReadOf(h - 1, 0, num1[p]) \cup ReadOf(h - 1, 1, Own(p))
               \cup {ResultOf(h - 1, 0, num1[p]), Own(p), ResultOf(h - 1, 1, Own(p))}
  BY <1>1, <1>3, NodeResult
<1> QED
  BY <1>2, <1>4 DEF Final, ReadBelow

\* The subtree of the child a node is at, and what comes back from it.
LEMMA ChildValues ==
    ASSUME Sound, NEW p \in Procs, Attending(p), pc[p] # "wait", stage[p] # "own",
           NEW c \in Procs, c = Child(p)
    PROVE  /\ IsNode(c)
           /\ ResultOf(Height(c), Side(c), Operand(p)) =
                  IF stage[p] = "left" THEN Second(p) ELSE Final(p)
           /\ ReadOf(Height(c), Side(c), Operand(p)) \subseteq ReadBelow(p)
           /\ Second(p) \in ReadBelow(p) /\ Final(p) \in ReadBelow(p)
<1>1. /\ pc[p] \in Busy \ {"wait"} /\ pc[p] \in Working /\ IsNode(p) /\ Height(p) \in Nat
  BY Plain DEF Attending, Sound, Busy, Working
<1>2. Height(p) # 0
  <2>1. RoomOf(p) /\ Attended(p)
    BY TypesOf, Plain DEF RoomInv, Sound
  <2> QED
    BY <2>1, Plain DEF RoomOf, Sound
<1>3. Height(c) = Height(p) - 1
  <2>1. p \in Seq(Kids) /\ stage[p] \in Kids /\ maxDepth \in Nat
    BY ProcFacts, TypesOf, TreeAssumption DEF RoomInv, ArgumentsOK
  <2>2. Len(c) = Len(p) + 1 /\ Len(p) \in Nat
    BY <2>1, AppendFacts DEF Child
  <2> QED
    BY <2>1, <2>2 DEF Height
<1>4. /\ c # Root /\ Last(c) = stage[p] /\ IsNode(c)
  BY LastOfChild DEF IsNode
<1>5. Side(c) = IF stage[p] = "left" THEN 0 ELSE 1
  BY <1>4 DEF Side
<1>6. stage[p] \in Kids /\ (stage[p] = "right" => res[p] = Own(p))
  BY <1>1, TypesOf DEF NumbersOf
<1>7. Operand(p) = IF stage[p] = "left" THEN num1[p] ELSE Own(p)
  BY <1>6 DEF Operand, Kids
<1>8. PICK h \in Nat : h = Height(p) /\ h # 0
  BY <1>1, <1>2
<1>9. /\ Second(p) = ResultOf(h - 1, 0, num1[p]) /\ Final(p) = ResultOf(h - 1, 1, Own(p))
      /\ ReadBelow(p) = ReadOf(h - 1, 0, num1[p]) \cup ReadOf(h - 1, 1, Own(p))
                           \cup {Second(p), Own(p), Final(p)}
  BY <1>8, InnerValues
<1>10. CASE stage[p] = "left"
  BY <1>3, <1>4, <1>5, <1>7, <1>8, <1>9, <1>10
<1>11. CASE stage[p] # "left"
  BY <1>3, <1>4, <1>5, <1>7, <1>8, <1>9, <1>11
<1> QED
  BY <1>10, <1>11

\* A child that has ended has left its result in the pipe: what it was asked for.
LEMMA AnswerIsThere ==
    ASSUME Sound, NEW p \in Procs, pc[p] = "receive", NEW c, c = Child(p),
           data[PipeFrom(c)] # <<>> \/ NoWriter(PipeFrom(c))
    PROVE  /\ c \in Procs /\ pc[c] \in {"exit", "zombie"} /\ data[PipeFrom(c)] = <<res[c]>>
           /\ res[c] = IF stage[p] = "left" THEN Second(p)
                       ELSE IF stage[p] = "own" THEN Own(p) ELSE Final(p)
           /\ Kept(res[c])
<1>1. Attending(p) /\ Attended(p) /\ pc[p] \in Busy
  BY Plain DEF Attending, Busy, Sound
<1>2. c \in Procs /\ c # Root /\ c # p
  BY <1>1, TypesOf, AttendedChild
<1>3. pc[c] \in {"exit", "zombie"}
  <2>1. pc[c] # "gone" /\ pc[c] # "orphan" /\ pc[c] \in Labels
    <3>1. pc[c] # "orphan"
      BY <1>2, NobodyStrays DEF Sound, WholeInv, StrayInv
    <3> QED
      BY <1>1, <1>2, <3>1, TypesOf DEF LinkOf
  <2>2. pc[c] # "unborn"
    BY <1>1, TypesOf DEF RoomInv, RoomOf, Born
  <2>3. CASE data[PipeFrom(c)] # <<>>
    BY <1>2, <2>1, <2>3, TypesOf DEF PipesInv, AnswerOf, Finished
  <2>4. CASE NoWriter(PipeFrom(c))
    <3>1. pc[c] # "redirect"
      <4>1. SUFFICES ASSUME pc[c] = "redirect" PROVE FALSE
        OBVIOUS
      <4>2. WriteEnd(PipeFrom(c)) \in open[c]
        BY <1>2, <4>1, TypesOf DEF EndsExact, Ends, FourEnds
      <4> QED
        BY <1>2, <2>4, <4>2 DEF NoWriter
    <3>2. stdout[c] # PipeFrom(c)
      BY <1>2, <2>4 DEF NoWriter
    <3>3. pc[c] \in {"zombie", "orphan", "gone"}
      BY <1>2, <2>2, <3>1, <3>2, TypesOf DEF StdInv, StdOf, Redirected
    <3> QED
      BY <2>1, <3>3
  <2> QED
    BY <2>3, <2>4
<1>4. pc[c] \in Reporting /\ pc[c] \in Working
  BY <1>3 DEF Reporting, Working
<1>5. /\ data[PipeFrom(c)] = <<res[c]>> /\ (stage[p] # "own" => num1[c] = Operand(p))
      /\ stage[p] = "own" => res[c] = Compute(Side(p), num1[p], num2[p])
  BY <1>1, <1>3, <1>4, TypesOf DEF LinkOf
<1>6. IsNode(p) /\ pc[p] \in Working /\ Height(p) \in Nat
  BY <1>1, Plain DEF Sound, Working
<1>7. NumbersOf(p) /\ NumbersOf(c)
  BY <1>2, TypesOf
<1>8. CASE stage[p] = "own"
  <2>1. num2[p] = Second(p)
    BY <1>6, <1>7, <1>8 DEF NumbersOf
  <2>2. res[c] = Own(p)
    BY <1>5, <1>8, <2>1 DEF Own
  <2>3. Own(p) \in ReadBelow(p)
    <3>1. CASE Height(p) = 0
      BY <3>1, LeafValues
    <3>2. CASE Height(p) # 0
      BY <1>6, <3>2, InnerValues
    <3> QED
      BY <3>1, <3>2
  <2> QED
    BY <1>2, <1>3, <1>5, <1>6, <1>7, <1>8, <2>2, <2>3 DEF NumbersOf
<1>9. CASE stage[p] # "own"
  <2>1. /\ IsNode(c)
        /\ ResultOf(Height(c), Side(c), Operand(p)) =
              IF stage[p] = "left" THEN Second(p) ELSE Final(p)
        /\ Second(p) \in ReadBelow(p) /\ Final(p) \in ReadBelow(p)
    BY <1>1, <1>2, <1>9, ChildValues
  <2>2. res[c] = Final(c)
    BY <1>4, <1>7, <2>1 DEF NumbersOf
  <2>3. res[c] = IF stage[p] = "left" THEN Second(p) ELSE Final(p)
    BY <1>5, <1>9, <2>1, <2>2 DEF Final
  <2> QED
    BY <1>2, <1>3, <1>5, <1>6, <1>7, <1>9, <2>1, <2>3 DEF NumbersOf
<1> QED
  BY <1>8, <1>9

\* A node reads what it asked for, without losing a digit.
LEMMA ReceiveCorrect ==
    ASSUME Sound, NEW p \in Procs, Receive(p)
    PROVE  Correct'
<1> DEFINE c == Child(p)
           x == IF data[PipeFrom(c)] # <<>> THEN AsRead(Head(data[PipeFrom(c)])) ELSE 0
<1>1. /\ pc[p] = "receive" /\ Goto(p, "wait") /\ stage' = stage /\ printed' = printed
      /\ data[PipeFrom(c)] # <<>> \/ NoWriter(PipeFrom(c))
      /\ Result(p, x) /\ data' = [data EXCEPT ![PipeFrom(c)] = <<>>] /\ SameTree
  BY DEF Receive, At, programs, arguments, SameTree
<1>2. pc'[p] = "wait" /\ \A q \in Procs : q # p => pc'[q] = pc[q]
  BY <1>1, TypesOf, GotoFacts DEF Labels
<1>3. /\ c \in Procs /\ pc[c] \in {"exit", "zombie"} /\ data[PipeFrom(c)] = <<res[c]>>
      /\ res[c] = IF stage[p] = "left" THEN Second(p)
                  ELSE IF stage[p] = "own" THEN Own(p) ELSE Final(p)
      /\ Kept(res[c]) /\ c # p
  BY <1>1, AnswerIsThere, ParentNotChild
<1>4. x = IF stage[p] = "left" THEN Second(p)
          ELSE IF stage[p] = "own" THEN Own(p) ELSE Final(p)
  BY <1>3 DEF AsRead
<1> HIDE DEF x
<1>5. /\ num1' = num1
      /\ IF stage[p] = "left" THEN num2'[p] = x /\ res'[p] = res[p]
                              ELSE num2'[p] = num2[p] /\ res'[p] = x
      /\ \A q \in Procs : q # p => num2'[q] = num2[q] /\ res'[q] = res[q]
  BY <1>1, TypesOf DEF Result
<1>6. \A q \in Procs : q # p => SamePlace(q)
  BY <1>1, <1>2, <1>5 DEF SamePlace
<1>7. NumbersOf(p)'
  <2>1. /\ Second(p)' = Second(p) /\ Own(p)' = Own(p) /\ Final(p)' = Final(p)
        /\ ReadBelow(p)' = ReadBelow(p)
    BY <1>1, <1>5, SameValues
  <2>2. NumbersOf(p) /\ stage[p] \in Kids
    BY TypesOf
  <2>3. pc[p] \in Working /\ pc'[p] \notin Reporting /\ pc[p] \in Busy \ {"wait"}
    BY <1>1, <1>2 DEF Working, Busy, Reporting
  <2>4. stage[p] = "left" => num2'[p] = Second(p)
    BY <1>4, <1>5
  <2>5. stage[p] = "own" => num2'[p] = num2[p] /\ res'[p] = Own(p)
    BY <1>4, <1>5
  <2>6. stage[p] = "right" => num2'[p] = num2[p] /\ res'[p] = Final(p)
    BY <1>4, <1>5
  <2>7. stage'[p] = stage[p]
    BY <1>1
  <2> QED
    BY <1>2, <2>1, <2>2, <2>3, <2>4, <2>5, <2>6, <2>7 DEF NumbersOf, IsNode, Kids
<1>8. LinkOf(p)'
  <2>1. Child(p)' = c /\ pc'[c] \in {"exit", "zombie"}
    BY <1>1, <1>2, <1>3 DEF Child
  <2> HIDE DEF c
  <2> QED
    BY <1>2, <2>1 DEF LinkOf, Finished
<1>9. ASSUME NEW q \in Procs, Child(q) = p PROVE LinkOf(q)'
  <2>1. q # p
    BY <1>9, ParentNotChild
  <2> QED
    BY <1>1, <1>2, <1>5, <1>6, <1>9, <2>1, BusyLink DEF Busy
<1>10. PrintedOnce'
  BY <1>1, <1>2, <1>6, RootFacts, PrintedStays
<1>11. \A pipe \in Pipes \ {PipeTo(p), PipeFrom(p), PipeTo(c), PipeFrom(c)} :
          data'[pipe] = data[pipe]
  BY <1>1, TypesOf
<1>12. \A q \in Procs : NumbersOf(q)' /\ LinkOf(q)'
  <2> HIDE DEF c
  <2>1. c = Child(p)
    BY DEF c
  <2> QED
    BY <1>1, <1>3, <1>6, <1>7, <1>8, <1>9, <1>11, <2>1, OneMoves
<1> QED
  BY <1>10, <1>12 DEF Correct

\* A node has what it waited for, and goes on or is done.
LEMMA WaitCorrect ==
    ASSUME Sound, NEW p \in Procs, Wait(p), NEW c, c = Child(p)
    PROVE  Correct'
<1>1. /\ pc[p] = "wait" /\ pc' = [pc EXCEPT ![p] = Following(p), ![c] = "gone"]
      /\ NextStage(p) /\ num1' = num1 /\ num2' = num2 /\ res' = res /\ data' = data
      /\ printed' = printed /\ SameTree
  BY DEF Wait, At, programs, arguments, SameTree, numbers
<1>2. Attending(p) /\ Attended(p) /\ pc[p] \in Busy /\ pc[p] \in Working
  BY <1>1, Plain DEF Attending, Busy, Sound, Working
<1>3. c \in Procs /\ c # Root /\ c # p
  BY <1>2, TypesOf, AttendedChild
<1>4. /\ pc'[p] = Following(p) /\ pc'[c] = "gone"
      /\ \A q \in Procs : q # p /\ q # c => pc'[q] = pc[q]
  BY <1>1, <1>3, TypesOf
<1>5. /\ stage[p] \in Kids
      /\ stage'[p] = IF LastStage(p) THEN stage[p]
                     ELSE IF stage[p] = "left" THEN "own" ELSE "right"
      /\ \A q \in Procs : q # p => stage'[q] = stage[q]
  BY <1>1, TypesOf DEF NextStage
<1>6. \A q \in Procs : q # p /\ q # c => SamePlace(q)
  BY <1>1, <1>4, <1>5 DEF SamePlace
<1>7. /\ IsNode(p) /\ Height(p) \in Nat /\ (IsLeaf(p) <=> Height(p) = 0)
      /\ NumbersOf(p)
  BY <1>1, <1>2, Plain, TypesOf DEF Sound
<1>8. NumbersOf(p)'
  <2>1. /\ Second(p)' = Second(p) /\ Own(p)' = Own(p) /\ Final(p)' = Final(p)
        /\ ReadBelow(p)' = ReadBelow(p) /\ num2'[p] = num2[p] /\ res'[p] = res[p]
    BY <1>1, SameValues
  <2>2. num2[p] = Second(p) /\ \A n \in ReadBelow(p) : Kept(n)
    BY <1>1, <1>2, <1>7 DEF NumbersOf
  <2>3. stage[p] = "own" => res[p] = Own(p)
    BY <1>1, <1>2, <1>7 DEF NumbersOf
  <2>4. stage[p] = "right" => res[p] = Final(p)
    BY <1>1, <1>2, <1>7 DEF NumbersOf
  <2>5. CASE LastStage(p)
    <3>1. pc'[p] = "deliver" /\ stage'[p] = stage[p] /\ stage[p] # "left"
      BY <1>4, <1>5, <2>5 DEF Following, LastStage
    <3>2. res[p] = Final(p)
      BY <1>7, <2>3, <2>4, <2>5, LeafValues DEF LastStage
    <3> QED
      BY <2>1, <2>2, <3>1, <3>2 DEF NumbersOf, Busy
  <2>6. CASE ~LastStage(p)
    <3>1. pc'[p] = "fork"
      BY <1>4, <2>6 DEF Following
    <3>2. stage'[p] = "right" => res[p] = Own(p)
      BY <1>5, <2>3, <2>6 DEF Kids, LastStage
    <3> QED
      BY <2>1, <2>2, <3>1, <3>2 DEF NumbersOf, Busy, Reporting
  <2> QED
    BY <2>5, <2>6
<1>9. LinkOf(p)'
  BY <1>4 DEF LinkOf, Attending, Following, Busy
<1>10. ASSUME NEW q \in Procs, Child(q) = p PROVE LinkOf(q)'
  <2>1. q # p /\ q # c
    BY <1>10, ParentNotChild
  <2>2. pc'[p] \in Busy \cup {"deliver"} /\ num1'[p] = num1[p]
    BY <1>1, <1>4 DEF Following, Busy
  <2> QED
    BY <1>1, <1>2, <1>6, <1>10, <2>1, <2>2, BusyLink
<1>11. PrintedOnce'
  <2>1. p # Root => SamePlace(Root)
    BY <1>3, <1>6, RootFacts
  <2>2. pc'[p] \notin {"exit", "gone"}
    BY <1>4 DEF Following
  <2> QED
    BY <1>1, <2>1, <2>2, PrintedStays
<1>12. \A q \in Procs : NumbersOf(q)' /\ LinkOf(q)'
  BY <1>1, <1>4, <1>6, <1>8, <1>9, <1>10, OneMoves
<1> QED
  BY <1>11, <1>12 DEF Correct

\* A process that is working, or at the end of its input, has a parent at its read.
LEMMA ParentReceives ==
    ASSUME Sound, NEW p \in Procs, p # Root,
           \/ pc[p] = "deliver"
           \/ pc[p] = "input" /\ NoWriter(PipeTo(p))
    PROVE  \E q \in Procs : Child(q) = p /\ q # p /\ pc[q] = "receive"
<1> DEFINE q == Front(p)
<1>1. q \in Procs /\ Attended(q) /\ Child(q) = p
  BY TypesOf, ParentAttends DEF Alive
<1>2. Attending(q) /\ LinkOf(q) /\ q # p
  BY <1>1, Plain, TypesOf, ParentNotChild DEF Sound
<1> HIDE DEF q
<1>3. pc[q] # "wait"
  BY <1>1, <1>2 DEF LinkOf, Finished
<1>4. pc[p] = "deliver" => pc[q] = "receive"
  BY <1>1, <1>2, <1>3 DEF LinkOf, Early
<1>5. pc[p] = "input" /\ NoWriter(PipeTo(p)) => pc[q] = "receive"
  <2>1. SUFFICES ASSUME NoWriter(PipeTo(p)), pc[q] # "receive" PROVE FALSE
    OBVIOUS
  <2>2. pc[q] \in {"closeTheirs", "send", "closeTo"} /\ ~Lost(q)
    BY <1>1, <1>2, <1>3, <2>1, Plain DEF Attending, Busy, Sound
  <2>3. WriteEnd(PipeTo(p)) \in Ends(q)
    BY <1>1, <2>2 DEF Ends, FourEnds
  <2>4. open[q] = Ends(q)
    BY <1>1, TypesOf DEF EndsExact
  <2> QED
    BY <1>1, <2>1, <2>3, <2>4 DEF NoWriter
<1> QED
  BY <1>1, <1>2, <1>4, <1>5

\* The root prints its result, every other process writes it to its parent.
LEMMA DeliverCorrect ==
    ASSUME Sound, NEW p \in Procs, Deliver(p)
    PROVE  Correct'
<1>1. /\ pc[p] = "deliver" /\ Goto(p, "exit") /\ SameTree
      /\ stage' = stage /\ num1' = num1 /\ num2' = num2 /\ res' = res
  BY DEF Deliver, At, programs, arguments, SameTree, numbers
<1>2. pc'[p] = "exit" /\ \A q \in Procs : q # p => pc'[q] = pc[q]
  BY <1>1, TypesOf, GotoFacts DEF Labels
<1>3. \A q \in Procs : q # p => SamePlace(q)
  BY <1>1, <1>2 DEF SamePlace
<1>4. p = Root <=> Depth(p) = 0 /\ ~IsProgram(p)
  <2>1. Depth(p) = Len(p) /\ p \in Seq(Kids)
    BY Plain, ProcFacts DEF Sound
  <2>2. Len(p) = 0 <=> p = Root
    BY <2>1, EmptySeq DEF Root
  <2> QED
    BY <2>1, <2>2 DEF IsProgram
<1>5. /\ p = Root => printed' = Append(printed, res[p]) /\ data' = data
      /\ p # Root => printed' = printed /\ data' = [data EXCEPT ![PipeFrom(p)] = <<res[p]>>]
  <2>1. CASE p = Root
    BY <1>4, <2>1 DEF Deliver
  <2>2. CASE p # Root
    <3>1. stdout[p] = PipeFrom(p) /\ data[PipeFrom(p)] = <<>>
      BY <1>1, <2>2, TypesOf DEF StdInv, StdOf, Redirected, PipesInv, AnswerOf, Finished
    <3>2. printed' = printed /\ data' = [data EXCEPT ![stdout[p]] = Append(data[stdout[p]], res[p])]
      BY <1>4, <2>2 DEF Deliver
    <3>3. Append(data[stdout[p]], res[p]) = <<res[p]>>
      BY <3>1
    <3>4. data' = [data EXCEPT ![PipeFrom(p)] = <<res[p]>>]
      BY <3>1, <3>2, <3>3
    <3> QED
      BY <2>2, <3>2, <3>4
  <2> QED
    BY <2>1, <2>2
<1>6. NumbersOf(p)'
  <2>1. Second(p)' = Second(p) /\ Final(p)' = Final(p) /\ ReadBelow(p)' = ReadBelow(p)
    BY <1>1, SameValues
  <2>2. NumbersOf(p)
    BY TypesOf
  <2> QED
    BY <1>1, <1>2, <2>1, <2>2 DEF NumbersOf, Working, Reporting, Busy, IsNode
<1>7. LinkOf(p)'
  BY <1>2 DEF LinkOf, Attending, Busy
<1>8. ASSUME NEW q \in Procs, Child(q) = p PROVE LinkOf(q)'
  <2>1. q # p /\ p # Root /\ LinkOf(q)
    BY <1>8, ParentNotChild, LastOfChild, TypesOf
  <2>2. SamePlace(q)
    BY <1>3, <2>1
  <2>3. CASE ~Attending(q)
    BY <2>2, <2>3 DEF LinkOf, Attending, SamePlace
  <2>4. CASE Attending(q)
    <3>1. pc[q] = "receive"
      BY <1>1, <1>8, <2>1, <2>4 DEF LinkOf, Early, Finished
    <3>2. Child(q)' = p /\ Operand(q)' = Operand(q) /\ Side(q)' = Side(q)
      BY <1>1, <1>8, SameValues DEF Child, Operand
    <3>3. data'[PipeFrom(p)] = <<res[p]>>
      BY <1>5, <2>1, TypesOf, ChildPipes
    <3>4. /\ pc[p] \in Working /\ pc[p] \in Reporting
          /\ pc'[p] \notin Early /\ pc'[p] # "gone"
      BY <1>1, <1>2 DEF Working, Reporting, Early
    <3>5. /\ stage[q] # "own" => num1[p] = Operand(q)
          /\ stage[q] = "own" => res[p] = Compute(Side(q), num1[q], num2[q])
      BY <1>8, <2>1, <2>4, <3>1, <3>4 DEF LinkOf
    <3> QED
      BY <1>1, <2>2, <3>1, <3>2, <3>3, <3>4, <3>5 DEF LinkOf, SamePlace
  <2> QED
    BY <2>3, <2>4
<1>9. PrintedOnce'
  <2>1. CASE p # Root
    BY <1>1, <1>3, <1>5, <2>1, RootFacts, PrintedStays
  <2>2. CASE p = Root
    <3>1. printed = <<>>
      BY <1>1, <2>2 DEF Sound, Correct, PrintedOnce
    <3>2. res[p] = Final(p)
      BY <1>1, <2>2, TypesOf DEF NumbersOf, Reporting, Working, IsNode
    <3>3. Final(p)' = Final(p)
      BY <1>1, SameValues
    <3>4. printed' = <<Final(p)>>
      BY <1>5, <2>2, <3>1, <3>2
    <3> QED
      BY <1>2, <2>2, <3>3, <3>4 DEF PrintedOnce
  <2> QED
    BY <2>1, <2>2
<1>10. \A pipe \in Pipes : pipe # PipeFrom(p) => data'[pipe] = data[pipe]
  BY <1>5, TypesOf
<1>11. \A q \in Procs : NumbersOf(q)' /\ LinkOf(q)'
  <2>1. PICK c : c = Child(p)
    OBVIOUS
  <2>2. c \in Procs => SamePlace(c)
    BY <1>3, <2>1, ParentNotChild
  <2> QED
    BY <1>1, <1>3, <1>6, <1>7, <1>8, <1>10, <2>1, <2>2, OneMoves
<1> QED
  BY <1>9, <1>11 DEF Correct

LEMMA ExitCorrect ==
    ASSUME Sound, NEW p \in Procs, Exit(p)
    PROVE  Correct'
<1>1. /\ pc[p] = "exit" /\ Goto(p, IF p = Root THEN "gone" ELSE "zombie") /\ SameTree
      /\ stage' = stage /\ num1' = num1 /\ num2' = num2 /\ res' = res
      /\ data' = data /\ printed' = printed
  BY DEF Exit, Ended, At, programs, arguments, SameTree, numbers
<1>2. /\ pc'[p] = IF p = Root THEN "gone" ELSE "zombie"
      /\ \A q \in Procs : q # p => pc'[q] = pc[q]
  BY <1>1, TypesOf, GotoFacts DEF Labels
<1>3. \A q \in Procs : q # p => SamePlace(q)
  BY <1>1, <1>2 DEF SamePlace
<1>4. NumbersOf(p)'
  <2>1. Second(p)' = Second(p) /\ Final(p)' = Final(p) /\ ReadBelow(p)' = ReadBelow(p)
    BY <1>1, SameValues
  <2>2. NumbersOf(p)
    BY TypesOf
  <2> QED
    BY <1>1, <1>2, <2>1, <2>2 DEF NumbersOf, Working, Reporting, Busy, IsNode
<1>5. LinkOf(p)'
  BY <1>2 DEF LinkOf, Attending, Busy
<1>6. ASSUME NEW q \in Procs, Child(q) = p PROVE LinkOf(q)'
  <2>1. q # p /\ p # Root /\ LinkOf(q)
    BY <1>6, ParentNotChild, LastOfChild, TypesOf
  <2>2. SamePlace(q)
    BY <1>3, <2>1
  <2>3. /\ Child(q)' = p /\ Operand(q)' = Operand(q) /\ Side(q)' = Side(q)
        /\ Attending(q)' <=> Attending(q)
    BY <1>1, <1>6, <2>2, SameValues DEF Child, Operand, Attending, SamePlace
  <2>4. /\ pc'[p] = "zombie" /\ pc[p] \in Working /\ pc[p] \in Reporting
        /\ pc[p] \notin Early /\ pc'[p] \notin Early /\ pc'[p] \in Finished
    BY <1>1, <1>2, <2>1 DEF Working, Reporting, Early, Finished
  <2> QED
    BY <1>1, <1>6, <2>1, <2>2, <2>3, <2>4 DEF LinkOf, SamePlace
<1>7. PrintedOnce'
  <2>1. CASE p # Root
    BY <1>1, <1>3, <2>1, RootFacts, PrintedStays
  <2>2. CASE p = Root
    <3>1. Final(p)' = Final(p)
      BY <1>1, SameValues
    <3> QED
      BY <1>1, <1>2, <2>2, <3>1 DEF PrintedOnce, Sound, Correct
  <2> QED
    BY <2>1, <2>2
<1>8. \A q \in Procs : NumbersOf(q)' /\ LinkOf(q)'
  <2>1. PICK c : c = Child(p)
    OBVIOUS
  <2>2. c \in Procs => SamePlace(c)
    BY <1>3, <2>1, ParentNotChild
  <2> QED
    BY <1>1, <1>3, <1>4, <1>5, <1>6, <2>1, <2>2, OneMoves
<1> QED
  BY <1>7, <1>8 DEF Correct

\* A node starts on the number its parent has sent.
LEMMA ReadNum1Correct ==
    ASSUME Sound, NEW p \in Procs, ~IsProgram(p), ReadNum1(p), Fits'
    PROVE  Correct'
<1>1. /\ pc[p] = "input" /\ Goto(p, "fork") /\ SameTree /\ res' = res /\ printed' = printed
      /\ stage' = [stage EXCEPT ![p] = IF IsLeaf(p) THEN "own" ELSE "left"]
      /\ num2' = [num2 EXCEPT ![p] = IF IsLeaf(p) THEN 1 ELSE num2[p]]
      /\ \/ p = Root /\ data' = data /\ \E x \in Inputs : num1' = [num1 EXCEPT ![p] = x]
         \/ /\ p # Root /\ data[stdin[p]] # <<>> /\ NoWriter(stdin[p])
            /\ num1' = [num1 EXCEPT ![p] = Head(data[stdin[p]])]
            /\ data' = [data EXCEPT ![stdin[p]] = <<>>]
  BY DEF ReadNum1, At, programs, arguments, SameTree
<1>2. pc'[p] = "fork" /\ \A q \in Procs : q # p => pc'[q] = pc[q]
  BY <1>1, TypesOf, GotoFacts DEF Labels
<1>3. \A q \in Procs : q # p => SamePlace(q)
  BY <1>1, <1>2, TypesOf DEF SamePlace
<1>4. /\ IsNode(p) /\ (IsLeaf(p) <=> Height(p) = 0)
      /\ stage'[p] = IF IsLeaf(p) THEN "own" ELSE "left"
      /\ IsLeaf(p) => num2'[p] = 1
  BY <1>1, Plain, TypesOf DEF Sound
<1>5. p # Root => stdin[p] = PipeTo(p)
  BY <1>1, TypesOf DEF StdInv, StdOf, Redirected
<1>6. ASSUME NEW q \in Procs, Child(q) = p, pc[q] = "receive"
      PROVE  /\ stage[q] # "own" /\ q # p
             /\ data[PipeTo(p)] = <<Operand(q)>> /\ num1'[p] = Operand(q)
  <2>1. q # p /\ p # Root /\ Last(p) = stage[q]
    BY <1>6, ParentNotChild, LastOfChild
  <2>2. stage[q] # "own"
    BY <1>4, <2>1 DEF IsNode
  <2>3. data[PipeTo(p)] = <<Operand(q)>>
    BY <1>1, <1>6, <2>2, TypesOf DEF LinkOf, Attending, Busy, Early, Message
  <2>4. num1'[p] = Head(data[PipeTo(p)])
    BY <1>1, <1>5, <2>1, TypesOf
  <2> QED
    BY <2>1, <2>2, <2>3, <2>4
<1>7. NumbersOf(p)'
  <2>1. Height(p)' = Height(p) /\ Side(p)' = Side(p)
    BY <1>1 DEF SameTree, Height, Side
  <2>2. \A n \in ReadBelow(p)' : Kept(n)
    <3>1. CASE p = Root
      BY <1>2, <3>1 DEF Fits
    <3>2. CASE p # Root
      <4>1. PICK q \in Procs : Child(q) = p /\ q # p /\ pc[q] = "receive"
        BY <1>1, <1>5, <3>2, ParentReceives
      <4>2. stage[q] # "own" /\ num1'[p] = Operand(q)
        BY <1>6, <4>1
      <4>3. Attending(q) /\ pc[q] \in Working /\ pc[q] \in Busy
        BY <4>1 DEF Attending, Working, Busy
      <4>4. ReadOf(Height(p), Side(p), Operand(q)) \subseteq ReadBelow(q)
        BY <4>1, <4>2, <4>3, ChildValues
      <4>5. IsNode(q) /\ NumbersOf(q)
        BY <4>3, Plain, TypesOf DEF Sound
      <4>6. \A n \in ReadBelow(q) : Kept(n)
        BY <4>3, <4>5 DEF NumbersOf
      <4>7. ReadBelow(p)' = ReadOf(Height(p), Side(p), Operand(q))
        BY <2>1, <4>2 DEF ReadBelow
      <4> QED
        BY <4>4, <4>6, <4>7
    <3> QED
      BY <3>1, <3>2
  <2>3. Height(p) = 0 => Second(p)' = 1
    BY <2>1 DEF Second
  <2> QED
    BY <1>2, <1>4, <2>2, <2>3 DEF NumbersOf, Reporting, Busy
<1>8. LinkOf(p)'
  BY <1>2 DEF LinkOf, Attending, Busy
<1>9. ASSUME NEW q \in Procs, Child(q) = p PROVE LinkOf(q)'
  <2>1. q # p /\ p # Root /\ LinkOf(q)
    BY <1>9, ParentNotChild, LastOfChild, TypesOf
  <2>2. SamePlace(q)
    BY <1>3, <2>1
  <2>3. pc[q] = "receive"
    <3>1. PICK r \in Procs : Child(r) = p /\ pc[r] = "receive"
      BY <1>1, <1>5, <2>1, ParentReceives
    <3> QED
      BY <1>9, <3>1, TypesOf, OneParent
  <2>4. stage[q] # "own" /\ num1'[p] = Operand(q)
    BY <1>6, <1>9, <2>3
  <2>5. Child(q)' = p /\ Operand(q)' = Operand(q)
    BY <1>9, <2>2 DEF Child, Operand, SamePlace
  <2> QED
    BY <1>2, <2>2, <2>3, <2>4, <2>5 DEF LinkOf, SamePlace, Early
<1>10. PrintedOnce'
  BY <1>1, <1>2, <1>3, RootFacts, PrintedStays
<1>11. \A pipe \in Pipes : pipe # PipeTo(p) => data'[pipe] = data[pipe]
  BY <1>1, <1>5, TypesOf
<1>12. \A q \in Procs : NumbersOf(q)' /\ LinkOf(q)'
  <2>1. PICK c : c = Child(p)
    OBVIOUS
  <2>2. c \in Procs => SamePlace(c)
    BY <1>3, <2>1, ParentNotChild
  <2> QED
    BY <1>1, <1>3, <1>7, <1>8, <1>9, <1>11, <2>1, <2>2, OneMoves
<1> QED
  BY <1>10, <1>12 DEF Correct

\* A program computes with the two numbers of its node.
LEMMA RunProgramCorrect ==
    ASSUME Sound, NEW p \in Procs, IsProgram(p), RunProgram(p)
    PROVE  Correct'
<1>1. /\ pc[p] = "input" /\ Goto(p, "deliver") /\ SameTree /\ printed' = printed
      /\ stage' = stage /\ num1' = num1 /\ num2' = num2 /\ NoWriter(stdin[p])
      /\ res' = [res EXCEPT ![p] =
             Compute(LR(Front(p)), data[stdin[p]][1], data[stdin[p]][2])]
      /\ data' = [data EXCEPT ![stdin[p]] = <<>>]
  BY DEF RunProgram, At, programs, arguments, SameTree
<1>2. pc'[p] = "deliver" /\ \A q \in Procs : q # p => pc'[q] = pc[q]
  BY <1>1, TypesOf, GotoFacts DEF Labels
<1>3. \A q \in Procs : q # p => SamePlace(q)
  BY <1>1, <1>2, TypesOf DEF SamePlace
<1>4. ~IsNode(p) /\ p # Root
  BY Plain DEF Sound, IsNode
<1>5. stdin[p] = PipeTo(p)
  BY <1>1, <1>4, TypesOf DEF StdInv, StdOf, Redirected
<1>6. NumbersOf(p)' /\ LinkOf(p)'
  <2>1. ~IsNode(p)'
    BY <1>4 DEF IsNode
  <2> QED
    BY <1>2, <2>1 DEF NumbersOf, LinkOf, Attending, Busy
<1>7. ASSUME NEW q \in Procs, Child(q) = p PROVE LinkOf(q)'
  <2>1. q # p /\ Last(p) = stage[q] /\ LinkOf(q)
    BY <1>7, ParentNotChild, LastOfChild, TypesOf
  <2>2. SamePlace(q)
    BY <1>3, <2>1
  <2>3. pc[q] = "receive"
    <3>1. PICK r \in Procs : Child(r) = p /\ pc[r] = "receive"
      BY <1>1, <1>4, <1>5, ParentReceives
    <3> QED
      BY <1>7, <3>1, TypesOf, OneParent
  <2>4. stage[q] = "own" /\ Front(p) = q
    BY <1>4, <1>7, <2>1, TypesOf, FrontOfChild DEF IsNode
  <2>5. data[PipeTo(p)] = <<num1[q], num2[q]>>
    BY <1>1, <1>7, <2>1, <2>3, <2>4 DEF LinkOf, Attending, Busy, Early, Message
  <2>6. LR(Front(p)) = Side(q)
    BY <2>4, Plain DEF Sound
  <2>7. res'[p] = Compute(Side(q), num1[q], num2[q])
    BY <1>1, <1>5, <2>5, <2>6, TypesOf
  <2>8. Child(q)' = p /\ Side(q)' = Side(q)
    BY <1>1, <1>7, <2>2, SameValues DEF Child, SamePlace
  <2> QED
    BY <1>2, <2>2, <2>3, <2>4, <2>7, <2>8 DEF LinkOf, SamePlace, Early
<1>8. PrintedOnce'
  BY <1>1, <1>2, <1>3, RootFacts, PrintedStays
<1>9. \A pipe \in Pipes : pipe # PipeTo(p) => data'[pipe] = data[pipe]
  BY <1>1, <1>5, TypesOf
<1>10. \A q \in Procs : NumbersOf(q)' /\ LinkOf(q)'
  <2>1. PICK c : c = Child(p)
    OBVIOUS
  <2>2. c \in Procs => SamePlace(c)
    BY <1>3, <2>1, ParentNotChild
  <2> QED
    BY <1>1, <1>3, <1>6, <1>7, <1>9, <2>1, <2>2, OneMoves
<1> QED
  BY <1>8, <1>10 DEF Correct

-----------------------------------------------------------------------------
(* The theorem.                                                             *)

\* The root reads its number once.
LEMMA RootKeepsItsNumber ==
    ASSUME WholeInv, [Next]_vars, pc[Root] # "input"
    PROVE  SameTree /\ num1'[Root] = num1[Root] /\ pc'[Root] # "input"
<1>1. PcTypes /\ TreeInv /\ RoomInv /\ num1 \in [Procs -> Ints] /\ Root \in Procs
  BY RootFacts DEF WholeInv, TreeInv, NumInv
<1>2. CASE UNCHANGED vars
  BY <1>2 DEF vars, programs, arguments, numbers, SameTree
<1>3. ASSUME NEW p \in Procs,
             \/ Redirect(p) \/ CloseTheirs(p) \/ Send(p) \/ CloseTo(p) \/ Receive(p)
             \/ GoOnLost(p) \/ ForkFails(p) \/ RunProgram(p) \/ Deliver(p) \/ Exit(p)
             \/ InitReaps(p)
      PROVE  SameTree /\ num1'[Root] = num1[Root] /\ pc'[Root] # "input"
  <2>1. SameTree /\ num1' = num1
    BY <1>3
    DEF Redirect, CloseTheirs, Send, CloseTo, Receive, GoOnLost, ForkFails, RunProgram, Deliver,
        Exit, InitReaps, Result, programs, arguments, numbers, SameTree
  <2>2. PICK l \in Labels \ {"input"} : Goto(p, l)
    BY <1>3
    DEF Redirect, CloseTheirs, Send, CloseTo, Receive, GoOnLost, ForkFails, RunProgram, Deliver,
        Exit, InitReaps, Ended, Following, Labels
  <2>3. pc'[p] = l /\ \A q \in Procs : q # p => pc'[q] = pc[q]
    BY <1>1, <2>2, GotoFacts
  <2> QED
    BY <1>1, <2>1, <2>2, <2>3
<1>4. ASSUME NEW p \in Procs, CloseAndExec(p)
      PROVE  SameTree /\ num1'[Root] = num1[Root] /\ pc'[Root] # "input"
  <2>1. SameTree /\ num1' = num1 /\ p # Root
    BY <1>1, <1>4 DEF CloseAndExec, At, arguments, numbers, SameTree, TreeInv, ForkedAsCopies
  <2>2. PICK l \in Labels : Goto(p, l)
    BY <1>4 DEF CloseAndExec, Labels
  <2>3. \A q \in Procs : q # p => pc'[q] = pc[q]
    BY <1>1, <2>2, GotoFacts
  <2> QED
    BY <1>1, <2>1, <2>3
<1>5. ASSUME NEW p \in Procs, ReadNum1(p)
      PROVE  SameTree /\ num1'[Root] = num1[Root] /\ pc'[Root] # "input"
  <2>1. SameTree /\ p # Root /\ Goto(p, "fork") /\ \E x : num1' = [num1 EXCEPT ![p] = x]
    BY <1>5 DEF ReadNum1, At, programs, arguments, SameTree
  <2>2. \A q \in Procs : q # p => pc'[q] = pc[q]
    BY <1>1, <2>1, GotoFacts DEF Labels
  <2> QED
    BY <1>1, <2>1, <2>2
<1>6. ASSUME NEW p \in Procs, Fork(p)
      PROVE  SameTree /\ num1'[Root] = num1[Root] /\ pc'[Root] # "input"
  <2> DEFINE c == Child(p)
  <2>1. /\ SameTree /\ num1' = [num1 EXCEPT ![c] = num1[p]]
        /\ pc[p] = "fork" /\ pc' = [pc EXCEPT ![p] = "closeTheirs", ![c] = "redirect"]
    BY <1>6 DEF Fork, At, programs, arguments, SameTree
  <2>2. c \in Procs /\ c # Root
    BY <1>1, <2>1, ThereIsRoom, FrontOfChild
  <2> HIDE DEF c
  <2> QED
    BY <1>1, <2>1, <2>2 DEF PcTypes
<1>7. ASSUME NEW p \in Procs, Wait(p)
      PROVE  SameTree /\ num1'[Root] = num1[Root] /\ pc'[Root] # "input"
  <2> DEFINE c == Child(p)
  <2>1. /\ SameTree /\ num1' = num1
        /\ pc' = [pc EXCEPT ![p] = Following(p), ![c] = "gone"]
    BY <1>7 DEF Wait, programs, arguments, numbers, SameTree
  <2>2. Following(p) # "input"
    BY DEF Following
  <2> HIDE DEF c
  <2> QED
    BY <1>1, <2>1, <2>2 DEF PcTypes
<1>8. ASSUME NEW p \in Procs, BrokenPipe(p)
      PROVE  SameTree /\ num1'[Root] = num1[Root] /\ pc'[Root] # "input"
  <2>1. SameTree /\ num1' = num1
    BY <1>8 DEF BrokenPipe, programs, arguments, numbers, SameTree
  <2>2. PICK c : c = Child(p)
    OBVIOUS
  <2>3. Deserted(p)
    BY <1>8, ReadersStay DEF WholeInv
  <2>4. /\ pc'[p] # "input" /\ pc'[c] # "input"
        /\ \A q \in Procs : q # p /\ q # c => pc'[q] = pc[q]
    BY <1>1, <1>8, <2>2, <2>3, BrokenPipeFacts
  <2> QED
    BY <1>1, <2>1, <2>4
<1> QED
  BY <1>2, <1>3, <1>4, <1>5, <1>6, <1>7, <1>8 DEF Next, Step, NodeStep, Done

LEMMA FitsBefore ==
    ASSUME WholeInv, [Next]_vars, Fits'
    PROVE  Fits
<1> SUFFICES ASSUME pc[Root] # "input" PROVE \A n \in ReadBelow(Root) : Kept(n)
  BY DEF Fits
<1>1. SameTree /\ num1'[Root] = num1[Root] /\ pc'[Root] # "input"
  BY RootKeepsItsNumber
<1>2. ReadBelow(Root)' = ReadBelow(Root)
  BY <1>1, SameValues
<1> QED
  BY <1>1, <1>2 DEF Fits

LEMMA ResultStep ==
    ASSUME Sound, [Next]_vars, failed' = {}, Fits'
    PROVE  Correct'
<1>1. CASE UNCHANGED vars
  <2>1. SameTree /\ \A q \in Procs : SamePlace(q)
    BY <1>1 DEF vars, programs, arguments, numbers, SameTree, SamePlace
  <2>2. ASSUME NEW q \in Procs PROVE NumbersOf(q)' /\ LinkOf(q)'
    <3>1. NumbersOf(q)'
      BY <2>1, NumbersStay, TypesOf
    <3>2. LinkOf(q)'
      <4>1. CASE Attending(q)
        <5> DEFINE d == Child(q)
        <5>1. d \in Procs
          BY <4>1, Plain, TypesOf, AttendedChild DEF Sound
        <5>2. data' = data
          BY <1>1 DEF vars
        <5> HIDE DEF d
        <5> QED
          BY <2>1, <5>1, <5>2, LinkStays, TypesOf DEF d
      <4>2. CASE ~Attending(q)
        BY <2>1, <4>2 DEF LinkOf, Attending, SamePlace
      <4> QED
        BY <4>1, <4>2
    <3> QED
      BY <3>1, <3>2
  <2>3. PrintedOnce'
    <3>1. Final(Root)' = Final(Root)
      BY <2>1, SameValues, RootFacts DEF SamePlace
    <3> QED
      BY <1>1, <3>1 DEF PrintedOnce, vars, Sound, Correct
  <2> QED
    BY <2>2, <2>3 DEF Correct
<1>2. ASSUME NEW p \in Procs,
             GoOnLost(p) \/ ForkFails(p) \/ BrokenPipe(p) \/ InitReaps(p)
      PROVE  Correct'
  <2>1. ~Lost(p)
    BY Plain DEF Sound
  <2>2. pc[p] # "orphan"
    BY NobodyStrays DEF Sound, WholeInv, StrayInv
  <2> QED
    BY <1>2, <2>1, <2>2 DEF GoOnLost, ForkFails, BrokenPipe, InitReaps, At
<1>3. ASSUME NEW p \in Procs, ~IsProgram(p), NodeStep(p) PROVE Correct'
  BY <1>2, <1>3, ReadNum1Correct, ForkCorrect, AttendingCorrect, ReceiveCorrect, WaitCorrect
  DEF NodeStep
<1>4. ASSUME NEW p \in Procs,
             \/ IsProgram(p) /\ RunProgram(p)
             \/ Redirect(p) \/ CloseAndExec(p) \/ Deliver(p) \/ Exit(p)
      PROVE  Correct'
  BY <1>4, RunProgramCorrect, EarlyCorrect, DeliverCorrect, ExitCorrect
<1> QED
  BY <1>1, <1>2, <1>3, <1>4 DEF Next, Step, Done

LEMMA ResultInit == Init => ResultInv
<1> SUFFICES ASSUME Init PROVE ResultInv
  OBVIOUS
<1>1. \A p \in Procs : pc[p] \in {"input", "unborn"}
  BY DEF Init
<1>2. \A p \in Procs : NumbersOf(p) /\ LinkOf(p)
  BY <1>1 DEF NumbersOf, LinkOf, Working, Attending, Busy, Reporting
<1>3. PrintedOnce
  BY <1>1, RootFacts DEF PrintedOnce, Init
<1> QED
  BY <1>2, <1>3 DEF ResultInv, Correct, Init

LEMMA ResultNext ==
    ASSUME WholeInv, ResultInv, [Next]_vars
    PROVE  ResultInv'
<1>1. rootLr' = rootLr /\ missing' = missing /\ (failed' = {} => failed = {})
  BY DEF Next, Step, NodeStep, Done, ReadNum1, Fork, CloseTheirs, Send, BrokenPipe, CloseTo,
         Receive, Wait, GoOnLost, RunProgram, Redirect, CloseAndExec, Deliver, Exit, ForkFails,
         InitReaps,
         vars, programs, arguments
<1>2. ASSUME failed' = {}, missing' = {}, Fits' PROVE Correct'
  <2>1. Fits
    BY <1>2, FitsBefore
  <2>2. Sound
    BY <1>1, <1>2, <2>1 DEF Sound, ResultInv
  <2> QED
    BY <1>2, <2>2, ResultStep
<1> QED
  BY <1>1, <1>2 DEF ResultInv

\* However the processes of treePipe.c are scheduled, the root prints once, and
\* what it prints is the result of the in-order evaluation of the tree: for every
\* depth and every number, with sums and products that wrap around, as long as no
\* fork and no execvp fails and the numbers read back have at most ten characters.
THEOREM ResultIsInOrder == Spec => []InOrderResult
<1>1. Init => ResultInv
  BY ResultInit
<1>2. WholeInv /\ ResultInv /\ [Next]_vars => ResultInv'
  BY ResultNext
<1>3. WholeInv /\ ResultInv => InOrderResult
  <2> DEFINE tree == InOrder[maxDepth][rootLr][num1[Root]]
  <2> SUFFICES ASSUME WholeInv, ResultInv, failed = {}, missing = {}, \A n \in tree.read : Kept(n)
               PROVE  \A i \in DOMAIN printed : i = 1 /\ printed[i] = tree.result
    BY DEF InOrderResult
  <2>1. Height(Root) = maxDepth /\ Side(Root) = rootLr
    BY DEF Height, Side, Root, WholeInv, RoomInv, ArgumentsOK
  <2>2. ReadBelow(Root) = tree.read /\ Final(Root) = tree.result
    BY <2>1 DEF ReadBelow, Final, ReadOf, ResultOf
  <2> HIDE DEF tree
  <2>3. PrintedOnce
    BY <2>2 DEF ResultInv, Fits, Correct
  <2> QED
    BY <2>2, <2>3 DEF PrintedOnce
<1> QED
  BY <1>1, <1>2, <1>3, WholeInvariant, PTL DEF Spec
=============================================================================
