--------------------------- MODULE TreePipeProofs ---------------------------
(***************************************************************************)
(* Theorems about module TreePipe, for trees of every depth, all numbers   *)
(* and every set of missing programs: at any time a node attends at most   *)
(* one child, and only below that child is anybody alive.                  *)
(***************************************************************************)
EXTENDS TreePipe, SequenceTheorems, FiniteSetTheorems, TLAPS

Kids == {"left", "own", "right"}

\* The order in which a node forks its children.
Before(s, t) == <<s, t>> \in {<<"left", "own">>, <<"left", "right">>, <<"own", "right">>}

\* The node has forked the child of its stage and has not reaped it.
Attended(p) ==
    \/ pc[p] \in {"send", "closeTo", "receive", "wait"}
    \/ pc[p] = "closeTheirs" /\ ~Lost(p)

Over(p) == pc[p] \in {"deliver", "exit", "zombie", "orphan", "gone"}

\* The node has forked its child s.
Reached(p, s) ==
    \/ Before(s, stage[p]) /\ (pc[p] = "fork" \/ Attended(p) \/ Over(p))
    \/ s = stage[p] /\ (Attended(p) \/ Over(p))

-----------------------------------------------------------------------------
(* The inductive invariant.                                                 *)

PcTypes ==
    /\ pc \in [Procs -> Labels]
    /\ stage \in [Procs -> Kids]
    /\ strays \subseteq Procs \ {Root}

\* Who runs, or has ended and waits for its parent to reap it.
Alive(q) == pc[q] \notin {"unborn", "orphan", "gone"}

\* Who is alive below a node is below the child it attends, and nobody is born
\* below a child it has not forked.
OneChild ==
    \A p, q \in Procs, s \in Kids :
        Below(Append(p, s), q) =>
            /\ Alive(q) => s = stage[p] /\ Attended(p)
            /\ pc[q] # "unborn" => Reached(p, s)

\* A stray copy is past the stage at which it was forked, unless it is still
\* lost there.
StraysGoOn ==
    \A p \in strays :
        /\ pc[p] \notin {"unborn", "redirect", "close", "input"}
        /\ stage[p] = Last(p) \/ Before(Last(p), stage[p])
        /\ pc[p] \in {"fork", "send", "closeTo", "receive", "wait"} =>
               Before(Last(p), stage[p])

\* A child starts with the stage of its parent.
ForkedAsCopies ==
    \A c \in Procs : pc[c] \in {"redirect", "close"} => c # Root /\ stage[c] = Last(c)

TreeInv == PcTypes /\ OneChild /\ StraysGoOn /\ ForkedAsCopies

-----------------------------------------------------------------------------
(* Paths.                                                                   *)

LEMMA ProcFacts ==
    ASSUME NEW p \in Procs
    PROVE  /\ p \in Seq(Kids) /\ Len(p) \in Nat /\ Len(p) <= MaxDepth + 1
           /\ \A i \in 1..Len(p) : p[i] \in Kids
           /\ \A i \in 1..(Len(p) - 1) : p[i] = "own" => p[i + 1] = "right"
<1>1. /\ p \in BoundedSeq(Kids, MaxDepth + 1)
      /\ \A i \in 1..(Len(p) - 1) : p[i] = "own" => p[i + 1] = "right"
  BY DEF Procs, Kids
<1>2. PICK n \in 0..(MaxDepth + 1) : p \in [1..n -> Kids]
  BY <1>1 DEF BoundedSeq, SeqOf
<1>3. n \in Nat /\ p \in Seq(Kids) /\ Len(p) = n
  BY <1>2, TreeAssumption
<1> QED
  BY <1>1, <1>2, <1>3

\* Below, position by position.
LEMMA BelowMeans ==
    ASSUME NEW p \in Seq(Kids), NEW q \in Seq(Kids)
    PROVE  Below(p, q) <=> Len(p) <= Len(q) /\ \A i \in 1..Len(p) : p[i] = q[i]
<1>1. Len(p) \in Nat /\ Len(q) \in Nat
  OBVIOUS
<1>2. SubSeq(p, 1, Len(p)) = p
  BY SubSeqFull
<1>3. CASE Len(p) <= Len(q)
  <2>1. \A i \in 1..Len(p) : q[i] \in Kids
    BY <1>1, <1>3, ElementOfSeq
  <2>2. /\ SubSeq(q, 1, Len(p)) \in Seq(Kids)
        /\ Len(SubSeq(q, 1, Len(p))) = Len(p)
        /\ \A i \in 1..Len(p) : SubSeq(q, 1, Len(p))[i] = q[i]
    <3>1. 1 \in Int /\ Len(p) \in Int /\ Len(p) - 1 + 1 = Len(p)
      BY <1>1
    <3> QED
      BY <1>1, <2>1, <3>1, SubSeqProperties
  <2> DEFINE r == SubSeq(q, 1, Len(p))
  <2> HIDE DEF r
  <2>3. p = r <=> \A i \in 1..Len(p) : p[i] = q[i]
    <3>1. r \in Seq(Kids) /\ Len(r) = Len(p) /\ \A i \in 1..Len(p) : r[i] = q[i]
      BY <2>2 DEF r
    <3> QED
      BY <3>1, SeqEqual
  <2> QED
    BY <1>2, <1>3, <2>3 DEF Below, IsPrefix, r
<1>4. CASE ~(Len(p) <= Len(q))
  BY <1>4 DEF Below, IsPrefix
<1> QED
  BY <1>3, <1>4

LEMMA AppendFacts ==
    ASSUME NEW p \in Seq(Kids), NEW s \in Kids
    PROVE  /\ Append(p, s) \in Seq(Kids) /\ Append(p, s) # p /\ Append(p, s) # Root
           /\ Len(p) \in Nat /\ Len(Append(p, s)) = Len(p) + 1
           /\ \A i \in 1..Len(p) : Append(p, s)[i] = p[i]
           /\ Append(p, s)[Len(p) + 1] = s /\ Last(Append(p, s)) = s
<1>1. /\ Append(p, s) \in Seq(Kids) /\ Append(p, s) # Root
      /\ Len(p) \in Nat /\ Len(Append(p, s)) = Len(p) + 1
      /\ \A i \in 1..Len(p) : Append(p, s)[i] = p[i]
      /\ Append(p, s)[Len(p) + 1] = s
  BY AppendProperties DEF Root
<1> QED
  BY <1>1 DEF Last

\* What is below a child of p, position by position.
LEMMA BelowAppend ==
    ASSUME NEW p \in Seq(Kids), NEW s \in Kids, NEW q \in Seq(Kids)
    PROVE  Below(Append(p, s), q) <=>
             /\ Len(p) < Len(q) /\ q[Len(p) + 1] = s
             /\ \A i \in 1..Len(p) : p[i] = q[i]
<1> DEFINE c == Append(p, s)
<1>1. /\ c \in Seq(Kids) /\ Len(p) \in Nat /\ Len(q) \in Nat /\ Len(c) = Len(p) + 1
      /\ \A i \in 1..Len(p) : c[i] = p[i]
      /\ c[Len(p) + 1] = s
  BY AppendFacts
<1> HIDE DEF c
<1>2. Below(c, q) <=> Len(c) <= Len(q) /\ \A i \in 1..Len(c) : c[i] = q[i]
  BY <1>1, BelowMeans
<1>3. (\A i \in 1..Len(c) : c[i] = q[i]) <=>
        q[Len(p) + 1] = s /\ \A i \in 1..Len(p) : p[i] = q[i]
  BY <1>1
<1>4. Len(c) <= Len(q) <=> Len(p) < Len(q)
  BY <1>1
<1> QED
  BY <1>2, <1>3, <1>4 DEF c

LEMMA BelowTransitive ==
    ASSUME NEW p \in Seq(Kids), NEW q \in Seq(Kids), NEW r \in Seq(Kids),
           Below(p, q), Below(q, r)
    PROVE  Below(p, r)
<1>1. Len(p) \in Nat /\ Len(q) \in Nat /\ Len(r) \in Nat
  OBVIOUS
<1> QED
  BY <1>1, BelowMeans

LEMMA BelowItself ==
    ASSUME NEW p \in Seq(Kids)
    PROVE  Below(p, p)
BY BelowMeans

\* A proper ancestor is not below its descendant, and has one child on the way.
LEMMA BelowChild ==
    ASSUME NEW p \in Seq(Kids), NEW s \in Kids, NEW q \in Seq(Kids), Below(Append(p, s), q)
    PROVE  /\ Below(p, q) /\ p # q /\ q # Root
           /\ \A t \in Kids : Below(Append(p, t), q) => t = s
           /\ \A t \in Kids : ~Below(Append(q, t), p)
<1>1. Len(p) \in Nat /\ Len(q) \in Nat /\ Len(Root) = 0
  BY DEF Root
<1>2. /\ Len(p) < Len(q) /\ q[Len(p) + 1] = s
      /\ \A i \in 1..Len(p) : p[i] = q[i]
  BY BelowAppend
<1>3. Below(p, q) /\ p # q /\ q # Root
  BY <1>1, <1>2, BelowMeans
<1>4. \A t \in Kids : Below(Append(p, t), q) => t = s
  BY <1>2, BelowAppend
<1>5. \A t \in Kids : ~Below(Append(q, t), p)
  BY <1>1, <1>2, BelowAppend
<1> QED
  BY <1>3, <1>4, <1>5

LEMMA ChildOnTheWay ==
    ASSUME NEW p \in Seq(Kids), NEW q \in Seq(Kids), Below(p, q), p # q
    PROVE  \E s \in Kids : Below(Append(p, s), q)
<1>1. Len(p) \in Nat /\ Len(q) \in Nat /\ Len(p) <= Len(q)
      /\ \A i \in 1..Len(p) : p[i] = q[i]
  BY BelowMeans
<1>2. Len(p) < Len(q)
  BY <1>1, SeqEqual
<1>3. q[Len(p) + 1] \in Kids
  BY <1>1, <1>2, ElementOfSeq
<1> QED
  BY <1>1, <1>2, <1>3, BelowAppend

\* What is above a child is above its parent, or is the child.
LEMMA AboveChild ==
    ASSUME NEW a \in Seq(Kids), NEW s \in Kids, NEW p \in Seq(Kids), NEW t \in Kids
    PROVE  Below(Append(a, s), Append(p, t)) <=>
             Below(Append(a, s), p) \/ (a = p /\ s = t)
<1> DEFINE c == Append(p, t)
<1>1. /\ c \in Seq(Kids) /\ Len(p) \in Nat /\ Len(a) \in Nat /\ Len(c) = Len(p) + 1
      /\ \A i \in 1..Len(p) : c[i] = p[i]
      /\ c[Len(p) + 1] = t
  BY AppendFacts
<1> HIDE DEF c
<1>2. Below(Append(a, s), c) <=>
        /\ Len(a) < Len(c) /\ c[Len(a) + 1] = s
        /\ \A i \in 1..Len(a) : a[i] = c[i]
  BY <1>1, BelowAppend
<1>3. Below(Append(a, s), p) <=>
        /\ Len(a) < Len(p) /\ p[Len(a) + 1] = s
        /\ \A i \in 1..Len(a) : a[i] = p[i]
  BY BelowAppend
<1>4. CASE Len(a) < Len(p)
  <2>1. a # p /\ Len(a) < Len(c)
    BY <1>1, <1>4
  <2>2. Len(a) + 1 \in 1..Len(p) /\ \A i \in 1..Len(a) : i \in 1..Len(p)
    BY <1>1, <1>4
  <2>3. c[Len(a) + 1] = p[Len(a) + 1] /\ \A i \in 1..Len(a) : c[i] = p[i]
    BY <1>1, <2>2
  <2> QED
    BY <1>2, <1>3, <1>4, <2>1, <2>3 DEF c
<1>5. CASE Len(a) = Len(p)
  <2>1. a = p <=> \A i \in 1..Len(a) : a[i] = p[i]
    BY <1>5, SeqEqual
  <2> QED
    BY <1>1, <1>2, <1>3, <1>5, <2>1 DEF c
<1>6. CASE Len(a) > Len(p)
  BY <1>1, <1>2, <1>3, <1>6 DEF c
<1> QED
  BY <1>1, <1>4, <1>5, <1>6

\* Procs has every prefix of its members.
LEMMA ProcsClosed ==
    ASSUME NEW p \in Seq(Kids), NEW q \in Procs, Below(p, q)
    PROVE  p \in Procs
<1>1. /\ q \in Seq(Kids) /\ Len(q) \in Nat /\ Len(q) <= MaxDepth + 1
      /\ \A i \in 1..(Len(q) - 1) : q[i] = "own" => q[i + 1] = "right"
  BY ProcFacts
<1>2. Len(p) \in Nat /\ Len(p) <= Len(q) /\ \A i \in 1..Len(p) : p[i] = q[i]
  BY <1>1, BelowMeans
<1>3. \A i \in 1..(Len(p) - 1) : p[i] = "own" => p[i + 1] = "right"
  BY <1>1, <1>2
<1>4. Len(p) \in 0..(MaxDepth + 1) /\ p \in [1..Len(p) -> Kids]
  BY <1>1, <1>2, TreeAssumption, LenProperties
<1>5. p \in BoundedSeq(Kids, MaxDepth + 1)
  BY <1>4 DEF BoundedSeq, SeqOf
<1> QED
  BY <1>3, <1>5 DEF Procs, Kids

\* A process is its parent's child.
LEMMA ParentFacts ==
    ASSUME NEW c \in Procs, c # Root
    PROVE  /\ Front(c) \in Procs /\ Last(c) \in Kids /\ c = Append(Front(c), Last(c))
<1>1. c \in Seq(Kids) /\ Len(c) \in Nat /\ \A i \in 1..Len(c) : c[i] \in Kids
  BY ProcFacts
<1>2. Len(c) > 0
  BY <1>1, EmptySeq DEF Root
<1> DEFINE f == Front(c)
<1>3. /\ f \in Seq(Kids) /\ Len(f) = Len(c) - 1
      /\ \A i \in 1..Len(f) : f[i] = c[i]
  <2>1. 1 \in Int /\ Len(c) - 1 \in Int /\ \A i \in 1..(Len(c) - 1) : c[i] \in Kids
    BY <1>1
  <2>2. /\ SubSeq(c, 1, Len(c) - 1) \in Seq(Kids)
        /\ Len(SubSeq(c, 1, Len(c) - 1)) = IF 1 <= Len(c) - 1 THEN Len(c) - 1 - 1 + 1 ELSE 0
        /\ \A i \in 1..(Len(c) - 1 - 1 + 1) : SubSeq(c, 1, Len(c) - 1)[i] = c[1 + i - 1]
    BY <2>1, SubSeqProperties
  <2> DEFINE r == SubSeq(c, 1, Len(c) - 1)
             n == Len(c) - 1
  <2>4. n \in Nat
    BY <1>1, <1>2
  <2>5. /\ r \in Seq(Kids) /\ Len(r) = IF 1 <= n THEN n - 1 + 1 ELSE 0
        /\ \A i \in 1..(n - 1 + 1) : r[i] = c[1 + i - 1]
    BY <2>2
  <2> HIDE DEF r, n
  <2>7. n - 1 + 1 = n /\ (1 <= n \/ n = 0) /\ \A i \in 1..n : 1 + i - 1 = i
    BY <2>4
  <2>6. r \in Seq(Kids) /\ Len(r) = n /\ \A i \in 1..n : r[i] = c[i]
    BY <2>4, <2>5, <2>7
  <2>3. /\ r \in Seq(Kids) /\ Len(r) = Len(c) - 1
        /\ \A i \in 1..(Len(c) - 1) : r[i] = c[i]
    BY <2>6 DEF n
  <2> QED
    BY <2>3 DEF Front, r
<1> HIDE DEF f
<1>4. Last(c) \in Kids /\ c[Len(f) + 1] = Last(c)
  BY <1>1, <1>2, <1>3 DEF Last
<1> DEFINE d == Append(f, Last(c))
<1>5. /\ d \in Seq(Kids) /\ Len(d) = Len(c)
      /\ \A i \in 1..Len(f) : d[i] = f[i]
      /\ d[Len(f) + 1] = Last(c)
  BY <1>1, <1>3, <1>4, AppendFacts
<1>6. d = c
  <2> HIDE DEF d
  <2>1. \A i \in 1..Len(c) : d[i] = c[i]
    BY <1>1, <1>3, <1>4, <1>5
  <2> QED
    BY <1>1, <1>5, <2>1, SeqEqual
<1>7. Below(f, c)
  BY <1>1, <1>3, BelowMeans
<1> QED
  BY <1>3, <1>4, <1>6, <1>7, ProcsClosed DEF f

\* The root has nobody above it.
LEMMA RootFacts == Root \in Procs
<1>1. Root \in Seq(Kids) /\ Len(Root) = 0
  BY EmptySeq DEF Root
<1>2. Root \in [1..0 -> Kids] /\ 0 \in 0..(MaxDepth + 1)
  BY <1>1, LenProperties, TreeAssumption
<1>3. Root \in BoundedSeq(Kids, MaxDepth + 1)
  BY <1>2 DEF BoundedSeq, SeqOf
<1> QED
  BY <1>1, <1>3 DEF Procs, Kids

-----------------------------------------------------------------------------
(* A step of one process.                                                   *)

\* What holds of the child c as far as it depends on c alone.
OwnPart(c) ==
    /\ c \in strays =>
         /\ pc[c] \notin {"unborn", "redirect", "close", "input"}
         /\ stage[c] = Last(c) \/ Before(Last(c), stage[c])
         /\ pc[c] \in {"fork", "send", "closeTo", "receive", "wait"} =>
                Before(Last(c), stage[c])
    /\ pc[c] \in {"redirect", "close"} => c # Root /\ stage[c] = Last(c)

LEMMA OwnParts ==
    ASSUME PcTypes
    PROVE  StraysGoOn /\ ForkedAsCopies <=> \A c \in Procs : OwnPart(c)
BY DEF PcTypes, StraysGoOn, ForkedAsCopies, OwnPart

\* The others stay as they are.
OthersStay(p) ==
    \A q \in Procs : q # p =>
        /\ pc'[q] = pc[q] /\ stage'[q] = stage[q]
        /\ q \in strays' <=> q \in strays

LEMMA OwnStep ==
    ASSUME TreeInv, NEW p \in Procs, pc[p] # "unborn", Alive(p)' => Alive(p),
           OthersStay(p), PcTypes', OwnPart(p)',
           \A q \in Procs, s \in Kids : Below(Append(p, s), q) =>
               /\ Alive(q) => s = stage'[p] /\ Attended(p)'
               /\ pc[q] # "unborn" => Reached(p, s)'
    PROVE  TreeInv'
<1>1. \A q \in Procs : q # p => Attended(q)' = Attended(q) /\ Over(q)' = Over(q)
  BY DEF OthersStay, Attended, Over, Lost
<1>2. \A q \in Procs, s \in Kids : q # p => Reached(q, s)' = Reached(q, s)
  BY <1>1 DEF OthersStay, Reached
<1>3. OneChild'
  <2> SUFFICES ASSUME NEW a \in Procs, NEW q \in Procs, NEW s \in Kids, Below(Append(a, s), q)
               PROVE  /\ Alive(q)' => s = stage'[a] /\ Attended(a)'
                      /\ pc'[q] # "unborn" => Reached(a, s)'
    BY DEF OneChild, Below
  <2>1. a # q
    BY BelowChild, ProcFacts
  <2>2. /\ Alive(q) => s = stage[a] /\ Attended(a)
        /\ pc[q] # "unborn" => Reached(a, s)
    BY DEF TreeInv, OneChild
  <2>3. CASE a = p
    <3>1. pc'[q] = pc[q]
      BY <2>1, <2>3 DEF OthersStay
    <3> QED
      BY <2>3, <3>1 DEF Alive
  <2>4. CASE a # p /\ q # p
    BY <1>1, <1>2, <2>2, <2>4 DEF OthersStay, Alive
  <2>5. CASE a # p /\ q = p
    BY <1>1, <1>2, <2>2, <2>5 DEF OthersStay, Alive
  <2> QED
    BY <2>3, <2>4, <2>5
<1>4. \A c \in Procs : OwnPart(c)'
  <2>1. \A c \in Procs : OwnPart(c)
    BY OwnParts DEF TreeInv
  <2>2. \A c \in Procs : c # p => OwnPart(c)'
    BY <2>1 DEF OthersStay, OwnPart
  <2> QED
    BY <2>2
<1>5. StraysGoOn' /\ ForkedAsCopies'
  BY <1>4 DEF PcTypes, StraysGoOn, ForkedAsCopies, OwnPart
<1> QED
  BY <1>3, <1>5 DEF TreeInv

\* Below a process that has not started nobody is born, and below one that
\* attends no child nobody is alive.
LEMMA NobodyBorn ==
    ASSUME TreeInv, NEW p \in Procs, NEW s \in Kids, NEW q \in Procs, Below(Append(p, s), q),
           \/ pc[p] \in {"unborn", "redirect", "close", "input"}
           \/ pc[p] = "closeTheirs" /\ Lost(p)
    PROVE  pc[q] = "unborn" /\ ~Alive(q)
<1>1. ~Reached(p, s)
  BY DEF Reached, Attended, Over
<1> QED
  BY <1>1 DEF TreeInv, OneChild, Alive

LEMMA NobodyAlive ==
    ASSUME TreeInv, NEW p \in Procs, NEW s \in Kids, NEW q \in Procs, Below(Append(p, s), q),
           ~Attended(p)
    PROVE  ~Alive(q)
BY DEF TreeInv, OneChild

LEMMA OwnPartOf ==
    ASSUME TreeInv, NEW p \in Procs
    PROVE  OwnPart(p)
BY OwnParts DEF TreeInv

\* A process that has not started takes its first steps.
LEMMA EarlyStep ==
    ASSUME TreeInv, NEW p \in Procs, OthersStay(p), PcTypes', OwnPart(p)',
           \/ pc[p] \in {"redirect", "close", "input"}
           \/ pc[p] = "closeTheirs" /\ Lost(p)
    PROVE  TreeInv'
<1>1. Alive(p) /\ pc[p] # "unborn"
  BY DEF Alive
<1>2. \A q \in Procs, s \in Kids : Below(Append(p, s), q) => pc[q] = "unborn" /\ ~Alive(q)
  BY NobodyBorn
<1> QED
  BY <1>1, <1>2, OwnStep

\* A process that attends no child goes on without one.
LEMMA IdleStep ==
    ASSUME TreeInv, NEW p \in Procs, OthersStay(p), PcTypes', OwnPart(p)', stage'[p] = stage[p],
           pc[p] \in {"fork", "deliver", "exit", "orphan"},
           pc'[p] \in {"exit", "zombie", "gone"}, pc[p] = "orphan" => pc'[p] = "gone"
    PROVE  TreeInv'
<1>1. /\ pc[p] # "unborn" /\ (Alive(p)' => Alive(p))
      /\ ~Attended(p) /\ Over(p)'
  BY DEF Alive, Attended, Over
<1>2. \A s \in Kids : Reached(p, s) => Reached(p, s)'
  BY <1>1 DEF Reached, Over
<1>3. \A q \in Procs, s \in Kids : Below(Append(p, s), q) =>
        ~Alive(q) /\ (pc[q] # "unborn" => Reached(p, s))
  BY <1>1, NobodyAlive DEF TreeInv, OneChild
<1> QED
  BY <1>1, <1>2, <1>3, OwnStep

\* A process goes on attending the same child.
LEMMA AttendingStep ==
    ASSUME TreeInv, NEW p \in Procs, OthersStay(p), PcTypes', OwnPart(p)', stage'[p] = stage[p],
           Attended(p), Attended(p)'
    PROVE  TreeInv'
<1>1. Alive(p) /\ pc[p] # "unborn"
  BY DEF Alive, Attended
<1>2. \A s \in Kids : Reached(p, s) => Reached(p, s)'
  BY DEF Reached
<1>3. \A q \in Procs, s \in Kids : Below(Append(p, s), q) =>
        /\ Alive(q) => s = stage[p] /\ Attended(p)
        /\ pc[q] # "unborn" => Reached(p, s)
  BY DEF TreeInv, OneChild
<1> QED
  BY <1>1, <1>2, <1>3, OwnStep

-----------------------------------------------------------------------------
(* The actions.                                                             *)

LEMMA GotoFacts ==
    ASSUME PcTypes, NEW p \in Procs, NEW l \in Labels, Goto(p, l)
    PROVE  /\ pc' \in [Procs -> Labels] /\ pc'[p] = l
           /\ \A q \in Procs : q # p => pc'[q] = pc[q]
BY DEF PcTypes, Goto

\* From stage to stage: never back, and not at all after the last.
LEMMA NextStageFacts ==
    ASSUME PcTypes, NEW p \in Procs, NextStage(p)
    PROVE  /\ stage' \in [Procs -> Kids]
           /\ \A q \in Procs : q # p => stage'[q] = stage[q]
           /\ \/ Following(p) = "deliver" /\ stage'[p] = stage[p]
              \/ Following(p) = "fork" /\ Before(stage[p], stage'[p])
<1>1. stage \in [Procs -> Kids] /\ stage[p] \in Kids
  BY DEF PcTypes
<1> DEFINE next == IF LastStage(p) THEN stage[p] ELSE IF stage[p] = "left" THEN "own" ELSE "right"
<1>2. stage' = [stage EXCEPT ![p] = next]
  BY DEF NextStage
<1>3. next \in Kids
  BY <1>1 DEF Kids
<1>4. LastStage(p) \/ (~LastStage(p) /\ Before(stage[p], next))
  BY <1>1 DEF Kids, LastStage, Before
<1>5. LastStage(p) => next = stage[p]
  OBVIOUS
<1> HIDE DEF next
<1>6. /\ stage' \in [Procs -> Kids] /\ stage'[p] = next
      /\ \A q \in Procs : q # p => stage'[q] = stage[q]
  BY <1>1, <1>2, <1>3
<1>7. CASE LastStage(p)
  BY <1>5, <1>6, <1>7 DEF Following
<1>8. CASE ~LastStage(p)
  BY <1>4, <1>6, <1>8 DEF Following
<1> QED
  BY <1>6, <1>7, <1>8

LEMMA ReadNum1Keeps ==
    ASSUME TreeInv, NEW p \in Procs, ReadNum1(p)
    PROVE  TreeInv'
<1>1. /\ pc[p] = "input" /\ Goto(p, "fork") /\ strays' = strays
      /\ stage' = [stage EXCEPT ![p] = IF IsLeaf(p) THEN "own" ELSE "left"]
  BY DEF ReadNum1, At, programs
<1>2. PcTypes /\ "fork" \in Labels
  BY DEF TreeInv, Labels
<1>3. /\ pc' \in [Procs -> Labels] /\ pc'[p] = "fork"
      /\ \A q \in Procs : q # p => pc'[q] = pc[q]
  BY <1>1, <1>2, GotoFacts
<1>4. stage' \in [Procs -> Kids] /\ \A q \in Procs : q # p => stage'[q] = stage[q]
  BY <1>1, <1>2 DEF PcTypes, Kids
<1>5. PcTypes' /\ OthersStay(p)
  BY <1>1, <1>2, <1>3, <1>4 DEF PcTypes, OthersStay
<1>6. p \notin strays
  BY <1>1, OwnPartOf DEF OwnPart
<1>7. OwnPart(p)'
  BY <1>1, <1>3, <1>6 DEF OwnPart
<1> QED
  BY <1>1, <1>5, <1>7, EarlyStep

LEMMA ForkFailsKeeps ==
    ASSUME TreeInv, NEW p \in Procs, ForkFails(p) \/ Deliver(p) \/ Exit(p) \/ InitReaps(p)
    PROVE  TreeInv'
<1>1. PICK l \in {"exit", "zombie", "gone"} : Goto(p, l) /\ (pc[p] = "orphan" => l = "gone")
  BY DEF ForkFails, Deliver, Exit, InitReaps, Ended, At
<1>2. /\ pc[p] \in {"fork", "deliver", "exit", "orphan"}
      /\ strays' = strays /\ stage' = stage
  BY DEF ForkFails, Deliver, Exit, InitReaps, At, programs
<1>3. PcTypes /\ l \in Labels
  BY DEF TreeInv, Labels
<1>4. /\ pc' \in [Procs -> Labels] /\ pc'[p] = l
      /\ \A q \in Procs : q # p => pc'[q] = pc[q]
  BY <1>1, <1>3, GotoFacts
<1>5. PcTypes' /\ OthersStay(p)
  BY <1>2, <1>3, <1>4 DEF PcTypes, OthersStay
<1>6. OwnPart(p)'
  BY <1>2, <1>4, OwnPartOf DEF OwnPart
<1> QED
  BY <1>1, <1>2, <1>4, <1>5, <1>6, IdleStep

LEMMA RedirectKeeps ==
    ASSUME TreeInv, NEW c \in Procs, Redirect(c)
    PROVE  TreeInv'
<1>1. pc[c] = "redirect" /\ Goto(c, "close") /\ strays' = strays /\ stage' = stage
  BY DEF Redirect, At, programs
<1>2. PcTypes /\ "close" \in Labels
  BY DEF TreeInv, Labels
<1>3. /\ pc' \in [Procs -> Labels] /\ pc'[c] = "close"
      /\ \A q \in Procs : q # c => pc'[q] = pc[q]
  BY <1>1, <1>2, GotoFacts
<1>4. PcTypes' /\ OthersStay(c)
  BY <1>1, <1>2, <1>3 DEF PcTypes, OthersStay
<1>5. OwnPart(c)'
  BY <1>1, <1>3, OwnPartOf DEF OwnPart
<1> QED
  BY <1>1, <1>4, <1>5, EarlyStep

\* A child whose program is missing becomes a stray copy at the stage it was
\* forked at.
LEMMA CloseAndExecKeeps ==
    ASSUME TreeInv, NEW c \in Procs, CloseAndExec(c)
    PROVE  TreeInv'
<1>1. pc[c] = "close" /\ stage' = stage
  BY DEF CloseAndExec, At
<1>2. PcTypes /\ c # Root /\ stage[c] = Last(c) /\ c \notin strays
  BY <1>1, OwnPartOf DEF TreeInv, OwnPart
<1>3. CASE Goto(c, "closeTheirs") /\ strays' = strays \cup {c}
  <2>1. /\ pc' \in [Procs -> Labels] /\ pc'[c] = "closeTheirs"
        /\ \A q \in Procs : q # c => pc'[q] = pc[q]
    BY <1>2, <1>3, GotoFacts DEF Labels
  <2>2. PcTypes' /\ OthersStay(c)
    BY <1>1, <1>2, <1>3, <2>1 DEF PcTypes, OthersStay
  <2>3. OwnPart(c)'
    BY <1>1, <1>2, <2>1 DEF OwnPart
  <2> QED
    BY <1>1, <2>2, <2>3, EarlyStep
<1>4. CASE Goto(c, "input") /\ strays' = strays
  <2>1. /\ pc' \in [Procs -> Labels] /\ pc'[c] = "input"
        /\ \A q \in Procs : q # c => pc'[q] = pc[q]
    BY <1>2, <1>4, GotoFacts DEF Labels
  <2>2. PcTypes' /\ OthersStay(c)
    BY <1>1, <1>2, <1>4, <2>1 DEF PcTypes, OthersStay
  <2>3. OwnPart(c)'
    BY <1>2, <1>4, <2>1 DEF OwnPart
  <2> QED
    BY <1>1, <2>2, <2>3, EarlyStep
<1> QED
  BY <1>3, <1>4 DEF CloseAndExec

LEMMA RunProgramKeeps ==
    ASSUME TreeInv, NEW w \in Procs, RunProgram(w)
    PROVE  TreeInv'
<1>1. pc[w] = "input" /\ Goto(w, "deliver") /\ strays' = strays /\ stage' = stage
  BY DEF RunProgram, At, programs
<1>2. PcTypes /\ "deliver" \in Labels
  BY DEF TreeInv, Labels
<1>3. /\ pc' \in [Procs -> Labels] /\ pc'[w] = "deliver"
      /\ \A q \in Procs : q # w => pc'[q] = pc[q]
  BY <1>1, <1>2, GotoFacts
<1>4. PcTypes' /\ OthersStay(w)
  BY <1>1, <1>2, <1>3 DEF PcTypes, OthersStay
<1>5. OwnPart(w)'
  BY <1>1, <1>3, OwnPartOf DEF OwnPart
<1> QED
  BY <1>1, <1>4, <1>5, EarlyStep

\* A stray copy leaves the stage at which it is lost.
LEMMA GoOnLostKeeps ==
    ASSUME TreeInv, NEW c \in Procs, GoOnLost(c)
    PROVE  TreeInv'
<1>1. /\ pc[c] = "closeTheirs" /\ Lost(c) /\ NextStage(c) /\ Goto(c, Following(c))
      /\ strays' = strays
  BY DEF GoOnLost, At, programs
<1>2. PcTypes /\ Following(c) \in Labels
  BY DEF TreeInv, Following, Labels
<1>3. /\ pc' \in [Procs -> Labels] /\ pc'[c] = Following(c)
      /\ \A q \in Procs : q # c => pc'[q] = pc[q]
  BY <1>1, <1>2, GotoFacts
<1>4. /\ stage' \in [Procs -> Kids]
      /\ \A q \in Procs : q # c => stage'[q] = stage[q]
      /\ \/ Following(c) = "deliver" /\ stage'[c] = stage[c]
         \/ Following(c) = "fork" /\ Before(stage[c], stage'[c])
  BY <1>1, <1>2, NextStageFacts
<1>5. PcTypes' /\ OthersStay(c)
  BY <1>1, <1>2, <1>3, <1>4 DEF PcTypes, OthersStay
<1>6. stage[c] = Last(c)
  BY <1>1 DEF Lost
<1>7. OwnPart(c)'
  BY <1>3, <1>4, <1>6 DEF OwnPart
<1> QED
  BY <1>1, <1>5, <1>7, EarlyStep

\* The steps of a parent between fork and wait.
LEMMA AttendingKeeps ==
    ASSUME TreeInv, NEW p \in Procs, CloseTheirs(p) \/ Send(p) \/ CloseTo(p) \/ Receive(p)
    PROVE  TreeInv'
<1>1. PICK l \in {"send", "closeTo", "receive", "wait"} : Goto(p, l)
  BY DEF CloseTheirs, Send, CloseTo, Receive
<1>2. Attended(p) /\ strays' = strays /\ stage' = stage
  BY DEF CloseTheirs, Send, CloseTo, Receive, At, Attended, programs
<1>3. PcTypes /\ l \in Labels
  BY DEF TreeInv, Labels
<1>4. /\ pc' \in [Procs -> Labels] /\ pc'[p] = l
      /\ \A q \in Procs : q # p => pc'[q] = pc[q]
  BY <1>1, <1>3, GotoFacts
<1>5. PcTypes' /\ OthersStay(p) /\ Attended(p)'
  BY <1>2, <1>3, <1>4 DEF PcTypes, OthersStay, Attended
<1>6. OwnPart(p)'
  BY <1>2, <1>4, OwnPartOf DEF OwnPart, Attended, Lost
<1> QED
  BY <1>2, <1>5, <1>6, AttendingStep

\* A child is born below its parent, which attends it from now on.
LEMMA ForkKeeps ==
    ASSUME TreeInv, NEW p \in Procs, Fork(p), NEW c, c = Child(p)
    PROVE  TreeInv'
<1>1. /\ pc[p] = "fork" /\ pc' = [pc EXCEPT ![p] = "closeTheirs", ![c] = "redirect"]
      /\ stage' = [stage EXCEPT ![c] = stage[p]] /\ strays' = strays
  BY DEF Fork, At, programs
<1>2. /\ PcTypes /\ stage[p] \in Kids /\ p \in Seq(Kids)
      /\ pc \in [Procs -> Labels] /\ stage \in [Procs -> Kids]
  BY ProcFacts DEF TreeInv, PcTypes
<1>3. c \in Seq(Kids) /\ c # p /\ c # Root /\ Last(c) = stage[p] /\ c = Append(p, stage[p])
  BY <1>2, AppendFacts DEF Child
<1>4. /\ pc'[p] = "closeTheirs" /\ stage'[p] = stage[p]
      /\ c \in Procs => pc'[c] = "redirect" /\ stage'[c] = stage[p]
      /\ \A q \in Procs : q # p /\ q # c => pc'[q] = pc[q] /\ stage'[q] = stage[q]
  BY <1>1, <1>2, <1>3
<1>5. PcTypes'
  BY <1>1, <1>2 DEF PcTypes, Labels
<1>6. Attended(p)'
  <2>1. p \in strays => Before(Last(p), stage[p])
    BY <1>1, OwnPartOf DEF OwnPart
  <2>2. p \in strays => Last(p) # stage[p]
    BY <2>1 DEF Before
  <2> QED
    BY <1>1, <1>4, <2>2 DEF Attended, Lost
<1>7. \A q \in Procs : q # p /\ q # c => Attended(q)' = Attended(q) /\ Over(q)' = Over(q)
  BY <1>1, <1>4 DEF Attended, Over, Lost
<1>8. \A q \in Procs, s \in Kids : q # p /\ q # c => Reached(q, s)' = Reached(q, s)
  BY <1>4, <1>7 DEF Reached
<1>9. ~Attended(p) /\ ~Over(p) /\ Alive(p)
  BY <1>1 DEF Attended, Over, Alive
<1>10. \A q \in Procs, s \in Kids : Below(Append(p, s), q) =>
         ~Alive(q) /\ (pc[q] # "unborn" => Before(s, stage[p]))
  BY <1>9 DEF TreeInv, OneChild, Reached
<1>11. \A q \in Procs : Below(c, q) => pc[q] = "unborn"
  BY <1>2, <1>3, <1>10 DEF Before
<1>12. OneChild'
  <2> SUFFICES ASSUME NEW a \in Procs, NEW q \in Procs, NEW s \in Kids, Below(Append(a, s), q)
               PROVE  /\ Alive(q)' => s = stage'[a] /\ Attended(a)'
                      /\ pc'[q] # "unborn" => Reached(a, s)'
    BY DEF OneChild, Below
  <2>0. a \in Seq(Kids) /\ q \in Seq(Kids)
    BY ProcFacts
  <2>1. a # q /\ Below(a, q)
    BY <2>0, BelowChild
  <2>2. /\ Alive(q) => s = stage[a] /\ Attended(a)
        /\ pc[q] # "unborn" => Reached(a, s)
    BY DEF TreeInv, OneChild
  <2>3. CASE a = c
    <3>1. pc[q] = "unborn" /\ q # p
      BY <1>9, <1>11, <2>1, <2>3 DEF Alive
    <3> QED
      BY <1>4, <2>1, <2>3, <3>1 DEF Alive
  <2>4. CASE a = p
    <3>1. CASE q = c
      <4>1. s = stage[p]
        <5>1. Below(Append(p, stage[p]), c)
          BY <1>3, BelowItself
        <5>2. Below(Append(p, s), c)
          BY <2>4, <3>1
        <5> QED
          BY <1>2, <1>3, <5>1, <5>2, BelowChild
      <4> QED
        BY <1>4, <1>6, <2>4, <4>1 DEF Reached
    <3>2. CASE q # c
      <4>1. pc'[q] = pc[q]
        BY <1>4, <2>1, <2>4, <3>2
      <4>2. ~Alive(q) /\ (pc[q] # "unborn" => Before(s, stage[p]))
        BY <1>10, <2>4
      <4> QED
        BY <1>4, <1>6, <2>4, <4>1, <4>2 DEF Reached, Alive
    <3> QED
      BY <3>1, <3>2
  <2>5. CASE a # p /\ a # c
    <3>1. CASE q = c
      <4>1. Below(Append(a, s), p)
        BY <1>2, <1>3, <2>0, <2>5, <3>1, AboveChild
      <4>2. s = stage[a] /\ Attended(a) /\ Reached(a, s)
        BY <1>1, <4>1 DEF TreeInv, OneChild, Alive
      <4> QED
        BY <1>4, <1>7, <1>8, <2>5, <4>2
    <3>2. CASE q = p
      BY <1>1, <1>4, <1>7, <1>8, <2>2, <2>5, <3>2 DEF Alive
    <3>3. CASE q # c /\ q # p
      BY <1>4, <1>7, <1>8, <2>2, <2>5, <3>3 DEF Alive
    <3> QED
      BY <3>1, <3>2, <3>3
  <2> QED
    BY <2>3, <2>4, <2>5
<1>13. \A q \in Procs : OwnPart(q)'
  <2> SUFFICES ASSUME NEW q \in Procs PROVE OwnPart(q)'
    OBVIOUS
  <2>1. OwnPart(q)
    BY OwnPartOf
  <2>2. CASE q = p
    BY <1>1, <1>4, <2>1, <2>2 DEF OwnPart
  <2>3. CASE q = c
    <3>1. pc[q] = "unborn"
      BY <1>3, <1>11, <2>3, BelowItself
    <3>2. q \notin strays
      BY <2>1, <3>1 DEF OwnPart
    <3> QED
      BY <1>1, <1>3, <1>4, <2>3, <3>2 DEF OwnPart
  <2>4. CASE q # p /\ q # c
    BY <1>1, <1>4, <2>1, <2>4 DEF OwnPart
  <2> QED
    BY <2>2, <2>3, <2>4
<1>14. StraysGoOn' /\ ForkedAsCopies'
  BY <1>5, <1>13 DEF PcTypes, StraysGoOn, ForkedAsCopies, OwnPart
<1> QED
  BY <1>5, <1>12, <1>14 DEF TreeInv

\* A child is reaped when nobody below it is left, and its parent goes on.
LEMMA WaitKeeps ==
    ASSUME TreeInv, NEW p \in Procs, Wait(p), NEW c, c = Child(p)
    PROVE  TreeInv'
<1>1. /\ pc[p] = "wait" /\ pc[c] = "zombie" /\ NextStage(p) /\ strays' = strays
      /\ pc' = [pc EXCEPT ![p] = Following(p), ![c] = "gone"]
  BY DEF Wait, At, programs
<1>2. /\ PcTypes /\ stage[p] \in Kids /\ p \in Seq(Kids)
      /\ pc \in [Procs -> Labels] /\ stage \in [Procs -> Kids]
  BY ProcFacts DEF TreeInv, PcTypes
<1>3. c \in Seq(Kids) /\ c # p /\ c = Append(p, stage[p])
  BY <1>2, AppendFacts DEF Child
<1>4. /\ pc'[p] = Following(p) /\ \A q \in Procs : q # p /\ q # c => pc'[q] = pc[q]
      /\ c \in Procs => pc'[c] = "gone"
  BY <1>1, <1>2, <1>3
<1>5. /\ stage' \in [Procs -> Kids]
      /\ \A q \in Procs : q # p => stage'[q] = stage[q]
      /\ \/ Following(p) = "deliver" /\ stage'[p] = stage[p]
         \/ Following(p) = "fork" /\ Before(stage[p], stage'[p])
  BY <1>1, <1>2, NextStageFacts
<1>6. PcTypes'
  BY <1>1, <1>2, <1>5 DEF PcTypes, Labels
<1>7. Attended(p) /\ Alive(p)
  BY <1>1 DEF Attended, Alive
<1>8. \A s \in Kids : Reached(p, s) => Reached(p, s)'
  BY <1>2, <1>4, <1>5 DEF Reached, Over, Before, Kids
<1>9. \A q \in Procs, s \in Kids : Below(Append(p, s), q) => ~Alive(q)'
  <2> SUFFICES ASSUME NEW q \in Procs, NEW s \in Kids, Below(Append(p, s), q), Alive(q)'
               PROVE  FALSE
    BY DEF Below
  <2>1. q # p /\ q \in Seq(Kids)
    BY <1>2, BelowChild, ProcFacts
  <2>2. q # c
    BY <1>4 DEF Alive
  <2>3. Alive(q)
    BY <1>4, <2>1, <2>2 DEF Alive
  <2>4. Below(c, q)
    BY <1>3, <2>3 DEF TreeInv, OneChild
  <2>5. c \in Procs
    BY <1>3, <2>4, ProcsClosed
  <2>6. PICK t \in Kids : Below(Append(c, t), q)
    BY <1>3, <2>1, <2>2, <2>4, ChildOnTheWay
  <2>7. ~Attended(c)
    BY <1>1 DEF Attended
  <2> QED
    BY <2>3, <2>5, <2>6, <2>7, NobodyAlive
<1>10. \A q \in Procs : q # p /\ q # c => Attended(q)' = Attended(q) /\ Over(q)' = Over(q)
  BY <1>1, <1>4, <1>5 DEF Attended, Over, Lost
<1>11. \A q \in Procs, s \in Kids : q # p /\ q # c => Reached(q, s)' = Reached(q, s)
  BY <1>4, <1>5, <1>10 DEF Reached
<1>12. \A s \in Kids : c \in Procs => Reached(c, s)' = Reached(c, s)
  BY <1>1, <1>3, <1>4, <1>5 DEF Reached, Over, Attended
<1>13. OneChild'
  <2> SUFFICES ASSUME NEW a \in Procs, NEW q \in Procs, NEW s \in Kids, Below(Append(a, s), q)
               PROVE  /\ Alive(q)' => s = stage'[a] /\ Attended(a)'
                      /\ pc'[q] # "unborn" => Reached(a, s)'
    BY DEF OneChild, Below
  <2>0. a \in Seq(Kids) /\ q \in Seq(Kids)
    BY ProcFacts
  <2>1. a # q
    BY <2>0, BelowChild
  <2>2. /\ Alive(q) => s = stage[a] /\ Attended(a)
        /\ pc[q] # "unborn" => Reached(a, s)
    BY DEF TreeInv, OneChild
  <2>3. pc'[q] # "unborn" => pc[q] # "unborn"
    BY <1>1, <1>4, <1>7 DEF Alive
  <2>4. Alive(q)' => Alive(q)
    BY <1>4, <1>7 DEF Alive
  <2>5. CASE a = p
    BY <1>8, <1>9, <2>2, <2>3, <2>5
  <2>6. CASE a = c
    <3>1. ~Alive(q)
      BY <1>1, <2>2, <2>6 DEF Attended
    <3> QED
      BY <1>12, <2>2, <2>3, <2>4, <2>6, <3>1
  <2>7. CASE a # p /\ a # c
    BY <1>5, <1>10, <1>11, <2>2, <2>3, <2>4, <2>7
  <2> QED
    BY <2>5, <2>6, <2>7
<1>14. \A q \in Procs : OwnPart(q)'
  <2> SUFFICES ASSUME NEW q \in Procs PROVE OwnPart(q)'
    OBVIOUS
  <2>1. OwnPart(q)
    BY OwnPartOf
  <2>2. CASE q = p
    <3>1. p \in strays => Before(Last(p), stage[p])
      BY <1>1, <2>1, <2>2 DEF OwnPart
    <3>2. p \in strays => Before(Last(p), stage'[p])
      BY <1>5, <3>1 DEF Before
    <3> QED
      BY <1>1, <1>4, <1>5, <2>2, <3>2 DEF OwnPart
  <2>3. CASE q = c
    BY <1>1, <1>3, <1>4, <1>5, <2>1, <2>3 DEF OwnPart
  <2>4. CASE q # p /\ q # c
    BY <1>1, <1>4, <1>5, <2>1, <2>4 DEF OwnPart
  <2> QED
    BY <2>2, <2>3, <2>4
<1>15. StraysGoOn' /\ ForkedAsCopies'
  BY <1>6, <1>14 DEF PcTypes, StraysGoOn, ForkedAsCopies, OwnPart
<1> QED
  BY <1>6, <1>13, <1>15 DEF TreeInv

\* The child a node attends has ended.
Deserted(p) == Child(p) \in Procs /\ pc[Child(p)] \in {"zombie", "orphan", "gone"}

\* What a node that SIGPIPE ends changes: itself, and its child if that waits for
\* it.
LEMMA BrokenPipeFacts ==
    ASSUME PcTypes, NEW p \in Procs, BrokenPipe(p), Deserted(p), NEW c, c = Child(p)
    PROVE  /\ pc[p] = "send" /\ UNCHANGED <<stage, strays>> /\ c \in Procs /\ c # p
           /\ c = Append(p, stage[p]) /\ pc[c] \in {"zombie", "orphan", "gone"}
           /\ PcTypes' /\ pc'[p] \in {"zombie", "gone"} /\ pc'[c] \in {"orphan", "gone"}
           /\ \A q \in Procs : q # p /\ q # c => pc'[q] = pc[q]
<1>1. /\ pc[p] = "send" /\ UNCHANGED <<stage, strays>>
      /\ pc' = [pc EXCEPT ![p] = Ended(p),
                          ![c] = IF @ = "zombie" THEN "orphan" ELSE @]
  BY DEF BrokenPipe, At, programs
<1>2. stage[p] \in Kids /\ p \in Seq(Kids) /\ pc \in [Procs -> Labels]
  BY ProcFacts DEF PcTypes
<1>3. c \in Procs /\ c # p /\ c = Append(p, stage[p]) /\ pc[c] \in {"zombie", "orphan", "gone"}
  BY <1>2, AppendFacts DEF Child, Deserted
<1>4. Ended(p) \in {"zombie", "gone"}
  BY DEF Ended
<1>5. /\ pc'[p] = Ended(p) /\ pc'[c] = IF pc[c] = "zombie" THEN "orphan" ELSE pc[c]
      /\ \A q \in Procs : q # p /\ q # c => pc'[q] = pc[q]
  BY <1>1, <1>2, <1>3
<1>6. pc' \in [Procs -> Labels]
  BY <1>1, <1>2, <1>3, <1>4 DEF Labels
<1> QED
  BY <1>1, <1>3, <1>4, <1>5, <1>6 DEF PcTypes

\* SIGPIPE ends a node when nobody below its child is left; the child goes to
\* init.
LEMMA BrokenPipeKeeps ==
    ASSUME TreeInv, NEW p \in Procs, BrokenPipe(p), Deserted(p), NEW c, c = Child(p)
    PROVE  TreeInv'
<1>1. /\ pc[p] = "send" /\ UNCHANGED <<stage, strays>> /\ c \in Procs /\ c # p
      /\ c = Append(p, stage[p]) /\ pc[c] \in {"zombie", "orphan", "gone"}
      /\ PcTypes' /\ pc'[p] \in {"zombie", "gone"} /\ pc'[c] \in {"orphan", "gone"}
      /\ \A q \in Procs : q # p /\ q # c => pc'[q] = pc[q]
  BY BrokenPipeFacts DEF TreeInv
<1>2. /\ Attended(p) /\ Alive(p) /\ Over(p)' /\ Over(c) /\ Over(c)'
      /\ ~Attended(c) /\ ~Alive(c)'
  BY <1>1 DEF Attended, Alive, Over
<1>3. \A q \in Procs, s \in Kids : Reached(q, s) => Reached(q, s)'
  BY <1>1, <1>2 DEF Reached, Over, Attended, Lost
<1>4. \A q \in Procs : q # p /\ q # c => Attended(q)' = Attended(q)
  BY <1>1 DEF Attended, Lost
<1>5. ASSUME NEW q \in Procs, NEW s \in Kids, Below(Append(p, s), q), q # c
      PROVE  ~Alive(q)
  <2> SUFFICES ASSUME Alive(q) PROVE FALSE
    OBVIOUS
  <2>1. Below(c, q) /\ c \in Seq(Kids) /\ q \in Seq(Kids)
    BY <1>1, <1>5, ProcFacts DEF TreeInv, OneChild
  <2>2. PICK t \in Kids : Below(Append(c, t), q)
    BY <1>5, <2>1, ChildOnTheWay
  <2> QED
    BY <1>1, <1>2, <2>2, NobodyAlive
<1>6. OneChild'
  <2> SUFFICES ASSUME NEW a \in Procs, NEW q \in Procs, NEW s \in Kids, Below(Append(a, s), q)
               PROVE  /\ Alive(q)' => s = stage'[a] /\ Attended(a)'
                      /\ pc'[q] # "unborn" => Reached(a, s)'
    BY DEF OneChild, Below
  <2>1. /\ Alive(q) => s = stage[a] /\ Attended(a)
        /\ pc[q] # "unborn" => Reached(a, s)
    BY DEF TreeInv, OneChild
  <2>2. (pc'[q] # "unborn" => pc[q] # "unborn") /\ (Alive(q)' => Alive(q) /\ q # c)
    BY <1>1, <1>2 DEF Alive
  <2>3. Alive(q)' => a # p /\ a # c
    BY <1>2, <1>5, <2>1, <2>2
  <2> QED
    BY <1>1, <1>3, <1>4, <2>1, <2>2, <2>3
<1>7. \A q \in Procs : OwnPart(q)'
  <2> SUFFICES ASSUME NEW q \in Procs PROVE OwnPart(q)'
    OBVIOUS
  <2>1. OwnPart(q)
    BY OwnPartOf
  <2> QED
    BY <1>1, <2>1 DEF OwnPart
<1>8. StraysGoOn' /\ ForkedAsCopies'
  BY <1>1, <1>7 DEF PcTypes, StraysGoOn, ForkedAsCopies, OwnPart
<1> QED
  BY <1>1, <1>6, <1>8 DEF TreeInv

LEMMA TreeStep ==
    ASSUME TreeInv, [Next]_vars, \A p \in Procs : BrokenPipe(p) => Deserted(p)
    PROVE  TreeInv'
<1>1. CASE UNCHANGED vars
  BY <1>1
  DEF vars, programs, TreeInv, PcTypes, OneChild, StraysGoOn, ForkedAsCopies, Alive, Attended,
      Reached, Over, Lost
<1>2. CASE \E p \in Procs : NodeStep(p)
  BY <1>2, ReadNum1Keeps, ForkKeeps, AttendingKeeps, BrokenPipeKeeps, WaitKeeps, GoOnLostKeeps
  DEF NodeStep
<1>3. CASE \E p \in Procs : \/ RunProgram(p) \/ Redirect(p) \/ CloseAndExec(p)
                            \/ Deliver(p) \/ Exit(p) \/ ForkFails(p) \/ InitReaps(p)
  BY <1>3, RunProgramKeeps, RedirectKeeps, CloseAndExecKeeps, ForkFailsKeeps
<1> QED
  BY <1>1, <1>2, <1>3 DEF Next, Step, Done

LEMMA TreeInit == Init => TreeInv
<1> SUFFICES ASSUME Init PROVE TreeInv
  OBVIOUS
<1>1. PcTypes
  BY DEF Init, PcTypes, Labels, Kids
<1>2. \A q \in Procs : q # Root => pc[q] = "unborn"
  BY DEF Init
<1>3. OneChild
  <2> SUFFICES ASSUME NEW p \in Procs, NEW q \in Procs, NEW s \in Kids, Below(Append(p, s), q)
               PROVE  pc[q] = "unborn"
    BY DEF OneChild, Alive
  <2>1. q # Root
    BY ProcFacts, BelowChild
  <2> QED
    BY <1>2, <2>1
<1>4. StraysGoOn /\ ForkedAsCopies
  BY DEF Init, StraysGoOn, ForkedAsCopies
<1> QED
  BY <1>1, <1>3, <1>4 DEF TreeInv

-----------------------------------------------------------------------------
(* The depth of a process: the number of its ancestors, and itself, that did *)
(* start.                                                                    *)

Started(p) == {i \in DOMAIN p : SubSeq(p, 1, i) \notin strays}

LEMMA PrefixFacts ==
    ASSUME NEW p \in Seq(Kids), NEW i \in 1..Len(p)
    PROVE  /\ SubSeq(p, 1, i) \in Seq(Kids) /\ Len(SubSeq(p, 1, i)) = i
           /\ Last(SubSeq(p, 1, i)) = p[i]
           /\ Below(SubSeq(p, 1, i), p)
<1>1. Len(p) \in Nat /\ i \in Nat /\ 1 <= i /\ i <= Len(p) /\ \A j \in 1..i : p[j] \in Kids
  BY ElementOfSeq
<1> DEFINE r == SubSeq(p, 1, i)
<1>2. /\ r \in Seq(Kids) /\ Len(r) = IF 1 <= i THEN i - 1 + 1 ELSE 0
      /\ \A j \in 1..(i - 1 + 1) : r[j] = p[1 + j - 1]
  BY <1>1, SubSeqProperties
<1> HIDE DEF r
<1>3. i - 1 + 1 = i /\ \A j \in 1..i : 1 + j - 1 = j
  BY <1>1
<1>4. r \in Seq(Kids) /\ Len(r) = i /\ \A j \in 1..i : r[j] = p[j]
  BY <1>1, <1>2, <1>3
<1>5. Last(r) = p[i]
  BY <1>1, <1>4 DEF Last
<1>6. Below(r, p)
  BY <1>1, <1>4, BelowMeans
<1> QED
  BY <1>4, <1>5, <1>6 DEF r

LEMMA StartedFacts ==
    ASSUME NEW p \in Seq(Kids)
    PROVE  /\ IsFiniteSet(Started(p)) /\ Started(p) \subseteq 1..Len(p)
           /\ Depth(p) = Cardinality(Started(p)) /\ Depth(p) \in Nat
<1>1. DOMAIN p = 1..Len(p) /\ Len(p) \in Nat
  BY LenProperties
<1>2. Started(p) \in SUBSET (1..Len(p))
  BY <1>1 DEF Started
<1>3. IsFiniteSet(1..Len(p))
  BY <1>1, FS_Interval
<1>4. IsFiniteSet(Started(p))
  BY <1>2, <1>3, FS_Subset
<1>5. Depth(p) = Cardinality(Started(p))
  BY DEF Depth, Started
<1> QED
  BY <1>2, <1>4, <1>5, FS_CardinalityType

LEMMA DepthOfRoot == Depth(Root) = 0
<1>1. Root \in Seq(Kids) /\ Len(Root) = 0
  BY EmptySeq DEF Root
<1>2. Started(Root) = {}
  <2>1. Started(Root) \subseteq 1..0
    BY <1>1, StartedFacts
  <2> QED
    BY <2>1
<1> QED
  BY <1>1, <1>2, StartedFacts, FS_EmptySet

\* A child is one deeper than its parent, a stray copy is not.
LEMMA DepthOfChild ==
    ASSUME NEW p \in Seq(Kids), NEW s \in Kids
    PROVE  Depth(Append(p, s)) = IF Append(p, s) \in strays THEN Depth(p) ELSE Depth(p) + 1
<1> DEFINE c == Append(p, s)
           n == Len(p) + 1
<1>1. /\ c \in Seq(Kids) /\ Len(c) = n /\ Len(p) \in Nat
      /\ DOMAIN c = 1..n /\ DOMAIN p = 1..Len(p)
      /\ \A j \in 1..Len(p) : c[j] = p[j]
  BY AppendFacts, LenProperties
<1>2. SubSeq(c, 1, n) = c
  BY <1>1, SubSeqFull
<1>3. \A i \in 1..Len(p) : SubSeq(c, 1, i) = SubSeq(p, 1, i)
  <2> SUFFICES ASSUME NEW i \in 1..Len(p) PROVE SubSeq(c, 1, i) = SubSeq(p, 1, i)
    OBVIOUS
  <2> DEFINE a == SubSeq(c, 1, i)
             b == SubSeq(p, 1, i)
  <2> HIDE DEF c
  <2>1. i \in 1..Len(c)
    BY <1>1
  <2>2. /\ a \in Seq(Kids) /\ Len(a) = i /\ Below(a, c)
        /\ b \in Seq(Kids) /\ Len(b) = i /\ Below(b, p)
    BY <1>1, <2>1, PrefixFacts
  <2> HIDE DEF a, b
  <2>3. \A j \in 1..i : a[j] = c[j] /\ b[j] = p[j] /\ j \in 1..Len(p)
    <3>1. /\ \A j \in 1..Len(a) : a[j] = c[j]
          /\ \A j \in 1..Len(b) : b[j] = p[j]
      BY <1>1, <2>2, BelowMeans
    <3>2. \A j \in 1..i : j \in 1..Len(p)
      BY <1>1
    <3> QED
      BY <2>2, <3>1, <3>2
  <2>4. \A j \in 1..Len(a) : a[j] = b[j]
    BY <1>1, <2>2, <2>3
  <2>5. a = b
    BY <2>2, <2>4, SeqEqual
  <2> QED
    BY <2>5 DEF a, b
<1> HIDE DEF c
<1>4. n \notin Started(p) /\ IsFiniteSet(Started(p))
  BY <1>1, StartedFacts
<1>5. \A i : i \in 1..n <=> i \in 1..Len(p) \/ i = n
  BY <1>1
<1> HIDE DEF n
<1>6. Started(c) = Started(p) \cup (IF c \in strays THEN {} ELSE {n})
  <2>1. ASSUME NEW i PROVE i \in Started(c) <=> i \in Started(p) \/ (i = n /\ c \notin strays)
    <3>1. i \in Started(c) <=> i \in 1..n /\ SubSeq(c, 1, i) \notin strays
      BY <1>1 DEF Started
    <3>2. i \in Started(p) <=> i \in 1..Len(p) /\ SubSeq(p, 1, i) \notin strays
      BY <1>1 DEF Started
    <3>3. n \notin 1..Len(p)
      BY <1>1 DEF n
    <3> QED
      BY <1>2, <1>3, <1>5, <3>1, <3>2, <3>3
  <2> QED
    BY <2>1
<1>7. CASE c \in strays
  <2>1. Started(c) = Started(p)
    BY <1>6, <1>7
  <2> QED
    BY <1>1, <1>7, <2>1, StartedFacts DEF c
<1>8. CASE c \notin strays
  <2>1. Started(c) = Started(p) \cup {n}
    BY <1>6, <1>8
  <2>2. Cardinality(Started(c)) = Cardinality(Started(p)) + 1
    BY <1>4, <2>1, FS_AddElement
  <2> QED
    BY <1>1, <1>8, <2>2, StartedFacts DEF c
<1> QED
  BY <1>7, <1>8

\* A new stray copy changes the depths below it only.
LEMMA DepthStays ==
    ASSUME NEW p \in Seq(Kids), NEW c, strays' = strays \cup {c}, ~Below(c, p)
    PROVE  Depth(p)' = Depth(p)
<1>1. DOMAIN p = 1..Len(p)
  BY LenProperties
<1>2. \A i \in DOMAIN p : SubSeq(p, 1, i) # c
  BY <1>1, PrefixFacts
<1>3. \A i \in DOMAIN p : SubSeq(p, 1, i) \notin strays' <=> SubSeq(p, 1, i) \notin strays
  BY <1>2
<1>4. Started(p)' = Started(p)
  BY <1>3 DEF Started
<1> QED
  BY <1>4 DEF Depth, Started

LEMMA DepthIsLength ==
    ASSUME NEW p \in Seq(Kids), strays = {}
    PROVE  Depth(p) = Len(p)
<1>1. DOMAIN p = 1..Len(p) /\ Len(p) \in Nat
  BY LenProperties
<1>2. Started(p) = 1..Len(p)
  BY <1>1 DEF Started
<1>3. Cardinality(1..Len(p)) = IF 1 > Len(p) THEN 0 ELSE Len(p) - 1 + 1
  BY <1>1, FS_Interval
<1> QED
  BY <1>1, <1>2, <1>3, StartedFacts

\* If only the programs of nodes are missing, at most every second process on a
\* path is a stray copy.
LEMMA DepthIsHalf ==
    ASSUME NEW p \in Procs, \A c \in strays : Last(c) = "own"
    PROVE  /\ Len(p) <= 2 * Depth(p) + 1
           /\ ~(p # Root /\ Last(p) = "own") => Len(p) <= 2 * Depth(p)
<1>1. /\ p \in Seq(Kids) /\ Len(p) \in Nat /\ DOMAIN p = 1..Len(p)
      /\ \A i \in 1..(Len(p) - 1) : p[i] = "own" => p[i + 1] = "right"
  BY ProcFacts, LenProperties
<1> DEFINE n == Len(p)
           Others == {i \in 1..n : p[i] # "own"}
           Owns == {i \in 1..n : p[i] = "own"}
           Inner == {i \in 1..n : p[i] = "own" /\ i < n}
<1>2. /\ IsFiniteSet(1..n) /\ Cardinality(1..n) = n
      /\ Others \in SUBSET (1..n) /\ Owns \in SUBSET (1..n) /\ Inner \in SUBSET (1..n)
  <2>1. Others \in SUBSET (1..n) /\ Owns \in SUBSET (1..n) /\ Inner \in SUBSET (1..n)
    OBVIOUS
  <2>2. n \in Nat
    BY <1>1
  <2> HIDE DEF n
  <2>3. IsFiniteSet(1..n) /\ Cardinality(1..n) = IF 1 > n THEN 0 ELSE n - 1 + 1
    BY <2>2, FS_Interval
  <2>4. Cardinality(1..n) = n
    BY <2>2, <2>3
  <2> QED
    BY <2>1, <2>3, <2>4
<1>3. IsFiniteSet(Others) /\ IsFiniteSet(Owns) /\ IsFiniteSet(Inner)
  BY <1>2, FS_Subset
<1>4. /\ Cardinality(Others) \in Nat /\ Cardinality(Owns) \in Nat /\ Cardinality(Inner) \in Nat
  BY <1>3, FS_CardinalityType
<1>5. Cardinality(Others) + Cardinality(Owns) = n
  <2>1. Others \cup Owns = 1..n /\ Others \cap Owns = {}
    OBVIOUS
  <2>2. Cardinality(Others \cup Owns) =
          Cardinality(Others) + Cardinality(Owns) - Cardinality(Others \cap Owns)
    BY <1>3, FS_Union
  <2>3. Cardinality(Others \cap Owns) = 0
    BY <2>1, FS_EmptySet
  <2>4. Cardinality(Others \cup Owns) = n
    BY <1>2, <2>1
  <2> HIDE DEF Others, Owns, n
  <2> QED
    BY <1>4, <2>2, <2>3, <2>4
<1>6. Cardinality(Others) <= Depth(p)
  <2>1. Others \in SUBSET Started(p)
    <3> SUFFICES ASSUME NEW i \in Others PROVE i \in Started(p)
      OBVIOUS
    <3>1. i \in 1..Len(p) /\ Last(SubSeq(p, 1, i)) = p[i] /\ p[i] # "own"
      BY <1>1, PrefixFacts
    <3>2. SubSeq(p, 1, i) \notin strays
      BY <3>1
    <3> QED
      BY <1>1, <3>1, <3>2 DEF Started
  <2>2. IsFiniteSet(Started(p)) /\ Depth(p) = Cardinality(Started(p))
    BY <1>1, StartedFacts
  <2> QED
    BY <2>1, <2>2, FS_Subset
<1>7. Cardinality(Inner) <= Cardinality(Others)
  <2> DEFINE f == [i \in Inner |-> i + 1]
  <2>1. f \in [Inner -> Others]
    <3> SUFFICES ASSUME NEW i \in Inner PROVE i + 1 \in Others
      OBVIOUS
    <3>1. i \in 1..(Len(p) - 1) /\ p[i] = "own" /\ i + 1 \in 1..n
      BY <1>1
    <3> QED
      BY <1>1, <3>1
  <2>2. \A i, j \in Inner : f[i] = f[j] => i = j
    <3>1. \A i \in Inner : i \in Int /\ f[i] = i + 1
      BY <1>1
    <3> QED
      BY <3>1
  <2> HIDE DEF f, Inner, Others
  <2>3. ~(Cardinality(Others) < Cardinality(Inner))
    BY <1>3, <2>1, <2>2, FS_PigeonHole
  <2> QED
    BY <1>4, <2>3
<1>8. CASE p # Root /\ Last(p) = "own"
  <2>1. n \in 1..n /\ p[n] = "own"
    BY <1>1, <1>8, EmptySeq DEF Last, Root
  <2>2. Owns = Inner \cup {n} /\ n \notin Inner
    BY <1>1, <2>1
  <2>3. Cardinality(Owns) = Cardinality(Inner) + 1
    BY <1>3, <2>2, FS_AddElement
  <2> HIDE DEF Others, Owns, Inner
  <2> QED
    BY <1>1, <1>4, <1>5, <1>6, <1>7, <1>8, <2>3, StartedFacts
<1>9. CASE ~(p # Root /\ Last(p) = "own")
  <2>1. n = 0 \/ p[n] # "own"
    BY <1>1, <1>9, EmptySeq DEF Last, Root
  <2>2. Owns = Inner
    BY <1>1, <2>1
  <2> HIDE DEF Others, Owns, Inner
  <2> QED
    BY <1>1, <1>4, <1>5, <1>6, <1>7, <2>2, StartedFacts
<1> QED
  BY <1>8, <1>9

-----------------------------------------------------------------------------
(* Every child that is forked is a member of Procs: the bound on the paths   *)
(* hides no process.                                                         *)

Born(p) == pc[p] # "unborn"

Busy == {"fork", "closeTheirs", "send", "closeTo", "receive", "wait"}

\* A program forks nobody, a leaf forks no subtree, no node is deeper than the
\* argument <max depth>, and the stray copies are those of missing programs.
RoomOf(p) ==
    /\ IsProgram(p) => pc[p] \notin Busy
    /\ (pc[p] = "fork" \/ Attended(p)) /\ stage[p] # "own" => ~IsLeaf(p)
    /\ Born(p) /\ ~IsProgram(p) => Depth(p) <= maxDepth
    /\ p \in strays => missing # {} /\ (Last(p) # "own" => "treePipe" \in missing)
    /\ "treePipe" \in missing /\ p # Root /\ Born(p) =>
         /\ Last(p) = "left" => Len(p) = 1
         /\ Last(p) = "own" => Len(p) <= 2
         /\ Last(p) # "own" /\ pc[p] \notin {"redirect", "close"} => p \in strays
    /\ Attended(p) => Child(p) \in Procs /\ Born(Child(p))

ArgumentsOK ==
    /\ maxDepth \in 0..MaxDepth
    /\ missing # {} => 2 * maxDepth <= MaxDepth

RoomInv == ArgumentsOK /\ \A p \in Procs : RoomOf(p)

LEMMA AppendInProcs ==
    ASSUME NEW p \in Procs, NEW s \in Kids, Len(p) <= MaxDepth,
           p # Root /\ Last(p) = "own" => s = "right"
    PROVE  Append(p, s) \in Procs
<1> DEFINE c == Append(p, s)
           n == Len(p)
<1>1. /\ p \in Seq(Kids) /\ n \in Nat /\ c \in Seq(Kids) /\ Len(c) = n + 1
      /\ \A i \in 1..n : c[i] = p[i]
      /\ c[n + 1] = s
      /\ \A i \in 1..(n - 1) : p[i] = "own" => p[i + 1] = "right"
  BY ProcFacts, AppendFacts
<1>2. n # 0 => p # Root /\ p[n] = Last(p)
  BY <1>1, EmptySeq DEF Root, Last
<1>3. n <= MaxDepth
  OBVIOUS
<1> HIDE DEF c, n
<1>4. Len(c) \in 0..(MaxDepth + 1) /\ c \in [1..Len(c) -> Kids]
  BY <1>1, <1>3, TreeAssumption, LenProperties
<1>5. c \in BoundedSeq(Kids, MaxDepth + 1)
  BY <1>4 DEF BoundedSeq, SeqOf
<1>6. \A i \in 1..(Len(c) - 1) : c[i] = "own" => c[i + 1] = "right"
  <2> SUFFICES ASSUME NEW i \in 1..n, c[i] = "own" PROVE c[i + 1] = "right"
    BY <1>1
  <2>1. CASE i = n
    BY <1>1, <1>2, <2>1
  <2>2. CASE i # n
    BY <1>1, <2>2
  <2> QED
    BY <2>1, <2>2
<1> QED
  BY <1>5, <1>6 DEF Procs, Kids, c

\* Where a process can fork there is room for its child.
LEMMA ThereIsRoom ==
    ASSUME TreeInv, RoomInv, NEW p \in Procs, pc[p] = "fork"
    PROVE  Child(p) \in Procs
<1>1. /\ p \in Seq(Kids) /\ Len(p) \in Nat /\ Depth(p) \in Nat /\ stage[p] \in Kids
      /\ maxDepth \in Nat /\ MaxDepth \in Nat /\ maxDepth <= MaxDepth
      /\ missing # {} => 2 * maxDepth <= MaxDepth
  BY ProcFacts, StartedFacts, TreeAssumption DEF TreeInv, PcTypes, RoomInv, ArgumentsOK
<1>2. /\ ~IsProgram(p) /\ Depth(p) <= maxDepth
      /\ stage[p] # "own" => Depth(p) # maxDepth
  BY DEF RoomInv, RoomOf, Busy, Born, IsLeaf
<1>3. p \in strays => Before(Last(p), stage[p])
  BY OwnPartOf DEF OwnPart
<1>4. p # Root /\ Last(p) = "own" => p \in strays /\ stage[p] = "right"
  BY <1>2, <1>3 DEF IsProgram, Before
<1>5. CASE missing = {}
  <2>1. strays = {}
    BY <1>5 DEF RoomInv, RoomOf, TreeInv, PcTypes
  <2>2. Len(p) <= MaxDepth
    BY <1>1, <1>2, <2>1, DepthIsLength
  <2> QED
    BY <1>1, <1>4, <2>2, AppendInProcs DEF Child
<1>6. CASE missing # {} /\ "treePipe" \notin missing
  <2>1. \A c \in strays : Last(c) = "own"
    BY <1>6 DEF RoomInv, RoomOf, TreeInv, PcTypes
  <2>2. /\ Len(p) <= 2 * Depth(p) + 1
        /\ ~(p # Root /\ Last(p) = "own") => Len(p) <= 2 * Depth(p)
    BY <2>1, DepthIsHalf
  <2>3. Len(p) <= MaxDepth
    BY <1>1, <1>2, <1>4, <1>6, <2>2
  <2> QED
    BY <1>1, <1>4, <2>3, AppendInProcs DEF Child
<1>7. CASE "treePipe" \in missing
  <2>1. CASE p = Root
    <3>1. Len(p) <= MaxDepth
      BY <1>1, <2>1, EmptySeq DEF Root
    <3> QED
      BY <1>1, <1>4, <3>1, AppendInProcs DEF Child
  <2>2. CASE p # Root
    <3>1. /\ p \in strays
          /\ Last(p) = "left" => Len(p) = 1
          /\ Last(p) = "own" => Len(p) <= 2
      BY <1>4, <1>7, <2>2 DEF RoomInv, RoomOf, Born
    <3>2. Last(p) = "left" \/ (Last(p) = "own" /\ stage[p] = "right")
      BY <1>3, <3>1 DEF Before
    <3>3. maxDepth > 0
      <4>1. CASE stage[p] # "own"
        BY <1>1, <1>2, <4>1
      <4>2. CASE stage[p] = "own"
        <5> DEFINE f == Front(p)
        <5>1. f \in Procs /\ p = Append(f, "left") /\ Last(p) = "left"
          BY <2>2, <3>2, <4>2, ParentFacts
        <5> HIDE DEF f
        <5>2. Below(Append(f, "left"), p) /\ Alive(p)
          BY <1>1, <5>1, BelowItself DEF Alive
        <5>3. stage[f] = "left" /\ Attended(f)
          BY <5>1, <5>2 DEF TreeInv, OneChild, Kids
        <5>4. Born(f) /\ pc[f] \in Busy
          BY <5>3 DEF Attended, Born, Busy
        <5>5. Depth(f) <= maxDepth /\ Depth(f) # maxDepth
          BY <5>1, <5>3, <5>4 DEF RoomInv, RoomOf, IsLeaf
        <5>6. Depth(f) \in Nat
          BY <5>1, ProcFacts, StartedFacts
        <5> QED
          BY <1>1, <5>5, <5>6
      <4> QED
        BY <4>1, <4>2
    <3>4. Len(p) <= MaxDepth
      <4>1. missing # {}
        BY <1>7
      <4>2. MaxDepth >= 2
        BY <1>1, <3>3, <4>1
      <4>3. Len(p) <= 2
        <5>1. CASE Last(p) = "left"
          <6>1. Len(p) = 1
            BY <3>1, <5>1
          <6> QED
            BY <6>1
        <5>2. CASE Last(p) = "own"
          BY <3>1, <5>2
        <5> QED
          BY <3>2, <5>1, <5>2
      <4> QED
        BY <1>1, <4>2, <4>3
    <3> QED
      BY <1>1, <1>4, <3>4, AppendInProcs DEF Child
  <2> QED
    BY <2>1, <2>2
<1> QED
  BY <1>5, <1>6, <1>7

LEMMA SameArguments ==
    ASSUME RoomInv, UNCHANGED arguments
    PROVE  ArgumentsOK'
BY DEF RoomInv, ArgumentsOK, arguments

\* Who stays where it is keeps its room while nobody becomes a stray copy.
LEMMA RoomElsewhere ==
    ASSUME RoomInv, UNCHANGED <<arguments, strays>>, \A r \in Procs : Born(r) => Born(r)',
           NEW q \in Procs, pc'[q] = pc[q], stage'[q] = stage[q]
    PROVE  RoomOf(q)'
<1>1. Child(q)' = Child(q) /\ Attended(q)' = Attended(q)
  BY DEF Child, Attended, Lost
<1>2. Attended(q) => Child(q) \in Procs /\ pc'[Child(q)] # "unborn"
  BY DEF RoomInv, RoomOf, Born
<1>3. /\ IsProgram(q)' = IsProgram(q) /\ IsLeaf(q)' = IsLeaf(q) /\ Depth(q)' = Depth(q)
      /\ maxDepth' = maxDepth /\ missing' = missing /\ strays' = strays
  BY DEF IsProgram, IsLeaf, Depth, arguments
<1> QED
  BY <1>1, <1>2, <1>3 DEF RoomInv, RoomOf, Born

\* A step of one process that makes no stray copy.
LEMMA RoomStep ==
    ASSUME TreeInv, RoomInv, NEW p \in Procs, OthersStay(p), Born(p)', RoomOf(p)',
           UNCHANGED <<arguments, strays>>
    PROVE  RoomInv'
<1>1. \A q \in Procs : Born(q) => Born(q)'
  BY DEF OthersStay, Born
<1>2. \A q \in Procs : q # p => RoomOf(q)'
  BY <1>1, RoomElsewhere DEF OthersStay
<1> QED
  BY <1>2, SameArguments DEF RoomInv

\* A process that is not a program takes a step without a child.
LEMMA RoomAlone ==
    ASSUME TreeInv, RoomInv, NEW p \in Procs, OthersStay(p), ~Attended(p)', Born(p)', Born(p),
           pc'[p] \in Busy => ~IsProgram(p),
           pc'[p] = "fork" /\ stage'[p] # "own" => ~IsLeaf(p),
           pc[p] \in {"redirect", "close"} =>
               \/ pc'[p] \in {"redirect", "close"}
               \/ "treePipe" \in missing => Last(p) = "own",
           UNCHANGED <<arguments, strays>>
    PROVE  RoomInv'
<1>1. /\ IsProgram(p)' = IsProgram(p) /\ IsLeaf(p)' = IsLeaf(p) /\ Depth(p)' = Depth(p)
      /\ maxDepth' = maxDepth /\ missing' = missing /\ strays' = strays
  BY DEF IsProgram, IsLeaf, Depth, arguments
<1>2. RoomOf(p)'
  BY <1>1 DEF RoomInv, RoomOf, Born
<1> QED
  BY <1>2, RoomStep

\* A node goes on with the child it attends.
LEMMA RoomWithChild ==
    ASSUME TreeInv, RoomInv, NEW p \in Procs, OthersStay(p), stage'[p] = stage[p],
           Attended(p), Attended(p)', UNCHANGED <<arguments, strays>>
    PROVE  RoomInv'
<1>1. /\ IsProgram(p)' = IsProgram(p) /\ IsLeaf(p)' = IsLeaf(p) /\ Depth(p)' = Depth(p)
      /\ maxDepth' = maxDepth /\ missing' = missing /\ strays' = strays
      /\ Child(p)' = Child(p)
  BY DEF IsProgram, IsLeaf, Depth, arguments, Child
<1>2. pc[p] \in Busy /\ pc'[p] \in Busy /\ Born(p) /\ Born(p)'
  BY DEF Attended, Busy, Born
<1>3. \A q \in Procs : Born(q) => Born(q)'
  BY <1>2 DEF OthersStay, Born
<1>4. Child(p) \in Procs /\ Born(Child(p))'
  <2>1. Child(p) \in Procs /\ pc'[Child(p)] # "unborn"
    BY <1>3 DEF RoomInv, RoomOf, Born
  <2> QED
    BY <1>1, <2>1 DEF Born
<1>5. pc[p] \notin {"redirect", "close"}
  BY <1>2 DEF Busy
<1>6. RoomOf(p)'
  BY <1>1, <1>2, <1>4, <1>5 DEF RoomInv, RoomOf
<1> QED
  BY <1>2, <1>6, RoomStep

\* A leaf goes to no subtree.
LEMMA NextStageLeaf ==
    ASSUME PcTypes, NEW p \in Procs, NextStage(p), Following(p) = "fork", stage'[p] # "own"
    PROVE  ~IsLeaf(p)
<1>1. ~LastStage(p)
  BY DEF Following
<1>2. stage'[p] = IF stage[p] = "left" THEN "own" ELSE "right"
  BY <1>1 DEF PcTypes, NextStage
<1> QED
  BY <1>1, <1>2 DEF LastStage, PcTypes, Kids

LEMMA ReadNum1Room ==
    ASSUME TreeInv, RoomInv, NEW p \in Procs, ~IsProgram(p), ReadNum1(p)
    PROVE  RoomInv'
<1>1. /\ pc[p] = "input" /\ Goto(p, "fork") /\ UNCHANGED <<arguments, strays>>
      /\ stage' = [stage EXCEPT ![p] = IF IsLeaf(p) THEN "own" ELSE "left"]
  BY DEF ReadNum1, At, programs
<1>2. PcTypes /\ stage \in [Procs -> Kids]
  BY DEF TreeInv, PcTypes
<1>3. pc'[p] = "fork" /\ \A q \in Procs : q # p => pc'[q] = pc[q]
  BY <1>1, <1>2, GotoFacts DEF Labels
<1>4. OthersStay(p) /\ (stage'[p] # "own" => ~IsLeaf(p))
  BY <1>1, <1>2, <1>3 DEF OthersStay
<1>5. Born(p) /\ Born(p)' /\ ~Attended(p)'
  BY <1>1, <1>3 DEF Born, Attended
<1> QED
  BY <1>1, <1>3, <1>4, <1>5, RoomAlone

LEMMA IdleRoom ==
    ASSUME TreeInv, RoomInv, NEW p \in Procs, ForkFails(p) \/ Deliver(p) \/ Exit(p) \/ InitReaps(p)
    PROVE  RoomInv'
<1>1. PICK l \in {"exit", "zombie", "gone"} : Goto(p, l)
  BY DEF ForkFails, Deliver, Exit, InitReaps, Ended
<1>2. /\ pc[p] \in {"fork", "deliver", "exit", "orphan"}
      /\ UNCHANGED <<stage, arguments, strays>>
  BY DEF ForkFails, Deliver, Exit, InitReaps, At, programs
<1>3. pc'[p] = l /\ OthersStay(p)
  <2>1. PcTypes /\ l \in Labels
    BY DEF TreeInv, Labels
  <2> QED
    BY <1>1, <1>2, <2>1, GotoFacts DEF OthersStay
<1>4. Born(p) /\ Born(p)' /\ ~Attended(p)' /\ pc'[p] \notin Busy
  BY <1>2, <1>3 DEF Born, Attended, Busy
<1> QED
  BY <1>2, <1>3, <1>4, RoomAlone

LEMMA RedirectRoom ==
    ASSUME TreeInv, RoomInv, NEW c \in Procs, Redirect(c)
    PROVE  RoomInv'
<1>1. pc[c] = "redirect" /\ Goto(c, "close") /\ UNCHANGED <<stage, arguments, strays>>
  BY DEF Redirect, At, programs
<1>2. pc'[c] = "close" /\ OthersStay(c)
  <2>1. PcTypes /\ "close" \in Labels
    BY DEF TreeInv, Labels
  <2> QED
    BY <1>1, <2>1, GotoFacts DEF OthersStay
<1>3. Born(c) /\ Born(c)' /\ ~Attended(c)' /\ pc'[c] \notin Busy
  BY <1>1, <1>2 DEF Born, Attended, Busy
<1> QED
  BY <1>1, <1>2, <1>3, RoomAlone

LEMMA RunProgramRoom ==
    ASSUME TreeInv, RoomInv, NEW w \in Procs, RunProgram(w)
    PROVE  RoomInv'
<1>1. pc[w] = "input" /\ Goto(w, "deliver") /\ UNCHANGED <<stage, arguments, strays>>
  BY DEF RunProgram, At, programs
<1>2. pc'[w] = "deliver" /\ OthersStay(w)
  <2>1. PcTypes /\ "deliver" \in Labels
    BY DEF TreeInv, Labels
  <2> QED
    BY <1>1, <2>1, GotoFacts DEF OthersStay
<1>3. Born(w) /\ Born(w)' /\ ~Attended(w)' /\ pc'[w] \notin Busy
  BY <1>1, <1>2 DEF Born, Attended, Busy
<1> QED
  BY <1>1, <1>2, <1>3, RoomAlone

LEMMA GoOnLostRoom ==
    ASSUME TreeInv, RoomInv, NEW c \in Procs, GoOnLost(c)
    PROVE  RoomInv'
<1>1. /\ pc[c] = "closeTheirs" /\ Lost(c) /\ NextStage(c) /\ Goto(c, Following(c))
      /\ UNCHANGED <<arguments, strays>>
  BY DEF GoOnLost, At, programs
<1>2. PcTypes /\ Following(c) \in {"deliver", "fork"} /\ {"deliver", "fork"} \subseteq Labels
  BY DEF TreeInv, Following, Labels
<1>3. pc'[c] = Following(c) /\ OthersStay(c)
  BY <1>1, <1>2, GotoFacts, NextStageFacts DEF OthersStay
<1>4. Born(c) /\ Born(c)' /\ ~Attended(c)'
  BY <1>1, <1>2, <1>3 DEF Born, Attended
<1>5. ~IsProgram(c)
  BY <1>1 DEF Lost, IsProgram
<1>6. pc'[c] = "fork" /\ stage'[c] # "own" => ~IsLeaf(c)
  BY <1>1, <1>2, <1>3, NextStageLeaf
<1> QED
  BY <1>1, <1>3, <1>4, <1>5, <1>6, RoomAlone

LEMMA AttendingRoom ==
    ASSUME TreeInv, RoomInv, NEW p \in Procs, CloseTheirs(p) \/ Send(p) \/ CloseTo(p) \/ Receive(p)
    PROVE  RoomInv'
<1>1. PICK l \in {"send", "closeTo", "receive", "wait"} : Goto(p, l)
  BY DEF CloseTheirs, Send, CloseTo, Receive
<1>2. Attended(p) /\ UNCHANGED <<stage, arguments, strays>>
  BY DEF CloseTheirs, Send, CloseTo, Receive, At, Attended, programs
<1>3. pc'[p] = l /\ OthersStay(p)
  <2>1. PcTypes /\ l \in Labels
    BY DEF TreeInv, Labels
  <2> QED
    BY <1>1, <1>2, <2>1, GotoFacts DEF OthersStay
<1>4. Attended(p)'
  BY <1>3 DEF Attended
<1> QED
  BY <1>2, <1>3, <1>4, RoomWithChild

\* A child starts one deeper than its parent, and gets no subtrees below a stray
\* copy of a program.
LEMMA ForkRoom ==
    ASSUME TreeInv, RoomInv, NEW p \in Procs, Fork(p), NEW c, c = Child(p)
    PROVE  RoomInv'
<1>1. /\ pc[p] = "fork" /\ pc' = [pc EXCEPT ![p] = "closeTheirs", ![c] = "redirect"]
      /\ stage' = [stage EXCEPT ![c] = stage[p]] /\ UNCHANGED <<arguments, strays>>
  BY DEF Fork, At, programs
<1>2. c \in Procs /\ p \in Procs
  BY <1>1, ThereIsRoom
<1>3. /\ p \in Seq(Kids) /\ c \in Seq(Kids) /\ Len(p) \in Nat /\ Depth(p) \in Nat
      /\ stage[p] \in Kids /\ c = Append(p, stage[p]) /\ c # p /\ c # Root
      /\ Last(c) = stage[p] /\ Len(c) = Len(p) + 1
      /\ pc \in [Procs -> Labels] /\ stage \in [Procs -> Kids] /\ maxDepth \in Nat
  BY ProcFacts, AppendFacts, StartedFacts, TreeAssumption
  DEF Child, TreeInv, PcTypes, RoomInv, ArgumentsOK
<1>4. /\ pc'[p] = "closeTheirs" /\ pc'[c] = "redirect" /\ stage'[p] = stage[p]
      /\ \A q \in Procs : q # p /\ q # c => pc'[q] = pc[q] /\ stage'[q] = stage[q]
  BY <1>1, <1>2, <1>3
<1>5. /\ ~Attended(p) /\ ~IsProgram(p) /\ Depth(p) <= maxDepth
      /\ stage[p] # "own" => Depth(p) # maxDepth
      /\ "treePipe" \in missing /\ p # Root /\ Last(p) # "own" => p \in strays
      /\ "treePipe" \in missing /\ p # Root /\ Last(p) = "left" => Len(p) = 1
  BY <1>1 DEF RoomInv, RoomOf, Busy, Born, IsLeaf, Attended
<1>6. p \in strays => Before(Last(p), stage[p])
  BY <1>1, OwnPartOf DEF OwnPart
<1>7. c \notin strays
  <2>1. pc[c] = "unborn"
    <3>1. Below(c, c)
      BY <1>3, BelowItself
    <3>2. ~Reached(p, stage[p])
      BY <1>1, <1>3 DEF Reached, Attended, Over, Before
    <3> QED
      BY <1>2, <1>3, <3>1, <3>2 DEF TreeInv, OneChild
  <2> QED
    BY <1>2, <2>1, OwnPartOf DEF OwnPart
<1>8. Depth(c) = Depth(p) + 1
  BY <1>3, <1>7, DepthOfChild
<1>9. /\ maxDepth' = maxDepth /\ missing' = missing /\ strays' = strays
      /\ \A q \in Procs : /\ IsProgram(q)' = IsProgram(q) /\ IsLeaf(q)' = IsLeaf(q)
                          /\ Depth(q)' = Depth(q)
  BY <1>1 DEF arguments, IsProgram, IsLeaf, Depth
<1>10. RoomOf(c)'
  <2>1. ~IsProgram(c) => Depth(c) <= maxDepth
    <3>1. ~IsProgram(c) => stage[p] # "own"
      BY <1>3, <1>7 DEF IsProgram
    <3> QED
      BY <1>3, <1>5, <1>8, <3>1
  <2>2. "treePipe" \in missing => /\ Last(c) = "left" => Len(c) = 1
                                  /\ Last(c) = "own" => Len(c) <= 2
    <3>1. CASE p = Root
      <4>1. Len(p) = 0
        BY <3>1, EmptySeq DEF Root
      <4> QED
        BY <1>3, <4>1
    <3>2. CASE p # Root
      <4>1. "treePipe" \in missing => Before(Last(p), stage[p])
        BY <1>5, <1>6, <3>2 DEF IsProgram
      <4>2. "treePipe" \in missing => stage[p] # "left"
        BY <4>1 DEF Before
      <4>3. "treePipe" \in missing /\ stage[p] = "own" => Last(p) = "left"
        BY <4>1 DEF Before
      <4>4. "treePipe" \in missing /\ stage[p] = "own" => Len(p) = 1
        BY <1>5, <3>2, <4>3
      <4>5. Len(p) = 1 => Len(c) <= 2
        BY <1>3
      <4> QED
        BY <1>3, <4>2, <4>4, <4>5
    <3> QED
      BY <3>1, <3>2
  <2>3. /\ pc'[c] \notin Busy /\ pc'[c] # "fork" /\ ~Attended(c)'
    BY <1>4 DEF Busy, Attended
  <2> QED
    BY <1>2, <1>4, <1>7, <1>9, <2>1, <2>2, <2>3 DEF RoomOf
<1>11. RoomOf(p)'
  <2>1. pc'[p] # "fork" /\ Child(p)' = c /\ Born(c)' /\ Born(p)
    BY <1>1, <1>4 DEF Child, Born
  <2>2. RoomOf(p)
    BY DEF RoomInv
  <2> QED
    BY <1>1, <1>2, <1>4, <1>5, <1>9, <2>1, <2>2 DEF RoomOf, IsLeaf, Born
<1>12. \A q \in Procs : Born(q) => Born(q)'
  BY <1>4 DEF Born
<1>13. \A q \in Procs : q # p /\ q # c => RoomOf(q)'
  BY <1>1, <1>4, <1>12, RoomElsewhere
<1>14. ArgumentsOK'
  BY <1>1, SameArguments
<1> QED
  BY <1>10, <1>11, <1>13, <1>14 DEF RoomInv

LEMMA WaitRoom ==
    ASSUME TreeInv, RoomInv, NEW p \in Procs, Wait(p), NEW c, c = Child(p)
    PROVE  RoomInv'
<1>1. /\ pc[p] = "wait" /\ pc[c] = "zombie" /\ NextStage(p) /\ UNCHANGED <<arguments, strays>>
      /\ pc' = [pc EXCEPT ![p] = Following(p), ![c] = "gone"]
  BY DEF Wait, At, programs
<1>2. c \in Procs /\ c # p /\ PcTypes /\ pc \in [Procs -> Labels]
  <2>1. Attended(p)
    BY <1>1 DEF Attended
  <2> QED
    BY <1>1, <2>1 DEF RoomInv, RoomOf, TreeInv, PcTypes
<1>3. /\ pc'[p] = Following(p) /\ pc'[c] = "gone"
      /\ \A q \in Procs : q # p => stage'[q] = stage[q]
      /\ \A q \in Procs : q # p /\ q # c => pc'[q] = pc[q]
  BY <1>1, <1>2, NextStageFacts
<1>4. Following(p) \in {"deliver", "fork"}
  BY DEF Following
<1>5. /\ maxDepth' = maxDepth /\ missing' = missing /\ strays' = strays
      /\ \A q \in Procs : /\ IsProgram(q)' = IsProgram(q) /\ IsLeaf(q)' = IsLeaf(q)
                          /\ Depth(q)' = Depth(q)
  BY <1>1 DEF arguments, IsProgram, IsLeaf, Depth
<1>6. RoomOf(p)'
  <2>1. pc'[p] = "fork" /\ stage'[p] # "own" => ~IsLeaf(p)
    BY <1>1, <1>2, <1>3, NextStageLeaf
  <2>2. ~Attended(p)' /\ Born(p) /\ pc[p] \in Busy /\ pc[p] \notin {"redirect", "close"}
    BY <1>1, <1>3, <1>4 DEF Attended, Born, Busy
  <2> QED
    BY <1>5, <2>1, <2>2 DEF RoomInv, RoomOf
<1>7. RoomOf(c)'
  <2>1. /\ ~Attended(c)' /\ Born(c) /\ pc'[c] \notin Busy /\ pc'[c] # "fork"
        /\ pc[c] \notin {"redirect", "close"}
    BY <1>1, <1>3 DEF Attended, Born, Busy
  <2> QED
    BY <1>2, <1>5, <2>1 DEF RoomInv, RoomOf
<1>8. \A q \in Procs : Born(q) => Born(q)'
  BY <1>1, <1>3, <1>4 DEF Born
<1>9. \A q \in Procs : q # p /\ q # c => RoomOf(q)'
  BY <1>1, <1>3, <1>8, RoomElsewhere
<1>10. ArgumentsOK'
  BY <1>1, SameArguments
<1> QED
  BY <1>6, <1>7, <1>9, <1>10 DEF RoomInv

\* DepthOfChild after a step.
LEMMA BrokenPipeRoom ==
    ASSUME TreeInv, RoomInv, NEW p \in Procs, BrokenPipe(p), Deserted(p), NEW c, c = Child(p)
    PROVE  RoomInv'
<1>1. /\ pc[p] = "send" /\ UNCHANGED <<stage, strays>> /\ c \in Procs /\ c # p
      /\ pc[c] \in {"zombie", "orphan", "gone"}
      /\ pc'[p] \in {"zombie", "gone"} /\ pc'[c] \in {"orphan", "gone"}
      /\ \A q \in Procs : q # p /\ q # c => pc'[q] = pc[q]
  BY BrokenPipeFacts DEF TreeInv
<1>2. UNCHANGED arguments
  BY DEF BrokenPipe, programs
<1>3. /\ maxDepth' = maxDepth /\ missing' = missing /\ strays' = strays
      /\ \A q \in Procs : /\ IsProgram(q)' = IsProgram(q) /\ IsLeaf(q)' = IsLeaf(q)
                          /\ Depth(q)' = Depth(q)
  BY <1>1, <1>2 DEF arguments, IsProgram, IsLeaf, Depth
<1>4. ASSUME NEW q \in {p, c} PROVE RoomOf(q)'
  <2>1. /\ ~Attended(q)' /\ Born(q) /\ pc'[q] \notin Busy /\ pc'[q] # "fork"
        /\ pc[q] \notin {"redirect", "close"}
    BY <1>1 DEF Attended, Born, Busy
  <2>2. q \in Procs
    BY <1>1
  <2> QED
    BY <1>3, <2>1, <2>2 DEF RoomInv, RoomOf
<1>5. \A q \in Procs : Born(q) => Born(q)'
  BY <1>1 DEF Born
<1>6. \A q \in Procs : q # p /\ q # c => RoomOf(q)'
  BY <1>1, <1>2, <1>5, RoomElsewhere
<1> QED
  BY <1>2, <1>4, <1>6, SameArguments DEF RoomInv

LEMMA DepthOfChildNext ==
    (\A p \in Seq(Kids), s \in Kids :
        Depth(Append(p, s)) = IF Append(p, s) \in strays THEN Depth(p) ELSE Depth(p) + 1)'
<1>1. \A p \in Seq(Kids), s \in Kids :
        Depth(Append(p, s)) = IF Append(p, s) \in strays THEN Depth(p) ELSE Depth(p) + 1
  BY DepthOfChild
<1> QED
  BY <1>1, PTL

\* A new stray copy is as deep as the node it is a copy of.
LEMMA StrayRoom ==
    ASSUME TreeInv, RoomInv, NEW c \in Procs, CloseAndExec(c), ProgramOf(c) \in missing
    PROVE  RoomInv'
<1>1. /\ pc[c] = "close" /\ Goto(c, "closeTheirs") /\ strays' = strays \cup {c}
      /\ UNCHANGED <<stage, arguments>>
  BY DEF CloseAndExec, At
<1>2. PcTypes /\ c # Root /\ stage[c] = Last(c) /\ c \notin strays
  BY <1>1, OwnPartOf DEF TreeInv, OwnPart
<1>3. /\ pc'[c] = "closeTheirs" /\ \A q \in Procs : q # c => pc'[q] = pc[q]
  BY <1>1, <1>2, GotoFacts DEF Labels
<1>4. maxDepth' = maxDepth /\ missing' = missing /\ stage' = stage
  BY <1>1 DEF arguments
<1> DEFINE f == Front(c)
<1>5. /\ f \in Procs /\ Last(c) \in Kids /\ c = Append(f, Last(c))
      /\ f \in Seq(Kids) /\ c \in Seq(Kids)
  BY <1>2, ParentFacts, ProcFacts
<1> HIDE DEF f
<1>6. \A q \in Procs : Born(q) /\ q # c => ~Below(c, q)
  <2> SUFFICES ASSUME NEW q \in Procs, Born(q), q # c, Below(c, q) PROVE FALSE
    OBVIOUS
  <2>1. PICK s \in Kids : Below(Append(c, s), q)
    BY <1>5, ChildOnTheWay, ProcFacts
  <2> QED
    BY <1>1, <2>1, NobodyBorn DEF Born
<1>7. \A q \in Procs : Born(q) /\ q # c => Depth(q)' = Depth(q) /\ IsLeaf(q)' = IsLeaf(q)
  <2>1. \A q \in Procs : Born(q) /\ q # c => Depth(q)' = Depth(q)
    BY <1>1, <1>6, DepthStays, ProcFacts
  <2> QED
    BY <1>4, <2>1 DEF IsLeaf
<1>8. Depth(c)' <= maxDepth
  <2>1. Below(c, c) /\ Alive(c)
    BY <1>1, <1>5, BelowItself DEF Alive
  <2>2. Attended(f)
    BY <1>5, <2>1 DEF TreeInv, OneChild
  <2>3. Born(f) /\ ~IsProgram(f) /\ Depth(f) <= maxDepth
    BY <1>5, <2>2 DEF RoomInv, RoomOf, Attended, Busy, Born
  <2>4. f # c
    BY <1>1, <2>2 DEF Attended
  <2>5. Depth(f)' = Depth(f)
    BY <1>5, <1>7, <2>3, <2>4
  <2>6. c \in strays'
    BY <1>1
  <2>7. Depth(Append(f, Last(c)))' = Depth(f)'
    BY <1>4, <1>5, <2>6, DepthOfChildNext
  <2>8. Depth(c)' = Depth(Append(f, Last(c)))'
    BY <1>5 DEF Depth
  <2> QED
    BY <2>3, <2>5, <2>7, <2>8
<1>9. missing # {} /\ (Last(c) # "own" => "treePipe" \in missing)
  BY DEF ProgramOf
<1>10. \A q \in Procs : Born(q) => Born(q)'
  BY <1>1, <1>3 DEF Born
<1>11. RoomOf(c)'
  <2>1. ~IsProgram(c)' /\ ~Attended(c)' /\ pc'[c] # "fork" /\ c \in strays'
    BY <1>1, <1>2, <1>3 DEF IsProgram, Attended, Lost
  <2>2. Born(c) /\ RoomOf(c)
    BY <1>1 DEF Born, RoomInv
  <2> QED
    BY <1>4, <1>8, <1>9, <2>1, <2>2 DEF RoomOf
<1>12. \A q \in Procs : q # c => RoomOf(q)'
  <2> SUFFICES ASSUME NEW q \in Procs, q # c PROVE RoomOf(q)'
    OBVIOUS
  <2>1. /\ IsProgram(q)' = IsProgram(q) /\ Attended(q)' = Attended(q) /\ Child(q)' = Child(q)
        /\ q \in strays' <=> q \in strays
        /\ pc'[q] = pc[q] /\ stage'[q] = stage[q] /\ Born(q)' = Born(q)
    BY <1>1, <1>3, <1>4 DEF IsProgram, Attended, Lost, Child, Born
  <2>2. RoomOf(q)
    BY DEF RoomInv
  <2>3. Attended(q) => Child(q) \in Procs /\ pc'[Child(q)] # "unborn"
    BY <1>10, <2>2 DEF RoomOf, Born
  <2>4. pc[q] = "fork" \/ Attended(q) => Born(q)
    BY DEF Attended, Born
  <2> QED
    BY <1>4, <1>7, <2>1, <2>2, <2>3, <2>4 DEF RoomOf, Born
<1> QED
  BY <1>1, <1>11, <1>12, SameArguments DEF RoomInv

LEMMA CloseAndExecRoom ==
    ASSUME TreeInv, RoomInv, NEW c \in Procs, CloseAndExec(c)
    PROVE  RoomInv'
<1>1. CASE ProgramOf(c) \in missing
  BY <1>1, StrayRoom
<1>2. CASE ProgramOf(c) \notin missing
  <2>1. pc[c] = "close" /\ Goto(c, "input") /\ UNCHANGED <<stage, arguments, strays>>
    BY <1>2 DEF CloseAndExec, At
  <2>2. pc'[c] = "input" /\ OthersStay(c)
    <3>1. PcTypes /\ "input" \in Labels
      BY DEF TreeInv, Labels
    <3> QED
      BY <2>1, <3>1, GotoFacts DEF OthersStay
  <2>3. Born(c) /\ Born(c)' /\ ~Attended(c)' /\ pc'[c] \notin Busy
    BY <2>1, <2>2 DEF Born, Attended, Busy
  <2>4. "treePipe" \in missing => Last(c) = "own"
    BY <1>2 DEF ProgramOf
  <2> QED
    BY <2>1, <2>2, <2>3, <2>4, RoomAlone
<1> QED
  BY <1>1, <1>2

LEMMA RoomInitially == Init => RoomInv
<1> SUFFICES ASSUME Init PROVE RoomInv
  OBVIOUS
<1>1. ArgumentsOK /\ strays = {}
  BY DEF Init, ArgumentsOK
<1>2. /\ pc[Root] = "input" /\ \A p \in Procs : p # Root => pc[p] = "unborn"
  BY RootFacts DEF Init
<1>3. RoomOf(Root)
  <2>1. Depth(Root) = 0 /\ maxDepth \in Nat
    BY <1>1, DepthOfRoot, TreeAssumption DEF ArgumentsOK
  <2>2. Depth(Root) <= maxDepth
    BY <2>1
  <2> QED
    BY <1>1, <1>2, <2>2 DEF RoomOf, Busy, Attended, IsProgram
<1>4. \A p \in Procs : p # Root => RoomOf(p)
  BY <1>1, <1>2 DEF RoomOf, Busy, Attended, Born
<1> QED
  BY <1>1, <1>3, <1>4 DEF RoomInv

LEMMA RoomNext ==
    ASSUME TreeInv, RoomInv, [Next]_vars, \A p \in Procs : BrokenPipe(p) => Deserted(p)
    PROVE  RoomInv'
<1>1. CASE UNCHANGED vars
  BY <1>1
  DEF vars, programs, arguments, RoomInv, RoomOf, ArgumentsOK, IsProgram, Attended, Lost,
      IsLeaf, Depth, Child, Born
<1>2. CASE \E p \in Procs : ~IsProgram(p) /\ NodeStep(p)
  BY <1>2, ReadNum1Room, ForkRoom, AttendingRoom, BrokenPipeRoom, WaitRoom, GoOnLostRoom
  DEF NodeStep
<1>3. CASE \E p \in Procs : \/ RunProgram(p) \/ Redirect(p) \/ CloseAndExec(p)
                            \/ Deliver(p) \/ Exit(p) \/ ForkFails(p) \/ InitReaps(p)
  BY <1>3, RunProgramRoom, RedirectRoom, CloseAndExecRoom, IdleRoom
<1> QED
  BY <1>1, <1>2, <1>3 DEF Next, Step, Done

-----------------------------------------------------------------------------
(* The descriptors: who holds which end of which pipe.                       *)

\* The ends a process holds beside its standard input and output: a child all
\* four of its pipes until it has redirected them, a parent those of the child
\* it attends, one by one less, and nobody an end of any other pipe.
Ends(p) ==
    CASE pc[p] \in {"redirect", "close"} -> FourEnds(p)
      [] pc[p] = "closeTheirs" /\ ~Lost(p) -> FourEnds(Child(p))
      [] pc[p] \in {"send", "closeTo"} ->
             {WriteEnd(PipeTo(Child(p))), ReadEnd(PipeFrom(Child(p)))}
      [] pc[p] = "receive" -> {ReadEnd(PipeFrom(Child(p)))}
      [] OTHER -> {}

EndsExact == open = [p \in Procs |-> Ends(p)]

LEMMA FourDistinct ==
    ASSUME NEW c
    PROVE  /\ FourEnds(c) \ {ReadEnd(PipeTo(c)), WriteEnd(PipeFrom(c))} =
                  {WriteEnd(PipeTo(c)), ReadEnd(PipeFrom(c))}
           /\ {WriteEnd(PipeTo(c)), ReadEnd(PipeFrom(c))} \ {WriteEnd(PipeTo(c))} =
                  {ReadEnd(PipeFrom(c))}
<1>1. /\ ReadEnd(PipeTo(c)) # WriteEnd(PipeTo(c)) /\ ReadEnd(PipeTo(c)) # ReadEnd(PipeFrom(c))
      /\ WriteEnd(PipeFrom(c)) # WriteEnd(PipeTo(c))
      /\ WriteEnd(PipeFrom(c)) # ReadEnd(PipeFrom(c))
      /\ WriteEnd(PipeTo(c)) # ReadEnd(PipeFrom(c))
  BY DEF ReadEnd, WriteEnd, PipeTo, PipeFrom
<1> QED
  BY <1>1 DEF FourEnds

LEMMA EndsStep ==
    ASSUME EndsExact, NEW p \in Procs, OthersStay(p), NEW e, e = Ends(p)',
           open' = [open EXCEPT ![p] = e]
    PROVE  EndsExact'
<1>1. \A q \in Procs : q # p => Ends(q)' = Ends(q)
  BY DEF OthersStay, Ends, Child, Lost
<1>2. open' = [q \in Procs |-> IF q = p THEN e ELSE Ends(q)]
  BY DEF EndsExact
<1>3. \A q \in Procs : (IF q = p THEN e ELSE Ends(q)) = Ends(q)'
  BY <1>1
<1> QED
  BY <1>2, <1>3 DEF EndsExact

\* A process without ends goes on without.
LEMMA EndlessStep ==
    ASSUME EndsExact, NEW p \in Procs, OthersStay(p), Ends(p) = {}, Ends(p)' = {}, open' = open
    PROVE  EndsExact'
<1>1. open' = [open EXCEPT ![p] = {}]
  BY DEF EndsExact
<1> QED
  BY <1>1, EndsStep

LEMMA EndsAlone ==
    ASSUME TreeInv, EndsExact, NEW p \in Procs,
           \/ ReadNum1(p) \/ ForkFails(p) \/ Deliver(p) \/ RunProgram(p) \/ GoOnLost(p)
           \/ InitReaps(p)
    PROVE  EndsExact'
<1>1. /\ UNCHANGED <<open, strays>>
      /\ \/ pc[p] \in {"input", "fork", "deliver", "orphan"}
         \/ pc[p] = "closeTheirs" /\ Lost(p)
  BY DEF ReadNum1, ForkFails, Deliver, RunProgram, GoOnLost, InitReaps, At, programs, descriptors
<1>2. PICK l \in {"fork", "deliver", "exit", "gone"} : Goto(p, l)
  BY DEF ReadNum1, ForkFails, Deliver, RunProgram, GoOnLost, InitReaps, Following
<1>3. pc'[p] = l /\ \A q \in Procs : q # p => pc'[q] = pc[q]
  BY <1>2, GotoFacts DEF TreeInv, PcTypes, Labels
<1>4. \A q \in Procs : q # p => stage'[q] = stage[q]
  <2>1. ReadNum1(p) \/ stage' = stage \/ NextStage(p)
    BY DEF ForkFails, Deliver, RunProgram, GoOnLost, InitReaps
  <2> QED
    BY <2>1, NextStageFacts DEF ReadNum1, TreeInv, PcTypes
<1>5. OthersStay(p)
  BY <1>1, <1>3, <1>4 DEF OthersStay
<1>6. Ends(p) = {} /\ Ends(p)' = {}
  BY <1>1, <1>3 DEF Ends
<1> QED
  BY <1>1, <1>5, <1>6, EndlessStep

LEMMA EndsRedirect ==
    ASSUME TreeInv, EndsExact, NEW c \in Procs, Redirect(c)
    PROVE  EndsExact'
<1>1. /\ pc[c] = "redirect" /\ Goto(c, "close") /\ UNCHANGED <<stage, open, strays>>
  BY DEF Redirect, At, programs
<1>2. pc'[c] = "close" /\ \A q \in Procs : q # c => pc'[q] = pc[q]
  BY <1>1, GotoFacts DEF TreeInv, PcTypes, Labels
<1>3. \A q \in Procs : Ends(q)' = Ends(q)
  BY <1>1, <1>2 DEF Ends, Child, Lost
<1> QED
  BY <1>1, <1>3 DEF EndsExact

LEMMA EndsCloseAndExec ==
    ASSUME TreeInv, EndsExact, NEW c \in Procs, CloseAndExec(c)
    PROVE  EndsExact'
<1>1. /\ pc[c] = "close" /\ stage' = stage /\ stage[c] = Last(c)
      /\ open' = [open EXCEPT ![c] = open[c] \ FourEnds(c)]
  BY OwnPartOf DEF CloseAndExec, At, OwnPart
<1>2. \/ Goto(c, "closeTheirs") /\ strays' = strays \cup {c}
      \/ Goto(c, "input") /\ strays' = strays
  BY DEF CloseAndExec
<1>3. /\ \/ pc'[c] = "closeTheirs" /\ c \in strays'
         \/ pc'[c] = "input"
      /\ \A q \in Procs : q # c => pc'[q] = pc[q]
  BY <1>2, GotoFacts DEF TreeInv, PcTypes, Labels
<1>4. OthersStay(c)
  BY <1>1, <1>2, <1>3 DEF OthersStay
<1>5. open[c] \ FourEnds(c) = {}
  BY <1>1 DEF EndsExact, Ends
<1>6. Ends(c)' = {}
  BY <1>1, <1>3 DEF Ends, Lost
<1> QED
  BY <1>1, <1>4, <1>5, <1>6, EndsStep

LEMMA EndsExit ==
    ASSUME TreeInv, EndsExact, NEW p \in Procs, Exit(p)
    PROVE  EndsExact'
<1>1. /\ Goto(p, "gone") \/ Goto(p, "zombie")
      /\ open' = [open EXCEPT ![p] = {}] /\ UNCHANGED <<stage, strays>>
  BY DEF Exit, CloseAll, Ended, programs
<1>2. pc'[p] \in {"gone", "zombie"} /\ OthersStay(p)
  BY <1>1, GotoFacts DEF TreeInv, PcTypes, Labels, OthersStay
<1>3. Ends(p)' = {}
  BY <1>2 DEF Ends
<1> QED
  BY <1>1, <1>2, <1>3, EndsStep

LEMMA EndsBrokenPipe ==
    ASSUME TreeInv, EndsExact, NEW p \in Procs, BrokenPipe(p), Deserted(p), NEW c, c = Child(p)
    PROVE  EndsExact'
<1>1. /\ UNCHANGED <<stage, strays>> /\ c \in Procs /\ c # p
      /\ pc[c] \in {"zombie", "orphan", "gone"}
      /\ pc'[p] \in {"zombie", "gone"} /\ pc'[c] \in {"orphan", "gone"}
      /\ \A q \in Procs : q # p /\ q # c => pc'[q] = pc[q]
  BY BrokenPipeFacts DEF TreeInv
<1>2. open' = [open EXCEPT ![p] = {}]
  BY DEF BrokenPipe, CloseAll
<1>3. Ends(p)' = {} /\ Ends(c)' = {} /\ Ends(c) = {}
  BY <1>1 DEF Ends
<1>4. \A q \in Procs : q # p /\ q # c => Ends(q)' = Ends(q)
  BY <1>1 DEF Ends, Child, Lost
<1>5. open' = [q \in Procs |-> IF q = p THEN {} ELSE Ends(q)]
  BY <1>2 DEF EndsExact
<1>6. \A q \in Procs : (IF q = p THEN {} ELSE Ends(q)) = Ends(q)'
  BY <1>3, <1>4
<1> QED
  BY <1>5, <1>6 DEF EndsExact

\* The parent closes one end after the other.
LEMMA EndsAttending ==
    ASSUME TreeInv, EndsExact, NEW p \in Procs,
           CloseTheirs(p) \/ Send(p) \/ CloseTo(p) \/ Receive(p)
    PROVE  EndsExact'
<1>1. PICK l \in {"send", "closeTo", "receive", "wait"} : Goto(p, l)
  BY DEF CloseTheirs, Send, CloseTo, Receive
<1>2. UNCHANGED <<stage, strays>>
  BY DEF CloseTheirs, Send, CloseTo, Receive, programs
<1>3. pc'[p] = l /\ OthersStay(p)
  BY <1>1, <1>2, GotoFacts DEF TreeInv, PcTypes, Labels, OthersStay
<1>4. Child(p)' = Child(p) /\ open[p] = Ends(p)
  BY <1>2 DEF Child, EndsExact
<1> DEFINE c == Child(p)
<1>5. CASE CloseTheirs(p)
  <2>1. /\ pc[p] = "closeTheirs" /\ ~Lost(p) /\ pc'[p] = "send"
        /\ open' = [open EXCEPT ![p] =
                       open[p] \ {ReadEnd(PipeTo(c)), WriteEnd(PipeFrom(c))}]
    BY <1>5, GotoFacts DEF CloseTheirs, At, TreeInv, PcTypes, Labels
  <2>2. open[p] = FourEnds(c)
    BY <1>4, <2>1 DEF Ends
  <2>3. Ends(p)' = {WriteEnd(PipeTo(c)), ReadEnd(PipeFrom(c))}
    BY <1>4, <2>1 DEF Ends
  <2>4. open' = [open EXCEPT ![p] = {WriteEnd(PipeTo(c)), ReadEnd(PipeFrom(c))}]
    BY <2>1, <2>2, FourDistinct
  <2> QED
    BY <1>3, <2>3, <2>4, EndsStep
<1>6. CASE Send(p)
  <2>1. pc[p] = "send" /\ pc'[p] = "closeTo" /\ open' = open
    BY <1>6, GotoFacts DEF Send, At, TreeInv, PcTypes, Labels, descriptors
  <2>2. open' = [open EXCEPT ![p] = Ends(p)]
    BY <1>4, <2>1 DEF EndsExact
  <2>3. Ends(p)' = Ends(p)
    BY <1>4, <2>1 DEF Ends
  <2> QED
    BY <1>3, <2>2, <2>3, EndsStep
<1>7. CASE CloseTo(p)
  <2>1. /\ pc[p] = "closeTo" /\ pc'[p] = "receive"
        /\ open' = [open EXCEPT ![p] = open[p] \ {WriteEnd(PipeTo(c))}]
    BY <1>7, GotoFacts DEF CloseTo, At, TreeInv, PcTypes, Labels
  <2>2. open[p] = {WriteEnd(PipeTo(c)), ReadEnd(PipeFrom(c))}
    BY <1>4, <2>1 DEF Ends
  <2>3. Ends(p)' = {ReadEnd(PipeFrom(c))}
    BY <1>4, <2>1 DEF Ends
  <2>4. open' = [open EXCEPT ![p] = {ReadEnd(PipeFrom(c))}]
    BY <2>1, <2>2, FourDistinct
  <2> QED
    BY <1>3, <2>3, <2>4, EndsStep
<1>8. CASE Receive(p)
  <2>1. /\ pc[p] = "receive" /\ pc'[p] = "wait"
        /\ open' = [open EXCEPT ![p] = open[p] \ {ReadEnd(PipeFrom(c))}]
    BY <1>8, GotoFacts DEF Receive, At, TreeInv, PcTypes, Labels
  <2>2. open[p] = {ReadEnd(PipeFrom(c))}
    BY <1>4, <2>1 DEF Ends
  <2>3. Ends(p)' = {}
    BY <2>1 DEF Ends
  <2>4. open' = [open EXCEPT ![p] = {}]
    BY <2>1, <2>2
  <2> QED
    BY <1>3, <2>3, <2>4, EndsStep
<1> QED
  BY <1>5, <1>6, <1>7, <1>8

LEMMA EndsFork ==
    ASSUME TreeInv, RoomInv, EndsExact, NEW p \in Procs, Fork(p), NEW c, c = Child(p)
    PROVE  EndsExact'
<1> DEFINE all == open[p] \cup FourEnds(c)
<1>1. /\ pc[p] = "fork" /\ pc' = [pc EXCEPT ![p] = "closeTheirs", ![c] = "redirect"]
      /\ stage' = [stage EXCEPT ![c] = stage[p]] /\ strays' = strays
      /\ open' = [open EXCEPT ![p] = all, ![c] = all]
  BY DEF Fork, At, programs
<1>2. c \in Procs /\ c # p
  BY <1>1, ThereIsRoom, AppendFacts, ProcFacts DEF Child, TreeInv, PcTypes
<1>3. /\ pc'[p] = "closeTheirs" /\ pc'[c] = "redirect" /\ stage'[p] = stage[p]
      /\ \A q \in Procs : q # p /\ q # c => pc'[q] = pc[q] /\ stage'[q] = stage[q]
  BY <1>1, <1>2 DEF TreeInv, PcTypes
<1>4. all = FourEnds(c)
  <2>1. open[p] = {}
    BY <1>1 DEF EndsExact, Ends
  <2> QED
    BY <2>1
<1>5. Ends(p)' = FourEnds(c)
  <2>1. ~Lost(p)'
    <3>1. p \in strays => Before(Last(p), stage[p])
      BY <1>1, OwnPartOf DEF OwnPart
    <3> QED
      BY <1>1, <1>3, <3>1 DEF Lost, Before
  <2>2. Child(p)' = c
    BY <1>3 DEF Child
  <2> QED
    BY <1>3, <2>1, <2>2 DEF Ends
<1>6. Ends(c)' = FourEnds(c)
  BY <1>3 DEF Ends
<1>7. \A q \in Procs : q # p /\ q # c => Ends(q)' = Ends(q)
  BY <1>1, <1>3 DEF Ends, Child, Lost
<1> HIDE DEF all
<1>8. open' = [q \in Procs |-> IF q = p \/ q = c THEN all ELSE Ends(q)]
  BY <1>1, <1>2 DEF EndsExact
<1>9. \A q \in Procs : (IF q = p \/ q = c THEN all ELSE Ends(q)) = Ends(q)'
  BY <1>4, <1>5, <1>6, <1>7
<1> QED
  BY <1>8, <1>9 DEF EndsExact

LEMMA EndsWait ==
    ASSUME TreeInv, RoomInv, EndsExact, NEW p \in Procs, Wait(p), NEW c, c = Child(p)
    PROVE  EndsExact'
<1>1. /\ pc[p] = "wait" /\ pc[c] = "zombie" /\ NextStage(p) /\ UNCHANGED <<open, strays>>
      /\ pc' = [pc EXCEPT ![p] = Following(p), ![c] = "gone"]
  BY DEF Wait, At, programs, descriptors
<1>2. PcTypes /\ c # p /\ c \in Procs
  <2>1. Attended(p)
    BY <1>1 DEF Attended
  <2> QED
    BY <1>1, <2>1 DEF TreeInv, RoomInv, RoomOf
<1>3. /\ pc'[p] = Following(p) /\ pc'[c] = "gone"
      /\ \A q \in Procs : q # p => stage'[q] = stage[q]
      /\ \A q \in Procs : q # p /\ q # c => pc'[q] = pc[q]
  BY <1>1, <1>2, NextStageFacts DEF PcTypes
<1>4. Ends(p) = {} /\ Ends(p)' = {} /\ Ends(c) = {} /\ Ends(c)' = {}
  <2>1. pc'[p] \in {"deliver", "fork"}
    BY <1>3 DEF Following
  <2>2. Ends(p) = {} /\ Ends(c) = {}
    BY <1>1 DEF Ends
  <2>3. Ends(p)' = {} /\ Ends(c)' = {}
    BY <1>3, <2>1 DEF Ends
  <2> QED
    BY <2>2, <2>3
<1>5. \A q \in Procs : Ends(q)' = Ends(q)
  <2>1. \A q \in Procs : q # p /\ q # c => Ends(q)' = Ends(q)
    BY <1>1, <1>3 DEF Ends, Child, Lost
  <2> QED
    BY <1>4, <2>1
<1> QED
  BY <1>1, <1>5 DEF EndsExact

LEMMA EndsNext ==
    ASSUME TreeInv, RoomInv, EndsExact, [Next]_vars, \A p \in Procs : BrokenPipe(p) => Deserted(p)
    PROVE  EndsExact'
<1>1. CASE UNCHANGED vars
  BY <1>1 DEF vars, programs, descriptors, EndsExact, Ends, Child, Lost
<1>2. CASE \E p \in Procs : \/ NodeStep(p) \/ RunProgram(p) \/ Deliver(p) \/ ForkFails(p)
                            \/ InitReaps(p)
  BY <1>2, EndsAlone, EndsFork, EndsAttending, EndsBrokenPipe, EndsWait DEF NodeStep
<1>3. CASE \E p \in Procs : Redirect(p) \/ CloseAndExec(p) \/ Exit(p)
  BY <1>3, EndsRedirect, EndsCloseAndExec, EndsExit
<1> QED
  BY <1>1, <1>2, <1>3 DEF Next, Step, Done

LEMMA EndsInitially == Init => EndsExact
BY DEF Init, EndsExact, Ends

-----------------------------------------------------------------------------
(* Standard input and output.                                                *)

Redirected(c) == pc[c] \notin {"unborn", "redirect", "zombie", "orphan", "gone"}

\* A child has the ends of its own two pipes from its dup2 to its exit, and
\* before that the output of its parent.
StdOf(c) ==
    /\ pc[c] \in {"unborn", "zombie", "orphan", "gone"} => stdout[c] = Closed
    /\ c = Root => stdout[c] \in {Console, Closed}
    /\ c # Root /\ Redirected(c) => stdin[c] = PipeTo(c) /\ stdout[c] = PipeFrom(c)
    /\ pc[c] = "redirect" => stdout[c] = stdout[Front(c)]

Outputs == {PipeFrom(c) : c \in Procs \ {Root}} \cup {Console, Closed}

StdTypes ==
    /\ stdin \in [Procs -> Pipes \cup {Console, Closed}]
    /\ stdout \in [Procs -> Outputs]

StdInv == StdTypes /\ \A c \in Procs : StdOf(c)

\* Who is alive has a parent that attends it.
LEMMA ParentAttends ==
    ASSUME TreeInv, NEW c \in Procs, c # Root, Alive(c)
    PROVE  /\ Front(c) \in Procs /\ Front(c) # c /\ Attended(Front(c))
           /\ c = Child(Front(c))
<1> DEFINE f == Front(c)
<1>1. f \in Procs /\ Last(c) \in Kids /\ c = Append(f, Last(c)) /\ f \in Seq(Kids)
  BY ParentFacts, ProcFacts
<1> HIDE DEF f
<1>2. Below(Append(f, Last(c)), c)
  BY <1>1, BelowItself, ProcFacts
<1>3. Last(c) = stage[f] /\ Attended(f)
  BY <1>1, <1>2 DEF TreeInv, OneChild
<1>4. c # f
  BY <1>1, AppendFacts
<1> QED
  BY <1>1, <1>3, <1>4 DEF Child, f

\* No two processes have the same child.
LEMMA OneParent ==
    ASSUME PcTypes, NEW p \in Procs, NEW q \in Procs, Child(p) = Child(q)
    PROVE  p = q
<1>1. p \in Seq(Kids) /\ q \in Seq(Kids) /\ stage[p] \in Kids /\ stage[q] \in Kids
  BY ProcFacts DEF PcTypes
<1> QED
  BY <1>1, AppendInjective DEF Child

LEMMA FrontOfChild ==
    ASSUME PcTypes, NEW p \in Procs, Child(p) \in Procs
    PROVE  Front(Child(p)) = p /\ Child(p) # p /\ Child(p) # Root
<1> DEFINE c == Child(p)
           f == Front(c)
<1>1. p \in Seq(Kids) /\ stage[p] \in Kids /\ c = Append(p, stage[p])
  BY ProcFacts DEF PcTypes, Child
<1>2. c # p /\ c # Root
  BY <1>1, AppendFacts
<1>3. f \in Procs /\ Last(c) \in Kids /\ c = Append(f, Last(c))
  BY <1>2, ParentFacts
<1> HIDE DEF c, f
<1>4. f = p
  BY <1>1, <1>3, ProcFacts, AppendInjective
<1> QED
  BY <1>2, <1>4 DEF c, f

LEMMA ChildPipes ==
    ASSUME NEW c \in Procs, c # Root
    PROVE  PipeTo(c) \in Pipes /\ PipeFrom(c) \in Pipes /\ PipeFrom(c) \in Outputs
BY DEF Pipes, Outputs

\* A step that leaves every standard input and output alone.
LEMMA StdSame ==
    ASSUME StdInv, UNCHANGED <<stdin, stdout>>,
           \A q \in Procs : \/ pc'[q] = pc[q]
                            \/ Redirected(q) /\ Redirected(q)'
                            \/ pc[q] \in {"zombie", "orphan"} /\ pc'[q] = "gone"
    PROVE  StdInv'
<1>1. StdTypes'
  BY DEF StdInv, StdTypes, Outputs, Pipes, Console, Closed, PipeTo, PipeFrom
<1>2. ASSUME NEW q \in Procs PROVE StdOf(q)'
  BY DEF StdInv, StdOf, Redirected, Console, Closed, PipeTo, PipeFrom
<1> QED
  BY <1>1, <1>2 DEF StdInv

LEMMA StdRedirect ==
    ASSUME TreeInv, StdInv, NEW c \in Procs, Redirect(c)
    PROVE  StdInv'
<1>1. /\ pc[c] = "redirect" /\ Goto(c, "close")
      /\ stdin' = [stdin EXCEPT ![c] = PipeTo(c)]
      /\ stdout' = [stdout EXCEPT ![c] = PipeFrom(c)]
  BY DEF Redirect, At
<1>2. c # Root
  BY <1>1, OwnPartOf DEF OwnPart
<1>3. pc'[c] = "close" /\ \A q \in Procs : q # c => pc'[q] = pc[q]
  BY <1>1, GotoFacts DEF TreeInv, PcTypes, Labels
<1>4. StdTypes'
  BY <1>1, <1>2, ChildPipes DEF StdInv, StdTypes
<1>5. /\ stdin'[c] = PipeTo(c) /\ stdout'[c] = PipeFrom(c)
      /\ \A q \in Procs : q # c => stdin'[q] = stdin[q] /\ stdout'[q] = stdout[q]
  BY <1>1 DEF StdInv, StdTypes
<1>6. StdOf(c)'
  BY <1>2, <1>3, <1>5 DEF StdOf
<1>7. ASSUME NEW q \in Procs, q # c PROVE StdOf(q)'
  <2>1. pc[q] = "redirect" => Front(q) \in Procs /\ Front(q) # c
    <3> SUFFICES ASSUME pc[q] = "redirect" PROVE Front(q) \in Procs /\ Front(q) # c
      OBVIOUS
    <3>1. q # Root /\ Alive(q)
      BY OwnPartOf DEF OwnPart, Alive
    <3>2. Front(q) \in Procs /\ Attended(Front(q))
      BY <3>1, ParentAttends
    <3> QED
      BY <1>1, <3>2 DEF Attended
  <2> QED
    BY <1>3, <1>5, <1>7, <2>1 DEF StdInv, StdOf, Redirected
<1> QED
  BY <1>4, <1>6, <1>7 DEF StdInv

LEMMA StdExit ==
    ASSUME TreeInv, StdInv, NEW p \in Procs, Exit(p)
    PROVE  StdInv'
<1>1. /\ Goto(p, "gone") \/ Goto(p, "zombie")
      /\ stdin' = [stdin EXCEPT ![p] = Closed]
      /\ stdout' = [stdout EXCEPT ![p] = Closed]
  BY DEF Exit, CloseAll, Ended, At
<1>2. pc[p] = "exit"
  BY DEF Exit, At
<1>3. pc'[p] \in {"gone", "zombie"} /\ \A q \in Procs : q # p => pc'[q] = pc[q]
  BY <1>1, GotoFacts DEF TreeInv, PcTypes, Labels
<1>4. StdTypes'
  BY <1>1 DEF StdInv, StdTypes, Outputs
<1>5. /\ stdout'[p] = Closed
      /\ \A q \in Procs : q # p => stdin'[q] = stdin[q] /\ stdout'[q] = stdout[q]
  BY <1>1 DEF StdInv, StdTypes
<1>6. StdOf(p)'
  BY <1>3, <1>5 DEF StdOf, Redirected
<1>7. ASSUME NEW q \in Procs, q # p PROVE StdOf(q)'
  <2>1. pc[q] = "redirect" => Front(q) \in Procs /\ Front(q) # p
    <3> SUFFICES ASSUME pc[q] = "redirect" PROVE Front(q) \in Procs /\ Front(q) # p
      OBVIOUS
    <3>1. q # Root /\ Alive(q)
      BY OwnPartOf DEF OwnPart, Alive
    <3>2. Front(q) \in Procs /\ Attended(Front(q))
      BY <3>1, ParentAttends
    <3> QED
      BY <1>2, <3>2 DEF Attended
  <2> QED
    BY <1>3, <1>5, <1>7, <2>1 DEF StdInv, StdOf, Redirected
<1> QED
  BY <1>4, <1>6, <1>7 DEF StdInv

LEMMA StdBrokenPipe ==
    ASSUME TreeInv, StdInv, NEW p \in Procs, BrokenPipe(p), Deserted(p), NEW c, c = Child(p)
    PROVE  StdInv'
<1>1. /\ pc[p] = "send" /\ UNCHANGED <<stage, strays>> /\ c \in Procs /\ c # p
      /\ pc[c] \in {"zombie", "orphan", "gone"}
      /\ pc'[p] \in {"zombie", "gone"} /\ pc'[c] \in {"orphan", "gone"}
      /\ \A q \in Procs : q # p /\ q # c => pc'[q] = pc[q]
  BY BrokenPipeFacts DEF TreeInv
<1>2. /\ stdin' = [stdin EXCEPT ![p] = Closed]
      /\ stdout' = [stdout EXCEPT ![p] = Closed]
  BY DEF BrokenPipe, CloseAll
<1>3. StdTypes'
  BY <1>2 DEF StdInv, StdTypes, Outputs
<1>4. /\ stdout'[p] = Closed
      /\ \A q \in Procs : q # p => stdin'[q] = stdin[q] /\ stdout'[q] = stdout[q]
  BY <1>2 DEF StdInv, StdTypes
<1>5. StdOf(p)'
  BY <1>1, <1>4 DEF StdOf, Redirected
<1>6. StdOf(c)'
  BY <1>1, <1>4 DEF StdInv, StdOf, Redirected
<1>7. ASSUME NEW q \in Procs, q # p, q # c PROVE StdOf(q)'
  <2>1. pc[q] = "redirect" => Front(q) # p
    <3> SUFFICES ASSUME pc[q] = "redirect", Front(q) = p PROVE FALSE
      OBVIOUS
    <3>1. q # Root /\ Alive(q)
      BY OwnPartOf DEF OwnPart, Alive
    <3> QED
      BY <1>7, <3>1, ParentAttends
  <2>2. pc[q] = "redirect" => Front(q) \in Procs
    BY OwnPartOf, ParentFacts DEF OwnPart
  <2> QED
    BY <1>1, <1>4, <1>7, <2>1, <2>2 DEF StdInv, StdOf, Redirected
<1> QED
  BY <1>3, <1>5, <1>6, <1>7 DEF StdInv

LEMMA StdFork ==
    ASSUME TreeInv, RoomInv, StdInv, NEW p \in Procs, Fork(p), NEW c, c = Child(p)
    PROVE  StdInv'
<1>1. /\ pc[p] = "fork" /\ pc' = [pc EXCEPT ![p] = "closeTheirs", ![c] = "redirect"]
      /\ stdin' = [stdin EXCEPT ![c] = stdin[p]]
      /\ stdout' = [stdout EXCEPT ![c] = stdout[p]]
  BY DEF Fork, At
<1>2. c \in Procs /\ Front(c) = p /\ c # p /\ c # Root
  BY <1>1, ThereIsRoom, FrontOfChild DEF TreeInv
<1>3. /\ pc'[p] = "closeTheirs" /\ pc'[c] = "redirect"
      /\ \A q \in Procs : q # p /\ q # c => pc'[q] = pc[q]
  BY <1>1, <1>2 DEF TreeInv, PcTypes
<1>4. StdTypes'
  BY <1>1, <1>2 DEF StdInv, StdTypes
<1>5. /\ stdout'[c] = stdout[p] /\ stdin'[c] = stdin[p]
      /\ \A q \in Procs : q # c => stdin'[q] = stdin[q] /\ stdout'[q] = stdout[q]
  BY <1>1, <1>2 DEF StdInv, StdTypes
<1>6. StdOf(c)'
  BY <1>2, <1>3, <1>5 DEF StdOf, Redirected
<1>7. StdOf(p)'
  BY <1>1, <1>2, <1>3, <1>5 DEF StdInv, StdOf, Redirected
<1>8. ASSUME NEW q \in Procs, q # p, q # c PROVE StdOf(q)'
  <2>1. pc[q] = "redirect" => Front(q) \in Procs /\ Front(q) # c
    <3> SUFFICES ASSUME pc[q] = "redirect" PROVE Front(q) \in Procs /\ Front(q) # c
      OBVIOUS
    <3>1. q # Root /\ Alive(q)
      BY OwnPartOf DEF OwnPart, Alive
    <3>2. Front(q) \in Procs /\ Attended(Front(q))
      BY <3>1, ParentAttends
    <3>3. ~Attended(c)
      <4>1. c \in Seq(Kids) /\ stage[p] \in Kids /\ c = Append(p, stage[p])
        BY <1>2, ProcFacts DEF TreeInv, PcTypes, Child
      <4>2. Below(Append(p, stage[p]), c)
        BY <4>1, BelowItself
      <4>3. ~Alive(c)
        BY <1>1, <1>2, <4>1, <4>2, NobodyAlive DEF Attended
      <4> QED
        BY <4>3 DEF Attended, Alive
    <3> QED
      BY <3>2, <3>3
  <2> QED
    BY <1>3, <1>5, <1>8, <2>1 DEF StdInv, StdOf, Redirected
<1> QED
  BY <1>4, <1>6, <1>7, <1>8 DEF StdInv

LEMMA StdNext ==
    ASSUME TreeInv, RoomInv, StdInv, [Next]_vars, \A p \in Procs : BrokenPipe(p) => Deserted(p)
    PROVE  StdInv'
<1>0. PcTypes
  BY DEF TreeInv
<1>1. CASE UNCHANGED vars
  BY <1>1, StdSame DEF vars, descriptors
<1>2. CASE \E p \in Procs : Redirect(p) \/ Exit(p) \/ Fork(p) \/ BrokenPipe(p)
  BY <1>2, StdRedirect, StdExit, StdFork, StdBrokenPipe
<1>3. ASSUME NEW p \in Procs,
             \/ ReadNum1(p) \/ CloseTheirs(p) \/ Send(p) \/ CloseTo(p) \/ Receive(p)
             \/ GoOnLost(p) \/ ForkFails(p) \/ RunProgram(p) \/ CloseAndExec(p) \/ Deliver(p)
      PROVE  StdInv'
  <2>1. /\ UNCHANGED <<stdin, stdout>>
        /\ pc[p] \notin {"unborn", "redirect", "zombie", "orphan", "gone"}
    BY <1>3
    DEF ReadNum1, CloseTheirs, Send, CloseTo, Receive, GoOnLost, ForkFails, RunProgram,
        CloseAndExec, Deliver, At, descriptors
  <2>2. PICK l \in {"fork", "deliver", "send", "closeTo", "receive", "wait", "exit",
                    "closeTheirs", "input"} : Goto(p, l)
    BY <1>3
    DEF ReadNum1, CloseTheirs, Send, CloseTo, Receive, GoOnLost, ForkFails, RunProgram,
        CloseAndExec, Deliver, Following
  <2>3. l \in Labels
    BY DEF Labels
  <2>4. pc'[p] = l /\ \A q \in Procs : q # p => pc'[q] = pc[q]
    BY <1>0, <2>2, <2>3, GotoFacts
  <2>5. Redirected(p) /\ Redirected(p)'
    BY <2>1, <2>4 DEF Redirected
  <2> QED
    BY <2>1, <2>4, <2>5, StdSame
<1>4. ASSUME NEW p \in Procs, Wait(p) PROVE StdInv'
  <2> DEFINE c == Child(p)
  <2>1. /\ pc[p] = "wait" /\ pc[c] = "zombie" /\ UNCHANGED <<stdin, stdout>>
        /\ pc' = [pc EXCEPT ![p] = Following(p), ![c] = "gone"]
    BY <1>4 DEF Wait, At, descriptors
  <2>2. c \in Procs /\ c # p
    <3>1. Attended(p)
      BY <2>1 DEF Attended
    <3> QED
      BY <2>1, <3>1 DEF RoomInv, RoomOf
  <2> HIDE DEF c
  <2>3. /\ pc'[p] \in {"deliver", "fork"} /\ pc'[c] = "gone"
        /\ \A q \in Procs : q # p /\ q # c => pc'[q] = pc[q]
    BY <1>0, <2>1, <2>2 DEF Following, PcTypes
  <2>4. Redirected(p) /\ Redirected(p)'
    BY <2>1, <2>3 DEF Redirected
  <2> QED
    BY <2>1, <2>3, <2>4, StdSame
<1>5. ASSUME NEW p \in Procs, InitReaps(p) PROVE StdInv'
  <2>1. UNCHANGED <<stdin, stdout>> /\ pc[p] = "orphan" /\ Goto(p, "gone")
    BY <1>5 DEF InitReaps, At, descriptors
  <2>2. pc'[p] = "gone" /\ \A q \in Procs : q # p => pc'[q] = pc[q]
    BY <1>0, <2>1, GotoFacts DEF Labels
  <2> QED
    BY <2>1, <2>2, StdSame
<1> QED
  BY <1>1, <1>2, <1>3, <1>4, <1>5 DEF Next, Step, NodeStep, Done

LEMMA StdInitially == Init => StdInv
<1> SUFFICES ASSUME Init PROVE StdInv
  OBVIOUS
<1>1. StdTypes
  BY DEF Init, StdTypes, Outputs
<1>2. ASSUME NEW c \in Procs PROVE StdOf(c)
  BY DEF Init, StdOf, Redirected
<1> QED
  BY <1>1, <1>2 DEF StdInv

-----------------------------------------------------------------------------
(* The numbers.                                                              *)

Ints == -IntLimit .. IntLimit - 1

NumInv == /\ num1 \in [Procs -> Ints] /\ num2 \in [Procs -> Ints] /\ res \in [Procs -> Ints]
          /\ failed \subseteq {"root", "below"}

Early == {"redirect", "close", "input"}
HandedOver == {"closeTo", "receive", "wait"}
Finished == {"exit", "zombie", "orphan", "gone"}

\* A child writes one number and nothing before it ends.
AnswerOf(c) ==
    c # Root =>
        /\ Len(data[PipeTo(c)]) <= 2 /\ Len(data[PipeFrom(c)]) <= 1
        /\ pc[c] \notin Finished => data[PipeFrom(c)] = <<>>

\* What its parent has sent is there until the child reads it: one number for
\* a subtree, two for a program.
SentBy(p) ==
    pc[p] \in HandedOver /\ pc[Child(p)] \in Early =>
        Len(data[PipeTo(Child(p))]) = IF stage[p] = "own" THEN 2 ELSE 1

PipesInv ==
    /\ data \in [Pipes -> Seq(Ints)]
    /\ \A c \in Procs : AnswerOf(c)
    /\ \A p \in Procs : SentBy(p)

LEMMA IntsFacts ==
    /\ IntLimit \in Nat /\ IntLimit >= 2 /\ Ints \subseteq Int /\ 0 \in Ints /\ 1 \in Ints
    /\ Inputs \subseteq Ints /\ Garbage \subseteq Ints
<1>1. IntLimit \in Nat /\ IntLimit >= 2
  BY TreeAssumption
<1>2. Ints \subseteq Int /\ 0 \in Ints /\ 1 \in Ints
  BY <1>1 DEF Ints
<1>3. \A m \in Magnitudes : m \in Ints /\ -m \in Ints
  BY <1>1, TreeAssumption DEF Ints
<1> QED
  BY <1>1, <1>2, <1>3, TreeAssumption DEF Inputs, Ints

\* An overflow wraps around within an int.
LEMMA WrapFacts ==
    ASSUME NEW n \in Int
    PROVE  Wrap(n) \in Ints
<1>1. IntLimit \in Nat /\ IntLimit >= 2
  BY IntsFacts
<1> DEFINE m == 2 * IntLimit
           k == (n + IntLimit) % m
<1>2. m \in Nat /\ m > 0 /\ n + IntLimit \in Int
  BY <1>1
<1>3. k \in 0..(m - 1)
  <2> DEFINE a == n + IntLimit
  <2>1. a \in Int
    BY <1>2
  <2> HIDE DEF m, a
  <2>2. a % m \in 0..(m - 1)
    BY <1>2, <2>1
  <2> QED
    BY <2>2 DEF a
<1> HIDE DEF k
<1>4. k - IntLimit \in Ints
  BY <1>1, <1>3 DEF Ints
<1> QED
  BY <1>4 DEF Wrap, k

LEMMA ComputeFacts ==
    ASSUME NEW lr, NEW x \in Ints, NEW y \in Ints
    PROVE  Compute(lr, x, y) \in Ints
<1>1. x \in Int /\ y \in Int
  BY IntsFacts
<1>2. x + y \in Int /\ x * y \in Int
  BY <1>1
<1>3. CASE lr = 0
  BY <1>2, <1>3, WrapFacts DEF Compute
<1>4. CASE lr # 0
  BY <1>2, <1>4, WrapFacts DEF Compute
<1> QED
  BY <1>3, <1>4

LEMMA AsReadFacts ==
    ASSUME NEW x \in Ints
    PROVE  AsRead(x) \in Ints
<1>1. IntLimit \in Nat /\ ReadLimit \in Nat /\ x \in Int /\ -IntLimit <= x
  BY TreeAssumption DEF Ints
<1>2. CASE Kept(x)
  BY <1>2 DEF AsRead
<1>3. CASE ~Kept(x)
  <2>1. -x \in Nat /\ -x <= IntLimit
    BY <1>1, <1>3 DEF Kept
  <2> DEFINE m == -x
  <2>2. m \in Nat /\ m <= IntLimit
    BY <2>1
  <2> HIDE DEF m
  <2>3. m \div 10 \in Nat /\ m \div 10 <= m
    BY <2>2
  <2>4. -(m \div 10) \in Ints
    BY <1>1, <2>2, <2>3, IntsFacts DEF Ints
  <2> QED
    BY <1>3, <2>4 DEF AsRead, m
<1> QED
  BY <1>2, <1>3

LEMMA PipesDistinct ==
    ASSUME NEW c, NEW d
    PROVE  /\ PipeTo(c) = PipeTo(d) => c = d
           /\ PipeFrom(c) = PipeFrom(d) => c = d
           /\ PipeTo(c) # PipeFrom(d) /\ PipeTo(c) # Console /\ PipeTo(c) # Closed
           /\ PipeFrom(c) # Console /\ PipeFrom(c) # Closed
BY DEF PipeTo, PipeFrom, Console, Closed

LEMMA AttendedChild ==
    ASSUME TreeInv, RoomInv, NEW p \in Procs, pc[p] \in HandedOver \/ Attended(p)
    PROVE  Child(p) \in Procs /\ Child(p) # Root /\ Child(p) # p
<1>1. Attended(p)
  BY DEF Attended, HandedOver
<1>2. Child(p) \in Procs
  BY <1>1 DEF RoomInv, RoomOf
<1> QED
  BY <1>2, FrontOfChild DEF TreeInv

\* A step that leaves the pipes alone: nobody comes back from its end, and a
\* parent that has sent goes on with a child that has not read.
LEMMA PipesSame ==
    ASSUME TreeInv, RoomInv, PipesInv, data' = data,
           \A q \in Procs : pc[q] \in Finished => pc'[q] \in Finished,
           \A q \in Procs : pc'[q] \in HandedOver => /\ pc[q] \in HandedOver
                                                     /\ stage'[q] = stage[q]
                                                     /\ pc'[Child(q)] \in Early =>
                                                            pc[Child(q)] \in Early
    PROVE  PipesInv'
<1>1. data' \in [Pipes -> Seq(Ints)]
  BY DEF PipesInv
<1>2. ASSUME NEW c \in Procs PROVE AnswerOf(c)'
  BY DEF PipesInv, AnswerOf
<1>3. ASSUME NEW p \in Procs PROVE SentBy(p)'
  <2> SUFFICES ASSUME pc'[p] \in HandedOver PROVE SentBy(p)'
    BY DEF SentBy
  <2>1. Child(p)' = Child(p) /\ stage'[p] = stage[p]
    BY DEF Child
  <2> QED
    BY <2>1 DEF PipesInv, SentBy
<1> QED
  BY <1>1, <1>2, <1>3 DEF PipesInv, Ints

\* A process reads its input: its pipe is empty from then on.
LEMMA PipesRead ==
    ASSUME TreeInv, RoomInv, PipesInv, NEW p \in Procs, p # Root, pc[p] = "input",
           OthersStay(p), pc'[p] \notin Early \cup HandedOver \cup Finished,
           data' = [data EXCEPT ![PipeTo(p)] = <<>>]
    PROVE  PipesInv'
<1>1. PipeTo(p) \in Pipes /\ <<>> \in Seq(Ints) /\ data \in [Pipes -> Seq(Ints)]
  BY ChildPipes, EmptySeq DEF PipesInv
<1>2. data' \in [Pipes -> Seq(Ints)]
  BY <1>1
<1>3. data'[PipeTo(p)] = <<>> /\ \A pipe \in Pipes : pipe # PipeTo(p) => data'[pipe] = data[pipe]
  BY <1>1
<1>4. ASSUME NEW c \in Procs PROVE AnswerOf(c)'
  <2> SUFFICES ASSUME c # Root
               PROVE  /\ Len(data'[PipeTo(c)]) <= 2 /\ Len(data'[PipeFrom(c)]) <= 1
                      /\ pc'[c] \notin Finished => data'[PipeFrom(c)] = <<>>
    BY DEF AnswerOf
  <2>1. PipeTo(c) \in Pipes /\ PipeFrom(c) \in Pipes
    BY ChildPipes
  <2>2. data'[PipeFrom(c)] = data[PipeFrom(c)]
    BY <1>3, <2>1, PipesDistinct
  <2>3. Len(data'[PipeTo(c)]) <= 2
    <3>1. CASE c = p
      BY <1>3, <3>1, EmptySeq
    <3>2. CASE c # p
      BY <1>3, <2>1, <3>2, PipesDistinct DEF PipesInv, AnswerOf
    <3> QED
      BY <3>1, <3>2
  <2>4. pc'[c] \notin Finished => pc[c] \notin Finished
    BY DEF OthersStay, Finished
  <2> QED
    BY <2>2, <2>3, <2>4 DEF PipesInv, AnswerOf
<1>5. ASSUME NEW q \in Procs PROVE SentBy(q)'
  <2> SUFFICES ASSUME pc'[q] \in HandedOver, pc'[Child(q)'] \in Early PROVE SentBy(q)'
    BY DEF SentBy
  <2>1. q # p /\ pc'[q] = pc[q] /\ stage'[q] = stage[q] /\ Child(q)' = Child(q)
    BY DEF OthersStay, Child
  <2>2. Child(q) \in Procs /\ Child(q) # Root
    BY <2>1, AttendedChild
  <2>3. Child(q) # p /\ pc[Child(q)] \in Early
    BY <2>1, <2>2 DEF OthersStay
  <2>4. data'[PipeTo(Child(q))] = data[PipeTo(Child(q))]
    BY <1>3, <2>2, <2>3, PipesDistinct, ChildPipes
  <2> QED
    BY <2>1, <2>3, <2>4 DEF PipesInv, SentBy
<1> QED
  BY <1>2, <1>4, <1>5 DEF PipesInv, Ints

LEMMA SendPipes ==
    ASSUME TreeInv, RoomInv, NumInv, PipesInv, NEW p \in Procs, Send(p), NEW c, c = Child(p)
    PROVE  PipesInv'
<1> DEFINE sent == IF stage[p] = "own" THEN <<num1[p], num2[p]>>
                   ELSE IF stage[p] = "left" THEN <<num1[p]>> ELSE <<res[p]>>
<1>1. /\ pc[p] = "send" /\ Goto(p, "closeTo") /\ stage' = stage
      /\ data' = [data EXCEPT ![PipeTo(c)] = sent]
  BY DEF Send, At
<1>2. c \in Procs /\ c # Root /\ c # p
  BY <1>1, AttendedChild DEF Attended
<1>3. pc'[p] = "closeTo" /\ \A q \in Procs : q # p => pc'[q] = pc[q]
  BY <1>1, GotoFacts DEF TreeInv, PcTypes, Labels
<1>4. /\ sent \in Seq(Ints) /\ Len(sent) <= 2
      /\ Len(sent) = IF stage[p] = "own" THEN 2 ELSE 1
  <2>1. num1[p] \in Ints /\ num2[p] \in Ints /\ res[p] \in Ints
    BY DEF NumInv
  <2>2. CASE stage[p] = "own"
    BY <2>1, <2>2
  <2>3. CASE stage[p] = "left"
    BY <2>1, <2>3
  <2>4. CASE stage[p] # "own" /\ stage[p] # "left"
    BY <2>1, <2>4
  <2> QED
    BY <2>2, <2>3, <2>4
<1> HIDE DEF sent
<1>5. PipeTo(c) \in Pipes /\ data \in [Pipes -> Seq(Ints)]
  BY <1>2, ChildPipes DEF PipesInv
<1>6. data' \in [Pipes -> Seq(Ints)]
  BY <1>1, <1>4, <1>5
<1>7. data'[PipeTo(c)] = sent /\ \A pipe \in Pipes : pipe # PipeTo(c) => data'[pipe] = data[pipe]
  BY <1>1, <1>5
<1>8. ASSUME NEW d \in Procs PROVE AnswerOf(d)'
  <2> SUFFICES ASSUME d # Root
               PROVE  /\ Len(data'[PipeTo(d)]) <= 2 /\ Len(data'[PipeFrom(d)]) <= 1
                      /\ pc'[d] \notin Finished => data'[PipeFrom(d)] = <<>>
    BY DEF AnswerOf
  <2>1. PipeTo(d) \in Pipes /\ PipeFrom(d) \in Pipes
    BY ChildPipes
  <2>2. data'[PipeFrom(d)] = data[PipeFrom(d)]
    BY <1>7, <2>1, PipesDistinct
  <2>3. Len(data'[PipeTo(d)]) <= 2
    <3>1. CASE d = c
      BY <1>4, <1>7, <3>1
    <3>2. CASE d # c
      BY <1>7, <2>1, <3>2, PipesDistinct DEF PipesInv, AnswerOf
    <3> QED
      BY <3>1, <3>2
  <2>4. pc'[d] \notin Finished => pc[d] \notin Finished
    BY <1>1, <1>3 DEF Finished
  <2> QED
    BY <2>2, <2>3, <2>4 DEF PipesInv, AnswerOf
<1>9. ASSUME NEW q \in Procs PROVE SentBy(q)'
  <2> SUFFICES ASSUME pc'[q] \in HandedOver, pc'[Child(q)'] \in Early PROVE SentBy(q)'
    BY DEF SentBy
  <2>1. Child(q)' = Child(q) /\ stage'[q] = stage[q]
    BY <1>1 DEF Child
  <2>2. CASE q = p
    BY <1>4, <1>7, <2>1, <2>2 DEF SentBy
  <2>3. CASE q # p
    <3>1. pc[q] \in HandedOver /\ Child(q) # c
      BY <1>3, <2>3, OneParent DEF TreeInv
    <3>2. Child(q) \in Procs /\ Child(q) # Root
      BY <3>1, AttendedChild
    <3>3. pc[Child(q)] \in Early
      BY <1>3, <2>1, <3>2 DEF Early
    <3>4. data'[PipeTo(Child(q))] = data[PipeTo(Child(q))]
      BY <1>7, <3>1, <3>2, PipesDistinct, ChildPipes
    <3> QED
      BY <2>1, <3>1, <3>3, <3>4 DEF PipesInv, SentBy
  <2> QED
    BY <2>2, <2>3
<1> QED
  BY <1>6, <1>8, <1>9 DEF PipesInv, Ints

\* An answer is written to the pipe from a child, or taken out of it.
LEMMA PipesAnswer ==
    ASSUME TreeInv, RoomInv, PipesInv, NEW c \in Procs, c # Root,
           NEW w \in Seq(Ints), Len(w) <= 1, pc'[c] \notin Finished => w = <<>>,
           data' = [data EXCEPT ![PipeFrom(c)] = w],
           \A q \in Procs : pc[q] \in Finished => pc'[q] \in Finished,
           \A q \in Procs : pc'[q] \in HandedOver => /\ pc[q] \in HandedOver
                                                     /\ stage'[q] = stage[q]
                                                     /\ pc'[Child(q)] \in Early =>
                                                            pc[Child(q)] \in Early
    PROVE  PipesInv'
<1>1. PipeFrom(c) \in Pipes /\ data \in [Pipes -> Seq(Ints)]
  BY ChildPipes DEF PipesInv
<1>2. data' \in [Pipes -> Seq(Ints)]
  BY <1>1
<1>3. data'[PipeFrom(c)] = w /\ \A pipe \in Pipes : pipe # PipeFrom(c) => data'[pipe] = data[pipe]
  BY <1>1
<1>4. ASSUME NEW d \in Procs PROVE AnswerOf(d)'
  <2> SUFFICES ASSUME d # Root
               PROVE  /\ Len(data'[PipeTo(d)]) <= 2 /\ Len(data'[PipeFrom(d)]) <= 1
                      /\ pc'[d] \notin Finished => data'[PipeFrom(d)] = <<>>
    BY DEF AnswerOf
  <2>1. PipeTo(d) \in Pipes /\ PipeFrom(d) \in Pipes
    BY ChildPipes
  <2>2. data'[PipeTo(d)] = data[PipeTo(d)]
    BY <1>3, <2>1, PipesDistinct
  <2>3. CASE d = c
    BY <1>3, <2>2, <2>3 DEF PipesInv, AnswerOf
  <2>4. CASE d # c
    <3>1. data'[PipeFrom(d)] = data[PipeFrom(d)]
      BY <1>3, <2>1, <2>4, PipesDistinct
    <3> QED
      BY <2>2, <3>1 DEF PipesInv, AnswerOf
  <2> QED
    BY <2>3, <2>4
<1>5. ASSUME NEW q \in Procs PROVE SentBy(q)'
  <2> SUFFICES ASSUME pc'[q] \in HandedOver PROVE SentBy(q)'
    BY DEF SentBy
  <2>1. Child(q)' = Child(q) /\ stage'[q] = stage[q]
    BY DEF Child
  <2>2. data'[PipeTo(Child(q))] = data[PipeTo(Child(q))]
    BY <1>3, PipesDistinct, AttendedChild, ChildPipes
  <2> QED
    BY <2>1, <2>2 DEF PipesInv, SentBy
<1> QED
  BY <1>2, <1>4, <1>5 DEF PipesInv, Ints

\* The steps of one process, as far as PipesSame and PipesAnswer need them.
LEMMA PipesAlone ==
    ASSUME TreeInv, RoomInv, NEW p \in Procs, OthersStay(p),
           pc[p] \in Finished => pc'[p] \in Finished,
           pc'[p] \in HandedOver => pc[p] \in HandedOver /\ stage'[p] = stage[p],
           pc'[p] \in Early => pc[p] \in Early
    PROVE  /\ \A q \in Procs : pc[q] \in Finished => pc'[q] \in Finished
           /\ \A q \in Procs : pc'[q] \in HandedOver =>
                /\ pc[q] \in HandedOver /\ stage'[q] = stage[q]
                /\ pc'[Child(q)] \in Early => pc[Child(q)] \in Early
<1>1. \A q \in Procs : pc[q] \in Finished => pc'[q] \in Finished
  BY DEF OthersStay
<1>2. \A q \in Procs : pc'[q] \in HandedOver => pc[q] \in HandedOver /\ stage'[q] = stage[q]
  BY DEF OthersStay
<1>3. \A q \in Procs : pc'[q] \in Early => pc[q] \in Early
  BY DEF OthersStay
<1>4. \A q \in Procs : pc[q] \in HandedOver => Child(q) \in Procs
  BY AttendedChild
<1> QED
  BY <1>1, <1>2, <1>3, <1>4

LEMMA ReceivePipes ==
    ASSUME TreeInv, RoomInv, PipesInv, NEW p \in Procs, Receive(p)
    PROVE  PipesInv'
<1> DEFINE c == Child(p)
<1>1. /\ pc[p] = "receive" /\ Goto(p, "wait") /\ stage' = stage /\ strays' = strays
      /\ data' = [data EXCEPT ![PipeFrom(c)] = <<>>]
  BY DEF Receive, At, programs
<1>2. c \in Procs /\ c # Root
  BY <1>1, AttendedChild DEF HandedOver
<1>3. pc'[p] = "wait" /\ OthersStay(p)
  BY <1>1, GotoFacts DEF TreeInv, PcTypes, Labels, OthersStay
<1>4. <<>> \in Seq(Ints) /\ Len(<<>>) <= 1
  BY EmptySeq
<1>5. /\ \A q \in Procs : pc[q] \in Finished => pc'[q] \in Finished
      /\ \A q \in Procs : pc'[q] \in HandedOver =>
           /\ pc[q] \in HandedOver /\ stage'[q] = stage[q]
           /\ pc'[Child(q)] \in Early => pc[Child(q)] \in Early
  BY <1>1, <1>3, PipesAlone DEF Finished, HandedOver, Early
<1> HIDE DEF c
<1> QED
  BY <1>1, <1>2, <1>4, <1>5, PipesAnswer

LEMMA DeliverPipes ==
    ASSUME TreeInv, RoomInv, StdInv, NumInv, PipesInv, NEW p \in Procs, Deliver(p)
    PROVE  PipesInv'
<1>1. /\ pc[p] = "deliver" /\ Goto(p, "exit") /\ stage' = stage /\ strays' = strays
      /\ data' = data \/ data' = [data EXCEPT ![stdout[p]] = Append(data[stdout[p]], res[p])]
  BY DEF Deliver, At, programs
<1>2. pc'[p] = "exit" /\ OthersStay(p)
  BY <1>1, GotoFacts DEF TreeInv, PcTypes, Labels, OthersStay
<1>3. /\ \A q \in Procs : pc[q] \in Finished => pc'[q] \in Finished
      /\ \A q \in Procs : pc'[q] \in HandedOver =>
           /\ pc[q] \in HandedOver /\ stage'[q] = stage[q]
           /\ pc'[Child(q)] \in Early => pc[Child(q)] \in Early
  BY <1>1, <1>2, PipesAlone DEF Finished, HandedOver, Early
<1>4. CASE data' = data
  BY <1>3, <1>4, PipesSame
<1>5. CASE p = Root /\ data' # data
  <2>1. stdout[p] \in {Console, Closed}
    BY <1>5 DEF StdInv, StdOf
  <2>2. stdout[p] \notin Pipes
    BY <2>1, PipesDistinct DEF Pipes
  <2> QED
    BY <1>1, <1>5, <2>2 DEF PipesInv
<1>6. CASE p # Root /\ data' # data
  <2>1. stdout[p] = PipeFrom(p)
    BY <1>1, <1>6 DEF StdInv, StdOf, Redirected
  <2>2. data[PipeFrom(p)] = <<>>
    BY <1>1, <1>6 DEF PipesInv, AnswerOf, Finished
  <2> DEFINE w == Append(<<>>, res[p])
  <2>3. w \in Seq(Ints) /\ Len(w) <= 1
    <3>1. res[p] \in Ints /\ <<>> \in Seq(Ints) /\ Len(<<>>) = 0
      BY EmptySeq DEF NumInv
    <3> QED
      BY <3>1, AppendProperties
  <2>4. data' = [data EXCEPT ![PipeFrom(p)] = w]
    BY <1>1, <1>6, <2>1, <2>2
  <2>5. pc'[p] \in Finished
    BY <1>2 DEF Finished
  <2> HIDE DEF w
  <2> QED
    BY <1>3, <1>6, <2>3, <2>4, <2>5, PipesAnswer
<1> QED
  BY <1>4, <1>5, <1>6

LEMMA ReadPipes ==
    ASSUME TreeInv, RoomInv, StdInv, PipesInv, NEW p \in Procs, ReadNum1(p)
    PROVE  PipesInv'
<1>1. /\ pc[p] = "input" /\ Goto(p, "fork") /\ strays' = strays
      /\ stage' = [stage EXCEPT ![p] = IF IsLeaf(p) THEN "own" ELSE "left"]
  BY DEF ReadNum1, At, programs
<1>2. pc'[p] = "fork" /\ OthersStay(p)
  BY <1>1, GotoFacts DEF TreeInv, PcTypes, Labels, OthersStay
<1>3. CASE p = Root /\ data' = data
  <2>1. /\ \A q \in Procs : pc[q] \in Finished => pc'[q] \in Finished
        /\ \A q \in Procs : pc'[q] \in HandedOver =>
             /\ pc[q] \in HandedOver /\ stage'[q] = stage[q]
             /\ pc'[Child(q)] \in Early => pc[Child(q)] \in Early
    BY <1>1, <1>2, PipesAlone DEF Finished, HandedOver, Early
  <2> QED
    BY <1>3, <2>1, PipesSame
<1>4. CASE p # Root /\ data' = [data EXCEPT ![stdin[p]] = <<>>]
  <2>1. stdin[p] = PipeTo(p)
    BY <1>1, <1>4 DEF StdInv, StdOf, Redirected
  <2>2. pc'[p] \notin Early \cup HandedOver \cup Finished
    BY <1>2 DEF Early, HandedOver, Finished
  <2> QED
    BY <1>1, <1>2, <1>4, <2>1, <2>2, PipesRead
<1> QED
  BY <1>3, <1>4 DEF ReadNum1

LEMMA RunPipes ==
    ASSUME TreeInv, RoomInv, StdInv, PipesInv, NEW w \in Procs, IsProgram(w), RunProgram(w)
    PROVE  PipesInv'
<1>1. /\ pc[w] = "input" /\ Goto(w, "deliver") /\ strays' = strays /\ stage' = stage
      /\ data' = [data EXCEPT ![stdin[w]] = <<>>] /\ w # Root
  BY DEF RunProgram, At, programs, IsProgram
<1>2. pc'[w] = "deliver" /\ OthersStay(w)
  BY <1>1, GotoFacts DEF TreeInv, PcTypes, Labels, OthersStay
<1>3. stdin[w] = PipeTo(w)
  BY <1>1 DEF StdInv, StdOf, Redirected
<1>4. pc'[w] \notin Early \cup HandedOver \cup Finished
  BY <1>2 DEF Early, HandedOver, Finished
<1> QED
  BY <1>1, <1>2, <1>3, <1>4, PipesRead

LEMMA ForkPipes ==
    ASSUME TreeInv, RoomInv, PipesInv, NEW p \in Procs, Fork(p), NEW c, c = Child(p)
    PROVE  PipesInv'
<1>1. /\ pc[p] = "fork" /\ pc' = [pc EXCEPT ![p] = "closeTheirs", ![c] = "redirect"]
      /\ stage' = [stage EXCEPT ![c] = stage[p]] /\ data' = data
  BY DEF Fork, At
<1>2. c \in Procs /\ c # p /\ PcTypes
  BY <1>1, ThereIsRoom, FrontOfChild DEF TreeInv
<1>3. /\ pc'[p] = "closeTheirs" /\ pc'[c] = "redirect"
      /\ \A q \in Procs : q # p /\ q # c => pc'[q] = pc[q] /\ stage'[q] = stage[q]
  BY <1>1, <1>2 DEF PcTypes
<1>4. pc[c] = "unborn"
  <2>1. c \in Seq(Kids) /\ stage[p] \in Kids /\ c = Append(p, stage[p])
    BY <1>2, ProcFacts DEF PcTypes, Child
  <2>2. Below(Append(p, stage[p]), c) /\ ~Reached(p, stage[p])
    BY <1>1, <2>1, BelowItself DEF Reached, Attended, Over, Before
  <2> QED
    BY <1>2, <2>1, <2>2 DEF TreeInv, OneChild
<1>5. \A q \in Procs : pc[q] \in Finished => pc'[q] \in Finished
  BY <1>1, <1>3, <1>4 DEF Finished
<1>6. ASSUME NEW q \in Procs, pc'[q] \in HandedOver
      PROVE  /\ pc[q] \in HandedOver /\ stage'[q] = stage[q]
             /\ pc'[Child(q)] \in Early => pc[Child(q)] \in Early
  <2>1. q # p /\ q # c
    BY <1>3, <1>6 DEF HandedOver
  <2>2. pc[q] \in HandedOver /\ stage'[q] = stage[q] /\ Child(q) # c
    BY <1>2, <1>3, <1>6, <2>1, OneParent
  <2>3. Child(q) \in Procs
    BY <2>2, AttendedChild
  <2> QED
    BY <1>3, <2>2, <2>3 DEF Early
<1> QED
  BY <1>1, <1>5, <1>6, PipesSame

LEMMA WaitPipes ==
    ASSUME TreeInv, RoomInv, PipesInv, NEW p \in Procs, Wait(p), NEW c, c = Child(p)
    PROVE  PipesInv'
<1>1. /\ pc[p] = "wait" /\ pc[c] = "zombie" /\ NextStage(p) /\ data' = data
      /\ pc' = [pc EXCEPT ![p] = Following(p), ![c] = "gone"]
  BY DEF Wait, At
<1>2. c \in Procs /\ c # p /\ PcTypes
  BY <1>1, AttendedChild DEF HandedOver, TreeInv
<1>3. /\ pc'[p] \in {"deliver", "fork"} /\ pc'[c] = "gone"
      /\ \A q \in Procs : q # p => stage'[q] = stage[q]
      /\ \A q \in Procs : q # p /\ q # c => pc'[q] = pc[q]
  BY <1>1, <1>2, NextStageFacts DEF Following, PcTypes
<1>4. \A q \in Procs : pc[q] \in Finished => pc'[q] \in Finished
  BY <1>1, <1>3 DEF Finished
<1>5. \A q \in Procs : pc'[q] \in Early => pc[q] \in Early
  BY <1>3 DEF Early
<1>6. \A q \in Procs : pc'[q] \in HandedOver => pc[q] \in HandedOver /\ stage'[q] = stage[q]
  BY <1>3 DEF HandedOver
<1>7. \A q \in Procs : pc[q] \in HandedOver => Child(q) \in Procs
  BY AttendedChild
<1> QED
  BY <1>1, <1>4, <1>5, <1>6, <1>7, PipesSame

LEMMA BrokenPipePipes ==
    ASSUME TreeInv, RoomInv, PipesInv, NEW p \in Procs, BrokenPipe(p), Deserted(p),
           NEW c, c = Child(p)
    PROVE  PipesInv'
<1>1. /\ UNCHANGED <<stage, strays>> /\ pc[c] \in {"zombie", "orphan", "gone"}
      /\ pc'[p] \in {"zombie", "gone"} /\ pc'[c] \in {"orphan", "gone"}
      /\ \A q \in Procs : q # p /\ q # c => pc'[q] = pc[q]
  BY BrokenPipeFacts DEF TreeInv
<1>2. data' = data
  BY DEF BrokenPipe
<1>3. \A q \in Procs : pc[q] \in Finished => pc'[q] \in Finished
  BY <1>1 DEF Finished
<1>4. \A q \in Procs : pc'[q] \in Early => pc[q] \in Early
  BY <1>1 DEF Early
<1>5. \A q \in Procs : pc'[q] \in HandedOver => pc[q] \in HandedOver /\ stage'[q] = stage[q]
  BY <1>1 DEF HandedOver
<1>6. \A q \in Procs : pc[q] \in HandedOver => Child(q) \in Procs
  BY AttendedChild
<1> QED
  BY <1>2, <1>3, <1>4, <1>5, <1>6, PipesSame

\* The other steps leave the pipes alone.
LEMMA QuietPipes ==
    ASSUME TreeInv, RoomInv, PipesInv, NEW p \in Procs,
           \/ ForkFails(p) \/ Redirect(p) \/ CloseAndExec(p) \/ GoOnLost(p)
           \/ CloseTheirs(p) \/ CloseTo(p) \/ Exit(p) \/ InitReaps(p)
    PROVE  PipesInv'
<1>1. data' = data
  BY DEF ForkFails, Redirect, CloseAndExec, GoOnLost, CloseTheirs, CloseTo, Exit, InitReaps
<1>2. PICK l \in Labels :
        /\ Goto(p, l)
        /\ \/ pc[p] \in {"fork", "exit", "closeTheirs", "orphan"} /\ l \notin Early \cup HandedOver
           \/ pc[p] \in Early /\ l \notin HandedOver
           \/ pc[p] = "closeTo" /\ l = "receive" /\ stage' = stage
        /\ pc[p] \in {"exit", "orphan"} => l \in Finished
  BY DEF ForkFails, Redirect, CloseAndExec, GoOnLost, CloseTheirs, CloseTo, Exit, InitReaps,
         Following, Ended, At, Labels, Early, HandedOver, Finished
<1>3. pc'[p] = l /\ \A q \in Procs : q # p => pc'[q] = pc[q]
  BY <1>2, GotoFacts DEF TreeInv, PcTypes
<1>4. \A q \in Procs : q # p => stage'[q] = stage[q]
  <2>1. stage' = stage \/ NextStage(p)
    BY DEF ForkFails, Redirect, CloseAndExec, GoOnLost, CloseTheirs, CloseTo, Exit, InitReaps
  <2> QED
    BY <2>1, NextStageFacts DEF TreeInv
<1>5. \A q \in Procs : pc[q] \in Finished => pc'[q] \in Finished
  BY <1>2, <1>3 DEF Finished, Early
<1>6. \A q \in Procs : pc'[q] \in Early => pc[q] \in Early
  BY <1>2, <1>3 DEF Early, HandedOver
<1>7. \A q \in Procs : pc'[q] \in HandedOver => pc[q] \in HandedOver /\ stage'[q] = stage[q]
  BY <1>2, <1>3, <1>4 DEF HandedOver
<1>8. \A q \in Procs : pc[q] \in HandedOver => Child(q) \in Procs
  BY AttendedChild
<1> QED
  BY <1>1, <1>5, <1>6, <1>7, <1>8, PipesSame

LEMMA PipesNext ==
    ASSUME TreeInv, RoomInv, StdInv, NumInv, PipesInv, [Next]_vars,
           \A p \in Procs : BrokenPipe(p) => Deserted(p)
    PROVE  PipesInv'
<1>1. CASE UNCHANGED vars
  BY <1>1 DEF vars, PipesInv, AnswerOf, SentBy, Child, Ints
<1>2. CASE \E p \in Procs : NodeStep(p)
  BY <1>2, ReadPipes, ForkPipes, SendPipes, BrokenPipePipes, ReceivePipes, WaitPipes, QuietPipes
  DEF NodeStep
<1>3. CASE \E p \in Procs : \/ IsProgram(p) /\ RunProgram(p)
                            \/ Redirect(p) \/ CloseAndExec(p) \/ Deliver(p) \/ Exit(p)
                            \/ ForkFails(p) \/ InitReaps(p)
  BY <1>3, RunPipes, DeliverPipes, QuietPipes
<1> QED
  BY <1>1, <1>2, <1>3 DEF Next, Step, Done

LEMMA ResultNumbers ==
    ASSUME NumInv, NEW p \in Procs, NEW x \in Ints, Result(p, x), failed' = failed
    PROVE  NumInv'
<1>1. CASE stage[p] = "left"
  BY <1>1 DEF Result, NumInv, Ints
<1>2. CASE stage[p] # "left"
  BY <1>2 DEF Result, NumInv, Ints
<1> QED
  BY <1>1, <1>2

LEMMA NumNext ==
    ASSUME TreeInv, RoomInv, StdInv, NumInv, PipesInv, [Next]_vars
    PROVE  NumInv'
<1>1. CASE UNCHANGED vars
  BY <1>1 DEF vars, numbers, NumInv, Ints
<1>2. ASSUME NEW p \in Procs, ReadNum1(p) PROVE NumInv'
  <2>1. /\ num2' = [num2 EXCEPT ![p] = IF IsLeaf(p) THEN 1 ELSE num2[p]]
        /\ res' = res /\ failed' = failed
    BY <1>2 DEF ReadNum1
  <2>2. \E x \in Ints : num1' = [num1 EXCEPT ![p] = x]
    <3>1. CASE p = Root /\ \E x \in Inputs : num1' = [num1 EXCEPT ![p] = x]
      BY <3>1, IntsFacts
    <3>2. CASE /\ p # Root /\ data[stdin[p]] # <<>>
               /\ num1' = [num1 EXCEPT ![p] = Head(data[stdin[p]])]
      <4>1. stdin[p] = PipeTo(p) /\ PipeTo(p) \in Pipes
        BY <1>2, <3>2, ChildPipes DEF ReadNum1, At, StdInv, StdOf, Redirected
      <4>2. Head(data[stdin[p]]) \in Ints
        BY <3>2, <4>1, HeadTailProperties DEF PipesInv
      <4> QED
        BY <3>2, <4>2
    <3> QED
      BY <1>2, <3>1, <3>2 DEF ReadNum1
  <2>3. num2' \in [Procs -> Ints]
    BY <2>1, IntsFacts DEF NumInv
  <2> QED
    BY <2>1, <2>2, <2>3 DEF NumInv, Ints
<1>3. ASSUME NEW p \in Procs, Fork(p) PROVE NumInv'
  BY <1>3 DEF Fork, NumInv, Ints
<1>4. ASSUME NEW p \in Procs, Receive(p) PROVE NumInv'
  <2> DEFINE d == data[PipeFrom(Child(p))]
             x == IF d # <<>> THEN AsRead(Head(d)) ELSE 0
  <2>1. pc[p] = "receive" /\ Result(p, x) /\ failed' = failed
    BY <1>4 DEF Receive, At
  <2>2. d \in Seq(Ints)
    BY <2>1, AttendedChild, ChildPipes DEF PipesInv, HandedOver
  <2> HIDE DEF d
  <2>3. x \in Ints
    <3>1. CASE d # <<>>
      BY <2>2, <3>1, HeadTailProperties, AsReadFacts
    <3>2. CASE d = <<>>
      BY <3>2, IntsFacts
    <3> QED
      BY <3>1, <3>2
  <2> HIDE DEF x
  <2> QED
    BY <2>1, <2>3, ResultNumbers
<1>5. ASSUME NEW c \in Procs, GoOnLost(c) PROVE NumInv'
  <2>1. PICK x \in Garbage : Result(c, x)
    BY <1>5 DEF GoOnLost
  <2> QED
    BY <1>5, <2>1, IntsFacts, ResultNumbers DEF GoOnLost
<1>6. ASSUME NEW w \in Procs, IsProgram(w), RunProgram(w) PROVE NumInv'
  <2> DEFINE d == data[PipeTo(w)]
  <2>1. pc[w] = "input" /\ w # Root
    BY <1>6 DEF RunProgram, At, IsProgram
  <2>2. stdin[w] = PipeTo(w) /\ PipeTo(w) \in Pipes
    BY <2>1, ChildPipes DEF StdInv, StdOf, Redirected
  <2>3. /\ res' = [res EXCEPT ![w] = Compute(LR(Front(w)), d[1], d[2])]
        /\ num1' = num1 /\ num2' = num2 /\ failed' = failed /\ Len(d) = 2
    BY <1>6, <2>2 DEF RunProgram
  <2>4. d \in Seq(Ints)
    BY <2>2 DEF PipesInv
  <2> HIDE DEF d
  <2>5. d[1] \in Ints /\ d[2] \in Ints
    <3>1. 1 \in 1..Len(d) /\ 2 \in 1..Len(d)
      BY <2>3
    <3> QED
      BY <2>4, <3>1, ElementOfSeq
  <2>6. Compute(LR(Front(w)), d[1], d[2]) \in Ints
    BY <2>5, ComputeFacts
  <2> QED
    BY <2>3, <2>6 DEF NumInv, Ints
<1>7. ASSUME NEW p \in Procs,
             \/ ForkFails(p) \/ Redirect(p) \/ CloseAndExec(p) \/ CloseTheirs(p) \/ Send(p)
             \/ BrokenPipe(p) \/ CloseTo(p) \/ Wait(p) \/ Deliver(p) \/ Exit(p) \/ InitReaps(p)
      PROVE  NumInv'
  <2>1. UNCHANGED numbers /\ failed' \in {failed, failed \cup {Place(p)}}
    BY <1>7 DEF ForkFails, Redirect, CloseAndExec, CloseTheirs, Send, BrokenPipe, CloseTo, Wait,
                Deliver, Exit, InitReaps
  <2>2. Place(p) \in {"root", "below"}
    BY DEF Place
  <2>3. failed' \subseteq {"root", "below"}
    BY <2>1, <2>2 DEF NumInv
  <2> QED
    BY <2>1, <2>3 DEF numbers, NumInv, Ints
<1> QED
  BY <1>1, <1>2, <1>3, <1>4, <1>5, <1>6, <1>7 DEF Next, Step, NodeStep, Done

LEMMA NumbersInitially == Init => NumInv /\ PipesInv
<1> SUFFICES ASSUME Init PROVE NumInv /\ PipesInv
  OBVIOUS
<1>1. NumInv
  BY IntsFacts DEF Init, NumInv
<1>2. /\ data \in [Pipes -> Seq(Ints)] /\ \A pipe \in Pipes : data[pipe] = <<>>
      /\ Len(<<>>) = 0
  BY EmptySeq DEF Init
<1>3. ASSUME NEW c \in Procs PROVE AnswerOf(c)
  BY <1>2, ChildPipes DEF AnswerOf
<1>4. ASSUME NEW p \in Procs PROVE SentBy(p)
  BY DEF Init, SentBy, HandedOver
<1> QED
  BY <1>1, <1>2, <1>3, <1>4 DEF PipesInv

-----------------------------------------------------------------------------
(* A write that nobody reads.                                                *)

\* A process that has not ended can read from the pipe to it: a write to it fails
\* only when it has.
LEMMA ReadersStay ==
    ASSUME TreeInv, RoomInv, EndsExact, StdInv
    PROVE  \A p \in Procs : BrokenPipe(p) => Deserted(p)
<1> SUFFICES ASSUME NEW p \in Procs, BrokenPipe(p) PROVE Deserted(p)
  OBVIOUS
<1> DEFINE c == Child(p)
<1>1. pc[p] = "send" /\ NoReader(PipeTo(c))
  BY DEF BrokenPipe, At
<1>2. c \in Procs /\ c # Root /\ Born(c)
  <2>1. Attended(p)
    BY <1>1 DEF Attended
  <2> QED
    BY <2>1, AttendedChild DEF RoomInv, RoomOf
<1> HIDE DEF c
<1>3. stdin[c] # PipeTo(c) /\ ReadEnd(PipeTo(c)) \notin Ends(c)
  BY <1>1, <1>2 DEF NoReader, EndsExact
<1>4. ~Redirected(c)
  BY <1>2, <1>3 DEF StdInv, StdOf
<1>5. pc[c] # "redirect"
  BY <1>3 DEF Ends, FourEnds
<1> QED
  BY <1>2, <1>4, <1>5 DEF Redirected, Born, Deserted, c

\* While a node holds the write end of the pipe to its child, the child reads no
\* input: it has not ended unless it could not start its program.  So only such a
\* child is left to init.
HeldBack(p) ==
    \/ pc[p] = "closeTheirs" /\ ~Lost(p)
    \/ pc[p] = "send"

StrayInv ==
    /\ \A p \in Procs : HeldBack(p) => pc[Child(p)] \in Early \/ Child(p) \in strays
    /\ \A c \in Procs : pc[c] = "orphan" => c \in strays

\* The pipe a node holds back has a writer: its child is not done reading.
LEMMA HeldIsWritten ==
    ASSUME TreeInv, RoomInv, EndsExact, StdInv, NEW p \in Procs, HeldBack(p),
           NEW c, c = Child(p)
    PROVE  c \in Procs /\ ~ReadNum1(c) /\ ~RunProgram(c)
<1>1. Attended(p) /\ WriteEnd(PipeTo(c)) \in Ends(p)
  BY DEF HeldBack, Attended, Ends, FourEnds
<1>2. c \in Procs /\ c # Root /\ WriteEnd(PipeTo(c)) \in open[p]
  BY <1>1, AttendedChild DEF EndsExact
<1>3. pc[c] = "input" => stdin[c] = PipeTo(c)
  BY <1>2 DEF StdInv, StdOf, Redirected
<1>4. ~NoWriter(PipeTo(c))
  BY <1>2 DEF NoWriter
<1> QED
  BY <1>2, <1>3, <1>4 DEF ReadNum1, RunProgram, At

\* A step of one process.
LEMMA StrayAlone ==
    ASSUME TreeInv, RoomInv, StrayInv, NEW q \in Procs, OthersStay(q), strays \subseteq strays',
           HeldBack(q)' => HeldBack(q) /\ stage'[q] = stage[q],
           pc[q] \in Early =>
               \/ pc'[q] \in Early \/ q \in strays'
               \/ \A p \in Procs : HeldBack(p) => Child(p) # q,
           pc'[q] # "orphan"
    PROVE  StrayInv'
<1>1. ASSUME NEW p \in Procs, HeldBack(p)'
      PROVE  (pc'[Child(p)] \in Early \/ Child(p) \in strays') /\ Child(p)' = Child(p)
  <2>1. HeldBack(p) /\ Child(p)' = Child(p)
    BY <1>1 DEF OthersStay, HeldBack, Child, Lost
  <2>2. Child(p) \in Procs
    BY <2>1, AttendedChild DEF HeldBack, Attended
  <2>3. pc[Child(p)] \in Early \/ Child(p) \in strays
    BY <2>1 DEF StrayInv
  <2> QED
    BY <2>1, <2>2, <2>3 DEF OthersStay
<1>2. \A p \in Procs : HeldBack(p)' => (pc[Child(p)] \in Early \/ Child(p) \in strays)'
  BY <1>1 DEF Early
<1>3. ASSUME NEW c \in Procs, pc'[c] = "orphan" PROVE c \in strays'
  BY <1>3 DEF OthersStay, StrayInv
<1> QED
  BY <1>2, <1>3 DEF StrayInv

\* A step of a node and its child.
LEMMA StrayTogether ==
    ASSUME TreeInv, RoomInv, StrayInv, NEW p \in Procs, NEW c \in Procs, c = Child(p), c # p,
           strays' = strays, pc[p] \notin Early,
           \A q \in Procs : q # p /\ q # c => pc'[q] = pc[q] /\ stage'[q] = stage[q],
           HeldBack(p)' => Child(p)' = c /\ pc'[c] \in Early, ~HeldBack(c)',
           pc'[p] # "orphan", pc'[c] = "orphan" => c \in strays
    PROVE  StrayInv'
<1>1. ASSUME NEW q \in Procs, HeldBack(q)', q # p
      PROVE  (pc'[Child(q)] \in Early \/ Child(q) \in strays') /\ Child(q)' = Child(q)
  <2>1. q # c
    BY <1>1
  <2>2. HeldBack(q) /\ Child(q)' = Child(q)
    BY <1>1, <2>1 DEF HeldBack, Child, Lost
  <2>3. Child(q) \in Procs /\ Child(q) # c
    BY <1>1, <2>2, AttendedChild, OneParent DEF HeldBack, Attended, TreeInv
  <2>4. pc[Child(q)] \in Early \/ Child(q) \in strays
    BY <2>2 DEF StrayInv
  <2> QED
    BY <2>2, <2>3, <2>4
<1>2. \A q \in Procs : HeldBack(q)' => (pc[Child(q)] \in Early \/ Child(q) \in strays)'
  BY <1>1 DEF Early
<1>3. ASSUME NEW q \in Procs, pc'[q] = "orphan" PROVE q \in strays'
  BY <1>3 DEF StrayInv
<1> QED
  BY <1>2, <1>3 DEF StrayInv

LEMMA ForkStray ==
    ASSUME TreeInv, RoomInv, StrayInv, NEW p \in Procs, Fork(p), NEW c, c = Child(p)
    PROVE  StrayInv'
<1>1. /\ pc[p] = "fork" /\ pc' = [pc EXCEPT ![p] = "closeTheirs", ![c] = "redirect"]
      /\ stage' = [stage EXCEPT ![c] = stage[p]] /\ strays' = strays
  BY DEF Fork, At, programs
<1>2. c \in Procs /\ c # p /\ PcTypes
  BY <1>1, ThereIsRoom, FrontOfChild DEF TreeInv
<1>3. /\ pc'[p] = "closeTheirs" /\ pc'[c] = "redirect" /\ stage'[p] = stage[p]
      /\ \A q \in Procs : q # p /\ q # c => pc'[q] = pc[q] /\ stage'[q] = stage[q]
  BY <1>1, <1>2 DEF PcTypes
<1>4. pc[p] \notin Early /\ pc'[c] \in Early /\ ~HeldBack(c)' /\ Child(p)' = c
  BY <1>1, <1>3 DEF Early, HeldBack, Child
<1> QED
  BY <1>1, <1>2, <1>3, <1>4, StrayTogether

LEMMA WaitStray ==
    ASSUME TreeInv, RoomInv, StrayInv, NEW p \in Procs, Wait(p), NEW c, c = Child(p)
    PROVE  StrayInv'
<1>1. /\ pc[p] = "wait" /\ NextStage(p) /\ strays' = strays
      /\ pc' = [pc EXCEPT ![p] = Following(p), ![c] = "gone"]
  BY DEF Wait, At, programs
<1>2. c \in Procs /\ c # p /\ PcTypes
  BY <1>1, AttendedChild DEF HandedOver, TreeInv
<1>3. /\ pc'[p] \in {"deliver", "fork"} /\ pc'[c] = "gone"
      /\ \A q \in Procs : q # p => stage'[q] = stage[q]
      /\ \A q \in Procs : q # p /\ q # c => pc'[q] = pc[q]
  BY <1>1, <1>2, NextStageFacts DEF Following, PcTypes
<1>4. pc[p] \notin Early /\ ~HeldBack(p)' /\ ~HeldBack(c)'
  BY <1>1, <1>3 DEF Early, HeldBack
<1> QED
  BY <1>1, <1>2, <1>3, <1>4, StrayTogether

LEMMA BrokenPipeStray ==
    ASSUME TreeInv, RoomInv, StrayInv, NEW p \in Procs, BrokenPipe(p), Deserted(p),
           NEW c, c = Child(p)
    PROVE  StrayInv'
<1>1. /\ pc[p] = "send" /\ UNCHANGED <<stage, strays>> /\ c \in Procs /\ c # p
      /\ pc[c] \in {"zombie", "orphan", "gone"}
      /\ pc'[p] \in {"zombie", "gone"} /\ pc'[c] \in {"orphan", "gone"}
      /\ \A q \in Procs : q # p /\ q # c => pc'[q] = pc[q]
  BY BrokenPipeFacts DEF TreeInv
<1>2. HeldBack(p) /\ pc[p] \notin Early /\ pc[c] \notin Early
  BY <1>1 DEF HeldBack, Early
<1>3. c \in strays
  BY <1>2 DEF StrayInv
<1>4. ~HeldBack(p)' /\ ~HeldBack(c)'
  BY <1>1 DEF HeldBack
<1> QED
  BY <1>1, <1>2, <1>3, <1>4, StrayTogether

LEMMA StrayNext ==
    ASSUME TreeInv, RoomInv, EndsExact, StdInv, StrayInv, [Next]_vars
    PROVE  StrayInv'
<1>0. PcTypes
  BY DEF TreeInv
<1>1. CASE UNCHANGED vars
  BY <1>1 DEF vars, programs, StrayInv, HeldBack, Child, Lost
<1>2. ASSUME NEW p \in Procs, Fork(p) \/ Wait(p) \/ BrokenPipe(p) PROVE StrayInv'
  BY <1>2, ForkStray, WaitStray, BrokenPipeStray, ReadersStay
<1>3. ASSUME NEW q \in Procs, ReadNum1(q) \/ RunProgram(q) PROVE StrayInv'
  <2>1. /\ Goto(q, "fork") \/ Goto(q, "deliver")
        /\ strays' = strays
    BY <1>3 DEF ReadNum1, RunProgram, programs
  <2>2. pc'[q] \in {"fork", "deliver"} /\ \A r \in Procs : r # q => pc'[r] = pc[r]
    BY <1>0, <2>1, GotoFacts DEF Labels
  <2>3. \A r \in Procs : r # q => stage'[r] = stage[r]
    BY <1>0, <1>3 DEF ReadNum1, RunProgram, PcTypes
  <2>4. OthersStay(q)
    BY <2>1, <2>2, <2>3 DEF OthersStay
  <2>5. ~HeldBack(q)' /\ pc'[q] # "orphan"
    BY <2>2 DEF HeldBack
  <2>6. \A p \in Procs : HeldBack(p) => Child(p) # q
    BY <1>3, HeldIsWritten
  <2> QED
    BY <2>1, <2>4, <2>5, <2>6, StrayAlone
<1>4. ASSUME NEW c \in Procs, Redirect(c) \/ CloseAndExec(c) PROVE StrayInv'
  <2>1. /\ stage' = stage /\ (c \in strays' \/ strays' = strays)
        /\ \/ Goto(c, "close") /\ strays' = strays
           \/ Goto(c, "closeTheirs") /\ strays' = strays \cup {c} /\ stage[c] = Last(c)
           \/ Goto(c, "input") /\ strays' = strays
    BY <1>4, OwnPartOf DEF Redirect, CloseAndExec, OwnPart, At, programs
  <2>2. /\ \/ pc'[c] \in {"close", "input"} /\ strays' = strays
           \/ pc'[c] = "closeTheirs" /\ strays' = strays \cup {c} /\ stage'[c] = Last(c)
        /\ \A r \in Procs : r # c => pc'[r] = pc[r]
    BY <1>0, <2>1, GotoFacts DEF Labels
  <2>3. OthersStay(c) /\ strays \subseteq strays'
    BY <2>1, <2>2 DEF OthersStay
  <2>4. ~HeldBack(c)' /\ pc'[c] # "orphan" /\ (pc'[c] \in Early \/ c \in strays')
    BY <2>2 DEF HeldBack, Lost, Early
  <2> QED
    BY <2>3, <2>4, StrayAlone
<1>5. ASSUME NEW q \in Procs,
             \/ CloseTheirs(q) \/ Send(q) \/ CloseTo(q) \/ Receive(q) \/ GoOnLost(q)
             \/ ForkFails(q) \/ Deliver(q) \/ Exit(q) \/ InitReaps(q)
      PROVE  StrayInv'
  <2>1. PICK l \in Labels :
          /\ Goto(q, l) /\ strays' = strays /\ pc[q] \notin Early
          /\ l \notin {"closeTheirs", "orphan"}
          /\ l = "send" => HeldBack(q) /\ stage' = stage
    BY <1>5
    DEF CloseTheirs, Send, CloseTo, Receive, GoOnLost, ForkFails, Deliver, Exit, InitReaps,
        Following, Ended, At, Labels, Early, HeldBack, programs
  <2>2. pc'[q] = l /\ \A r \in Procs : r # q => pc'[r] = pc[r]
    BY <1>0, <2>1, GotoFacts
  <2>3. \A r \in Procs : r # q => stage'[r] = stage[r]
    <3>1. stage' = stage \/ NextStage(q)
      BY <1>5
      DEF CloseTheirs, Send, CloseTo, Receive, GoOnLost, ForkFails, Deliver, Exit, InitReaps
    <3> QED
      BY <1>0, <3>1, NextStageFacts
  <2>4. OthersStay(q)
    BY <2>1, <2>2, <2>3 DEF OthersStay
  <2>5. (HeldBack(q)' => HeldBack(q) /\ stage'[q] = stage[q]) /\ pc'[q] # "orphan"
    BY <2>1, <2>2 DEF HeldBack
  <2> QED
    BY <2>1, <2>4, <2>5, StrayAlone
<1> QED
  BY <1>1, <1>2, <1>3, <1>4, <1>5 DEF Next, Step, NodeStep, Done

LEMMA StrayInitially == Init => StrayInv
BY DEF Init, StrayInv, HeldBack

-----------------------------------------------------------------------------
(* The theorems.                                                             *)

WholeInv == TreeInv /\ RoomInv /\ EndsExact /\ StdInv /\ NumInv /\ PipesInv /\ StrayInv

LEMMA WholeInvariant == Spec => []WholeInv
<1>1. Init => WholeInv
  BY TreeInit, RoomInitially, EndsInitially, StdInitially, NumbersInitially, StrayInitially
  DEF WholeInv
<1>2. WholeInv /\ [Next]_vars => WholeInv'
  BY ReadersStay, TreeStep, RoomNext, EndsNext, StdNext, NumNext, PipesNext, StrayNext
  DEF WholeInv
<1> QED
  BY <1>1, <1>2, PTL DEF Spec

\* However the processes are scheduled, and whatever forks and programs fail:
\* the processes that run, or have ended and wait for their parents, are on one
\* path down from the root, each attended by its parent.
THEOREM TreeInvariant == Spec => []TreeInv
<1>1. WholeInv => TreeInv
  BY DEF WholeInv
<1> QED
  BY <1>1, WholeInvariant, PTL

\* treePipe.c waits for each child before it exits, and so do the copies of a
\* node that could not start a program: when a process has ended nobody below it
\* is left running, nor unreaped but for a stray copy that ended before its parent
\* wrote to it.
THEOREM NoOrphans == Spec => []ParentsOutliveChildren
<1>1. WholeInv => ParentsOutliveChildren
  <2> SUFFICES ASSUME WholeInv, NEW p \in Procs, NEW q \in Procs,
                      pc[p] \in {"zombie", "orphan", "gone"}, p # q, Below(p, q)
               PROVE  pc[q] \in {"unborn", "gone"} \/ (pc[q] = "orphan" /\ q \in strays)
    BY DEF ParentsOutliveChildren
  <2>1. PICK s \in Kids : Below(Append(p, s), q)
    BY ChildOnTheWay, ProcFacts
  <2>2. ~Attended(p) /\ TreeInv
    BY DEF Attended, WholeInv
  <2>3. ~Alive(q)
    BY <2>1, <2>2, NobodyAlive
  <2> QED
    BY <2>3 DEF Alive, WholeInv, StrayInv
<1> QED
  BY <1>1, WholeInvariant, PTL

\* The program of a node runs after its left subtree and before its right one.
THEOREM TraversalIsInOrder == Spec => []InOrderTraversal
<1>1. WholeInv => InOrderTraversal
  <2> SUFFICES ASSUME WholeInv, NEW w \in Procs, IsProgram(w), Running(w),
                      NEW q \in Procs
               PROVE  /\ Below(Append(Front(w), "left"), q) =>
                             pc[q] \in {"unborn", "orphan", "gone"}
                      /\ Below(Append(Front(w), "right"), q) => pc[q] = "unborn"
    BY DEF InOrderTraversal
  <2> DEFINE p == Front(w)
  <2>1. p \in Procs /\ w = Append(p, "own") /\ p \in Seq(Kids) /\ w \in Seq(Kids)
    BY ParentFacts, ProcFacts DEF IsProgram
  <2>2. Alive(w)
    BY DEF Running, Alive
  <2>3. Below(Append(p, "own"), w)
    BY <2>1, BelowItself
  <2> HIDE DEF p
  <2>4. stage[p] = "own"
    BY <2>1, <2>2, <2>3 DEF WholeInv, TreeInv, OneChild, Kids
  <2>5. ~Reached(p, "right")
    BY <2>4 DEF Reached, Before
  <2>6. Below(Append(p, "left"), q) => ~Alive(q)
    BY <2>1, <2>4 DEF WholeInv, TreeInv, OneChild, Kids
  <2>7. Below(Append(p, "right"), q) => pc[q] = "unborn"
    BY <2>1, <2>5 DEF WholeInv, TreeInv, OneChild, Kids
  <2> QED
    BY <2>6, <2>7 DEF Alive, p
<1> QED
  BY <1>1, WholeInvariant, PTL

\* No process is deeper than the argument <max depth>, and every child that is
\* forked, by a node or by a stray copy of one, is one of those the model has:
\* its bound on the paths hides nobody.
THEOREM BoundHidesNobody ==
    Spec => [](\A p \in Procs : pc[p] = "fork" => Child(p) \in Procs)
<1>1. WholeInv => \A p \in Procs : pc[p] = "fork" => Child(p) \in Procs
  BY ThereIsRoom DEF WholeInv
<1> QED
  BY <1>1, WholeInvariant, PTL

\* The types of TreePipe; no process holds an end of a pipe that is neither its
\* own nor that of the child it is at, and no pipe takes more than two numbers.
THEOREM TreeTypeCorrect == Spec => []TypeOK
<1>1. WholeInv => TypeOK
  <2> SUFFICES ASSUME WholeInv PROVE TypeOK
    OBVIOUS
  <2>1. /\ pc \in [Procs -> Labels] /\ stage \in [Procs -> {"left", "own", "right"}]
        /\ strays \subseteq Procs \ {Root} /\ failed \subseteq {"root", "below"}
    BY DEF WholeInv, TreeInv, PcTypes, Kids, NumInv
  <2>2. \A n \in {num1, num2, res} : n \in [Procs -> -IntLimit .. IntLimit - 1]
    BY DEF WholeInv, NumInv, Ints
  <2>3. /\ stdin \in [Procs -> Pipes \cup {Console, Closed}]
        /\ stdout \in [Procs -> Pipes \cup {Console, Closed}]
    BY DEF WholeInv, StdInv, StdTypes, Outputs, Pipes
  <2>4. ASSUME NEW p \in Procs
        PROVE  open[p] \subseteq FourEnds(p) \cup IF IsProgram(p) THEN {}
                                                  ELSE FourEnds(Child(p))
    <3>1. open[p] = Ends(p)
      BY DEF WholeInv, EndsExact
    <3>2. IsProgram(p) => pc[p] \notin Busy
      BY DEF WholeInv, RoomInv, RoomOf
    <3>3. CASE pc[p] \in Busy
      <4>1. Ends(p) \subseteq FourEnds(Child(p))
        BY <3>3 DEF Ends, FourEnds, Busy
      <4> QED
        BY <3>1, <3>2, <3>3, <4>1
    <3>4. CASE pc[p] \notin Busy
      <4>1. Ends(p) \subseteq FourEnds(p)
        BY <3>4 DEF Ends, Busy
      <4> QED
        BY <3>1, <4>1
    <3> QED
      BY <3>3, <3>4
  <2>5. ASSUME NEW pipe \in Pipes PROVE Len(data[pipe]) <= 2
    <3>1. PICK c \in Procs \ {Root} : pipe \in {PipeTo(c), PipeFrom(c)}
      BY DEF Pipes
    <3>2. /\ Len(data[PipeTo(c)]) <= 2 /\ Len(data[PipeFrom(c)]) <= 1
          /\ PipeFrom(c) \in Pipes /\ data[PipeFrom(c)] \in Seq(Ints)
      BY <3>1, ChildPipes DEF WholeInv, PipesInv, AnswerOf
    <3>3. Len(data[PipeFrom(c)]) <= 2
      BY <3>2
    <3> QED
      BY <3>1, <3>2, <3>3
  <2> QED
    BY <2>1, <2>2, <2>3, <2>4, <2>5 DEF TypeOK
<1> QED
  BY <1>1, WholeInvariant, PTL

\* The close calls of treePipe.c leave no write end behind: a node never waits
\* for a child that waits for the end of its input, nor for a number from a child
\* that is gone.
THEOREM ReadsEnd == Spec => []NobodyReadsForEver
<1>1. WholeInv => NobodyReadsForEver
  <2> SUFFICES ASSUME WholeInv, NEW p \in Procs, pc[p] \in {"receive", "wait"},
                      NEW c, c = Child(p)
               PROVE  /\ pc[c] = "input" =>
                            /\ Len(data[PipeTo(c)]) = IF IsProgram(c) THEN 2 ELSE 1
                            /\ NoWriter(PipeTo(c))
                      /\ pc[c] = "zombie" => NoWriter(PipeFrom(c))
    BY DEF NobodyReadsForEver, At
  <2>1. /\ TreeInv /\ RoomInv /\ StdInv /\ PipesInv /\ PcTypes
        /\ \A q \in Procs : open[q] = Ends(q)
    BY DEF WholeInv, EndsExact, TreeInv
  <2>2. c \in Procs /\ c # Root /\ c # p /\ pc[p] \in HandedOver
    BY <2>1, AttendedChild DEF HandedOver
  <2>3. \A q \in Procs : q # p => Child(q) # c
    BY <2>1, OneParent
  <2>4. ASSUME NEW q \in Procs, pc[c] \notin {"redirect", "close"}
        PROVE  WriteEnd(PipeTo(c)) \notin Ends(q) /\ WriteEnd(PipeFrom(c)) \notin Ends(q)
    <3>1. \A d : d # c => /\ WriteEnd(PipeTo(c)) \notin FourEnds(d)
                          /\ WriteEnd(PipeFrom(c)) \notin FourEnds(d)
      BY DEF FourEnds, WriteEnd, ReadEnd, PipeTo, PipeFrom
    <3>2. CASE q = p
      BY <3>2 DEF Ends, WriteEnd, ReadEnd, PipeTo, PipeFrom
    <3>3. CASE q # p
      <4>1. Child(q) # c
        BY <2>3, <3>3
      <4>2. Ends(q) \subseteq FourEnds(q) \/ Ends(q) \subseteq FourEnds(Child(q))
        BY DEF Ends, FourEnds
      <4>3. q = c => Ends(q) \subseteq FourEnds(Child(q))
        BY <2>4 DEF Ends, FourEnds
      <4> QED
        BY <3>1, <4>1, <4>2, <4>3
    <3> QED
      BY <3>2, <3>3
  <2>5. ASSUME pc[c] = "input"
        PROVE  /\ Len(data[PipeTo(c)]) = IF IsProgram(c) THEN 2 ELSE 1
               /\ NoWriter(PipeTo(c))
    <3>1. c \notin strays
      BY <2>1, <2>2, <2>5, OwnPartOf DEF OwnPart
    <3>2. Last(c) = stage[p]
      BY <2>1, AppendFacts, ProcFacts DEF Child, PcTypes
    <3>3. IsProgram(c) <=> stage[p] = "own"
      BY <2>2, <3>1, <3>2 DEF IsProgram
    <3>4. Len(data[PipeTo(c)]) = IF stage[p] = "own" THEN 2 ELSE 1
      BY <2>1, <2>2, <2>5 DEF PipesInv, SentBy, Early
    <3>5. \A q \in Procs : stdout[q] # PipeTo(c)
      BY <2>1, PipesDistinct DEF StdInv, StdTypes, Outputs
    <3>6. NoWriter(PipeTo(c))
      BY <2>1, <2>4, <2>5, <3>5 DEF NoWriter
    <3> QED
      BY <3>3, <3>4, <3>6
  <2>6. ASSUME pc[c] = "zombie" PROVE NoWriter(PipeFrom(c))
    <3>1. ASSUME NEW q \in Procs PROVE pc[q] # "redirect" => stdout[q] # PipeFrom(c)
      <4>1. CASE q = Root
        BY <2>1, <4>1, PipesDistinct DEF StdInv, StdOf
      <4>2. CASE q # Root /\ Redirected(q)
        <5>1. stdout[q] = PipeFrom(q) /\ q # c
          BY <2>1, <2>6, <4>2 DEF StdInv, StdOf, Redirected
        <5> QED
          BY <5>1, PipesDistinct
      <4>3. CASE pc[q] \in {"unborn", "zombie", "orphan", "gone"}
        BY <2>1, <4>3, PipesDistinct DEF StdInv, StdOf
      <4> QED
        BY <4>1, <4>2, <4>3 DEF Redirected
    <3>2. ASSUME NEW q \in Procs, pc[q] = "redirect" PROVE stdout[q] # PipeFrom(c)
      <4>1. q # Root /\ Alive(q)
        BY <2>1, <3>2, OwnPartOf DEF OwnPart, Alive
      <4>2. Front(q) \in Procs /\ Attended(Front(q))
        BY <2>1, <4>1, ParentAttends
      <4>3. stdout[q] = stdout[Front(q)]
        BY <2>1, <3>2 DEF StdInv, StdOf
      <4>4. pc[Front(q)] # "redirect"
        BY <4>2 DEF Attended
      <4> QED
        BY <3>1, <4>2, <4>3, <4>4
    <3> QED
      BY <2>1, <2>4, <2>6, <3>1, <3>2 DEF NoWriter
  <2> QED
    BY <2>5, <2>6
<1> QED
  BY <1>1, WholeInvariant, PTL
=============================================================================
