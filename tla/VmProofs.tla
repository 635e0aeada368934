------------------------------ MODULE VmProofs ------------------------------
(***************************************************************************)
(* Theorems about module Vm, for every number of frames, pages, programs   *)
(* and words: its tables, its bitmap and its switches keep the processes   *)
(* apart, and so it implements the address spaces of PrivateSpaces.        *)
(***************************************************************************)
EXTENDS Vm, TLAPS

Valid(p, v) == table[p][v].valid
Pfn(p, v) == table[p][v].pfn

-----------------------------------------------------------------------------
(* The inductive invariant.                                                 *)

\* Every page that is mapped has a user frame, its own.
OwnFrames ==
    /\ \A p \in Pids, v \in Vpns : Valid(p, v) => Pfn(p, v) \in UserFrames
    /\ \A p, q \in Pids, v, u \in Vpns :
           Valid(p, v) /\ Valid(q, u) /\ Pfn(p, v) = Pfn(q, u) => p = q /\ v = u

\* A frame is free when no page has it.
FreeIsUnused ==
    \A f \in UserFrames :
        f \in free <=> \A p \in Pids, v \in Vpns : Valid(p, v) => Pfn(p, v) # f

\* The programs created and those to come are the ones of the command line.
Counts ==
    /\ toCreate + procCount <= MaxPrograms
    /\ status = "create" => toCreate > 0

InMain == status \in {"boot", "create"}

\* A PCB names the page table at its own place, and in main also its process.
PcbsFilled ==
    /\ \A p \in Pids : p < procCount =>
           pcb[p].ptbr = p /\ (InMain => pcb[p].pid = p)
    /\ status = "create" =>
           pcb[procCount].ptbr = procCount /\ pcb[procCount].pid = procCount

\* Only live processes have pages, and the one that is being created.
OnlyTheLive ==
    \A p \in Pids, v \in Vpns : Valid(p, v) =>
        Live(p) \/ (status \in {"create", "exited"} /\ p = procCount)

\* The process that is being created has the pages allocated so far.
CreatedSoFar ==
    status = "create" =>
        \A v \in Vpns : Valid(procCount, v) <=>
            \E k \in 0..(allocated - 1) : v = SegVpn(k)

\* In main the free frames are the upper ones, and the frames of a process
\* follow one another.
UpperFree ==
    InMain => \A f \in free, g \in UserFrames : f <= g => g \in free

InARow ==
    InMain =>
        /\ \A p \in Pids, k \in 0..(SegPages - 1) : p < procCount =>
               Valid(p, SegVpn(k)) /\ Pfn(p, SegVpn(k)) = Pfn(p, SegVpn(0)) + k
        /\ status = "create" =>
               /\ \A k \in 0..(allocated - 1) :
                      Pfn(procCount, SegVpn(k)) = Pfn(procCount, SegVpn(0)) + k
               /\ allocated > 0 =>
                      free = (Pfn(procCount, SegVpn(0)) + allocated)..(NumFrames - 1)

Images ==
    InMain => \A p \in Pids, k \in 0..(SegPages - 1) : p < procCount =>
        phys[Pfn(p, SegVpn(k))] = Image[p][SegVpn(k)]

MemoryInv == OwnFrames /\ FreeIsUnused
MainInv == Counts /\ PcbsFilled /\ CreatedSoFar /\ UpperFree /\ InARow /\ Images
VmInv == TypeOK /\ MemoryInv /\ MainInv /\ RunsItsOwnTable /\ OnlyTheLive

-----------------------------------------------------------------------------
(* allocMem and freeMem keep frames exclusive and the bitmap exact.         *)

\* The constants make sense of page and frame numbers.
LEMMA ConstantFacts ==
  /\ FirstFrame \in Nat /\ NumFrames \in Nat /\ NumVpns \in Nat \ {0}
  /\ MaxPrograms \in Nat \ {0} /\ NumWords \in Nat \ {0}
  /\ SegPages \in Nat \ {0} /\ CodeSize \in 1..SegPages
  /\ UserFrames \subseteq Frames /\ Frames \subseteq Nat
  /\ 0 \in Vpns /\ 0 \in Pids /\ FirstCodeVpn \in Vpns /\ AllOnes \in Words /\ 0 \in Words
  /\ \A k \in 0..(SegPages - 1) : SegVpn(k) \in Vpns /\ SegVpn(k) # 0
  /\ \A k, j \in Int : SegVpn(k) = SegVpn(j) => k = j
BY FramesAssumption, SegmentsAssumption, ChunkAssumption, ProgramsAssumption
   DEF SegPages, SegVpn, UserFrames, Frames, Vpns, Pids, Words, AllOnes

TableType == [Pids -> [Vpns -> PageEntry]]

LEMMA EntryFacts ==
  ASSUME TypeOK, NEW p \in Pids, NEW v \in Vpns
  PROVE  /\ table[p][v] \in PageEntry
         /\ Valid(p, v) \in BOOLEAN /\ Pfn(p, v) \in Frames \cup {0}
         /\ table[p][v].read \in BOOLEAN /\ table[p][v].write \in BOOLEAN
BY DEF TypeOK, PageEntry, Valid, Pfn

\* The lowest free frame f is now the one of page v of process p, and no other
\* entry changes.
GivesFrame(p, v, f) ==
  /\ f \in free /\ \A g \in free : f <= g
  /\ free' = free \ {f}
  /\ table' \in TableType
  /\ Valid(p, v)' /\ Pfn(p, v)' = f
  /\ \A q \in Pids, u \in Vpns :
       (q # p \/ u # v) => Valid(q, u)' = Valid(q, u) /\ Pfn(q, u)' = Pfn(q, u)

LEMMA AllocMemEffect ==
  ASSUME TypeOK, NEW p \in Pids, NEW v \in Vpns,
         NEW r \in BOOLEAN, NEW w \in BOOLEAN, AllocMem(p, v, r, w)
  PROVE  \E f : GivesFrame(p, v, f)
<1>1. PICK f \in free :
        /\ \A g \in free : f <= g
        /\ free' = free \ {f}
        /\ table' = [table EXCEPT ![p][v] =
               [valid |-> TRUE, pfn |-> f, read |-> r, write |-> w]]
  BY DEF AllocMem
<1> DEFINE entry == [valid |-> TRUE, pfn |-> f, read |-> r, write |-> w]
<1>2. entry \in PageEntry
  BY ConstantFacts DEF TypeOK, PageEntry
<1>3. table \in TableType
  BY DEF TypeOK, TableType
<1> HIDE DEF entry
<1>4. table' \in TableType
  BY <1>1, <1>2, <1>3 DEF TableType, entry
<1>5. table'[p][v] = entry
  BY <1>1, <1>3 DEF TableType, entry
<1>6. \A q \in Pids, u \in Vpns : (q # p \/ u # v) => table'[q][u] = table[q][u]
  BY <1>1, <1>3 DEF TableType
<1>7. Valid(p, v)' /\ Pfn(p, v)' = f
  BY <1>5 DEF Valid, Pfn, entry
<1> QED
  BY <1>1, <1>4, <1>6, <1>7 DEF GivesFrame, Valid, Pfn

\* allocMem hands a frame out to one page, and only one that was free.
LEMMA AllocMemKeeps ==
  ASSUME TypeOK, MemoryInv, NEW p \in Pids, NEW v \in Vpns, ~Valid(p, v),
         NEW r \in BOOLEAN, NEW w \in BOOLEAN, AllocMem(p, v, r, w)
  PROVE  MemoryInv' /\ free' \subseteq UserFrames
<1>0. PICK f : GivesFrame(p, v, f)
  BY AllocMemEffect
<1>1. /\ f \in free /\ free' = free \ {f}
      /\ Valid(p, v)' /\ Pfn(p, v)' = f
      /\ \A q \in Pids, u \in Vpns :
           (q # p \/ u # v) => Valid(q, u)' = Valid(q, u) /\ Pfn(q, u)' = Pfn(q, u)
  BY <1>0 DEF GivesFrame
<1>2. free \subseteq UserFrames /\ f \in UserFrames
  BY <1>1 DEF TypeOK
<1>3. \A q \in Pids, u \in Vpns : Valid(q, u) => Pfn(q, u) # f
  BY <1>1, <1>2 DEF MemoryInv, FreeIsUnused
<1>4. OwnFrames'
  <2>1. ASSUME NEW q \in Pids, NEW u \in Vpns, Valid(q, u)'
        PROVE  Pfn(q, u)' \in UserFrames
    BY <1>1, <1>2, <2>1 DEF MemoryInv, OwnFrames
  <2>2. ASSUME NEW q \in Pids, NEW u \in Vpns, NEW o \in Pids, NEW x \in Vpns,
               Valid(q, u)', Valid(o, x)', Pfn(q, u)' = Pfn(o, x)'
        PROVE  q = o /\ u = x
    BY <1>1, <1>3, <2>2 DEF MemoryInv, OwnFrames
  <2> QED
    BY <2>1, <2>2 DEF OwnFrames, UserFrames
<1>5. FreeIsUnused'
  <2>1. SUFFICES ASSUME NEW g \in UserFrames
                 PROVE  g \in free' <=>
                          \A q \in Pids, u \in Vpns : Valid(q, u)' => Pfn(q, u)' # g
    BY DEF FreeIsUnused, UserFrames
  <2>2. CASE g = f
    BY <1>1, <2>2
  <2>3. CASE g # f
    <3>1. g \in free <=> \A q \in Pids, u \in Vpns : Valid(q, u) => Pfn(q, u) # g
      BY DEF MemoryInv, FreeIsUnused
    <3> QED
      BY <1>1, <2>3, <3>1
  <2> QED
    BY <2>2, <2>3
<1> QED
  BY <1>1, <1>2, <1>4, <1>5 DEF MemoryInv

\* The pages of process p lose their valid bit and their frames go back to the
\* bitmap, and no other entry changes.
TakesFrames(p, pages) ==
  /\ table' \in TableType
  /\ \A v \in pages : ~Valid(p, v)'
  /\ \A q \in Pids, v \in Vpns : (q # p \/ v \notin pages) =>
       Valid(q, v)' = Valid(q, v) /\ Pfn(q, v)' = Pfn(q, v)
  /\ \A f : f \in free' <=>
       f \in free \/ \E v \in pages : Valid(p, v) /\ Pfn(p, v) = f

LEMMA FreeMemEffect ==
  ASSUME TypeOK, NEW p \in Pids, NEW pages \in SUBSET Vpns, FreeMem(p, pages)
  PROVE  TakesFrames(p, pages)
<1> DEFINE row == [v \in Vpns |-> IF v \in pages THEN NoPage ELSE table[p][v]]
<1>1. table \in TableType
  BY DEF TypeOK, TableType
<1>2. NoPage \in PageEntry
  BY DEF NoPage, PageEntry
<1>3. row \in [Vpns -> PageEntry]
  BY <1>1, <1>2 DEF TableType
<1>4. table' = [table EXCEPT ![p] = row]
  BY DEF FreeMem
<1>5. \A v \in pages : row[v] = NoPage
  OBVIOUS
<1>6. \A v \in Vpns : v \notin pages => row[v] = table[p][v]
  OBVIOUS
<1> HIDE DEF row
<1>7. table' \in TableType
  BY <1>1, <1>3, <1>4 DEF TableType
<1>8. \A v \in pages : table'[p][v] = NoPage
  BY <1>1, <1>4, <1>5 DEF TableType
<1>9. \A q \in Pids, v \in Vpns :
        (q # p \/ v \notin pages) => table'[q][v] = table[q][v]
  BY <1>1, <1>4, <1>6 DEF TableType
<1>10. \A f : f \in free' <=>
         f \in free \/ \E v \in pages : Valid(p, v) /\ Pfn(p, v) = f
  BY DEF FreeMem, Valid, Pfn
<1> QED
  BY <1>7, <1>8, <1>9, <1>10 DEF TakesFrames, Valid, Pfn, NoPage

\* freeMem gives frames back exactly when no page has them any more.
LEMMA FreeMemKeeps ==
  ASSUME TypeOK, MemoryInv, NEW p \in Pids, NEW pages \in SUBSET Vpns,
         FreeMem(p, pages)
  PROVE  MemoryInv' /\ free' \subseteq UserFrames
<1>1. /\ \A v \in pages : ~Valid(p, v)'
      /\ \A q \in Pids, v \in Vpns : (q # p \/ v \notin pages) =>
           Valid(q, v)' = Valid(q, v) /\ Pfn(q, v)' = Pfn(q, v)
      /\ \A f : f \in free' <=>
           f \in free \/ \E v \in pages : Valid(p, v) /\ Pfn(p, v) = f
  BY FreeMemEffect DEF TakesFrames
<1>2. \A q \in Pids, v \in Vpns : Valid(q, v)' =>
        /\ Valid(q, v) /\ Pfn(q, v)' = Pfn(q, v)
        /\ q # p \/ v \notin pages
  BY <1>1
<1>3. OwnFrames'
  BY <1>2 DEF MemoryInv, OwnFrames, UserFrames
<1>4. FreeIsUnused'
  <2>1. SUFFICES ASSUME NEW g \in UserFrames
                 PROVE  g \in free' <=>
                          \A q \in Pids, u \in Vpns : Valid(q, u)' => Pfn(q, u)' # g
    BY DEF FreeIsUnused, UserFrames
  <2>2. g \in free <=> \A q \in Pids, u \in Vpns : Valid(q, u) => Pfn(q, u) # g
    BY DEF MemoryInv, FreeIsUnused
  <2>3. ASSUME g \in free', NEW q \in Pids, NEW u \in Vpns, Valid(q, u)', Pfn(q, u)' = g
        PROVE  FALSE
    <3>1. Valid(q, u) /\ Pfn(q, u) = g /\ (q # p \/ u \notin pages)
      BY <1>2, <2>3
    <3>2. PICK v \in pages : Valid(p, v) /\ Pfn(p, v) = g
      BY <1>1, <2>2, <2>3, <3>1
    <3>3. p = q /\ v = u
      BY <3>1, <3>2 DEF MemoryInv, OwnFrames
    <3> QED
      BY <3>1, <3>2, <3>3
  <2>4. ASSUME g \notin free'
        PROVE  \E q \in Pids, u \in Vpns : Valid(q, u)' /\ Pfn(q, u)' = g
    <3>1. PICK q \in Pids, u \in Vpns : Valid(q, u) /\ Pfn(q, u) = g
      BY <1>1, <2>2, <2>4
    <3>2. q # p \/ u \notin pages
      BY <1>1, <2>4, <3>1
    <3> QED
      BY <1>1, <3>1, <3>2
  <2> QED
    BY <2>3, <2>4
<1>5. free' \subseteq UserFrames
  BY <1>1 DEF MemoryInv, OwnFrames, TypeOK
<1> QED
  BY <1>3, <1>4, <1>5 DEF MemoryInv

-----------------------------------------------------------------------------
(* The initial states, and main.                                            *)

LEMMA NothingIsDelivered == Nothing \in Delivered
BY DEF Delivered

LEMMA InitKeeps == Init => VmInv
<1> SUFFICES ASSUME Init PROVE VmInv
  OBVIOUS
<1>1. TypeOK
  <2>1. pcb \in [Pids -> [pid : Pids \cup {Terminated}, pc : Vpns, ptbr : Pids]]
    BY ConstantFacts DEF Init
  <2>2. table \in [Pids -> [Vpns -> PageEntry]]
    BY ConstantFacts DEF Init, NoPage, PageEntry
  <2>3. phys \in [Frames -> Words]
    BY ConstantFacts DEF Init
  <2> QED
    BY <2>1, <2>2, <2>3, NothingIsDelivered, ConstantFacts DEF Init, TypeOK
<1>2. \A p \in Pids, v \in Vpns : ~Valid(p, v)
  BY DEF Init, NoPage, Valid
<1>3. MemoryInv
  BY <1>2 DEF Init, MemoryInv, OwnFrames, FreeIsUnused
<1>4. MainInv
  BY <1>1, <1>2, ConstantFacts
     DEF Init, MainInv, Counts, PcbsFilled, CreatedSoFar, UpperFree, InARow, Images,
         InMain, Pids
<1>5. RunsItsOwnTable /\ OnlyTheLive
  BY <1>2 DEF Init, RunsItsOwnTable, OnlyTheLive
<1> QED
  BY <1>1, <1>3, <1>4, <1>5 DEF VmInv

LEMMA SameMemory ==
  ASSUME MemoryInv, UNCHANGED <<table, free>>
  PROVE  MemoryInv'
BY DEF MemoryInv, OwnFrames, FreeIsUnused, Valid, Pfn, UserFrames

\* While a process is being created its id is below the bound.
LEMMA CreatingFacts ==
  ASSUME VmInv, InMain, toCreate > 0
  PROVE  procCount \in Pids /\ procCount \in Nat
BY ConstantFacts DEF VmInv, MainInv, Counts, TypeOK, Pids

LEMMA BeginCreateKeeps ==
  ASSUME VmInv, BeginCreate
  PROVE  VmInv'
<1>1. procCount \in Pids /\ InMain /\ InMain'
  BY CreatingFacts DEF BeginCreate, InMain
<1>2. UNCHANGED <<procCount, toCreate, free, table, phys, curProcID, rpc, ptbr, seen>>
  BY DEF BeginCreate, memory
<1> DEFINE new == [pid |-> procCount, pc |-> FirstCodeVpn, ptbr |-> procCount]
<1>3. pcb' = [pcb EXCEPT ![procCount] = new]
  BY DEF BeginCreate
<1>4. new \in [pid : Pids \cup {Terminated}, pc : Vpns, ptbr : Pids]
  BY <1>1, ConstantFacts
<1>5. /\ pcb'[procCount].pid = procCount /\ pcb'[procCount].ptbr = procCount
      /\ \A p \in Pids : p # procCount => pcb'[p] = pcb[p]
  BY <1>1, <1>3 DEF VmInv, TypeOK
<1>6. TypeOK'
  <2>1. pcb' \in [Pids -> [pid : Pids \cup {Terminated}, pc : Vpns, ptbr : Pids]]
    BY <1>1, <1>3, <1>4 DEF VmInv, TypeOK
  <2> QED
    BY <2>1, <1>2, ConstantFacts DEF VmInv, TypeOK, BeginCreate
<1>7. MemoryInv'
  BY <1>2, SameMemory DEF VmInv
<1>8. \A p \in Pids, v \in Vpns :
        /\ Valid(p, v)' = Valid(p, v) /\ Pfn(p, v)' = Pfn(p, v)
        /\ Valid(p, v) => Live(p)
  BY <1>2 DEF VmInv, OnlyTheLive, Valid, Pfn, BeginCreate
<1>9. MainInv'
  <2>1. Counts' /\ PcbsFilled'
    BY <1>1, <1>2, <1>5 DEF VmInv, MainInv, Counts, PcbsFilled, BeginCreate, InMain
  <2>2. CreatedSoFar'
    BY <1>1, <1>2, <1>8 DEF CreatedSoFar, BeginCreate, Live, VmInv, TypeOK, Pids
  <2>3. UpperFree'
    BY <1>1, <1>2 DEF VmInv, MainInv, UpperFree
  <2>4. InARow'
    <3>1. \A p \in Pids, k \in 0..(SegPages - 1) : p < procCount =>
            /\ Valid(p, SegVpn(k)) /\ SegVpn(k) \in Vpns /\ SegVpn(0) \in Vpns
            /\ Pfn(p, SegVpn(k)) = Pfn(p, SegVpn(0)) + k
      BY <1>1, ConstantFacts DEF VmInv, MainInv, InARow
    <3> QED
      BY <3>1, <1>2, <1>8 DEF InARow, BeginCreate
  <2>5. Images'
    BY <1>1, <1>2 DEF VmInv, MainInv, Images, Pfn
  <2> QED
    BY <2>1, <2>2, <2>3, <2>4, <2>5 DEF MainInv
<1>10. RunsItsOwnTable'
  BY DEF RunsItsOwnTable, BeginCreate
<1>11. OnlyTheLive'
  BY <1>2, <1>5, <1>8 DEF OnlyTheLive, Live, VmInv, TypeOK, Pids
<1> QED
  BY <1>6, <1>7, <1>9, <1>10, <1>11 DEF VmInv

\* The next page of the process gets the next of the upper frames.  The process
\* and the page are named, so that a prime leaves them alone.
LEMMA AllocSegmentPageKeeps ==
  ASSUME VmInv, AllocSegmentPage, NEW p, p = procCount, NEW n, n = allocated
  PROVE  VmInv'
<1>1. /\ p \in Pids /\ p \in Nat /\ n \in 0..(SegPages - 1) /\ n \in Nat
      /\ status = "create" /\ status' = "create" /\ allocated' = n + 1
  <2>1. status = "create" /\ status' = "create" /\ allocated' = n + 1
        /\ n < SegPages
    BY DEF AllocSegmentPage
  <2>2. toCreate > 0 /\ n \in 0..SegPages
    BY <2>1 DEF VmInv, MainInv, Counts, TypeOK
  <2> QED
    BY <2>1, <2>2, CreatingFacts, ConstantFacts DEF InMain
<1>2. UNCHANGED <<procCount, toCreate, phys, curProcID, pcb, rpc, ptbr, seen>>
  BY DEF AllocSegmentPage, cpu, process
<1>3. PICK v \in Vpns : v = SegVpn(n)
  BY <1>1, ConstantFacts
<1>4. PICK w \in BOOLEAN : w = (n >= CodeSize)
  <2>1. (n >= CodeSize) \in BOOLEAN
    OBVIOUS
  <2> QED
    BY <2>1, Zenon
<1>5. TypeOK /\ MemoryInv /\ ~Valid(p, v) /\ AllocMem(p, v, TRUE, w)
  BY <1>3, <1>4 DEF AllocSegmentPage, VmInv, Valid
<1>6. TRUE \in BOOLEAN
  OBVIOUS
<1>7. MemoryInv' /\ free' \subseteq UserFrames
  BY <1>1, <1>5, <1>6, AllocMemKeeps
<1>8. PICK f : GivesFrame(p, v, f)
  BY <1>1, <1>5, <1>6, AllocMemEffect
<1>9. /\ f \in free /\ \A g \in free : f <= g
      /\ free' = free \ {f} /\ table' \in TableType
      /\ Valid(p, v)' /\ Pfn(p, v)' = f
      /\ \A q \in Pids, u \in Vpns : (q # p \/ u # v) =>
           Valid(q, u)' = Valid(q, u) /\ Pfn(q, u)' = Pfn(q, u)
  BY <1>8 DEF GivesFrame
<1>10. /\ SegPages \in Nat \ {0} /\ 0 \in 0..(SegPages - 1)
       /\ \A k \in 0..(SegPages - 1) : SegVpn(k) \in Vpns
       /\ \A k \in 0..(SegPages - 1) : k # n => SegVpn(k) # v
  BY <1>1, <1>3, ConstantFacts
<1>11. \A q \in Pids, k \in 0..(SegPages - 1) : q < p \/ k # n =>
         /\ Valid(q, SegVpn(k))' = Valid(q, SegVpn(k))
         /\ Pfn(q, SegVpn(k))' = Pfn(q, SegVpn(k))
  <2> SUFFICES ASSUME NEW q \in Pids, NEW k \in 0..(SegPages - 1), q < p \/ k # n
               PROVE  /\ Valid(q, SegVpn(k))' = Valid(q, SegVpn(k))
                      /\ Pfn(q, SegVpn(k))' = Pfn(q, SegVpn(k))
    OBVIOUS
  <2>1. SegVpn(k) \in Vpns /\ (q # p \/ SegVpn(k) # v)
    BY <1>1, <1>10 DEF Pids
  <2> QED
    BY <2>1, <1>9
<1>12. TypeOK'
  BY <1>1, <1>2, <1>5, <1>7, <1>9, <1>10 DEF TypeOK, TableType
<1>13. /\ UserFrames \subseteq Nat /\ NumFrames \in Nat /\ free \subseteq UserFrames
       /\ \A g \in UserFrames : g <= NumFrames - 1
       /\ \A g \in Nat, h \in UserFrames : h <= g /\ g <= NumFrames - 1 => g \in UserFrames
  BY <1>5, ConstantFacts DEF TypeOK, UserFrames
<1>14. Counts' /\ PcbsFilled'
  BY <1>1, <1>2 DEF VmInv, MainInv, Counts, PcbsFilled, InMain
<1>15. CreatedSoFar'
  <2>1. \A u \in Vpns : Valid(p, u) <=> \E k \in 0..(n - 1) : u = SegVpn(k)
    BY <1>1 DEF VmInv, MainInv, CreatedSoFar
  <2>2. 0..(n + 1 - 1) = 0..(n - 1) \cup {n}
    BY <1>1
  <2>3. \A u \in Vpns : Valid(p, u)' <=> (Valid(p, u) \/ u = v)
    BY <1>1, <1>9
  <2>4. \A u \in Vpns : Valid(p, u)' <=> \E k \in 0..(n + 1 - 1) : u = SegVpn(k)
    BY <2>1, <2>2, <2>3, <1>3
  <2> QED
    BY <2>4, <1>1, <1>2 DEF CreatedSoFar, Valid
<1>16. UpperFree'
  <2>1. \A h \in free, g \in UserFrames : h <= g => g \in free
    BY <1>1 DEF VmInv, MainInv, UpperFree, InMain
  <2>2. \A h \in free', g \in UserFrames : h <= g => g \in free'
    BY <2>1, <1>9, <1>13
  <2> QED
    BY <2>2 DEF UpperFree, UserFrames
<1>17. InARow'
  <2> DEFINE base == Pfn(p, SegVpn(0))
  <2>1. /\ \A q \in Pids, k \in 0..(SegPages - 1) : q < p =>
             Valid(q, SegVpn(k)) /\ Pfn(q, SegVpn(k)) = Pfn(q, SegVpn(0)) + k
        /\ \A k \in 0..(n - 1) : Pfn(p, SegVpn(k)) = base + k
        /\ n > 0 => free = (base + n)..(NumFrames - 1)
    BY <1>1 DEF VmInv, MainInv, InARow, InMain
  <2>2. \A q \in Pids, k \in 0..(SegPages - 1) : q < p =>
          Valid(q, SegVpn(k))' /\ Pfn(q, SegVpn(k))' = Pfn(q, SegVpn(0))' + k
    BY <2>1, <1>10, <1>11
  <2>3. f \in Nat /\ f \in UserFrames /\ base \in Int
    <3>1. SegVpn(0) \in Vpns
      BY <1>10
    <3>2. base \in Frames \cup {0}
      BY <1>1, <1>5, <3>1, EntryFacts
    <3>3. base \in Int
      BY <3>2 DEF Frames
    <3> HIDE DEF base
    <3> QED
      BY <3>3, <1>9, <1>13
  <2>4. /\ base' = (IF n = 0 THEN f ELSE base)
        /\ f = base' + n
    <3>1. CASE n = 0
      <4>1. base' = f
        BY <3>1, <1>3, <1>9
      <4> QED
        BY <3>1, <4>1, <2>3
    <3>2. CASE n > 0
      <4>1. base' = base
        BY <3>2, <1>1, <1>10, <1>11
      <4>2. free = (base + n)..(NumFrames - 1)
        BY <2>1, <3>2
      <4>3. base + n \in free /\ base + n <= f
        BY <4>2, <2>3, <1>1, <1>9, <1>13
      <4>4. f = base + n
        BY <4>3, <2>3, <1>1, <1>9
      <4> QED
        BY <3>2, <4>1, <4>4
    <3> QED
      BY <3>1, <3>2, <1>1
  <2>5. free' = (base' + (n + 1))..(NumFrames - 1)
    <3>1. \A g \in UserFrames : g \in free <=> f <= g
      BY <1>1, <1>9 DEF VmInv, MainInv, UpperFree, InMain
    <3>2. \A g \in free' : g \in (f + 1)..(NumFrames - 1)
      BY <1>9, <1>13, <3>1, <2>3
    <3>3. \A g \in (f + 1)..(NumFrames - 1) : g \in Nat /\ f <= g /\ g <= NumFrames - 1
      BY <2>3, <1>13
    <3>4. \A g \in (f + 1)..(NumFrames - 1) : g \in UserFrames
      BY <2>3, <3>3, <1>13
    <3>5. \A g \in (f + 1)..(NumFrames - 1) : g \in free'
      BY <3>1, <3>3, <3>4, <2>3, <1>9, <1>13
    <3>6. free' = (f + 1)..(NumFrames - 1)
      BY <3>2, <3>5
    <3>7. base' + (n + 1) = f + 1
      BY <2>3, <2>4, <1>1
    <3> QED
      BY <3>6, <3>7
  <2>6. \A k \in 0..n : Pfn(p, SegVpn(k))' = base' + k
    <3> SUFFICES ASSUME NEW k \in 0..n PROVE Pfn(p, SegVpn(k))' = base' + k
      OBVIOUS
    <3>1. CASE k = n
      BY <3>1, <1>3, <1>9, <2>4
    <3>2. CASE k # n
      <4>1. k \in 0..(n - 1) /\ k \in 0..(SegPages - 1) /\ n # 0
        BY <3>2, <1>1, <1>10
      <4> QED
        BY <4>1, <3>2, <2>1, <2>4, <1>1, <1>11
    <3> QED
      BY <3>1, <3>2
  <2> HIDE DEF base
  <2>7. n + 1 - 1 = n
    BY <1>1
  <2> QED
    BY <2>2, <2>5, <2>6, <2>7, <1>1, <1>2 DEF InARow, base, Valid, Pfn
<1>18. Images'
  <2>1. \A q \in Pids, k \in 0..(SegPages - 1) : q < p =>
          phys[Pfn(q, SegVpn(k))] = Image[q][SegVpn(k)]
    BY <1>1 DEF VmInv, MainInv, Images, InMain
  <2>2. \A q \in Pids, k \in 0..(SegPages - 1) : q < p =>
          Pfn(q, SegVpn(k))' = Pfn(q, SegVpn(k))
    BY <1>11
  <2> QED
    BY <2>1, <2>2, <1>2 DEF Images
<1>19. RunsItsOwnTable'
  BY <1>1 DEF RunsItsOwnTable
<1>20. OnlyTheLive'
  <2>1. \A q \in Pids, u \in Vpns : Valid(q, u) => Live(q) \/ q = p
    BY DEF VmInv, OnlyTheLive
  <2>2. \A q \in Pids : Live(q)' = Live(q)
    BY <1>2 DEF Live
  <2>3. \A q \in Pids, u \in Vpns : Valid(q, u)' => Valid(q, u) \/ q = p
    BY <1>9
  <2> QED
    BY <2>1, <2>2, <2>3, <1>1, <1>2 DEF OnlyTheLive
<1> QED
  BY <1>7, <1>12, <1>14, <1>15, <1>16, <1>17, <1>18, <1>19, <1>20 DEF VmInv, MainInv

\* The rollback: the frames of the failed process were the uppermost ones, and
\* they are free again.
LEMMA CreateFailsKeeps ==
  ASSUME VmInv, CreateFails, NEW p, p = procCount, NEW n, n = allocated
  PROVE  VmInv'
<1>1. /\ p \in Pids /\ p \in Nat /\ n \in 0..(SegPages - 1) /\ n \in Nat
      /\ status = "create" /\ status' = "boot" /\ toCreate' = toCreate - 1
      /\ toCreate \in 1..MaxPrograms /\ free = {}
  <2>1. status = "create" /\ status' = "boot" /\ toCreate' = toCreate - 1
        /\ n < SegPages /\ free = {}
    BY DEF CreateFails
  <2>2. toCreate > 0 /\ toCreate \in 0..MaxPrograms /\ n \in 0..SegPages
    BY <2>1 DEF VmInv, MainInv, Counts, TypeOK
  <2> QED
    BY <2>1, <2>2, CreatingFacts, ConstantFacts DEF InMain
<1>2. UNCHANGED <<procCount, allocated, phys, curProcID, pcb, rpc, ptbr, seen>>
  BY DEF CreateFails, cpu, process
<1>3. PICK pages \in SUBSET Vpns : pages = {SegVpn(k) : k \in 0..(n - 1)}
  <2>1. \A k \in 0..(n - 1) : k \in 0..(SegPages - 1)
    BY <1>1, ConstantFacts
  <2>2. \A k \in 0..(n - 1) : SegVpn(k) \in Vpns
    BY <2>1, ConstantFacts
  <2> QED
    BY <2>2
<1>4. TypeOK /\ MemoryInv /\ FreeMem(p, pages)
  BY <1>3 DEF CreateFails, VmInv
<1>5. MemoryInv' /\ free' \subseteq UserFrames
  BY <1>1, <1>4, FreeMemKeeps
<1>6. /\ table' \in TableType
      /\ \A v \in pages : ~Valid(p, v)'
      /\ \A q \in Pids, v \in Vpns : (q # p \/ v \notin pages) =>
           Valid(q, v)' = Valid(q, v) /\ Pfn(q, v)' = Pfn(q, v)
      /\ \A f : f \in free' <=>
           f \in free \/ \E v \in pages : Valid(p, v) /\ Pfn(p, v) = f
  BY <1>1, <1>4, FreeMemEffect DEF TakesFrames
<1>7. TypeOK'
  <2>1. toCreate' \in 0..MaxPrograms
    BY <1>1, ConstantFacts
  <2> QED
    BY <2>1, <1>1, <1>2, <1>4, <1>5, <1>6 DEF TypeOK, TableType
<1>8. \A u \in Vpns : Valid(p, u) <=> u \in pages
  BY <1>1, <1>3 DEF VmInv, MainInv, CreatedSoFar
<1>9. \A q \in Pids, v \in Vpns : q < p =>
        Valid(q, v)' = Valid(q, v) /\ Pfn(q, v)' = Pfn(q, v)
  BY <1>1, <1>6 DEF Pids
<1>10. \A k \in 0..(SegPages - 1) : SegVpn(k) \in Vpns
       /\ SegPages \in Nat \ {0} /\ 0 \in 0..(SegPages - 1)
  BY ConstantFacts
<1>11. Counts' /\ PcbsFilled' /\ CreatedSoFar'
  <2>1. toCreate + p <= MaxPrograms
    BY DEF VmInv, MainInv, Counts
  <2>2. toCreate' + p <= MaxPrograms
    BY <2>1, <1>1, ConstantFacts
  <2> QED
    BY <2>2, <1>1, <1>2 DEF VmInv, MainInv, Counts, PcbsFilled, CreatedSoFar, InMain
<1>12. UpperFree'
  <2> DEFINE base == Pfn(p, SegVpn(0))
  <2>1. /\ \A k \in 0..(n - 1) : Pfn(p, SegVpn(k)) = base + k
        /\ n > 0 => free = (base + n)..(NumFrames - 1)
    BY <1>1 DEF VmInv, MainInv, InARow, InMain
  <2>2. \A f : f \in free' <=> \E k \in 0..(n - 1) : f = base + k
    <3>1. \A f : f \in free' <=> \E v \in pages : Pfn(p, v) = f
      BY <1>1, <1>6, <1>8
    <3> QED
      BY <3>1, <2>1, <1>3
  <2>3. base \in Int
    <3>1. base \in Frames \cup {0}
      BY <1>1, <1>4, <1>10, EntryFacts
    <3> QED
      BY <3>1 DEF Frames
  <2> HIDE DEF base
  <2>4. ASSUME NEW f \in free', NEW g \in UserFrames, f <= g
        PROVE  g \in free'
    <3>1. PICK k \in 0..(n - 1) : f = base + k
      BY <2>2, <2>4
    <3>2. n > 0 /\ k >= 0 /\ k < n
      BY <1>1, <3>1
    <3>3. base + n > NumFrames - 1
      <4>1. (base + n)..(NumFrames - 1) = {}
        BY <2>1, <3>2, <1>1
      <4> QED
        BY <4>1, <2>3, <1>1, ConstantFacts
    <3>4. g \in Int /\ g <= NumFrames - 1
      BY ConstantFacts DEF UserFrames
    <3>5. g - base \in 0..(n - 1) /\ g = base + (g - base)
      BY <2>3, <2>4, <3>1, <3>2, <3>3, <3>4, <1>1, ConstantFacts
    <3> QED
      BY <3>5, <2>2
  <2> QED
    BY <2>4 DEF UpperFree, UserFrames
<1>13. InARow'
  <2>1. \A q \in Pids, k \in 0..(SegPages - 1) : q < p =>
          Valid(q, SegVpn(k)) /\ Pfn(q, SegVpn(k)) = Pfn(q, SegVpn(0)) + k
    BY <1>1 DEF VmInv, MainInv, InARow, InMain
  <2>2. \A q \in Pids, k \in 0..(SegPages - 1) : q < p =>
          Valid(q, SegVpn(k))' /\ Pfn(q, SegVpn(k))' = Pfn(q, SegVpn(0))' + k
    BY <2>1, <1>9, <1>10
  <2> QED
    BY <2>2, <1>1, <1>2 DEF InARow
<1>14. Images'
  <2>1. \A q \in Pids, k \in 0..(SegPages - 1) : q < p =>
          phys[Pfn(q, SegVpn(k))] = Image[q][SegVpn(k)]
    BY <1>1 DEF VmInv, MainInv, Images, InMain
  <2> QED
    BY <2>1, <1>2, <1>9, <1>10 DEF Images
<1>15. RunsItsOwnTable'
  BY <1>1 DEF RunsItsOwnTable
<1>16. OnlyTheLive'
  <2>1. \A q \in Pids, u \in Vpns : Valid(q, u) => Live(q) \/ q = p
    BY DEF VmInv, OnlyTheLive
  <2>2. \A q \in Pids : Live(q)' = Live(q)
    BY <1>2 DEF Live
  <2>3. \A q \in Pids, u \in Vpns : Valid(q, u)' => Valid(q, u) /\ q # p
    BY <1>6, <1>8
  <2> QED
    BY <2>1, <2>2, <2>3 DEF OnlyTheLive
<1> QED
  BY <1>5, <1>7, <1>11, <1>12, <1>13, <1>14, <1>15, <1>16 DEF VmInv, MainInv

\* Within the first chunk page k of a segment is the k-th after its start.
LEMMA ChunkArithmetic ==
  ASSUME NEW c \in Nat \ {0}, NEW k \in 0..(c - 1)
  PROVE  k \div c = 0 /\ k % c = k
<1>1. k = c * 0 + k
  OBVIOUS
<1> QED
  BY <1>1

\* The frames ld_img reads to are the frames of the pages: the offset of the
\* first page of a segment is enough because its frames are in a row.
LEMMA LoadTargets ==
  ASSUME VmInv, InMain, NEW p \in Pids, p = procCount,
         \A k \in 0..(SegPages - 1) :
             Pfn(p, SegVpn(k)) \in Int /\ Pfn(p, SegVpn(k)) = Pfn(p, SegVpn(0)) + k
  PROVE  \A k \in 0..(SegPages - 1) : LoadTarget(k) = Pfn(p, SegVpn(k))
<1> SUFFICES ASSUME NEW k \in 0..(SegPages - 1)
             PROVE  LoadTarget(k) = Pfn(p, SegVpn(k))
  OBVIOUS
<1>0. /\ CodeSize \in Nat \ {0} /\ HeapSize \in Nat /\ ChunkPages \in Nat \ {0}
      /\ CodeSize <= ChunkPages /\ HeapSize <= ChunkPages
      /\ SegPages = CodeSize + HeapSize
  BY SegmentsAssumption, ChunkAssumption DEF SegPages
<1>1. CASE k < CodeSize
  <2>1. k \div ChunkPages = 0 /\ k % ChunkPages = k
    BY <1>0, <1>1, ChunkArithmetic
  <2>2. LoadTarget(k) = Pfn(p, SegVpn(0 + 0)) + k
    BY <1>1, <2>1 DEF LoadTarget, ImageFrame, Pfn
  <2> QED
    BY <2>2
<1>2. CASE k >= CodeSize
  <2> DEFINE j == k - CodeSize
  <2>1. j \in 0..(ChunkPages - 1) /\ CodeSize \in 0..(SegPages - 1)
    BY <1>0, <1>2
  <2>2. j \div ChunkPages = 0 /\ j % ChunkPages = j
    BY <1>0, <2>1, ChunkArithmetic
  <2>3. LoadTarget(k) = Pfn(p, SegVpn(CodeSize + 0)) + j
    BY <1>0, <1>2, <2>2 DEF LoadTarget, ImageFrame, Pfn
  <2>4. CodeSize + 0 = CodeSize /\ Pfn(p, SegVpn(CodeSize)) = Pfn(p, SegVpn(0)) + CodeSize
    BY <1>0, <2>1
  <2>5. 0 \in 0..(SegPages - 1) /\ Pfn(p, SegVpn(0)) \in Int
    BY <1>0
  <2> QED
    BY <1>0, <2>3, <2>4, <2>5
<1> QED
  BY <1>0, <1>1, <1>2

LEMMA ImageIsWord ==
  ASSUME NEW q \in Pids, NEW v \in Vpns
  PROVE  Image[q][v] \in Words
BY ImageAssumption DEF Pids, Vpns, Words

\* The frames of the new process get its program file, and no other frame changes.
LEMMA ImageLands ==
  ASSUME VmInv, FinishCreate, NEW p, p = procCount
  PROVE  /\ p \in Pids /\ p \in Nat
         /\ \A k \in 0..(SegPages - 1) :
              /\ Valid(p, SegVpn(k)) /\ Pfn(p, SegVpn(k)) = Pfn(p, SegVpn(0)) + k
              /\ Pfn(p, SegVpn(k)) \in UserFrames /\ Pfn(p, SegVpn(k)) \in Int
              /\ Loaded(Pfn(p, SegVpn(k))) = Image[p][SegVpn(k)]
         /\ \A f \in Frames : (\A k \in 0..(SegPages - 1) : Pfn(p, SegVpn(k)) # f)
              => Loaded(f) = phys[f]
<1>1. p \in Pids /\ p \in Nat /\ allocated = SegPages /\ status = "create"
  <2>1. allocated = SegPages /\ status = "create"
    BY DEF FinishCreate
  <2>2. toCreate > 0
    BY <2>1 DEF VmInv, MainInv, Counts
  <2> QED
    BY <2>1, <2>2, CreatingFacts DEF InMain
<1>2. TypeOK /\ MemoryInv
  BY DEF VmInv
<1>3. \A k \in 0..(SegPages - 1) : SegVpn(k) \in Vpns
      /\ \A j \in 0..(SegPages - 1) : SegVpn(k) = SegVpn(j) => k = j
  BY ConstantFacts
<1>4. \A k \in 0..(SegPages - 1) :
        Valid(p, SegVpn(k)) /\ Pfn(p, SegVpn(k)) = Pfn(p, SegVpn(0)) + k
        /\ Pfn(p, SegVpn(k)) \in UserFrames /\ Pfn(p, SegVpn(k)) \in Int
  <2>1. \A v \in Vpns : Valid(p, v) <=> \E k \in 0..(SegPages - 1) : v = SegVpn(k)
    BY <1>1 DEF VmInv, MainInv, CreatedSoFar
  <2>2. \A k \in 0..(SegPages - 1) : Pfn(p, SegVpn(k)) = Pfn(p, SegVpn(0)) + k
    BY <1>1 DEF VmInv, MainInv, InARow, InMain
  <2>3. \A k \in 0..(SegPages - 1) : Valid(p, SegVpn(k))
    BY <2>1, <1>3
  <2>4. \A k \in 0..(SegPages - 1) : Pfn(p, SegVpn(k)) \in UserFrames
    BY <2>3, <1>1, <1>2, <1>3 DEF MemoryInv, OwnFrames
  <2>5. \A f \in UserFrames : f \in Int
    BY DEF UserFrames
  <2> QED
    BY <2>2, <2>3, <2>4, <2>5
<1>5. \A k \in 0..(SegPages - 1) : LoadTarget(k) = Pfn(p, SegVpn(k))
  BY <1>1, <1>4, LoadTargets DEF InMain
<1>6. \A k \in 0..(SegPages - 1) : Loaded(Pfn(p, SegVpn(k))) = Image[p][SegVpn(k)]
  <2> SUFFICES ASSUME NEW k \in 0..(SegPages - 1)
               PROVE  Loaded(Pfn(p, SegVpn(k))) = Image[p][SegVpn(k)]
    OBVIOUS
  <2> DEFINE pages == {j \in 0..(SegPages - 1) : LoadTarget(j) = Pfn(p, SegVpn(k))}
  <2>1. \A j \in 0..(SegPages - 1) : Pfn(p, SegVpn(j)) = Pfn(p, SegVpn(k)) => j = k
    BY <1>1, <1>2, <1>3, <1>4 DEF MemoryInv, OwnFrames
  <2>2. pages = {k}
    BY <2>1, <1>5
  <2> HIDE DEF pages
  <2>3. (CHOOSE i \in pages : \A j \in pages : j <= i) = k
    BY <2>2
  <2>4. Loaded(Pfn(p, SegVpn(k))) =
          IF pages = {} THEN phys[Pfn(p, SegVpn(k))]
          ELSE Image[p][SegVpn(CHOOSE i \in pages : \A j \in pages : j <= i)]
    BY DEF Loaded, pages
  <2> QED
    BY <2>2, <2>3, <2>4
<1>7. \A f \in Frames : (\A k \in 0..(SegPages - 1) : Pfn(p, SegVpn(k)) # f)
        => Loaded(f) = phys[f]
  BY <1>5 DEF Loaded
<1> QED
  BY <1>1, <1>4, <1>6, <1>7

\* The program files land in the frames of the new process and nowhere else.
LEMMA FinishCreateKeeps ==
  ASSUME VmInv, FinishCreate, NEW p, p = procCount
  PROVE  VmInv'
<1>1. /\ p \in Pids /\ p \in Nat /\ allocated = SegPages /\ procCount' = p + 1
      /\ status = "create" /\ status' = "boot" /\ toCreate' = toCreate - 1
      /\ toCreate \in 1..MaxPrograms /\ p + toCreate <= MaxPrograms
  <2>1. status = "create" /\ status' = "boot" /\ toCreate' = toCreate - 1
        /\ allocated = SegPages /\ procCount' = p + 1
    BY DEF FinishCreate
  <2>2. toCreate > 0 /\ toCreate \in 0..MaxPrograms /\ toCreate + p <= MaxPrograms
    BY <2>1 DEF VmInv, MainInv, Counts, TypeOK
  <2> QED
    BY <2>1, <2>2, CreatingFacts, ConstantFacts DEF InMain
<1>2. UNCHANGED <<allocated, free, table, curProcID, pcb, rpc, ptbr, seen>>
  BY DEF FinishCreate, cpu, process
<1>3. TypeOK /\ MemoryInv
  BY DEF VmInv
<1>4. \A k \in 0..(SegPages - 1) : SegVpn(k) \in Vpns
      /\ \A j \in 0..(SegPages - 1) : SegVpn(k) = SegVpn(j) => k = j
  BY ConstantFacts
<1>5. SegPages \in Nat \ {0} /\ 0 \in 0..(SegPages - 1)
  BY ConstantFacts
<1>6. \A k \in 0..(SegPages - 1) :
        Valid(p, SegVpn(k)) /\ Pfn(p, SegVpn(k)) = Pfn(p, SegVpn(0)) + k
        /\ Pfn(p, SegVpn(k)) \in UserFrames /\ Pfn(p, SegVpn(k)) \in Int
  BY ImageLands
<1>7. \A k \in 0..(SegPages - 1) : Loaded(Pfn(p, SegVpn(k))) = Image[p][SegVpn(k)]
  BY ImageLands
<1>8. \A f \in Frames : (\A k \in 0..(SegPages - 1) : Pfn(p, SegVpn(k)) # f)
        => Loaded(f) = phys[f]
  BY ImageLands
<1>9. phys' = [f \in Frames |-> Loaded(f)]
  BY DEF FinishCreate
<1>10. TypeOK'
  <2>1. toCreate' \in 0..MaxPrograms /\ procCount' \in 0..MaxPrograms
    BY <1>1, ConstantFacts
  <2>2. ASSUME NEW f \in Frames PROVE Loaded(f) \in Words
    <3>1. CASE \E k \in 0..(SegPages - 1) : Pfn(p, SegVpn(k)) = f
      BY <3>1, <1>1, <1>4, <1>7, ImageIsWord
    <3>2. CASE \A k \in 0..(SegPages - 1) : Pfn(p, SegVpn(k)) # f
      BY <3>2, <1>3, <1>8 DEF TypeOK
    <3> QED
      BY <3>1, <3>2
  <2>3. phys' \in [Frames -> Words]
    BY <2>2, <1>9
  <2> QED
    BY <2>1, <2>3, <1>1, <1>2, <1>3 DEF TypeOK
<1>11. MemoryInv'
  BY <1>2, <1>3, SameMemory
<1>12. \A q \in Pids : q < p + 1 <=> q < p \/ q = p
  BY <1>1 DEF Pids
<1>13. Counts' /\ PcbsFilled' /\ CreatedSoFar' /\ UpperFree'
  <2>1. Counts'
    BY <1>1, ConstantFacts DEF Counts
  <2>2. PcbsFilled'
    BY <1>1, <1>2, <1>12 DEF VmInv, MainInv, PcbsFilled, InMain
  <2>3. CreatedSoFar' /\ UpperFree'
    BY <1>1, <1>2 DEF VmInv, MainInv, CreatedSoFar, UpperFree, InMain
  <2> QED
    BY <2>1, <2>2, <2>3
<1>14. \A q \in Pids, v \in Vpns : Valid(q, v)' = Valid(q, v) /\ Pfn(q, v)' = Pfn(q, v)
  BY <1>2 DEF Valid, Pfn
<1>15. \A q \in Pids, k \in 0..(SegPages - 1) : q < p + 1 =>
         Valid(q, SegVpn(k)) /\ Pfn(q, SegVpn(k)) = Pfn(q, SegVpn(0)) + k
  BY <1>1, <1>6, <1>12 DEF VmInv, MainInv, InARow, InMain
<1>16. InARow'
  BY <1>1, <1>4, <1>5, <1>14, <1>15 DEF InARow
<1>17. Images'
  <2>1. ASSUME NEW q \in Pids, NEW k \in 0..(SegPages - 1), q < p + 1
        PROVE  phys'[Pfn(q, SegVpn(k))] = Image[q][SegVpn(k)]
    <3>1. Pfn(q, SegVpn(k)) \in Frames
      BY <2>1, <1>3, <1>4, <1>15, ConstantFacts DEF MemoryInv, OwnFrames
    <3>2. CASE q = p
      BY <3>1, <3>2, <1>7, <1>9
    <3>3. CASE q < p
      <4>1. phys[Pfn(q, SegVpn(k))] = Image[q][SegVpn(k)]
        BY <3>3, <1>1 DEF VmInv, MainInv, Images, InMain
      <4>2. \A j \in 0..(SegPages - 1) : Pfn(p, SegVpn(j)) # Pfn(q, SegVpn(k))
        BY <2>1, <3>3, <1>1, <1>3, <1>4, <1>6, <1>15 DEF MemoryInv, OwnFrames, Pids
      <4> QED
        BY <3>1, <4>1, <4>2, <1>8, <1>9
    <3> QED
      BY <2>1, <3>2, <3>3, <1>12
  <2> QED
    BY <2>1, <1>1, <1>4, <1>14 DEF Images
<1>18. RunsItsOwnTable'
  BY <1>1 DEF RunsItsOwnTable
<1>19. OnlyTheLive'
  <2>1. \A q \in Pids, u \in Vpns : Valid(q, u) => Live(q) \/ q = p
    BY DEF VmInv, OnlyTheLive
  <2>2. pcb[p].pid = p /\ p # Terminated
    BY <1>1 DEF VmInv, MainInv, PcbsFilled, Terminated
  <2>3. \A q \in Pids : Live(q) \/ q = p => Live(q)'
    BY <2>2, <1>1, <1>2, <1>12 DEF Live
  <2> QED
    BY <2>1, <2>3, <1>14 DEF OnlyTheLive
<1> QED
  BY <1>10, <1>11, <1>13, <1>16, <1>17, <1>18, <1>19 DEF VmInv, MainInv

-----------------------------------------------------------------------------
(* Leaving main, and the running machine.                                   *)

\* Outside main only the PTBR fields of the PCBs matter to MainInv.
LEMMA OutOfMain ==
  ASSUME VmInv, status' \notin {"boot", "create"}, UNCHANGED <<toCreate, procCount>>,
         \A q \in Pids : q < procCount => pcb'[q].ptbr = q
  PROVE  MainInv'
<1>1. ~InMain' /\ status' # "create"
  BY DEF InMain
<1>2. Counts'
  BY <1>1 DEF VmInv, MainInv, Counts
<1> QED
  BY <1>1, <1>2 DEF MainInv, PcbsFilled, CreatedSoFar, UpperFree, InARow, Images

\* Leaving the simulation changes nothing else.
LEMMA LeaveKeeps ==
  ASSUME VmInv, status' \in {"exited", "wild"}, UNCHANGED <<os, memory, cpu>>,
         seen' \in Delivered,
         status' = "exited" \/ status = "running"
  PROVE  VmInv'
<1>1. TypeOK' /\ MemoryInv'
  BY SameMemory DEF VmInv, TypeOK, os, memory, cpu, process
<1>2. MainInv'
  BY OutOfMain DEF VmInv, MainInv, PcbsFilled, os, cpu, process
<1>3. RunsItsOwnTable'
  BY DEF RunsItsOwnTable
<1>4. OnlyTheLive'
  BY DEF VmInv, OnlyTheLive, Live, Valid, os, memory, cpu, process
<1> QED
  BY <1>1, <1>2, <1>3, <1>4 DEF VmInv

LEMMA LoadFirstProcKeeps ==
  ASSUME VmInv, LoadFirstProc
  PROVE  VmInv'
<1>1. /\ status = "boot" /\ status' = "running"
      /\ UNCHANGED <<os, memory, pcb, seen>>
      /\ curProcID' = 0 /\ rpc' = pcb[0].pc /\ ptbr' = pcb[0].ptbr
  BY DEF LoadFirstProc
<1>2. 0 \in Pids /\ pcb[0].pc \in Vpns /\ pcb[0].ptbr \in Pids
  BY ConstantFacts DEF VmInv, TypeOK
<1>3. TypeOK' /\ MemoryInv'
  BY <1>1, <1>2, SameMemory DEF VmInv, TypeOK, os, memory
<1>4. \A q \in Pids : q < procCount => pcb[q].ptbr = q /\ pcb[q].pid = q
  BY <1>1 DEF VmInv, MainInv, PcbsFilled, InMain
<1>5. MainInv'
  BY <1>1, <1>4, OutOfMain DEF os
<1>6. RunsItsOwnTable'
  BY <1>1, <1>2, <1>4 DEF RunsItsOwnTable, Live, Terminated, os, VmInv, TypeOK
<1>7. OnlyTheLive'
  BY <1>1 DEF VmInv, OnlyTheLive, Live, Valid, os, memory
<1> QED
  BY <1>3, <1>5, <1>6, <1>7 DEF VmInv

\* An instruction that leaves the page tables, the bitmap and the PCBs alone.
LEMMA PlainStepKeeps ==
  ASSUME VmInv, status = "running", UNCHANGED <<status, os, free, table, curProcID, pcb, ptbr>>,
         rpc' \in Vpns, seen' \in Delivered, phys' \in [Frames -> Words]
  PROVE  VmInv'
<1>1. TypeOK' /\ MemoryInv'
  BY SameMemory DEF VmInv, TypeOK, os
<1>2. MainInv'
  BY OutOfMain DEF VmInv, MainInv, PcbsFilled, os
<1>3. RunsItsOwnTable'
  BY DEF VmInv, RunsItsOwnTable, Live, os
<1>4. OnlyTheLive'
  BY DEF VmInv, OnlyTheLive, Live, Valid, os
<1> QED
  BY <1>1, <1>2, <1>3, <1>4 DEF VmInv

\* Whoever fetches an instruction is a live process on its own table.
LEMMA FetchedFacts ==
  ASSUME VmInv, Fetched
  PROVE  /\ status = "running" /\ procCount > 0
         /\ curProcID \in Pids /\ Live(curProcID) /\ ptbr = curProcID
         /\ \A q \in Pids : q < procCount => pcb[q].ptbr = q
<1>1. status = "running" /\ Valid(ptbr, rpc) /\ ptbr \in Pids /\ rpc \in Vpns
  BY DEF Fetched, CanRead, Entry, VmInv, TypeOK, Valid
<1>2. Live(ptbr) /\ procCount \in Nat
  BY <1>1, ConstantFacts DEF VmInv, OnlyTheLive, TypeOK
<1>3. procCount > 0
  BY <1>1, <1>2 DEF Live, Pids
<1> QED
  BY <1>1, <1>3 DEF VmInv, RunsItsOwnTable

\* The incremented counter points into the address space.
LEMMA AdvancedFacts ==
  ASSUME VmInv
  PROVE  Advanced \subseteq Vpns
<1>1. rpc \in Vpns /\ NumVpns \in Nat \ {0}
  BY ConstantFacts DEF VmInv, TypeOK
<1>2. \A v \in Vpns : (v + 1) % NumVpns \in Vpns
  BY <1>1 DEF Vpns
<1> QED
  BY <1>1, <1>2 DEF Advanced

LEMMA JumpKeeps ==
  ASSUME VmInv, NEW v \in JumpVpns, Jump(v)
  PROVE  VmInv'
<1>1. v \in Vpns
  BY ProgramsAssumption DEF Vpns
<1>2. phys \in [Frames -> Words]
  BY DEF VmInv, TypeOK
<1> QED
  BY <1>1, <1>2, PlainStepKeeps, NothingIsDelivered DEF Jump, Fetched, memory, process

\* The frame of a page the process may read or write exists.
LEMMA FrameExists ==
  ASSUME VmInv, NEW v \in Vpns, Entry(v).valid
  PROVE  Entry(v).pfn \in Frames
<1>1. ptbr \in Pids
  BY DEF VmInv, TypeOK
<1> QED
  BY <1>1, ConstantFacts DEF VmInv, MemoryInv, OwnFrames, Entry, Valid, Pfn

LEMMA LoadKeeps ==
  ASSUME VmInv, NEW v \in DataVpns, Load(v)
  PROVE  VmInv'
<1>1. v \in Vpns
  BY ProgramsAssumption DEF Vpns
<1>2. rpc' \in Vpns /\ phys \in [Frames -> Words]
  BY AdvancedFacts DEF VmInv, TypeOK, Load
<1>3. \E w \in Words : seen' = <<"load", v, w>>
  <2>1. CASE v = 0 /\ seen' = <<"load", v, AllOnes>>
    BY <2>1, ConstantFacts
  <2>2. CASE v # 0 /\ CanRead(v) /\ seen' = <<"load", v, phys[Entry(v).pfn]>>
    BY <1>1, <1>2, <2>2, FrameExists DEF CanRead
  <2> QED
    BY <2>1, <2>2 DEF Load
<1>4. seen' \in Delivered
  BY <1>1, <1>3 DEF Delivered
<1> QED
  BY <1>2, <1>4, PlainStepKeeps DEF Load, Fetched, memory, process

LEMMA PutsKeeps ==
  ASSUME VmInv, NEW v \in DataVpns, Puts(v)
  PROVE  VmInv'
<1>1. rpc' \in Vpns /\ phys \in [Frames -> Words]
  BY AdvancedFacts DEF VmInv, TypeOK, Puts
<1>2. v \in Frames => phys[v] \in Words
  BY <1>1
<1>3. seen' \in Delivered
  BY <1>2 DEF Puts, Delivered
<1> QED
  BY <1>1, <1>3, PlainStepKeeps DEF Puts, Fetched, memory, process

LEMMA StoreKeeps ==
  ASSUME VmInv, NEW v \in DataVpns, NEW w \in Words, Store(v, w)
  PROVE  VmInv'
<1>1. v \in Vpns
  BY ProgramsAssumption DEF Vpns
<1>2. rpc' \in Vpns /\ phys \in [Frames -> Words]
  BY AdvancedFacts DEF VmInv, TypeOK, Store
<1>3. phys' \in [Frames -> Words]
  BY <1>2 DEF Store
<1> QED
  BY <1>2, <1>3, PlainStepKeeps, NothingIsDelivered DEF Store, Fetched, process

\* A page that brk gives or takes is a page of the running process.
LEMMA BrkAllocKeeps ==
  ASSUME VmInv, NEW v \in BrkVpns, NEW access \in BrkAccess, BrkAlloc(v, access),
         NEW p, p = ptbr
  PROVE  VmInv'
<1>1. /\ status = "running" /\ p \in Pids /\ Live(p)
      /\ \A q \in Pids : q < procCount => pcb[q].ptbr = q
  BY FetchedFacts DEF BrkAlloc
<1>2. /\ UNCHANGED <<status, os, phys, process>> /\ v \in Vpns /\ rpc' \in Vpns
      /\ seen' \in Delivered
  BY ProgramsAssumption, AdvancedFacts, NothingIsDelivered DEF BrkAlloc, Vpns
<1>3. CASE UNCHANGED <<free, table>>
  BY <1>1, <1>2, <1>3, PlainStepKeeps DEF process, VmInv, TypeOK
<1>4. CASE /\ ~(Entry(v).valid \/ free = {})
           /\ AllocMem(ptbr, v, access % 2 = 1, access \div 2 = 1)
  <2>1. PICK r \in BOOLEAN, w \in BOOLEAN : AllocMem(p, v, r, w)
    <3>1. (access % 2 = 1) \in BOOLEAN /\ (access \div 2 = 1) \in BOOLEAN
      OBVIOUS
    <3> QED
      BY <3>1, <1>4, Zenon
  <2>2. TypeOK /\ MemoryInv /\ ~Valid(p, v)
    BY <1>4 DEF VmInv, Entry, Valid
  <2>3. MemoryInv' /\ free' \subseteq UserFrames
    BY <1>1, <1>2, <2>1, <2>2, AllocMemKeeps
  <2>4. PICK f : GivesFrame(p, v, f)
    BY <1>1, <1>2, <2>1, <2>2, AllocMemEffect
  <2>5. /\ table' \in TableType
        /\ \A q \in Pids, u \in Vpns : Valid(q, u)' => Valid(q, u) \/ q = p
    BY <2>4 DEF GivesFrame
  <2>6. TypeOK'
    BY <1>2, <2>2, <2>3, <2>5 DEF TypeOK, TableType, os, process
  <2>7. MainInv'
    BY <1>1, <1>2, OutOfMain DEF os, process
  <2>8. RunsItsOwnTable'
    BY <1>2 DEF VmInv, RunsItsOwnTable, Live, os, process
  <2>9. OnlyTheLive'
    BY <1>1, <1>2, <2>5 DEF VmInv, OnlyTheLive, Live, os, process
  <2> QED
    BY <2>3, <2>6, <2>7, <2>8, <2>9 DEF VmInv
<1> QED
  BY <1>3, <1>4 DEF BrkAlloc

LEMMA BrkFreeKeeps ==
  ASSUME VmInv, NEW v \in BrkVpns, BrkFree(v), NEW p, p = ptbr
  PROVE  VmInv'
<1>1. /\ status = "running" /\ p \in Pids /\ Live(p)
      /\ \A q \in Pids : q < procCount => pcb[q].ptbr = q
  BY FetchedFacts DEF BrkFree
<1>2. /\ UNCHANGED <<status, os, phys, process>> /\ v \in Vpns /\ rpc' \in Vpns
      /\ seen' \in Delivered
  BY ProgramsAssumption, AdvancedFacts, NothingIsDelivered DEF BrkFree, Vpns
<1>3. CASE UNCHANGED <<free, table>>
  BY <1>1, <1>2, <1>3, PlainStepKeeps DEF process, VmInv, TypeOK
<1>4. CASE FreeMem(p, {v})
  <2>1. TypeOK /\ MemoryInv /\ {v} \in SUBSET Vpns
    BY <1>2 DEF VmInv
  <2>2. MemoryInv' /\ free' \subseteq UserFrames
    BY <1>1, <1>4, <2>1, FreeMemKeeps
  <2>3. TakesFrames(p, {v})
    BY <1>1, <1>4, <2>1, FreeMemEffect
  <2>4. /\ table' \in TableType
        /\ \A q \in Pids, u \in Vpns : Valid(q, u)' => Valid(q, u)
    BY <2>3 DEF TakesFrames
  <2>5. TypeOK'
    BY <1>2, <2>1, <2>2, <2>4 DEF TypeOK, TableType, os, process
  <2>6. MainInv'
    BY <1>1, <1>2, OutOfMain DEF os, process
  <2>7. RunsItsOwnTable'
    BY <1>2 DEF VmInv, RunsItsOwnTable, Live, os, process
  <2>8. OnlyTheLive'
    BY <1>2, <2>4 DEF VmInv, OnlyTheLive, Live, os, process
  <2> QED
    BY <2>2, <2>5, <2>6, <2>7, <2>8 DEF VmInv
<1> QED
  BY <1>3, <1>4 DEF BrkFree

PcbType == [pid : Pids \cup {Terminated}, pc : Vpns, ptbr : Pids]

\* A switch saves the process that ran and puts the CPU on the table of a live
\* one.
LEMMA YieldKeeps ==
  ASSUME VmInv, NEW q \in Pids, Yield(q), NEW c, c = curProcID
  PROVE  VmInv'
<1>1. /\ status = "running" /\ procCount > 0 /\ c \in Pids /\ Live(c) /\ ptbr = c
      /\ \A o \in Pids : o < procCount => pcb[o].ptbr = o
  BY FetchedFacts DEF Yield
<1>2. /\ UNCHANGED <<status, os, memory>> /\ q < procCount /\ pcb[q].pid # Terminated
      /\ seen' \in Delivered
  BY NothingIsDelivered DEF Yield, FirstAfter
<1>0. PICK n \in Vpns :
        IF q = c
          THEN rpc' = n /\ UNCHANGED process
          ELSE /\ pcb' = [pcb EXCEPT ![c].pc = n, ![c].ptbr = ptbr]
               /\ SwitchTo(q, pcb)
  BY AdvancedFacts DEF Yield
<1>3. /\ pcb \in [Pids -> PcbType] /\ rpc \in Vpns /\ ptbr \in Pids
      /\ phys \in [Frames -> Words]
  BY DEF VmInv, TypeOK, PcbType
<1>4. CASE q = c
  <2>1. rpc' \in Vpns /\ UNCHANGED process
    BY <1>4, <1>0
  <2> QED
    BY <1>1, <1>2, <1>3, <2>1, PlainStepKeeps DEF memory, process
<1>5. CASE q # c
  <2>1. /\ pcb' = [pcb EXCEPT ![c].pc = n, ![c].ptbr = ptbr]
        /\ rpc' = pcb[q].pc /\ ptbr' = pcb[q].ptbr /\ curProcID' = q
    BY <1>5, <1>0 DEF SwitchTo
  <2>2. pcb[c] \in PcbType /\ pcb[q] \in PcbType
    BY <1>1, <1>3
  <2>3. pcb' \in [Pids -> PcbType]
    BY <1>1, <1>3, <2>1, <2>2 DEF PcbType
  <2>4. \A o \in Pids : pcb'[o].pid = pcb[o].pid
    BY <1>1, <1>3, <2>1, <2>2 DEF PcbType
  <2>5. \A o \in Pids : o < procCount => pcb'[o].ptbr = o
    BY <1>1, <1>3, <2>1, <2>2 DEF PcbType
  <2>6. TypeOK' /\ MemoryInv'
    BY <1>2, <2>1, <2>2, <2>3, SameMemory DEF VmInv, TypeOK, PcbType, os, memory
  <2>7. MainInv'
    BY <1>1, <1>2, <2>5, OutOfMain DEF os
  <2>8. RunsItsOwnTable'
    BY <1>1, <1>2, <2>1, <2>4, <2>5 DEF RunsItsOwnTable, Live, os
  <2>9. OnlyTheLive'
    BY <1>2, <2>4 DEF VmInv, OnlyTheLive, Live, Valid, os, memory
  <2> QED
    BY <2>6, <2>7, <2>8, <2>9 DEF VmInv
<1> QED
  BY <1>4, <1>5

\* A process that halts takes its pages with it.
LEMMA HaltKeeps ==
  ASSUME VmInv, Halt, NEW c, c = curProcID
  PROVE  VmInv'
<1>1. /\ status = "running" /\ procCount > 0 /\ c \in Pids /\ Live(c) /\ ptbr = c
      /\ \A o \in Pids : o < procCount => pcb[o].ptbr = o
  BY FetchedFacts DEF Halt
<1>2. UNCHANGED <<os, phys>> /\ seen' \in Delivered /\ FreeMem(c, Vpns)
      /\ pcb' = [pcb EXCEPT ![c].pid = Terminated]
  BY <1>1, NothingIsDelivered DEF Halt
<1>3. TypeOK /\ MemoryInv /\ Vpns \in SUBSET Vpns
      /\ pcb \in [Pids -> PcbType] /\ pcb[c] \in PcbType
  BY <1>1 DEF VmInv, TypeOK, PcbType
<1>4. MemoryInv' /\ free' \subseteq UserFrames
  BY <1>1, <1>2, <1>3, FreeMemKeeps
<1>5. TakesFrames(c, Vpns)
  BY <1>1, <1>2, <1>3, FreeMemEffect
<1>6. /\ table' \in TableType
      /\ \A o \in Pids, u \in Vpns : Valid(o, u)' => Valid(o, u) /\ o # c
  BY <1>5 DEF TakesFrames
<1>7. /\ pcb' \in [Pids -> PcbType]
      /\ \A o \in Pids : pcb'[o].ptbr = pcb[o].ptbr
      /\ \A o \in Pids : o # c => pcb'[o] = pcb[o]
  BY <1>1, <1>2, <1>3 DEF PcbType
<1>8. OnlyTheLive'
  <2>1. \A o \in Pids : Live(o) /\ o # c => Live(o)'
    BY <1>2, <1>7 DEF Live, os
  <2> QED
    BY <1>1, <1>6, <2>1 DEF VmInv, OnlyTheLive
<1>9. status' \notin {"boot", "create"} => MainInv'
  BY <1>1, <1>2, <1>7, OutOfMain DEF os
<1>10. CASE status' = "halted" /\ rpc' \in Advanced /\ UNCHANGED <<ptbr, curProcID>>
  <2>0. rpc' \in Vpns
    BY <1>10, AdvancedFacts
  <2>1. TypeOK'
    BY <2>0, <1>2, <1>3, <1>4, <1>6, <1>7, <1>10 DEF TypeOK, TableType, PcbType, os
  <2>2. RunsItsOwnTable'
    BY <1>10 DEF RunsItsOwnTable
  <2> QED
    BY <1>4, <1>8, <1>9, <1>10, <2>1, <2>2 DEF VmInv
<1>11. CASE /\ \E q \in 0..(procCount - 1) :
                  FirstAfter(curProcID, q, pcb') /\ SwitchTo(q, pcb')
            /\ UNCHANGED status
  <2>1. PICK q \in 0..(procCount - 1) :
          FirstAfter(c, q, pcb') /\ SwitchTo(q, pcb')
    BY <1>11
  <2>2. q \in Pids /\ q < procCount
    <3>1. procCount \in 0..MaxPrograms
      BY <1>3 DEF TypeOK
    <3> QED
      BY <2>1, <3>1, ConstantFacts DEF Pids
  <2>3. /\ pcb'[q].pid # Terminated
        /\ rpc' = pcb'[q].pc /\ ptbr' = pcb'[q].ptbr /\ curProcID' = q
    BY <2>1 DEF FirstAfter, SwitchTo
  <2>4. pcb'[q] \in PcbType /\ pcb'[q].ptbr = q
    BY <1>1, <1>7, <2>2
  <2>5. TypeOK'
    BY <1>2, <1>3, <1>4, <1>6, <1>7, <1>11, <2>2, <2>3, <2>4
       DEF TypeOK, TableType, PcbType, os
  <2>6. RunsItsOwnTable'
    BY <1>1, <1>2, <1>7, <2>2, <2>3, <2>4 DEF RunsItsOwnTable, Live, os
  <2> QED
    BY <1>1, <1>4, <1>8, <1>9, <1>11, <2>5, <2>6 DEF VmInv
<1> QED
  BY <1>10, <1>11 DEF Halt

LEMMA NextKeeps ==
  ASSUME VmInv, [Next]_vars
  PROVE  VmInv'
<1>1. CASE BeginCreate
  BY <1>1, BeginCreateKeeps
<1>2. CASE AllocSegmentPage
  BY <1>2, AllocSegmentPageKeeps
<1>3. CASE CreateFails
  BY <1>3, CreateFailsKeeps
<1>4. CASE FinishCreate
  BY <1>4, FinishCreateKeeps
<1>5. CASE FileMissing \/ FetchFault \/ FetchReserved
  <2>1. seen' \in Delivered
    BY <1>5, NothingIsDelivered DEF FileMissing, FetchFault, FetchReserved, VmInv, TypeOK
  <2> QED
    BY <1>5, <2>1, LeaveKeeps DEF FileMissing, FetchFault, FetchReserved
<1>6. CASE LoadFirstProc
  BY <1>6, LoadFirstProcKeeps
<1>7. CASE Instruction
  <2>1. ASSUME NEW v \in DataVpns, AccessFault(v) PROVE VmInv'
    BY <2>1, LeaveKeeps, NothingIsDelivered DEF AccessFault
  <2>2. ASSUME WildTrap PROVE VmInv'
    BY <2>2, LeaveKeeps, NothingIsDelivered DEF WildTrap, Fetched
  <2> QED
    BY <1>7, <2>1, <2>2, JumpKeeps, LoadKeeps, PutsKeeps, StoreKeeps, BrkAllocKeeps,
       BrkFreeKeeps, YieldKeeps, HaltKeeps DEF Instruction
<1>8. CASE UNCHANGED vars
  <2>1. UNCHANGED <<status, os, memory, cpu, seen>>
    BY <1>8 DEF vars, os, memory, cpu, process
  <2>2. TypeOK' /\ MemoryInv'
    BY <2>1, SameMemory DEF VmInv, TypeOK, os, memory, cpu, process
  <2>3. MainInv' /\ RunsItsOwnTable' /\ OnlyTheLive'
    BY <2>1 DEF VmInv, MainInv, Counts, PcbsFilled, CreatedSoFar, UpperFree, InARow,
                Images, InMain, RunsItsOwnTable, OnlyTheLive, Live, Valid, Pfn,
                os, memory, cpu, process
  <2> QED
    BY <2>2, <2>3 DEF VmInv
<1> QED
  BY <1>1, <1>2, <1>3, <1>4, <1>5, <1>6, <1>7, <1>8 DEF Next, Boot, Stopped

-----------------------------------------------------------------------------
(* The theorems.                                                            *)

\* Whatever main creates and the programs do, VmInv holds.
THEOREM VmInvariant == Spec => []VmInv
<1>1. Init => VmInv
  BY InitKeeps
<1>2. VmInv /\ [Next]_vars => VmInv'
  BY NextKeeps
<1> QED
  BY <1>1, <1>2, PTL DEF Spec

\* Every variable keeps its type: page tables hold frame numbers, PCBs hold
\* process ids, and the bitmap never offers a frame of the OS.
THEOREM VmTypeCorrect == Spec => []TypeOK
<1>1. VmInv => TypeOK
  BY DEF VmInv
<1> QED
  BY <1>1, VmInvariant, PTL

\* allocMem never hands out a frame that a page, of any process, still has.
THEOREM FramesAreExclusive == Spec => []NoFrameShared
<1>1. VmInv => NoFrameShared
  <2> SUFFICES ASSUME VmInv PROVE NoFrameShared
    OBVIOUS
  <2>1. OwnFrames
    BY DEF VmInv, MemoryInv
  <2>2. \A s \in Mapped : /\ s[1] \in Pids /\ s[2] \in Vpns /\ s = <<s[1], s[2]>>
                          /\ Valid(s[1], s[2]) /\ FrameOf(s) = Pfn(s[1], s[2])
    BY DEF Mapped, Slots, FrameOf, Valid, Pfn
  <2> QED
    BY <2>1, <2>2 DEF NoFrameShared, OwnFrames
<1> QED
  BY <1>1, VmInvariant, PTL

\* The bits of mem[3] and mem[4] and the page tables always agree.
THEOREM BitmapAgrees == Spec => []BitmapExact
<1>1. VmInv => BitmapExact
  <2> SUFFICES ASSUME VmInv PROVE BitmapExact
    OBVIOUS
  <2>1. FreeIsUnused
    BY DEF VmInv, MemoryInv
  <2>2. \A s \in Mapped : /\ s[1] \in Pids /\ s[2] \in Vpns
                          /\ Valid(s[1], s[2]) /\ FrameOf(s) = Pfn(s[1], s[2])
    BY DEF Mapped, Slots, FrameOf, Valid, Pfn
  <2>3. \A p \in Pids, v \in Vpns : Valid(p, v) =>
          <<p, v>> \in Mapped /\ FrameOf(<<p, v>>) = Pfn(p, v)
    BY DEF Mapped, Slots, FrameOf, Valid, Pfn
  <2>4. SUFFICES ASSUME NEW f \in UserFrames
                 PROVE  f \in free <=> \A s \in Mapped : FrameOf(s) # f
    BY DEF BitmapExact
  <2>5. f \in free <=> \A p \in Pids, v \in Vpns : Valid(p, v) => Pfn(p, v) # f
    BY <2>1 DEF FreeIsUnused
  <2>6. (\A p \in Pids, v \in Vpns : Valid(p, v) => Pfn(p, v) # f)
          => \A s \in Mapped : FrameOf(s) # f
    BY <2>2
  <2>7. (\A s \in Mapped : FrameOf(s) # f)
          => \A p \in Pids, v \in Vpns : Valid(p, v) => Pfn(p, v) # f
    BY <2>3
  <2> QED
    BY <2>5, <2>6, <2>7
<1> QED
  BY <1>1, VmInvariant, PTL

\* After any yields and halts the CPU translates with the table of the process
\* it runs.
THEOREM CpuRunsItsOwnTable == Spec => []RunsItsOwnTable
<1>1. VmInv => RunsItsOwnTable
  BY DEF VmInv
<1> QED
  BY <1>1, VmInvariant, PTL

\* halt and the rollback of createProc leave no page behind.
THEOREM NothingIsLeftBehind == Spec => []DeadHoldNothing
<1>1. VmInv => DeadHoldNothing
  <2>1. \A s \in Mapped : s[1] \in Pids /\ s[2] \in Vpns /\ Valid(s[1], s[2])
    BY DEF Mapped, Slots, Valid
  <2> QED
    BY <2>1 DEF VmInv, OnlyTheLive, DeadHoldNothing
<1> QED
  BY <1>1, VmInvariant, PTL

\* First-fit allocation in main puts the pages of a process into frames that
\* follow one another, also after failed creations, so that ld_img may read a
\* whole segment from the offset of its first page.
THEOREM ProgramsAreLoaded == Spec => []ImagesInPlace
<1>1. VmInv => ImagesInPlace
  BY DEF VmInv, MainInv, InARow, Images, ImagesInPlace, InMain, Valid, Pfn
<1> QED
  BY <1>1, VmInvariant, PTL

-----------------------------------------------------------------------------
(* Vm implements PrivateSpaces: through page tables, one bitmap and one      *)
(* physical memory each process sees an address space and a program counter  *)
(* of its own.  Each step of Vm is one step of PrivateSpaces, or none.       *)

\* While main creates processes none runs, and the one being created starts at
\* the first page of its code, which it may only read.
BootInv ==
    /\ InMain => curProcID = Terminated
    /\ status = "create" =>
         /\ pcb[procCount].pc = FirstCodeVpn
         /\ \A k \in 0..(allocated - 1) :
              /\ table[procCount][SegVpn(k)].read
              /\ table[procCount][SegVpn(k)].write = (k >= CodeSize)

-----------------------------------------------------------------------------

\* What the variables of PrivateSpaces are here.
MainStatus == IF status = "create" THEN "boot" ELSE status
LiveOnes == {p \in Pids : Live(p)}
Counters == [p \in Pids |-> CounterOf(p)]
AllSpaces == [p \in Pids |-> SpaceOf(p)]

Unmapped == [mapped |-> FALSE, read |-> FALSE, write |-> FALSE, data |-> 0]

LEMMA SpaceFacts ==
    /\ Spaces!Unmapped = Unmapped
    /\ Spaces!Empty = [v \in Vpns |-> Unmapped]
    /\ \A v : Spaces!Readable(v) <=> AllSpaces[curProcID][v].read
    /\ \A v : Spaces!Writable(v) <=> AllSpaces[curProcID][v].write
BY DEF Spaces!Unmapped, Spaces!Empty, Unmapped, Spaces!Readable, Spaces!Writable, AllSpaces

LEMMA NothingMoves ==
    ASSUME UNCHANGED <<MainStatus, curProcID, LiveOnes, Counters, AllSpaces, seen>>
    PROVE  [Spaces!Next]_(Spaces!vars)
BY DEF MainStatus, LiveOnes, Counters, AllSpaces, Spaces!vars

LEMMA StartMoves ==
    ASSUME NEW p \in Pids, MainStatus = "boot", p \notin LiveOnes,
           LiveOnes' = LiveOnes \cup {p},
           AllSpaces' = [AllSpaces EXCEPT ![p] = InitialSpace(p)],
           UNCHANGED <<MainStatus, curProcID, Counters, seen>>
    PROVE  Spaces!Next
<1>1. Spaces!Start(p)
  BY DEF MainStatus, LiveOnes, Counters, AllSpaces, Spaces!Start
<1> QED
  BY <1>1 DEF Spaces!Next

LEMMA InitSpaces == Init => Spaces!Init
<1> SUFFICES ASSUME Init PROVE Spaces!Init
  OBVIOUS
<1>1. \A p \in Pids : ~(p < procCount)
  BY DEF Init, Pids
<1>2. AllSpaces = [p \in Pids |-> [v \in Vpns |-> Unmapped]]
  BY <1>1 DEF AllSpaces, SpaceOf, Unmapped
<1>3. LiveOnes = {} /\ Counters = [p \in Pids |-> FirstCodeVpn]
  BY <1>1 DEF LiveOnes, Counters, CounterOf, Live
<1>4. MainStatus = "boot" /\ curProcID = Terminated /\ seen = Spaces!Nothing
  BY DEF Init, MainStatus, Nothing, Spaces!Nothing
<1> QED
  BY <1>2, <1>3, <1>4, SpaceFacts
  DEF Spaces!Init, MainStatus, LiveOnes, Counters, AllSpaces

-----------------------------------------------------------------------------
(* BootInv is inductive together with VmInv.                                *)

LEMMA InitBoot == Init => BootInv
BY DEF Init, BootInv, InMain

\* allocMem sets the access bits it is given.
LEMMA AllocMemBits ==
    ASSUME TypeOK, NEW p \in Pids, NEW v \in Vpns,
           NEW r \in BOOLEAN, NEW w \in BOOLEAN, AllocMem(p, v, r, w)
    PROVE  /\ \E f \in free :
                table'[p][v] = [valid |-> TRUE, pfn |-> f, read |-> r, write |-> w]
           /\ \A q \in Pids, u \in Vpns : q # p \/ u # v => table'[q][u] = table[q][u]
<1>1. PICK f \in free :
          table' = [table EXCEPT ![p][v] =
               [valid |-> TRUE, pfn |-> f, read |-> r, write |-> w]]
  BY DEF AllocMem
<1> DEFINE entry == [valid |-> TRUE, pfn |-> f, read |-> r, write |-> w]
<1>2. table \in [Pids -> [Vpns -> PageEntry]]
  BY DEF TypeOK
<1>3. table' = [table EXCEPT ![p][v] = entry]
  BY <1>1
<1> HIDE DEF entry
<1>4. table'[p][v] = entry /\ \A q \in Pids, u \in Vpns : q # p \/ u # v => table'[q][u] = table[q][u]
  BY <1>2, <1>3
<1> QED
  BY <1>4 DEF entry

LEMMA BootStep ==
    ASSUME VmInv, BootInv, [Next]_vars
    PROVE  BootInv'
<1>0. TypeOK
  BY DEF VmInv
<1>1. CASE BeginCreate
  <2>1. procCount \in Pids
    BY <1>1, CreatingFacts DEF BeginCreate, InMain
  <2>2. pcb'[procCount].pc = FirstCodeVpn
    BY <1>0, <1>1, <2>1 DEF BeginCreate, TypeOK
  <2> QED
    BY <1>1, <2>2 DEF BeginCreate, BootInv, InMain
<1>2. CASE AllocSegmentPage
  <2> DEFINE p == procCount
             n == allocated
             w == (n >= CodeSize)
  <2>1. /\ status = "create" /\ status' = "create" /\ n < SegPages /\ allocated' = n + 1
        /\ UNCHANGED <<procCount, curProcID, pcb>>
        /\ AllocMem(p, SegVpn(n), TRUE, w)
    BY <1>2 DEF AllocSegmentPage, cpu, process
  <2>2. /\ p \in Pids /\ n \in 0..(SegPages - 1) /\ SegVpn(n) \in Vpns /\ w \in BOOLEAN
        /\ \A k \in 0..(n - 1) : SegVpn(k) \in Vpns /\ SegVpn(k) # SegVpn(n)
    <3>1. p \in Pids
      BY <2>1, CreatingFacts DEF VmInv, MainInv, Counts, InMain
    <3>2. n \in 0..(SegPages - 1)
      BY <1>0, <2>1, ConstantFacts DEF TypeOK
    <3> QED
      BY <3>1, <3>2, ConstantFacts
  <2>3. /\ table'[p][SegVpn(n)].read /\ table'[p][SegVpn(n)].write = w
        /\ \A k \in 0..(n - 1) : table'[p][SegVpn(k)] = table[p][SegVpn(k)]
    <3> HIDE DEF p, n, w
    <3>1. /\ \E f \in free :
                table'[p][SegVpn(n)] =
                    [valid |-> TRUE, pfn |-> f, read |-> TRUE, write |-> w]
          /\ \A q \in Pids, u \in Vpns :
                q # p \/ u # SegVpn(n) => table'[q][u] = table[q][u]
      BY <1>0, <2>1, <2>2, AllocMemBits
    <3> QED
      BY <2>2, <3>1
  <2>4. \A k \in 0..(n - 1) :
            table[p][SegVpn(k)].read /\ table[p][SegVpn(k)].write = (k >= CodeSize)
    BY <2>1 DEF BootInv
  <2>5. \A k \in 0..n :
            table'[p][SegVpn(k)].read /\ table'[p][SegVpn(k)].write = (k >= CodeSize)
    <3> SUFFICES ASSUME NEW k \in 0..n
                 PROVE  table'[p][SegVpn(k)].read /\ table'[p][SegVpn(k)].write = (k >= CodeSize)
      OBVIOUS
    <3>1. CASE k = n
      BY <2>3, <3>1
    <3>2. CASE k # n
      BY <2>2, <2>3, <2>4, <3>2
    <3> QED
      BY <3>1, <3>2
  <2> QED
    BY <2>1, <2>2, <2>5 DEF BootInv, InMain
<1>3. CASE CreateFails \/ FinishCreate
  BY <1>3 DEF CreateFails, FinishCreate, BootInv, InMain, cpu, process
<1>4. CASE UNCHANGED vars
  BY <1>4 DEF vars, os, memory, cpu, process, BootInv, InMain
<1>5. CASE FileMissing \/ LoadFirstProc \/ FetchFault \/ FetchReserved \/ Instruction
  <2>1. status' \notin {"boot", "create"}
    BY <1>5
    DEF FileMissing, LoadFirstProc, FetchFault, FetchReserved, Instruction, Jump, Load,
        AccessFault, Puts, Store, BrkFree, BrkAlloc, Yield, Halt, WildTrap, Fetched
  <2> QED
    BY <2>1 DEF BootInv, InMain
<1> QED
  BY <1>1, <1>2, <1>3, <1>4, <1>5 DEF Next, Boot, Stopped

-----------------------------------------------------------------------------
(* main: the steps of a creation are seen when it is finished.              *)

\* A process keeps its space when its entries and their frames stay.
LEMMA SpaceStays ==
    ASSUME NEW p \in Pids, p < procCount' <=> p < procCount,
           p < procCount =>
             \A v \in Vpns : /\ table'[p][v] = table[p][v]
                             /\ Valid(p, v) => phys'[Pfn(p, v)] = phys[Pfn(p, v)]
    PROVE  SpaceOf(p)' = SpaceOf(p)
BY DEF SpaceOf, Valid, Pfn

\* A step of main before the creation is finished is not seen.
LEMMA CreationIsUnseen ==
    ASSUME VmInv, InMain, InMain', UNCHANGED <<procCount, curProcID, phys, seen>>,
           \A p \in Pids : p < procCount => pcb'[p] = pcb[p] /\ table'[p] = table[p]
    PROVE  [Spaces!Next]_(Spaces!vars)
<1>1. \A p \in Pids : Live(p)' <=> Live(p)
  BY DEF Live
<1>2. LiveOnes' = LiveOnes
  BY <1>1 DEF LiveOnes
<1>3. \A p \in Pids : CounterOf(p)' = CounterOf(p)
  BY <1>1 DEF CounterOf, InMain, Live
<1>4. \A p \in Pids : SpaceOf(p)' = SpaceOf(p)
  BY SpaceStays
<1>5. MainStatus' = MainStatus
  BY DEF MainStatus, InMain
<1>6. Counters' = Counters /\ AllSpaces' = AllSpaces
  BY <1>3, <1>4 DEF Counters, AllSpaces
<1> QED
  BY <1>2, <1>5, <1>6, NothingMoves

LEMMA CreatingStep ==
    ASSUME VmInv, BeginCreate \/ AllocSegmentPage \/ CreateFails
    PROVE  [Spaces!Next]_(Spaces!vars)
<1>0. /\ TypeOK /\ InMain /\ InMain' /\ procCount \in Pids
      /\ UNCHANGED <<procCount, curProcID, phys, seen>>
  <2>1. toCreate > 0
    BY DEF BeginCreate, AllocSegmentPage, CreateFails, VmInv, MainInv, Counts
  <2> QED
    BY <2>1, CreatingFacts
    DEF VmInv, BeginCreate, AllocSegmentPage, CreateFails, InMain, memory, cpu, process
<1>1. \A p \in Pids : p < procCount => pcb'[p] = pcb[p]
  <2>1. CASE BeginCreate
    BY <1>0, <2>1 DEF BeginCreate, TypeOK, Pids
  <2>2. CASE AllocSegmentPage \/ CreateFails
    BY <2>2 DEF AllocSegmentPage, CreateFails, cpu, process
  <2> QED
    BY <2>1, <2>2
<1>2. \A p \in Pids : p < procCount => table'[p] = table[p]
  <2>1. CASE BeginCreate
    BY <2>1 DEF BeginCreate, memory
  <2>2. CASE AllocSegmentPage
    <3>1. PICK row : table' = [table EXCEPT ![procCount] = row]
      BY <2>2 DEF AllocSegmentPage, AllocMem
    <3> QED
      BY <1>0, <3>1 DEF TypeOK, Pids
  <2>3. CASE CreateFails
    <3>1. PICK row : table' = [table EXCEPT ![procCount] = row]
      BY <2>3 DEF CreateFails, FreeMem
    <3> QED
      BY <1>0, <3>1 DEF TypeOK, Pids
  <2> QED
    BY <2>1, <2>2, <2>3
<1> QED
  BY <1>0, <1>1, <1>2, CreationIsUnseen

LEMMA FinishStep ==
    ASSUME VmInv, BootInv, VmInv', FinishCreate, NEW p, p = procCount
    PROVE  [Spaces!Next]_(Spaces!vars)
<1>0. /\ TypeOK /\ status = "create" /\ status' = "boot" /\ allocated = SegPages
      /\ procCount' = p + 1 /\ UNCHANGED <<table, curProcID, pcb, rpc, seen>>
      /\ phys' = [f \in Frames |-> Loaded(f)]
  BY DEF VmInv, FinishCreate, cpu, process
<1>1. p \in Pids /\ p \in Nat /\ \A q \in Pids : q < p + 1 <=> q < p \/ q = p
  BY ImageLands DEF Pids
<1>2. \A k \in 0..(SegPages - 1) :
        /\ Valid(p, SegVpn(k)) /\ Pfn(p, SegVpn(k)) \in Frames
        /\ phys'[Pfn(p, SegVpn(k))] = Image[p][SegVpn(k)]
  BY <1>0, ImageLands, ConstantFacts
<1>3. \A q \in Pids, v \in Vpns : q < p /\ Valid(q, v) => phys'[Pfn(q, v)] = phys[Pfn(q, v)]
  <2> SUFFICES ASSUME NEW q \in Pids, NEW v \in Vpns, q < p, Valid(q, v)
               PROVE  phys'[Pfn(q, v)] = phys[Pfn(q, v)]
    OBVIOUS
  <2>1. Pfn(q, v) \in Frames
    BY ConstantFacts DEF VmInv, MemoryInv, OwnFrames
  <2>2. \A k \in 0..(SegPages - 1) : Pfn(p, SegVpn(k)) # Pfn(q, v)
    BY <1>1, <1>2, ConstantFacts DEF VmInv, MemoryInv, OwnFrames
  <2>3. Loaded(Pfn(q, v)) = phys[Pfn(q, v)]
    BY <2>1, <2>2, ImageLands
  <2> QED
    BY <1>0, <2>1, <2>3
<1>4. \A q \in Pids : q # p => SpaceOf(q)' = SpaceOf(q)
  BY <1>0, <1>1, <1>3, SpaceStays
<1>5. SpaceOf(p)' = InitialSpace(p)
  <2> SUFFICES ASSUME NEW v \in Vpns PROVE SpaceOf(p)'[v] = InitialSpace(p)[v]
    BY DEF SpaceOf, InitialSpace
  <2>1. CASE \E k \in 0..(SegPages - 1) : v = SegVpn(k)
    <3>1. PICK k \in 0..(SegPages - 1) : v = SegVpn(k)
      BY <2>1
    <3>2. /\ table[p][v].valid /\ table[p][v].read /\ table[p][v].write = (k >= CodeSize)
      BY <1>0, <1>2, <3>1 DEF BootInv, Valid
    <3>3. (k >= CodeSize) = (v >= SegVpn(CodeSize))
      BY <3>1, ConstantFacts DEF SegVpn, Vpns
    <3>4. phys'[table[p][v].pfn] = Image[p][v]
      BY <1>2, <3>1 DEF Pfn
    <3>5. /\ table[p][v].read \in BOOLEAN
      BY <1>0, <1>1, EntryFacts
    <3> QED
      BY <1>0, <1>1, <2>1, <3>2, <3>3, <3>4, <3>5 DEF SpaceOf, InitialSpace
  <2>2. CASE ~\E k \in 0..(SegPages - 1) : v = SegVpn(k)
    <3>1. ~table[p][v].valid
      BY <1>0, <2>2 DEF VmInv, MainInv, CreatedSoFar, Valid
    <3> QED
      BY <1>0, <2>2, <3>1 DEF SpaceOf, InitialSpace
  <2> QED
    BY <2>1, <2>2
<1>6. AllSpaces' = [AllSpaces EXCEPT ![p] = InitialSpace(p)]
  BY <1>4, <1>5 DEF AllSpaces
<1>7. /\ pcb[p].pid # Terminated /\ pcb[p].pc = FirstCodeVpn
  BY <1>0, <1>1 DEF VmInv, MainInv, PcbsFilled, BootInv, Terminated
<1>8. \A q \in Pids : Live(q)' <=> Live(q) \/ q = p
  BY <1>0, <1>1, <1>7 DEF Live
<1>9. p \notin LiveOnes /\ LiveOnes' = LiveOnes \cup {p}
  <2>1. ~Live(p)
    BY <1>1 DEF Live
  <2> QED
    BY <1>1, <1>8, <2>1 DEF LiveOnes
<1>10. \A q \in Pids : CounterOf(q)' = CounterOf(q)
  BY <1>0, <1>1, <1>7, <1>8, <1>9 DEF CounterOf, LiveOnes
<1>11. Counters' = Counters /\ MainStatus = "boot" /\ MainStatus' = MainStatus
  BY <1>0, <1>10 DEF Counters, MainStatus
<1> QED
  BY <1>0, <1>1, <1>6, <1>9, <1>11, StartMoves

\* The first process starts where its counter is.
LEMMA LoadFirstStep ==
    ASSUME VmInv, BootInv, LoadFirstProc
    PROVE  [Spaces!Next]_(Spaces!vars)
<1>1. /\ status = "boot" /\ status' = "running" /\ curProcID' = 0
      /\ rpc' = pcb[0].pc /\ UNCHANGED <<procCount, pcb, table, phys, seen>>
  BY DEF LoadFirstProc, os, memory
<1>2. 0 \in Pids
  BY ConstantFacts
<1>3. \A p \in Pids : Live(p)' <=> Live(p)
  BY <1>1 DEF Live
<1>4. \A p \in Pids : CounterOf(p)' = CounterOf(p)
  BY <1>1, <1>3 DEF CounterOf
<1>5. UNCHANGED <<LiveOnes, Counters, AllSpaces>>
  BY <1>1, <1>3, <1>4, SpaceStays DEF LiveOnes, Counters, AllSpaces
<1>6. Spaces!Run(0)
  BY <1>1, <1>5 DEF Spaces!Run, LiveOnes, Counters, AllSpaces
<1> QED
  BY <1>2, <1>6 DEF Spaces!Next

-----------------------------------------------------------------------------
(* run: what the steps of the running process are at that level.            *)

\* The simulation stops with everything as it was.
LEMMA StopStep ==
    ASSUME VmInv, BootInv, status' \in {"exited", "wild"}, UNCHANGED <<os, memory, cpu>>,
           seen' \in {seen, Nothing},
           status = "running" \/ status = "create"
    PROVE  [Spaces!Next]_(Spaces!vars)
<1>1. UNCHANGED <<procCount, pcb, curProcID, rpc, table, phys>>
  BY DEF os, memory, cpu, process
<1>2. \A p \in Pids : Live(p)' <=> Live(p)
  BY <1>1 DEF Live
<1>3. \A p \in Pids : CounterOf(p)' = CounterOf(p)
  <2>1. status = "create" => \A p \in Pids : p # curProcID
    BY DEF BootInv, InMain, Pids, Terminated
  <2> QED
    BY <1>1, <1>2, <2>1 DEF CounterOf
<1>4. UNCHANGED <<LiveOnes, Counters, AllSpaces>>
  BY <1>1, <1>2, <1>3, SpaceStays DEF LiveOnes, Counters, AllSpaces
<1>5. Spaces!Stop
  BY <1>1, <1>4 DEF Spaces!Stop, MainStatus, LiveOnes, Counters, AllSpaces, Nothing, Spaces!Nothing
<1> QED
  BY <1>5 DEF Spaces!Next

\* The space of the running process is what its page table says.
LEMMA OwnSpace ==
    ASSUME VmInv, Fetched
    PROVE  /\ curProcID \in Pids /\ rpc \in Vpns
           /\ \A v \in Vpns :
                AllSpaces[curProcID][v] =
                  IF Entry(v).valid
                    THEN [mapped |-> TRUE, read |-> Entry(v).read,
                          write |-> Entry(v).write, data |-> phys[Entry(v).pfn]]
                    ELSE Unmapped
<1>1. curProcID \in Pids /\ curProcID < procCount /\ ptbr = curProcID /\ rpc \in Vpns
  BY FetchedFacts DEF Live, VmInv, TypeOK
<1> QED
  BY <1>1 DEF AllSpaces, SpaceOf, Entry, Unmapped

\* A page of that space says what its entry says.
LEMMA OwnPage ==
    ASSUME VmInv, Fetched, NEW v \in Vpns
    PROVE  /\ Entry(v).valid =>
                /\ AllSpaces[curProcID][v].read = Entry(v).read
                /\ AllSpaces[curProcID][v].write = Entry(v).write
                /\ AllSpaces[curProcID][v].data = phys[Entry(v).pfn]
           /\ ~Entry(v).valid => AllSpaces[curProcID][v] = Unmapped
<1>1. CASE Entry(v).valid
  <2>1. AllSpaces[curProcID][v] =
          [mapped |-> TRUE, read |-> Entry(v).read,
           write |-> Entry(v).write, data |-> phys[Entry(v).pfn]]
    BY <1>1, OwnSpace
  <2> QED
    BY <1>1, <2>1
<1>2. CASE ~Entry(v).valid
  BY <1>2, OwnSpace
<1> QED
  BY <1>1, <1>2

\* An instruction that is fetched runs, and moves the counter of its process.
LEMMA InstructionRuns ==
    ASSUME VmInv, Fetched
    PROVE  /\ Spaces!Executing
           /\ \A v \in Vpns : CanRead(v) <=> Spaces!Readable(v)
           /\ \A v \in Vpns : CanWrite(v) <=> Spaces!Writable(v)
<1>1. curProcID \in Pids /\ Live(curProcID) /\ status = "running" /\ CanRead(rpc)
  BY FetchedFacts DEF Fetched
<1>2. /\ \A v \in Vpns : CanRead(v) <=> Spaces!Readable(v)
      /\ \A v \in Vpns : CanWrite(v) <=> Spaces!Writable(v)
  <2> SUFFICES ASSUME NEW v \in Vpns
               PROVE  /\ CanRead(v) <=> Spaces!Readable(v)
                      /\ CanWrite(v) <=> Spaces!Writable(v)
    OBVIOUS
  <2>1. Entry(v).read \in BOOLEAN /\ Entry(v).write \in BOOLEAN
    BY EntryFacts DEF Entry, VmInv, TypeOK
  <2>2. CASE Entry(v).valid
    <3>1. /\ AllSpaces[curProcID][v].read = Entry(v).read
          /\ AllSpaces[curProcID][v].write = Entry(v).write
      BY <2>2, OwnPage
    <3> QED
      BY <2>1, <2>2, <3>1, SpaceFacts, Zenon DEF CanRead, CanWrite
  <2>3. CASE ~Entry(v).valid
    <3>1. /\ AllSpaces[curProcID][v].read = FALSE
          /\ AllSpaces[curProcID][v].write = FALSE
      BY <2>3, OwnPage DEF Unmapped
    <3> QED
      BY <2>3, <3>1, SpaceFacts, Zenon DEF CanRead, CanWrite
  <2> QED
    BY <2>2, <2>3
<1>3. Counters[curProcID] = rpc /\ curProcID \in LiveOnes
  BY <1>1 DEF Counters, LiveOnes, CounterOf
<1>4. Spaces!Readable(Counters[curProcID])
  BY <1>1, <1>2, <1>3, OwnSpace
<1> QED
  BY <1>1, <1>2, <1>3, <1>4 DEF Spaces!Executing, Counters, LiveOnes

LEMMA InstructionMoves ==
    ASSUME VmInv, Fetched, UNCHANGED <<status, procCount, curProcID, pcb>>
    PROVE  /\ Counters' = [Counters EXCEPT ![curProcID] = rpc']
           /\ UNCHANGED <<MainStatus, curProcID, LiveOnes>>
<1>1. curProcID \in Pids /\ Live(curProcID) /\ status = "running"
  BY FetchedFacts
<1>2. \A p \in Pids : Live(p)' <=> Live(p)
  BY DEF Live
<1>3. \A p \in Pids : CounterOf(p)' = IF p = curProcID THEN rpc' ELSE CounterOf(p)
  BY <1>1, <1>2 DEF CounterOf
<1>4. Counters' = [Counters EXCEPT ![curProcID] = rpc']
  BY <1>3 DEF Counters
<1> QED
  BY <1>2, <1>4 DEF MainStatus, LiveOnes

\* The counter of the process that runs goes to the next word, in its page or at
\* the beginning of the next.
LEMMA CounterAdvances ==
    ASSUME VmInv, Fetched, NEW n \in Advanced,
           Counters' = [Counters EXCEPT ![curProcID] = n]
    PROVE  Spaces!Advances
<1>1. curProcID \in Pids /\ Live(curProcID) /\ status = "running"
  BY FetchedFacts
<1>2. Counters[curProcID] = rpc
  BY <1>1 DEF Counters, CounterOf
<1>3. n \in {rpc, NextVpn(rpc)}
  BY DEF Advanced, NextVpn
<1> QED
  BY <1>2, <1>3 DEF Spaces!Advances, Counters

LEMMA InstructionAdvances ==
    ASSUME VmInv, Fetched, rpc' \in Advanced, UNCHANGED <<status, procCount, curProcID, pcb>>
    PROVE  /\ Spaces!Advances
           /\ UNCHANGED <<MainStatus, curProcID, LiveOnes>>
BY InstructionMoves, CounterAdvances

\* The step of an instruction that leaves the memory alone.
LEMMA SameSpaces ==
    ASSUME UNCHANGED <<procCount, table, phys>>
    PROVE  UNCHANGED AllSpaces
BY SpaceStays DEF AllSpaces

LEMMA JumpStep ==
    ASSUME VmInv, NEW v \in JumpVpns, Jump(v)
    PROVE  [Spaces!Next]_(Spaces!vars)
<1>1. /\ Fetched /\ rpc' \in Vpns
      /\ UNCHANGED <<status, procCount, curProcID, pcb, table, phys>>
      /\ seen' = Nothing
  BY ProgramsAssumption DEF Jump, os, memory, process, Vpns
<1>2. Spaces!Jump
  BY <1>1, InstructionRuns, InstructionMoves, SameSpaces
  DEF Spaces!Jump, MainStatus, LiveOnes, Counters, AllSpaces, Nothing, Spaces!Nothing
<1> QED
  BY <1>2 DEF Spaces!Next

LEMMA LoadStep ==
    ASSUME VmInv, NEW v \in DataVpns, Load(v)
    PROVE  [Spaces!Next]_(Spaces!vars)
<1>1. /\ Fetched /\ rpc' \in Advanced /\ v \in Vpns
      /\ UNCHANGED <<status, procCount, curProcID, pcb, table, phys>>
  BY ProgramsAssumption DEF Load, os, memory, process, Vpns
<1>2. v # 0 /\ CanRead(v) => AllSpaces[curProcID][v].data = phys[Entry(v).pfn]
  BY <1>1, OwnPage DEF CanRead
<1>3. \/ v = 0 /\ seen' = <<"load", v, AllOnes>>
      \/ v # 0 /\ Spaces!Readable(v) /\ seen' = <<"load", v, AllSpaces[curProcID][v].data>>
  <2>1. CASE v = 0
    BY <2>1 DEF Load
  <2>2. CASE v # 0
    <3>1. CanRead(v) /\ seen' = <<"load", v, phys[Entry(v).pfn]>>
      BY <2>2 DEF Load
    <3> QED
      BY <1>1, <1>2, <2>2, <3>1, InstructionRuns
  <2> QED
    BY <2>1, <2>2
<1>4. Spaces!Executing /\ Spaces!Advances /\ UNCHANGED <<MainStatus, curProcID, LiveOnes, AllSpaces>>
  BY <1>1, InstructionRuns, InstructionAdvances, SameSpaces
<1>5. Spaces!Load(v)
  BY <1>3, <1>4 DEF Spaces!Load, MainStatus, LiveOnes, AllSpaces
<1> QED
  BY <1>1, <1>5 DEF Spaces!Next

LEMMA PutsStep ==
    ASSUME VmInv, NEW v \in DataVpns, Puts(v)
    PROVE  [Spaces!Next]_(Spaces!vars)
<1>1. /\ Fetched /\ rpc' \in Advanced
      /\ UNCHANGED <<status, procCount, curProcID, pcb, table, phys>>
  BY DEF Puts, os, memory, process
<1>2. \E w \in Words : seen' = <<"print", w>>
  <2>1. v \in Frames => phys[v] \in Words
    BY DEF VmInv, TypeOK
  <2> QED
    BY <2>1 DEF Puts
<1>3. Spaces!Show
  BY <1>1, <1>2, InstructionRuns, InstructionAdvances, SameSpaces
  DEF Spaces!Show, MainStatus, LiveOnes, AllSpaces
<1> QED
  BY <1>3 DEF Spaces!Next

\* Where one page of one space has changed, the others are as they were.
LEMMA OnePage ==
    ASSUME NEW p \in Pids, NEW v \in Vpns, NEW page,
           \A q \in Pids : q # p => SpaceOf(q)' = SpaceOf(q),
           SpaceOf(p)'[v] = page,
           \A u \in Vpns : u # v => SpaceOf(p)'[u] = SpaceOf(p)[u]
    PROVE  AllSpaces' = [AllSpaces EXCEPT ![p][v] = page]
<1> DEFINE old == SpaceOf(p)
           new == SpaceOf(p)'
<1>1. old = [u \in Vpns |-> old[u]] /\ new = [u \in Vpns |-> new[u]]
  BY DEF SpaceOf
<1>2. new[v] = page /\ \A u \in Vpns : u # v => new[u] = old[u]
  OBVIOUS
<1> HIDE DEF old, new
<1>3. new = [old EXCEPT ![v] = page]
  BY <1>1, <1>2
<1>4. SpaceOf(p)' = [SpaceOf(p) EXCEPT ![v] = page]
  BY <1>3 DEF old, new
<1> QED
  BY <1>4 DEF AllSpaces

\* A store through one's own page table is seen in one's own space only.
LEMMA StoreStep ==
    ASSUME VmInv, NEW v \in DataVpns, NEW w \in Words, Store(v, w)
    PROVE  [Spaces!Next]_(Spaces!vars)
<1>1. /\ Fetched /\ rpc' \in Advanced /\ v \in Vpns
      /\ UNCHANGED <<status, procCount, curProcID, pcb, table>> /\ seen' = Nothing
  BY ProgramsAssumption DEF Store, os, process, Vpns
<1>2. CASE v = 0
  <2>1. UNCHANGED phys
    BY <1>2 DEF Store
  <2>2. Spaces!Pass
    BY <1>1, <2>1, InstructionRuns, InstructionAdvances, SameSpaces
    DEF Spaces!Pass, MainStatus, LiveOnes, AllSpaces, Nothing, Spaces!Nothing
  <2> QED
    BY <2>2 DEF Spaces!Next
<1>3. CASE v # 0
  <2> DEFINE f == Entry(v).pfn
  <2>1. CanWrite(v) /\ phys' = [phys EXCEPT ![f] = w]
    BY <1>3 DEF Store
  <2>2. f \in Frames /\ phys \in [Frames -> Words]
    BY <1>1, <2>1, FrameExists DEF CanWrite, VmInv, TypeOK
  <2>3. /\ curProcID \in Pids /\ ptbr = curProcID /\ curProcID < procCount
        /\ Valid(curProcID, v) /\ Pfn(curProcID, v) = f
    BY <1>1, <2>1, FetchedFacts DEF CanWrite, Entry, Valid, Pfn, Live
  <2> HIDE DEF f
  <2>4. phys'[f] = w /\ \A g \in Frames : g # f => phys'[g] = phys[g]
    BY <2>1, <2>2
  <2>5. \A p \in Pids, u \in Vpns :
          Valid(p, u) /\ (p # curProcID \/ u # v) => phys'[Pfn(p, u)] = phys[Pfn(p, u)]
    BY <1>1, <2>3, <2>4, ConstantFacts DEF VmInv, MemoryInv, OwnFrames
  <2>6. \A p \in Pids : p # curProcID => SpaceOf(p)' = SpaceOf(p)
    BY <1>1, <2>5, SpaceStays
  <2>7. /\ SpaceOf(curProcID)'[v] = [SpaceOf(curProcID)[v] EXCEPT !.data = w]
        /\ \A u \in Vpns : u # v => SpaceOf(curProcID)'[u] = SpaceOf(curProcID)[u]
    <3>1. \A u \in Vpns : u # v => SpaceOf(curProcID)'[u] = SpaceOf(curProcID)[u]
      BY <1>1, <2>3, <2>5 DEF SpaceOf, Valid, Pfn
    <3>2. SpaceOf(curProcID)[v] =
            [mapped |-> TRUE, read |-> table[curProcID][v].read,
             write |-> table[curProcID][v].write, data |-> phys[f]]
      BY <1>1, <2>3 DEF SpaceOf, Valid, Pfn
    <3>3. SpaceOf(curProcID)'[v] =
            [mapped |-> TRUE, read |-> table[curProcID][v].read,
             write |-> table[curProcID][v].write, data |-> w]
      BY <1>1, <2>3, <2>4 DEF SpaceOf, Valid, Pfn
    <3>4. SpaceOf(curProcID)'[v] = [SpaceOf(curProcID)[v] EXCEPT !.data = w]
      <4> DEFINE m == TRUE
                 e == table[curProcID][v].read
                 x == table[curProcID][v].write
                 d == phys[f]
      <4> HIDE DEF m, e, x, d
      <4>1. [mapped |-> m, read |-> e, write |-> x, data |-> w] =
              [[mapped |-> m, read |-> e, write |-> x, data |-> d] EXCEPT !.data = w]
        OBVIOUS
      <4> QED
        BY <3>2, <3>3, <4>1 DEF m, e, x, d
    <3> QED
      BY <3>1, <3>4
  <2>8. AllSpaces' = [AllSpaces EXCEPT ![curProcID][v].data = w]
    <3>1. AllSpaces' = [AllSpaces EXCEPT ![curProcID][v] = [SpaceOf(curProcID)[v] EXCEPT !.data = w]]
      BY <1>1, <2>3, <2>6, <2>7, OnePage
    <3>2. AllSpaces[curProcID] = SpaceOf(curProcID)
      BY <2>3 DEF AllSpaces
    <3> QED
      BY <3>1, <3>2
  <2>9. Spaces!Executing /\ Spaces!Advances /\ Spaces!Writable(v)
        /\ UNCHANGED <<MainStatus, curProcID, LiveOnes>>
    BY <1>1, <2>1, InstructionRuns, InstructionAdvances
  <2>10. Spaces!Store(v, w)
    BY <1>1, <2>8, <2>9 DEF Spaces!Store, MainStatus, LiveOnes, AllSpaces, Nothing, Spaces!Nothing
  <2> QED
    BY <1>1, <2>10 DEF Spaces!Next
<1> QED
  BY <1>2, <1>3

\* What brk gives a process is a new page, and it is seen by that process only.
LEMMA BrkAllocStep ==
    ASSUME VmInv, NEW v \in BrkVpns, NEW access \in BrkAccess, BrkAlloc(v, access)
    PROVE  [Spaces!Next]_(Spaces!vars)
<1>1. /\ Fetched /\ rpc' \in Advanced /\ v \in Vpns
      /\ UNCHANGED <<status, procCount, curProcID, pcb, phys>> /\ seen' = Nothing
  BY ProgramsAssumption DEF BrkAlloc, os, process, Vpns
<1>2. CASE Entry(v).valid \/ free = {}
  <2>1. UNCHANGED table
    BY <1>2 DEF BrkAlloc
  <2>2. Spaces!Pass
    BY <1>1, <2>1, InstructionRuns, InstructionAdvances, SameSpaces
    DEF Spaces!Pass, MainStatus, LiveOnes, AllSpaces, Nothing, Spaces!Nothing
  <2> QED
    BY <2>2 DEF Spaces!Next
<1>3. CASE ~(Entry(v).valid \/ free = {})
  <2> DEFINE r == (access % 2 = 1)
             w == (access \div 2 = 1)
  <2> PICK p \in Pids : p = curProcID
    BY <1>1, FetchedFacts
  <2>1. /\ ptbr = p /\ p < procCount
        /\ ~Valid(p, v) /\ AllSpaces[p][v] = Unmapped
    BY <1>1, <1>3, FetchedFacts, OwnPage DEF Entry, Valid, Live
  <2>2. r \in BOOLEAN /\ w \in BOOLEAN /\ AllocMem(p, v, r, w)
    BY <1>3, <2>1 DEF BrkAlloc
  <2> HIDE DEF r, w
  <2>3. PICK f \in free :
          /\ table'[p][v] = [valid |-> TRUE, pfn |-> f, read |-> r, write |-> w]
          /\ \A q \in Pids, u \in Vpns : q # p \/ u # v => table'[q][u] = table[q][u]
    BY <1>1, <2>1, <2>2, AllocMemBits DEF VmInv
  <2> DEFINE page == [mapped |-> TRUE, read |-> r, write |-> w, data |-> phys[f]]
  <2>4. page \in Spaces!Page
    BY <2>2, ConstantFacts DEF VmInv, TypeOK, Spaces!Page
  <2>5. \A q \in Pids : q # p => SpaceOf(q)' = SpaceOf(q)
    BY <1>1, <2>3, SpaceStays
  <2>6. SpaceOf(p)'[v] = page /\ \A u \in Vpns : u # v => SpaceOf(p)'[u] = SpaceOf(p)[u]
    <3>1. p < procCount' /\ phys' = phys
      BY <1>1, <2>1
    <3>2. SpaceOf(p)'[v] = page
      <4>1. /\ table'[p][v].valid /\ table'[p][v].read = r
            /\ table'[p][v].write = w /\ table'[p][v].pfn = f
        BY <2>3
      <4>2. SpaceOf(p)'[v] =
              [mapped |-> TRUE, read |-> table'[p][v].read,
               write |-> table'[p][v].write, data |-> phys'[table'[p][v].pfn]]
        BY <1>1, <3>1, <4>1 DEF SpaceOf
      <4> QED
        BY <3>1, <4>1, <4>2
    <3>3. \A u \in Vpns : u # v => SpaceOf(p)'[u] = SpaceOf(p)[u]
      BY <1>1, <2>1, <2>3, <3>1 DEF SpaceOf
    <3> QED
      BY <3>2, <3>3
  <2> HIDE DEF page
  <2>7. AllSpaces' = [AllSpaces EXCEPT ![p][v] = page]
    BY <1>1, <2>1, <2>5, <2>6, OnePage
  <2>8. Spaces!Executing /\ Spaces!Advances /\ UNCHANGED <<MainStatus, curProcID, LiveOnes>>
    BY <1>1, InstructionRuns, InstructionAdvances
  <2>9. Spaces!Grow(v, page)
    BY <1>1, <2>1, <2>7, <2>8, SpaceFacts
    DEF Spaces!Grow, MainStatus, LiveOnes, AllSpaces, Nothing, Spaces!Nothing
  <2> QED
    BY <1>1, <2>4, <2>9 DEF Spaces!Next
<1> QED
  BY <1>2, <1>3

\* What freeMem takes from a process is taken from its space.
LEMMA FreeMemBits ==
    ASSUME TypeOK, NEW p \in Pids, NEW pages \in SUBSET Vpns, FreeMem(p, pages)
    PROVE  /\ \A v \in pages : table'[p][v] = NoPage
           /\ \A q \in Pids, v \in Vpns : q # p \/ v \notin pages => table'[q][v] = table[q][v]
<1> DEFINE row == [v \in Vpns |-> IF v \in pages THEN NoPage ELSE table[p][v]]
<1>1. table \in [Pids -> [Vpns -> PageEntry]] /\ table' = [table EXCEPT ![p] = row]
  BY DEF TypeOK, FreeMem
<1>2. /\ \A v \in pages : row[v] = NoPage
      /\ \A v \in Vpns : v \notin pages => row[v] = table[p][v]
  OBVIOUS
<1> HIDE DEF row
<1> QED
  BY <1>1, <1>2

LEMMA BrkFreeStep ==
    ASSUME VmInv, NEW v \in BrkVpns, BrkFree(v)
    PROVE  [Spaces!Next]_(Spaces!vars)
<1>1. /\ Fetched /\ rpc' \in Advanced /\ v \in Vpns
      /\ UNCHANGED <<status, procCount, curProcID, pcb, phys>> /\ seen' = Nothing
  BY ProgramsAssumption DEF BrkFree, os, process, Vpns
<1>2. CASE ~Entry(v).valid
  <2>1. UNCHANGED table
    BY <1>2 DEF BrkFree
  <2>2. Spaces!Pass
    BY <1>1, <2>1, InstructionRuns, InstructionAdvances, SameSpaces
    DEF Spaces!Pass, MainStatus, LiveOnes, AllSpaces, Nothing, Spaces!Nothing
  <2> QED
    BY <2>2 DEF Spaces!Next
<1>3. CASE Entry(v).valid
  <2> DEFINE p == curProcID
  <2>1. p \in Pids /\ ptbr = p /\ FreeMem(p, {v})
    BY <1>1, <1>3, FetchedFacts DEF BrkFree
  <2>2. /\ ~table'[p][v].valid
        /\ \A q \in Pids, u \in Vpns : q # p \/ u # v => table'[q][u] = table[q][u]
    BY <1>1, <2>1, FreeMemBits DEF VmInv, NoPage
  <2>3. \A q \in Pids : q # p => SpaceOf(q)' = SpaceOf(q)
    BY <1>1, <2>2, SpaceStays
  <2>4. SpaceOf(p)'[v] = Unmapped /\ \A u \in Vpns : u # v => SpaceOf(p)'[u] = SpaceOf(p)[u]
    BY <1>1, <2>1, <2>2 DEF SpaceOf, Unmapped
  <2>5. AllSpaces' = [AllSpaces EXCEPT ![p][v] = Unmapped]
    BY <1>1, <2>1, <2>3, <2>4, OnePage
  <2>6. Spaces!Executing /\ Spaces!Advances /\ UNCHANGED <<MainStatus, curProcID, LiveOnes>>
    BY <1>1, InstructionRuns, InstructionAdvances
  <2>7. Spaces!Shrink(v)
    BY <1>1, <2>5, <2>6, SpaceFacts
    DEF Spaces!Shrink, MainStatus, LiveOnes, AllSpaces, Nothing, Spaces!Nothing
  <2> QED
    BY <1>1, <2>7 DEF Spaces!Next
<1> QED
  BY <1>2, <1>3

\* A yield saves the counter of the process it leaves and takes up the one
\* it saved of the process it goes to.
LEMMA YieldStep ==
    ASSUME VmInv, NEW q \in Pids, Yield(q)
    PROVE  [Spaces!Next]_(Spaces!vars)
<1>1. PICK n \in Advanced :
        IF q = curProcID
          THEN rpc' = n /\ UNCHANGED process
          ELSE /\ pcb' = [pcb EXCEPT ![curProcID].pc = n, ![curProcID].ptbr = ptbr]
               /\ SwitchTo(q, pcb)
  BY DEF Yield
<1>2. /\ Fetched /\ n \in Vpns /\ q < procCount /\ FirstAfter(curProcID, q, pcb)
      /\ UNCHANGED <<status, procCount, table, phys>> /\ seen' = Nothing
  BY AdvancedFacts DEF Yield, os, memory
<1>3. CASE q = curProcID
  <2>1. rpc' \in Advanced /\ UNCHANGED <<curProcID, pcb>>
    BY <1>1, <1>3 DEF process
  <2>2. Spaces!Pass
    BY <1>2, <2>1, InstructionRuns, InstructionAdvances, SameSpaces
    DEF Spaces!Pass, MainStatus, LiveOnes, AllSpaces, Nothing, Spaces!Nothing
  <2> QED
    BY <2>2 DEF Spaces!Next
<1>4. CASE q # curProcID
  <2>1. /\ pcb' = [pcb EXCEPT ![curProcID].pc = n, ![curProcID].ptbr = ptbr]
        /\ rpc' = pcb[q].pc /\ curProcID' = q
    BY <1>1, <1>4 DEF SwitchTo
  <2>2. /\ curProcID \in Pids /\ Live(curProcID) /\ status = "running"
        /\ pcb \in [Pids -> [pid : Pids \cup {Terminated}, pc : Vpns, ptbr : Pids]]
    BY <1>2, FetchedFacts DEF VmInv, TypeOK
  <2>3. /\ pcb'[curProcID].pc = n
        /\ \A p \in Pids : /\ pcb'[p].pid = pcb[p].pid
                           /\ p # curProcID => pcb'[p] = pcb[p]
    BY <2>1, <2>2
  <2>4. \A p \in Pids : Live(p)' <=> Live(p)
    BY <1>2, <2>3 DEF Live
  <2>5. Live(q)
    BY <1>2 DEF FirstAfter, Live
  <2>6. \A p \in Pids : CounterOf(p)' = IF p = curProcID THEN n ELSE CounterOf(p)
    BY <1>2, <1>4, <2>1, <2>2, <2>3, <2>4, <2>5 DEF CounterOf
  <2>7. Counters' = [Counters EXCEPT ![curProcID] = n]
    BY <2>6 DEF Counters
  <2>8. Spaces!Advances
    BY <1>2, <2>7, CounterAdvances
  <2>9. LiveOnes' = LiveOnes /\ q \in LiveOnes /\ MainStatus' = MainStatus
    BY <1>2, <2>4, <2>5 DEF LiveOnes, MainStatus
  <2>10. Spaces!Yield(q)
    BY <1>2, <2>1, <2>8, <2>9, InstructionRuns, SameSpaces
    DEF Spaces!Yield, MainStatus, LiveOnes, AllSpaces, Nothing, Spaces!Nothing
  <2> QED
    BY <2>10 DEF Spaces!Next
<1> QED
  BY <1>3, <1>4

\* A halt empties the space of its process and goes on with another, if any is
\* left.
LEMMA HaltStep ==
    ASSUME VmInv, Halt
    PROVE  [Spaces!Next]_(Spaces!vars)
<1>1. /\ Fetched /\ FreeMem(ptbr, Vpns)
      /\ pcb' = [pcb EXCEPT ![curProcID].pid = Terminated]
      /\ UNCHANGED <<procCount, phys>> /\ seen' = Nothing
  BY DEF Halt, os
<1> PICK p \in Pids : p = curProcID
  BY <1>1, FetchedFacts
<1>2. /\ Live(p) /\ ptbr = p /\ status = "running" /\ TypeOK
      /\ pcb \in [Pids -> [pid : Pids \cup {Terminated}, pc : Vpns, ptbr : Pids]]
  BY <1>1, FetchedFacts DEF VmInv, TypeOK
<1>3. /\ pcb'[p].pid = Terminated
      /\ \A q \in Pids : q # p => pcb'[q] = pcb[q]
  BY <1>1, <1>2
<1>4. \A q \in Pids : Live(q)' <=> Live(q) /\ q # p
  BY <1>1, <1>3 DEF Live
<1>5. LiveOnes' = LiveOnes \ {p}
  BY <1>4 DEF LiveOnes
<1>6. /\ \A v \in Vpns : ~table'[p][v].valid
      /\ \A q \in Pids, v \in Vpns : q # p => table'[q][v] = table[q][v]
  BY <1>1, <1>2, FreeMemBits DEF NoPage
<1>7. \A q \in Pids : q # p => SpaceOf(q)' = SpaceOf(q)
  BY <1>1, <1>6, SpaceStays
<1>8. SpaceOf(p)' = [v \in Vpns |-> Unmapped]
  BY <1>6 DEF SpaceOf, Unmapped
<1>9. AllSpaces' = [AllSpaces EXCEPT ![p] = Spaces!Empty]
  BY <1>7, <1>8, SpaceFacts DEF AllSpaces
<1>10. /\ \A q \in Pids : CounterOf(q)' = IF q = p THEN FirstCodeVpn ELSE CounterOf(q)
       /\ IF LiveOnes' = {}
             THEN MainStatus' = "halted" /\ UNCHANGED curProcID
             ELSE curProcID' \in LiveOnes' /\ UNCHANGED MainStatus
  <2>1. CASE /\ \A q \in 0..(procCount - 1) : pcb'[q].pid = Terminated
             /\ status' = "halted" /\ UNCHANGED curProcID
    <3>1. \A q \in Pids : ~Live(q)'
      BY <1>1, <1>2, <2>1 DEF Live, TypeOK, Pids
    <3>2. LiveOnes' = {}
      BY <3>1 DEF LiveOnes
    <3> QED
      BY <1>4, <2>1, <3>1, <3>2 DEF CounterOf, MainStatus
  <2>2. CASE /\ \E q \in 0..(procCount - 1) : FirstAfter(curProcID, q, pcb') /\ SwitchTo(q, pcb')
             /\ UNCHANGED status
    <3>1. PICK q \in 0..(procCount - 1) : FirstAfter(curProcID, q, pcb') /\ SwitchTo(q, pcb')
      BY <2>2
    <3>2. q \in Pids /\ q < procCount /\ pcb'[q].pid # Terminated
      BY <1>2, <3>1, ConstantFacts DEF FirstAfter, TypeOK, Pids
    <3>3. Live(q)' /\ q # p
      BY <1>1, <1>3, <3>2 DEF Live
    <3>4. rpc' = pcb[q].pc /\ curProcID' = q /\ q \in LiveOnes'
      BY <1>3, <3>1, <3>2, <3>3 DEF SwitchTo, LiveOnes
    <3>5. \A o \in Pids : CounterOf(o)' = IF o = p THEN FirstCodeVpn ELSE CounterOf(o)
      BY <1>2, <1>3, <1>4, <2>2, <3>2, <3>3, <3>4 DEF CounterOf
    <3> QED
      BY <2>2, <3>4, <3>5 DEF MainStatus
  <2> QED
    BY <2>1, <2>2 DEF Halt
<1>11. Counters' = [Counters EXCEPT ![p] = FirstCodeVpn]
  BY <1>10 DEF Counters
<1>12. Spaces!Halt
  BY <1>1, <1>5, <1>9, <1>10, <1>11, InstructionRuns
  DEF Spaces!Halt, MainStatus, LiveOnes, Counters, AllSpaces, Nothing, Spaces!Nothing
<1> QED
  BY <1>12 DEF Spaces!Next

-----------------------------------------------------------------------------

LEMMA SpacesStep ==
    ASSUME VmInv, BootInv, VmInv', [Next]_vars
    PROVE  [Spaces!Next]_(Spaces!vars)
<1>1. CASE BeginCreate \/ AllocSegmentPage \/ CreateFails
  BY <1>1, CreatingStep
<1>2. CASE FinishCreate
  BY <1>2, FinishStep
<1>3. CASE LoadFirstProc
  BY <1>3, LoadFirstStep
<1>4. CASE FileMissing \/ FetchFault \/ FetchReserved \/ WildTrap \/ \E v \in DataVpns : AccessFault(v)
  BY <1>4, StopStep DEF FileMissing, FetchFault, FetchReserved, WildTrap, AccessFault, Fetched
<1>5. CASE \/ \E v \in JumpVpns : Jump(v)
           \/ \E v \in DataVpns : Load(v) \/ Puts(v)
           \/ \E v \in DataVpns, w \in Words : Store(v, w)
           \/ \E v \in BrkVpns : BrkFree(v) \/ \E access \in BrkAccess : BrkAlloc(v, access)
  BY <1>5, JumpStep, LoadStep, PutsStep, StoreStep, BrkFreeStep, BrkAllocStep
<1>6. CASE Halt \/ \E q \in Pids : Yield(q)
  BY <1>6, HaltStep, YieldStep
<1>7. CASE UNCHANGED vars
  <2>1. UNCHANGED <<status, procCount, curProcID, pcb, rpc, table, phys, seen>>
    BY <1>7 DEF vars, os, memory, cpu, process
  <2>2. \A p \in Pids : Live(p)' <=> Live(p)
    BY <2>1 DEF Live
  <2>3. \A p \in Pids : CounterOf(p)' = CounterOf(p)
    BY <2>1, <2>2 DEF CounterOf
  <2> QED
    BY <2>1, <2>2, <2>3, SameSpaces, NothingMoves DEF MainStatus, LiveOnes, Counters
<1> QED
  BY <1>1, <1>2, <1>3, <1>4, <1>5, <1>6, <1>7
  DEF Next, Boot, Instruction, Stopped

\* BootInv holds with VmInv.
LEMMA BootInvariant == Spec => []BootInv
<1>1. Init => BootInv
  BY InitBoot
<1>2. VmInv /\ BootInv /\ [Next]_vars => BootInv'
  BY BootStep
<1> QED
  BY <1>1, <1>2, VmInvariant, PTL DEF Spec

\* brk, yield, halt, the switches between processes and the one physical memory
\* under them (vm.c: mr, mw, tbrk, tyld, thalt, createProc) implement
\* address spaces that are private: a step of the running process changes its
\* own space and counter and nothing of the others; a load delivers the word last
\* stored to that page by that process, or loaded from its file, and 0xFFFF from
\* page 0; a switch keeps the spaces, and the counter at the next instruction.
THEOREM SpacesArePrivate == Spec => ImplementsSpaces
<1>1. Init => Spaces!Init
  BY InitSpaces
<1>2. VmInv /\ BootInv /\ VmInv' /\ [Next]_vars => [Spaces!Next]_(Spaces!vars)
  BY SpacesStep
<1> QED
  BY <1>1, <1>2, VmInvariant, BootInvariant, PTL DEF Spec, ImplementsSpaces, Spaces!Spec
=============================================================================
