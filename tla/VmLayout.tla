------------------------------ MODULE VmLayout ------------------------------
(***************************************************************************)
(* Where the parts of module Vm are in the one array mem of vm.c: the      *)
(* bookkeeping words, the PCBs, the page tables and the frames, at the     *)
(* addresses the code computes.                                            *)
(***************************************************************************)
EXTENDS Vm, TLAPS

CONSTANTS
    PageWords,      \* words in a page (2^11)
    MemWords        \* words in mem (UINT16_MAX)

\* The frames below the first one that is handed out hold the bookkeeping, the
\* PCBs (at most 64 of them, which end below word 4096) and the tables.
ASSUME LayoutAssumption ==
    /\ PageWords \in Nat /\ MemWords \in Nat
    /\ FirstFrame * PageWords >= 6144
    /\ NumVpns <= 32
    /\ MaxPrograms <= 64

\* mem[0] to mem[4]: the current process, the number of processes, the status
\* and the two words of the bitmap.
BookkeepingWords == 0..4

\* The three fields of the PCB of process p.
PcbWord(p, field) == 12 + p * 3 + field

\* The entry for page v in the page table of process p.
TableWord(p, v) == 4096 + p * 32 + v

\* A word of a frame: pfn << 11 plus the offset.
FrameWord(f, offset) == f * PageWords + offset

-----------------------------------------------------------------------------

\* Assignment, section 3.1: "Just like the VAS the physical memory is also
\* 128KB, so there are 32 page frames in total".  Each word of a page the
\* running process has exists in mem.
EveryWordExists ==
    status = "running" =>
        \A s \in Mapped : FrameWord(FrameOf(s), PageWords - 1) < MemWords

\* The OS's words and the frames of the processes are apart: no store through a
\* page table reaches the bookkeeping, a PCB or a page table, and no two of the
\* parts overlap, for as many processes as the page of tables has room for.
THEOREM RegionsApart ==
  ASSUME NEW p \in Pids, NEW q \in Pids, NEW v \in Vpns, NEW u \in Vpns,
         NEW i \in 0..2, NEW j \in 0..2,
         NEW f \in UserFrames, NEW o \in 0..(PageWords - 1)
  PROVE  /\ FrameWord(f, o) > TableWord(p, v)
         /\ TableWord(p, v) > PcbWord(q, i)
         /\ PcbWord(p, i) \notin BookkeepingWords
         /\ PcbWord(p, i) = PcbWord(q, j) => p = q /\ i = j
         /\ TableWord(p, v) = TableWord(q, u) => p = q /\ v = u
<1>1. p \in 0..63 /\ q \in 0..63 /\ v \in 0..31 /\ u \in 0..31
  BY LayoutAssumption, ProgramsAssumption, SegmentsAssumption DEF Pids, Vpns
<1>2. f * PageWords >= FirstFrame * PageWords
  <2>1. f \in Nat /\ f >= FirstFrame /\ FirstFrame \in Nat /\ PageWords \in Nat
    BY FramesAssumption, LayoutAssumption DEF UserFrames
  <2>2. f * PageWords = FirstFrame * PageWords + (f - FirstFrame) * PageWords
    BY <2>1
  <2>3. (f - FirstFrame) * PageWords >= 0
    BY <2>1
  <2>4. f * PageWords \in Int /\ FirstFrame * PageWords \in Int
        /\ (f - FirstFrame) * PageWords \in Int
    BY <2>1
  <2> QED
    BY <2>2, <2>3, <2>4
<1>3. f * PageWords \in Int /\ FirstFrame * PageWords \in Int
  BY FramesAssumption, LayoutAssumption DEF UserFrames
<1>4. FrameWord(f, o) >= 6144
  BY <1>2, <1>3, LayoutAssumption DEF FrameWord
<1>5. TableWord(p, v) < 6144 /\ TableWord(p, v) >= 4096
  BY <1>1 DEF TableWord
<1>6. FrameWord(f, o) > TableWord(p, v)
  BY <1>1, <1>3, <1>4, <1>5, LayoutAssumption DEF FrameWord, TableWord
<1>7. PcbWord(q, i) < 4096 /\ PcbWord(p, i) > 4
  BY <1>1 DEF PcbWord
<1>8. TableWord(p, v) > PcbWord(q, i)
  BY <1>1, <1>5, <1>7 DEF TableWord, PcbWord
<1>9. PcbWord(p, i) \notin BookkeepingWords
  BY <1>7 DEF BookkeepingWords
<1>10. PcbWord(p, i) = PcbWord(q, j) => p = q /\ i = j
  BY <1>1 DEF PcbWord
<1>11. TableWord(p, v) = TableWord(q, u) => p = q /\ v = u
  BY <1>1 DEF TableWord
<1> QED
  BY <1>6, <1>8, <1>9, <1>10, <1>11
=============================================================================
