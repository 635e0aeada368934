----------------------------- MODULE MachineVm -----------------------------
(***************************************************************************)
(* The machine of module Machine implements the operating system of module *)
(* Vm: read as frames, tables and PCBs, each of its steps is a step of Vm  *)
(* or changes nothing there.                                               *)
(*                                                                         *)
(* A frame of Vm holds one word of two values where a frame of the machine *)
(* holds 2048 words of 16 bits.  Vm's word is one bit at one offset, and   *)
(* the refinement is checked for whichever is looked at: view chooses them *)
(* at the start.                                                           *)
(***************************************************************************)
EXTENDS Machine

CONSTANT Views(_)       \* what to look at: offsets and bits, per command line

\* A segment is two pages: a longer file would run into the frames behind it.
Fits(program) == Len(program.code) <= 2 * PageWords /\ Len(program.heap) <= 2 * PageWords

\* No more programs are named than Vm has room for.
ASSUME FitAssumption ==
    \A line \in CommandLines : Len(line) <= 8 /\ \A i \in DOMAIN line : Fits(line[i])

\* What is looked at is a word of a page, and a bit of it.
InPage(v) == v.offset \in 0..(PageWords - 1)
ABit(v) == v.bit \in 0..15
ASSUME ViewAssumption == \A line \in CommandLines : \A v \in Views(line) : InPage(v) /\ ABit(v)

VARIABLES
    view,       \* [line, offset, bit]: the command line, and what is looked at
    shown       \* what the last instruction delivered there, as Vm says it

allVars == <<vars, view, shown>>

BitAt(w) == Bit(w, view.bit)
LookedAt(a) == a % PageWords = view.offset

NoDelivery == <<"nothing">>

ShownByLoad ==
    IF LookedAt(Address) THEN <<"load", Vpn(Address), BitAt(Mr(Address))>> ELSE NoDelivery

ShownByPuts ==
    LET string == StringAt(reg[0])
        there == {k \in DOMAIN string : LookedAt(reg[0] + k - 1)}
    IN  IF there = {} THEN NoDelivery
        ELSE <<"print", BitAt(string[CHOOSE k \in there : \A j \in there : j <= k])>>

ViewInit ==
    /\ Init
    /\ view \in {[line |-> args, offset |-> v.offset, bit |-> v.bit] : v \in Views(args)}
    /\ shown = NoDelivery

ViewNext ==
    /\ Next
    /\ shown' = IF Loading THEN ShownByLoad
                ELSE IF Trap({PUTS}) THEN ShownByPuts
                ELSE IF status = "running" THEN NoDelivery ELSE shown
    /\ UNCHANGED view

ViewSpec == ViewInit /\ [][ViewNext]_allVars /\ WF_allVars(ViewNext)

-----------------------------------------------------------------------------
(* The refinement mapping.                                                  *)

\* The page table of a process, by its base register.
TableOf(base) == IF base = 0 THEN 0 ELSE (base - 4096) \div 32

\* mem[0] is 0xFFFF before the first process runs.
ProcessOf(current) == IF current = 65535 THEN -1 ELSE current

PcbOf(m, p) ==
    [pid |-> IF PidOf(m, p) = Dead THEN -1 ELSE PidOf(m, p),
     pc |-> Vpn(Peek(m, PcbAt(p) + 1)),
     ptbr |-> TableOf(Peek(m, PcbAt(p) + 2))]

EntryOf(pte) ==
    IF Valid(pte)
      THEN [valid |-> TRUE, pfn |-> FrameIn(pte), read |-> Readable(pte), write |-> Writable(pte)]
      ELSE [valid |-> FALSE, pfn |-> 0, read |-> FALSE, write |-> FALSE]

\* The word of a file that is looked at in its k-th page.
FileBit(w, file, k) ==
    LET i == k * PageWords + w.offset + 1
    IN  IF i \in DOMAIN file THEN Bit(file[i], w.bit) ELSE 0

ImageOf(w) ==
    [p \in 0..7 |-> [v \in 0..31 |->
        IF p + 1 \notin DOMAIN w.line THEN 0
        ELSE CASE v \in {6, 7} -> FileBit(w, w.line[p + 1].code, v - 6)
               [] v \in {8, 9} -> FileBit(w, w.line[p + 1].heap, v - 8)
               [] OTHER -> 0]]

FreeFrames(m) == {f \in 0..31 : IsFree(m, f)}
Blocks(m) == [p \in 0..7 |-> PcbOf(m, p)]
PageTables(m) == [p \in 0..7 |-> [v \in 0..31 |-> EntryOf(Peek(m, TableAt(p) + v))]]
Contents(m, w) ==
    [f \in 0..31 |-> IF f < 3 THEN 0 ELSE Bit(Peek(m, f * PageWords + w.offset), w.bit)]

\* The view is fixed, but it is a variable: the instance is made for each.
V(w) == INSTANCE Vm WITH
    NumFrames <- 32, FirstFrame <- 3, NumVpns <- 32, FirstCodeVpn <- 6,
    CodeSize <- 2, HeapSize <- 2, ChunkPages <- 2, NumWords <- 2, MaxPrograms <- 8,
    BrkVpns <- 0..31, BrkAccess <- 0..3, JumpVpns <- 0..31, EdgeVpns <- 0..31,
    DataVpns <- 0..31, Image <- ImageOf(w),
    toCreate <- Len(args),
    allocated <- Len(frames),
    curProcID <- ProcessOf(Current),
    procCount <- Peek(mem, 1),
    free <- FreeFrames(mem),
    pcb <- Blocks(mem),
    table <- PageTables(mem),
    phys <- Contents(mem, w),
    rpc <- Vpn(reg[RPC]),
    ptbr <- TableOf(reg[PTBR]),
    seen <- shown

\* Every step of the machine is one of the operating system, or leaves all it
\* has as it was: the bits of mem[3] and mem[4] are its set of free frames, the
\* words from 4096 its page tables, those from 12 its PCBs, and no instruction
\* reaches any of them but through its calls.
ImplementsVm ==
    /\ \A w \in {view} : V(w)!Init
    /\ [][\A w \in {view} : V(w)!Next \/ UNCHANGED V(w)!vars]_allVars
=============================================================================
