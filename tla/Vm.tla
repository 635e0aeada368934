--------------------------------- MODULE Vm ---------------------------------
(***************************************************************************)
(* The operating system part of src/PA4/PA4_Updated_Bundle/vm.c: page      *)
(* frames and their bitmap, page tables, processes and their PCBs, the     *)
(* system calls brk, yield and halt, and address translation.              *)
(*                                                                         *)
(* One physical array holds everything in the code.  Here its regions are  *)
(* separate variables (VmLayout shows that they do not overlap) and a      *)
(* frame holds one word, which stands for the 2048 it holds: every access  *)
(* goes through a frame number, and the offset is carried along unchanged. *)
(* A page table base is named by the process it was computed for, a        *)
(* program counter by the page it points into.                             *)
(***************************************************************************)
EXTENDS Integers, FiniteSets

CONSTANTS
    NumFrames,      \* page frames of the physical memory (32)
    FirstFrame,     \* the first one that is not the OS's own (3)
    NumVpns,        \* pages of a virtual address space (32)
    FirstCodeVpn,   \* the page of PC_START, 0x3000 (6)
    CodeSize,       \* CODE_SIZE, pages of the code segment (2)
    HeapSize,       \* HEAP_INIT_SIZE, pages of the first heap (2)
    ChunkPages,     \* pages in a chunk of PAGE_SIZE words of ld_img (2)
    NumWords,       \* number of values of a word (2^16)
    MaxPrograms,    \* bound on the programs named on the command line
    BrkVpns,        \* the pages programs name in a brk request
    BrkAccess,      \* the access bits they set there: 1 read, 2 write
    JumpVpns,       \* the pages programs jump to
    EdgeVpns,       \* the pages whose last word programs execute
    DataVpns,       \* the pages programs load from and store to
    Image           \* what the program files hold, per process id and page

ASSUME FramesAssumption ==
    /\ FirstFrame \in Nat /\ NumFrames \in Nat /\ FirstFrame <= NumFrames
ASSUME SegmentsAssumption ==
    /\ NumVpns \in Nat /\ FirstCodeVpn \in Nat \ {0}
    /\ CodeSize \in Nat \ {0} /\ HeapSize \in Nat
    /\ FirstCodeVpn + CodeSize + HeapSize <= NumVpns
ASSUME ChunkAssumption ==
    ChunkPages \in Nat \ {0} /\ CodeSize <= ChunkPages /\ HeapSize <= ChunkPages
ASSUME ProgramsAssumption ==
    /\ NumWords \in Nat \ {0} /\ MaxPrograms \in Nat \ {0}
    /\ BrkVpns \subseteq 0..(NumVpns - 1) /\ BrkAccess \subseteq 0..3
    /\ JumpVpns \subseteq 0..(NumVpns - 1) /\ EdgeVpns \subseteq 0..(NumVpns - 1)
    /\ DataVpns \subseteq 0..(NumVpns - 1)
ASSUME ImageAssumption ==
    Image \in [0..(MaxPrograms - 1) -> [0..(NumVpns - 1) -> 0..(NumWords - 1)]]

Frames == 0..(NumFrames - 1)
UserFrames == FirstFrame..(NumFrames - 1)
Vpns == 0..(NumVpns - 1)
Pids == 0..(MaxPrograms - 1)
Words == 0..(NumWords - 1)
AllOnes == NumWords - 1         \* UINT16_MAX read as a word
Terminated == -1                \* 0xFFFF in the PID field of a PCB

SegPages == CodeSize + HeapSize
SegVpn(k) == FirstCodeVpn + k   \* the page of the k-th initial page

VARIABLES
    status,         \* "boot" and "create" in main, "running" in run(), then
                    \* "halted" (running = false), "exited" (exit(1)) or
                    \* "wild" (a call through a word past the trap table)
    toCreate,       \* the programs of the command line still to be created
    allocated,      \* pages allocated by the createProc under way
    curProcID,      \* mem[0]
    procCount,      \* mem[1]
    free,           \* the bitmap of mem[3] and mem[4]
    pcb,            \* the PCBs, per process id
    table,          \* the page tables, per process id and page
    phys,           \* the contents of the frames
    rpc,            \* reg[RPC]
    ptbr,           \* reg[PTBR]
    seen            \* what the last instruction delivered: a load the word of a
                    \* page, tputs the word it printed, the others nothing

os == <<toCreate, allocated, procCount>>
memory == <<free, table, phys>>
process == <<curProcID, pcb, ptbr>>
cpu == <<process, rpc>>
vars == <<status, os, memory, cpu, seen>>

Nothing == <<"nothing">>
Delivered == {Nothing} \cup ({"load"} \X Vpns \X Words) \cup ({"print"} \X Words)

NoPage == [valid |-> FALSE, pfn |-> 0, read |-> FALSE, write |-> FALSE]

-----------------------------------------------------------------------------
(* Plausible slips: wrong versions of definitions below.  Each breaks one   *)
(* of the properties at the end, which shows that the property bites.       *)

\* allocMem searches the bitmap from the other end.
SlipLastFit(p, v, read, write) ==
    \E f \in free :
        /\ \A g \in free : f >= g
        /\ free' = free \ {f}
        /\ table' = [table EXCEPT ![p][v] =
               [valid |-> TRUE, pfn |-> f, read |-> read, write |-> write]]

\* allocMem leaves the frame it hands out marked free.
SlipKeepBit(p, v, read, write) ==
    \E f \in free :
        /\ \A g \in free : f <= g
        /\ free' = free
        /\ table' = [table EXCEPT ![p][v] =
               [valid |-> TRUE, pfn |-> f, read |-> read, write |-> write]]

\* freeMem does not look at the valid bit.
SlipFreeAnything(p, pages) ==
    /\ free' = free \cup {table[p][v].pfn : v \in pages}
    /\ table' = [table EXCEPT ![p] =
           [v \in Vpns |-> IF v \in pages THEN NoPage ELSE table[p][v]]]

\* freeMem clears the valid bit and forgets the bitmap.
SlipLeak(p, pages) ==
    /\ free' = free
    /\ table' = [table EXCEPT ![p] =
           [v \in Vpns |-> IF v \in pages THEN NoPage ELSE table[p][v]]]

\* createProc gives up without freeing what it allocated.
SlipNoRollback ==
    /\ status = "create"
    /\ allocated < SegPages
    /\ free = {}
    /\ status' = "boot"
    /\ toCreate' = toCreate - 1
    /\ UNCHANGED <<allocated, procCount, memory, cpu, seen>>

\* tyld and thalt leave PTBR alone.
SlipKeepTable(q, pcbs) ==
    /\ rpc' = pcbs[q].pc
    /\ ptbr' = ptbr
    /\ curProcID' = q

\* The search for the next process starts at process 0 every time.
SlipFromZero(p, q, pcbs) ==
    /\ q \in 0..(procCount - 1)
    /\ pcbs[q].pid # Terminated /\ q # p
    /\ \A j \in 0..(q - 1) : j = p \/ pcbs[j].pid = Terminated

\* thalt frees the segments main made and not what brk added.
SlipFreeSegments(p, pages) ==
    LET those == IF pages = Vpns THEN {SegVpn(k) : k \in 0..(SegPages - 1)} ELSE pages
    IN  /\ free' = free \cup
               {table[p][v].pfn : v \in {u \in those : table[p][u].valid}}
        /\ table' = [table EXCEPT ![p] =
               [v \in Vpns |-> IF v \in those THEN NoPage ELSE table[p][v]]]

-----------------------------------------------------------------------------
(* allocMem and freeMem                                                     *)

\* allocMem: the lowest free frame backs page v of table p.
AllocMem(p, v, read, write) ==
    \E f \in free :
        /\ \A g \in free : f <= g
        /\ free' = free \ {f}
        /\ table' = [table EXCEPT ![p][v] =
               [valid |-> TRUE, pfn |-> f, read |-> read, write |-> write]]

\* freeMem for each page of a set: frames go back to the bitmap, entries lose
\* their valid bit, and the data stay in the frames.  The other bits of an entry
\* stay in the code too, but nothing reads them while the valid bit is clear.
FreeMem(p, pages) ==
    /\ free' = free \cup {table[p][v].pfn : v \in {u \in pages : table[p][u].valid}}
    /\ table' = [table EXCEPT ![p] =
           [v \in Vpns |-> IF v \in pages THEN NoPage ELSE table[p][v]]]

-----------------------------------------------------------------------------
(* main: initOS, createProc for each program, loadProc(0)                   *)

Init ==
    /\ status = "boot"
    /\ toCreate \in 0..MaxPrograms
    /\ allocated = 0
    /\ curProcID = Terminated
    /\ procCount = 0
    /\ free = UserFrames
    /\ pcb = [p \in Pids |-> [pid |-> 0, pc |-> 0, ptbr |-> 0]]
    /\ table = [p \in Pids |-> [v \in Vpns |-> NoPage]]
    /\ phys = [f \in Frames |-> 0]
    /\ rpc = 0 /\ ptbr = 0 /\ seen = Nothing

\* createProc fills the PCB before anything can fail.
BeginCreate ==
    /\ status = "boot"
    /\ toCreate > 0
    /\ status' = "create"
    /\ allocated' = 0
    /\ pcb' = [pcb EXCEPT ![procCount] =
           [pid |-> procCount, pc |-> FirstCodeVpn, ptbr |-> procCount]]
    /\ UNCHANGED <<toCreate, procCount, memory, curProcID, rpc, ptbr, seen>>

\* One of the four calls of allocMem: the code pages are read-only.
AllocSegmentPage ==
    /\ status = "create"
    /\ allocated < SegPages
    /\ ~table[procCount][SegVpn(allocated)].valid
    /\ AllocMem(procCount, SegVpn(allocated), TRUE, allocated >= CodeSize)
    /\ allocated' = allocated + 1
    /\ UNCHANGED <<status, toCreate, procCount, phys, cpu, seen>>

\* No frame is left: what this call allocated is freed and the process is
\* given up, its PCB left filled.
CreateFails ==
    /\ status = "create"
    /\ allocated < SegPages
    /\ free = {}
    /\ FreeMem(procCount, {SegVpn(k) : k \in 0..(allocated - 1)})
    /\ status' = "boot"
    /\ toCreate' = toCreate - 1
    /\ UNCHANGED <<allocated, procCount, phys, cpu, seen>>

\* ld_img reads a chunk of pages to consecutive frames from the offset of the
\* chunk, which is the offset of a page only for the first of them.
ImageFrame(first, k) ==
    table[procCount][SegVpn(first + (k \div ChunkPages))].pfn + (k % ChunkPages)

LoadTarget(k) ==
    IF k < CodeSize THEN ImageFrame(0, k) ELSE ImageFrame(CodeSize, k - CodeSize)

\* The frame holds the last of the pages read to it.
Loaded(f) ==
    LET pages == {k \in 0..(SegPages - 1) : LoadTarget(k) = f}
    IN  IF pages = {} THEN phys[f]
        ELSE Image[procCount][SegVpn(CHOOSE k \in pages : \A j \in pages : j <= k)]

FinishCreate ==
    /\ status = "create"
    /\ allocated = SegPages
    /\ phys' = [f \in Frames |-> Loaded(f)]
    /\ procCount' = procCount + 1
    /\ status' = "boot"
    /\ toCreate' = toCreate - 1
    /\ UNCHANGED <<allocated, free, table, cpu, seen>>

\* ld_img cannot open a program file: exit(1).
FileMissing ==
    /\ status = "create"
    /\ allocated = SegPages
    /\ status' = "exited"
    /\ UNCHANGED <<os, memory, cpu, seen>>

LoadFirstProc ==
    /\ status = "boot"
    /\ toCreate = 0
    /\ status' = "running"
    /\ curProcID' = 0
    /\ rpc' = pcb[0].pc
    /\ ptbr' = pcb[0].ptbr
    /\ UNCHANGED <<os, memory, pcb, seen>>

-----------------------------------------------------------------------------
(* run: mr and mw, the instructions that address memory, and the traps      *)

Entry(v) == table[ptbr][v]
CanRead(v) == Entry(v).valid /\ Entry(v).read
CanWrite(v) == Entry(v).valid /\ Entry(v).write

\* The fetch mr(reg[RPC]++) delivers an instruction of the program.
Fetched == status = "running" /\ rpc # 0 /\ CanRead(rpc)

\* mr of a page that is not there, or not readable, leaves the simulation.
FetchFault ==
    /\ status = "running"
    /\ rpc # 0 /\ ~CanRead(rpc)
    /\ status' = "exited"
    /\ seen' = Nothing
    /\ UNCHANGED <<os, memory, cpu>>

\* mr of page 0 prints "Segmentation fault." and delivers 0xFFFF: a trap whose
\* number is past the end of the trap table.
FetchReserved ==
    /\ status = "running"
    /\ rpc = 0
    /\ status' = "wild"
    /\ seen' = Nothing
    /\ UNCHANGED <<os, memory, cpu>>

\* The fetch increments reg[RPC] before the instruction runs: from the last word
\* of a page the counter goes on to the next one, and from the last page to the
\* first.
Advanced == {rpc} \cup {(v + 1) % NumVpns : v \in {rpc} \cap EdgeVpns}

\* A trap whose number is outside the trap table calls whatever word is there.
WildTrap ==
    /\ Fetched
    /\ status' = "wild"
    /\ seen' = Nothing
    /\ UNCHANGED <<os, memory, cpu>>

\* br, jmp, jsr, and the instructions that only compute.
Jump(v) ==
    /\ Fetched
    /\ rpc' = v
    /\ seen' = Nothing
    /\ UNCHANGED <<status, os, memory, process>>

\* mr for ld, ldi and ldr: page 0 reads as 0xFFFF.
Load(v) ==
    /\ Fetched
    /\ rpc' \in Advanced
    /\ \/ v = 0 /\ seen' = <<"load", v, AllOnes>>
       \/ v # 0 /\ CanRead(v) /\ seen' = <<"load", v, phys[Entry(v).pfn]>>
    /\ UNCHANGED <<status, os, memory, process>>

\* mw for st, sti and str: a store to page 0 is dropped.
Store(v, w) ==
    /\ Fetched
    /\ rpc' \in Advanced
    /\ v # 0 => CanWrite(v)
    /\ phys' = IF v = 0 THEN phys ELSE [phys EXCEPT ![Entry(v).pfn] = w]
    /\ seen' = Nothing
    /\ UNCHANGED <<status, os, free, table, process>>

\* mr or mw of a page the process may not read or write: exit(1).
AccessFault(v) ==
    /\ Fetched
    /\ v # 0
    /\ ~CanRead(v) \/ ~CanWrite(v)
    /\ status' = "exited"
    /\ seen' = Nothing
    /\ UNCHANGED <<os, memory, cpu>>

\* tputs: the pointer is mem + reg[R0], the virtual address used as a
\* physical one.  In the frames below the first user frame it finds words of the
\* OS, which phys does not hold.
Puts(v) ==
    /\ Fetched
    /\ rpc' \in Advanced
    /\ v \in Frames
    /\ \E w \in IF v \in UserFrames THEN {phys[v]} ELSE Words : seen' = <<"print", w>>
    /\ UNCHANGED <<status, os, memory, process>>

\* tbrk with the request bit set: one page for the running process, unless it
\* has it already or no frame is free.
BrkAlloc(v, access) ==
    /\ Fetched
    /\ rpc' \in Advanced
    /\ IF Entry(v).valid \/ free = {}
         THEN UNCHANGED <<free, table>>
         ELSE AllocMem(ptbr, v, access % 2 = 1, access \div 2 = 1)
    /\ seen' = Nothing
    /\ UNCHANGED <<status, os, phys, process>>

\* tbrk with the request bit clear.
BrkFree(v) ==
    /\ Fetched
    /\ rpc' \in Advanced
    /\ IF Entry(v).valid
         THEN FreeMem(ptbr, {v})
         ELSE UNCHANGED <<free, table>>
    /\ seen' = Nothing
    /\ UNCHANGED <<status, os, phys, process>>

\* The round-robin search of tyld and thalt: q is the first process after p,
\* in the cyclic order of the ids, whose PCB does not say it has terminated.
FirstAfter(p, q, pcbs) ==
    \E k \in 1..procCount :
        /\ q = (p + k) % procCount
        /\ pcbs[q].pid # Terminated
        /\ \A j \in 1..(k - 1) : pcbs[(p + j) % procCount].pid = Terminated

SwitchTo(q, pcbs) ==
    /\ rpc' = pcbs[q].pc
    /\ ptbr' = pcbs[q].ptbr
    /\ curProcID' = q

\* A plausible slip: tyld does not save the counter of the process it leaves.
SlipNotSaved(q) ==
    /\ Fetched
    /\ q < procCount
    /\ FirstAfter(curProcID, q, pcb)
    /\ IF q = curProcID
         THEN rpc' \in Advanced /\ UNCHANGED process
         ELSE UNCHANGED pcb /\ SwitchTo(q, pcb)
    /\ seen' = Nothing
    /\ UNCHANGED <<status, os, memory>>

\* tyld: the running process is saved only if there is another to run.
Yield(q) ==
    /\ Fetched
    /\ q < procCount
    /\ FirstAfter(curProcID, q, pcb)
    /\ \E n \in Advanced :
           IF q = curProcID
             THEN rpc' = n /\ UNCHANGED process
             ELSE /\ pcb' = [pcb EXCEPT ![curProcID].pc = n, ![curProcID].ptbr = ptbr]
                  /\ SwitchTo(q, pcb)
    /\ seen' = Nothing
    /\ UNCHANGED <<status, os, memory>>

\* thalt: all the pages are freed and the PCB marked, then the next process
\* runs, or the machine stops.
Halt ==
    /\ Fetched
    /\ FreeMem(ptbr, Vpns)
    /\ pcb' = [pcb EXCEPT ![curProcID].pid = Terminated]
    /\ \/ /\ \A q \in 0..(procCount - 1) : pcb'[q].pid = Terminated
          /\ status' = "halted"
          /\ rpc' \in Advanced
          /\ UNCHANGED <<ptbr, curProcID>>
       \/ /\ \E q \in 0..(procCount - 1) :
                FirstAfter(curProcID, q, pcb') /\ SwitchTo(q, pcb')
          /\ UNCHANGED status
    /\ seen' = Nothing
    /\ UNCHANGED <<os, phys>>

Stopped == status \in {"halted", "exited", "wild"} /\ UNCHANGED vars

-----------------------------------------------------------------------------

Boot ==
    \/ BeginCreate \/ AllocSegmentPage \/ CreateFails \/ FinishCreate
    \/ FileMissing \/ LoadFirstProc

Instruction ==
    \/ \E v \in JumpVpns : Jump(v)
    \/ \E v \in DataVpns : Load(v) \/ AccessFault(v) \/ Puts(v)
    \/ \E v \in DataVpns, w \in Words : Store(v, w)
    \/ \E v \in BrkVpns : BrkFree(v) \/ \E access \in BrkAccess : BrkAlloc(v, access)
    \/ \E q \in Pids : Yield(q)
    \/ Halt
    \/ WildTrap

Next == Boot \/ FetchFault \/ FetchReserved \/ Instruction \/ Stopped

Spec == Init /\ [][Next]_vars

\* Programs that do not keep the machine for ever: what can be fetched is
\* again and again a yield or a halt, and a fault is not put off.
CooperativeSpec ==
    /\ Spec
    /\ WF_vars(Boot)
    /\ WF_vars(FetchFault \/ FetchReserved)
    /\ WF_vars(Halt \/ \E q \in Pids : Yield(q))

-----------------------------------------------------------------------------
(* Invariants.                                                              *)

PageEntry == [valid : BOOLEAN, pfn : Frames \cup {0}, read : BOOLEAN, write : BOOLEAN]

TypeOK ==
    /\ status \in {"boot", "create", "running", "halted", "exited", "wild"}
    /\ toCreate \in 0..MaxPrograms
    /\ allocated \in 0..SegPages
    /\ curProcID \in Pids \cup {Terminated}
    /\ procCount \in 0..MaxPrograms
    /\ free \subseteq UserFrames
    /\ pcb \in [Pids -> [pid : Pids \cup {Terminated}, pc : Vpns, ptbr : Pids]]
    /\ table \in [Pids -> [Vpns -> PageEntry]]
    /\ phys \in [Frames -> Words]
    /\ rpc \in Vpns /\ ptbr \in Pids /\ seen \in Delivered

Slots == Pids \X Vpns
Mapped == {s \in Slots : table[s[1]][s[2]].valid}
FrameOf(s) == table[s[1]][s[2]].pfn

\* Isolation at its root: no frame backs two pages, of one process or of two,
\* and none of the OS's own frames backs any.
NoFrameShared ==
    /\ \A s \in Mapped : FrameOf(s) \in UserFrames
    /\ \A s, u \in Mapped : FrameOf(s) = FrameOf(u) => s = u

\* The bitmap says of every frame exactly whether a page table uses it: no
\* frame leaks over brk, failed creations and halts, none is freed while used.
BitmapExact == \A f \in UserFrames : f \in free <=> \A s \in Mapped : FrameOf(s) # f

Live(p) == p < procCount /\ pcb[p].pid # Terminated

\* The CPU runs a live process on that process's own page table, whatever
\* yields and halts came before.
RunsItsOwnTable ==
    status = "running" /\ procCount > 0 =>
        /\ curProcID \in Pids /\ Live(curProcID)
        /\ ptbr = curProcID
        /\ \A p \in Pids : p < procCount => pcb[p].ptbr = p

\* A process that halted, and one whose creation failed, keep no page.
DeadHoldNothing ==
    \A s \in Mapped :
        \/ Live(s[1])
        \/ status \in {"create", "exited"} /\ s[1] = procCount

\* While main still creates processes, every page of the ones it has created
\* holds its part of the program file, although ld_img knows the offset of
\* the first page of a chunk only.
ImagesInPlace ==
    status = "boot" =>
        \A p \in Pids, k \in 0..(SegPages - 1) :
            p < procCount =>
                /\ table[p][SegVpn(k)].valid
                /\ phys[table[p][SegVpn(k)].pfn] = Image[p][SegVpn(k)]

\* The round robin passes nobody over: if the programs yield or halt again and
\* again, each process that is not finished gets the CPU.
EveryoneIsServed ==
    \A p \in Pids :
        status = "running" /\ Live(p) ~> curProcID = p \/ status # "running"

-----------------------------------------------------------------------------
(* Each process sees an address space of its own.                           *)

SpaceOf(p) ==
    [v \in Vpns |->
        IF p < procCount /\ table[p][v].valid
          THEN [mapped |-> TRUE, read |-> table[p][v].read,
                write |-> table[p][v].write, data |-> phys[table[p][v].pfn]]
          ELSE [mapped |-> FALSE, read |-> FALSE, write |-> FALSE, data |-> 0]]

InitialSpace(p) ==
    [v \in Vpns |->
        IF \E k \in 0..(SegPages - 1) : v = SegVpn(k)
          THEN [mapped |-> TRUE, read |-> TRUE, write |-> v >= SegVpn(CodeSize),
                data |-> Image[p][v]]
          ELSE [mapped |-> FALSE, read |-> FALSE, write |-> FALSE, data |-> 0]]

NextVpn(v) == (v + 1) % NumVpns

CounterOf(p) ==
    IF ~Live(p) THEN FirstCodeVpn
    ELSE IF status \in {"boot", "create"} \/ p # curProcID THEN pcb[p].pc
    ELSE rpc

Spaces == INSTANCE PrivateSpaces WITH
    ReservedVpn <- 0, StartPage <- InitialSpace, StartVpn <- FirstCodeVpn,
    NextPage <- NextVpn,
    status <- IF status = "create" THEN "boot" ELSE status,
    cur <- curProcID,
    live <- {p \in Pids : Live(p)},
    pc <- [p \in Pids |-> CounterOf(p)],
    space <- [p \in Pids |-> SpaceOf(p)],
    seen <- seen

\* The page tables implement private address spaces: a step of the running
\* process changes its own space and nothing else, a load delivers what was last
\* stored to that page, or loaded from the file to it, and 0xFFFF from page 0, and
\* a switch keeps every space as it is and the counter at the next instruction.
ImplementsSpaces == Spaces!Spec
=============================================================================
