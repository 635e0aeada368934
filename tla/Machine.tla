------------------------------ MODULE Machine ------------------------------
(***************************************************************************)
(* The machine of src/PA4/PA4_Updated_Bundle/vm.c and main.c word by word: *)
(* the array mem with the operating system's words, PCBs, page tables and  *)
(* frames in it, the registers, each instruction and trap.  Module Vm has  *)
(* the same operating system with its tables as tables; MachineVm relates  *)
(* the two.                                                                *)
(*                                                                         *)
(* Words of mem that nothing has written are zero and not in its domain.   *)
(* mem[65535], one past the array, is modelled as one more word.           *)
(***************************************************************************)
EXTENDS Cpu, Sequences, FiniteSets

CONSTANTS
    CommandLines,   \* sequences of programs: [code, heap, missing], two files of
                    \* words, one of which may be missing
    Chars,          \* what a key press delivers; EOF is always possible
    Numbers,        \* what inu16 reads; it may also find no number
    MaxConsole      \* bound: input ends once so many lines are on the console

\* Files are read, and keys and numbers arrive, as words.
Programs == [code : Seq(Word), heap : Seq(Word), missing : BOOLEAN]

ASSUME InputAssumption ==
    CommandLines \subseteq Seq(Programs) /\ Chars \subseteq Word /\ Numbers \subseteq Word

VARIABLES
    status,         \* "boot" and "create" in main, "running" in run(), then
                    \* "halted", "exited" or "wild", as in Vm
    args,           \* the programs of the command line still to be created
    frames,         \* the results of allocMem in the createProc under way
    mem, reg,
    console         \* what vm.c printed: lines, characters and numbers

vars == <<status, args, frames, mem, reg, console>>

RPC == 8
RCND == 9
PTBR == 10

EOF == 65535        \* getchar's -1, cut to 16 bits
NoFrame == 65535    \* allocMem's -1
Dead == 65535       \* the process id of a PCB that has terminated

-----------------------------------------------------------------------------
(* The array.                                                               *)

Peek(m, a) == IF a \in DOMAIN m THEN m[a] ELSE 0
Poke(m, a, w) ==
    IF a \in DOMAIN m THEN [m EXCEPT ![a] = w]
    ELSE [b \in DOMAIN m \cup {a} |-> IF b = a THEN w ELSE m[b]]

PcbAt(p) == 12 + 3 * p
PidOf(m, p) == Peek(m, PcbAt(p))
TableAt(p) == 4096 + 32 * p

\* The bit of frame f in the bitmap, and the word it is in.
BitmapWord(f) == IF f < 16 THEN 3 ELSE 4
BitmapBit(f) == IF f < 16 THEN 15 - f ELSE 31 - f
IsFree(m, f) == Bit(Peek(m, BitmapWord(f)), BitmapBit(f)) = 1

\* A page table entry: the frame, then the bits write, read and valid.
Valid(pte) == Bit(pte, 0) = 1
Readable(pte) == Bit(pte, 1) = 1
Writable(pte) == Bit(pte, 2) = 1
SlipFourBits(pte) == Field(pte, 11, 4)      \* a plausible slip: 16 frames only
FrameIn(pte) == Field(pte, 11, 5)
NewPte(f, read, write) ==
    f * 2048 + (IF write THEN 4 ELSE 0) + (IF read THEN 2 ELSE 0) + 1

\* allocMem: the memory after it, and what it returns.
AllocMem(m, ptbr, vpn, read, write) ==
    IF Valid(Peek(m, ptbr + vpn)) THEN [mem |-> m, pfn |-> 0]
    ELSE IF \A f \in 3..31 : ~IsFree(m, f) THEN [mem |-> m, pfn |-> NoFrame]
    ELSE LET f == CHOOSE f \in 3..31 : IsFree(m, f) /\ \A g \in 3..(f - 1) : ~IsFree(m, g)
             b == BitmapWord(f)
         IN  [mem |-> Poke(Poke(m, b, Peek(m, b) - 2^BitmapBit(f)),
                           ptbr + vpn, NewPte(f, read, write)),
              pfn |-> f]

\* Word b of the bitmap once these frames have their bits back.
Released(m, b, pfns) ==
    LET Gets(k) == \E f \in pfns : BitmapWord(f) = b /\ BitmapBit(f) = k
    IN  WordOfBits(LAMBDA k : IF Gets(k) THEN 1 ELSE Bit(m[b], k))

\* A plausible slip: freeMem does not look at the valid bit.
SlipFreeAnything(m, vpns, ptbr) ==
    LET pfns == {FrameIn(Peek(m, ptbr + v)) : v \in vpns}
    IN  [a \in DOMAIN m |->
            IF a - ptbr \in vpns THEN m[a] - (m[a] % 2)
            ELSE IF a \in {3, 4} THEN Released(m, a, pfns) ELSE m[a]]

\* freeMem for each of these pages: an entry loses its valid bit and keeps the
\* others.
FreeMem(m, vpns, ptbr) ==
    LET pfns == {FrameIn(Peek(m, ptbr + v)) : v \in {u \in vpns : Valid(Peek(m, ptbr + u))}}
    IN  [a \in DOMAIN m |->
            IF a - ptbr \in vpns /\ Valid(m[a]) THEN m[a] - 1
            ELSE IF a \in {3, 4} THEN Released(m, a, pfns) ELSE m[a]]

\* A plausible slip: the search begins at process 0.
SlipFromZero(m, old) ==
    LET others == {p \in 0..(Peek(m, 1) - 1) : p # old /\ PidOf(m, p) # Dead}
    IN  IF others = {} THEN old ELSE CHOOSE p \in others : \A q \in others : p <= q

\* The search of tyld and thalt: the first process after old, round the circle,
\* that has not terminated, or else old.
NextAfter(m, old) ==
    LET n == Peek(m, 1)
        Runs(k) == k = n \/ PidOf(m, (old + k) % n) # Dead
    IN  (old + (CHOOSE k \in 1..n : Runs(k) /\ \A j \in 1..(k - 1) : ~Runs(j))) % n

-----------------------------------------------------------------------------
(* main: initOS, createProc for each program, loadProc(0).                  *)

Say(lines) == console' = console \o lines

InitOS ==
    [a \in 0..4 |-> CASE a = 0 -> 65535 [] a \in {1, 2} -> 0 [] a = 3 -> 8191 [] a = 4 -> 65535]

Init ==
    /\ status = "boot"
    /\ args \in CommandLines
    /\ frames = <<>>
    /\ mem = InitOS
    /\ reg = [r \in 0..10 |-> 0]
    /\ console = <<>>

NewPid == Peek(mem, 1)

\* createProc begins.  Nothing ever sets the bit of mem[2] it looks at.
BeginCreate ==
    /\ status = "boot"
    /\ args # <<>>
    /\ Bit(Peek(mem, 2), 0) = 0
    /\ status' = "create"
    /\ frames' = <<>>
    /\ LET pcb == <<NewPid, CodeStart, TableAt(NewPid)>>
           Nth(a) == a - PcbAt(NewPid) + 1
       IN  mem' = [a \in DOMAIN mem \cup PcbAt(NewPid)..(PcbAt(NewPid) + 2) |->
                      IF Nth(a) \in 1..3 THEN pcb[Nth(a)] ELSE mem[a]]
    /\ UNCHANGED <<args, reg, console>>

\* Pages 6 and 7 are for the code, read-only, 8 and 9 for the heap.
SegmentPage == 6 + Len(frames)
Allocation == AllocMem(mem, TableAt(NewPid), SegmentPage, TRUE, SegmentPage >= 8)

AllocSegmentPage ==
    /\ status = "create"
    /\ Len(frames) < 4
    /\ Allocation.pfn # NoFrame
    /\ frames' = Append(frames, Allocation.pfn)
    /\ mem' = Allocation.mem
    /\ UNCHANGED <<status, args, reg, console>>

CreateFails ==
    /\ status = "create"
    /\ Len(frames) < 4
    /\ Allocation.pfn = NoFrame
    /\ mem' = FreeMem(mem, 6..(SegmentPage - 1), TableAt(NewPid))
    /\ Say(<< <<IF SegmentPage < 8 THEN "no code" ELSE "no heap">> >>)
    /\ status' = "boot"
    /\ args' = Tail(args)
    /\ UNCHANGED <<frames, reg>>

\* ld_img: where chunk c of a file goes, PAGE_SIZE = 4096 words or what is left.
\* Bound: files of at most two chunks.
Chunk(file, c, pfn) ==
    LET rest == Len(file) - 4096 * c
    IN  (pfn * 2048)..(pfn * 2048 + (IF rest > 4096 THEN 4096 ELSE rest) - 1)

LdImg(m, file, pfns) ==
    LET first == Chunk(file, 0, pfns[1])
        second == Chunk(file, 1, pfns[2])
    IN  [a \in DOMAIN m \cup first \cup second |->
            IF a \in second THEN file[a - pfns[2] * 2048 + 4097]
            ELSE IF a \in first THEN file[a - pfns[1] * 2048 + 1] ELSE m[a]]

FinishCreate ==
    /\ status = "create"
    /\ Len(frames) = 4
    /\ ~Head(args).missing
    /\ \E code \in {LdImg(mem, Head(args).code, SubSeq(frames, 1, 2))} :
           mem' = Poke(LdImg(code, Head(args).heap, SubSeq(frames, 3, 4)), 1, NewPid + 1)
    /\ status' = "boot"
    /\ args' = Tail(args)
    /\ UNCHANGED <<frames, reg, console>>

\* ld_img cannot open a file.
FileMissing ==
    /\ status = "create"
    /\ Len(frames) = 4
    /\ Head(args).missing
    /\ status' = "exited"
    /\ UNCHANGED <<args, frames, mem, reg, console>>

\* loadProc(0), whether or not there is a process 0.
LoadFirstProc ==
    /\ status = "boot"
    /\ args = <<>>
    /\ status' = "running"
    /\ reg' = [reg EXCEPT ![RPC] = Peek(mem, PcbAt(0) + 1), ![PTBR] = Peek(mem, PcbAt(0) + 2)]
    /\ mem' = Poke(mem, 0, 0)
    /\ UNCHANGED <<args, frames, console>>

-----------------------------------------------------------------------------
(* run: mr, mw and the loop.                                                *)

Vpn(a) == a \div PageWords
Pte(a) == Peek(mem, reg[PTBR] + Vpn(a))
Physical(a) == FrameIn(Pte(a)) * PageWords + (a % PageWords)

CanRead(a) == Vpn(a) = 0 \/ (Valid(Pte(a)) /\ Readable(Pte(a)))
CanWrite(a) == Vpn(a) = 0 \/ (Valid(Pte(a)) /\ Writable(Pte(a)))

\* mr where it returns: page 0 is answered with -1.
Mr(a) == IF Vpn(a) = 0 THEN 65535 ELSE Peek(mem, Physical(a))

\* mw where it returns: page 0 swallows the word.
Mw(a, w) == mem' = IF Vpn(a) = 0 THEN mem ELSE Poke(mem, Physical(a), w)

\* What mr and mw print when the address is in page 0.
Reserved(a) == IF Vpn(a) = 0 THEN << <<"segmentation fault">> >> ELSE <<>>

\* The instruction and the program counter, which mr(reg[RPC]++) has moved on.
Ir == Mr(reg[RPC])
Pc == Wrap(reg[RPC] + 1)

Executes(ops) ==
    /\ status = "running"
    /\ Vpn(reg[RPC]) # 0 /\ CanRead(reg[RPC])
    /\ OPC(Ir) \in ops

Goto(a) == reg' = [reg EXCEPT ![RPC] = a]
SetReg(r, w) == reg' = [reg EXCEPT ![RPC] = Pc, ![r] = w]
Result(w) == reg' = [reg EXCEPT ![RPC] = Pc, ![DR(Ir)] = w, ![RCND] = FlagOf(w)]

Relative == Wrap(Pc + POFF9(Ir))
Based == Wrap(reg[SR1(Ir)] + POFF(Ir))
SecondOperand == IF FIMM(Ir) THEN SEXTIMM(Ir) ELSE reg[SR2(Ir)]

\* Instructions that reach neither memory nor console.
computing == <<status, args, frames, mem, console>>

Br ==
    /\ Executes({0})
    /\ Goto(IF BitAnd(reg[RCND], DR(Ir)) # 0 THEN Relative ELSE Pc)
    /\ UNCHANGED computing

Add ==
    /\ Executes({1})
    /\ Result(Wrap(reg[SR1(Ir)] + SecondOperand))
    /\ UNCHANGED computing

And ==
    /\ Executes({5})
    /\ Result(BitAnd(reg[SR1(Ir)], SecondOperand))
    /\ UNCHANGED computing

Not ==
    /\ Executes({9})
    /\ Result(65535 - reg[SR1(Ir)])
    /\ UNCHANGED computing

Lea ==
    /\ Executes({14})
    /\ Result(Relative)
    /\ UNCHANGED computing

\* R7 gets the return address first, so jsrr through R7 falls through.
Jsr ==
    /\ Executes({4})
    /\ LET target == IF FL(Ir) THEN Wrap(Pc + POFF11(Ir))
                     ELSE IF SR1(Ir) = 7 THEN Pc ELSE reg[SR1(Ir)]
       IN  reg' = [reg EXCEPT ![7] = Pc, ![RPC] = target]
    /\ UNCHANGED computing

Jmp ==
    /\ Executes({12})
    /\ Goto(reg[SR1(Ir)])
    /\ UNCHANGED computing

\* rti and res are empty.
Unused ==
    /\ Executes({8, 13})
    /\ Goto(Pc)
    /\ UNCHANGED computing

-----------------------------------------------------------------------------
(* Loads and stores: the three of each, relative to the program counter, to *)
(* a register, and through a word of memory, which is read first.           *)

Reading == {2, 6, 10}       \* ld, ldr, ldi
Writing == {3, 7, 11}       \* st, str, sti
Indirect == {10, 11}

Address ==
    CASE OPC(Ir) \in {2, 3} -> Relative
      [] OPC(Ir) \in {6, 7} -> Based
      [] OPC(Ir) \in Indirect -> Mr(Relative)

\* The word with the address can be had.
HasAddress == OPC(Ir) \in Indirect => CanRead(Relative)
Complaints == (IF OPC(Ir) \in Indirect THEN Reserved(Relative) ELSE <<>>) \o Reserved(Address)

Loading == Executes(Reading) /\ HasAddress /\ CanRead(Address)

Load ==
    /\ Loading
    /\ Result(Mr(Address))
    /\ Say(Complaints)
    /\ UNCHANGED <<status, args, frames, mem>>

Store ==
    /\ Executes(Writing)
    /\ HasAddress /\ CanWrite(Address)
    /\ Mw(Address, reg[DR(Ir)])
    /\ Goto(Pc)
    /\ Say(Complaints)
    /\ UNCHANGED <<status, args, frames>>

\* mr or mw of a page the process has not, or may not use so: exit(1).
Exit(before, a, why) ==
    /\ status' = "exited"
    /\ Say(before \o << <<IF Valid(Pte(a)) THEN why ELSE "free space">> >>)
    /\ UNCHANGED <<args, frames, mem, reg>>

FetchFault ==
    /\ status = "running"
    /\ ~CanRead(reg[RPC])
    /\ Exit(<<>>, reg[RPC], "write-only page")

PointerFault ==
    /\ Executes(Indirect)
    /\ ~HasAddress
    /\ Exit(<<>>, Relative, "write-only page")

LoadFault ==
    /\ Executes(Reading)
    /\ HasAddress /\ ~CanRead(Address)
    /\ Exit(Complaints, Address, "write-only page")

StoreFault ==
    /\ Executes(Writing)
    /\ HasAddress /\ ~CanWrite(Address)
    /\ Exit(Complaints, Address, "read-only page")

-----------------------------------------------------------------------------
(* Traps.                                                                   *)

Trap(numbers) == Executes({15}) /\ TRP(Ir) \in numbers

\* What an input call can find.
Typed(inputs) == IF Len(console) < MaxConsole THEN inputs ELSE {}

Getc ==
    /\ Trap({GETC})
    /\ \E c \in Typed(Chars) \cup {EOF} : SetReg(0, c)
    /\ UNCHANGED computing

\* tin echoes the character.
In ==
    /\ Trap({TIN})
    /\ \E c \in Typed(Chars) \cup {EOF} :
           SetReg(0, c) /\ Say(<< <<"char", c % 256>> >>)
    /\ UNCHANGED <<status, args, frames, mem>>

Out ==
    /\ Trap({OUT})
    /\ Say(<< <<"char", reg[0] % 256>> >>)
    /\ Goto(Pc)
    /\ UNCHANGED <<status, args, frames, mem>>

\* The words of mem from this one to the next zero: tputs takes R0 for an index
\* of mem, without translating it.
StringAt(a) ==
    LET end == CHOOSE e \in a..65536 : Peek(mem, e) = 0 /\ \A b \in a..(e - 1) : Peek(mem, b) # 0
    IN  [k \in 1..(end - a) |-> Peek(mem, a + k - 1)]

Puts ==
    /\ Trap({PUTS})
    /\ LET string == StringAt(reg[0])
       IN  Say([k \in DOMAIN string |-> <<"char", string[k] % 256>>])
    /\ Goto(Pc)
    /\ UNCHANGED <<status, args, frames, mem>>

Putsp ==
    /\ Trap({PUTSP})
    /\ Goto(Pc)
    /\ UNCHANGED computing

\* fscanf leaves R0 alone when it finds no number.
Inu16 ==
    /\ Trap({INU16})
    /\ \E n \in Typed(Numbers) \cup {reg[0]} : SetReg(0, n)
    /\ UNCHANGED computing

Outu16 ==
    /\ Trap({OUTU16})
    /\ Say(<< <<"number", reg[0]>> >>)
    /\ Goto(Pc)
    /\ UNCHANGED <<status, args, frames, mem>>

Current == Peek(mem, 0)

\* tbrk: R0 names a page and has the bits write, read and request.
Brk ==
    LET page == Vpn(reg[0])
        had == Valid(Peek(mem, reg[PTBR] + page))
        got == AllocMem(mem, reg[PTBR], page, Bit(reg[0], 1) = 1, Bit(reg[0], 2) = 1)
        Tell(what, failed, why) ==
            Say(<< <<what, Current>> >> \o IF failed THEN << <<why, page, Current>> >> ELSE <<>>)
    IN  /\ Trap({BRK})
        /\ IF Bit(reg[0], 0) = 1
             THEN /\ mem' = IF had THEN mem ELSE got.mem
                  /\ Tell("increase", had \/ got.pfn = NoFrame,
                          IF had THEN "already allocated" ELSE "no free frame")
             ELSE /\ mem' = FreeMem(mem, {page}, reg[PTBR])
                  /\ Tell("decrease", ~had, "not allocated")
        /\ Goto(Pc)
        /\ UNCHANGED <<status, args, frames>>

Switch(m, p) ==
    /\ reg' = [reg EXCEPT ![RPC] = Peek(m, PcbAt(p) + 1), ![PTBR] = Peek(m, PcbAt(p) + 2)]
    /\ mem' = Poke(m, 0, p)

\* tyld with another process to run: only the program counter and the page table
\* base are saved, the registers are everybody's.
Yield ==
    /\ Trap({YIELD})
    /\ Peek(mem, 1) > 1 /\ NextAfter(mem, Current) # Current
    /\ Switch(Poke(Poke(mem, PcbAt(Current) + 1, Pc), PcbAt(Current) + 2, reg[PTBR]),
              NextAfter(mem, Current))
    /\ Say(<< <<"switching", Current, NextAfter(mem, Current)>> >>)
    /\ UNCHANGED <<status, args, frames>>

YieldAlone ==
    /\ Trap({YIELD})
    /\ Peek(mem, 1) > 1 => NextAfter(mem, Current) = Current
    /\ Goto(Pc)
    /\ UNCHANGED computing

\* thalt: the pages go back, the PCB is marked, and the next process runs.
Ended == Poke(FreeMem(mem, 0..31, reg[PTBR]), PcbAt(Current), Dead)

Halt ==
    /\ Trap({HALT})
    /\ \E m \in {Ended} : PidOf(m, NextAfter(m, Current)) # Dead /\ Switch(m, NextAfter(m, Current))
    /\ UNCHANGED <<status, args, frames, console>>

\* A plausible slip: the search for another process stops one short.
SlipStopEarly ==
    /\ Trap({HALT})
    /\ mem' = Ended
    /\ \A k \in 1..(Peek(mem, 1) - 2) : PidOf(mem', (Current + k) % Peek(mem, 1)) = Dead
    /\ status' = "halted"
    /\ Goto(Pc)
    /\ UNCHANGED <<args, frames, console>>

HaltLast ==
    /\ Trap({HALT})
    /\ mem' = Ended
    /\ PidOf(mem', NextAfter(mem', Current)) = Dead
    /\ status' = "halted"
    /\ Goto(Pc)
    /\ UNCHANGED <<args, frames, console>>

\* A trap whose number is outside trp_ex calls whatever word is there.
WildTrap ==
    /\ Executes({15})
    /\ TRP(Ir) \notin Traps
    /\ status' = "wild"
    /\ UNCHANGED <<args, frames, mem, reg, console>>

\* The word fetched from page 0, 0xFFFF, is such a trap.
FetchReserved ==
    /\ status = "running"
    /\ Vpn(reg[RPC]) = 0
    /\ status' = "wild"
    /\ Say(Reserved(reg[RPC]))
    /\ UNCHANGED <<args, frames, mem, reg>>

-----------------------------------------------------------------------------

Boot ==
    \/ BeginCreate \/ AllocSegmentPage \/ CreateFails \/ FinishCreate
    \/ FileMissing \/ LoadFirstProc

Fault == FetchFault \/ PointerFault \/ LoadFault \/ StoreFault

\* The instructions of a program that call none of yield, brk and halt.
Plain ==
    \/ Br \/ Add \/ And \/ Not \/ Lea \/ Jsr \/ Jmp \/ Unused
    \/ Load \/ Store
    \/ Getc \/ In \/ Out \/ Puts \/ Putsp \/ Inu16 \/ Outu16

Call == Brk \/ Yield \/ YieldAlone \/ Halt \/ HaltLast

Stopped == status \in {"halted", "exited", "wild"}

Next == Boot \/ Fault \/ FetchReserved \/ WildTrap \/ Plain \/ Call

Spec == Init /\ [][Next]_vars

\* One process of the host runs main, and nothing keeps it waiting: getchar and
\* fscanf return, since input ends.
FairSpec == Spec /\ WF_vars(Next)

-----------------------------------------------------------------------------
(* Properties                                                               *)

\* Type invariant: words are words, the bitmap of vm.c has no bit for the frames
\* of the operating system, and an entry of a page table names a user frame or
\* was never made.
TypeOK ==
    /\ status \in {"boot", "create", "running"} \cup {"halted", "exited", "wild"}
    /\ \A a \in DOMAIN mem : a \in Word /\ mem[a] \in Word
    /\ reg \in [0..10 -> Word]
    /\ Peek(mem, 3) < 2^13
    /\ \A p \in 0..7, v \in 0..31 :
          LET pte == Peek(mem, TableAt(p) + v) IN pte = 0 \/ FrameIn(pte) >= 3
=============================================================================
