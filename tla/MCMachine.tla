----------------------------- MODULE MCMachine -----------------------------
(* The command lines the machine is run with, and what is expected of them. *)
EXTENDS MachineVm, TLC

-----------------------------------------------------------------------------
(* programs/*.c                                                             *)

Ten == <<5, 2, 1, 2, 3, 1, 2, 1, 2, 1>>

\* The loop that adds ten numbers, and the end of every program.
Sum == <<58376, 25728, 26240, 5281, 4675, 6463, 1019>>
End == <<61480, 61477, 16384>>
Clear == <<21088, 22816>>

Program(code, heap) == [code |-> code, heap |-> heap, missing |-> FALSE]
Simple == Program(Clear \o <<6442>> \o Sum \o End, Ten)
BrkOnce == Program(Clear \o <<40972, 61481, 6442>> \o Sum \o End \o <<16394>>,
                   Ten \o <<20483>>)
BrkTwice == Program(Clear \o <<40975, 61481, 61480, 40973, 61481, 6442>> \o Sum \o End
                        \o <<16394, 16395>>, Ten \o <<20483, 22531>>)
Yielding == Program(Clear \o <<6442, 61480>> \o Sum \o End, Ten)

Times(n, p) == [i \in 1..n |-> p]

\* samples/sample1.sh to sample5.sh
Sample1 == <<Simple>>
Sample2 == <<BrkOnce>>
Sample3 == Times(2, Simple)
Sample4 == Times(2, Yielding) \o <<BrkOnce>>
Sample5 == Times(2, BrkTwice)

Samples == {Sample1, Sample2, Sample3, Sample4, Sample5}

-----------------------------------------------------------------------------
(* More programs.  Instructions by operation code, registers and number.    *)

Ins(op, d, s, k) == op * 4096 + d * 512 + s * 64 + (k % 64)
Rel(op, d, k) == op * 4096 + d * 512 + (k % 512)
AddTo(d, s, k) == Ins(1, d, s, 32 + (k % 32))
AndTo(d, s, k) == Ins(5, d, s, 32 + (k % 32))
Sys(n) == 61440 + n
Z == 2      \* the conditions of a branch
NP == 5

\* A page and the bits of a request for it.
Ask(page, bits) == page * PageWords + bits
Increase == 1
Read == 2
Write == 4

\* Code that loads this word into R0, does what it has to, and halts.
Given(word, code) ==
    Program(<<Rel(2, 0, Len(code) + 1)>> \o code \o <<Sys(HALT), word>>, <<72, 105>>)

\* Every trap of a console.  The heap of the first process begins at 10240.
Chat == Given(10240, <<Sys(PUTS), Sys(PUTSP), Sys(GETC), Sys(OUT), Sys(TIN), Sys(INU16), Sys(OUTU16)>>)

\* jsr, jsrr through R7, rti, res, not, lea, jmp; then st, ld, sti and ldi with a
\* word of page 5, which ends where the code begins.
Calls ==
    Given(Ask(5, Increase + Read + Write),
          <<Sys(BRK), Ins(4, 4, 0, 1), Sys(80), Ins(4, 0, 7, 0), 32768, 53248, Ins(9, 1, 0, 63),
            Rel(14, 2, 2), Ins(12, 0, 2, 0), Sys(80), Rel(3, 1, -13), Rel(2, 3, -14),
            Rel(3, 0, -15), Rel(11, 3, -16), Rel(10, 4, -17), Ins(1, 5, 4, 3)>>)

\* Faults
Fatal ==
    {Given(0, <<Rel(3, 0, 5)>>),                    \* st into the code
     Given(0, <<Rel(10, 0, -5)>>),                  \* ldi through no page
     Given(40960, <<Ins(6, 1, 0, 0)>>),             \* ldr from no page
     Given(40960, <<Ins(12, 0, 0, 0)>>),            \* jmp to no page
     Given(0, <<Ins(12, 0, 0, 0)>>),                \* jmp to page 0
     Given(Ask(10, Increase + Write), <<Sys(BRK), Ins(7, 0, 0, 0), Ins(6, 1, 0, 0)>>),
     Given(Ask(10, Increase + Write), <<Sys(BRK), Ins(12, 0, 0, 0)>>),
     Given(Ask(10, Increase), <<Sys(BRK), Ins(7, 0, 0, 0)>>),
     Given(Ask(9, 0), <<Sys(BRK), Sys(BRK), Ins(6, 1, 0, 1)>>),
     Given(0, <<Sys(80)>>)}

\* Page 0 by ldi, str and sti; brk gives it a frame that no load or store reaches.
PageZero ==
    Given(Increase + Read + Write,
          <<Rel(10, 1, 6), Ins(7, 1, 0, 3), Rel(11, 1, 4), Sys(BRK), Ins(6, 1, 0, 0), Sys(BRK)>>)

\* A yield in the last word of page 8 and a halt in the first of page 9: the
\* counter that is saved is in another page.
Edge ==
    Given(18431, <<Rel(2, 1, 4), Rel(2, 2, 4), Ins(7, 1, 0, 0), Ins(7, 2, 0, 1), Ins(12, 0, 0, 0),
                   Sys(YIELD), Sys(HALT)>>)

\* An ldi at xFFFE through a word of page 0, and from the last word of the address
\* space to the first.
Wrapping ==
    Given(Ask(31, Increase + Read + Write),
          <<Sys(BRK), Rel(2, 1, 4), AndTo(0, 0, 0), AddTo(0, 0, -2), Ins(7, 1, 0, 0),
            Ins(12, 0, 0, 0), Rel(10, 3, 5)>>)

\* A program that takes its requests from the keyboard until there is none: it
\* passes them to brk, writes the request at its own address if it was for a
\* page more, or prints the word before it if bit 3 is set, and yields.
Monkey ==
    Program(<<AndTo(0, 0, 0), Sys(INU16), AddTo(0, 0, 0), Rel(0, Z, 11),
              AndTo(1, 0, 8), Rel(0, NP, 6),
              Sys(BRK), AndTo(1, 0, 1), Rel(0, Z, 1), Ins(7, 0, 0, 0), Sys(YIELD), Rel(0, 7, -12),
              Ins(6, 0, 0, -1), Sys(OUTU16), Rel(0, 7, -5), Sys(HALT)>>, Ten)

Missing == [Simple EXCEPT !.missing = TRUE]

Lines ==
    Samples
    \cup {<<p>> : p \in Fatal \cup {Chat, Calls, PageZero, Wrapping}}
    \cup {Times(2, Edge), Times(2, Monkey)}
    \cup {<<>>, <<Simple, Missing>>, Times(8, Simple), <<BrkTwice>> \o Times(6, Simple)}

Keys == {65}
Typing == {Ask(10, Increase + Read + Write), Ask(10, 8), Ask(10, 0), Ask(9, 0)}

\* Ten is written at offset 0 of the heap, requests at their own offset.
ViewsOf(line) ==
    {[offset |-> 0, bit |-> 0]}
    \cup IF \E i \in DOMAIN line : line[i] \in {Monkey, PageZero}
           THEN {[offset |-> 7, bit |-> 1]} ELSE {[offset |-> 2047, bit |-> 3]}

-----------------------------------------------------------------------------
(* Properties                                                               *)

\* What halted processes leave in the words of the operating system: the frames
\* of process p are 4p + 3 to 4p + 6, code and heap, each entry with its bits but
\* valid.  pcs: the counters of their last switches; grown: pages added by brk.
LeftBehind(current, pcs, grown) ==
    LET pids == 0..(Len(pcs) - 1)
        Pcb(p, i) == CASE i = 0 -> Dead [] i = 1 -> pcs[p + 1] [] i = 2 -> TableAt(p)
        PteOf(p, k) == (4 * p + 3 + k) * PageWords + (IF k < 2 THEN Read ELSE Read + Write)
    IN  (0 :> current) @@ (1 :> Len(pcs)) @@ (3 :> 8191) @@ (4 :> 65535) @@ grown
        @@ [a \in {PcbAt(p) + i : p \in pids, i \in 0..2} |-> Pcb((a - 12) \div 3, a % 3)]
        @@ [a \in {TableAt(p) + 6 + k : p \in pids, k \in 0..3} |->
               PteOf((a - 4096) \div 32, (a % 32) - 6)]

\* What createProc has loaded, where the frames of process p are those.
Files(line) ==
    LET At(a, p) == IF (a \div PageWords) % 4 = 3 THEN line[p + 1].code ELSE line[p + 1].heap
        Place(p) == {(4 * p + 3) * PageWords + i : i \in 0..(Len(line[p + 1].code) - 1)}
                    \cup {(4 * p + 5) * PageWords + i : i \in 0..(Len(line[p + 1].heap) - 1)}
    IN  [a \in UNION {Place(p) : p \in 0..(Len(line) - 1)} |->
            At(a, (a \div PageWords - 3) \div 4)[(a % PageWords) + 1]]

Switches(pairs) == [i \in DOMAIN pairs |-> <<"switching", pairs[i][1], pairs[i][2]>>]
Grows(p) == << <<"increase", p>> >>

\* samples/sample1-result.txt to sample5-result.txt
Recorded ==
    (Sample1 :> [says |-> <<>>,
                 reg |-> <<0, 20, 16394, 1, 0, 0, 0, 0, 12300, 2, 4096>>,
                 os |-> LeftBehind(0, <<12288>>, <<>>)])
    @@ (Sample2 :> [says |-> Grows(0),
                    reg |-> <<20483, 20, 16394, 1, 0, 0, 0, 0, 12302, 2, 4096>>,
                    os |-> LeftBehind(0, <<12288>>, 4106 :> 14338)])
    @@ (Sample3 :> [says |-> Switches(<< <<0, 1>>, <<1, 0>> >>),
                    reg |-> <<0, 20, 16394, 1, 0, 0, 0, 0, 12300, 2, 4128>>,
                    os |-> LeftBehind(1, <<12299, 12299>>, <<>>)])
    @@ (Sample4 :> [says |-> Switches(<< <<0, 1>>, <<1, 2>> >>) \o Grows(2)
                             \o Switches(<< <<2, 0>>, <<0, 1>>, <<1, 2>> >>),
                    reg |-> <<20483, 30, 16385, 5, 65534, 0, 0, 0, 12301, 4, 4128>>,
                    os |-> LeftBehind(1, <<12300, 12300, 12301>>, 4170 :> 30722)])
    @@ (Sample5 :> [says |-> LET Round == Grows(0) \o Switches(<< <<0, 1>> >>)
                                          \o Grows(1) \o Switches(<< <<1, 0>> >>)
                             IN  Round \o Round,
                    reg |-> <<22531, 40, 16394, 1, 0, 0, 0, 0, 12305, 2, 4128>>,
                    os |-> LeftBehind(1, <<12304, 12304>>,
                                      (4106 :> 22530) @@ (4107 :> 26626)
                                      @@ (4138 :> 24578) @@ (4139 :> 28674))])

\* The five samples end with the output, the registers and the words of memory
\* that samples/*-result.txt record.
EndsAsRecorded ==
    (view.line \in Samples /\ Stopped) =>
        LET end == Recorded[view.line]
            left == end.os @@ Files(view.line)
        IN  /\ status = "halted"
            /\ console = end.says
            /\ \A r \in 0..10 : reg[r] = end.reg[r + 1]
            /\ \A a \in DOMAIN mem \cup DOMAIN left : Peek(mem, a) = Peek(left, a)

\* How these command lines end.  Without a process the machine starts at address
\* 0, and Wrapping runs into page 0; a Monkey may ask for a word of a page it has
\* given back.
Endings ==
    [line \in Lines |->
        IF line \in {<<>>, <<Wrapping>>} THEN {"wild"}
        ELSE IF line = <<Simple, Missing>> THEN {"exited"}
        ELSE IF \E p \in Fatal : line = <<p>> THEN {"exited", "wild"}
        ELSE IF line = Times(2, Monkey) THEN {"halted", "exited"}
        ELSE {"halted"}]

\* Seven processes of four pages fill the 29 frames.
Processes(line) == IF Len(line) <= 7 THEN Len(line) ELSE 7

\* The switches of tyld and thalt lose no process: once the keyboard is silent
\* every command line comes to its end, that of programs that do nothing illegal by
\* the thalt of the last of its processes.  Then every process there was memory for
\* has been created and has terminated, and all frames are free again.
EveryProgramEnds ==
    <>(/\ status \in Endings[view.line]
       /\ status = "halted" =>
             /\ Peek(mem, 1) = Processes(view.line)
             /\ \A p \in 0..(Processes(view.line) - 1) : PidOf(mem, p) = Dead
             /\ Peek(mem, 3) = 8191 /\ Peek(mem, 4) = 65535)

-----------------------------------------------------------------------------
(* tests/*-result.txt                                                       *)

Allocated == AllocMem(InitOS, 4096, 0, TRUE, TRUE).mem
Freed == FreeMem(Allocated, {0}, 4096)

ASSUME MemTest == Peek(Allocated, 3) = 4095 /\ Peek(Allocated, 4096) = 6151
ASSUME MemTest2 == Peek(Freed, 3) = 8191 /\ Peek(Freed, 4096) = 6150

Created ==
    LET Page(m, v) == AllocMem(m, 4096, v, TRUE, v >= 8).mem
    IN  Page(Page(Page(Page(InitOS, 6), 7), 8), 9)
HeapFreed == FreeMem(Created, {8, 9}, 4096)

ASSUME ProcTest ==
    /\ Peek(Created, 3) = 511
    /\ [v \in 6..9 |-> Peek(Created, 4096 + v)] = [v \in 6..9 |->
           CASE v = 6 -> 6147 [] v = 7 -> 8195 [] v = 8 -> 10247 [] v = 9 -> 12295]
    /\ Peek(HeapFreed, 3) = 2047
    /\ Peek(HeapFreed, 4104) = 10246 /\ Peek(HeapFreed, 4105) = 12294
=============================================================================
