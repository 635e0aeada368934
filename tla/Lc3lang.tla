------------------------------ MODULE Lc3lang ------------------------------
(***************************************************************************)
(* lc3lang.py: an LC-3 Language program from its lines to its end.  The    *)
(* compiler (lc3c.py, compile and generate_heap) makes an .asm file and a  *)
(* heap file of it, the assembler (lc3a.py) a code file of the first, and  *)
(* the simulator (module Machine) runs the two.  A state holds what the    *)
(* stage at work has made so far; a program of Assembled enters at the     *)
(* assembler.                                                              *)
(*                                                                         *)
(* Beside the toolchain stands a direct interpreter of the language,       *)
(* Meaning, with the rules of LC3_Language_Intro.pdf: assignments to       *)
(* registers and variables of 16 bits, signed comparisons, nested blocks.  *)
(***************************************************************************)
EXTENDS CodeGen, Cpu, FiniteSets

CONSTANTS Sources,      \* the programs in LC-3 Language: sequences of lines
          Assembled     \* the programs in assembly: sequences of .asm lines

VARIABLES
    phase,      \* "compile", "heap", "pass1", "pass2", "load", "run", "halted",
                \* "failed": an error ended a tool; "exited": one ended the simulation
    source,     \* the program
    at,         \* the line the compiler reads next
    asm,        \* content_to_write
    addresses,  \* var_addresses: the variables in the order of their addresses
    inits,      \* heap_init: pairs of a variable and its value
    counter,    \* unique_label_counter
    blocks,     \* block_stack
    heap,       \* the words of the heap file
    table,      \* what pass 1 found out
    words,      \* machine_code
    status, args, frames, mem, reg, console     \* the simulator

compiling == <<asm, addresses, inits, counter, blocks>>
machine == <<status, args, frames, mem, reg, console>>
vars == <<phase, source, at, compiling, heap, table, words, machine>>

\* The simulator.  Programs of the language read nothing.
M == INSTANCE Machine WITH CommandLines <- {<<>>}, Chars <- {}, Numbers <- {}, MaxConsole <- 0

NoTable == [orig |-> 0, failed |-> FALSE, labels |-> NoLabels]

\* .ORIG x3000, and x4000 into R7 by fourteen doublings
Prelude ==
    <<[op |-> ".ORIG", address |-> CodeStart], Clear(7), AddI(7, 1)>>
    \o [i \in 1..14 |-> Add(7, 7, 7)]

Init ==
    /\ \/ /\ source \in Sources
          /\ phase = "compile"
          /\ asm = Prelude
       \/ /\ source \in Assembled
          /\ phase = "pass1"
          /\ asm = source
    /\ at = 1
    /\ addresses = <<>> /\ inits = <<>> /\ counter = 0 /\ blocks = <<>>
    /\ heap = <<>> /\ table = NoTable /\ words = <<>> /\ M!Init

-----------------------------------------------------------------------------
(* compile                                                                  *)

Line == source[at]

\* The instruction addresses a variable.
UsesVariable(l) == "var" \in DOMAIN l

\* A plausible slip: a name gets a new address each time it is met.
SlipNewAddress(code) ==
    LET Meet(known, l) == Append(known, l.var)
    IN  FoldLeft(Meet, addresses, SelectSeq(code, UsesVariable))

\* get_var_address: the names of these instructions that have no address get
\* the next ones.
Addressed(code) ==
    LET Meet(known, l) == IF l.var \in Range(known) THEN known ELSE Append(known, l.var)
    IN  FoldLeft(Meet, addresses, SelectSeq(code, UsesVariable))

\* A plausible slip: the first address is 1.
SlipOneBased(v, known) == CHOOSE i \in DOMAIN known : known[i] = v

AddressOf(v, known) == (CHOOSE i \in DOMAIN known : known[i] = v) - 1

Located(code, known) ==
    [i \in DOMAIN code |->
        IF UsesVariable(code[i])
          THEN [op |-> code[i].op, dr |-> code[i].dr, base |-> code[i].base,
                off |-> AddressOf(code[i].var, known)]
          ELSE code[i]]

\* These lines join the .asm file.
Emit(code) ==
    LET known == Addressed(code)
    IN  /\ asm' = asm \o Located(code, known)
        /\ addresses' = known

Reading(kinds) == phase = "compile" /\ at <= Len(source) /\ Line.kind \in kinds
NextLine == at' = at + 1 /\ UNCHANGED <<phase, source, heap, table, words, machine>>

Statements == {"set", "op", "update", "YIELD", "BRK"}
Compiled == CompileLine(Line, Range(addresses))

\* compile_line; a variable that only has an initial value gets its address too.
CompileStatement ==
    /\ Reading(Statements)
    /\ Compiled.ok
    /\ IF Compiled.init = <<>>
         THEN Emit(Compiled.code)
         ELSE addresses' = Append(addresses, Line.to) /\ asm' = asm
    /\ inits' = inits \o Compiled.init
    /\ NextLine
    /\ UNCHANGED <<counter, blocks>>

\* The start and end labels come first, then the two of the condition.
CompileWhile ==
    /\ Reading({"while"})
    /\ LET end == counter + 1
       IN  /\ Emit(<<Label(counter)>>
                   \o CompileCondition(Line.a, Line.cmp, Line.b, counter + 2, counter + 3)
                   \o <<Br({"z"}, end)>>)
           /\ blocks' = Append(blocks, [type |-> "while", start |-> counter, end |-> end])
    /\ counter' = counter + 4
    /\ NextLine
    /\ UNCHANGED inits

\* Labels for the condition, the else branch and the end.
CompileIf ==
    /\ Reading({"if"})
    /\ LET else == counter + 1
       IN  /\ Emit(<<Label(counter)>>
                   \o CompileCondition(Line.a, Line.cmp, Line.b, counter + 3, counter + 4)
                   \o <<Br({"z"}, else)>>)
           /\ blocks' = Append(blocks, [type |-> "if", else |-> else, end |-> counter + 2,
                                        processed_else |-> FALSE])
    /\ counter' = counter + 5
    /\ NextLine
    /\ UNCHANGED inits

Block == blocks[Len(blocks)]
InBlock == blocks # <<>>
InIf == InBlock /\ Block.type = "if"

CompileElse ==
    /\ Reading({"else"})
    /\ InIf
    /\ Emit(<<Br(AllFlags, Block.end), Label(Block.else)>>)
    /\ blocks' = [blocks EXCEPT ![Len(blocks)].processed_else = TRUE]
    /\ NextLine
    /\ UNCHANGED <<inits, counter>>

\* A plausible slip: the end of any block goes back to where it began.
SlipBackToIf ==
    /\ Reading({"end"})
    /\ InBlock
    /\ Emit(IF Block.type = "while" THEN <<Br(AllFlags, Block.start), Label(Block.end)>>
            ELSE (IF Block.processed_else THEN <<>> ELSE <<Label(Block.else)>>)
                 \o <<Br(AllFlags, Block.else - 1), Label(Block.end)>>)
    /\ blocks' = Front(blocks)
    /\ NextLine
    /\ UNCHANGED <<inits, counter>>

CompileEnd ==
    /\ Reading({"end"})
    /\ InBlock
    /\ Emit(IF Block.type = "while" THEN <<Br(AllFlags, Block.start), Label(Block.end)>>
            ELSE (IF Block.processed_else THEN <<>> ELSE <<Label(Block.else)>>)
                 \o <<Label(Block.end)>>)
    /\ blocks' = Front(blocks)
    /\ NextLine
    /\ UNCHANGED <<inits, counter>>

\* A ValueError, or an UnboundLocalError, ends the compiler.
Reject ==
    /\ \/ Reading(Statements) /\ ~Compiled.ok
       \/ Reading({"else"}) /\ ~InIf
       \/ Reading({"end"}) /\ ~InBlock
    /\ phase' = "failed"
    /\ UNCHANGED <<source, at, compiling, heap, table, words, machine>>

\* Blocks that are still open are not noticed here.
FinishAsm ==
    /\ phase = "compile"
    /\ at > Len(source)
    /\ asm' = asm \o <<[op |-> "YIELD"], [op |-> "HALT"], [op |-> ".END"]>>
    /\ phase' = "heap"
    /\ UNCHANGED <<source, at, addresses, inits, counter, blocks, heap, table, words, machine>>

\* generate_heap: the initial values one after the other, whatever the
\* addresses of their variables.
GenerateHeap ==
    /\ phase = "heap"
    /\ IF \E i \in DOMAIN inits : inits[i][2] > 65535
         THEN phase' = "failed" /\ UNCHANGED heap
         ELSE /\ phase' = "pass1"
              /\ heap' = [i \in DOMAIN inits |-> inits[i][2]]
    /\ UNCHANGED <<source, at, compiling, table, words, machine>>

-----------------------------------------------------------------------------
(* assemble                                                                 *)

RunPass1 ==
    /\ phase = "pass1"
    /\ table' = Pass1(asm)
    /\ phase' = IF table'.failed THEN "failed" ELSE "pass2"
    /\ UNCHANGED <<source, at, compiling, heap, words, machine>>

\* After an error no code file is written.
RunPass2 ==
    /\ phase = "pass2"
    /\ words' = Pass2(asm, table.orig, table.labels)
    /\ phase' = IF Failed \in Range(words') THEN "failed" ELSE "load"
    /\ UNCHANGED <<source, at, compiling, heap, table, machine>>

-----------------------------------------------------------------------------
(* vm.c                                                                     *)

Load ==
    /\ phase = "load"
    /\ args' = <<[code |-> words, heap |-> heap, missing |-> FALSE]>>
    /\ phase' = "run"
    /\ UNCHANGED <<source, at, compiling, heap, table, words, status, frames, mem, reg, console>>

Simulate ==
    /\ phase = "run"
    /\ M!Next
    /\ phase' = IF status' \in {"halted", "exited"} THEN status' ELSE "run"
    /\ UNCHANGED <<source, at, compiling, heap, table, words>>

Next ==
    \/ CompileStatement \/ CompileWhile \/ CompileIf \/ CompileElse \/ CompileEnd
    \/ Reject \/ FinishAsm \/ GenerateHeap
    \/ RunPass1 \/ RunPass2
    \/ Load \/ Simulate

\* Every tool is one process that nothing keeps waiting.
Spec == Init /\ [][Next]_vars /\ WF_vars(Next)

-----------------------------------------------------------------------------
(* The language, read directly.  A state of this interpreter is the line it *)
(* comes to, at, and the values env of the registers and variables; those   *)
(* that nothing has set are zero.                                           *)

Operands(l) == {l[f] : f \in DOMAIN l \cap {"to", "a", "b"}}
Named(src) == {o \in UNION {Operands(src[i]) : i \in DOMAIN src} : o[1] \in {"reg", "var"}}
              \cup {Reg(n) : n \in 1..4}

Value(o, env) ==
    IF IsImm(o) THEN Wrap(o[2]) ELSE IF o[1] = "neg" THEN Wrap(-o[2]) ELSE env[o]
Apply(op, v, w) == Wrap(IF op = "+" THEN v + w ELSE v - w)

Compares(cmp, v, w) ==
    LET a == Signed(v)
        b == Signed(w)
    IN  CASE cmp = "==" -> a = b [] cmp = "!=" -> a # b
          [] cmp = "<" -> a < b [] cmp = "<=" -> a <= b
          [] cmp = ">" -> a > b [] cmp = ">=" -> a >= b

\* How deep in blocks the lines from i to j lead, and the line that leaves the
\* block of line i: its own end, or its else as well if elseToo.
Depth(src, i, j) ==
    Cardinality({n \in i..j : src[n].kind \in {"while", "if"}})
    - Cardinality({n \in i..j : src[n].kind = "end"})
Leave(src, i, elseToo) ==
    CHOOSE j \in (i + 1)..Len(src) :
        LET Leaves(n) == \/ src[n].kind = "end" /\ Depth(src, i, n) = 0
                         \/ elseToo /\ src[n].kind = "else" /\ Depth(src, i, n) = 1
        IN  Leaves(j) /\ \A n \in (i + 1)..(j - 1) : ~Leaves(n)
Opening(src, j) ==
    CHOOSE i \in 1..(j - 1) :
        /\ src[i].kind \in {"while", "if"}
        /\ Leave(src, i, src[j].kind = "else") = j

Goto(s, i) == [s EXCEPT !.at = i]

StepOver(src, s) ==
    LET l == src[s.at]
        Assign(v) == [at |-> s.at + 1, env |-> [s.env EXCEPT ![l.to] = v]]
    IN  CASE l.kind = "set" -> Assign(Value(l.a, s.env))
          [] l.kind = "op" -> Assign(Apply(l.op, Value(l.a, s.env), Value(l.b, s.env)))
          [] l.kind = "update" -> Assign(Apply(l.op, s.env[l.to], Value(l.b, s.env)))
          [] l.kind \in {"while", "if"} ->
                IF Compares(l.cmp, Value(l.a, s.env), Value(l.b, s.env)) THEN Goto(s, s.at + 1)
                ELSE Goto(s, Leave(src, s.at, l.kind = "if") + 1)
          [] l.kind = "else" -> Goto(s, Leave(src, Opening(src, s.at), FALSE) + 1)
          [] l.kind = "end" ->
                LET i == Opening(src, s.at)
                IN  IF src[i].kind = "while" THEN Goto(s, i) ELSE Goto(s, s.at + 1)
          [] l.kind \in {"YIELD", "BRK"} -> Goto(s, s.at + 1)

RECURSIVE RunFrom(_, _)
RunFrom(src, s) == IF s.at > Len(src) THEN s.env ELSE RunFrom(src, StepOver(src, s))

\* What the program leaves in its registers and variables.
Meaning(src) == RunFrom(src, [at |-> 1, env |-> [o \in Named(src) |-> 0]])

-----------------------------------------------------------------------------
(* Properties                                                               *)

Stages == {"compile", "heap", "pass1", "pass2", "load", "run", "halted", "failed", "exited"}

\* Type invariant: labels and addresses are handed out without gaps, every
\* branch and memory access that has left the compiler is complete, and the
\* simulator holds words only.
TypeOK ==
    /\ phase \in Stages
    /\ at \in 1..(Len(source) + 1)
    /\ \A i \in DOMAIN asm :
        /\ asm[i].op \in {"LDR", "STR"} => asm[i].off \in 0..(Len(addresses) - 1)
        /\ phase = "compile" /\ asm[i].op = "BR" => asm[i].name \in 0..(counter - 1)
    /\ \A i, j \in DOMAIN addresses : i # j => addresses[i] # addresses[j]
    /\ \A i \in DOMAIN inits : inits[i][1] \in Range(addresses)
    /\ \A i \in DOMAIN heap : heap[i] \in Word
    /\ phase # "failed" => \A i \in DOMAIN words : words[i] \in Word
    /\ reg \in [0..10 -> Word]
    /\ \A a \in DOMAIN mem : mem[a] \in Word

\* Where a branch to this name must lead: past the instructions that are not
\* behind the last label with the name.
Behind(name) ==
    LET last == SelectLastInSeq(asm, LAMBDA l : l = Label(name))
    IN  table.orig + InstructionsUpTo(Len(asm), asm)
                   - Len(SelectSeq(SubSeq(asm, last, Len(asm)), IsInstruction))

\* What the fields of the word say to the processor is what the line says: the
\* same operation, registers and number, and the address of the same place.
Reads(w, l, here) ==
    LET next == here + 1
        Points(t) == Wrap(next + POFF9(w)) = IF t[1] = "imm" THEN Wrap(next + t[2]) ELSE Behind(t[2])
        Second == IF l.src[1] = "reg" THEN ~FIMM(w) /\ SR2(w) = l.src[2]
                  ELSE FIMM(w) /\ SEXTIMM(w) = Wrap(l.src[2])
        Flags == (IF "n" \in l.cond THEN FN ELSE 0) + (IF "z" \in l.cond THEN FZ ELSE 0)
                    + (IF "p" \in l.cond THEN FP ELSE 0)
    IN  CASE l.op \in {"ADD", "AND"} ->
                /\ OPC(w) = (IF l.op = "ADD" THEN 1 ELSE 5)
                /\ DR(w) = l.dr /\ SR1(w) = l.sr /\ Second
          [] l.op = "NOT" -> OPC(w) = 9 /\ DR(w) = l.dr /\ SR1(w) = l.sr
          [] l.op \in {"LDR", "STR"} ->
                /\ OPC(w) = (IF l.op = "LDR" THEN 6 ELSE 7)
                /\ DR(w) = l.dr /\ SR1(w) = l.base /\ POFF(w) = Wrap(l.off)
          [] l.op = "LD" -> OPC(w) = 2 /\ DR(w) = l.dr /\ Points(l.target)
          [] l.op = "ST" -> OPC(w) = 3 /\ DR(w) = l.dr /\ Points(l.target)
          [] l.op = "LDI" -> OPC(w) = 10 /\ DR(w) = l.dr /\ Points(l.target)
          [] l.op = "STI" -> OPC(w) = 11 /\ DR(w) = l.dr /\ Points(l.target)
          [] l.op = "BR" -> OPC(w) = 0 /\ DR(w) = Flags /\ Points(<<"label", l.name>>)
          [] l.op = "HALT" -> OPC(w) = 15 /\ TRP(w) = HALT
          [] l.op = "YIELD" -> OPC(w) = 15 /\ TRP(w) = YIELD
          [] l.op = "BRK" -> OPC(w) = 15 /\ TRP(w) = BRK

\* Assembler and processor agree on every word: what assemble_* of lc3a.py put
\* together, the macros and op_* functions of vm.c take apart again.
WordsMeanTheirLines ==
    phase = "load" =>
        LET code == SelectSeq(asm, IsInstruction)
        IN  \A i \in DOMAIN code : Reads(words[i], code[i], table.orig + i - 1)

\* The program came through the compiler.
Translated == source \notin Assembled

\* The words of the only process: its code is in the frames 3 and 4, its first
\* heap in 5 and 6.
CodeWord(i) == 3 * PageWords + i - 1
HeapWord(i) == 5 * PageWords + i - 1

\* A program that halts leaves what the language says in R1 to R4 and in every
\* variable, through three tools and two file formats.
MeansTheSame ==
    phase = "halted" /\ Translated =>
        LET env == Meaning(source)
        IN  /\ \A n \in 1..4 : reg[n] = env[Reg(n)]
            /\ \A i \in DOMAIN addresses : addresses[i] \in DOMAIN env =>
                   M!Peek(mem, HeapWord(i)) = env[addresses[i]]

\* While a compiled program runs, R7 is the start of the heap once the prelude
\* is over; when it has ended, the code is what was loaded, and of the heap only
\* words of variables have been written.
StaysInItsVariables ==
    Translated =>
        /\ status = "running" /\ reg[M!RPC] >= CodeStart + Len(Prelude) - 1 =>
             reg[7] = HeapStart
        /\ phase = "halted" => \A i \in DOMAIN words : M!Peek(mem, CodeWord(i)) = words[i]
        /\ phase = "halted" => {a \in DOMAIN mem : a >= CodeWord(1)} \subseteq
              CodeWord(1)..CodeWord(Len(words)) \cup HeapWord(1)..HeapWord(Len(addresses))

\* LC3_Language_Intro.pdf, section 3: the heap file "contains the initial values
\* for the variables as you initialized them in your code".
HeapHoldsInitialValues ==
    phase = "load" =>
        \A i \in DOMAIN inits :
            LET word == AddressOf(inits[i][1], addresses) + 1
            IN  word \in DOMAIN heap /\ heap[word] = inits[i][2]
=============================================================================
