----------------------------- MODULE Assembler -----------------------------
(***************************************************************************)
(* lc3a.py: the two passes from the lines of an .asm file to the words of  *)
(* a code file.  A line is a record with its mnemonic in op; a label line  *)
(* is [op |-> "label", name |-> ...].  The words are computed with the     *)
(* arithmetic of the source, so that the processor's way to read them can  *)
(* be held against it.                                                     *)
(***************************************************************************)
EXTENDS Integers, SequencesExt

Reg(n) == <<"reg", n>>
Imm(k) == <<"imm", k>>
Label(name) == [op |-> "label", name |-> name]
AllFlags == {"n", "z", "p"}

\* An exception: the assembler prints it, exits and writes no file.
Failed == -1

\* What follows a ValueError when the number is out of range, and the n lowest
\* bits of the number otherwise.
Bits(k, n) == k % 2^n
Ranged(k, low, high, bits, word) ==
    IF k \in low..high THEN word + Bits(k, bits) ELSE Failed

\* Pass 1 takes every other first word for a label; so it does with BRnp, which
\* is missing in its list.
IsDirective(l) == l.op \in {".ORIG", ".END"}
IsInstruction(l) ==
    /\ l.op \in {"ADD", "AND", "NOT", "LD", "LDI", "LDR", "LEA", "ST", "STI", "STR",
                 "BR", "HALT", "YIELD", "BRK"}
    /\ l.op = "BR" => l.cond # {"n", "p"}

-----------------------------------------------------------------------------
(* One instruction                                                          *)

\* assemble_ADD and assemble_AND
TwoOperands(code, l) ==
    LET word == code * 4096 + l.dr * 512 + l.sr * 64
    IN  IF l.src[1] = "reg" THEN word + l.src[2]
        ELSE Ranged(l.src[2], -16, 15, 5, word + 32)

\* assemble_NOT
Complement(l) == 9 * 4096 + l.dr * 512 + l.sr * 64 + 63

\* The distance to a label from the next instruction, or the number given.
Offset(target, pc, labels) ==
    IF target[1] = "imm" THEN target[2] ELSE labels[target[2]] - (pc + 1)
Known(target, labels) == target[1] = "imm" \/ target[2] \in DOMAIN labels

\* assemble_LD, assemble_LDI, assemble_ST and assemble_STI
PcRelative(code, l, pc, labels) ==
    IF Known(l.target, labels)
      THEN Ranged(Offset(l.target, pc, labels), -256, 255, 9, code * 4096 + l.dr * 512)
      ELSE Failed

\* assemble_LEA: value - current_pc + 1
LoadAddress(l, pc, labels) ==
    IF l.target[2] \in DOMAIN labels
      THEN Ranged(labels[l.target[2]] - pc + 1, -256, 255, 9, 14 * 4096 + l.dr * 512)
      ELSE Failed

\* assemble_LDR and assemble_STR
BaseOffset(code, l) ==
    Ranged(l.off, -32, 31, 6, code * 4096 + l.dr * 512 + l.base * 64)

\* A plausible slip: the offset from the instruction itself.
SlipBranchFromHere(l, pc, labels) ==
    IF l.name \in DOMAIN labels
      THEN Ranged(labels[l.name] - pc, -256, 255, 9,
                  (IF "n" \in l.cond THEN 2048 ELSE 0) + (IF "z" \in l.cond THEN 1024 ELSE 0)
                      + (IF "p" \in l.cond THEN 512 ELSE 0))
      ELSE Failed

\* assemble_BR
Branch(l, pc, labels) ==
    IF l.name \in DOMAIN labels
      THEN Ranged(labels[l.name] - (pc + 1), -256, 255, 9,
                  (IF "n" \in l.cond THEN 2048 ELSE 0) + (IF "z" \in l.cond THEN 1024 ELSE 0)
                      + (IF "p" \in l.cond THEN 512 ELSE 0))
      ELSE Failed

\* assemble_line
WordOf(l, pc, labels) ==
    CASE l.op = "ADD" -> TwoOperands(1, l)
      [] l.op = "AND" -> TwoOperands(5, l)
      [] l.op = "NOT" -> Complement(l)
      [] l.op = "LD" -> PcRelative(2, l, pc, labels)
      [] l.op = "LDI" -> PcRelative(10, l, pc, labels)
      [] l.op = "LDR" -> BaseOffset(6, l)
      [] l.op = "LEA" -> LoadAddress(l, pc, labels)
      [] l.op = "ST" -> PcRelative(3, l, pc, labels)
      [] l.op = "STI" -> PcRelative(11, l, pc, labels)
      [] l.op = "STR" -> BaseOffset(7, l)
      [] l.op = "BR" -> Branch(l, pc, labels)
      [] l.op = "HALT" -> 61477     \* xF025
      [] l.op = "YIELD" -> 61480    \* xF028
      [] l.op = "BRK" -> 61481      \* xF029

-----------------------------------------------------------------------------
(* The passes of assemble                                                   *)

InstructionsUpTo(i, lines) == Len(SelectSeq(SubSeq(lines, 1, i), IsInstruction))
NoLabels == [n \in {} |-> 0]

\* Pass 1: where the program starts, and the addresses of the labels, which
\* count the instructions before them; a label that comes twice has its last
\* address (add_label).  The text has one .ORIG, and nothing may come before it.
Pass1(lines) ==
    LET begin == CHOOSE i \in DOMAIN lines : lines[i].op = ".ORIG"
        orig == lines[begin].address
        Labelled(n) == {i \in DOMAIN lines : lines[i] = Label(n)}
        names == {lines[i].name : i \in {j \in DOMAIN lines : lines[j].op = "label"}}
    IN  [orig |-> orig,
         failed |-> \E i \in 1..(begin - 1) : ~IsDirective(lines[i]),
         labels |-> [n \in names |-> orig + InstructionsUpTo(Max(Labelled(n)), lines)]]

\* Pass 2: the words of the instructions, and x4000 behind them.
Pass2(lines, orig, labels) ==
    LET instructions == SelectSeq(lines, IsInstruction)
    IN  [i \in DOMAIN instructions |-> WordOf(instructions[i], orig + i - 1, labels)]
        \o <<16384>>
=============================================================================
