-------------------------------- MODULE Cpu --------------------------------
(***************************************************************************)
(* The words of the LC-3 as src/PA4/PA4_Updated_Bundle/vm.c takes them     *)
(* apart: the fields of an instruction, sign extension, the flags and the  *)
(* numbers of the traps.  The assembler and the machine must agree on it.  *)
(***************************************************************************)
EXTENDS Integers

Word == 0..65535
Wrap(x) == x % 65536
Signed(w) == IF w >= 32768 THEN w - 65536 ELSE w

CodeStart == 12288      \* PC_START, x3000
HeapStart == 16384      \* x4000
PageWords == 2048

\* Bits from, from + 1, ... of a word.
Field(i, from, bits) == (i \div 2^from) % 2^bits
Bit(i, k) == Field(i, k, 1)

\* The word whose bit k is B(k), by its nibbles.
WordOfBits(B(_)) ==
    LET Nibble(k) == B(k) + 2 * B(k + 1) + 4 * B(k + 2) + 8 * B(k + 3)
    IN  Nibble(0) + 16 * Nibble(4) + 256 * Nibble(8) + 4096 * Nibble(12)

BitAnd(v, w) == WordOfBits(LAMBDA k : Bit(v, k) * Bit(w, k))

OPC(i) == Field(i, 12, 4)
DR(i) == Field(i, 9, 3)     \* FCND of a branch, too
SR1(i) == Field(i, 6, 3)    \* BR of jsr and jmp, too
SR2(i) == Field(i, 0, 3)
FIMM(i) == Bit(i, 5) = 1
FL(i) == Bit(i, 11) = 1
TRP(i) == Field(i, 0, 8)

\* sext: the n lowest bits as a signed number, in 16 bits.
Sext(i, n) == LET f == Field(i, 0, n) IN IF f >= 2^(n - 1) THEN f + 65536 - 2^n ELSE f
SEXTIMM(i) == Sext(i, 5)
POFF(i) == Sext(i, 6)
POFF9(i) == Sext(i, 9)
POFF11(i) == Sext(i, 11)

\* uf: the flag a result sets.
FP == 1
FZ == 2
FN == 4
FlagOf(v) == IF v = 0 THEN FZ ELSE IF v >= 32768 THEN FN ELSE FP

\* trp_ex, from x20 on
GETC == 32
OUT == 33
PUTS == 34
TIN == 35
PUTSP == 36
HALT == 37
INU16 == 38
OUTU16 == 39
YIELD == 40
BRK == 41
Traps == GETC..BRK
=============================================================================
