------------------------------ MODULE CodeGen ------------------------------
(***************************************************************************)
(* lc3c.py: what one line of LC-3 Language becomes (compile_line and       *)
(* compile_condition).  A line is a record with its kind; an operand is    *)
(* Reg(n), Var(name), Imm(k) with k natural or, in a condition, Neg(k) for *)
(* -k, which the code takes for the name of a variable; names of variables *)
(* do not begin with R, as the samples demand.  The patterns are tried in order   *)
(* and the first that matches decides; the one of a variable,              *)
(* [a-zA-Z_]\w*, matches the name of a register as well.                   *)
(*                                                                         *)
(* An instruction that addresses a variable names it in the field var;     *)
(* addresses come later, in the order the names are met, which is the      *)
(* order the code asks get_var_address for them.  R5 and R6 are scratch    *)
(* registers, R7 holds the start of the heap.                              *)
(***************************************************************************)
EXTENDS Assembler

CONSTANT Extensions     \* the pairs <<w, v>> of names where w is v and more

Var(name) == <<"var", name>>
Neg(k) == <<"neg", k>>
IsReg(o) == o[1] = "reg"
IsName(o) == o[1] \in {"reg", "var", "neg"}
IsImm(o) == o[1] = "imm"

\* What the patterns of += and -= call the same, (?!\1): w begins with v.
BeginsWith(w, v) == w = v \/ <<w[2], v[2]>> \in Extensions

-----------------------------------------------------------------------------
(* Instructions, and the sequences of them that recur                       *)

Add(d, s, r) == [op |-> "ADD", dr |-> d, sr |-> s, src |-> Reg(r)]
AddI(d, k) == [op |-> "ADD", dr |-> d, sr |-> d, src |-> Imm(k)]
Clear(d) == [op |-> "AND", dr |-> d, sr |-> d, src |-> Imm(0)]
Invert(d, s) == [op |-> "NOT", dr |-> d, sr |-> s]
Ldr(d, v) == [op |-> "LDR", dr |-> d, base |-> 7, var |-> v]
Str(s, v) == [op |-> "STR", dr |-> s, base |-> 7, var |-> v]
Br(flags, label) == [op |-> "BR", cond |-> flags, name |-> label]

\* An ADD of the source whose mnemonic a no-break space joins to the register:
\* the assembler splits at blanks, tabs and commas, finds no mnemonic and takes
\* the line for a label, one no branch asks for.
JoinedAdd(d) == Label(-1 - d)

Negate(d) == <<Invert(d, d), AddI(d, 1)>>
Copy(d, s) == <<Clear(d), Add(d, d, s)>>

\* A plausible slip: the rest is forgotten when a constant takes several steps.
SlipNoRest(d, k) ==
    IF k = 0 THEN <<>> ELSE IF k <= 15 THEN <<AddI(d, k)>>
    ELSE [i \in 1..(k \div 15) |-> AddI(d, 15)]

\* A constant is added in steps of at most 15.
AddConst(d, k) ==
    IF k = 0 THEN <<>> ELSE IF k <= 15 THEN <<AddI(d, k)>>
    ELSE [i \in 1..(k \div 15) |-> AddI(d, 15)] \o <<AddI(d, k % 15)>>

SetConst(d, k) == <<Clear(d)>> \o AddConst(d, k)

-----------------------------------------------------------------------------
(* A register on the left                                                   *)

\* What R5 holds is added to or taken from the register.
PlusR5(r) == <<Add(r, r, 5), Clear(5)>>
MinusR5(r) == Negate(5) \o PlusR5(r)

RegGetsReg(r, a) == IF r = a THEN <<>> ELSE Copy(r, a)
RegGetsVar(r, v) == <<Ldr(r, v)>>
RegGetsConst(r, k) == SetConst(r, k)

RegPlusReg(r, a, b) == (IF r \in {a, b} THEN <<>> ELSE <<Clear(r)>>) \o <<Add(r, a, b)>>
RegMinusReg(r, a, b) ==
    IF r = a /\ r = b THEN <<Clear(r)>>
    ELSE IF r = a THEN Copy(5, b) \o MinusR5(r)
    ELSE IF r = b THEN Negate(r) \o <<Add(r, a, r)>>
    ELSE <<Clear(r), [op |-> "ADD", dr |-> r, sr |-> a, src |-> Imm(0)]>>
         \o Copy(5, b) \o MinusR5(r)

VarPlusVar(r, v, w) ==
    <<Ldr(r, v)>> \o (IF v = w THEN <<Add(r, r, r)>> ELSE <<Ldr(5, w)>> \o PlusR5(r))
VarMinusVar(r, v, w) ==
    IF v = w THEN <<Clear(r)>> ELSE <<Ldr(r, v), Ldr(5, w)>> \o MinusR5(r)

ConstPlusConst(r, k, m) == SetConst(r, k) \o AddConst(r, m)

OtherReg(r, a) == IF r = a THEN <<>> ELSE <<Clear(r), JoinedAdd(r)>>
RegPlusConst(r, a, k) == OtherReg(r, a) \o AddConst(r, k)
ConstPlusReg(r, k, a) == RegPlusConst(r, a, k)
RegMinusConst(r, a, k) ==
    OtherReg(r, a) \o (IF k = 0 THEN <<>> ELSE SetConst(5, k) \o MinusR5(r))
ConstMinusReg(r, k, a) ==
    IF r = a THEN Negate(r) \o AddConst(r, k)
    ELSE SetConst(r, k) \o Copy(5, a) \o MinusR5(r)

VarPlusConst(r, v, k) == SetConst(r, k) \o <<Ldr(5, v)>> \o PlusR5(r)
ConstPlusVar(r, k, v) == VarPlusConst(r, v, k)
VarMinusConst(r, v, k) ==
    <<Ldr(r, v)>> \o (IF k = 0 THEN <<>> ELSE SetConst(5, k) \o MinusR5(r))
ConstMinusVar(r, k, v) ==
    SetConst(r, k) \o <<Ldr(5, v)>> \o Negate(5) \o <<JoinedAdd(r), Clear(5)>>

RegPlusIsReg(r, a) == <<Add(r, r, a)>>
RegMinusIsReg(r, a) == Copy(5, a) \o MinusR5(r)
RegPlusIsVar(r, v) == <<Ldr(5, v)>> \o PlusR5(r)
RegMinusIsVar(r, v) == <<Ldr(5, v)>> \o MinusR5(r)
RegPlusIsConst(r, k) == AddConst(r, k)
RegMinusIsConst(r, k) == RegMinusConst(r, r, k)

-----------------------------------------------------------------------------
(* A variable on the left                                                   *)

Into(x) == <<Str(5, x), Clear(5)>>
PlusR6Into(x) == <<Add(5, 5, 6)>> \o Into(x) \o <<Clear(6)>>
MinusR6Into(x) == Negate(6) \o PlusR6Into(x)
ZeroInto(x) == <<Clear(5), Str(5, x)>>

VarGetsReg(x, a) == <<Str(a, x)>>
VarGetsVar(x, v) == IF x = v THEN <<>> ELSE <<Ldr(5, v), Str(5, x)>>
VarGetsConst(x, k) == SetConst(5, k) \o Into(x)

VarGetsRegPlusReg(x, a, b) == Copy(5, a) \o <<Add(5, 5, b)>> \o Into(x)
VarGetsRegMinusReg(x, a, b) ==
    IF a = b THEN ZeroInto(x)
    ELSE <<Clear(5), Clear(6), Add(5, 5, a), Add(6, 6, b)>> \o MinusR6Into(x)

VarGetsVarPlusVar(x, v, w) ==
    IF x = v /\ x = w THEN <<Ldr(5, x), Add(5, 5, 5), Str(5, x)>>
    ELSE <<Ldr(5, v), Ldr(6, w)>> \o PlusR6Into(x)
VarGetsVarMinusVar(x, v, w) ==
    IF v = w THEN ZeroInto(x) ELSE <<Ldr(5, v), Ldr(6, w)>> \o MinusR6Into(x)

\* A second constant of one step is replaced by the first.
VarGetsConstPlusConst(x, k, m) ==
    SetConst(5, k) \o (IF m \in 1..15 THEN <<AddI(5, k)>> ELSE AddConst(5, m)) \o Into(x)

VarGetsRegPlusConst(x, a, k) == Copy(5, a) \o AddConst(5, k) \o Into(x)
VarGetsConstPlusReg(x, k, a) == VarGetsRegPlusConst(x, a, k)
VarGetsRegMinusConst(x, a, k) ==
    SetConst(5, k) \o (IF k = 0 THEN <<>> ELSE Negate(5)) \o <<Add(5, 5, a)>> \o Into(x)
VarGetsConstMinusReg(x, k, a) == Copy(5, a) \o Negate(5) \o AddConst(5, k) \o Into(x)

VarGetsVarPlusConst(x, v, k) ==
    IF x = v /\ k = 0 THEN <<>> ELSE <<Ldr(5, v)>> \o AddConst(5, k) \o Into(x)
VarGetsConstPlusVar(x, k, v) == VarGetsVarPlusConst(x, v, k)
VarGetsVarMinusConst(x, v, k) ==
    IF k = 0 THEN IF x = v THEN <<>> ELSE <<Ldr(5, v)>> \o Into(x)
    ELSE <<Ldr(5, v)>> \o SetConst(6, k) \o MinusR6Into(x)

\* The variable is addressed by R5 in place of R7.
VarGetsConstMinusVar(x, k, v) ==
    <<[Ldr(5, v) EXCEPT !.base = 5]>> \o Negate(5) \o AddConst(5, k) \o Into(x)

VarPlusIsReg(x, a) == <<Ldr(5, x), Add(5, 5, a)>> \o Into(x)
VarMinusIsReg(x, a) == <<Ldr(5, x)>> \o Copy(6, a) \o MinusR6Into(x)
VarPlusIsVar(x, v) == <<Ldr(5, x), Ldr(6, v)>> \o PlusR6Into(x)
VarMinusIsVar(x, v) == <<Ldr(5, x), Ldr(6, v)>> \o MinusR6Into(x)
VarPlusIsConst(x, k) ==
    IF k = 0 THEN <<>> ELSE <<Ldr(5, x)>> \o AddConst(5, k) \o Into(x)
VarMinusIsConst(x, k) ==
    IF k = 0 THEN <<>> ELSE <<Ldr(5, x)>> \o SetConst(6, k) \o MinusR6Into(x)
VarPlusIsSame(x, v) == <<Ldr(5, x), Add(5, 5, 5), Str(5, x)>>
VarMinusIsSame(x, v) == ZeroInto(x)

-----------------------------------------------------------------------------
(* compile_line: the first pattern that matches                             *)

\* No pattern matches, or the branch uses a name that was never bound.
Invalid == [ok |-> FALSE, code |-> <<>>, init |-> <<>>]
Emits(code) == [ok |-> TRUE, code |-> code, init |-> <<>>]
\* No instruction: the variable gets its value from the heap file.
Initialises(x, k) == [ok |-> TRUE, code |-> <<>>, init |-> <<<<x, k>>>>]

RegGetsOperation(r, a, op, b) ==
    LET plus == op = "+"
    IN  IF IsReg(a) /\ IsReg(b) THEN
            Emits(IF plus THEN RegPlusReg(r, a[2], b[2]) ELSE RegMinusReg(r, a[2], b[2]))
        ELSE IF IsName(a) /\ IsName(b) THEN
            Emits(IF plus THEN VarPlusVar(r, a, b) ELSE VarMinusVar(r, a, b))
        ELSE IF IsImm(a) /\ IsImm(b) THEN
            IF plus THEN Emits(ConstPlusConst(r, a[2], b[2])) ELSE Invalid
        ELSE IF IsReg(a) THEN
            Emits(IF plus THEN RegPlusConst(r, a[2], b[2]) ELSE RegMinusConst(r, a[2], b[2]))
        ELSE IF IsReg(b) THEN
            Emits(IF plus THEN ConstPlusReg(r, a[2], b[2]) ELSE ConstMinusReg(r, a[2], b[2]))
        ELSE IF IsName(a) THEN
            Emits(IF plus THEN VarPlusConst(r, a, b[2]) ELSE VarMinusConst(r, a, b[2]))
        ELSE Emits(IF plus THEN ConstPlusVar(r, a[2], b) ELSE ConstMinusVar(r, a[2], b))

RegUpdate(r, op, b) ==
    LET plus == op = "+"
    IN  IF IsReg(b) /\ b[2] # r THEN
            Emits(IF plus THEN RegPlusIsReg(r, b[2]) ELSE RegMinusIsReg(r, b[2]))
        ELSE IF IsName(b) THEN
            Emits(IF plus THEN RegPlusIsVar(r, b) ELSE RegMinusIsVar(r, b))
        ELSE Emits(IF plus THEN RegPlusIsConst(r, b[2]) ELSE RegMinusIsConst(r, b[2]))

VarGetsOperation(x, a, op, b, known) ==
    LET plus == op = "+"
    IN  IF IsReg(a) /\ IsReg(b) THEN
            Emits(IF plus THEN VarGetsRegPlusReg(x, a[2], b[2])
                          ELSE VarGetsRegMinusReg(x, a[2], b[2]))
        ELSE IF IsName(a) /\ IsName(b) THEN
            Emits(IF plus THEN VarGetsVarPlusVar(x, a, b) ELSE VarGetsVarMinusVar(x, a, b))
        ELSE IF IsImm(a) /\ IsImm(b) THEN
            IF ~plus THEN Invalid
            ELSE IF known THEN Emits(VarGetsConstPlusConst(x, a[2], b[2]))
            ELSE Initialises(x, a[2] + b[2])
        ELSE IF IsReg(a) THEN
            Emits(IF plus THEN VarGetsRegPlusConst(x, a[2], b[2])
                          ELSE VarGetsRegMinusConst(x, a[2], b[2]))
        ELSE IF IsReg(b) THEN
            Emits(IF plus THEN VarGetsConstPlusReg(x, a[2], b[2])
                          ELSE VarGetsConstMinusReg(x, a[2], b[2]))
        ELSE IF IsName(a) THEN
            Emits(IF plus THEN VarGetsVarPlusConst(x, a, b[2])
                          ELSE VarGetsVarMinusConst(x, a, b[2]))
        ELSE Emits(IF plus THEN VarGetsConstPlusVar(x, a[2], b)
                          ELSE VarGetsConstMinusVar(x, a[2], b))

VarUpdate(x, op, b) ==
    LET plus == op = "+"
    IN  IF IsReg(b) THEN
            Emits(IF plus THEN VarPlusIsReg(x, b[2]) ELSE VarMinusIsReg(x, b[2]))
        ELSE IF IsImm(b) THEN
            Emits(IF plus THEN VarPlusIsConst(x, b[2]) ELSE VarMinusIsConst(x, b[2]))
        ELSE IF BeginsWith(b, x) THEN
            Emits(IF plus THEN VarPlusIsSame(x, b) ELSE VarMinusIsSame(x, b))
        ELSE Emits(IF plus THEN VarPlusIsVar(x, b) ELSE VarMinusIsVar(x, b))

RegGets(r, a) ==
    Emits(IF IsReg(a) THEN RegGetsReg(r, a[2])
          ELSE IF IsName(a) THEN RegGetsVar(r, a) ELSE RegGetsConst(r, a[2]))

VarGets(x, a, known) ==
    IF IsReg(a) THEN Emits(VarGetsReg(x, a[2]))
    ELSE IF IsName(a) THEN Emits(VarGetsVar(x, a))
    ELSE IF known THEN Emits(VarGetsConst(x, a[2]))
    ELSE Initialises(x, a[2])

\* compile_line; known are the variables that have an address.
CompileLine(l, known) ==
    CASE l.kind = "YIELD" -> Emits(<<[op |-> "YIELD"]>>)
      [] l.kind = "BRK" -> Emits(<<[op |-> "BRK"]>>)
      [] l.kind = "set" /\ IsReg(l.to) -> RegGets(l.to[2], l.a)
      [] l.kind = "op" /\ IsReg(l.to) -> RegGetsOperation(l.to[2], l.a, l.op, l.b)
      [] l.kind = "update" /\ IsReg(l.to) -> RegUpdate(l.to[2], l.op, l.b)
      [] l.kind = "set" /\ ~IsReg(l.to) -> VarGets(l.to, l.a, l.to \in known)
      [] l.kind = "op" /\ ~IsReg(l.to) ->
            VarGetsOperation(l.to, l.a, l.op, l.b, l.to \in known)
      [] l.kind = "update" /\ ~IsReg(l.to) -> VarUpdate(l.to, l.op, l.b)

-----------------------------------------------------------------------------
(* compile_condition: the difference of the operands goes to R5, a test of  *)
(* the flags makes it 1 or 0                                                *)

RegAndReg(a, b) == <<Invert(5, b), AddI(5, 1), Add(5, a, 5)>>
RegAndVar(a, v) == <<Ldr(5, v)>> \o Negate(5) \o <<Add(5, a, 5)>>
LessConst(k) == IF k = 0 THEN <<>> ELSE SetConst(6, k) \o Negate(6) \o <<Add(5, 5, 6)>>
RegAndConst(a, k) == Copy(5, a) \o LessConst(k)
VarAndReg(v, b) == <<Ldr(5, v)>> \o Copy(6, b) \o Negate(6) \o <<Add(5, 5, 6)>>
VarAndVar(v, w) == <<Ldr(5, v), Ldr(6, w)>> \o Negate(6) \o <<Add(5, 5, 6)>>
VarAndConst(v, k) == <<Ldr(5, v)>> \o LessConst(k)

\* Both operands are negated.
ConstAndReg(k, b) == Copy(5, b) \o Negate(5) \o LessConst(k)

ConstAndVar(k, v) ==
    <<Ldr(5, v)>> \o Negate(5) \o (IF k = 0 THEN <<>> ELSE SetConst(6, k) \o <<Add(5, 5, 6)>>)

\* A zero on the left leaves R5 as it is.
ConstAndConst(k, m) == (IF k = 0 THEN <<>> ELSE SetConst(5, k)) \o LessConst(m)

Difference(a, b) ==
    IF IsReg(a) THEN
        IF IsReg(b) THEN RegAndReg(a[2], b[2])
        ELSE IF IsName(b) THEN RegAndVar(a[2], b) ELSE RegAndConst(a[2], b[2])
    ELSE IF IsName(a) THEN
        IF IsReg(b) THEN VarAndReg(a, b[2])
        ELSE IF IsName(b) THEN VarAndVar(a, b) ELSE VarAndConst(a, b[2])
    ELSE IF IsReg(b) THEN ConstAndReg(a[2], b[2])
    ELSE IF IsName(b) THEN ConstAndVar(a[2], b) ELSE ConstAndConst(a[2], b[2])

FlagsOf(cmp) ==
    CASE cmp \in {"==", "!="} -> {"z"} [] cmp = "<" -> {"n"} [] cmp = "<=" -> {"n", "z"}
      [] cmp = ">=" -> {"z", "p"} [] cmp = ">" -> {"p"}

True == <<Clear(5), AddI(5, 1)>>
False == <<Clear(5)>>

\* The label of the branch is missing when a constant is compared with a
\* variable for ==.
Test(a, cmp, b, here, end) ==
    <<Br(FlagsOf(cmp), here)>>
    \o (IF cmp = "!=" THEN True ELSE False)
    \o <<Br(AllFlags, end)>>
    \o (IF IsImm(a) /\ ~IsImm(b) /\ ~IsReg(b) /\ cmp = "==" THEN <<>> ELSE <<Label(here)>>)
    \o (IF cmp = "!=" THEN False ELSE True)
    \o <<Label(end)>>

CompileCondition(a, cmp, b, here, end) == Difference(a, b) \o Test(a, cmp, b, here, end)
=============================================================================
