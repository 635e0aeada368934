------------------------------- MODULE MCLc3 -------------------------------
(* The programs that the runs of Lc3lang.tla compile, assemble and run.     *)
EXTENDS Lc3lang

x == Var("x")
y == Var("y")
z == Var("z")
R(n) == Reg(n)

Set(to, a) == <<[kind |-> "set", to |-> to, a |-> a]>>
Op(to, a, op, b) == <<[kind |-> "op", to |-> to, a |-> a, op |-> op, b |-> b]>>
Update(to, op, b) == <<[kind |-> "update", to |-> to, op |-> op, b |-> b]>>
While(a, cmp, b) == <<[kind |-> "while", a |-> a, cmp |-> cmp, b |-> b]>>
If(a, cmp, b) == <<[kind |-> "if", a |-> a, cmp |-> cmp, b |-> b]>>
Else == <<[kind |-> "else"]>>
End == <<[kind |-> "end"]>>
Yield == <<[kind |-> "YIELD"]>>
Brk == <<[kind |-> "BRK"]>>

\* x is 4, y and R1 are 6, R2 is -3, z is new.
Declarations ==
    Set(x, Imm(4)) \o Set(y, Imm(6)) \o Set(R(1), Imm(6)) \o Set(R(2), Imm(30))
    \o Update(R(2), "-", Imm(33))

Ops == {"+", "-"}
Comparisons == {"==", "!=", "<", "<=", ">", ">="}

-----------------------------------------------------------------------------
(* Every form of assignment the compiler translates as the language says.   *)
(* The others are named here, with what becomes of them.                    *)

IsVar(o) == o[1] = "var"

\* A register and a variable: the register is taken for a variable.
Mixed(l) == {l.a[1], l.b[1]} = {"reg", "var"}

\* An operand that the ADD with the no-break space leaves out: another register
\* with a constant, or a variable taken from a constant.
LeftOut(l) ==
    \/ IsReg(l.a) /\ IsImm(l.b) /\ l.a # l.to
    \/ IsImm(l.a) /\ IsReg(l.b) /\ l.b # l.to /\ l.op = "+"
    \/ IsImm(l.a) /\ IsVar(l.b) /\ l.op = "-"

\* A sum of constants whose second is replaced by the first.
FirstTwice(l) == IsImm(l.a) /\ IsImm(l.b) /\ l.b[2] \in 1..15 /\ l.a # l.b

Faithful(l) ==
    CASE l.kind = "set" -> TRUE
      [] l.kind = "op" ->
            /\ ~Mixed(l)
            /\ ~(IsImm(l.a) /\ IsImm(l.b) /\ l.op = "-")                 \* rejected
            /\ IsReg(l.to) => ~LeftOut(l)
            /\ IsVar(l.to) => ~FirstTwice(l)
            /\ IsVar(l.to) => ~(IsImm(l.a) /\ IsVar(l.b) /\ l.op = "-")  \* base R5
      [] l.kind = "update" ->
            \/ IsReg(l.to) /\ l.b # l.to                    \* R1 += R1: a variable R1
            \/ IsVar(l.to) /\ ~(IsVar(l.b) /\ l.b # l.to /\ BeginsWith(l.b, l.to))   \* x += xs doubles x

Targets == {R(1), R(3), x, z}
Sides == {R(1), R(2), x, y, Imm(0), Imm(7), Imm(31)}
Constants == {Imm(k) : k \in {0, 1, 15, 16, 29, 30, 45, 200}}

\* xs begins with x.
xs == Var("xs")
Prefixed == {<<"xs", "x">>}

Assignments ==
    {Set(t, a) : t \in Targets, a \in Sides \cup Constants}
    \cup {Op(t, a, op, b) : t \in Targets \ {z}, a \in Sides, op \in Ops, b \in Sides}
    \cup {Update(t, op, b) : t \in {R(1), x, xs}, op \in Ops, b \in Sides \cup Constants \cup {xs}}

OneAssignment == {Declarations \o s : s \in {t \in Assignments : Faithful(t[1])}}

-----------------------------------------------------------------------------
(* Every form of condition that decides as the language says.               *)

Decided(a, cmp, b) ==
    /\ ~(IsImm(a) /\ IsReg(b))                  \* both are negated
    /\ ~(IsImm(a) /\ IsVar(b) /\ cmp = "==")    \* the label is missing
    /\ ~(a = Imm(0) /\ IsImm(b))                \* what is left of R5 is compared

Branching(a, cmp, b) ==
    Declarations \o If(a, cmp, b) \o Set(R(3), Imm(1)) \o Else \o Set(R(3), Imm(2)) \o End

Compared == {R(1), R(2), x, y, Imm(0), Imm(4), Imm(6)}
OneCondition ==
    {Branching(t[1], t[2], t[3]) :
        t \in {c \in Compared \X Comparisons \X Compared : Decided(c[1], c[2], c[3])}}

\* A negative number is looked up as a variable that nobody sets: the decision
\* is right when zero would do as well.
ZeroWillDo(a, cmp, k) ==
    LET v == Meaning(Declarations)[a]
    IN  Compares(cmp, v, Wrap(-k)) = Compares(cmp, v, 0)

NegativeCondition ==
    {Branching(t[1], t[2], Neg(3)) :
        t \in {c \in {R(1), R(2), x, y} \X Comparisons : ZeroWillDo(c[1], c[2], 3)}}

-----------------------------------------------------------------------------
(* Operands at the limits of a word.  A comparison looks at the sign of the *)
(* difference, which is wrong when the difference takes more than a word.   *)

Edges == {0, 1, 32767, 32768, 65535}
Overflows(v, w) == Signed(v) - Signed(w) \notin -32768..32767

\* x and R1 are v, y and R2 are w.
EdgeOperands(v, w) ==
    Set(x, Imm(v)) \o Set(y, Imm(w)) \o Set(R(1), x) \o Set(R(2), y)

EdgeConditions ==
    {EdgeOperands(p[1], p[2]) \o If(sides[1], cmp, sides[2]) \o Set(R(3), Imm(1))
        \o Else \o Set(R(3), Imm(2)) \o End :
        sides \in {R(1), x} \X {R(2), y}, cmp \in Comparisons \ {"==", "!="},
        p \in {q \in Edges \X Edges : ~Overflows(q[1], q[2])}}
EdgeSums ==
    {EdgeOperands(p[1], p[2]) \o Op(to, x, op, y) \o If(x, cmp, y) \o Set(R(1), Imm(1)) \o End :
        to \in {R(3), z}, op \in Ops, cmp \in {"==", "!="}, p \in Edges \X Edges}

-----------------------------------------------------------------------------
(* Blocks                                                                   *)

\* A variable that first gets a constant inside a block has it from the start
\* of the program, and only from there: that is as good when the block runs,
\* and runs once or leaves the variable alone.
SetInside ==
    {Declarations \o If(y, "==", Imm(6)) \o Set(z, Imm(5)) \o End \o Op(R(3), z, "+", y),
     Declarations \o If(y, "<", x) \o Set(R(3), Imm(1)) \o Else \o Set(z, Imm(5))
        \o Update(z, "-", x) \o End,
     Declarations \o While(x, ">", Imm(1)) \o Set(z, Imm(5)) \o Update(x, "-", Imm(1))
        \o Update(R(3), "+", z) \o End}

\* samples 1, 5, 8 and 9 of "LC-3 Language Samples and Outputs", with fewer lines
Counted ==
    Set(R(1), Imm(0)) \o Set(R(4), Imm(2)) \o Set(x, Imm(2)) \o Set(y, Imm(2)) \o Set(z, Imm(0))
    \o While(x, "!=", Imm(0)) \o Op(R(2), R(2), "+", Imm(1)) \o Op(R(3), R(3), "-", Imm(2))
    \o If(y, ">=", Imm(1)) \o Op(R(1), R(1), "+", R(4)) \o Else \o Op(R(1), R(1), "-", Imm(5)) \o End
    \o Op(z, R(2), "+", R(3)) \o Op(x, x, "-", Imm(1)) \o Yield
    \o End \o Op(z, z, "-", y)

Capped(v) ==
    Set(x, Imm(v)) \o Set(y, Imm(5))
    \o If(x, "<", y) \o Op(x, x, "+", Imm(2))
    \o If(x, ">", y) \o Set(x, y) \o End
    \o Else \o Op(x, x, "-", Imm(1)) \o End

Nested ==
    Set(x, Imm(2)) \o Set(y, Imm(3)) \o Set(z, Imm(0))
    \o While(x, "!=", Imm(0)) \o Set(R(1), y)
    \o While(R(1), "!=", Imm(0)) \o Update(z, "+", Imm(1)) \o Update(R(1), "-", Imm(1)) \o End
    \o Update(x, "-", Imm(1)) \o End

\* A loop in an else branch, and no else where the condition is false.
InElse ==
    Set(x, Imm(5)) \o If(x, ">", Imm(9)) \o Set(R(1), Imm(1)) \o Else
    \o While(x, ">=", Imm(3)) \o Brk \o Update(x, "-", Imm(1))
    \o If(x, "==", Imm(9)) \o Update(R(1), "+", Imm(20)) \o End \o End
    \o Update(R(1), "+", x) \o End

\* Programs a tool refuses: an else or end too many, a block left open, a
\* difference of constants, a value of 17 bits, a branch too far.
Refused ==
    {Declarations \o Else,
     Declarations \o End,
     Declarations \o While(x, "<", y) \o Else \o End,
     Declarations \o If(x, "<", y),
     Declarations \o Op(R(1), Imm(3), "-", Imm(2)),
     Set(x, Imm(65536)),
     Declarations \o If(x, "<", y) \o Set(R(1), Imm(4000)) \o End}

WellBehaved ==
    OneAssignment \cup OneCondition \cup NegativeCondition \cup EdgeConditions \cup EdgeSums
    \cup Refused \cup SetInside
    \cup {Counted, Capped(2), Capped(4), Capped(7), Nested, InElse}

-----------------------------------------------------------------------------
(* Assembly that the compiler never writes: the PC-relative instructions,   *)
(* labels before and behind them, the bounds of the numbers.                *)

Orig == <<[op |-> ".ORIG", address |-> CodeStart]>>
PcRel(op, r, t) == <<[op |-> op, dr |-> r, target |-> t]>>
Data == <<[op |-> "AND", dr |-> 0, sr |-> 1, src |-> Imm(0)]>>
Halt == <<[op |-> "HALT"]>>
At(name) == <<Label(name)>>

HandWritten ==
    {Orig \o <<Br(AllFlags, 1)>> \o At(0) \o Data \o At(1)
        \o PcRel("LD", 3, <<"label", 0>>) \o PcRel("LD", 4, <<"label", 2>>) \o Halt \o At(2) \o Data,
     Orig \o At(0) \o PcRel("LD", 2, Imm(-1)) \o PcRel("LD", 5, Imm(255)) \o PcRel("LD", 6, Imm(-2))
        \o Halt,
     Orig \o <<[op |-> "ADD", dr |-> 1, sr |-> 2, src |-> Imm(15)],
               [op |-> "ADD", dr |-> 7, sr |-> 6, src |-> Imm(-16)],
               [op |-> "AND", dr |-> 5, sr |-> 5, src |-> Imm(-1)],
               Invert(3, 4)>> \o Halt,
     \* BRnp is dropped: the branch is never taken
     Orig \o <<AddI(1, 7), Br({"n", "p"}, 0), AddI(1, 7)>> \o At(0) \o Halt,
     \* the word behind the code, x4000, is a pointer to the heap
     Orig \o <<AddI(1, 7)>> \o PcRel("STI", 1, <<"label", 0>>) \o PcRel("LDI", 2, <<"label", 0>>)
        \o Halt \o At(0)}

NotAssembled ==
    {Orig \o PcRel("LD", 2, Imm(256)) \o Halt,
     Orig \o PcRel("ST", 2, <<"label", 9>>) \o Halt,
     Orig \o <<AddI(1, 16)>> \o Halt,
     Data \o Orig \o Halt}

Assembly == HandWritten \cup NotAssembled

\* A program runs to its HALT unless the compiler or the assembler refuses it,
\* and only the malformed ones are refused: none leaves its pages, and no block
\* sends one round for ever.
RunsToHalt ==
    <>(phase = IF source \in Refused \cup NotAssembled THEN "failed" ELSE "halted")

-----------------------------------------------------------------------------
(* Programs of the runs that end in a counterexample.                       *)

\* LC3_Language_Intro.pdf, section 2.2, lists R1 = R2 + 2.
OtherRegister == {Declarations \o Op(R(1), R(2), "+", Imm(2))}

\* A variable gets its address before another gets an initial value.
DeclaredLater == {Set(x, R(1)) \o Set(y, Imm(5)) \o Op(x, y, "+", Imm(1))}

NoPrograms == {}
=============================================================================
