------------------------------ MODULE TreePipe ------------------------------
(***************************************************************************)
(* src/PA1/treePipe.c: a full binary tree of processes.  A node takes num1 *)
(* from its parent, gets num2 from its left subtree, has the program left  *)
(* or right combine the two, and passes the result through its right       *)
(* subtree back to its parent.                                             *)
(*                                                                         *)
(* A process is named by its path: the root is <<>>, and a node forks the  *)
(* children "left", "own" (the program that computes for it) and "right",  *)
(* in this order.  Every child has a pipe to it and a pipe from it.  What  *)
(* is kept of the file descriptors is who holds which end of which pipe:   *)
(* scanf waits for the end of the input, which comes when the last write   *)
(* end is closed.  Numbers are C ints and are read back from a pipe with   *)
(* at most ten characters.  A program may be missing: then execvp returns, *)
(* and the child goes on in the code of its parent, a stray copy of it.    *)
(***************************************************************************)
EXTENDS Integers, SequencesExt

CONSTANTS
    MaxDepth,       \* bound on the argument <max depth> that is tried
    Magnitudes,     \* the numbers a user may enter, with either sign
    Garbage,        \* what atoi may make of a buffer nobody has filled
    IntLimit,       \* an int goes from -IntLimit to IntLimit - 1: 2^31
    ReadLimit       \* the first power of ten whose negation has more
                    \* characters than a node reads: 10^9

ASSUME TreeAssumption ==
    /\ MaxDepth \in Nat
    /\ IntLimit \in Nat \ {0, 1} /\ ReadLimit \in Nat \ {0}
    /\ Magnitudes \subseteq 0 .. IntLimit - 1
    /\ Garbage \subseteq -IntLimit .. IntLimit - 1

Root == <<>>

\* The paths there is room for: whatever a stray copy does after the program
\* it could not start is to fork its right subtree.
Procs ==
    {p \in BoundedSeq({"left", "own", "right"}, MaxDepth + 1) :
        \A i \in 1..(Len(p) - 1) : p[i] = "own" => p[i + 1] = "right"}

Inputs == Magnitudes \cup {-m : m \in Magnitudes}

\* The result of the program a node runs: pl.c adds, pr.c multiplies, and an
\* int that overflows wraps around.
Wrap(n) == ((n + IntLimit) % (2 * IntLimit)) - IntLimit
Compute(lr, x, y) == Wrap(IF lr = 0 THEN x + y ELSE x * y)

\* read of ten characters and atoi: a number with eleven loses the last one.
Kept(x) == x > -ReadLimit
AsRead(x) == IF Kept(x) THEN x ELSE -((-x) \div 10)

Console == <<Root, "console">>
Closed == <<Root, "closed">>
PipeTo(c) == <<c, "to">>
PipeFrom(c) == <<c, "from">>
Pipes == {PipeTo(c) : c \in Procs \ {Root}} \cup {PipeFrom(c) : c \in Procs \ {Root}}
ReadEnd(pipe) == <<pipe, "read">>
WriteEnd(pipe) == <<pipe, "write">>
FourEnds(c) == {ReadEnd(PipeTo(c)), WriteEnd(PipeTo(c)),
                ReadEnd(PipeFrom(c)), WriteEnd(PipeFrom(c))}

VARIABLES
    maxDepth,   \* the argument <max depth>
    rootLr,     \* the argument <left - right> of the root
    missing,    \* the programs execvp does not find
    pc,         \* what each process does next
    stage,      \* the child a node is at: "left", "own" or "right"
    num1, num2, \* the operands of each process
    res,        \* target_result, then final_result
    stdin,      \* the pipe behind STDIN_FILENO, or the console
    stdout,     \* the pipe behind STDOUT_FILENO, or the console
    open,       \* the ends of pipes each process holds beside those two
    data,       \* the numbers written to each pipe and not read
    printed,    \* the final results the root printed
    failed,     \* a fork failed, or SIGPIPE ended a process: "root", "below" it
    strays      \* the children whose execvp failed

numbers == <<num1, num2, res>>
descriptors == <<stdin, stdout, open>>
arguments == <<maxDepth, rootLr, missing>>
programs == <<arguments, strays>>
vars == <<pc, stage, numbers, descriptors, data, printed, failed, programs>>

Child(p) == Append(p, stage[p])

\* A stray copy has the arguments of the node it was forked by.
Origin(p) == SubSeq(p, 1, CHOOSE n \in 0..Len(p) :
    /\ SubSeq(p, 1, n) \notin strays
    /\ \A m \in (n + 1)..Len(p) : SubSeq(p, 1, m) \in strays)
Depth(p) == Cardinality({i \in DOMAIN p : SubSeq(p, 1, i) \notin strays})
IsLeaf(p) == Depth(p) = maxDepth
LR(p) == LET o == Origin(p)
         IN  IF o = Root THEN rootLr ELSE IF Last(o) = "left" THEN 0 ELSE 1

IsProgram(p) == p # Root /\ Last(p) = "own" /\ p \notin strays
ProgramOf(c) == IF Last(c) # "own" THEN "treePipe"
                ELSE IF LR(Front(c)) = 0 THEN "left" ELSE "right"

\* At the stage in which it was forked a stray copy has neither its parent's
\* pipes nor a child.
Lost(p) == p \in strays /\ stage[p] = Last(p)

At(p, label) == pc[p] = label
Goto(p, label) == pc' = [pc EXCEPT ![p] = label]

\* Nobody can write to the pipe any more: whoever reads it gets to its end.
NoWriter(pipe) ==
    \A q \in Procs : stdout[q] # pipe /\ WriteEnd(pipe) \notin open[q]

\* Nobody can read from the pipe any more: a write to it raises SIGPIPE.
NoReader(pipe) ==
    \A q \in Procs : stdin[q] # pipe /\ ReadEnd(pipe) \notin open[q]

\* What the kernel closes for a process that ends.
CloseAll(p) ==
    /\ stdin' = [stdin EXCEPT ![p] = Closed]
    /\ stdout' = [stdout EXCEPT ![p] = Closed]
    /\ open' = [open EXCEPT ![p] = {}]
Place(p) == IF p = Root THEN "root" ELSE "below"
Ended(p) == IF p = Root THEN "gone" ELSE "zombie"

\* The number read at a stage is num2, target_result or final_result.
Result(p, x) ==
    IF stage[p] = "left"
      THEN num2' = [num2 EXCEPT ![p] = x] /\ UNCHANGED <<num1, res>>
      ELSE res' = [res EXCEPT ![p] = x] /\ UNCHANGED <<num1, num2>>

LastStage(p) == stage[p] = "right" \/ (stage[p] = "own" /\ IsLeaf(p))
Following(p) == IF LastStage(p) THEN "deliver" ELSE "fork"
NextStage(p) ==
    stage' = [stage EXCEPT ![p] = IF LastStage(p) THEN @
                                  ELSE IF @ = "left" THEN "own" ELSE "right"]

Init ==
    /\ maxDepth \in 0..MaxDepth
    /\ rootLr \in {0, 1}
    /\ missing \in SUBSET {"treePipe", "left", "right"}
    /\ missing # {} => 2 * maxDepth <= MaxDepth
    /\ pc = [p \in Procs |-> IF p = Root THEN "input" ELSE "unborn"]
    /\ stage = [p \in Procs |-> "left"]
    /\ num1 = [p \in Procs |-> 0]
    /\ num2 = [p \in Procs |-> 0]
    /\ res = [p \in Procs |-> 0]
    /\ stdin = [p \in Procs |-> IF p = Root THEN Console ELSE Closed]
    /\ stdout = [p \in Procs |-> IF p = Root THEN Console ELSE Closed]
    /\ open = [p \in Procs |-> {}]
    /\ data = [pipe \in Pipes |-> <<>>]
    /\ printed = <<>>
    /\ failed = {}
    /\ strays = {}

-----------------------------------------------------------------------------
(* Plausible slips: wrong versions of actions below.                        *)

\* The child keeps the ends of the pipes it was forked with.
SlipKeepEnds(c) ==
    /\ At(c, "close")
    /\ Goto(c, "input")
    /\ UNCHANGED <<stage, numbers, descriptors, data, printed, failed, programs>>

\* The right subtree is handed num2 in place of the program's result.
SlipSendNum2(p) ==
    /\ At(p, "send")
    /\ data' = [data EXCEPT ![PipeTo(Child(p))] =
           IF stage[p] = "own" THEN <<num1[p], num2[p]>>
           ELSE IF stage[p] = "left" THEN <<num1[p]>> ELSE <<num2[p]>>]
    /\ Goto(p, "closeTo")
    /\ UNCHANGED <<stage, numbers, descriptors, printed, failed, programs>>

\* The read end is not closed after the read.
SlipKeepReadEnd(p) ==
    LET from == PipeFrom(Child(p))
    IN  /\ At(p, "receive")
        /\ data[from] # <<>> \/ NoWriter(from)
        /\ Result(p, IF data[from] # <<>> THEN AsRead(Head(data[from])) ELSE 0)
        /\ data' = [data EXCEPT ![from] = <<>>]
        /\ Goto(p, "wait")
        /\ UNCHANGED <<stage, descriptors, printed, failed, programs>>

\* No wait(NULL): the node goes on while its child may still run.
SlipNoWait(p) ==
    /\ At(p, "wait")
    /\ NextStage(p)
    /\ Goto(p, Following(p))
    /\ UNCHANGED <<numbers, descriptors, data, printed, failed, programs>>

-----------------------------------------------------------------------------
(* A node: main                                                             *)

\* scanf of num1: from the user, or from the pipe once it is complete.  A leaf
\* has no left subtree and 1 for num2.
ReadNum1(p) ==
    /\ At(p, "input")
    /\ \/ /\ p = Root
          /\ \E x \in Inputs : num1' = [num1 EXCEPT ![p] = x]
          /\ UNCHANGED data
       \/ /\ p # Root
          /\ data[stdin[p]] # <<>>
          /\ NoWriter(stdin[p])
          /\ num1' = [num1 EXCEPT ![p] = Head(data[stdin[p]])]
          /\ data' = [data EXCEPT ![stdin[p]] = <<>>]
    /\ stage' = [stage EXCEPT ![p] = IF IsLeaf(p) THEN "own" ELSE "left"]
    /\ num2' = [num2 EXCEPT ![p] = IF IsLeaf(p) THEN 1 ELSE num2[p]]
    /\ Goto(p, "fork")
    /\ UNCHANGED <<res, descriptors, printed, failed, programs>>

\* pipe, pipe, fork: the child is a copy with every descriptor of the parent.
Fork(p) ==
    /\ At(p, "fork")
    /\ LET c == Child(p)
           all == open[p] \cup FourEnds(c)
       IN  /\ pc' = [pc EXCEPT ![p] = "closeTheirs", ![c] = "redirect"]
           /\ open' = [open EXCEPT ![p] = all, ![c] = all]
           /\ stage' = [stage EXCEPT ![c] = stage[p]]
           /\ num1' = [num1 EXCEPT ![c] = num1[p]]
           /\ num2' = [num2 EXCEPT ![c] = num2[p]]
           /\ res' = [res EXCEPT ![c] = res[p]]
           /\ stdin' = [stdin EXCEPT ![c] = stdin[p]]
           /\ stdout' = [stdout EXCEPT ![c] = stdout[p]]
    /\ UNCHANGED <<data, printed, failed, programs>>

\* fork returns -1: the node exits and writes nothing to its parent.
ForkFails(p) ==
    /\ At(p, "fork")
    /\ failed' = failed \cup {Place(p)}
    /\ Goto(p, "exit")
    /\ UNCHANGED <<stage, numbers, descriptors, data, printed, programs>>

\* The child: dup2, dup2, four times close, execvp.
Redirect(c) ==
    /\ At(c, "redirect")
    /\ stdin' = [stdin EXCEPT ![c] = PipeTo(c)]
    /\ stdout' = [stdout EXCEPT ![c] = PipeFrom(c)]
    /\ Goto(c, "close")
    /\ UNCHANGED <<stage, numbers, open, data, printed, failed, programs>>

CloseAndExec(c) ==
    /\ At(c, "close")
    /\ open' = [open EXCEPT ![c] = @ \ FourEnds(c)]
    /\ IF ProgramOf(c) \in missing
         THEN Goto(c, "closeTheirs") /\ strays' = strays \cup {c}
         ELSE Goto(c, "input") /\ UNCHANGED strays
    /\ UNCHANGED <<stage, numbers, stdin, stdout, data, printed, failed, arguments>>

\* A stray copy goes on with descriptors it has closed: its dprintf and read
\* fail, atoi makes some number of a buffer nobody has filled, and wait returns at
\* once.
GoOnLost(c) ==
    /\ At(c, "closeTheirs")
    /\ Lost(c)
    /\ \E x \in Garbage : Result(c, x)
    /\ NextStage(c)
    /\ Goto(c, Following(c))
    /\ UNCHANGED <<descriptors, data, printed, failed, programs>>

\* The parent closes the ends that are the child's.
CloseTheirs(p) ==
    /\ At(p, "closeTheirs")
    /\ ~Lost(p)
    /\ open' = [open EXCEPT ![p] =
           @ \ {ReadEnd(PipeTo(Child(p))), WriteEnd(PipeFrom(Child(p)))}]
    /\ Goto(p, "send")
    /\ UNCHANGED <<stage, numbers, stdin, stdout, data, printed, failed, programs>>

\* dprintf: num1 to the left, both operands to the program, its result to the
\* right.
Send(p) ==
    /\ At(p, "send")
    /\ ~NoReader(PipeTo(Child(p)))
    /\ data' = [data EXCEPT ![PipeTo(Child(p))] =
           IF stage[p] = "own" THEN <<num1[p], num2[p]>>
           ELSE IF stage[p] = "left" THEN <<num1[p]>> ELSE <<res[p]>>]
    /\ Goto(p, "closeTo")
    /\ UNCHANGED <<stage, numbers, descriptors, printed, failed, programs>>

\* A stray copy may have ended before its parent writes.  Then SIGPIPE ends the
\* parent, which has not waited: what is left of the child goes to init.
BrokenPipe(p) ==
    /\ At(p, "send")
    /\ NoReader(PipeTo(Child(p)))
    /\ pc' = [pc EXCEPT ![p] = Ended(p),
                        ![Child(p)] = IF @ = "zombie" THEN "orphan" ELSE @]
    /\ CloseAll(p)
    /\ failed' = failed \cup {Place(p)}
    /\ UNCHANGED <<stage, numbers, data, printed, programs>>

CloseTo(p) ==
    /\ At(p, "closeTo")
    /\ open' = [open EXCEPT ![p] = @ \ {WriteEnd(PipeTo(Child(p)))}]
    /\ Goto(p, "receive")
    /\ UNCHANGED <<stage, numbers, stdin, stdout, data, printed, failed, programs>>

\* read, atoi, close: what the child wrote, or 0 if it is gone without a word.
Receive(p) ==
    LET from == PipeFrom(Child(p))
    IN  /\ At(p, "receive")
        /\ data[from] # <<>> \/ NoWriter(from)
        /\ Result(p, IF data[from] # <<>> THEN AsRead(Head(data[from])) ELSE 0)
        /\ data' = [data EXCEPT ![from] = <<>>]
        /\ open' = [open EXCEPT ![p] = @ \ {ReadEnd(from)}]
        /\ Goto(p, "wait")
        /\ UNCHANGED <<stage, stdin, stdout, printed, failed, programs>>

\* wait(NULL) for the only child there is, and on to the next stage.
Wait(p) ==
    /\ At(p, "wait")
    /\ pc[Child(p)] = "zombie"
    /\ pc' = [pc EXCEPT ![p] = Following(p), ![Child(p)] = "gone"]
    /\ NextStage(p)
    /\ UNCHANGED <<numbers, descriptors, data, printed, failed, programs>>

\* A node of depth 0 prints the final result, the others write it to STDOUT.
Deliver(p) ==
    /\ At(p, "deliver")
    /\ IF Depth(p) = 0 /\ ~IsProgram(p)
         THEN printed' = Append(printed, res[p]) /\ UNCHANGED data
         ELSE data' = [data EXCEPT ![stdout[p]] = Append(@, res[p])] /\ UNCHANGED printed
    /\ Goto(p, "exit")
    /\ UNCHANGED <<stage, numbers, descriptors, failed, programs>>

Exit(p) ==
    /\ At(p, "exit")
    /\ CloseAll(p)
    /\ Goto(p, Ended(p))
    /\ UNCHANGED <<stage, numbers, data, printed, failed, programs>>

-----------------------------------------------------------------------------
(* left and right: pl.c and pr.c                                            *)

\* Two scanf's, the second of which ends with the input, and the computation;
\* the printf reaches the pipe when the program ends (Deliver).
RunProgram(w) ==
    /\ At(w, "input")
    /\ Len(data[stdin[w]]) = 2
    /\ NoWriter(stdin[w])
    /\ res' = [res EXCEPT ![w] =
           Compute(LR(Front(w)), data[stdin[w]][1], data[stdin[w]][2])]
    /\ data' = [data EXCEPT ![stdin[w]] = <<>>]
    /\ Goto(w, "deliver")
    /\ UNCHANGED <<stage, num1, num2, descriptors, printed, failed, programs>>

-----------------------------------------------------------------------------

\* init waits for what it has adopted.
InitReaps(p) ==
    /\ At(p, "orphan")
    /\ Goto(p, "gone")
    /\ UNCHANGED <<stage, numbers, descriptors, data, printed, failed, programs>>

NodeStep(p) ==
    \/ ReadNum1(p) \/ Fork(p) \/ CloseTheirs(p) \/ Send(p) \/ BrokenPipe(p) \/ CloseTo(p)
    \/ Receive(p) \/ Wait(p) \/ GoOnLost(p)

Step(p) ==
    \/ ~IsProgram(p) /\ NodeStep(p)
    \/ IsProgram(p) /\ RunProgram(p)
    \/ Redirect(p) \/ CloseAndExec(p) \/ Deliver(p) \/ Exit(p) \/ InitReaps(p)

Done == (\A p \in Procs : pc[p] \in {"unborn", "gone"}) /\ UNCHANGED vars

Next == (\E p \in Procs : Step(p)) \/ (\E p \in Procs : ForkFails(p)) \/ Done

Spec == Init /\ [][Next]_vars

\* The kernel runs every process that can run.
FairSpec == Spec /\ \A p \in Procs : WF_vars(Step(p))

-----------------------------------------------------------------------------

Labels == {"unborn", "input", "fork", "redirect", "close", "closeTheirs", "send",
           "closeTo", "receive", "wait", "deliver", "exit", "zombie", "orphan", "gone"}

\* Types, and the ends a process may hold: those of its own two pipes, until it
\* closes them, and those of the child it is at.
TypeOK ==
    /\ pc \in [Procs -> Labels]
    /\ stage \in [Procs -> {"left", "own", "right"}]
    /\ \A n \in {num1, num2, res} : n \in [Procs -> -IntLimit .. IntLimit - 1]
    /\ stdin \in [Procs -> Pipes \cup {Console, Closed}]
    /\ stdout \in [Procs -> Pipes \cup {Console, Closed}]
    /\ \A p \in Procs :
           open[p] \subseteq FourEnds(p) \cup IF IsProgram(p) THEN {}
                                             ELSE FourEnds(Child(p))
    /\ \A pipe \in Pipes : Len(data[pipe]) <= 2
    /\ failed \subseteq {"root", "below"}
    /\ strays \subseteq Procs \ {Root}

Running(p) == pc[p] \notin {"unborn", "zombie", "orphan", "gone"}
Below(p, q) == IsPrefix(p, q)

\* What a tree of height h computes, by the definition of the assignment: x goes
\* down to the left, what comes back is the second operand, and the result goes
\* through the right subtree; and the numbers that are read back on the way.
InOrder[h \in Nat] == [lr \in {0, 1} |-> [x \in Int |->
    IF h = 0
      THEN LET own == Compute(lr, x, 1)
           IN  [result |-> own, read |-> {own}]
      ELSE LET left == InOrder[h - 1][0][x]
               own == Compute(lr, x, left.result)
               right == InOrder[h - 1][1][own]
           IN  [result |-> right.result,
                read |-> left.read \cup right.read
                           \cup {left.result, own, right.result}]]]

\* The number the root prints is the one of the in-order evaluation, however
\* the processes are scheduled, as long as no fork and no execvp fails and the
\* numbers that are read back have at most ten characters; sums and products that
\* overflow do no harm on the way.
InOrderResult ==
    LET tree == InOrder[maxDepth][rootLr][num1[Root]]
    IN  failed = {} /\ missing = {} /\ (\A n \in tree.read : Kept(n)) =>
          \A i \in DOMAIN printed : i = 1 /\ printed[i] = tree.result

\* Assignment, section 1.1: while the program of a node runs, the processes of
\* its left subtree have terminated and those of its right subtree have not
\* been created.
InOrderTraversal ==
    \A p \in {Front(w) : w \in {w \in Procs : IsProgram(w) /\ Running(w)}} :
        \A q \in Procs :
            /\ Below(Append(p, "left"), q) => pc[q] \in {"unborn", "orphan", "gone"}
            /\ Below(Append(p, "right"), q) => pc[q] = "unborn"

\* A process outlives everything below it: when it has ended nothing is left
\* running or unreaped, also when a fork failed on the way.  The one exception is
\* a stray copy that had ended before its parent wrote to it, which SIGPIPE ended
\* in turn.
ParentsOutliveChildren ==
    \A p, q \in Procs :
        pc[p] \in {"zombie", "orphan", "gone"} /\ p # q /\ Below(p, q) =>
            \/ pc[q] \in {"unborn", "gone"}
            \/ pc[q] = "orphan" /\ q \in strays

\* A node that waits for its child has left nothing undone that the child waits
\* for: the numbers are in the pipe, and nobody keeps its write end open; nor is
\* there anyone left to write once the child has ended.
NobodyReadsForEver ==
    \A p \in Procs :
        LET c == Child(p)
        IN  pc[p] \in {"receive", "wait"} =>
              /\ At(c, "input") => /\ Len(data[PipeTo(c)]) = IF IsProgram(c) THEN 2 ELSE 1
                                  /\ NoWriter(PipeTo(c))
              /\ At(c, "zombie") => NoWriter(PipeFrom(c))

\* No process waits for ever for a number or for the end of its input: the whole
\* tree comes down again, and the root has printed a result unless its own fork
\* failed or SIGPIPE ended it.
TreeFinishes ==
    <>(/\ \A p \in Procs : pc[p] \in {"unborn", "gone"}
       /\ "root" \in failed \/ printed # <<>>)
=============================================================================
