--------------------------- MODULE PrivateSpaces ---------------------------
(***************************************************************************)
(* What the virtual memory promises the programs: each process has an      *)
(* address space and a program counter of its own.  What the running       *)
(* process does touches nothing of the others, and a process that is       *)
(* switched away finds everything as it left it when it runs again.        *)
(* Physical memory, frames and page tables do not exist at this level.     *)
(***************************************************************************)
EXTENDS Naturals

CONSTANTS
    Pids, Vpns, Words,
    ReservedVpn,            \* the page no process can use
    AllOnes,                \* the word a load from that page delivers
    Terminated,             \* no process
    NextPage(_),            \* the page that follows a page
    StartPage(_),           \* the program's image: page contents at the start
    StartVpn                \* the page execution starts in

Unmapped == [mapped |-> FALSE, read |-> FALSE, write |-> FALSE, data |-> 0]
Page == [mapped : {TRUE}, read : BOOLEAN, write : BOOLEAN, data : Words]
Empty == [v \in Vpns |-> Unmapped]

VARIABLES
    status,     \* "boot", "running", "halted", "exited", "wild"
    cur,        \* the running process
    live,       \* the processes started and not yet halted
    pc,         \* the page each process executes in
    space,      \* the pages of each process
    seen        \* what the last instruction delivered: a load the word of a page,
                \* a print the word it printed, the others nothing

vars == <<status, cur, live, pc, space, seen>>

Nothing == <<"nothing">>

Readable(v) == space[cur][v].read
Writable(v) == space[cur][v].write

Init ==
    /\ status = "boot"
    /\ cur \in Pids \cup {Terminated}
    /\ live = {}
    /\ pc = [p \in Pids |-> StartVpn]
    /\ space = [p \in Pids |-> Empty]
    /\ seen = Nothing

Start(p) ==
    /\ status = "boot"
    /\ p \notin live
    /\ live' = live \cup {p}
    /\ space' = [space EXCEPT ![p] = StartPage(p)]
    /\ UNCHANGED <<status, cur, pc, seen>>

Run(p) ==
    /\ status = "boot"
    /\ status' = "running"
    /\ cur' = p
    /\ UNCHANGED <<live, pc, space, seen>>

\* The running process can execute only what it can read.
Executing == status = "running" /\ cur \in live /\ Readable(pc[cur])

\* Every instruction moves the counter of the process it belongs to, and no
\* other: to the next word, unless it is a jump.
Advances == \E v \in {pc[cur], NextPage(pc[cur])} : pc' = [pc EXCEPT ![cur] = v]

Jump ==
    /\ Executing
    /\ \E v \in Vpns : pc' = [pc EXCEPT ![cur] = v]
    /\ seen' = Nothing
    /\ UNCHANGED <<status, cur, live, space>>

Load(v) ==
    /\ Executing
    /\ Advances
    /\ \/ v = ReservedVpn /\ seen' = <<"load", v, AllOnes>>
       \/ v # ReservedVpn /\ Readable(v) /\ seen' = <<"load", v, space[cur][v].data>>
    /\ UNCHANGED <<status, cur, live, space>>

Store(v, w) ==
    /\ Executing
    /\ Advances
    /\ Writable(v)
    /\ space' = [space EXCEPT ![cur][v].data = w]
    /\ seen' = Nothing
    /\ UNCHANGED <<status, cur, live>>

\* Printing is outside the promise: it may print anything, and does nothing else.
Show ==
    /\ Executing
    /\ Advances
    /\ \E w \in Words : seen' = <<"print", w>>
    /\ UNCHANGED <<status, cur, live, space>>

\* An instruction that delivers nothing and changes nothing but the counter: a
\* store that is dropped, a brk that is refused.
Pass ==
    /\ Executing
    /\ Advances
    /\ seen' = Nothing
    /\ UNCHANGED <<status, cur, live, space>>

Grow(v, page) ==
    /\ Executing
    /\ Advances
    /\ space[cur][v] = Unmapped
    /\ space' = [space EXCEPT ![cur][v] = page]
    /\ seen' = Nothing
    /\ UNCHANGED <<status, cur, live>>

Shrink(v) ==
    /\ Executing
    /\ Advances
    /\ space' = [space EXCEPT ![cur][v] = Unmapped]
    /\ seen' = Nothing
    /\ UNCHANGED <<status, cur, live>>

\* The counter that is kept is that of the next word.
Yield(q) ==
    /\ Executing
    /\ Advances
    /\ q \in live
    /\ cur' = q
    /\ seen' = Nothing
    /\ UNCHANGED <<status, live, space>>

\* A process that halts gives all its pages up.
Halt ==
    /\ Executing
    /\ live' = live \ {cur}
    /\ space' = [space EXCEPT ![cur] = Empty]
    /\ pc' = [pc EXCEPT ![cur] = StartVpn]
    /\ IF live' = {}
         THEN status' = "halted" /\ UNCHANGED cur
         ELSE cur' \in live' /\ UNCHANGED status
    /\ seen' = Nothing

\* The simulation is given up: a program file is missing, or the running
\* process touched a page it may not, or its counter is in no page of its own.
Stop ==
    /\ status' \in {"exited", "wild"}
    /\ seen' \in {seen, Nothing}
    /\ UNCHANGED <<cur, live, pc, space>>

Next ==
    \/ Jump \/ Pass \/ Show \/ Halt \/ Stop
    \/ \E p \in Pids : Start(p) \/ Run(p) \/ Yield(p)
    \/ \E v \in Vpns : Load(v) \/ Shrink(v)
    \/ \E v \in Vpns, w \in Words : Store(v, w)
    \/ \E v \in Vpns, page \in Page : Grow(v, page)

Spec == Init /\ [][Next]_vars
=============================================================================
