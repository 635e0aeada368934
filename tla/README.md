# Models and proofs for the operating-systems assignments

TLA+ models of the programs in `src/`: the basketball court of PA3 (threads,
semaphores, a barrier), the machine of PA4 and its paging operating system
(instructions, traps, frames, page tables, processes), the LC-3 Language toolchain
that comes with PA4 (compiler, assembler) and the process tree of PA1 (fork, pipes,
wait).
TLC checks them on small instances; TLAPS proves for every size the safety
invariants of the court, of the operating system and of the process tree, and that
the court and the operating system keep what they promise.

## 1. Inventory

### Court (PA3, `src/PA3/Court.h`)

State: `neededPlayers`, `hasReferee`, `capacity`; `inside`, `matchGoing`,
`refereeId` under `mutex`; the semaphores `court_available` (slots) and
`match_end` (the referee's signal); a barrier for `capacity` threads.
Operations: the constructor, `enter()`, `play()` (supplied by the caller),
`leave()`. Any number of threads call them; the two drivers create theirs at once,
let `play()` sleep for two seconds, and in `court_test2.cpp` let them come second by
second. The only communication is the shared state. Hard: `leave()` acts on a copy of `matchGoing`; slots come back in three
places; `match_end` has two kinds of waiters; the last player resets the court
in two critical sections and then posts slots one by one.
Correct means: slots are never lost or doubled; at most `capacity` people inside;
no one comes in or goes away during a match; the referee speaks first; everybody
gets home.

### Machine and operating system (PA4, `vm.c`, `main.c`)

State: one array `mem` with `Cur_Proc_ID`, `Proc_Count`, `OS_STATUS`, a bitmap of 32
frames, PCBs of three words, a page table per process, the frames; eight registers,
`RPC`, `RCND`, `PTBR`. Operations: `initOS`, `createProc` (with `ld_img`), `loadProc`,
`allocMem`, `freeMem`; the fetch, decode and execution of each instruction; the
traps, of which `brk`, `yield` and `halt` are the operating system; the translation in
`mr` and `mw`. Programs interact with the system through traps and through
the pages they touch, and with each other through the registers, which no yield saves.
Hard: any order of system calls of several processes; creations that fail half-way;
frames that are reused; tables and bookkeeping that are words of the memory
programs write to.
Correct means: no frame has two owners; the bitmap tells the truth; a process
that is gone holds nothing; each process finds its address space as it left it, and goes on
at the instruction after its yield;
nothing but the calls of the system touches its words.

### LC-3 toolchain (PA4, `lc3lang.py`, `lc3c.py`, `lc3a.py`, and the processor in `vm.c`)

`lc3c.py` keeps `var_addresses`, `heap_init`, `unique_label_counter` and a stack
of blocks, and turns lines into assembly text and a heap file; `lc3a.py` keeps a
table of labels and turns that text into words in two passes; the machine runs them.
They interact through files only. Hard: about a hundred templates share two
scratch registers; constants do not fit the instructions; labels of nested
blocks; the encodings must agree between two programs in two languages.
Correct means: what the program leaves in its registers and variables is what
its source says.

### TreePipe (PA1, `treePipe.c`, `pl.c`, `pr.c`)

State: processes, each with its two numbers and its descriptors; the pipes.
Operations: reading the input, `pipe`, `fork`, `dup2`, `close`, `execvp`,
`dprintf`, `read`, `wait`. Hard: `scanf` returns only at the end of the input, so
a write end that was inherited and not closed stops the whole tree; failing
forks; a child whose `execvp` failed and who goes on in its parent's code, or has ended
before its parent writes to it; numbers too long for the buffer; orphans. Correct means: the result is that of the in-order evaluation, the
traversal is in-order, nobody waits for ever, nobody is left behind.

### Not modelled

`vm_dbg.c` prints memory and changes nothing. Build files and the assignment texts hold
no logic; properties quote the texts. Of the recorded output, `samples/` and the
memory and process tests of `tests/` are expectations in `MCMachine`. The files of
`tests/` for `mr` and `mw` call these functions from outside of `run()`, which no action
of the model does; one of them, `mw-mr-result.txt`, words its message as "Cannot write
to a read-only page.", and `vm.c:439` another way.

The hazards these parts are exposed to, each at its line and with the properties
that watch it, are listed in `PROJECT.json`.

## 2. The modules

| Module | What it is | Code |
|---|---|---|
| `Court` | the court, one action for each step between two synchronisation points | `Court.h:26-150` |
| `CourtPromise` | what a court promises: gather, play, leave, in this order | - |
| `CourtTimed` | `Court` with the clock and the joins of the two drivers | `court_test.cpp:10-43`, `court_test2.cpp:10-34` |
| `MCCourt` | symmetry of the threads | - |
| `CourtProofs` | inductive invariant and theorems of `Court` | - |
| `CourtTimedProofs` | proofs about the drivers: full matches, the refinement of `CourtPromise`, the lines printed | - |
| `Vm` | the operating system | `vm.c:117-448` |
| `PrivateSpaces` | what it promises: an address space for each process | - |
| `VmLayout` | the addresses in `mem`, and that its regions are apart | `vm.c:29-42, 152-176, 417` |
| `VmProofs` | inductive invariant and theorems of `Vm`; proof that it implements `PrivateSpaces` | - |
| `MCVm` | program files for `Vm` | - |
| `Cpu` | the fields of an instruction word | `vm.c:10-23, 55-77, 107-108` |
| `Machine` | `mem`, registers, every instruction and trap, and the operating system again, on words | `vm.c`, `main.c` |
| `MachineVm` | `Machine` read as `Vm` | - |
| `MachineProofs` | inductive invariant and types of `Machine`, on words and bits | - |
| `MachineVmProofs` | proof that `Machine` implements `Vm` | - |
| `MCMachine` | the command lines that are run, and what the samples and tests recorded | `programs/*.c` |
| `TreePipe` | the process tree | `treePipe.c:31-232`, `pl.c`, `pr.c` |
| `TreePipeProofs` | proofs about the processes, descriptors and pipes of `TreePipe` | - |
| `TreePipeResult` | proof that its result is that of the in-order evaluation | - |
| `Assembler` | both passes and every encoding | `lc3a.py:50-345` |
| `CodeGen` | every template of the compiler | `lc3c.py:35-3249` |
| `Lc3lang` | the three tools one after the other, and the language itself | `lc3c.py:3251-3452`, `lc3a.py:303-363` |
| `MCLc3` | the programs that are compiled | - |

`CourtTimed` extends `Court` and refines `CourtPromise`; `Vm` refines
`PrivateSpaces`; `VmLayout` extends `Vm`; `Machine` extends `Cpu` and refines `Vm`
(`MachineVm`), so that `Machine`, `Vm` and `PrivateSpaces` are three levels of the same
program; `Lc3lang` composes `CodeGen` (which extends `Assembler`) with an instance of
`Machine`, the same one that runs the samples. Definitions named `Slip...` are wrong versions of
actions, one plausible mistake each. They are not part of any specification;
each of them violates the property it is paired with, which shows that the
property can fail.

### Court

A critical section of the mutex is one action; every `sem_wait`, `sem_post` and
barrier call is one of its own, and so is every iteration of the two posting
loops. `pc[t]` says where a thread is: `court` (before `sem_wait`), `check`,
`giveBack`, `waitEnd` in `enter()`; `play`; `leave` to `open` in `leave()`. The
copy `playing` of `matchGoing` is the choice between `barrier` and `noMatch`.
`console` counts the lines printed, one counter for each of the five texts. The
semaphore `matchStart` is never used by the code and is left out. The constructor
rejects wrong arguments, so `Init` filters them through `ValidArgs`.

Merged steps: the `printf` before the section that decrements `inside` in
`noMatch` goes with that section, and the one after the wait for the referee goes
with the wait. No thread reads what it prints.

`CourtTimed` adds a clock. `asleep[t]` are the seconds a thread still sleeps: two in
`play()` and, in `court_test2.cpp`, as many as its number before it comes
(`Delay`). `Second` lets time pass when nobody who is awake can take a step, because a
sleep is longer than all that the others do. Threads whose sleeps end in the same
second go on in any order (`TimedSpec`).

### Paging operating system

The regions of `mem` are separate variables; `VmLayout` computes their addresses
and proves them disjoint. A frame holds one word, for the 2048 it has: every
access names a frame and carries its offset along. A page table base is named by
its process, a program counter by the page it points into. The stale bits an
entry keeps after `freeMem` are dropped, because nothing reads them before
`allocMem` writes them anew. Registers are not saved by `yield` in the code; they
are not in the model either. The fetch, the load and the store go through
`CanRead` and `CanWrite`; page 0 is the reserved page, whose access prints a
message and goes on with 0xFFFF. A fetch from it is a trap beyond the table of ten
functions; the model stops there (`wild`). `exit(1)` stops the machine with every
process in it (`exited`).

Programs do anything: `Instruction` has each instruction that addresses memory and
each trap that changes the state of the system, with arguments from small sets.
An instruction in the last word of a page leaves a program counter in the next one
(`Advanced`, `EdgeVpns`), also one that a yield saves.

`seen` is what the last instruction delivered: a load its page and the word of the frame
behind it (0xFFFF for page 0), a print the word it printed, any other instruction
nothing. `tputs` takes the pointer for a physical one: from a user frame it prints the
word there, from the frames of the operating system, whose words `Vm` does not
have, any word.

`PrivateSpaces` has the same instructions without frames and tables. Its `Load` delivers
the word of the page in the space of the process that runs, and no other; every
instruction but a jump moves that process's counter to this page or the next
(`Advances`), a yield too, and no other process's. Printing is outside the promise: `Show`
may print anything, and changes nothing but the counter. A print and a load are
told apart in `seen`, so that a load of a foreign word is no step of `PrivateSpaces`.

### Machine

`Machine` has the array itself: the words 0 to 4, PCBs from 12 on, tables from 4096
on, frames of 2048 words; `mem` is a function on the words that were written.
An instruction is an action, and so is every trap, with what `mr` and `mw`
print on the way. Console input is any of a few characters or numbers, or none.
`console` has what was printed as kinds of line with their numbers; their wording
is left out.

`MachineVm` reads a state of `Machine` as one of `Vm`: bits of words 3 and 4 as the
free frames, entries as records, program counters as pages. A frame of `Vm`
has one word where the machine has 2048; the refinement is checked for a bit at an
offset that `view` fixes at the start: the run looks at two of them in each command
line, the proof at any. `shown` is its `seen`: the page and the bit of a load from the
words looked at, the bit of the last of them in a printed string, and nothing for every
other instruction. `ImplementsVm` says that every step of the machine is a step of
`Vm` or changes nothing there. What `Vm` says of tables, frames and processes it says
through this of the words.

`EveryProgramEnds` names the way each command line ends (`Endings`): illegal programs by
a fault, those that do nothing illegal by the `thalt` of the last process. Then every
process there was memory for has been created, all PCBs are marked as terminated, and
all frames are free: neither a yield nor a halt has lost or forgotten one.

### LC-3 toolchain

A line of source and a line of assembly are records; splitting text into them
(regular expressions, blanks, comments) is not modelled. Everything after is:
which pattern a line matches, in order, what each template emits, when a variable
gets its address, which label a block takes, the bits of every word, and what the
processor does with the word. `Meaning` in `Lc3lang` is an interpreter of the
language written from `LC3_Language_Intro.pdf`; `MeansTheSame` compares it with
what the machine has at the HALT, in its registers and in the frame of its heap.

### TreePipe

A process is named by its path from the root. `open`, `stdin` and `stdout` say
which ends of which pipes it holds, so that the end of an input is a fact
about all processes (`NoWriter`), and so is a pipe nobody reads any more (`NoReader`).
`read` takes what is there; `scanf` waits for the end. `fork` may fail at any node. A
program may be missing for the whole run (`missing`); the child then goes on as a copy
of its parent (`strays`), with descriptors it has closed: `GoOnLost` is the rest of the
stage it was forked in, where its writes and reads fail and `atoi` makes some number
(`Garbage`) of a buffer nobody
has filled. An int wraps (`Wrap`: undefined in C, and what the build does), and
`read` keeps ten characters of a number (`AsRead`). `pipe` and `dup2` do not fail.

A stray copy is as fast as its parent and may have ended before the parent's `dprintf`
(`treePipe.c:93`, `135`, `184`). The parent has closed its own read end by then, so the
write has no reader and SIGPIPE ends the parent (`BrokenPipe`), before its `read` and
its `wait`. What is left of the child has no parent (`orphan`) until init waits for it
(`InitReaps`); the parent's own parent finds the end of the pipe, takes 0 for the number
and goes on. `failed` notes where a fork failed or SIGPIPE ended a process: at the
`root`, or `below` it. `ParentsOutliveChildren` therefore excepts a stray that had ended,
and no other process. `TreeFinishes` lets the root end without a result only if its own
fork failed or SIGPIPE ended it: what fails below costs the right number and not the
answer.

### Comparison with the programs

The models were run side by side with builds of the code, beyond what TLC checks:
the code words, heap words, registers and variables of all 1,088 programs in LC-3
Language of the run `lc3`, through `lc3c.py`, `lc3a.py` and `vm`; output, registers
and memory of the 25 command lines of `machine`; the number of results of
`treePipe` with missing programs and with numbers of eleven characters. They agree.
`court_test2 3 2 1` was run 300 times and hung 9 times, which is the
behaviour of `court_race`.

## 3. Runs

| Run | Instance | States | Shows |
|---|---|---|---|
| `court` | 6 threads, 1 to 3 players, with and without referee, symmetric | 7,923 | slots, counters, signals and resets stay consistent through every interleaving |
| `court_timed` | 5 threads, same courts, both drivers | 37,612 | with the drivers' timing: the promise is kept, everybody leaves, the lines are counted |
| `court_race` | `court_test2`, 3 threads, up to 2 players | - | counterexample: a player leaves during a match |
| `court_wait` | `court_test2`, 4 threads, up to 2 players | - | counterexample: who waits for the end of a match is never woken |
| `vm_small` | 2 processes, 4 user frames, 4 pages, 2 words | 51,272 | bitmap, exclusive frames, switches; a load delivers what its process stored, a switch loses neither a word nor the counter |
| `vm_boot` | the real sizes, 0 to 8 programs | 2,728 | boot, images, a creation that fails, the round robin |
| `vm_memory` | the real sizes, `brk` of a page | - | counterexample: the last word of frame 31 does not exist |
| `machine` | the real sizes, 25 command lines | 13,208 | every instruction, trap and fault on words; the recorded samples; the words are the tables of `Vm`; a run that ends by `thalt` has terminated every process and freed every frame |
| `treepipe` | depth 0 to 2, either program at the root, missing programs, the number 1001 with either sign | 100,510 | in-order result and traversal, nobody reads from a pipe that stays silent or open, the tree comes down with a result, nobody is left behind, through failing forks and execs and broken pipes |
| `lc3` | 1,097 programs | 63,124 | the compiled program does what its source says |
| `lc3_space` | `R1 = R2 + 2` | - | counterexample: the addition is dropped |
| `lc3_heap` | a variable declared after an assigned one | - | counterexample: initial value at the wrong address |

### Bounds, and why they are enough

* Court. Six threads and three players give two matches in a row without a
  referee, a referee match with two latecomers, several quitters, and waiters from
  one match that meet the next. With symmetry all permutations of threads are
  one. `court_timed` has no symmetry because it checks liveness, and one
  thread fewer; a court takes one to four of them. Deadlock is not checked in `court`,
  `court_race` and `court_wait`: the race described below ends with players at a barrier
  that never fills. It is checked in `court_timed`.
* Vm. Two processes on four frames and four pages (one of them reserved, one for
  code, one for the heap, one that only `brk` can map) is the smallest instance in
  which each can take a frame of the other, run out of frames, free its
  code page, and halt while the other is running. The access bits tried are
  read-only and read-write; instructions stand at the end of the code page and of the
  last page. `vm_boot` has the real sizes, so that the fit of 32
  frames, 4 pages a process and chunks of two pages is the real one; the
  programs there only yield, halt or run into a fault.
* Machine. The five samples; ten programs that each run into a fault; one with every
  console trap, one with the instructions the others do not have, one for page 0, one
  that wraps around the address space, two processes that yield across a page
  boundary; two processes that take their requests for `brk` from the keyboard
  (`Monkey`); no program, a missing file, seven and eight programs. Only the keyboard
  makes a choice, so most lines have one behaviour; `MaxConsole` (5 lines on
  the console) ends the input. A file has at most two chunks of `ld_img`.
* TreePipe. Depth 2 has an inner node that is itself a child, the case in which
  descriptors are inherited across two forks. Seven nodes and seven programs. With
  programs missing the depth is at most 1, because each stray copy forks a
  subtree of its own. Ints end at 1024 (`IntLimit`) for 2^31 and the ten characters at
  1000 (`ReadLimit`) for 10^9, which keeps their order: 1001 and -1001 give
  results that fit, that lose a digit and that wrap. `Garbage` is one number.
* LC-3. All forms of assignment over four targets, seven operands and eight
  further constants chosen around the limits of the encodings (0, 15, 16, 29, 30,
  45, 200); all conditions over seven operands and six comparisons; conditions with
  a negative constant; sums, differences and comparisons of 0, 1, 32767, 32768 and
  65535; six programs with nested blocks, three that set a variable first inside a block;
  five in assembly for the instructions the compiler never emits; eleven that the
  compiler or the assembler must refuse. The forms the compiler translates differently
  from the language are excluded one by one, each under a name in `MCLc3`
  (`Mixed`, `LeftOut`, `FirstTwice`, `ZeroWillDo`, `Overflows`, and the comments in
  `Faithful`, `Decided` and `SetInside`); they are hazards in `PROJECT.json`, two
  with a run of their own, and the others with a note that no run checks them. A program ends, so deadlock is not checked;
  `RunsToHalt` says how it ends.

### Fairness

* `CourtTimed!TimedSpec` and `OrderlySpec`: weak fairness for each thread and for
  the clock. The scheduler runs every thread that can run, and a sleep ends; strong
  fairness of the semaphores is not assumed.
* `OrderlySpec`, under which `court_timed` holds, has one more assumption: in a second
  in which some return from `play()` and others come, those who return have gone before
  anyone enters. The threads of `court_test.cpp` all come in the first second, so for
  it this says nothing. For `court_test2.cpp` it is what usually happens, and
  `court_race` and `court_wait`, which have `TimedSpec`, show what happens otherwise.
* `Vm!CooperativeSpec`: the boot goes on, a fault is not put off, and what is
  fetched is again and again a yield or a halt. The machine is cooperative: a
  program that never yields keeps it, so nothing about being served holds without
  the last assumption.
* `TreePipe!FairSpec`: the kernel runs each process that can run; forks need not
  fail. `Lc3lang!Spec` and `MachineVm!ViewSpec`: each tool is one process that
  nothing keeps waiting, since the input of the console ends.

### What the counterexamples say about the code

* `court_race`: `leave()` reads `matchGoing` under the mutex (`Court.h:103`) and
  uses the copy after it has let go of the mutex. In between the last player may form
  the match. The thread then leaves during the match, and the others wait at a barrier
  that never fills. In `court_test2 3 2 1` the third thread comes in the second in which
  the first two return from `play()`: the program hangs about once in thirty runs.
* `court_wait`: a thread that found a match going waits on `match_end`
  (`Court.h:65`). The posts are as many as there are players, and without a
  referee there are none. As long as a match goes on all slots are taken, so no thread
  gets there unless a slot comes back during a match, which the race above provides.
* `vm_memory`: `mem` has 65,535 words, the frames 65,536.
* `lc3_space`: four templates have a no-break space after `ADD`
  (`lc3c.py:357, 388, 419, 640`), and the assembler takes the line for a label.
* `lc3_heap`: the heap file has the initial values without gaps
  (`lc3c.py:3399`), the addresses have gaps for variables without one.

## 4. Proofs

Everything in this section holds for every value of the constants that satisfies
the named assumptions of the modules: a finite set of threads and any bound on
the court size; any number of frames, pages, programs and words, segments that
fit the address space and are not longer than a chunk of `ld_img`.

### Court (`CourtProofs`)

`SlotsConserved` is not inductive: it does not say that only one thread resets the
court, nor that nobody holds a slot while the last player does. The invariant
`CourtInv` follows the cycle of a match:

1. `SlotsBeforeBarrier`: while nobody departs, closes or opens, slots available and
   held make the capacity;
2. `LeavingIsExclusive`: when the barrier has let a match go, its people are the
   only holders and no slot is available (they were `capacity` at the barrier, by 1);
3. `ClosingIsExclusive`, `OneCloser`: the one who finds the court empty is alone
   with it until it opens the first slot;
4. `OpeningCounts`: while it opens the court, as many slots are in use as it has
   posted, so nobody can fill a new match before the last post;
5. `GoingFrom`, `GoingUntil`, `ConsoleFollows`: `matchGoing` and the lines printed
   follow the same cycle.

The proof has one lemma per action and one step per conjunct that the action can
disturb; `Move` and `MoveCounts` say once what the move of a thread does to the
sets and their sizes. From `CourtInvariant` follow `TypeCorrect`,
`SlotConservation`, `CapacityRespected`, `ResetIsExclusive` and the action property
`EntryBetweenMatches`.

### Paging (`VmProofs`, `VmLayout`)

`VmInv` joins the type invariant with: `OwnFrames` and `FreeIsUnused` (frames have
one owner, the bitmap is exact); in `main`, `Counts`, `PcbsFilled`,
`CreatedSoFar`; `UpperFree` and `InARow`, which say that the free frames are the
upper ones as long as `main` creates processes and that the frames of a process
follow one another; `Images`; and `RunsItsOwnTable`, `OnlyTheLive`. `UpperFree` is
the reason why `ld_img` is right although it knows the offset of only the first
page of a chunk: `allocMem` takes the lowest free frame, and a creation that
fails gives back an upper segment. Two lemmas, for `AllocMem` and `FreeMem`, carry
the memory part of every action. Theorems: `VmInvariant`, `VmTypeCorrect`,
`FramesAreExclusive`, `BitmapAgrees`, `CpuRunsItsOwnTable`, `NothingIsLeftBehind`,
`ProgramsAreLoaded`.

`RegionsApart` (`VmLayout`): bookkeeping words, PCBs, page tables and frames do not
overlap, under `LayoutAssumption` (first user frame behind word 6143, at most 32
pages and 64 processes). It is what allows `Vm` to keep them in separate variables.

### The referee's signal (`CourtProofs`)

`RefereeFirst` and `NoSignalStolen` need to know how many posts of `match_end` are
still to come. `SignalInv` says: the posts in the semaphore and those the referee has
still to make are as many as the players of the match who have not had theirs
(`PostsMatch`); the lines printed follow them (`LinesMatch`); the referee stays until it
has made them all. `enter()` waits on the same semaphore, and `WaitersAreStuck` is
what keeps the two apart: who waits there has found a match going that lacks a player,
and that match can never be left. From `SignalInvariant` follow `RefereeComesFirst`
and `SignalsAreForPlayers`, for `Court` with any timing.

### The drivers (`CourtTimedProofs`)

Under `OrderlySpec`, `OrderInv` says that a match which has been formed has all its
people and nobody is giving up, that no one finds a match going, and that while someone
is coming in nobody is on the way out. It rests on `CourtInv` and `SignalInv`: every
step of the drivers is one of `Court`. With it, `KeepsItsPromise`
proves the safety part of `CourtPromise`, step by step: `Phase` gives the phase of the
promise from the threads that are going out, and `PhaseStep` goes through the actions.

`OutputIsFull` (`FullOutput`) adds `OutputInv`: how many lines of each kind there are
at each point of a match, and, for `court_test`, that a match is formed as long as
there are people for one. At the end the counts are those the assignment asks for; for
`court_test` the number of matches is a quotient (`Quotient`).

### Private address spaces (`VmProofs`)

`SpacesArePrivate` is `Spec => ImplementsSpaces`: the initial states of `Vm` map to
those of `PrivateSpaces`, and each action to one of its steps or to a stutter. The
invariant is `VmInv` with `BootInv`, which says what the process has that `main` is
creating. That frames have one owner is what makes a store a change of one space.
`NothingIsDelivered`, `CounterAdvances` and `InstructionAdvances` say once what the
instructions have in common: what they leave in `seen`, and where they leave the counter,
the saved one of a yield included. The theorem says nothing of what is printed.

### Words and bits (`MachineProofs`)

`MachineTypeCorrect` is `Spec => []TypeOK` for `Machine`, with any command lines, any
characters and any numbers (`InputAssumption`: they are words). A program is any words at
all, so the proof has to show that no instruction, wherever it points, reaches a word
of the operating system. `TypeOK` is far from inductive. `IInv` has what the addresses
are computed from:

1. `Sound`: words are words, and the two words of the bitmap and the entries of the
   page tables, taken apart bit by bit, say only what `allocMem` may have written.
   A store therefore goes to a frame from 3 on (`StoreKeeps`), behind the tables.
2. `Fresh`: while `main` creates processes the frames go out in order, four to each,
   so `ld_img` writes behind the tables as well, and a creation that fails leaves what
   it found.
3. `Pcbs`, `Booting`, `Creating`: each PCB has the base of its own table, because
   `yield` saves what it will load again; the eighth process never gets its frames,
   hence 7 at most (`NewPid`).
4. `Serving`: the one that runs is one of them and the processor has its table.
   Without any process the program counter is 0, and the first fetch ends the run
   (`Running`).

The bits need lemmas of their own: a word is the sum of its sixteen bits, two words
with equal bits are equal, and setting or clearing one bit (`allocMem`, `freeMem`) changes
no other; products and remainders by a power of two stay with the numbers 0 to 15, case
by case, because the solver knows nothing of `2^k`.

### The words implement the tables (`MachineVmProofs`)

`MachineImplementsVm` is `ViewSpec => ImplementsVm`, for every command line, every
input, and every bit of every word of a page, that of each load and print included. `FitAssumption` bounds what `Vm` has room
for: a segment fits its two pages and at most eight programs are named; `ViewAssumption`
says that what is looked at lies in a page. The invariant `VInv` adds to `IInv` what
`ld_img` needs: the programs still to be created are the rest of the command line
(`ToLoad`), and nothing was ever written from the next process's frames on
(`Blank`), so that what a shorter file leaves is zero, as in `Image`.

There is one lemma for each kind of step (`...InVm`), and `NextInVm` goes through them.
Steps that touch only registers are one lemma (`QuietInVm`): for `Vm` each is a jump to
some page. `TakenAsInVm` and `FreedAsInVm` relate what `allocMem` and `freeMem` do to bits
to the sets and records of `Vm`, `RoundTheCircle` the search of `yield` and `halt` with its
`%`, `ContentsRead` what `ld_img` reads to the images. Where the machine shows a word (a
load, a print), `LoadInVm` and `PutsInVm` show that it is one that `Vm` may show: in
`PutsInVm` the string runs through frames of anybody's, which `Vm` allows, too.

### TreePipe (`TreePipeProofs`, `TreePipeResult`)

For every depth, every input and every set of missing programs:

1. `TreeInv`: whoever runs below a node, or has ended and waits to be reaped, is below
   the one child the node attends, and nobody is born below a child it has not forked
   (`OneChild`). A node that SIGPIPE ends leaves a child that has ended, with nobody
   below it (`BrokenPipeKeeps`): the child is init's then, and a stray. From
   this follow `NoOrphans` and `TraversalIsInOrder`.
2. `RoomInv` counts the steps down from the root that are not strays. With the lemmas
   about depth it gives `BoundHidesNobody`: every fork of the code is a process of the
   model, so that `Procs` leaves out nothing a run could do.
3. `EndsExact`: which ends of which pipes a process holds, as an equation for each
   point of a node and for strays; with `StdInv`, what is behind its stdin and stdout.
   These decide `NoWriter`, a fact about all processes, from the states of two of them.
4. `NumInv`, `PipesInv`: all numbers are ints, and what is in each pipe when.

`WholeInv` joins them; `TreeTypeCorrect` and `ReadsEnd` (`NobodyReadsForEver`) follow
from it. `TreeAssumption` asks for an int of at least two values on either side, so
that the 1 a leaf has for its second number is one.

`ResultIsInOrder` (`InOrderResult`, in `TreePipeResult`) is what the program is for.
`InOrder` is a recursive function of the height, and nothing about a recursive function
is known until one exists: `InOrderUnfolds` builds it from its finite parts (`UpTo`),
by induction on sets of heights (`EveryNumber`, from the well-foundedness of <).
`LeafResult` and `NodeResult` are then its two equations, and everything after is in
terms of them. The invariant `ResultInv` holds while nothing has failed and the numbers
fit, and has two parts for each node. `NumbersOf`: what it has for num2, for the
result of its program and for its own are the values of `InOrder` at its height, and
all the numbers read back below it fit. `LinkOf`: its child does not start to work
before the node is at its read, works on the number it was sent, and has left its
result in the pipe when it ends. `AnswerIsThere` joins the two with
`EndsExact` and `StdInv`: a `read` that returns has found the result, not the end of
the pipe. The invariant was checked by TLC on the instance of `treepipe` before the proof.

### Only model-checked

* Liveness: `EveryoneLeaves`, `EveryoneIsServed`, `EveryProgramEnds`, `TreeFinishes`,
  `RunsToHalt`, and the fairness of `CourtPromise` in `ImplementsPromise`: the proof
  system has no rule for fairness of actions with `ENABLED`.
* `Lc3lang` with all its properties: compiler, assembler and the meaning of a program go
  through lines and blocks with recursive operators, in whose modules nothing can be
  proved; `EndsAsRecorded` (`MCMachine`) is about five recorded runs.

## 5. Abstractions and what is left out

* Court: thread ids, texts and the number in the "only %d players" line; the
  destructor, which runs when no thread uses the court.
* Vm: contents beyond one word per frame and console input and output, which are in
  `Machine`. Fresh pages keep what the frame held before, in the code and in the model
  (`Grow` in `PrivateSpaces` allows any content).
* Machine: the wording of what is printed; the word past the end of `mem`, which C
  leaves undefined, is one more word.
* What the model shows of the code and no property objects to: the full bit of
  `OS_STATUS` is never set; without any program the machine starts at page 0 and
  ends `wild`; `brk` may free the code page it was called from; one fault ends all
  processes; a load from the reserved page does not end the simulation.
* LC-3: the forms named in `MCLc3`, and for each the property that fails on it: with
  them in, `MeansTheSame` (for `LEA`, `WordsMeanTheirLines`) has a counterexample.
  Registers beyond R7, which no tool checks, and constants that take more than 4096
  words of code are left out.
* TreePipe: a failing `pipe` or `dup2`, whose result the code does not look at; programs
  that disappear while the tree runs.

## 6. Plan

The order so far: court, operating system, process tree, toolchain, the machine on
words and the second driver; each first checked, then, where the module can be proved
about, proved. What the provers can reach of the court, the operating system, the
machine and the process tree is proved: every safety invariant and the safety of all
three refinements. What is left:

1. TreePipe: what `TreeFinishes` rests on, without `ENABLED`: as long as the root is
   there the guard of some process holds, and every step goes forward in an order
   without infinite descent.
2. CodeGen and Assembler: which of their helpers can be written without `RECURSIVE`, and
   lemmas about those.
