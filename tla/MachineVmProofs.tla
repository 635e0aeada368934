--------------------------- MODULE MachineVmProofs ---------------------------
(***************************************************************************)
(* Proof that the machine of module Machine implements the operating       *)
(* system of module Vm (ImplementsVm of MachineVm), for all programs,      *)
(* command lines and inputs, and for every bit of every word of a page.    *)
(***************************************************************************)
EXTENDS MachineVm, MachineProofs

-----------------------------------------------------------------------------
(* What the words say, and what keeps it.                                   *)

LEMMA SameBlocks ==
    ASSUME NEW m, NEW n, SameOs(m, n)
    PROVE  Blocks(n) = Blocks(m) /\ Peek(n, 0) = Peek(m, 0) /\ Peek(n, 1) = Peek(m, 1)
<1>1. OsWord(0) /\ OsWord(1)
  BY DEF OsWord
<1>2. \A p \in 0..7 : OsWord(PcbAt(p)) /\ OsWord(PcbAt(p) + 1) /\ OsWord(PcbAt(p) + 2)
  BY DEF OsWord, PcbAt
<1>3. \A p \in 0..7 : PcbOf(n, p) = PcbOf(m, p)
  BY <1>2 DEF PcbOf, PidOf, SameOs
<1> QED
  BY <1>1, <1>3 DEF SameOs, Blocks

LEMMA SameTables ==
    ASSUME NEW m, NEW n, \A p \in 0..7, v \in 0..31 : Entry(n, p, v) = Entry(m, p, v)
    PROVE  PageTables(n) = PageTables(m)
<1>1. \A p \in 0..7, v \in 0..31 : Peek(n, TableAt(p) + v) = Peek(m, TableAt(p) + v)
  BY DEF Entry, EntryAt
<1> QED
  BY <1>1 DEF PageTables

LEMMA SameFree ==
    ASSUME NEW m, NEW n, Peek(n, 3) = Peek(m, 3), Peek(n, 4) = Peek(m, 4)
    PROVE  FreeFrames(n) = FreeFrames(m)
  BY DEF FreeFrames, IsFree, BitmapWord

\* The word of frame f that is looked at.
SeenAt(f, w) == f * PageWords + w.offset

LEMMA SeenBounds ==
    ASSUME NEW w, InPage(w), NEW f \in 3..31
    PROVE  SeenAt(f, w) \in Int /\ 6144 <= SeenAt(f, w) /\ SeenAt(f, w) <= 65535
<1>1. PICK o \in 0..2047 : o = w.offset
  BY DEF InPage, PageWords
<1>2. SeenAt(f, w) = f * 2048 + o
  BY <1>1 DEF SeenAt, PageWords
<1> QED
  BY <1>2

LEMMA SameContents ==
    ASSUME NEW m, NEW n, NEW w, InPage(w),
           \A b \in Int : 6144 <= b => Peek(n, b) = Peek(m, b)
    PROVE  Contents(n, w) = Contents(m, w)
<1>1. \A f \in 0..31 : f < 3 \/ Peek(n, SeenAt(f, w)) = Peek(m, SeenAt(f, w))
  BY SeenBounds
<1> QED
  BY <1>1 DEF Contents, SeenAt

\* A change of the operating system's own words or of its PCBs only.
LEMMA SameMemory ==
    ASSUME NEW m, NEW n, NEW w, InPage(w),
           \A b \in Int : b \in {3, 4} \/ 35 < b => Peek(n, b) = Peek(m, b)
    PROVE  /\ FreeFrames(n) = FreeFrames(m)
           /\ PageTables(n) = PageTables(m)
           /\ Contents(n, w) = Contents(m, w)
<1>1. FreeFrames(n) = FreeFrames(m)
  BY SameFree
<1>2. \A p \in 0..7, v \in 0..31 : Entry(n, p, v) = Entry(m, p, v)
  <2>1. \A p \in 0..7, v \in 0..31 : EntryAt(p, v) \in Int /\ 35 < EntryAt(p, v)
    BY EntryBounds, WordBounds
  <2> QED
    BY <2>1 DEF Entry
<1>3. \A b \in Int : 6144 <= b => Peek(n, b) = Peek(m, b)
  OBVIOUS
<1> QED
  BY <1>1, <1>2, <1>3, SameTables, SameContents

\* The bitmap has no bit for the operating system's frames.
LEMMA FreeAreUsers ==
    ASSUME NEW m, Sound(m)
    PROVE  FreeFrames(m) = {f \in 3..31 : IsFree(m, f)}
<1>1. Bit(Peek(m, 3), 13) = 0 /\ Bit(Peek(m, 3), 14) = 0 /\ Bit(Peek(m, 3), 15) = 0
  BY PeekWord, LowWord DEF Sound, Bitmap
<1>2. \A f \in 0..31 : f \in 3..31 \/ f = 0 \/ f = 1 \/ f = 2
  OBVIOUS
<1>3. ~IsFree(m, 0) /\ ~IsFree(m, 1) /\ ~IsFree(m, 2)
  BY <1>1 DEF IsFree, BitmapWord, BitmapBit
<1> QED
  BY <1>2, <1>3 DEF FreeFrames

\* A valid entry as Vm has it.
FullEntry(f, read, write) == [valid |-> TRUE, pfn |-> f, read |-> read, write |-> write]

LEMMA NewEntry ==
    ASSUME NEW f \in 3..31, NEW read, NEW write,
           read = TRUE \/ read = FALSE, write = TRUE \/ write = FALSE
    PROVE  EntryOf(NewPte(f, read, write)) = FullEntry(f, read, write)
<1>1. PICK w \in Int : w = NewPte(f, read, write)
  BY FrameOfNew, WordBounds
<1>2. Valid(w) /\ FrameIn(w) = f
  BY <1>1, FrameOfNew
<1>3. CASE read = TRUE /\ write = TRUE
  <2>1. w = f * 2048 + 7
    BY <1>1, <1>3 DEF NewPte
  <2>2. Readable(w) = TRUE /\ Writable(w) = TRUE
    BY <2>1 DEF Readable, Writable, Bit, Field
  <2> QED
    BY <1>1, <1>2, <1>3, <2>2 DEF EntryOf, FullEntry
<1>4. CASE read = TRUE /\ write = FALSE
  <2>1. w = f * 2048 + 3
    BY <1>1, <1>4 DEF NewPte
  <2>2. Readable(w) = TRUE /\ Writable(w) = FALSE
    BY <2>1 DEF Readable, Writable, Bit, Field
  <2> QED
    BY <1>1, <1>2, <1>4, <2>2 DEF EntryOf, FullEntry
<1>5. CASE read = FALSE /\ write = TRUE
  <2>1. w = f * 2048 + 5
    BY <1>1, <1>5 DEF NewPte
  <2>2. Readable(w) = FALSE /\ Writable(w) = TRUE
    BY <2>1 DEF Readable, Writable, Bit, Field
  <2> QED
    BY <1>1, <1>2, <1>5, <2>2 DEF EntryOf, FullEntry
<1>6. CASE read = FALSE /\ write = FALSE
  <2>1. w = f * 2048 + 1
    BY <1>1, <1>6 DEF NewPte
  <2>2. Readable(w) = FALSE /\ Writable(w) = FALSE
    BY <2>1 DEF Readable, Writable, Bit, Field
  <2> QED
    BY <1>1, <1>2, <1>6, <2>2 DEF EntryOf, FullEntry
<1> QED
  BY <1>3, <1>4, <1>5, <1>6

\* Tables that are alike but for one entry, or for one of the tables.
ButForEntry(m, n, p, v, e) ==
    \A q \in 0..7, u \in 0..31 :
        PageTables(n)[q][u] = IF q = p /\ u = v THEN e ELSE PageTables(m)[q][u]

ButForPages(m, n, p, vpns, e) ==
    \A q \in 0..7, u \in 0..31 :
        PageTables(n)[q][u] = IF q = p /\ u \in vpns THEN e ELSE PageTables(m)[q][u]

WithEntry(m, p, v, e) == [PageTables(m) EXCEPT ![p][v] = e]

LEMMA TablesAlike ==
    ASSUME NEW m, NEW n, NEW p \in 0..7, NEW v \in 0..31, NEW e, ButForEntry(m, n, p, v, e)
    PROVE  PageTables(n) = WithEntry(m, p, v, e)
<1> USE DEF WithEntry
<1> DEFINE t == [PageTables(m) EXCEPT ![p][v] = e]
<1>1. \A q \in 0..7 : PageTables(n)[q] = t[q]
  <2>1. ASSUME NEW q \in 0..7, q # p PROVE PageTables(n)[q] = t[q]
    <3>1. t[q] = PageTables(m)[q]
      BY <2>1 DEF PageTables
    <3>2. \A u \in 0..31 : PageTables(n)[q][u] = PageTables(m)[q][u]
      BY <2>1 DEF ButForEntry
    <3> QED
      BY <3>1, <3>2 DEF PageTables
  <2>2. PageTables(n)[p] = t[p]
    <3>1. t[p] = [PageTables(m)[p] EXCEPT ![v] = e]
      BY DEF PageTables
    <3>2. \A u \in 0..31 : PageTables(n)[p][u] = IF u = v THEN e ELSE PageTables(m)[p][u]
      BY DEF ButForEntry
    <3> QED
      BY <3>1, <3>2 DEF PageTables
  <2> QED
    BY <2>1, <2>2
<1> QED
  BY <1>1 DEF PageTables

LEMMA RowAlike ==
    ASSUME NEW F, NEW G, NEW p \in 0..7, NEW row,
           F = [q \in 0..7 |-> F[q]], G = [q \in 0..7 |-> G[q]],
           F[p] = row, \A q \in 0..7 : q # p => F[q] = G[q]
    PROVE  F = [G EXCEPT ![p] = row]
  OBVIOUS

RowWithout(m, p, vpns, e) == [v \in 0..31 |-> IF v \in vpns THEN e ELSE PageTables(m)[p][v]]

LEMMA TableAlike ==
    ASSUME NEW m, NEW n, NEW p \in 0..7, NEW vpns, NEW e, ButForPages(m, n, p, vpns, e)
    PROVE  PageTables(n) = [PageTables(m) EXCEPT ![p] = RowWithout(m, p, vpns, e)]
<1>1. PageTables(n)[p] = RowWithout(m, p, vpns, e)
  BY DEF PageTables, RowWithout, ButForPages
<1>2. ASSUME NEW q \in 0..7, q # p PROVE PageTables(n)[q] = PageTables(m)[q]
  BY <1>2 DEF PageTables, ButForPages
<1>3. /\ PageTables(n) = [q \in 0..7 |-> PageTables(n)[q]]
      /\ PageTables(m) = [q \in 0..7 |-> PageTables(m)[q]]
  BY DEF PageTables
<1> QED
  BY <1>1, <1>2, <1>3, RowAlike

OneEntryIsNew(m, n, p, v, pte) ==
    \A q \in 0..7, u \in 0..31 :
        Entry(n, q, u) = IF q = p /\ u = v THEN pte ELSE Entry(m, q, u)

LEMMA EntriesTaken ==
    ASSUME NEW m, NEW n, NEW f, NEW p \in 0..7, NEW v \in 0..31, NEW pte,
           Takes(m, n, f, p, v, pte)
    PROVE  OneEntryIsNew(m, n, p, v, pte)
<1> SUFFICES ASSUME NEW q \in 0..7, NEW u \in 0..31
             PROVE  Entry(n, q, u) = IF q = p /\ u = v THEN pte ELSE Entry(m, q, u)
  BY DEF OneEntryIsNew
<1>1. EntryAt(q, u) \notin {3, 4}
  BY EntryBounds
<1>2. ASSUME EntryAt(q, u) = EntryAt(p, v) PROVE q = p /\ u = v
  BY <1>2 DEF EntryAt, TableAt
<1> QED
  BY <1>1, <1>2 DEF Takes, Entry

\* allocMem as Vm has it.
TakesFrame(m, n, f, p, v, read, write) ==
    /\ f \in FreeFrames(m) /\ \A g \in FreeFrames(m) : f <= g
    /\ FreeFrames(n) = FreeFrames(m) \ {f}
    /\ PageTables(n) = [PageTables(m) EXCEPT ![p][v] = FullEntry(f, read, write)]

IsTaken(m, n, f, p, v, read, write) ==
    /\ Sound(m) /\ FirstFree(m, f)
    /\ read = TRUE \/ read = FALSE
    /\ write = TRUE \/ write = FALSE
    /\ n = Taken(m, f, EntryAt(p, v), NewPte(f, read, write))

TakenIn(m, n, f, p, v, read, write, w) ==
    /\ SameOs(m, n)
    /\ TakesFrame(m, n, f, p, v, read, write)
    /\ Contents(n, w) = Contents(m, w)

LEMMA TakenAsInVm ==
    ASSUME NEW m, NEW f \in 3..31, NEW p \in 0..7, NEW v \in 0..31, NEW read, NEW write, NEW n,
           IsTaken(m, n, f, p, v, read, write), NEW w, InPage(w)
    PROVE  TakenIn(m, n, f, p, v, read, write, w)
<1>0. Sound(m) /\ FirstFree(m, f) /\ IsFree(m, f)
  BY DEF FirstFree, IsTaken
<1>1. PICK pte : pte = NewPte(f, read, write)
                 /\ Takes(m, Taken(m, f, EntryAt(p, v), NewPte(f, read, write)), f, p, v, pte)
  <2>1. Takes(m, Taken(m, f, EntryAt(p, v), NewPte(f, read, write)), f, p, v, NewPte(f, read, write))
    BY <1>0, TakenSound, Zenon
  <2> QED
    BY <2>1, Zenon
<1>2. Takes(m, n, f, p, v, pte)
  BY <1>1 DEF IsTaken
<1>3. Sound(n) /\ SameOs(m, n)
  BY <1>2, OsWordsApart DEF Takes, SameOs
<1>4. f \in FreeFrames(m) /\ FreeFrames(n) = FreeFrames(m) \ {f}
  BY <1>0, <1>2, <1>3, FreeAreUsers DEF FirstFree, Takes
<1>5. ASSUME NEW g \in FreeFrames(m) PROVE f <= g
  <2>1. g \in 3..31 /\ IsFree(m, g)
    BY <1>0, FreeAreUsers
  <2>2. g \notin 3..(f - 1)
    BY <1>0, <2>1 DEF FirstFree
  <2> QED
    BY <2>1, <2>2
<1>6. OneEntryIsNew(m, n, p, v, pte)
  BY <1>2, EntriesTaken
<1>7. PageTables(n) = [PageTables(m) EXCEPT ![p][v] = FullEntry(f, read, write)]
  <2>1. PICK e : e = EntryOf(pte)
                 /\ e = FullEntry(f, read, write)
    BY <1>1, NewEntry DEF IsTaken
  <2>2. ButForEntry(m, n, p, v, e)
    BY <1>6, <2>1 DEF ButForEntry, PageTables, Entry, EntryAt, OneEntryIsNew
  <2>3. PageTables(n) = WithEntry(m, p, v, e)
    BY <2>2, TablesAlike
  <2> QED
    BY <2>1, <2>3 DEF WithEntry
<1>8. \A b \in Int : 6144 <= b => Peek(n, b) = Peek(m, b)
  <2>1. EntryAt(p, v) \in Int /\ EntryAt(p, v) <= 4351
    BY EntryBounds, WordBounds
  <2> QED
    BY <1>2, <2>1 DEF Takes
<1>9. Contents(n, w) = Contents(m, w)
  BY <1>8, SameContents
<1> QED
  BY <1>3, <1>4, <1>5, <1>7, <1>9 DEF TakesFrame, TakenIn

Nothing == [valid |-> FALSE, pfn |-> 0, read |-> FALSE, write |-> FALSE]

\* freeMem as Vm has it.
GivesFrames(m, n, vpns, p) ==
    /\ FreeFrames(n) = FreeFrames(m) \cup
           {PageTables(m)[p][v].pfn : v \in {u \in vpns : PageTables(m)[p][u].valid}}
    /\ PageTables(n) = [PageTables(m) EXCEPT ![p] =
           [v \in 0..31 |-> IF v \in vpns THEN Nothing ELSE PageTables(m)[p][v]]]

LEMMA EntryInTables ==
    ASSUME NEW m, NEW p \in 0..7, NEW v \in 0..31
    PROVE  PageTables(m)[p][v] = EntryOf(Entry(m, p, v))
  BY DEF PageTables, Entry, EntryAt

LEMMA EntryFields ==
    ASSUME NEW e
    PROVE  /\ Valid(e) => /\ EntryOf(e).valid /\ EntryOf(e).pfn = FrameIn(e)
                          /\ EntryOf(e).read <=> Readable(e)
                          /\ EntryOf(e).write <=> Writable(e)
           /\ ~Valid(e) => EntryOf(e) = Nothing
  BY DEF EntryOf, Nothing

LEMMA FreedAsInVm ==
    ASSUME NEW m, Sound(m), NEW p \in 0..7, NEW vpns \in SUBSET (0..31), NEW n,
           n = FreeMem(m, vpns, TableAt(p)), NEW w, InPage(w)
    PROVE  /\ Sound(n) /\ SameOs(m, n)
           /\ GivesFrames(m, n, vpns, p)
           /\ Contents(n, w) = Contents(m, w)
<1>1. Frees(m, n, vpns, p)
  BY FreedSound
<1>2. Sound(n) /\ SameOs(m, n)
  BY <1>1, OsWordsApart DEF Frees, SameOs
<1>3. {PageTables(m)[p][v].pfn : v \in {u \in vpns : PageTables(m)[p][u].valid}} = Given(m, vpns, p)
  <2>0. ASSUME NEW u \in vpns PROVE PageTables(m)[p][u].valid <=> Valid(Entry(m, p, u))
    <3>1. PageTables(m)[p][u] = EntryOf(Entry(m, p, u))
      BY EntryInTables
    <3> QED
      BY <3>1, EntryFields DEF Nothing
  <2> DEFINE held == {u \in vpns : PageTables(m)[p][u].valid}
  <2>1. held = {u \in vpns : Valid(Entry(m, p, u))}
    BY <2>0
  <2>2. \A v \in {u \in vpns : Valid(Entry(m, p, u))} :
           PageTables(m)[p][v].pfn = FrameIn(Entry(m, p, v))
    <3>1. \A v \in vpns : PageTables(m)[p][v] = EntryOf(Entry(m, p, v))
      BY EntryInTables
    <3> QED
      BY <3>1, EntryFields
  <2> QED
    BY <2>1, <2>2 DEF Given
<1>4. Given(m, vpns, p) \subseteq 3..31
  <2>1. ASSUME NEW v \in vpns, Valid(Entry(m, p, v)) PROVE FrameIn(Entry(m, p, v)) \in 3..31
    <3>1. Entry(m, p, v) \in Word /\ Entry(m, p, v) # 0
      BY <2>1, PeekWord, ZeroIsInvalid DEF Sound, Entry
    <3>2. FrameIn(Entry(m, p, v)) >= 3
      BY <3>1 DEF Sound, Tables
    <3> QED
      BY <3>1, <3>2, FrameBounds
  <2> QED
    BY <2>1 DEF Given
<1>5. FreeFrames(n) = FreeFrames(m) \cup Given(m, vpns, p)
  BY <1>1, <1>2, <1>4, FreeAreUsers DEF Frees
<1>6. ASSUME NEW q \in 0..7, NEW u \in 0..31
      PROVE  EntryOf(Entry(n, q, u)) =
                 IF q = p /\ u \in vpns THEN Nothing ELSE EntryOf(Entry(m, q, u))
  <2>1. CASE q = p /\ u \in vpns /\ Valid(Entry(m, q, u))
    <3>1. Entry(n, q, u) = Entry(m, q, u) - 1
      BY <1>1, <2>1 DEF Frees
    <3>2. ~Valid(Entry(n, q, u))
      BY <2>1, <3>1, FrameKept, PeekWord DEF Sound, Entry
    <3> QED
      BY <2>1, <3>2 DEF EntryOf, Nothing
  <2>2. CASE ~(q = p /\ u \in vpns /\ Valid(Entry(m, q, u)))
    <3>1. Entry(n, q, u) = Entry(m, q, u)
      BY <1>1, <2>2 DEF Frees
    <3> QED
      BY <2>2, <3>1 DEF EntryOf, Nothing
  <2> QED
    BY <2>1, <2>2
<1>7. PageTables(n) = [PageTables(m) EXCEPT ![p] =
           [v \in 0..31 |-> IF v \in vpns THEN Nothing ELSE PageTables(m)[p][v]]]
  <2>1. ASSUME NEW q \in 0..7, NEW u \in 0..31
        PROVE  PageTables(n)[q][u] =
                   IF q = p /\ u \in vpns THEN Nothing ELSE PageTables(m)[q][u]
    BY <1>6 DEF PageTables, Entry, EntryAt
  <2>2. PICK e : e = Nothing
    OBVIOUS
  <2>3. ButForPages(m, n, p, vpns, e)
    BY <2>1, <2>2 DEF ButForPages
  <2>4. RowWithout(m, p, vpns, e) =
           [v \in 0..31 |-> IF v \in vpns THEN Nothing ELSE PageTables(m)[p][v]]
    BY <2>2 DEF RowWithout
  <2> QED
    BY <2>3, <2>4, TableAlike
<1>8. \A b \in Int : 6144 <= b => Peek(n, b) = Peek(m, b)
  BY <1>1 DEF Frees, InTables
<1>9. Contents(n, w) = Contents(m, w)
  BY <1>8, SameContents
<1> QED
  BY <1>2, <1>3, <1>5, <1>7, <1>9 DEF GivesFrames

-----------------------------------------------------------------------------
(* The invariant.                                                           *)

ViewOK ==
    /\ view.line \in CommandLines
    /\ InPage(view)
    /\ ABit(view)

\* The programs still to be created are the last ones of the command line: with
\* seven processes none of them gets its four frames.
Remaining(n) ==
    /\ Len(view.line) = n + Len(args)
    /\ \A k \in 1..Len(args) : args[k] = view.line[n + k]

ToLoad == status \in {"boot", "create"} => NewPid = 7 \/ Remaining(NewPid)

\* The first word of the frames that the next process gets: nothing was ever
\* written from there on.
FirstBlank(n) == 6144 + 8192 * n
BlankFrom(m, n) == \A b \in Int : FirstBlank(n) <= b => Peek(m, b) = 0
Blank == status \in {"boot", "create"} => BlankFrom(mem, NewPid)

VInv == IInv /\ ViewOK /\ ToLoad /\ Blank

LEMMA InitVInv == ViewInit => VInv
<1> SUFFICES ASSUME ViewInit PROVE VInv
  OBVIOUS
<1>1. Init /\ args \in CommandLines /\ mem = InitOS /\ status = "boot"
  BY DEF ViewInit, Init
<1>2. IInv
  BY <1>1, InitIInv
<1>3. PICK v \in Views(args) : view = [line |-> args, offset |-> v.offset, bit |-> v.bit]
  BY DEF ViewInit
<1>4. view.line = args /\ view.offset = v.offset /\ view.bit = v.bit
  BY <1>3
<1>5. InPage(v) /\ ABit(v)
  BY <1>1, <1>3, ViewAssumption
<1>6. ViewOK
  BY <1>1, <1>4, <1>5 DEF ViewOK, InPage, ABit
<1>7. NewPid = 0
  BY <1>1, InitPeeks DEF NewPid
<1>8. args \in Seq(Programs)
  BY <1>2 DEF IInv
<1>9. Remaining(0)
  <2>1. Len(args) \in Nat
    BY <1>8
  <2> QED
    BY <1>4, <2>1 DEF Remaining
<1>10. BlankFrom(mem, 0)
  BY <1>1, InitPeeks DEF BlankFrom, FirstBlank
<1> QED
  BY <1>2, <1>6, <1>7, <1>9, <1>10 DEF VInv, ToLoad, Blank

-----------------------------------------------------------------------------
(* What main writes                                                         *)

\* createProc begins below the tables, and its allocMem stays below the frames.
LEMMA BeginsBelow == IInv /\ BeginCreate => NewPid' = NewPid /\ \A b \in Int : b \in {0, 3, 4} \/ 35 < b => Peek(mem', b) = Peek(mem, b)
<1> SUFFICES ASSUME IInv, BeginCreate
             PROVE  NewPid' = NewPid /\ \A b \in Int : b \in {0, 3, 4} \/ 35 < b => Peek(mem', b) = Peek(mem, b)
  OBVIOUS
<1>1. PICK n \in 0..7 : n = NewPid
  BY DEF IInv
<1>2. \A b : b \notin {PcbAt(n), PcbAt(n) + 1, PcbAt(n) + 2} => Peek(mem', b) = Peek(mem, b)
  BY <1>1, PcbFilled DEF Filled
<1>3. 12 <= PcbAt(n) /\ PcbAt(n) <= 33 /\ PcbAt(n) \in Int
  BY DEF PcbAt
<1> QED
  BY <1>1, <1>2, <1>3 DEF NewPid

\* allocMem takes the next frame f for page v of process p.
Allocates(p, g, v, f, write) ==
    /\ p = NewPid /\ g = Len(frames) /\ v = 6 + g /\ FirstFree(mem, f)
    /\ write = TRUE \/ write = FALSE
    /\ write <=> g >= 2
    /\ ~Valid(Entry(mem, p, v))
    /\ mem' = Taken(mem, f, EntryAt(p, v), NewPte(f, TRUE, write))
    /\ Len(frames') = g + 1

LEMMA AllocTakes ==
    ASSUME IInv, AllocSegmentPage
    PROVE  \E p \in 0..7, g \in 0..3, v \in 0..31, f \in 3..31 : \E write : Allocates(p, g, v, f, write)
<1>1. PICK n \in 0..7 : n = NewPid
  BY DEF IInv
<1>2. status = "create" /\ frames = [k \in 1..Len(frames) |-> 2 + 4 * n + k]
  BY <1>1 DEF IInv, AllocSegmentPage, Creating
<1>3. PICK g \in 0..3 : g = Len(frames)
  <2>1. Len(frames) \in 0..4
    BY DEF IInv, AllocSegmentPage, Creating
  <2>2. Len(frames) < 4
    BY DEF AllocSegmentPage
  <2>3. PICK g \in 0..4 : g = Len(frames)
    BY <2>1
  <2>4. g < 4
    BY <2>2, <2>3
  <2> QED
    BY <2>3, <2>4
<1>4. PICK f \in 3..31 : f = 3 + 4 * n + g /\ FirstFree(mem, f)
         /\ Allocation = [mem |-> Taken(mem, f, EntryAt(n, 6 + g), NewPte(f, TRUE, 6 + g >= 8)), pfn |-> f]
  BY <1>1, <1>2, <1>3, NextAllocation DEF AllocSegmentPage
<1>5. PICK v \in 0..31 : v = 6 + g
  OBVIOUS
<1>6. PICK write : write = IF g >= 2 THEN TRUE ELSE FALSE
  OBVIOUS
<1>7. mem' = Taken(mem, f, EntryAt(n, v), NewPte(f, TRUE, write)) /\ frames' = Append(frames, f)
  <2>1. NewPte(f, TRUE, 6 + g >= 8) = NewPte(f, TRUE, write)
    BY <1>6 DEF NewPte
  <2> QED
    BY <1>4, <1>5, <2>1 DEF AllocSegmentPage
<1>8. (write = TRUE \/ write = FALSE) /\ (write <=> g >= 2)
  BY <1>6
<1>9. Len(frames') = g + 1
  <2>1. frames = [k \in 1..g |-> 2 + 4 * n + k]
    BY <1>2, <1>3
  <2>2. frames \in Seq(Int)
    BY <2>1
  <2> QED
    BY <1>3, <1>7, <2>2
<1>10. ~Valid(Entry(mem, n, v))
  <2>1. Fresh(mem, n, g)
    BY <1>1, <1>2, <1>3 DEF IInv, Creating
  <2> QED
    BY <1>5, <2>1 DEF Fresh
<1> QED
  BY <1>1, <1>3, <1>4, <1>5, <1>7, <1>8, <1>9, <1>10 DEF Allocates

\* Two pages hold the file, from the first word of the first.
LoadedAt(m, n, file, f) ==
    \A b \in Int :
        Peek(n, b) = IF f * 2048 <= b /\ b < f * 2048 + Len(file)
                       THEN file[b - f * 2048 + 1] ELSE Peek(m, b)

TwoPages(file) == file \in Seq(Word) /\ Len(file) <= 4096
TwoFrames(pfns, f) == f \in 3..30 /\ pfns[1] = f /\ pfns[2] \in 3..30

LEMMA LdImgPeeks ==
    ASSUME NEW m, NEW file, TwoPages(file), NEW f, NEW pfns, TwoFrames(pfns, f)
    PROVE  LoadedAt(m, LdImg(m, file, pfns), file, f)
<1> USE DEF TwoPages, TwoFrames
<1>0. PICK l \in Nat, g \in 3..30 : l = Len(file) /\ l <= 4096 /\ g = pfns[2]
  OBVIOUS
<1>1. Chunk(file, 0, f) = (f * 2048)..(f * 2048 + Len(file) - 1)
  <2>1. l - 4096 * 0 = l /\ ~(l > 4096)
    BY <1>0
  <2>2. Chunk(file, 0, f) = (f * 2048)..(f * 2048 + l - 1)
    BY <1>0, <2>1 DEF Chunk
  <2> QED
    BY <1>0, <2>2
<1>2. Chunk(file, 1, g) = {}
  <2>1. l - 4096 * 1 <= 0 /\ ~(l - 4096 * 1 > 4096)
    BY <1>0
  <2>2. Chunk(file, 1, g) = (g * 2048)..(g * 2048 + (l - 4096 * 1) - 1)
    BY <1>0, <2>1 DEF Chunk
  <2> QED
    BY <2>1, <2>2, <1>0
<1>3. LdImg(m, file, pfns) =
          [a \in DOMAIN m \cup Chunk(file, 0, f) |->
              IF a \in Chunk(file, 0, f) THEN file[a - f * 2048 + 1] ELSE m[a]]
  BY <1>0, <1>2 DEF LdImg
<1>4. ASSUME NEW b \in Int
      PROVE  b \in Chunk(file, 0, f) <=> f * 2048 <= b /\ b < f * 2048 + Len(file)
  BY <1>1
<1> QED
  BY <1>3, <1>4 DEF LoadedAt, Peek

\* The two files of process p are in its four frames, and there is one process
\* more.
CodeAt(p) == (3 + 4 * p) * 2048
HeapAt(p) == (5 + 4 * p) * 2048

ProgramRead(m, n, p, program) ==
    LET code == CodeAt(p)
        heap == HeapAt(p)
    IN  /\ Peek(n, 1) = p + 1
        /\ \A b \in Int : b # 1 =>
               Peek(n, b) = IF heap <= b /\ b < heap + Len(program.heap)
                              THEN program.heap[b - heap + 1]
                            ELSE IF code <= b /\ b < code + Len(program.code)
                              THEN program.code[b - code + 1] ELSE Peek(m, b)

TwoFiles(program) == TwoPages(program.code) /\ TwoPages(program.heap)

LEMMA ProgramsFit ==
    ASSUME NEW line \in CommandLines, NEW i \in DOMAIN line
    PROVE  TwoFiles(line[i]) /\ Len(line) <= 8
<1>1. line \in Seq(Programs)
  BY InputAssumption
<1>2. line[i] \in Programs
  BY <1>1
<1>3. Fits(line[i]) /\ Len(line) <= 8
  BY FitAssumption
<1> QED
  BY <1>2, <1>3 DEF Programs, Fits, TwoFiles, TwoPages, PageWords

\* The program that is read is the one of its place in the command line.
LEMMA ReadsItsFiles ==
    ASSUME VInv, FinishCreate
    PROVE  \E p \in 0..6 :
              /\ p = NewPid /\ Remaining(p) /\ p + 1 \in DOMAIN view.line
              /\ TwoFiles(view.line[p + 1])
              /\ ProgramRead(mem, mem', p, view.line[p + 1])
<1>1. PICK p \in 0..7 : p = NewPid
  BY DEF VInv, IInv
<1>2. /\ status = "create" /\ args \in Seq(Programs) /\ args # <<>> /\ Len(frames) = 4
      /\ frames = [k \in 1..4 |-> 2 + 4 * p + k] /\ Fresh(mem, p, 4)
  BY <1>1 DEF VInv, IInv, FinishCreate, Creating
<1>3. p <= 6
  <2>1. 4 \in 1..4
    OBVIOUS
  <2>2. 2 + 4 * p + 4 <= 31
    BY <1>2, <2>1 DEF Fresh
  <2> QED
    BY <2>2
<1>4. Remaining(p)
  BY <1>1, <1>2, <1>3 DEF VInv, ToLoad
<1>5. PICK line \in CommandLines : line = view.line /\ line \in Seq(Programs)
  BY InputAssumption DEF VInv, ViewOK
<1>6. p + 1 \in DOMAIN line /\ Head(args) = line[p + 1]
  <2>1. Len(args) \in Nat /\ Len(args) >= 1 /\ Head(args) = args[1]
    BY <1>2
  <2>2. 1 \in 1..Len(args)
    BY <2>1
  <2>3. args[1] = line[p + 1] /\ Len(line) = p + Len(args)
    BY <1>4, <1>5, <2>2 DEF Remaining
  <2> QED
    BY <1>1, <1>5, <2>1, <2>3
<1>7. PICK program : program = line[p + 1] /\ TwoFiles(program)
  BY <1>6, ProgramsFit
<1>8. PICK p1, p2 : p1 = SubSeq(frames, 1, 2) /\ p2 = SubSeq(frames, 3, 4)
  OBVIOUS
<1>9. PICK f1, f3 : f1 = 3 + 4 * p /\ f3 = 5 + 4 * p /\ TwoFrames(p1, f1) /\ TwoFrames(p2, f3)
  <2>1. frames \in Seq(Int) /\ frames[1] = 3 + 4 * p /\ frames[2] = 4 + 4 * p
        /\ frames[3] = 5 + 4 * p /\ frames[4] = 6 + 4 * p
    BY <1>2
  <2>2. p1[1] = frames[1] /\ p1[2] = frames[2] /\ p2[1] = frames[3] /\ p2[2] = frames[4]
    BY <1>2, <1>8, <2>1
  <2>3. 3 + 4 * p \in 3..30 /\ 4 + 4 * p \in 3..30 /\ 5 + 4 * p \in 3..30 /\ 6 + 4 * p \in 3..30
    BY <1>3
  <2>4. TwoFrames(p1, 3 + 4 * p) /\ TwoFrames(p2, 5 + 4 * p)
    BY <2>1, <2>2, <2>3 DEF TwoFrames
  <2> QED
    BY <2>4
<1>10. PICK code, heap : code = program.code /\ heap = program.heap
                         /\ TwoPages(code) /\ TwoPages(heap)
  BY <1>7 DEF TwoFiles
<1>11. PICK l, m : l = LdImg(mem, code, p1) /\ m = LdImg(l, heap, p2) /\ mem' = Poke(m, 1, p + 1)
  BY <1>1, <1>6, <1>7, <1>8, <1>10 DEF FinishCreate
<1>12. LoadedAt(mem, l, code, f1) /\ LoadedAt(l, m, heap, f3)
  BY <1>9, <1>10, <1>11, LdImgPeeks
<1>13. Peek(mem', 1) = p + 1 /\ \A b : b # 1 => Peek(mem', b) = Peek(m, b)
  BY <1>11, PeekPoke
<1>14. CodeAt(p) = f1 * 2048 /\ HeapAt(p) = f3 * 2048
  BY <1>9 DEF CodeAt, HeapAt
<1>15. ProgramRead(mem, mem', p, program)
  BY <1>10, <1>12, <1>13, <1>14 DEF LoadedAt, ProgramRead
<1> QED
  BY <1>1, <1>3, <1>4, <1>5, <1>6, <1>7, <1>15

\* A step of main that creates no process.
LEMMA StillToLoad ==
    ASSUME VInv, status \in {"boot", "create"}, NewPid' = NewPid, UNCHANGED <<args, view>>,
           \A b \in Int : 6144 <= b => Peek(mem', b) = Peek(mem, b)
    PROVE  ToLoad' /\ Blank'
<1>1. PICK n \in 0..7 : n = NewPid /\ n = NewPid'
  BY DEF VInv, IInv
<1>2. BlankFrom(mem', n)
  <2>1. BlankFrom(mem, n)
    BY <1>1 DEF VInv, Blank
  <2> QED
    BY <2>1 DEF BlankFrom, FirstBlank
<1> QED
  BY <1>1, <1>2 DEF VInv, ToLoad, Blank, Remaining

LEMMA BootKeepsToLoad == ASSUME VInv, Boot, UNCHANGED view PROVE ToLoad' /\ Blank'
<1>0. PICK n \in 0..7 : n = NewPid
  BY DEF VInv, IInv
<1>1. CASE BeginCreate
  <2>1. \A b \in Int : 6144 <= b => Peek(mem', b) = Peek(mem, b)
    BY <1>1, BeginsBelow DEF VInv
  <2>2. status = "boot" /\ NewPid' = NewPid /\ UNCHANGED args
    BY <1>1, BeginsBelow DEF BeginCreate, VInv
  <2> QED
    BY <2>1, <2>2, StillToLoad
<1>2. CASE AllocSegmentPage
  <2>0. PICK p \in 0..7, g \in 0..3, v \in 0..31, f \in 3..31 : \E write : Allocates(p, g, v, f, write)
    BY <1>2, AllocTakes DEF VInv
  <2>1. PICK write : Allocates(p, g, v, f, write)
    BY <2>0
  <2>2. PICK m, pte : m = mem' /\ Takes(mem, m, f, p, v, pte)
    <3>1. Sound(mem) /\ IsFree(mem, f)
      BY <2>1 DEF VInv, IInv, Allocates, FirstFree
    <3>2. mem' = Taken(mem, f, EntryAt(p, v), NewPte(f, TRUE, write))
      BY <2>1 DEF Allocates
    <3>3. Takes(mem, mem', f, p, v, NewPte(f, TRUE, write))
      BY <3>1, <3>2, TakenSound
    <3> QED
      BY <3>3
  <2>3. \A b : b \notin {3, 4, EntryAt(p, v)} => Peek(mem', b) = Peek(mem, b)
    BY <2>2 DEF Takes
  <2>4. EntryAt(p, v) \in Int /\ 4096 <= EntryAt(p, v) /\ EntryAt(p, v) < 6144
    BY EntryBounds, WordBounds
  <2>5. NewPid' = NewPid /\ \A b \in Int : 6144 <= b => Peek(mem', b) = Peek(mem, b)
    BY <2>3, <2>4 DEF NewPid
  <2>6. status = "create" /\ UNCHANGED args
    BY <1>2 DEF AllocSegmentPage
  <2> QED
    BY <2>5, <2>6, StillToLoad
<1>3. CASE CreateFails
  <2>1. n = 7 /\ mem' = FreeMem(mem, {6}, TableAt(7)) /\ status = "create"
    BY <1>0, <1>3, LastFails DEF VInv, CreateFails
  <2>2. Frees(mem, mem', {6}, 7)
    BY <2>1, FreedSound DEF VInv, IInv
  <2>3. \A b \in Int : b = 1 \/ 6144 <= b => Peek(mem', b) = Peek(mem, b)
    BY <2>2 DEF Frees, InTables
  <2>4. NewPid' = 7
    BY <1>0, <2>1, <2>3 DEF NewPid
  <2>5. BlankFrom(mem, 7)
    BY <1>0, <2>1 DEF VInv, Blank
  <2> QED
    BY <2>3, <2>4, <2>5 DEF ToLoad, Blank, BlankFrom, FirstBlank
<1>4. CASE FinishCreate
  <2>1. PICK p \in 0..6 :
          /\ p = NewPid /\ Remaining(p) /\ p + 1 \in DOMAIN view.line
          /\ TwoFiles(view.line[p + 1]) /\ ProgramRead(mem, mem', p, view.line[p + 1])
    BY <1>4, ReadsItsFiles
  <2>2. PICK program : program = view.line[p + 1] /\ TwoPages(program.code) /\ TwoPages(program.heap)
    BY <2>1 DEF TwoFiles
  <2>3. PICK c \in Nat, h \in Nat : c = Len(program.code) /\ h = Len(program.heap) /\ c <= 4096 /\ h <= 4096
    BY <2>2 DEF TwoPages
  <2>4. NewPid' = p + 1
    BY <2>1 DEF ProgramRead, NewPid
  <2>5. BlankFrom(mem', p + 1)
    <3>1. SUFFICES ASSUME NEW b \in Int, FirstBlank(p + 1) <= b PROVE Peek(mem', b) = 0
      BY DEF BlankFrom
    <3>2. /\ CodeAt(p) + c <= b /\ HeapAt(p) + h <= b /\ b # 1 /\ FirstBlank(p) <= b
          /\ CodeAt(p) \in Int /\ HeapAt(p) \in Int
      <4>1. CodeAt(p) = 6144 + 8192 * p /\ HeapAt(p) = 10240 + 8192 * p
            /\ FirstBlank(p) = 6144 + 8192 * p /\ FirstBlank(p + 1) = 14336 + 8192 * p
        BY DEF CodeAt, HeapAt, FirstBlank
      <4>2. PICK x \in Int : x = 8192 * p /\ 0 <= x
        OBVIOUS
      <4>3. 14336 + x <= b
        BY <3>1, <4>1, <4>2
      <4>4. CodeAt(p) = 6144 + x /\ HeapAt(p) = 10240 + x /\ FirstBlank(p) = 6144 + x
        BY <4>1, <4>2
      <4>5. c \in Int /\ h \in Int /\ c <= 4096 /\ h <= 4096
        BY <2>3
      <4>6. 6144 + x + c <= b /\ 10240 + x + h <= b /\ b # 1 /\ 6144 + x <= b
        BY <4>2, <4>3, <4>5
      <4> QED
        BY <4>2, <4>4, <4>6
    <3>3. Peek(mem', b) = Peek(mem, b)
      BY <2>1, <2>2, <2>3, <3>2, SMTT(30) DEF ProgramRead
    <3>4. BlankFrom(mem, p)
      BY <1>4, <2>1 DEF VInv, Blank, FinishCreate
    <3> QED
      BY <3>2, <3>3, <3>4 DEF BlankFrom
  <2>6. Remaining(p + 1)'
    <3>1. args \in Seq(Programs) /\ args # <<>> /\ args' = Tail(args)
      BY <1>4 DEF VInv, IInv, FinishCreate, Creating
    <3>2. PICK l \in Nat : l = Len(args) /\ l >= 1 /\ Len(args') = l - 1
                            /\ \A k \in 1..(l - 1) : args'[k] = args[k + 1]
      BY <3>1
    <3>3. ASSUME NEW k \in 1..(l - 1) PROVE args'[k] = view.line[(p + 1) + k]
      <4>1. k + 1 \in 1..l /\ p + (k + 1) = (p + 1) + k
        OBVIOUS
      <4> QED
        BY <2>1, <3>2, <4>1 DEF Remaining
    <3>4. Len(view.line) = (p + 1) + (l - 1)
      BY <2>1, <3>2 DEF Remaining
    <3> QED
      BY <3>2, <3>3, <3>4 DEF Remaining
  <2> QED
    BY <2>4, <2>5, <2>6 DEF ToLoad, Blank
<1>5. CASE FileMissing \/ LoadFirstProc
  BY <1>5 DEF FileMissing, LoadFirstProc, ToLoad, Blank
<1> QED
  BY <1>1, <1>2, <1>3, <1>4, <1>5 DEF Boot

LEMMA NextKeepsVInv == VInv /\ [ViewNext]_allVars => VInv'
<1> SUFFICES ASSUME VInv, [ViewNext]_allVars PROVE VInv'
  OBVIOUS
<1>1. [Next]_vars /\ UNCHANGED view
  BY DEF ViewNext, allVars
<1>2. IInv'
  BY <1>1, NextKeeps DEF VInv
<1>3. ViewOK'
  BY <1>1 DEF VInv, ViewOK, InPage, ABit
<1>4. ToLoad' /\ Blank'
  <2>1. CASE Boot
    BY <1>1, <2>1, BootKeepsToLoad
  <2>2. CASE Fault \/ FetchReserved \/ WildTrap \/ Plain \/ Call
    <3>1. status' \notin {"boot", "create"}
      <4>1. CASE Fault
        BY <4>1 DEF Fault, FetchFault, PointerFault, LoadFault, StoreFault, Exit
      <4>2. CASE FetchReserved \/ WildTrap
        BY <4>2 DEF FetchReserved, WildTrap
      <4>3. CASE Br \/ Add \/ And \/ Not \/ Lea \/ Jsr \/ Jmp \/ Unused
        BY <4>3 DEF Br, Add, And, Not, Lea, Jsr, Jmp, Unused, Executes, computing
      <4>4. CASE Load \/ Store
        BY <4>4 DEF Load, Loading, Store, Executes
      <4>5. CASE Getc \/ In \/ Out \/ Puts \/ Putsp \/ Inu16 \/ Outu16
        BY <4>5 DEF Getc, In, Out, Puts, Putsp, Inu16, Outu16, Trap, Executes, computing
      <4>6. CASE Brk \/ Yield \/ YieldAlone
        BY <4>6 DEF Brk, Yield, YieldAlone, Trap, Executes, computing
      <4>7. CASE Halt \/ HaltLast
        BY <4>7 DEF Halt, HaltLast, Trap, Executes
      <4> QED
        BY <2>2, <4>1, <4>2, <4>3, <4>4, <4>5, <4>6, <4>7 DEF Plain, Call
    <3> QED
      BY <3>1 DEF ToLoad, Blank
  <2>3. CASE UNCHANGED vars
    BY <1>1, <2>3 DEF vars, VInv, ToLoad, Blank, NewPid, Remaining
  <2> QED
    BY <1>1, <2>1, <2>2, <2>3 DEF Next
<1> QED
  BY <1>2, <1>3, <1>4 DEF VInv

-----------------------------------------------------------------------------
(* The state as Vm sees it                                                  *)

LEMMA TablesByBase == ASSUME NEW p \in 0..7 PROVE TableOf(TableAt(p)) = p
  BY DEF TableOf, TableAt

\* The entry that the process's table has for a page.
LEMMA EntrySeen ==
    ASSUME IInv, Serving, NEW v \in 0..31, NEW w
    PROVE  V(w)!Entry(v) = EntryOf(Peek(mem, reg[PTBR] + v))
<1>1. PICK p \in 0..7 : p = Current /\ reg[PTBR] = TableAt(p)
  BY DEF Serving
<1>2. TableOf(reg[PTBR]) = p
  BY <1>1, TablesByBase
<1>3. PageTables(mem)[p][v] = EntryOf(Peek(mem, TableAt(p) + v))
  BY DEF PageTables
<1> QED
  BY <1>1, <1>2, <1>3 DEF V!Entry

LEMMA RightsSeen ==
    ASSUME IInv, Serving, NEW a \in Word, NEW w
    PROVE  /\ V(w)!CanRead(Vpn(a)) <=> Valid(Pte(a)) /\ Readable(Pte(a))
           /\ V(w)!CanWrite(Vpn(a)) <=> Valid(Pte(a)) /\ Writable(Pte(a))
<1>1. PICK v \in 0..31 : v = Vpn(a)
  BY VpnBounds
<1>2. V(w)!Entry(v) = EntryOf(Pte(a))
  BY <1>1, EntrySeen DEF Pte
<1>3. V(w)!CanRead(v) <=> Valid(Pte(a)) /\ Readable(Pte(a))
  BY <1>2, EntryFields DEF V!CanRead, Nothing
<1>4. V(w)!CanWrite(v) <=> Valid(Pte(a)) /\ Writable(Pte(a))
  BY <1>2, EntryFields DEF V!CanWrite, Nothing
<1> QED
  BY <1>1, <1>3, <1>4

\* A process that fetches an instruction.
LEMMA FetchedSeen ==
    ASSUME IInv, Fetching, NEW w
    PROVE  V(w)!Fetched /\ Serving
<1>1. Serving
  BY InService DEF Fetching
<1>2. reg[RPC] \in Word
  BY DEF IInv, RPC
<1>3. V(w)!CanRead(Vpn(reg[RPC]))
  BY <1>1, <1>2, RightsSeen DEF Fetching, CanRead
<1> QED
  BY <1>1, <1>3 DEF V!Fetched, Fetching

\* The counter has gone on by a word: it is in the same page or in the next one.
LEMMA AdvancedSeen ==
    ASSUME IInv, NEW w
    PROVE  Vpn(Pc) \in V(w)!Advanced
<1>1. PICK x \in Word : x = reg[RPC]
  BY DEF IInv, RPC
<1>2. PICK v \in 0..31 : v = Vpn(x)
  BY VpnBounds
<1>3. Vpn(Pc) = v \/ Vpn(Pc) = (v + 1) % 32
  <2>1. x \in Int /\ 0 <= x /\ x <= 65535
    BY WordBounds
  <2>2. v = x \div 2048
    BY <1>2 DEF Vpn, PageWords
  <2>3. CASE x = 65535
    <3>1. Pc = 0 /\ v = 31
      BY <1>1, <2>2, <2>3 DEF Pc, Wrap
    <3> QED
      BY <3>1 DEF Vpn, PageWords
  <2>4. CASE x < 65535
    <3>1. Pc = x + 1
      BY <1>1, <2>1, <2>4 DEF Pc, Wrap
    <3>2. Vpn(Pc) = (x + 1) \div 2048
      BY <3>1 DEF Vpn, PageWords
    <3>3. (x + 1) \div 2048 = v \/ (x + 1) \div 2048 = v + 1
      BY <2>1, <2>2
    <3>4. (x + 1) \div 2048 <= 31
      BY <2>1, <2>4
    <3> QED
      BY <3>2, <3>3, <3>4
  <2> QED
    BY <2>1, <2>3, <2>4
<1> QED
  BY <1>1, <1>2, <1>3 DEF V!Advanced

-----------------------------------------------------------------------------
(* The first state.                                                         *)

LEMMA InitInVm == ASSUME ViewInit, NEW w, w = view PROVE V(w)!Init
<1>1. Init /\ args \in CommandLines /\ shown = NoDelivery
  BY DEF ViewInit, Init
<1>2. /\ status = "boot" /\ frames = <<>> /\ mem = InitOS /\ reg = [r \in 0..10 |-> 0]
  BY <1>1 DEF Init
<1>3. Len(args) \in 0..8
  <2>1. args \in Seq(Programs)
    BY <1>1, InputAssumption
  <2>2. Len(args) \in Nat
    BY <2>1
  <2>3. Len(args) <= 8
    BY <1>1, FitAssumption
  <2>4. \A l \in Nat : l <= 8 => l \in 0..8
    OBVIOUS
  <2> QED
    BY <2>2, <2>3, <2>4, Zenon
<1>4. Peek(mem, 0) = 65535 /\ Peek(mem, 1) = 0 /\ Peek(mem, 3) = 8191 /\ Peek(mem, 4) = 65535
      /\ \A b : b \notin {0, 3, 4} => Peek(mem, b) = 0
  BY <1>2, InitPeeks
<1>5. FreeFrames(mem) = 3..31
  <2>1. ASSUME NEW f \in 3..31 PROVE IsFree(mem, f)
    <3>1. CASE f < 16
      <4>1. BitmapWord(f) = 3 /\ BitmapBit(f) \in 0..12
        BY <3>1 DEF BitmapWord, BitmapBit
      <4> QED
        BY <1>4, <4>1, BitsAtFirst DEF IsFree
    <3>2. CASE f >= 16
      <4>1. BitmapWord(f) = 4 /\ BitmapBit(f) \in 0..15
        BY <3>2 DEF BitmapWord, BitmapBit
      <4> QED
        BY <1>4, <4>1, BitsAtFirst DEF IsFree
    <3> QED
      BY <3>1, <3>2
  <2>2. Sound(mem)
    BY <1>2, InitSound
  <2> QED
    BY <2>1, <2>2, FreeAreUsers
<1>6. Blocks(mem) = [p \in 0..7 |-> [pid |-> 0, pc |-> 0, ptbr |-> 0]]
  <2>0. PICK block : block = [pid |-> 0, pc |-> 0, ptbr |-> 0]
    OBVIOUS
  <2>1. ASSUME NEW p \in 0..7 PROVE PcbOf(mem, p) = block
    <3>1. PcbAt(p) \notin {0, 3, 4} /\ PcbAt(p) + 1 \notin {0, 3, 4} /\ PcbAt(p) + 2 \notin {0, 3, 4}
      BY DEF PcbAt
    <3>2. Peek(mem, PcbAt(p)) = 0 /\ Peek(mem, PcbAt(p) + 1) = 0 /\ Peek(mem, PcbAt(p) + 2) = 0
      BY <1>4, <3>1
    <3>3. Vpn(0) = 0
      BY DEF Vpn, PageWords
    <3> QED
      BY <2>0, <3>2, <3>3 DEF PcbOf, PidOf, Dead, TableOf
  <2>2. Blocks(mem) = [p \in 0..7 |-> block]
    BY <2>1 DEF Blocks
  <2> QED
    BY <2>0, <2>2
<1>7. PageTables(mem) = [p \in 0..7 |-> [v \in 0..31 |-> Nothing]]
  <2>1. ASSUME NEW p \in 0..7, NEW v \in 0..31 PROVE EntryOf(Peek(mem, TableAt(p) + v)) = Nothing
    <3>1. TableAt(p) + v \notin {0, 3, 4}
      BY TableBounds
    <3> QED
      BY <1>4, <3>1, ZeroIsInvalid, EntryFields
  <2> QED
    BY <2>1 DEF PageTables
<1>8. Contents(mem, w) = [f \in 0..31 |-> 0]
  <2>1. w.bit \in 0..15 /\ InPage(w)
    BY InitVInv DEF VInv, ViewOK, ABit
  <2>2. Bit(0, w.bit) = 0
    <3>1. /\ Bit(0, 0) = 0 /\ Bit(0, 1) = 0 /\ Bit(0, 2) = 0 /\ Bit(0, 3) = 0
          /\ Bit(0, 4) = 0 /\ Bit(0, 5) = 0 /\ Bit(0, 6) = 0 /\ Bit(0, 7) = 0
          /\ Bit(0, 8) = 0 /\ Bit(0, 9) = 0 /\ Bit(0, 10) = 0 /\ Bit(0, 11) = 0
          /\ Bit(0, 12) = 0 /\ Bit(0, 13) = 0 /\ Bit(0, 14) = 0 /\ Bit(0, 15) = 0
      BY DEF Bit, Field
    <3> QED
      BY <2>1, <3>1
  <2>3. ASSUME NEW f \in 3..31 PROVE Peek(mem, SeenAt(f, w)) = 0
    <3>1. SeenAt(f, w) \notin {0, 3, 4}
      BY <2>1, SeenBounds
    <3> QED
      BY <1>4, <3>1
  <2> QED
    BY <2>2, <2>3 DEF Contents, SeenAt
<1>9. Vpn(reg[RPC]) = 0 /\ TableOf(reg[PTBR]) = 0
  BY <1>2 DEF Vpn, PageWords, RPC, PTBR, TableOf
<1> QED
  BY <1>1, <1>2, <1>3, <1>4, <1>5, <1>6, <1>7, <1>8, <1>9
  DEF V!Init, V!Pids, V!Vpns, V!Frames, V!UserFrames, V!NoPage, V!Terminated, V!Nothing, Nothing,
      NoDelivery, Current, ProcessOf

-----------------------------------------------------------------------------
(* The steps of run that change nothing but registers                       *)

SameView(w) ==
    /\ Peek(mem', 0) = Peek(mem, 0) /\ Peek(mem', 1) = Peek(mem, 1)
    /\ Blocks(mem') = Blocks(mem) /\ PageTables(mem') = PageTables(mem)
    /\ FreeFrames(mem') = FreeFrames(mem) /\ Contents(mem', w) = Contents(mem, w)

LEMMA MovesInVm ==
    ASSUME IInv, Fetching, NEW w, SameView(w), UNCHANGED <<status, args, frames>>,
           shown' = NoDelivery, Moves
    PROVE  V(w)!Next
<1>1. V(w)!Fetched
  BY FetchedSeen
<1>2. PICK v \in 0..31 : v = Vpn(reg[RPC])'
  <2>1. reg'[RPC] \in Word
    BY DEF RPC, Moves
  <2>2. Vpn(reg'[RPC]) \in 0..31
    BY <2>1, VpnBounds
  <2> QED
    BY <2>2
<1>3. V(w)!Jump(v)
  BY <1>1, <1>2
  DEF Moves, SameView, V!Jump, V!os, V!memory, V!process, Current, V!Nothing, NoDelivery
<1> QED
  BY <1>3 DEF V!Next, V!Instruction

LEMMA SameMemoryIsSameView == ASSUME NEW w, UNCHANGED mem PROVE SameView(w)
  BY DEF SameView

\* A step that leaves memory as it is, and does not show a word of it.
LEMMA QuietInVm ==
    ASSUME IInv, Quiet, shown' = NoDelivery, NEW w
    PROVE  V(w)!Next
<1>1. Moves /\ Fetching /\ UNCHANGED <<status, args, frames, mem>>
  BY QuietMoves, QuietLeaves
<1>2. SameView(w)
  BY <1>1, SameMemoryIsSameView
<1> QED
  BY <1>1, <1>2, MovesInVm

-----------------------------------------------------------------------------
(* Faults and calls through a wild word                                     *)

Stays == UNCHANGED <<args, frames, mem, reg>> /\ shown' = NoDelivery

LEMMA FaultInVm == ASSUME IInv, Fault, Stays, NEW w PROVE V(w)!Next
<1>1. status' = "exited" /\ status = "running"
  BY DEF Fault, FetchFault, PointerFault, LoadFault, StoreFault, Exit, Executes
<1>2. UNCHANGED <<V(w)!os, V(w)!memory, V(w)!cpu>> /\ shown' = V(w)!Nothing
  BY DEF Stays, V!os, V!memory, V!cpu, V!process, Current, V!Nothing, NoDelivery
<1>3. CASE FetchFault
  <2>0. ~CanRead(reg[RPC])
    BY <1>3 DEF FetchFault
  <2>1. reg[RPC] \in Word /\ Vpn(reg[RPC]) # 0 /\ ~CanRead(reg[RPC])
    BY <2>0 DEF CanRead, IInv, RPC
  <2>2. Serving
    BY <1>1, <2>1, InService
  <2>3. ~V(w)!CanRead(Vpn(reg[RPC]))
    BY <2>1, <2>2, RightsSeen DEF CanRead
  <2>4. V(w)!FetchFault
    BY <1>1, <1>2, <2>1, <2>3 DEF V!FetchFault
  <2> QED
    BY <2>4 DEF V!Next
<1>4. CASE ~FetchFault
  <2>1. PICK a \in Word : Fetching /\ (~CanRead(a) \/ ~CanWrite(a))
    <3>1. Relative \in Word
      BY WordsRead
    <3>2. CASE PointerFault
      BY <3>1, <3>2 DEF PointerFault, Executes, HasAddress, Fetching
    <3>3. CASE LoadFault
      BY <3>3, AddressIsWord DEF LoadFault, Executes, Fetching
    <3>4. CASE StoreFault
      BY <3>4, AddressIsWord DEF StoreFault, Executes, Fetching
    <3> QED
      BY <1>4, <3>2, <3>3, <3>4 DEF Fault
  <2>2. V(w)!Fetched /\ Serving
    BY <2>1, FetchedSeen
  <2>3. PICK v \in 0..31 : v = Vpn(a)
    BY VpnBounds
  <2>4. v # 0 /\ (~V(w)!CanRead(v) \/ ~V(w)!CanWrite(v))
    BY <2>1, <2>2, <2>3, RightsSeen DEF CanRead, CanWrite
  <2>5. V(w)!AccessFault(v)
    BY <1>1, <1>2, <2>2, <2>4 DEF V!AccessFault
  <2> QED
    BY <2>5 DEF V!Next, V!Instruction
<1> QED
  BY <1>3, <1>4

LEMMA WildInVm == ASSUME IInv, WildTrap \/ FetchReserved, Stays, NEW w PROVE V(w)!Next
<1>1. UNCHANGED <<V(w)!os, V(w)!memory, V(w)!cpu>> /\ shown' = V(w)!Nothing
  BY DEF Stays, V!os, V!memory, V!cpu, V!process, Current, V!Nothing, NoDelivery
<1>2. CASE WildTrap
  <2>1. Fetching /\ status' = "wild"
    BY <1>2 DEF WildTrap, Executes, Fetching
  <2>2. V(w)!WildTrap
    BY <1>1, <2>1, FetchedSeen DEF V!WildTrap
  <2> QED
    BY <2>2 DEF V!Next, V!Instruction
<1>3. CASE FetchReserved
  <2>1. V(w)!FetchReserved
    BY <1>1, <1>3 DEF FetchReserved, V!FetchReserved
  <2> QED
    BY <2>1 DEF V!Next
<1> QED
  BY <1>2, <1>3

-----------------------------------------------------------------------------
(* Loads and stores                                                         *)

LEMMA ContentsAt ==
    ASSUME NEW m, NEW w, NEW f \in 3..31
    PROVE  Contents(m, w)[f] = Bit(Peek(m, SeenAt(f, w)), w.bit)
  BY DEF Contents, SeenAt

\* The frame behind an address, and the word of it that is looked at.
LEMMA FrameBehind ==
    ASSUME IInv, Serving, NEW a \in Word, Valid(Pte(a)), NEW w
    PROVE  /\ FrameIn(Pte(a)) \in 3..31
           /\ V(w)!Entry(Vpn(a)).pfn = FrameIn(Pte(a))
           /\ a % PageWords = w.offset => Physical(a) = SeenAt(FrameIn(Pte(a)), w)
<1>1. PICK p \in 0..7 : p = Current /\ reg[PTBR] = TableAt(p)
  BY DEF Serving
<1>2. PICK v \in 0..31 : v = Vpn(a)
  BY VpnBounds
<1>3. Pte(a) = Entry(mem, p, v)
  BY <1>1, <1>2 DEF Pte, Entry, EntryAt
<1>4. Entry(mem, p, v) # 0 /\ Pte(a) \in Word
  BY <1>3, ZeroIsInvalid, PeekWord DEF IInv, Sound, Entry
<1>5. FrameIn(Pte(a)) >= 3
  BY <1>3, <1>4 DEF IInv, Sound, Tables
<1>6. FrameIn(Pte(a)) \in 3..31
  BY <1>4, <1>5, FrameBounds
<1>7. V(w)!Entry(Vpn(a)).pfn = FrameIn(Pte(a))
  <2>1. V(w)!Entry(v) = EntryOf(Pte(a))
    BY <1>2, EntrySeen DEF Pte
  <2> QED
    BY <1>2, <2>1, EntryFields
<1> QED
  BY <1>6, <1>7 DEF Physical, SeenAt

LEMMA LoadInVm ==
    ASSUME VInv, Load, shown' = ShownByLoad, NEW w, w = view
    PROVE  V(w)!Next
<1>1. Loading /\ Result(Mr(Address)) /\ UNCHANGED <<status, args, frames, mem>>
  BY DEF Load
<1>2. IInv /\ Fetching /\ CanRead(Address) /\ OPC(Ir) \in Reading
  BY <1>1 DEF VInv, Loading, Executes, Fetching
<1>3. CASE ~LookedAt(Address)
  BY <1>2, <1>3, QuietInVm DEF Quiet, ShownByLoad
<1>4. CASE LookedAt(Address)
  <2>1. PICK a \in Word : a = Address
    BY <1>2, AddressIsWord
  <2>2. PICK v \in 0..31 : v = Vpn(a)
    BY VpnBounds
  <2>3. V(w)!Fetched /\ Serving
    BY <1>2, FetchedSeen
  <2>4. shown' = <<"load", v, Bit(Mr(a), w.bit)>>
    BY <1>4, <2>1, <2>2 DEF ShownByLoad, BitAt
  <2>5. Vpn(reg'[RPC]) \in V(w)!Advanced /\ reg'[PTBR] = reg[PTBR]
    <3>1. DR(Ir) \in 0..7 /\ reg \in [0..10 -> Word]
      BY <1>2, WordsRead, FieldBounds DEF IInv
    <3>2. reg'[RPC] = Pc
      BY <1>1, <3>1 DEF Result, RPC, RCND
    <3>3. Moves
      BY <1>2, QuietMoves DEF Quiet
    <3> QED
      BY <1>2, <3>2, <3>3, AdvancedSeen DEF Moves
  <2>6. \/ v = 0 /\ shown' = <<"load", v, 1>>
        \/ v # 0 /\ V(w)!CanRead(v) /\ shown' = <<"load", v, Contents(mem, w)[V(w)!Entry(v).pfn]>>
    <3>1. CASE v = 0
      <4>1. PICK k \in 0..15 : k = w.bit
        BY DEF VInv, ViewOK, ABit
      <4>2. Mr(a) = 65535
        BY <2>2, <3>1 DEF Mr
      <4>3. Bit(65535, k) = 1
        BY BitsAtFirst
      <4>4. shown' = <<"load", v, 1>>
        BY <2>4, <4>1, <4>2, <4>3
      <4> QED
        BY <3>1, <4>4
    <3>2. CASE v # 0
      <4>1. Valid(Pte(a)) /\ Readable(Pte(a)) /\ V(w)!CanRead(v)
        BY <1>2, <2>1, <2>2, <2>3, <3>2, RightsSeen DEF CanRead
      <4>2. PICK f \in 3..31 : f = FrameIn(Pte(a)) /\ V(w)!Entry(v).pfn = f /\ Physical(a) = SeenAt(f, w)
        BY <1>2, <1>4, <2>1, <2>2, <2>3, <4>1, FrameBehind DEF LookedAt
      <4>3. shown' = <<"load", v, Bit(Peek(mem, SeenAt(f, w)), w.bit)>>
        BY <2>2, <2>4, <3>2, <4>2 DEF Mr
      <4> QED
        BY <3>2, <4>1, <4>2, <4>3, ContentsAt
    <3> QED
      BY <3>1, <3>2
  <2>7. V(w)!Load(v)
    BY <1>1, <2>3, <2>5, <2>6 DEF V!Load, V!AllOnes, V!os, V!memory, V!process, Current
  <2> QED
    BY <2>7 DEF V!Next, V!Instruction
<1> QED
  BY <1>3, <1>4

LEMMA OffsetBounds ==
    ASSUME NEW w, InPage(w)
    PROVE  \E o \in Int : o = w.offset /\ 0 <= o /\ o <= 2047
<1>1. PICK o \in 0..2047 : o = w.offset
  BY DEF InPage, PageWords
<1>2. o \in Int /\ 0 <= o /\ o <= 2047
  OBVIOUS
<1>3. o \in Int
  BY <1>2
<1> WITNESS o \in Int
<1> QED
  BY <1>1, <1>2

\* A word that is written to a frame is looked at, or is not.
LEMMA ContentsPoke ==
    ASSUME NEW m, NEW w, InPage(w), NEW f \in 3..31, NEW r \in Int, 0 <= r, r <= 2047, NEW word, NEW n,
           n = Poke(m, f * 2048 + r, word)
    PROVE  /\ r = w.offset => Contents(n, w) = [Contents(m, w) EXCEPT ![f] = Bit(word, w.bit)]
           /\ r # w.offset => Contents(n, w) = Contents(m, w)
<1>1. PICK o \in Int : o = w.offset /\ 0 <= o /\ o <= 2047
  BY OffsetBounds
<1>2. PICK x \in Int : x = f * 2048 + r
  OBVIOUS
<1>3. \A b : Peek(n, b) = IF b = x THEN word ELSE Peek(m, b)
  BY <1>2, PeekPoke
<1>4. \A g \in 0..31 : SeenAt(g, w) = g * 2048 + o
  BY <1>1 DEF SeenAt, PageWords
<1>5. ASSUME NEW g \in 3..31 PROVE SeenAt(g, w) = x <=> g = f /\ r = o
  <2>1. g \in 0..31
    OBVIOUS
  <2>2. g * 2048 + o = f * 2048 + r <=> g = f /\ r = o
    BY <1>1
  <2> QED
    BY <1>2, <1>4, <2>1, <2>2
<1>6. ASSUME NEW g \in 3..31, g # f \/ r # o PROVE Peek(n, SeenAt(g, w)) = Peek(m, SeenAt(g, w))
  BY <1>3, <1>5, <1>6
<1>7. r = o => Peek(n, SeenAt(f, w)) = word
  BY <1>3, <1>5
<1>8. \A g \in 0..31 : g < 3 \/ g \in 3..31
  OBVIOUS
<1>9. CASE r = o
  <2>1. ASSUME NEW g \in 0..31, g # f PROVE Contents(n, w)[g] = Contents(m, w)[g]
    BY <1>6, <1>8, <2>1 DEF Contents, SeenAt
  <2>2. Contents(n, w)[f] = Bit(word, w.bit)
    BY <1>7, <1>9, ContentsAt
  <2>3. /\ Contents(n, w) = [g \in 0..31 |-> Contents(n, w)[g]]
        /\ Contents(m, w) = [g \in 0..31 |-> Contents(m, w)[g]]
    BY DEF Contents
  <2>4. PICK bit : bit = Bit(word, w.bit)
    OBVIOUS
  <2>5. Contents(n, w) = [Contents(m, w) EXCEPT ![f] = bit]
    BY <2>1, <2>2, <2>3, <2>4
  <2>6. Contents(n, w) = [Contents(m, w) EXCEPT ![f] = Bit(word, w.bit)]
    BY <2>4, <2>5
  <2> QED
    BY <1>1, <1>9, <2>6
<1>10. CASE r # o
  BY <1>1, <1>6, <1>8, <1>10 DEF Contents, SeenAt
<1> QED
  BY <1>1, <1>9, <1>10

LEMMA StoreInVm ==
    ASSUME VInv, Store, shown' = NoDelivery, NEW w, w = view
    PROVE  V(w)!Next
<1>1. /\ IInv /\ InPage(w) /\ Fetching /\ CanWrite(Address) /\ OPC(Ir) \in Writing
      /\ Goto(Pc) /\ Mw(Address, reg[DR(Ir)]) /\ UNCHANGED <<status, args, frames>>
  BY DEF VInv, ViewOK, Store, Executes, Fetching
<1>2. PICK a \in Word : a = Address
  BY <1>1, AddressIsWord
<1>3. PICK v \in 0..31 : v = Vpn(a)
  BY VpnBounds
<1>4. PICK word \in Word : word = reg[DR(Ir)]
  BY <1>1, OperandsAreWords
<1>5. V(w)!Fetched /\ Serving
  BY <1>1, FetchedSeen
<1>6. Moves
  BY <1>1, WordsRead, GotoMoves
<1>7. CASE v = 0
  <2>1. UNCHANGED mem
    BY <1>1, <1>2, <1>3, <1>7 DEF Mw
  <2> QED
    BY <1>1, <1>6, <2>1, SameMemoryIsSameView, MovesInVm
<1>8. CASE v # 0
  <2>1. Valid(Pte(a)) /\ V(w)!CanWrite(v)
    BY <1>1, <1>2, <1>3, <1>5, <1>8, RightsSeen DEF CanWrite
  <2>2. PICK f \in 3..31 : f = FrameIn(Pte(a)) /\ V(w)!Entry(v).pfn = f
    BY <1>1, <1>3, <1>5, <2>1, FrameBehind
  <2>3. PICK r \in Int : r = a % PageWords /\ 0 <= r /\ r <= 2047
    BY WordBounds DEF PageWords
  <2>4. mem' = Poke(mem, f * 2048 + r, word)
    BY <1>1, <1>2, <1>3, <1>4, <1>8, <2>2, <2>3 DEF Mw, Physical, PageWords
  <2>5. SameBelow(mem, mem')
    BY <1>1, StoreKeeps
  <2>6. /\ Peek(mem', 0) = Peek(mem, 0) /\ Peek(mem', 1) = Peek(mem, 1)
        /\ Blocks(mem') = Blocks(mem) /\ PageTables(mem') = PageTables(mem)
        /\ FreeFrames(mem') = FreeFrames(mem)
    <3>1. SameOs(mem, mem')
      BY <2>5 DEF SameOs, OsWord, SameBelow
    <3>2. \A p \in 0..7, u \in 0..31 : Entry(mem', p, u) = Entry(mem, p, u)
      <4>1. \A p \in 0..7, u \in 0..31 : EntryAt(p, u) \in Int /\ EntryAt(p, u) < 6144
        BY EntryBounds, WordBounds
      <4> QED
        BY <2>5, <4>1 DEF Entry, SameBelow
    <3>3. Peek(mem', 3) = Peek(mem, 3) /\ Peek(mem', 4) = Peek(mem, 4)
      BY <2>5 DEF SameBelow
    <3> QED
      BY <3>1, <3>2, <3>3, SameBlocks, SameTables, SameFree
  <2>7. CASE r # w.offset
    <3>1. Contents(mem', w) = Contents(mem, w)
      BY <1>1, <2>3, <2>4, <2>7, ContentsPoke
    <3> QED
      BY <1>1, <1>6, <2>6, <3>1, MovesInVm DEF SameView
  <2>8. CASE r = w.offset
    <3>1. Contents(mem', w) = [Contents(mem, w) EXCEPT ![f] = Bit(word, w.bit)]
      BY <1>1, <2>3, <2>4, <2>8, ContentsPoke
    <3>2. PICK bit \in 0..1 : bit = Bit(word, w.bit)
      <4>1. w.bit \in 0..15
        BY DEF VInv, ViewOK, ABit
      <4>2. Bit(word, w.bit) \in {0, 1}
        BY <4>1, BitIsBinary
      <4> QED
        BY <4>2
    <3>3. Vpn(reg'[RPC]) \in V(w)!Advanced /\ reg'[PTBR] = reg[PTBR]
      <4>1. reg'[RPC] = Pc
        BY <1>1 DEF Goto, RPC, IInv
      <4> QED
        BY <1>1, <1>6, <4>1, AdvancedSeen DEF Moves
    <3>4. V(w)!Store(v, bit)
      BY <1>1, <1>5, <1>8, <2>1, <2>2, <2>6, <3>1, <3>2, <3>3
      DEF V!Store, V!os, V!memory, V!process, Current, V!Nothing, NoDelivery
    <3>5. bit \in V(w)!Words
      BY DEF V!Words
    <3> QED
      BY <3>4, <3>5 DEF V!Next, V!Instruction
  <2> QED
    BY <2>7, <2>8
<1> QED
  BY <1>7, <1>8

\* A string ends before the array does: nothing is written past it.
LEMMA StringEnds ==
    ASSUME NEW m, Words(m), NEW a \in Word
    PROVE  \E e \in a..65536 : Peek(m, e) = 0 /\ \A b \in a..(e - 1) : Peek(m, b) # 0
<1>1. a \in Int /\ 0 <= a /\ a <= 65535
  BY WordBounds
<1> DEFINE Ends(x) == x \in a..65536 /\ Peek(m, x) = 0
<1>2. Ends(65536)
  <2>1. 65536 \notin Word
    BY WordBounds
  <2>2. Peek(m, 65536) = 0
    BY <2>1 DEF Words, Peek
  <2> QED
    BY <1>1, <2>2
<1>3. \A x : Ends(x) => x \in Int /\ a <= x /\ x <= 65536 /\ x \in Nat
  BY <1>1
<1>4. \A x \in a..65536 : Ends(x) <=> Peek(m, x) = 0
  OBVIOUS
<1> HIDE DEF Ends
<1> DEFINE S == {x \in Nat : Ends(x)}
<1>5. S \in SUBSET Nat /\ S # {}
  BY <1>2
<1>6. PICK e \in S : \A x \in S : e <= x
  <2> HIDE DEF S
  <2> QED
    BY <1>5, LeastOne
<1>7. e \in a..65536 /\ Ends(e)
  BY <1>1, <1>3, <1>6
<1>8. ASSUME NEW b \in a..(e - 1) PROVE Peek(m, b) # 0
  <2>1. b \in Nat /\ b \in a..65536 /\ ~(e <= b)
    BY <1>1, <1>7
  <2>2. ~Ends(b)
    BY <1>6, <2>1
  <2> QED
    BY <1>4, <2>1, <2>2
<1> QED
  BY <1>4, <1>7, <1>8

\* The last of the words of a string that are looked at.
LEMMA GreatestOne ==
    ASSUME NEW n \in Nat, NEW S \in SUBSET (1..n), S # {}
    PROVE  \E k \in S : \A j \in S : j <= k
<1>1. PICK T \in SUBSET Nat : T = {n - k : k \in S}
  <2>1. \A k \in S : n - k \in Nat
    OBVIOUS
  <2> QED
    BY <2>1
<1>2. PICK t \in T : \A u \in T : t <= u
  <2>1. T # {}
    BY <1>1
  <2> QED
    BY <2>1, LeastOne
<1>3. PICK k \in S : t = n - k
  BY <1>1, <1>2
<1>4. ASSUME NEW j \in S PROVE j <= k
  <2>1. n - j \in T
    BY <1>1
  <2>2. t <= n - j
    BY <1>2, <2>1
  <2> QED
    BY <1>3, <2>2
<1> QED
  BY <1>4

\* A word of the string.
LEMMA ShownIsAWord ==
    ASSUME IInv, ShownByPuts # NoDelivery
    PROVE  \E b \in Int : /\ 0 <= b /\ b <= 65535 /\ LookedAt(b)
                         /\ ShownByPuts = <<"print", BitAt(Peek(mem, b))>>
<1>1. PICK a \in Word : a = reg[0]
  BY OperandsAreWords
<1>2. a \in Int /\ 0 <= a /\ a <= 65535
  BY WordBounds
<1> DEFINE end == CHOOSE e \in a..65536 : Peek(mem, e) = 0 /\ \A b \in a..(e - 1) : Peek(mem, b) # 0
<1>3. end \in a..65536
  <2>1. Words(mem)
    BY DEF IInv, Sound
  <2>2. \E e \in a..65536 : Peek(mem, e) = 0 /\ \A b \in a..(e - 1) : Peek(mem, b) # 0
    BY <2>1, StringEnds
  <2> QED
    BY <2>2
<1>4. StringAt(a) = [k \in 1..(end - a) |-> Peek(mem, a + k - 1)]
  BY DEF StringAt
<1> HIDE DEF end
<1>5. PICK l \in Nat : l = end - a /\ a + l <= 65536
  BY <1>2, <1>3
<1>6. PICK string : string = StringAt(reg[0]) /\ string = [k \in 1..l |-> Peek(mem, a + k - 1)]
  BY <1>1, <1>4, <1>5
<1>7. PICK there : there = {k \in DOMAIN string : LookedAt(a + k - 1)}
  OBVIOUS
<1>8. ShownByPuts = IF there = {} THEN NoDelivery
                    ELSE <<"print", BitAt(string[CHOOSE k \in there : \A j \in there : j <= k])>>
  BY <1>1, <1>6, <1>7 DEF ShownByPuts
<1>9. there \in SUBSET (1..l) /\ there # {}
  BY <1>6, <1>7, <1>8
<1>10. PICK k : k = CHOOSE i \in there : \A j \in there : j <= i
  OBVIOUS
<1>11. k \in there
  BY <1>9, <1>10, GreatestOne
<1>12. PICK b \in Int : b = a + k - 1 /\ 0 <= b /\ b <= 65535
  BY <1>2, <1>5, <1>9, <1>11
<1>13. LookedAt(b) /\ string[k] = Peek(mem, b)
  BY <1>6, <1>7, <1>9, <1>11, <1>12
<1>14. ShownByPuts = <<"print", BitAt(string[k])>>
  BY <1>8, <1>9, <1>10
<1> QED
  BY <1>12, <1>13, <1>14

LEMMA PutsInVm ==
    ASSUME VInv, Puts, shown' = ShownByPuts, NEW w, w = view
    PROVE  V(w)!Next
<1>1. IInv /\ Fetching /\ Goto(Pc) /\ UNCHANGED <<status, args, frames, mem>>
  BY DEF VInv, Puts, Trap, Executes, Fetching
<1>2. CASE shown' = NoDelivery
  BY <1>1, <1>2, QuietInVm DEF Quiet
<1>3. CASE shown' # NoDelivery
  <2>1. PICK b \in Int : /\ 0 <= b /\ b <= 65535 /\ LookedAt(b)
                        /\ shown' = <<"print", BitAt(Peek(mem, b))>>
    BY <1>1, <1>3, ShownIsAWord
  <2>2. PICK v \in 0..31 : v = b \div 2048
    BY <2>1
  <2>3. b = v * 2048 + (b % 2048)
    <3>1. b % 2048 = b - (b \div 2048) * 2048
      BY <2>1
    <3> QED
      BY <2>1, <2>2, <3>1
  <2>4. b = SeenAt(v, w)
    <3>1. b % 2048 = w.offset
      BY <2>1 DEF LookedAt, PageWords
    <3> QED
      BY <2>3, <3>1 DEF SeenAt, PageWords
  <2>5. \E x \in IF v \in 3..31 THEN {Contents(mem, w)[v]} ELSE 0..1 : shown' = <<"print", x>>
    <3>1. shown' = <<"print", Bit(Peek(mem, SeenAt(v, w)), w.bit)>>
      BY <2>1, <2>4 DEF BitAt
    <3>2. CASE v \in 3..31
      BY <3>1, <3>2, ContentsAt
    <3>3. CASE v \notin 3..31
      <4>1. w.bit \in 0..15
        BY DEF VInv, ViewOK, ABit
      <4>2. Peek(mem, SeenAt(v, w)) \in Word
        BY <1>1, PeekWord DEF IInv, Sound
      <4>3. Bit(Peek(mem, SeenAt(v, w)), w.bit) \in {0, 1}
        BY <4>1, <4>2, BitIsBinary
      <4>4. \A x \in {0, 1} : x \in 0..1
        OBVIOUS
      <4> QED
        BY <3>1, <3>3, <4>3, <4>4
    <3> QED
      BY <3>2, <3>3
  <2>6. Vpn(reg'[RPC]) \in V(w)!Advanced /\ reg'[PTBR] = reg[PTBR]
    <3>1. reg'[RPC] = Pc
      BY <1>1 DEF Goto, RPC, IInv
    <3>2. Moves
      BY <1>1, WordsRead, GotoMoves
    <3> QED
      BY <1>1, <3>1, <3>2, AdvancedSeen DEF Moves
  <2>7. V(w)!Puts(v)
    BY <1>1, <2>5, <2>6, FetchedSeen
    DEF V!Puts, V!Frames, V!UserFrames, V!Words, V!os, V!memory, V!process, Current
  <2> QED
    BY <2>7 DEF V!Next, V!Instruction
<1> QED
  BY <1>2, <1>3

-----------------------------------------------------------------------------
(* brk                                                                      *)

\* What a call of the process leaves alone.
Calls(w) ==
    /\ V(w)!Fetched /\ Serving
    /\ Vpn(reg'[RPC]) \in V(w)!Advanced /\ reg'[PTBR] = reg[PTBR]
    /\ Moves /\ UNCHANGED <<status, args, frames>> /\ shown' = NoDelivery

LEMMA GoesOn ==
    ASSUME IInv, Fetching, Goto(Pc), UNCHANGED <<status, args, frames>>, shown' = NoDelivery, NEW w
    PROVE  Calls(w)
<1>1. reg'[RPC] = Pc
  BY DEF Goto, RPC, IInv
<1>2. Moves
  BY WordsRead, GotoMoves
<1> QED
  BY <1>1, <1>2, AdvancedSeen, FetchedSeen DEF Moves, Calls

\* A page that the process has not is not freed.
LEMMA NothingGiven ==
    ASSUME NEW m, NEW n, NEW p \in 0..7, NEW v \in 0..31, GivesFrames(m, n, {v}, p),
           ~Valid(Entry(m, p, v))
    PROVE  FreeFrames(n) = FreeFrames(m) /\ PageTables(n) = PageTables(m)
<1>1. PageTables(m)[p][v] = Nothing
  BY EntryInTables, EntryFields
<1>2. {u \in {v} : PageTables(m)[p][u].valid} = {}
  BY <1>1 DEF Nothing
<1>3. FreeFrames(n) = FreeFrames(m)
  BY <1>2 DEF GivesFrames
<1>4. PICK e : e = Nothing
  OBVIOUS
<1>5. PageTables(n) = [PageTables(m) EXCEPT ![p] =
          [u \in 0..31 |-> IF u \in {v} THEN e ELSE PageTables(m)[p][u]]]
  BY <1>4 DEF GivesFrames
<1>6. [u \in 0..31 |-> IF u \in {v} THEN e ELSE PageTables(m)[p][u]] = PageTables(m)[p]
  BY <1>1, <1>4 DEF PageTables
<1>7. PageTables(n) = [PageTables(m) EXCEPT ![p] = PageTables(m)[p]]
  BY <1>5, <1>6
<1> QED
  BY <1>3, <1>7 DEF PageTables

LEMMA BrkFreeInVm ==
    ASSUME VInv, NEW w, w = view, Calls(w), NEW p \in 0..7, p = Current, reg[PTBR] = TableAt(p),
           NEW v \in 0..31, mem' = FreeMem(mem, {v}, TableAt(p)), Fetching
    PROVE  V(w)!Next
<1>1. InPage(w) /\ Sound(mem) /\ IInv
  BY DEF VInv, ViewOK, IInv
<1>2. SameOs(mem, mem') /\ GivesFrames(mem, mem', {v}, p) /\ Contents(mem', w) = Contents(mem, w)
  <2>1. {v} \in SUBSET (0..31)
    OBVIOUS
  <2> QED
    BY <1>1, <2>1, FreedAsInVm
<1>3. Blocks(mem') = Blocks(mem) /\ Peek(mem', 0) = Peek(mem, 0) /\ Peek(mem', 1) = Peek(mem, 1)
  BY <1>2, SameBlocks
<1>4. CASE ~Valid(Entry(mem, p, v))
  <2>1. SameView(w)
    BY <1>2, <1>3, <1>4, NothingGiven DEF SameView
  <2> QED
    BY <1>1, <2>1, MovesInVm DEF Calls
<1>5. CASE Valid(Entry(mem, p, v))
  <2>1. TableOf(reg[PTBR]) = p
    BY TablesByBase
  <2>2. V(w)!Entry(v).valid
    BY <1>5, <2>1, EntryInTables, EntryFields DEF V!Entry
  <2>3. V(w)!FreeMem(p, {v})
    BY <1>2 DEF GivesFrames, V!FreeMem, V!Vpns, V!NoPage, Nothing
  <2>4. V(w)!BrkFree(v)
    BY <1>2, <1>3, <2>1, <2>2, <2>3 DEF Calls, V!BrkFree, V!os, V!process, Current, V!Nothing, NoDelivery
  <2> QED
    BY <2>4 DEF V!Next, V!Instruction
<1> QED
  BY <1>4, <1>5

\* The two access bits of a request.
Asks(access, read, write) ==
    /\ read = TRUE \/ read = FALSE
    /\ write = TRUE \/ write = FALSE
    /\ read <=> access % 2 = 1
    /\ write <=> access \div 2 = 1

LEMMA BrkAllocInVm ==
    ASSUME VInv, NEW w, w = view, Calls(w), NEW p \in 0..7, p = Current, reg[PTBR] = TableAt(p),
           NEW v \in 0..31, NEW f \in 3..31, FirstFree(mem, f), ~Valid(Entry(mem, p, v)),
           NEW access \in 0..3, NEW read, NEW write, Asks(access, read, write),
           mem' = Taken(mem, f, EntryAt(p, v), NewPte(f, read, write))
    PROVE  V(w)!Next
<1>1. InPage(w) /\ Sound(mem) /\ IInv
  BY DEF VInv, ViewOK, IInv
<1>2. /\ SameOs(mem, mem') /\ Contents(mem', w) = Contents(mem, w)
      /\ TakesFrame(mem, mem', f, p, v, read, write)
  <2>1. IsTaken(mem, mem', f, p, v, read, write)
    BY <1>1 DEF IsTaken, Asks
  <2>2. TakenIn(mem, mem', f, p, v, read, write, w)
    BY <1>1, <2>1, TakenAsInVm
  <2> QED
    BY <2>2 DEF TakenIn
<1>3. Blocks(mem') = Blocks(mem) /\ Peek(mem', 0) = Peek(mem, 0) /\ Peek(mem', 1) = Peek(mem, 1)
  BY <1>2, SameBlocks
<1>4. TableOf(reg[PTBR]) = p
  BY TablesByBase
<1>5. ~V(w)!Entry(v).valid
  BY <1>4, EntryInTables, EntryFields DEF V!Entry, Nothing
<1>6. f \in FreeFrames(mem)
  BY <1>2 DEF TakesFrame
<1>7. FullEntry(f, read, write) =
          [valid |-> TRUE, pfn |-> f, read |-> access % 2 = 1, write |-> access \div 2 = 1]
  BY DEF FullEntry, Asks
<1>8. V(w)!AllocMem(p, v, access % 2 = 1, access \div 2 = 1)
  BY <1>2, <1>7, ZenonT(40) DEF TakesFrame, V!AllocMem
<1>9. V(w)!BrkAlloc(v, access)
  BY <1>2, <1>3, <1>4, <1>5, <1>6, <1>8 DEF Calls, V!BrkAlloc, V!os, V!process, Current, V!Nothing, NoDelivery
<1> QED
  BY <1>9 DEF V!Next, V!Instruction

LEMMA BrkInVm ==
    ASSUME VInv, Brk, shown' = NoDelivery, NEW w, w = view
    PROVE  V(w)!Next
<1>1. IInv /\ Fetching /\ Goto(Pc) /\ UNCHANGED <<status, args, frames>> /\ shown' = NoDelivery
  BY DEF VInv, Brk, Trap, Executes, Fetching
<1>2. Calls(w) /\ Serving
  BY <1>1, GoesOn DEF Calls
<1>3. PICK p \in 0..7 : p = Current /\ reg[PTBR] = TableAt(p)
  BY <1>2 DEF Serving
<1>4. PICK v \in 0..31 : v = Vpn(reg[0])
  BY <1>1, OperandsAreWords, VpnBounds
<1>5. PICK r, s : r = (Bit(reg[0], 1) = 1) /\ s = (Bit(reg[0], 2) = 1)
  OBVIOUS
<1>6. PICK got : got = AllocMem(mem, TableAt(p), v, r, s)
  OBVIOUS
<1>7. mem' = mem \/ (mem' = got.mem /\ ~Valid(Entry(mem, p, v))) \/ mem' = FreeMem(mem, {v}, TableAt(p))
  BY <1>3, <1>4, <1>5, <1>6 DEF Brk, Entry, EntryAt
<1>8. CASE mem' = mem
  BY <1>1, <1>2, <1>8, SameMemoryIsSameView, MovesInVm DEF Calls
<1>9. CASE mem' = FreeMem(mem, {v}, TableAt(p))
  BY <1>1, <1>2, <1>3, <1>9, BrkFreeInVm
<1>10. CASE mem' = got.mem /\ ~Valid(Entry(mem, p, v)) /\ mem' # mem
  <2>1. AllocResult(mem, p, v, r, s, got)
    BY <1>6, AllocCases
  <2>2. PICK f \in 3..31 :
          /\ FirstFree(mem, f)
          /\ got = [mem |-> Taken(mem, f, EntryAt(p, v), NewPte(f, r, s)), pfn |-> f]
    BY <1>10, <2>1 DEF AllocResult
  <2>3. PICK access \in 0..3 :
          /\ Bit(reg[0], 1) = 1 <=> access % 2 = 1
          /\ Bit(reg[0], 2) = 1 <=> access \div 2 = 1
    <3>1. /\ 0 \in 0..3 /\ 0 % 2 # 1 /\ 0 \div 2 # 1
          /\ 1 \in 0..3 /\ 1 % 2 = 1 /\ 1 \div 2 # 1
          /\ 2 \in 0..3 /\ 2 % 2 # 1 /\ 2 \div 2 = 1
          /\ 3 \in 0..3 /\ 3 % 2 = 1 /\ 3 \div 2 = 1
      OBVIOUS
    <3> QED
      BY <3>1, Zenon
  <2>4. PICK read, write :
          /\ read = IF Bit(reg[0], 1) = 1 THEN TRUE ELSE FALSE
          /\ write = IF Bit(reg[0], 2) = 1 THEN TRUE ELSE FALSE
    OBVIOUS
  <2>5. Asks(access, read, write)
    BY <2>3, <2>4 DEF Asks
  <2>6. NewPte(f, r, s) = NewPte(f, read, write)
    <3>1. r = read
      <4>1. CASE Bit(reg[0], 1) = 1
        BY <1>5, <2>4, <4>1
      <4>2. CASE Bit(reg[0], 1) # 1
        BY <1>5, <2>4, <4>2
      <4> QED
        BY <4>1, <4>2
    <3>2. s = write
      <4>1. CASE Bit(reg[0], 2) = 1
        BY <1>5, <2>4, <4>1
      <4>2. CASE Bit(reg[0], 2) # 1
        BY <1>5, <2>4, <4>2
      <4> QED
        BY <4>1, <4>2
    <3> QED
      BY <3>1, <3>2
  <2>7. mem' = Taken(mem, f, EntryAt(p, v), NewPte(f, read, write))
    BY <1>10, <2>2, <2>6
  <2> QED
    BY <1>2, <1>3, <1>10, <2>2, <2>5, <2>7, BrkAllocInVm
<1> QED
  BY <1>7, <1>8, <1>9, <1>10

-----------------------------------------------------------------------------
(* yield and halt                                                           *)

\* The search as it goes: everyone that is passed is dead, and it ends with one
\* who is not or, after a whole circle, where it began.
Searched(m, n, old, q, k) ==
    /\ q = (old + k) % n
    /\ k = n \/ PidOf(m, q) # Dead
    /\ \A j \in 1..(k - 1) : PidOf(m, (old + j) % n) = Dead

LEMMA SearchEnds ==
    ASSUME NEW m, NEW n \in 1..7, Peek(m, 1) = n, NEW old \in 0..(n - 1), NEW q, q = NextAfter(m, old)
    PROVE  \E k \in 1..n : Searched(m, n, old, q, k)
<1> DEFINE Runs(k) == k = n \/ PidOf(m, (old + k) % n) # Dead
           First(k) == Runs(k) /\ \A j \in 1..(k - 1) : ~Runs(j)
           k == CHOOSE k \in 1..n : First(k)
<1>1. \E x \in 1..n : First(x)
  <2> DEFINE S == {x \in 1..n : Runs(x)}
  <2>1. S \in SUBSET Nat /\ S # {}
    <3>1. n \in S
      OBVIOUS
    <3> QED
      BY <3>1
  <2>2. PICK x \in S : \A y \in S : x <= y
    BY <2>1, LeastOne
  <2>3. \A j \in 1..(x - 1) : j \in 1..n /\ ~(x <= j)
    BY <2>2
  <2>4. \A j \in 1..(x - 1) : ~Runs(j)
    BY <2>2, <2>3
  <2> QED
    BY <2>2, <2>4
<1>2. k \in 1..n /\ First(k)
  BY <1>1
<1>3. NextAfter(m, old) = (old + k) % n
  BY DEF NextAfter
<1> HIDE DEF k
<1> QED
  BY <1>2, <1>3 DEF Searched

LEMMA PidSeen ==
    ASSUME NEW m, Words(m), NEW p \in 0..7
    PROVE  Blocks(m)[p].pid = -1 <=> PidOf(m, p) = Dead
<1>1. PidOf(m, p) \in Word
  BY PeekWord DEF PidOf
<1>2. PidOf(m, p) # -1
  BY <1>1, WordBounds
<1> QED
  BY <1>2 DEF Blocks, PcbOf

LEMMA RoundTheCircle == ASSUME NEW n \in 1..7, NEW c \in 0..(n - 1) PROVE (c + n) % n = c
<1>1. n = 1 \/ n = 2 \/ n = 3 \/ n = 4 \/ n = 5 \/ n = 6 \/ n = 7
  OBVIOUS
<1> QED
  BY <1>1

\* A process that the search finds is the one Vm switches to.
LEMMA FirstAfterSeen ==
    ASSUME IInv, NEW m, Words(m), NEW n \in 1..7, n = NewPid, NEW c \in 0..(n - 1),
           NEW q, NEW k \in 1..n, Searched(m, n, c, q, k), PidOf(m, q) # Dead, NEW w
    PROVE  V(w)!FirstAfter(c, q, Blocks(m))
<1>1. ASSUME NEW j \in 1..n PROVE (c + j) % n \in 0..7
  OBVIOUS
<1>2. q \in 0..7 /\ q = (c + k) % n
  BY <1>1 DEF Searched
<1>3. Blocks(m)[q].pid # -1
  BY <1>2, PidSeen
<1>4. ASSUME NEW j \in 1..(k - 1) PROVE Blocks(m)[(c + j) % n].pid = -1
  <2>1. j \in 1..n
    OBVIOUS
  <2>2. (c + j) % n \in 0..7
    BY <1>1, <2>1
  <2>3. PidOf(m, (c + j) % n) = Dead
    BY DEF Searched
  <2> QED
    BY <2>2, <2>3, PidSeen
<1> QED
  BY <1>2, <1>3, <1>4 DEF V!FirstAfter, V!Terminated, NewPid

\* One PCB is another one.
ButForBlock(m, n, c, block) ==
    /\ \A p \in 0..7 : p # c => Blocks(n)[p] = Blocks(m)[p]
    /\ Blocks(n)[c] = block

LEMMA BlocksAlike ==
    ASSUME NEW m, NEW n, NEW c \in 0..7, NEW block, ButForBlock(m, n, c, block)
    PROVE  Blocks(n) = [Blocks(m) EXCEPT ![c] = block]
<1>1. /\ Blocks(n) = [p \in 0..7 |-> Blocks(n)[p]]
      /\ Blocks(m) = [p \in 0..7 |-> Blocks(m)[p]]
  BY DEF Blocks
<1> QED
  BY <1>1, RowAlike DEF ButForBlock

LEMMA SameBlock ==
    ASSUME NEW m, NEW n, NEW p \in 0..7,
           Peek(n, PcbAt(p)) = Peek(m, PcbAt(p)),
           Peek(n, PcbAt(p) + 1) = Peek(m, PcbAt(p) + 1),
           Peek(n, PcbAt(p) + 2) = Peek(m, PcbAt(p) + 2)
    PROVE  Blocks(n)[p] = Blocks(m)[p]
<1>1. PcbOf(n, p) = PcbOf(m, p)
  BY DEF PcbOf, PidOf
<1> QED
  BY <1>1 DEF Blocks

LEMMA SwitchSeen ==
    ASSUME IInv, NEW m, NEW q \in 0..6, Switch(m, q), NEW blocks, blocks[q] = Blocks(m)[q], NEW w
    PROVE  V(w)!SwitchTo(q, blocks) /\ \A b : b # 0 => Peek(mem', b) = Peek(m, b)
<1>1. /\ mem' = Poke(m, 0, q)
      /\ reg' = [reg EXCEPT ![RPC] = Peek(m, PcbAt(q) + 1), ![PTBR] = Peek(m, PcbAt(q) + 2)]
  BY DEF Switch
<1>2. Peek(mem', 0) = q /\ \A b : b # 0 => Peek(mem', b) = Peek(m, b)
  BY <1>1, PeekPoke
<1>3. reg'[RPC] = Peek(m, PcbAt(q) + 1) /\ reg'[PTBR] = Peek(m, PcbAt(q) + 2)
  BY <1>1 DEF IInv, RPC, PTBR
<1>4. q \in 0..7
  OBVIOUS
<1>5. Vpn(reg'[RPC]) = Blocks(m)[q].pc /\ TableOf(reg'[PTBR]) = Blocks(m)[q].ptbr
  BY <1>3, <1>4 DEF Blocks, PcbOf
<1>6. ProcessOf(Current') = q
  BY <1>2 DEF Current, ProcessOf
<1> QED
  BY <1>2, <1>5, <1>6 DEF V!SwitchTo

\* Two fields of a record in a function.
Saved(F, c, x, y) == [F EXCEPT ![c].pc = x, ![c].ptbr = y]
Block(i, x, y) == [pid |-> i, pc |-> x, ptbr |-> y]

LEMMA TwoFields ==
    ASSUME NEW F, F = [p \in 0..7 |-> F[p]], NEW c \in 0..7,
           F[c] = Block(F[c].pid, F[c].pc, F[c].ptbr), NEW x, NEW y
    PROVE  Saved(F, c, x, y) = [F EXCEPT ![c] = Block(F[c].pid, x, y)]
<1>1. PICK i, j, k : i = F[c].pid /\ F[c] = [pid |-> i, pc |-> j, ptbr |-> k]
  BY DEF Block
<1>2. PICK r : r = [pid |-> i, pc |-> x, ptbr |-> k] /\ r = [F[c] EXCEPT !.pc = x]
  <2>1. PICK row : row = F[c] /\ row = [pid |-> i, pc |-> j, ptbr |-> k]
    BY <1>1
  <2>2. [row EXCEPT !.pc = x] = [pid |-> i, pc |-> x, ptbr |-> k]
    BY <2>1
  <2> QED
    BY <2>1, <2>2
<1>3. PICK block : block = Block(i, x, y)
  OBVIOUS
<1>4. [r EXCEPT !.ptbr = y] = block
  BY <1>2, <1>3 DEF Block
<1>5. [[F[c] EXCEPT !.pc = x] EXCEPT !.ptbr = y] = block
  BY <1>2, <1>4
<1>6. Saved(F, c, x, y) = [F EXCEPT ![c] = block]
  BY <1>5 DEF Saved
<1> QED
  BY <1>1, <1>3, <1>6

\* What yield saves.
LEMMA SavedSeen ==
    ASSUME IInv, NEW c \in 0..6, reg[PTBR] = TableAt(c), NEW w, InPage(w), NEW n,
           \A b : b # 0 => Peek(n, b) = Peek(Poke(Poke(mem, PcbAt(c) + 1, Pc), PcbAt(c) + 2, reg[PTBR]), b)
    PROVE  /\ Blocks(n) = Saved(Blocks(mem), c, Vpn(Pc), TableOf(reg[PTBR]))
           /\ \A q \in 0..7 : q # c => Blocks(n)[q] = Blocks(mem)[q]
           /\ Peek(n, 1) = Peek(mem, 1)
           /\ FreeFrames(n) = FreeFrames(mem) /\ PageTables(n) = PageTables(mem)
           /\ Contents(n, w) = Contents(mem, w)
<1>1. \A b : b # 0 => Peek(n, b) = IF b = PcbAt(c) + 2 THEN reg[PTBR]
                                   ELSE IF b = PcbAt(c) + 1 THEN Pc ELSE Peek(mem, b)
  BY PeekPoke
<1>2. c \in 0..7 /\ 12 <= PcbAt(c) /\ PcbAt(c) <= 33 /\ PcbAt(c) \in Int
  BY DEF PcbAt
<1>3. \A b \in Int : b \in {3, 4} \/ 35 < b => Peek(n, b) = Peek(mem, b)
  BY <1>1, <1>2
<1>4. Peek(n, 1) = Peek(mem, 1)
  BY <1>1, <1>2
<1>5. ASSUME NEW q \in 0..7, q # c PROVE Blocks(n)[q] = Blocks(mem)[q]
  <2>1. /\ PcbAt(q) # 0 /\ PcbAt(q) + 1 # 0 /\ PcbAt(q) + 2 # 0
        /\ PcbAt(q) \notin {PcbAt(c) + 1, PcbAt(c) + 2}
        /\ PcbAt(q) + 1 \notin {PcbAt(c) + 1, PcbAt(c) + 2}
        /\ PcbAt(q) + 2 \notin {PcbAt(c) + 1, PcbAt(c) + 2}
    BY <1>5 DEF PcbAt
  <2> QED
    BY <1>1, <2>1, SameBlock
<1>6. PICK F, block : F = Blocks(mem) /\ block = Block(F[c].pid, Vpn(Pc), TableOf(reg[PTBR]))
  OBVIOUS
<1>7. Blocks(n)[c] = block
  <2>1. PcbAt(c) # 0 /\ PcbAt(c) \notin {PcbAt(c) + 1, PcbAt(c) + 2}
        /\ PcbAt(c) + 1 # 0 /\ PcbAt(c) + 1 # PcbAt(c) + 2 /\ PcbAt(c) + 2 # 0
    BY <1>2
  <2>2. PidOf(n, c) = PidOf(mem, c) /\ Peek(n, PcbAt(c) + 1) = Pc /\ Peek(n, PcbAt(c) + 2) = reg[PTBR]
    BY <1>1, <2>1 DEF PidOf
  <2>3. F[c].pid = IF PidOf(mem, c) = Dead THEN -1 ELSE PidOf(mem, c)
    BY <1>2, <1>6 DEF Blocks, PcbOf
  <2>4. PcbOf(n, c) = block
    BY <1>6, <2>2, <2>3 DEF PcbOf, Block
  <2> QED
    BY <1>2, <2>4 DEF Blocks
<1>8. Blocks(n) = [Blocks(mem) EXCEPT ![c] = block]
  BY <1>2, <1>5, <1>7, BlocksAlike DEF ButForBlock
<1>9. F = [p \in 0..7 |-> F[p]] /\ F[c] = Block(F[c].pid, F[c].pc, F[c].ptbr)
  BY <1>2, <1>6 DEF Blocks, PcbOf, Block
<1>10. Saved(F, c, Vpn(Pc), TableOf(reg[PTBR])) = [F EXCEPT ![c] = block]
  BY <1>2, <1>6, <1>9, TwoFields
<1>11. Blocks(n) = Saved(Blocks(mem), c, Vpn(Pc), TableOf(reg[PTBR]))
  BY <1>6, <1>8, <1>10
<1> QED
  BY <1>3, <1>4, <1>5, <1>11, SameMemory

LEMMA YieldInVm ==
    ASSUME VInv, Yield, shown' = NoDelivery, NEW w, w = view
    PROVE  V(w)!Next
<1>1. /\ IInv /\ InPage(w) /\ Fetching /\ status = "running" /\ Vpn(reg[RPC]) # 0
      /\ UNCHANGED <<status, args, frames>> /\ shown' = NoDelivery
  BY DEF VInv, ViewOK, Yield, Trap, Executes, Fetching
<1>2. PICK n \in 1..7, c \in Int :
         /\ n = NewPid /\ c = Current /\ 0 <= c /\ c <= n - 1
         /\ reg[PTBR] = TableAt(c) /\ Pcbs(mem, n) /\ Peek(mem, 1) = n
  BY <1>1, TheProcess
<1>3. c \in 0..7 /\ c \in 0..6 /\ c \in 0..(n - 1) /\ Words(mem)
  BY <1>1, <1>2 DEF IInv, Sound
<1>4. PICK q \in 0..(n - 1) : q = NextAfter(mem, c)
  BY <1>2, <1>3, NextIsAProcess
<1>5. q # c
  BY <1>2, <1>4 DEF Yield
<1>6. PICK k \in 1..n : Searched(mem, n, c, q, k)
  BY <1>2, <1>3, <1>4, SearchEnds
<1>7. PidOf(mem, q) # Dead
  <2>1. k # n
    BY <1>3, <1>5, <1>6, RoundTheCircle DEF Searched
  <2> QED
    BY <1>6, <2>1 DEF Searched
<1>8. V(w)!FirstAfter(c, q, Blocks(mem))
  BY <1>1, <1>2, <1>3, <1>6, <1>7, FirstAfterSeen
<1>9. PICK m : /\ m = Poke(Poke(mem, PcbAt(c) + 1, Pc), PcbAt(c) + 2, reg[PTBR])
               /\ Switch(m, q)
  BY <1>2, <1>4 DEF Yield
<1>10. q \in 0..6 /\ q \in 0..7
  OBVIOUS
<1>11. Blocks(mem)[q] = Blocks(m)[q]
  BY <1>1, <1>2, <1>3, <1>5, <1>9, <1>10, SavedSeen
<1>12. V(w)!SwitchTo(q, Blocks(mem)) /\ \A b : b # 0 => Peek(mem', b) = Peek(m, b)
  BY <1>1, <1>9, <1>10, <1>11, SwitchSeen
<1>13. /\ Blocks(mem') = Saved(Blocks(mem), c, Vpn(Pc), TableOf(reg[PTBR]))
       /\ Peek(mem', 1) = Peek(mem, 1)
       /\ FreeFrames(mem') = FreeFrames(mem) /\ PageTables(mem') = PageTables(mem)
       /\ Contents(mem', w) = Contents(mem, w)
  BY <1>1, <1>2, <1>3, <1>9, <1>12, SavedSeen
<1>14. ProcessOf(Current) = c
  BY <1>2 DEF ProcessOf
<1>15. V(w)!Yield(q)
  <2>1. V(w)!Fetched /\ Vpn(Pc) \in V(w)!Advanced
    BY <1>1, FetchedSeen, AdvancedSeen
  <2>2. q < Peek(mem, 1)
    BY <1>2
  <2>3. UNCHANGED <<status, V(w)!os, V(w)!memory>> /\ shown' = V(w)!Nothing
    BY <1>1, <1>13 DEF V!os, V!memory, V!Nothing, NoDelivery
  <2>4. /\ V(w)!FirstAfter(ProcessOf(Current), q, Blocks(mem)) /\ q # ProcessOf(Current)
        /\ Blocks(mem') = Saved(Blocks(mem), ProcessOf(Current), Vpn(Pc), TableOf(reg[PTBR]))
    BY <1>5, <1>8, <1>13, <1>14
  <2> QED
    BY <1>12, <2>1, <2>2, <2>3, <2>4 DEF V!Yield, Saved
<1> QED
  BY <1>10, <1>15 DEF V!Next, V!Instruction, V!Pids

\* What halt leaves behind.
Marked(F, c) == [F EXCEPT ![c].pid = -1]

LEMMA OneField ==
    ASSUME NEW F, F = [p \in 0..7 |-> F[p]], NEW c \in 0..7,
           F[c] = Block(F[c].pid, F[c].pc, F[c].ptbr)
    PROVE  Marked(F, c) = [F EXCEPT ![c] = Block(-1, F[c].pc, F[c].ptbr)]
<1>1. PICK i, j, k : j = F[c].pc /\ k = F[c].ptbr /\ F[c] = [pid |-> i, pc |-> j, ptbr |-> k]
  BY DEF Block
<1>2. PICK row : row = F[c] /\ row = [pid |-> i, pc |-> j, ptbr |-> k]
  BY <1>1
<1>3. PICK block : block = Block(-1, j, k)
  OBVIOUS
<1>4. [row EXCEPT !.pid = -1] = block
  BY <1>2, <1>3 DEF Block
<1>5. [F[c] EXCEPT !.pid = -1] = block
  BY <1>2, <1>4
<1>6. Marked(F, c) = [F EXCEPT ![c] = block]
  BY <1>5 DEF Marked
<1> QED
  BY <1>1, <1>3, <1>6

EndedIn(n, c, w) ==
    /\ GivesFrames(mem, n, 0..31, c)
    /\ Contents(n, w) = Contents(mem, w)
    /\ Blocks(n) = Marked(Blocks(mem), c)
    /\ Peek(n, 1) = Peek(mem, 1)

LEMMA EndedSeen ==
    ASSUME IInv, NEW c \in 0..6, reg[PTBR] = TableAt(c), c = Current, NEW w, InPage(w), NEW n,
           \A b : b # 0 => Peek(n, b) = Peek(Ended, b)
    PROVE  EndedIn(n, c, w)
<1>1. PICK l : l = FreeMem(mem, 0..31, TableAt(c)) /\ Ended = Poke(l, PcbAt(c), Dead)
  BY DEF Ended
<1>2. c \in 0..7 /\ 12 <= PcbAt(c) /\ PcbAt(c) <= 33 /\ PcbAt(c) \in Int /\ Sound(mem)
  BY DEF PcbAt, IInv
<1>3. SameOs(mem, l) /\ GivesFrames(mem, l, 0..31, c) /\ Contents(l, w) = Contents(mem, w)
  <2>1. PICK vpns \in SUBSET (0..31) : vpns = 0..31
    OBVIOUS
  <2>2. GivesFrames(mem, l, vpns, c) /\ SameOs(mem, l) /\ Contents(l, w) = Contents(mem, w)
    BY <1>1, <1>2, <2>1, FreedAsInVm
  <2> QED
    BY <2>1, <2>2
<1>4. \A b : b # 0 => Peek(n, b) = IF b = PcbAt(c) THEN Dead ELSE Peek(l, b)
  BY <1>1, PeekPoke
<1>5. FreeFrames(n) = FreeFrames(l) /\ PageTables(n) = PageTables(l) /\ Contents(n, w) = Contents(l, w)
  <2>1. \A b \in Int : b \in {3, 4} \/ 35 < b => Peek(n, b) = Peek(l, b)
    BY <1>2, <1>4
  <2> QED
    BY <2>1, SameMemory
<1>6. \A b : OsWord(b) /\ b # 0 /\ b # PcbAt(c) => Peek(n, b) = Peek(mem, b)
  BY <1>3, <1>4 DEF SameOs
<1>7. Peek(n, 1) = Peek(mem, 1)
  <2>1. OsWord(1) /\ 1 # PcbAt(c)
    BY <1>2 DEF OsWord
  <2> QED
    BY <1>6, <2>1
<1>8. ASSUME NEW q \in 0..7, q # c PROVE Blocks(n)[q] = Blocks(mem)[q]
  <2>1. /\ OsWord(PcbAt(q)) /\ OsWord(PcbAt(q) + 1) /\ OsWord(PcbAt(q) + 2)
        /\ PcbAt(q) # 0 /\ PcbAt(q) + 1 # 0 /\ PcbAt(q) + 2 # 0
        /\ PcbAt(q) # PcbAt(c) /\ PcbAt(q) + 1 # PcbAt(c) /\ PcbAt(q) + 2 # PcbAt(c)
    BY <1>8 DEF PcbAt, OsWord
  <2> QED
    BY <1>6, <2>1, SameBlock
<1>9. PICK F, block : F = Blocks(mem) /\ block = Block(-1, F[c].pc, F[c].ptbr)
  OBVIOUS
<1>10. Blocks(n)[c] = block
  <2>1. /\ OsWord(PcbAt(c) + 1) /\ OsWord(PcbAt(c) + 2)
        /\ PcbAt(c) # 0 /\ PcbAt(c) + 1 # 0 /\ PcbAt(c) + 2 # 0
        /\ PcbAt(c) + 1 # PcbAt(c) /\ PcbAt(c) + 2 # PcbAt(c)
    BY <1>2 DEF OsWord
  <2>2. PidOf(n, c) = Dead /\ Peek(n, PcbAt(c) + 1) = Peek(mem, PcbAt(c) + 1)
        /\ Peek(n, PcbAt(c) + 2) = Peek(mem, PcbAt(c) + 2)
    BY <1>4, <1>6, <2>1 DEF PidOf
  <2>3. F[c].pc = Vpn(Peek(mem, PcbAt(c) + 1)) /\ F[c].ptbr = TableOf(Peek(mem, PcbAt(c) + 2))
    BY <1>2, <1>9 DEF Blocks, PcbOf
  <2>4. PcbOf(n, c) = block
    BY <1>9, <2>2, <2>3 DEF PcbOf, Block
  <2> QED
    BY <1>2, <2>4 DEF Blocks
<1>11. Blocks(n) = [Blocks(mem) EXCEPT ![c] = block]
  BY <1>2, <1>8, <1>10, BlocksAlike DEF ButForBlock
<1>12. F = [p \in 0..7 |-> F[p]] /\ F[c] = Block(F[c].pid, F[c].pc, F[c].ptbr)
  BY <1>2, <1>9 DEF Blocks, PcbOf, Block
<1>13. Marked(F, c) = [F EXCEPT ![c] = block]
  BY <1>2, <1>9, <1>12, OneField
<1>14. Blocks(n) = Marked(Blocks(mem), c)
  BY <1>9, <1>11, <1>13
<1>15. GivesFrames(mem, n, 0..31, c)
  BY <1>3, <1>5 DEF GivesFrames
<1> QED
  BY <1>3, <1>5, <1>7, <1>14, <1>15 DEF EndedIn

\* The round visits everyone.
LEMMA WholeCircle ==
    ASSUME NEW n \in 1..7, NEW c \in 0..(n - 1), NEW x \in 0..(n - 1)
    PROVE  x = c \/ \E j \in 1..(n - 1) : x = (c + j) % n
<1>1. n = 1 \/ n = 2 \/ n = 3 \/ n = 4 \/ n = 5 \/ n = 6 \/ n = 7
  OBVIOUS
<1>2. CASE x < c
  <2>1. x - c + n \in 1..(n - 1) /\ c + (x - c + n) = x + n
    BY <1>2
  <2>2. (x + n) % n = x
    BY RoundTheCircle
  <2> QED
    BY <2>1, <2>2
<1>3. CASE x > c
  <2>1. x - c \in 1..(n - 1) /\ c + (x - c) = x
    BY <1>3
  <2>2. x % n = x
    BY <1>1
  <2> QED
    BY <2>1, <2>2
<1> QED
  BY <1>2, <1>3

\* A search that ends at a dead process has found them all dead.
LEMMA AllDead ==
    ASSUME NEW m, Words(m), NEW n \in 1..7, NEW c \in 0..(n - 1), NEW q, NEW k \in 1..n,
           Searched(m, n, c, q, k), PidOf(m, q) = Dead, NEW x \in 0..(n - 1)
    PROVE  Blocks(m)[x].pid = -1
<1>1. k = n /\ q = c
  BY RoundTheCircle DEF Searched
<1>2. PidOf(m, x) = Dead
  <2>1. CASE x = c
    BY <1>1, <2>1
  <2>2. CASE x # c
    <3>1. PICK j \in 1..(n - 1) : x = (c + j) % n
      BY <2>2, WholeCircle
    <3>2. \A i \in 1..(n - 1) : PidOf(m, (c + i) % n) = Dead
      BY <1>1 DEF Searched
    <3> QED
      BY <3>1, <3>2
  <2> QED
    BY <2>1, <2>2
<1>3. x \in 0..7
  OBVIOUS
<1> QED
  BY <1>2, <1>3, PidSeen

LEMMA HaltFrees ==
    ASSUME NEW c \in 0..7, NEW w, EndedIn(mem', c, w), reg[PTBR] = TableAt(c)
    PROVE  V(w)!FreeMem(TableOf(reg[PTBR]), V(w)!Vpns)
<1>1. TableOf(reg[PTBR]) = c
  BY TablesByBase
<1>2. GivesFrames(mem, mem', 0..31, c)
  BY DEF EndedIn
<1> QED
  BY <1>1, <1>2 DEF GivesFrames, V!FreeMem, V!Vpns, V!NoPage, Nothing

LEMMA HaltInVm ==
    ASSUME VInv, Halt, shown' = NoDelivery, NEW w, w = view
    PROVE  V(w)!Next
<1>1. /\ IInv /\ InPage(w) /\ Fetching /\ status = "running" /\ Vpn(reg[RPC]) # 0
      /\ UNCHANGED <<status, args, frames>> /\ shown' = NoDelivery
  BY DEF VInv, ViewOK, Halt, Trap, Executes, Fetching
<1>2. PICK n \in 1..7, c \in Int :
         /\ n = NewPid /\ c = Current /\ 0 <= c /\ c <= n - 1
         /\ reg[PTBR] = TableAt(c) /\ Pcbs(mem, n) /\ Peek(mem, 1) = n
  BY <1>1, TheProcess
<1>3. c \in 0..7 /\ c \in 0..6 /\ c \in 0..(n - 1)
  BY <1>2
<1>4. PICK m : m = Ended /\ Switch(m, NextAfter(m, c)) /\ PidOf(m, NextAfter(m, c)) # Dead
  BY <1>2 DEF Halt
<1>5. Sound(m) /\ Words(m) /\ Peek(m, 1) = n
  BY <1>1, <1>2, <1>3, <1>4, EndedSound DEF Sound
<1>6. PICK q \in 0..(n - 1) : q = NextAfter(m, c)
  BY <1>3, <1>5, NextIsAProcess
<1>7. PICK k \in 1..n : Searched(m, n, c, q, k)
  BY <1>3, <1>5, <1>6, SearchEnds
<1>8. q \in 0..6 /\ q \in 0..7 /\ q \in V(w)!Pids
  BY DEF V!Pids
<1>9. V(w)!SwitchTo(q, Blocks(m)) /\ \A b : b # 0 => Peek(mem', b) = Peek(m, b)
  BY <1>1, <1>4, <1>6, <1>8, SwitchSeen
<1>10. EndedIn(mem', c, w) /\ EndedIn(m, c, w)
  BY <1>1, <1>2, <1>3, <1>4, <1>9, EndedSeen
<1>11. Blocks(m) = Blocks(mem')
  BY <1>10 DEF EndedIn
<1>12. V(w)!FirstAfter(c, q, Blocks(m))
  BY <1>1, <1>2, <1>3, <1>4, <1>5, <1>6, <1>7, FirstAfterSeen
<1>13. V(w)!Halt
  <2>1. V(w)!Fetched
    BY <1>1, FetchedSeen
  <2>2. V(w)!FreeMem(TableOf(reg[PTBR]), V(w)!Vpns)
    BY <1>2, <1>3, <1>10, HaltFrees
  <2>3. ProcessOf(Current) = c
    BY <1>2 DEF ProcessOf
  <2>4. Blocks(mem') = [Blocks(mem) EXCEPT ![ProcessOf(Current)].pid = -1]
    BY <1>10, <2>3 DEF EndedIn, Marked
  <2>5. q \in 0..(Peek(mem, 1) - 1) /\ V(w)!FirstAfter(ProcessOf(Current), q, Blocks(mem'))
        /\ V(w)!SwitchTo(q, Blocks(mem'))
    BY <1>2, <1>9, <1>11, <1>12, <2>3
  <2>6. UNCHANGED <<status, V(w)!os, Contents(mem, w)>> /\ shown' = V(w)!Nothing
    BY <1>1, <1>10 DEF EndedIn, V!os, V!Nothing, NoDelivery
  <2> QED
    BY <2>1, <2>2, <2>4, <2>5, <2>6 DEF V!Halt, V!Terminated
<1> QED
  BY <1>13 DEF V!Next, V!Instruction

LEMMA HaltLastInVm ==
    ASSUME VInv, HaltLast, shown' = NoDelivery, NEW w, w = view
    PROVE  V(w)!Next
<1>1. /\ IInv /\ InPage(w) /\ Fetching /\ status = "running" /\ Vpn(reg[RPC]) # 0
      /\ status' = "halted" /\ Goto(Pc) /\ mem' = Ended /\ UNCHANGED <<args, frames>>
      /\ shown' = NoDelivery
  BY DEF VInv, ViewOK, HaltLast, Trap, Executes, Fetching
<1>2. PICK n \in 1..7, c \in Int :
         /\ n = NewPid /\ c = Current /\ 0 <= c /\ c <= n - 1
         /\ reg[PTBR] = TableAt(c) /\ Pcbs(mem, n) /\ Peek(mem, 1) = n
  BY <1>1, TheProcess
<1>3. c \in 0..7 /\ c \in 0..6 /\ c \in 0..(n - 1)
  BY <1>2
<1>4. PICK m : m = Ended /\ m = mem' /\ PidOf(m, NextAfter(m, c)) = Dead
  BY <1>1, <1>2 DEF HaltLast
<1>5. Words(m) /\ Peek(m, 1) = n
  BY <1>1, <1>2, <1>3, <1>4, EndedSound DEF Sound
<1>6. PICK q \in 0..(n - 1) : q = NextAfter(m, c)
  BY <1>3, <1>5, NextIsAProcess
<1>7. PICK k \in 1..n : Searched(m, n, c, q, k)
  BY <1>3, <1>5, <1>6, SearchEnds
<1>8. EndedIn(mem', c, w)
  BY <1>1, <1>2, <1>3, EndedSeen
<1>9. \A x \in 0..(n - 1) : Blocks(mem')[x].pid = -1
  BY <1>3, <1>4, <1>5, <1>6, <1>7, AllDead
<1>10. Peek(mem', 0) = Peek(mem, 0)
  <2>1. PICK l : l = FreeMem(mem, 0..31, TableAt(c)) /\ mem' = Poke(l, PcbAt(c), Dead)
    BY <1>1, <1>2 DEF Ended
  <2>2. Frees(mem, l, 0..31, c)
    BY <1>1, <1>3, <2>1, FreedSound DEF IInv
  <2>3. Peek(l, 0) = Peek(mem, 0)
    <3>1. OsWord(0)
      BY DEF OsWord
    <3> QED
      BY <2>2, <3>1, OsWordsApart DEF Frees
  <2>4. PcbAt(c) # 0
    BY <1>3 DEF PcbAt
  <2> QED
    BY <2>1, <2>3, <2>4, PeekPoke
<1>11. V(w)!Halt
  <2>1. V(w)!Fetched
    BY <1>1, FetchedSeen
  <2>2. V(w)!FreeMem(TableOf(reg[PTBR]), V(w)!Vpns)
    BY <1>2, <1>3, <1>8, HaltFrees
  <2>3. ProcessOf(Current) = c
    BY <1>2 DEF ProcessOf
  <2>4. Blocks(mem') = [Blocks(mem) EXCEPT ![ProcessOf(Current)].pid = -1]
    BY <1>8, <2>3 DEF EndedIn, Marked
  <2>5. Vpn(reg'[RPC]) \in V(w)!Advanced /\ reg'[PTBR] = reg[PTBR]
    <3>1. reg'[RPC] = Pc
      BY <1>1 DEF Goto, RPC, IInv
    <3>2. Moves
      BY <1>1, WordsRead, GotoMoves
    <3> QED
      BY <1>1, <3>1, <3>2, AdvancedSeen DEF Moves
  <2>6. UNCHANGED <<V(w)!os, Contents(mem, w)>> /\ shown' = V(w)!Nothing
    BY <1>1, <1>8 DEF EndedIn, V!os, V!Nothing, NoDelivery
  <2>7. \A x \in 0..(Peek(mem, 1) - 1) : Blocks(mem')[x].pid = -1
    BY <1>2, <1>9
  <2>8. UNCHANGED <<TableOf(reg[PTBR]), ProcessOf(Current)>>
    BY <1>10, <2>5 DEF Current
  <2> QED
    BY <1>1, <2>1, <2>2, <2>4, <2>5, <2>6, <2>7, <2>8 DEF V!Halt, V!Terminated
<1> QED
  BY <1>11 DEF V!Next, V!Instruction

-----------------------------------------------------------------------------
(* main                                                                     *)

LEMMA FewerArgs ==
    ASSUME args \in Seq(Programs), args # <<>>
    PROVE  Len(args) > 0 /\ Len(Tail(args)) = Len(args) - 1
  OBVIOUS

LEMMA BeginCreateInVm ==
    ASSUME VInv, BeginCreate, UNCHANGED shown, NEW w, w = view
    PROVE  V(w)!Next
<1>1. /\ IInv /\ InPage(w) /\ status = "boot" /\ args # <<>> /\ status' = "create"
      /\ frames' = <<>> /\ UNCHANGED <<args, reg, shown>> /\ args \in Seq(Programs)
  BY DEF VInv, ViewOK, BeginCreate, IInv
<1>2. PICK n \in 0..7 : n = NewPid
  BY <1>1 DEF IInv
<1>3. Filled(mem, mem', n)
  BY <1>1, <1>2, PcbFilled
<1>4. 12 <= PcbAt(n) /\ PcbAt(n) <= 33 /\ PcbAt(n) \in Int
  BY DEF PcbAt
<1>5. \A b : b \notin {PcbAt(n), PcbAt(n) + 1, PcbAt(n) + 2} => Peek(mem', b) = Peek(mem, b)
  BY <1>3 DEF Filled
<1>6. Peek(mem', 0) = Peek(mem, 0) /\ Peek(mem', 1) = Peek(mem, 1)
  BY <1>4, <1>5
<1>7. \A b \in Int : b \in {3, 4} \/ 35 < b => Peek(mem', b) = Peek(mem, b)
  BY <1>4, <1>5
<1>8. /\ FreeFrames(mem') = FreeFrames(mem) /\ PageTables(mem') = PageTables(mem)
      /\ Contents(mem', w) = Contents(mem, w)
  BY <1>1, <1>7, SameMemory
<1>9. ASSUME NEW q \in 0..7, q # n PROVE Blocks(mem')[q] = Blocks(mem)[q]
  <2>1. /\ PcbAt(q) \notin {PcbAt(n), PcbAt(n) + 1, PcbAt(n) + 2}
        /\ PcbAt(q) + 1 \notin {PcbAt(n), PcbAt(n) + 1, PcbAt(n) + 2}
        /\ PcbAt(q) + 2 \notin {PcbAt(n), PcbAt(n) + 1, PcbAt(n) + 2}
    BY <1>9 DEF PcbAt
  <2> QED
    BY <1>5, <2>1, SameBlock
<1>10. Blocks(mem')[n] = Block(n, 6, n)
  <2>1. PidOf(mem', n) = n /\ Peek(mem', PcbAt(n) + 1) = CodeStart /\ Peek(mem', PcbAt(n) + 2) = TableAt(n)
    BY <1>3 DEF Filled, PidOf
  <2>2. Vpn(CodeStart) = 6 /\ TableOf(TableAt(n)) = n /\ n # Dead
    BY TablesByBase DEF Vpn, CodeStart, PageWords, Dead
  <2>3. PcbOf(mem', n) = Block(n, 6, n)
    BY <2>1, <2>2 DEF PcbOf, Block
  <2> QED
    BY <2>3 DEF Blocks
<1>11. PICK block : block = Block(n, 6, n)
  OBVIOUS
<1>12. Blocks(mem') = [Blocks(mem) EXCEPT ![n] = block]
  BY <1>9, <1>10, <1>11, BlocksAlike DEF ButForBlock
<1>13. Len(args) > 0 /\ Len(frames') = 0 /\ Peek(mem, 1) = n
  BY <1>1, <1>2, FewerArgs DEF NewPid
<1>14. V(w)!BeginCreate
  BY <1>1, <1>6, <1>8, <1>11, <1>12, <1>13 DEF V!BeginCreate, V!memory, Block, Current
<1> QED
  BY <1>14 DEF V!Next, V!Boot

LEMMA AllocInVm ==
    ASSUME VInv, AllocSegmentPage, UNCHANGED shown, NEW w, w = view
    PROVE  V(w)!Next
<1>1. /\ IInv /\ InPage(w) /\ status = "create" /\ UNCHANGED <<status, args, reg, shown>> /\ Sound(mem)
  BY DEF VInv, ViewOK, AllocSegmentPage, IInv
<1>2. PICK p \in 0..7, g \in 0..3, v \in 0..31, f \in 3..31 : \E write : Allocates(p, g, v, f, write)
  BY <1>1, AllocTakes
<1>3. PICK write : Allocates(p, g, v, f, write)
  BY <1>2
<1>4. PICK read : read = TRUE
  OBVIOUS
<1>5. IsTaken(mem, mem', f, p, v, read, write)
  BY <1>1, <1>3, <1>4 DEF Allocates, IsTaken
<1>6. TakenIn(mem, mem', f, p, v, read, write, w)
  BY <1>1, <1>5, TakenAsInVm
<1>7. Blocks(mem') = Blocks(mem) /\ Peek(mem', 0) = Peek(mem, 0) /\ Peek(mem', 1) = Peek(mem, 1)
  BY <1>6, SameBlocks DEF TakenIn
<1>8. p = Peek(mem, 1) /\ g = Len(frames) /\ v = 6 + g /\ Len(frames') = g + 1
  BY <1>3 DEF Allocates, NewPid
<1>9. ~PageTables(mem)[p][v].valid
  <2>1. ~Valid(Entry(mem, p, v))
    BY <1>3 DEF Allocates
  <2> QED
    BY <2>1, EntryInTables, EntryFields DEF Nothing
<1>10. FullEntry(f, read, write) =
           [valid |-> TRUE, pfn |-> f, read |-> TRUE, write |-> Len(frames) >= 2]
  <2>1. write = TRUE \/ write = FALSE
    BY <1>3 DEF Allocates
  <2>2. write <=> g >= 2
    BY <1>3 DEF Allocates
  <2>3. CASE g >= 2
    <3>1. write = TRUE /\ Len(frames) >= 2
      BY <1>8, <2>1, <2>2, <2>3
    <3> QED
      BY <1>4, <3>1 DEF FullEntry
  <2>4. CASE ~(g >= 2)
    <3>1. write = FALSE /\ (Len(frames) >= 2) = FALSE
      BY <1>8, <2>1, <2>2, <2>4
    <3>2. PICK late : late = (Len(frames) >= 2) /\ late = FALSE
      BY <3>1
    <3>3. FullEntry(f, read, write) = [valid |-> TRUE, pfn |-> f, read |-> TRUE, write |-> late]
      BY <1>4, <3>1, <3>2 DEF FullEntry
    <3> QED
      BY <3>2, <3>3
  <2> QED
    BY <2>3, <2>4
<1>11. V(w)!AllocMem(Peek(mem, 1), V(w)!SegVpn(Len(frames)), TRUE, Len(frames) >= 2)
  <2>1. V(w)!SegVpn(Len(frames)) = v
    BY <1>8 DEF V!SegVpn
  <2>2. TakesFrame(mem, mem', f, p, v, read, write)
    BY <1>6 DEF TakenIn
  <2>3. PICK e : e = FullEntry(f, read, write) /\ PageTables(mem') = [PageTables(mem) EXCEPT ![p][v] = e]
    BY <2>2 DEF TakesFrame
  <2>4. PageTables(mem') = [PageTables(mem) EXCEPT ![Peek(mem, 1)][V(w)!SegVpn(Len(frames))] =
            [valid |-> TRUE, pfn |-> f, read |-> TRUE, write |-> Len(frames) >= 2]]
    <3>1. e = [valid |-> TRUE, pfn |-> f, read |-> TRUE, write |-> Len(frames) >= 2]
      BY <1>10, <2>3
    <3> QED
      BY <1>8, <2>1, <2>3, <3>1, Zenon
  <2>5. /\ f \in FreeFrames(mem) /\ \A h \in FreeFrames(mem) : f <= h
        /\ FreeFrames(mem') = FreeFrames(mem) \ {f}
    BY <2>2 DEF TakesFrame
  <2> QED
    BY <2>4, <2>5, Zenon DEF V!AllocMem
<1>12. Contents(mem', w) = Contents(mem, w)
  BY <1>6 DEF TakenIn
<1>13. /\ Len(frames) < 2 + 2 /\ Len(frames') = Len(frames) + 1
       /\ ~PageTables(mem)[Peek(mem, 1)][V(w)!SegVpn(Len(frames))].valid
  <2>1. V(w)!SegVpn(Len(frames)) = v /\ Peek(mem, 1) = p
    BY <1>8 DEF V!SegVpn
  <2>2. ~PageTables(mem)[Peek(mem, 1)][V(w)!SegVpn(Len(frames))].valid
    BY <1>9, <2>1
  <2>3. Len(frames) < 2 + 2 /\ Len(frames') = Len(frames) + 1
    <3>1. g < 2 + 2
      OBVIOUS
    <3> QED
      BY <1>8, <3>1, Zenon
  <2> QED
    BY <2>2, <2>3
<1>14. UNCHANGED <<status, Len(args), Peek(mem, 1), Contents(mem, w), V(w)!cpu, shown>>
  BY <1>1, <1>7, <1>12 DEF V!cpu, V!process, Current
<1>15. V(w)!AllocSegmentPage
  BY <1>1, <1>11, <1>13, <1>14 DEF V!AllocSegmentPage, V!SegPages
<1> QED
  BY <1>15 DEF V!Next, V!Boot

LEMMA CreateFailsInVm ==
    ASSUME VInv, CreateFails, UNCHANGED shown, NEW w, w = view
    PROVE  V(w)!Next
<1>1. /\ IInv /\ InPage(w) /\ Sound(mem) /\ status = "create" /\ status' = "boot"
      /\ args \in Seq(Programs) /\ args # <<>> /\ args' = Tail(args) /\ UNCHANGED <<frames, reg, shown>>
  BY DEF VInv, ViewOK, CreateFails, IInv, Creating
<1>2. /\ Peek(mem, 1) = 7 /\ Len(frames) = 1 /\ \A h \in 3..31 : ~IsFree(mem, h)
      /\ mem' = FreeMem(mem, {6}, TableAt(7))
  BY <1>1, LastFails DEF NewPid
<1>3. FreeFrames(mem) = {}
  BY <1>1, <1>2, FreeAreUsers
<1>4. PICK p \in 0..7 : p = 7
  OBVIOUS
<1>0. PICK vpns \in SUBSET (0..31) : vpns = {6}
  <2>1. {6} \in SUBSET (0..31)
    OBVIOUS
  <2> QED
    BY <2>1
<1>5. SameOs(mem, mem') /\ GivesFrames(mem, mem', vpns, p) /\ Contents(mem', w) = Contents(mem, w)
  <2>1. mem' = FreeMem(mem, vpns, TableAt(p))
    BY <1>0, <1>2, <1>4
  <2> QED
    BY <1>1, <2>1, FreedAsInVm
<1>6. Blocks(mem') = Blocks(mem) /\ Peek(mem', 0) = Peek(mem, 0) /\ Peek(mem', 1) = Peek(mem, 1)
  BY <1>5, SameBlocks
<1>7. {V(w)!SegVpn(k) : k \in 0..(Len(frames) - 1)} = vpns
  <2>1. 0..(Len(frames) - 1) = {0}
    BY <1>2
  <2>2. V(w)!SegVpn(0) = 6
    BY DEF V!SegVpn
  <2> QED
    BY <1>0, <2>1, <2>2
<1>8. V(w)!FreeMem(Peek(mem, 1), {V(w)!SegVpn(k) : k \in 0..(Len(frames) - 1)})
  <2>1. V(w)!FreeMem(p, vpns)
    BY <1>5 DEF GivesFrames, V!FreeMem, V!Vpns, V!NoPage, Nothing
  <2> QED
    BY <1>2, <1>4, <1>7, <2>1
<1>9. Len(args') = Len(args) - 1
  BY <1>1, FewerArgs
<1>10. Len(frames) < 2 + 2
  BY <1>2
<1>11. UNCHANGED <<Len(frames), Peek(mem, 1), Contents(mem, w), V(w)!cpu, shown>>
  BY <1>1, <1>5, <1>6 DEF V!cpu, V!process, Current
<1>12. V(w)!CreateFails
  BY <1>1, <1>3, <1>8, <1>9, <1>10, <1>11 DEF V!CreateFails, V!SegPages
<1> QED
  BY <1>12 DEF V!Next, V!Boot

LEMMA FileMissingInVm ==
    ASSUME VInv, FileMissing, UNCHANGED shown, NEW w
    PROVE  V(w)!Next
<1>1. V(w)!FileMissing
  BY DEF FileMissing, V!FileMissing, V!SegPages, V!os, V!memory, V!cpu, V!process, Current
<1> QED
  BY <1>1 DEF V!Next, V!Boot

LEMMA LoadFirstProcInVm ==
    ASSUME VInv, LoadFirstProc, UNCHANGED shown, NEW w, w = view
    PROVE  V(w)!Next
<1>1. /\ IInv /\ InPage(w) /\ status = "boot" /\ args = <<>> /\ status' = "running"
      /\ mem' = Poke(mem, 0, 0) /\ UNCHANGED <<args, frames, shown>>
      /\ reg' = [reg EXCEPT ![RPC] = Peek(mem, PcbAt(0) + 1), ![PTBR] = Peek(mem, PcbAt(0) + 2)]
  BY DEF VInv, ViewOK, LoadFirstProc
<1>2. Peek(mem', 0) = 0 /\ \A b : b # 0 => Peek(mem', b) = Peek(mem, b)
  BY <1>1, PeekPoke
<1>3. \A b \in Int : b \in {3, 4} \/ 35 < b => Peek(mem', b) = Peek(mem, b)
  BY <1>2
<1>4. /\ FreeFrames(mem') = FreeFrames(mem) /\ PageTables(mem') = PageTables(mem)
      /\ Contents(mem', w) = Contents(mem, w)
  BY <1>1, <1>3, SameMemory
<1>5. ASSUME NEW q \in 0..7 PROVE PcbOf(mem', q) = PcbOf(mem, q)
  <2>1. PcbAt(q) # 0 /\ PcbAt(q) + 1 # 0 /\ PcbAt(q) + 2 # 0
    BY DEF PcbAt
  <2> QED
    BY <1>2, <2>1 DEF PcbOf, PidOf
<1>6. Blocks(mem') = Blocks(mem)
  BY <1>5 DEF Blocks
<1>7. reg'[RPC] = Peek(mem, PcbAt(0) + 1) /\ reg'[PTBR] = Peek(mem, PcbAt(0) + 2)
  BY <1>1 DEF IInv, RPC, PTBR
<1>8. Vpn(reg'[RPC]) = Blocks(mem)[0].pc /\ TableOf(reg'[PTBR]) = Blocks(mem)[0].ptbr
  BY <1>7 DEF Blocks, PcbOf
<1>9. Len(args) = 0 /\ ProcessOf(Current') = 0 /\ Peek(mem', 1) = Peek(mem, 1)
  BY <1>1, <1>2 DEF ProcessOf, Current
<1>10. V(w)!LoadFirstProc
  BY <1>1, <1>4, <1>6, <1>8, <1>9 DEF V!LoadFirstProc, V!os, V!memory
<1> QED
  BY <1>10 DEF V!Next, V!Boot

\* The frame that ld_img reads the k-th page of process p to.
LEMMA LoadsTo ==
    ASSUME NEW p \in 0..6, p = NewPid, Fresh(mem, p, 4), NEW w, NEW k \in 0..3
    PROVE  V(w)!LoadTarget(k) = 3 + 4 * p + k
<1>1. ASSUME NEW v \in {6, 8}, NEW i \in 1..4, v = 5 + i
      PROVE  PageTables(mem)[p][v].pfn = 2 + 4 * p + i
  <2>1. FrameIn(Entry(mem, p, v)) = 2 + 4 * p + i
    BY <1>1 DEF Fresh
  <2>2. p \in p..7 /\ v \in 0..31 /\ v \in 6..(5 + 4) /\ p \in 0..7
    BY <1>1
  <2>3. Valid(Entry(mem, p, v))
    BY <2>2 DEF Fresh
  <2> QED
    BY <2>1, <2>2, <2>3, EntryInTables, EntryFields
<1>2. /\ PageTables(mem)[Peek(mem, 1)][6].pfn = 3 + 4 * p
      /\ PageTables(mem)[Peek(mem, 1)][8].pfn = 5 + 4 * p
  <2>1. PageTables(mem)[p][6].pfn = 2 + 4 * p + 1
    BY <1>1
  <2>2. PageTables(mem)[p][8].pfn = 2 + 4 * p + 3
    BY <1>1
  <2> QED
    BY <2>1, <2>2 DEF NewPid
<1>3. k = 0 \/ k = 1 \/ k = 2 \/ k = 3
  OBVIOUS
<1> QED
  BY <1>2, <1>3 DEF V!LoadTarget, V!ImageFrame, V!SegVpn

\* The page that a frame of the new process holds: page k of its segments.
PageBit(w, p, k) == ImageOf(w)[p][6 + k]

LoadsIn(w, p, f) ==
    /\ \A k \in 0..3 : f = 3 + 4 * p + k => V(w)!Loaded(f) = PageBit(w, p, k)
    /\ f < 3 + 4 * p \/ f > 6 + 4 * p => V(w)!Loaded(f) = Contents(mem, w)[f]

LEMMA LoadedSeen ==
    ASSUME NEW p \in 0..6, p = NewPid, Fresh(mem, p, 4), NEW w, NEW f \in 0..31
    PROVE  LoadsIn(w, p, f)
<1> DEFINE pages == {k \in 0..(V(w)!SegPages - 1) : V(w)!LoadTarget(k) = f}
<1>1. pages = {k \in 0..3 : 3 + 4 * p + k = f}
  <2>1. 0..(V(w)!SegPages - 1) = 0..3
    BY DEF V!SegPages
  <2> QED
    BY <2>1, LoadsTo
<1>2. V(w)!Loaded(f) =
        IF pages = {} THEN Contents(mem, w)[f]
        ELSE ImageOf(w)[Peek(mem, 1)][V(w)!SegVpn(CHOOSE k \in pages : \A j \in pages : j <= k)]
  BY DEF V!Loaded
<1> HIDE DEF pages
<1>3. ASSUME NEW k \in 0..3, f = 3 + 4 * p + k PROVE V(w)!Loaded(f) = PageBit(w, p, k)
  <2>1. pages = {k}
    BY <1>1, <1>3
  <2>2. (CHOOSE i \in pages : \A j \in pages : j <= i) = k
    BY <2>1
  <2>3. V(w)!Loaded(f) = ImageOf(w)[Peek(mem, 1)][V(w)!SegVpn(k)]
    BY <1>2, <2>1, <2>2
  <2> QED
    BY <2>3 DEF PageBit, V!SegVpn, NewPid
<1>4. ASSUME f < 3 + 4 * p \/ f > 6 + 4 * p PROVE V(w)!Loaded(f) = Contents(mem, w)[f]
  <2>1. pages = {}
    BY <1>1, <1>4
  <2> QED
    BY <1>2, <2>1
<1> QED
  BY <1>3, <1>4 DEF LoadsIn

\* What the files hold in their k-th page.
LEMMA PageOfFile ==
    ASSUME NEW p \in 0..6, NEW w, p + 1 \in DOMAIN w.line, NEW program, program = w.line[p + 1]
    PROVE  /\ PageBit(w, p, 0) = FileBit(w, program.code, 0)
           /\ PageBit(w, p, 1) = FileBit(w, program.code, 1)
           /\ PageBit(w, p, 2) = FileBit(w, program.heap, 0)
           /\ PageBit(w, p, 3) = FileBit(w, program.heap, 1)
<1>1. \A v \in 0..31 : ImageOf(w)[p][v] =
          CASE v \in {6, 7} -> FileBit(w, program.code, v - 6)
            [] v \in {8, 9} -> FileBit(w, program.heap, v - 8)
            [] OTHER -> 0
  BY DEF ImageOf
<1>2. ImageOf(w)[p][6] = FileBit(w, program.code, 6 - 6) /\ ImageOf(w)[p][7] = FileBit(w, program.code, 7 - 6)
  BY <1>1
<1>3. ImageOf(w)[p][8] = FileBit(w, program.heap, 8 - 8) /\ ImageOf(w)[p][9] = FileBit(w, program.heap, 9 - 8)
  BY <1>1
<1>4. 6 - 6 = 0 /\ 7 - 6 = 1 /\ 8 - 8 = 0 /\ 9 - 8 = 1 /\ 6 + 0 = 6 /\ 6 + 1 = 7 /\ 6 + 2 = 8 /\ 6 + 3 = 9
  OBVIOUS
<1> QED
  BY <1>2, <1>3, <1>4 DEF PageBit

LEMMA ZeroBits == ASSUME NEW w, ABit(w) PROVE Bit(0, w.bit) = 0
<1>1. PICK k \in 0..15 : k = w.bit
  BY DEF ABit
<1>2. Bit(0, k) = 0
  <2>1. /\ Bit(0, 0) = 0 /\ Bit(0, 1) = 0 /\ Bit(0, 2) = 0 /\ Bit(0, 3) = 0
        /\ Bit(0, 4) = 0 /\ Bit(0, 5) = 0 /\ Bit(0, 6) = 0 /\ Bit(0, 7) = 0
        /\ Bit(0, 8) = 0 /\ Bit(0, 9) = 0 /\ Bit(0, 10) = 0 /\ Bit(0, 11) = 0
        /\ Bit(0, 12) = 0 /\ Bit(0, 13) = 0 /\ Bit(0, 14) = 0 /\ Bit(0, 15) = 0
    BY DEF Bit, Field
  <2> QED
    BY <2>1
<1> QED
  BY <1>1, <1>2

\* The word of a file that stands where it is looked at.
ReadAt(file, start, b) == IF b < start + Len(file) THEN file[b - start + 1] ELSE 0

LEMMA FileAt ==
    ASSUME NEW file, TwoPages(file), NEW start \in Int, NEW j \in 0..1, NEW w, InPage(w), ABit(w),
           NEW b \in Int, b = start + j * 2048 + w.offset
    PROVE  Bit(ReadAt(file, start, b), w.bit) = FileBit(w, file, j)
<1>1. PICK o \in Int : o = w.offset /\ 0 <= o /\ o <= 2047
  BY OffsetBounds
<1>2. PICK l \in Nat : l = Len(file) /\ DOMAIN file = 1..l
  BY DEF TwoPages
<1>3. PICK i \in Int : i = j * 2048 + o + 1 /\ i >= 1
  BY <1>1
<1>4. i = j * PageWords + w.offset + 1
  BY <1>1, <1>3 DEF PageWords
<1>5. b - start + 1 = i
  BY <1>1, <1>3
<1>6. FileBit(w, file, j) = IF i \in 1..l THEN Bit(file[i], w.bit) ELSE 0
  BY <1>2, <1>4 DEF FileBit
<1>7. CASE i <= l
  <2>1. b < start + l /\ i \in 1..l
    BY <1>3, <1>5, <1>7
  <2>2. ReadAt(file, start, b) = file[i]
    BY <1>2, <1>5, <2>1 DEF ReadAt
  <2> QED
    BY <1>6, <2>1, <2>2
<1>8. CASE ~(i <= l)
  <2>1. ~(b < start + l) /\ i \notin 1..l
    BY <1>3, <1>5, <1>8
  <2>2. ReadAt(file, start, b) = 0
    BY <1>2, <2>1 DEF ReadAt
  <2> QED
    BY <1>6, <2>1, <2>2, ZeroBits
<1> QED
  BY <1>7, <1>8

\* What stands in the four frames, and what stands elsewhere.
LEMMA ReadSeen ==
    ASSUME NEW p \in 0..6, NEW program, TwoFiles(program), NEW m, NEW n, ProgramRead(m, n, p, program),
           BlankFrom(m, p), NEW b \in Int, b # 1
    PROVE  /\ b < CodeAt(p) => Peek(n, b) = Peek(m, b)
           /\ CodeAt(p) <= b /\ b < HeapAt(p) => Peek(n, b) = ReadAt(program.code, CodeAt(p), b)
           /\ HeapAt(p) <= b => Peek(n, b) = ReadAt(program.heap, HeapAt(p), b)
<1>1. PICK c \in Nat, h \in Nat : c = Len(program.code) /\ h = Len(program.heap) /\ c <= 4096 /\ h <= 4096
  BY DEF TwoFiles, TwoPages
<1>2. PICK x \in Int : CodeAt(p) = x /\ HeapAt(p) = x + 4096 /\ FirstBlank(p) = x
  <2>1. CodeAt(p) = 6144 + 8192 * p /\ HeapAt(p) = 10240 + 8192 * p /\ FirstBlank(p) = 6144 + 8192 * p
    BY DEF CodeAt, HeapAt, FirstBlank
  <2>2. PICK y \in Int : y = 8192 * p
    OBVIOUS
  <2> QED
    BY <2>1, <2>2
<1>3. Peek(n, b) = IF x + 4096 <= b /\ b < x + 4096 + h THEN program.heap[b - (x + 4096) + 1]
                   ELSE IF x <= b /\ b < x + c THEN program.code[b - x + 1] ELSE Peek(m, b)
  <2>1. Peek(n, b) =
            IF HeapAt(p) <= b /\ b < HeapAt(p) + Len(program.heap) THEN program.heap[b - HeapAt(p) + 1]
            ELSE IF CodeAt(p) <= b /\ b < CodeAt(p) + Len(program.code)
              THEN program.code[b - CodeAt(p) + 1] ELSE Peek(m, b)
    BY DEF ProgramRead
  <2> QED
    BY <1>1, <1>2, <2>1
<1>4. x <= b => Peek(m, b) = 0
  BY <1>2 DEF BlankFrom
<1>5. CASE b < x
  BY <1>2, <1>3, <1>5
<1>6. CASE x <= b /\ b < x + 4096
  <2>1. Peek(n, b) = IF b < x + c THEN program.code[b - x + 1] ELSE 0
    BY <1>3, <1>4, <1>6
  <2>2. ReadAt(program.code, x, b) = IF b < x + c THEN program.code[b - x + 1] ELSE 0
    BY <1>1 DEF ReadAt
  <2> QED
    BY <1>2, <1>6, <2>1, <2>2
<1>7. CASE x + 4096 <= b
  <2>1. Peek(n, b) = IF b < x + 4096 + h THEN program.heap[b - (x + 4096) + 1] ELSE 0
    <3>1. ~(b < x + c) /\ x <= b
      BY <1>1, <1>7
    <3> QED
      BY <1>3, <1>4, <1>7, <3>1
  <2>2. ReadAt(program.heap, x + 4096, b) = IF b < x + 4096 + h THEN program.heap[b - (x + 4096) + 1] ELSE 0
    BY <1>1 DEF ReadAt
  <2> QED
    BY <1>2, <1>7, <2>1, <2>2
<1> QED
  BY <1>2, <1>5, <1>6, <1>7

\* The frames of process p hold its pages, and the others what they held.
FilesIn(m, n, w, p) ==
    /\ \A k \in 0..3 : Contents(n, w)[3 + 4 * p + k] = PageBit(w, p, k)
    /\ \A f \in 0..31 : f < 3 + 4 * p \/ f > 6 + 4 * p => Contents(n, w)[f] = Contents(m, w)[f]

LEMMA ContentsRead ==
    ASSUME NEW p \in 0..6, NEW w, InPage(w), ABit(w), p + 1 \in DOMAIN w.line,
           NEW program, program = w.line[p + 1], TwoFiles(program),
           NEW m, NEW n, ProgramRead(m, n, p, program), BlankFrom(m, p)
    PROVE  FilesIn(m, n, w, p)
<1>1. PICK o \in Int : o = w.offset /\ 0 <= o /\ o <= 2047
  BY OffsetBounds
<1>2. PICK x \in Int : x = 6144 + 8192 * p /\ CodeAt(p) = x /\ HeapAt(p) = x + 4096 /\ x >= 6144
  <2>1. CodeAt(p) = 6144 + 8192 * p /\ HeapAt(p) = 10240 + 8192 * p
    BY DEF CodeAt, HeapAt
  <2>2. PICK y \in Int : y = 8192 * p /\ y >= 0
    OBVIOUS
  <2> QED
    BY <2>1, <2>2
<1>3. \A f \in 0..31 : SeenAt(f, w) = f * 2048 + o
  BY <1>1 DEF SeenAt, PageWords
<1>4. PICK code, heap : code = program.code /\ heap = program.heap /\ TwoPages(code) /\ TwoPages(heap)
  BY DEF TwoFiles
<1>5. ASSUME NEW k \in 0..3 PROVE Contents(n, w)[3 + 4 * p + k] = PageBit(w, p, k)
  <2>1. PICK f \in 3..31 : f = 3 + 4 * p + k
    OBVIOUS
  <2>2. PICK b \in Int : b = SeenAt(f, w) /\ b = x + k * 2048 + o /\ b # 1
    <3>1. f \in 0..31 /\ f * 2048 + o = x + k * 2048 + o
      BY <1>1, <1>2, <2>1
    <3>2. SeenAt(f, w) = x + k * 2048 + o
      BY <1>3, <3>1
    <3>3. x + k * 2048 + o \in Int /\ x + k * 2048 + o # 1
      BY <1>1, <1>2
    <3> QED
      BY <3>2, <3>3
  <2>3. Contents(n, w)[f] = Bit(Peek(n, b), w.bit)
    <3>1. Contents(n, w)[f] = Bit(Peek(n, SeenAt(f, w)), w.bit)
      BY ContentsAt
    <3>2. Peek(n, SeenAt(f, w)) = Peek(n, b)
      BY <2>2
    <3> QED
      BY <3>1, <3>2
  <2>4. CASE k = 0 \/ k = 1
    <3>1. PICK j \in 0..1 : j = k
      BY <2>4
    <3>2. CodeAt(p) <= b /\ b < HeapAt(p) /\ b = x + j * 2048 + w.offset
      BY <1>1, <1>2, <2>2, <3>1
    <3>3. Peek(n, b) = ReadAt(code, x, b)
      BY <1>2, <1>4, <2>2, <3>2, ReadSeen
    <3>4. Bit(Peek(n, b), w.bit) = FileBit(w, code, j)
      BY <1>4, <3>2, <3>3, FileAt
    <3>5. PageBit(w, p, k) = FileBit(w, code, j)
      BY <1>4, <2>4, <3>1, PageOfFile
    <3> QED
      BY <2>1, <2>3, <3>4, <3>5
  <2>5. CASE k = 2 \/ k = 3
    <3>1. PICK j \in 0..1 : j = k - 2
      BY <2>5
    <3>2. PICK y \in Int : y = x + 4096
      OBVIOUS
    <3>3. HeapAt(p) <= b /\ b = y + j * 2048 + w.offset
      BY <1>1, <1>2, <2>2, <3>1, <3>2
    <3>4. Peek(n, b) = ReadAt(heap, y, b)
      BY <1>2, <1>4, <2>2, <3>2, <3>3, ReadSeen
    <3>5. Bit(Peek(n, b), w.bit) = FileBit(w, heap, j)
      BY <1>4, <3>3, <3>4, FileAt
    <3>6. PageBit(w, p, k) = FileBit(w, heap, j)
      BY <1>4, <2>5, <3>1, PageOfFile
    <3> QED
      BY <2>1, <2>3, <3>5, <3>6
  <2> QED
    BY <2>4, <2>5
<1>6. ASSUME NEW f \in 0..31, f < 3 + 4 * p \/ f > 6 + 4 * p
      PROVE  Contents(n, w)[f] = Contents(m, w)[f]
  <2>1. CASE f < 3
    BY <2>1 DEF Contents
  <2>2. CASE ~(f < 3)
    <3>1. f \in 3..31
      BY <2>2
    <3>2. PICK b \in Int : b = f * 2048 + o /\ b = SeenAt(f, w) /\ b # 1
      BY <1>1, <1>3, <2>2
    <3>3. Peek(n, b) = Peek(m, b)
      <4>1. CASE f < 3 + 4 * p
        <5>1. b < x
          BY <1>1, <1>2, <3>2, <4>1
        <5> QED
          BY <1>2, <3>2, <5>1, ReadSeen
      <4>2. CASE f > 6 + 4 * p
        <5>1. x + 8192 <= b
          BY <1>1, <1>2, <3>2, <4>2
        <5>2. PICK l \in Nat : l = Len(heap) /\ l <= 4096
          BY <1>4 DEF TwoPages
        <5>3. HeapAt(p) <= b /\ ~(b < HeapAt(p) + l)
          BY <1>2, <5>1, <5>2
        <5>4. ReadAt(heap, HeapAt(p), b) = 0
          BY <5>2, <5>3 DEF ReadAt
        <5>5. Peek(n, b) = 0
          BY <1>4, <3>2, <5>3, <5>4, ReadSeen
        <5>6. FirstBlank(p) <= b
          <6>1. FirstBlank(p) = x
            BY <1>2 DEF FirstBlank
          <6> QED
            BY <5>1, <6>1
        <5> QED
          BY <5>5, <5>6 DEF BlankFrom
      <4> QED
        BY <1>6, <4>1, <4>2
    <3> QED
      BY <3>1, <3>2, <3>3, ContentsAt
  <2> QED
    BY <2>1, <2>2
<1> QED
  BY <1>5, <1>6 DEF FilesIn

LEMMA FinishCreateInVm ==
    ASSUME VInv, FinishCreate, UNCHANGED shown, NEW w, w = view
    PROVE  V(w)!Next
<1>1. /\ IInv /\ InPage(w) /\ ABit(w) /\ status = "create" /\ status' = "boot" /\ Len(frames) = 4
      /\ args \in Seq(Programs) /\ args # <<>> /\ args' = Tail(args) /\ UNCHANGED <<frames, reg, shown>>
  BY DEF VInv, ViewOK, FinishCreate, IInv, Creating
<1>2. PICK p \in 0..6 :
        /\ p = NewPid /\ Remaining(p) /\ p + 1 \in DOMAIN view.line
        /\ TwoFiles(view.line[p + 1]) /\ ProgramRead(mem, mem', p, view.line[p + 1])
  BY ReadsItsFiles
<1>3. PICK program : /\ p + 1 \in DOMAIN w.line /\ program = w.line[p + 1]
                     /\ TwoFiles(program) /\ ProgramRead(mem, mem', p, program)
  BY <1>2
<1>4. Fresh(mem, p, 4) /\ BlankFrom(mem, p)
  BY <1>1, <1>2 DEF VInv, IInv, Creating, Blank
<1>5. ASSUME NEW f \in 0..31 PROVE Contents(mem', w)[f] = V(w)!Loaded(f)
  <2>3. FilesIn(mem, mem', w, p)
    BY <1>1, <1>3, <1>4, ContentsRead
  <2>4. LoadsIn(w, p, f)
    BY <1>2, <1>4, LoadedSeen
  <2>1. CASE f < 3 + 4 * p \/ f > 6 + 4 * p
    <3>1. Contents(mem', w)[f] = Contents(mem, w)[f]
      BY <2>1, <2>3 DEF FilesIn
    <3>2. V(w)!Loaded(f) = Contents(mem, w)[f]
      BY <2>1, <2>4 DEF LoadsIn
    <3> QED
      BY <3>1, <3>2
  <2>2. CASE ~(f < 3 + 4 * p \/ f > 6 + 4 * p)
    <3>1. PICK k \in 0..3 : f = 3 + 4 * p + k
      <4>1. f - (3 + 4 * p) \in 0..3 /\ f = 3 + 4 * p + (f - (3 + 4 * p))
        BY <2>2
      <4> QED
        BY <4>1
    <3>2. Contents(mem', w)[f] = PageBit(w, p, k)
      BY <2>3, <3>1 DEF FilesIn
    <3>3. V(w)!Loaded(f) = PageBit(w, p, k)
      BY <2>4, <3>1 DEF LoadsIn
    <3> QED
      BY <3>2, <3>3
  <2> QED
    BY <2>1, <2>2
<1>6. Contents(mem', w) = [f \in 0..31 |-> V(w)!Loaded(f)]
  BY <1>5 DEF Contents
<1>7. \A b \in Int : b < 6144 /\ b # 1 => Peek(mem', b) = Peek(mem, b)
  <2>1. CodeAt(p) >= 6144 /\ CodeAt(p) \in Int
    BY DEF CodeAt
  <2> QED
    BY <1>3, <1>4, <2>1, ReadSeen
<1>8. ASSUME NEW q \in 0..7 PROVE PcbOf(mem', q) = PcbOf(mem, q)
  <2>1. /\ PcbAt(q) \in Int /\ PcbAt(q) < 6144 /\ PcbAt(q) # 1
        /\ PcbAt(q) + 1 < 6144 /\ PcbAt(q) + 1 # 1
        /\ PcbAt(q) + 2 < 6144 /\ PcbAt(q) + 2 # 1
    BY DEF PcbAt
  <2>2. Peek(mem', PcbAt(q)) = Peek(mem, PcbAt(q)) /\ Peek(mem', PcbAt(q) + 1) = Peek(mem, PcbAt(q) + 1)
        /\ Peek(mem', PcbAt(q) + 2) = Peek(mem, PcbAt(q) + 2)
    BY <1>7, <2>1
  <2> QED
    BY <2>2 DEF PcbOf, PidOf
<1>9. Blocks(mem') = Blocks(mem)
  BY <1>8 DEF Blocks
<1>10. FreeFrames(mem') = FreeFrames(mem) /\ Peek(mem', 0) = Peek(mem, 0)
  BY <1>7, SameFree
<1>11. PageTables(mem') = PageTables(mem)
  <2>1. \A q \in 0..7, v \in 0..31 : EntryAt(q, v) \in Int /\ EntryAt(q, v) < 6144 /\ EntryAt(q, v) # 1
    BY EntryBounds, WordBounds
  <2>2. \A q \in 0..7, v \in 0..31 : Entry(mem', q, v) = Entry(mem, q, v)
    BY <1>7, <2>1 DEF Entry
  <2> QED
    BY <2>2, SameTables
<1>12. Peek(mem, 1) = p /\ Peek(mem', 1) = Peek(mem, 1) + 1
  BY <1>2 DEF NewPid, ProgramRead
<1>13. Len(args') = Len(args) - 1
  BY <1>1, FewerArgs
<1>14. V(w)!FinishCreate
  BY <1>1, <1>6, <1>9, <1>10, <1>11, <1>12, <1>13
  DEF V!FinishCreate, V!SegPages, V!Frames, V!cpu, V!process, Current
<1> QED
  BY <1>14 DEF V!Next, V!Boot

-----------------------------------------------------------------------------
(* Every step                                                               *)

\* An instruction has one opcode and a trap one number, so nothing but a load
\* and a print delivers a word.
LEMMA OneTrap == ASSUME NEW n \in Traps, n # PUTS, Trap({n}) PROVE ~Loading /\ ~Trap({PUTS})
  BY DEF Trap, Loading, Executes, Reading

LEMMA OneOpcode ==
    ASSUME NEW ops, ops \cap (Reading \cup {15}) = {}, Executes(ops)
    PROVE  ~Loading /\ ~Trap({PUTS})
  BY DEF Trap, Loading, Executes

LEMMA BootShows == Boot => ~Loading /\ ~Trap({PUTS})
<1> SUFFICES ASSUME Boot PROVE status # "running"
  BY DEF Loading, Trap, Executes
<1> QED
  BY DEF Boot, BeginCreate, AllocSegmentPage, CreateFails, FinishCreate, FileMissing, LoadFirstProc

LEMMA FaultShows == Fault => ~Loading /\ ~Trap({PUTS})
<1>1. CASE FetchFault
  BY <1>1 DEF FetchFault, Loading, Trap, Executes
<1>2. CASE PointerFault
  <2>1. Executes(Indirect) /\ ~HasAddress
    BY <1>2 DEF PointerFault
  <2>2. ~Trap({PUTS})
    BY <2>1 DEF Executes, Indirect, Trap
  <2> QED
    BY <2>1, <2>2 DEF Loading
<1>3. CASE LoadFault
  <2>1. Executes(Reading) /\ ~CanRead(Address)
    BY <1>3 DEF LoadFault
  <2>2. ~Trap({PUTS})
    BY <2>1 DEF Executes, Reading, Trap
  <2> QED
    BY <2>1, <2>2 DEF Loading
<1>4. CASE StoreFault
  <2>1. Executes(Writing)
    BY <1>4 DEF StoreFault
  <2> QED
    BY <2>1, OneOpcode DEF Writing, Reading
<1> QED
  BY <1>1, <1>2, <1>3, <1>4 DEF Fault

LEMMA WildShows == WildTrap \/ FetchReserved => ~Loading /\ ~Trap({PUTS})
<1>1. CASE WildTrap
  <2>1. PUTS \in Traps
    BY DEF PUTS, Traps, GETC, BRK
  <2> QED
    BY <1>1, <2>1 DEF WildTrap, Loading, Trap, Executes, Reading
<1>2. CASE FetchReserved
  BY <1>2 DEF FetchReserved, Loading, Trap, Executes
<1> QED
  BY <1>1, <1>2

\* The quiet steps that deliver no word.
Mute ==
    \/ Br \/ Add \/ And \/ Not \/ Lea \/ Jsr \/ Jmp \/ Unused
    \/ Getc \/ In \/ Out \/ Putsp \/ Inu16 \/ Outu16 \/ YieldAlone

LEMMA MuteShows == Mute => ~Loading /\ ~Trap({PUTS})
<1>1. CASE Br \/ Add \/ And \/ Not \/ Lea \/ Jsr \/ Jmp \/ Unused
  <2>1. Executes({0}) \/ Executes({1}) \/ Executes({5}) \/ Executes({9}) \/ Executes({14})
        \/ Executes({4}) \/ Executes({12}) \/ Executes({8, 13})
    BY <1>1 DEF Br, Add, And, Not, Lea, Jsr, Jmp, Unused
  <2> QED
    BY <2>1, OneOpcode DEF Reading
<1>2. CASE Getc \/ In \/ Out \/ Putsp \/ Inu16 \/ Outu16 \/ YieldAlone
  <2>1. Trap({GETC}) \/ Trap({TIN}) \/ Trap({OUT}) \/ Trap({PUTSP}) \/ Trap({INU16})
        \/ Trap({OUTU16}) \/ Trap({YIELD})
    BY <1>2 DEF Getc, In, Out, Putsp, Inu16, Outu16, YieldAlone
  <2> QED
    BY <2>1, OneTrap DEF Traps, GETC, OUT, PUTS, TIN, PUTSP, INU16, OUTU16, YIELD, BRK
<1> QED
  BY <1>1, <1>2 DEF Mute

Switching == Brk \/ Yield \/ Halt \/ HaltLast

LEMMA SwitchingShows == Store \/ Switching => ~Loading /\ ~Trap({PUTS})
<1>1. CASE Store
  BY <1>1, OneOpcode DEF Store, Writing, Reading
<1>2. CASE Switching
  <2>1. Trap({BRK}) \/ Trap({YIELD}) \/ Trap({HALT})
    BY <1>2 DEF Switching, Brk, Yield, Halt, HaltLast
  <2> QED
    BY <2>1, OneTrap DEF Traps, GETC, PUTS, YIELD, HALT, BRK
<1> QED
  BY <1>1, <1>2

LEMMA LoadShows == Load => Loading
  BY DEF Load

LEMMA PutsShows == Puts => ~Loading /\ Trap({PUTS})
  BY DEF Puts, Trap, Loading, Executes, Reading

LEMMA QuietRuns == Quiet => status = "running"
BY DEF Quiet, Br, Add, And, Not, Lea, Jsr, Jmp, Unused, Load, Loading, Getc, In, Out, Puts, Putsp,
       Inu16, Outu16, YieldAlone, Trap, Executes

LEMMA NextInVm ==
    ASSUME VInv, [ViewNext]_allVars, NEW w, w = view
    PROVE  V(w)!Next \/ UNCHANGED V(w)!vars
<1>1. CASE UNCHANGED allVars
  <2>1. UNCHANGED <<status, args, frames, mem, reg, shown>>
    BY <1>1 DEF allVars, vars
  <2>2. UNCHANGED <<V(w)!os, V(w)!memory, V(w)!cpu>>
    BY <2>1 DEF V!os, V!memory, V!cpu, V!process, Current
  <2> QED
    BY <2>1, <2>2 DEF V!vars
<1>2. CASE ViewNext
  <2>1. /\ Next /\ IInv
        /\ Loading => shown' = ShownByLoad
        /\ ~Loading /\ Trap({PUTS}) => shown' = ShownByPuts
        /\ ~Loading /\ ~Trap({PUTS}) =>
              shown' = IF status = "running" THEN NoDelivery ELSE shown
    BY <1>2 DEF ViewNext, VInv
  <2>2. CASE Boot
    <3>1. shown' = shown
      BY <2>1, <2>2, BootShows
      DEF Boot, BeginCreate, AllocSegmentPage, CreateFails, FinishCreate, FileMissing, LoadFirstProc
    <3> QED
      BY <2>2, <3>1, BeginCreateInVm, AllocInVm, CreateFailsInVm, FinishCreateInVm, FileMissingInVm,
         LoadFirstProcInVm DEF Boot
  <2>3. CASE Fault
    <3>1. Stays
      BY <2>1, <2>3, FaultShows
      DEF Stays, Fault, FetchFault, PointerFault, LoadFault, StoreFault, Exit, Executes
    <3> QED
      BY <2>1, <2>3, <3>1, FaultInVm
  <2>4. CASE WildTrap \/ FetchReserved
    <3>1. Stays
      BY <2>1, <2>4, WildShows DEF Stays, WildTrap, FetchReserved, Executes
    <3> QED
      BY <2>1, <2>4, <3>1, WildInVm
  <2>5. CASE Mute
    <3>1. Quiet /\ status = "running"
      BY <2>5, QuietRuns DEF Mute, Quiet
    <3>2. shown' = NoDelivery
      BY <2>1, <2>5, <3>1, MuteShows
    <3> QED
      BY <2>1, <3>1, <3>2, QuietInVm
  <2>6. CASE Load
    BY <2>1, <2>6, LoadShows, LoadInVm
  <2>7. CASE Puts
    BY <2>1, <2>7, PutsShows, PutsInVm
  <2>8. CASE Store
    <3>1. shown' = NoDelivery
      BY <2>1, <2>8, SwitchingShows DEF Store, Executes
    <3> QED
      BY <2>8, <3>1, StoreInVm
  <2>9. CASE Switching
    <3>1. shown' = NoDelivery
      BY <2>1, <2>9, SwitchingShows DEF Switching, Brk, Yield, Halt, HaltLast, Trap, Executes
    <3> QED
      BY <2>9, <3>1, BrkInVm, YieldInVm, HaltInVm, HaltLastInVm DEF Switching
  <2> QED
    BY <2>1, <2>2, <2>3, <2>4, <2>5, <2>6, <2>7, <2>8, <2>9 DEF Next, Plain, Call, Mute, Switching
<1> QED
  BY <1>1, <1>2

-----------------------------------------------------------------------------
(* The theorems                                                             *)

\* What main still has to load is the rest of the command line, and the frames
\* it will load it to have never been written: in every state, besides what
\* MachineInvariant says of the operating system's words.
THEOREM ViewInvariant == ViewSpec => []VInv
<1>1. ViewInit => VInv
  BY InitVInv
<1>2. VInv /\ [ViewNext]_allVars => VInv'
  BY NextKeepsVInv
<1> QED
  BY <1>1, <1>2, PTL DEF ViewSpec

\* The words of the machine implement the operating system of Vm: whatever bit of
\* whatever word of the pages is looked at, what createProc, run and the traps do to
\* the array mem is a step of Vm with its tables as tables, or changes nothing there.
THEOREM MachineImplementsVm == ViewSpec => ImplementsVm
<1>1. ViewInit => \A w \in {view} : V(w)!Init
  BY InitInVm
<1>2. VInv /\ [ViewNext]_allVars => [\A w \in {view} : V(w)!Next \/ UNCHANGED V(w)!vars]_allVars
  BY NextInVm
<1> QED
  BY <1>1, <1>2, ViewInvariant, PTL DEF ViewSpec, ImplementsVm
=============================================================================
