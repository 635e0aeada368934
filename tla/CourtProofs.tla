---------------------------- MODULE CourtProofs ----------------------------
(***************************************************************************)
(* Proofs about Court, for any finite set of threads and any court size.   *)
(* The inductive invariant says where the slots are in each stage of the   *)
(* cycle of a match: before the barrier lets go, while people leave, while *)
(* the last one resets the court, and while it posts the slots again.      *)
(***************************************************************************)
EXTENDS Court, FiniteSetTheorems, TLAPS

AtTheBarrier == Among({"barrier", "blocked"})
Notifying == Among({"notify"})

\* No one is between the barrier and the end of the reset: all slots are
\* available or held.
SlotsBeforeBarrier ==
    Departing = {} /\ Closing = {} /\ Opening = {}
        => courtAvailable + Cardinality(Holding) = capacity

\* While people leave a match, they are the only holders of a slot.
LeavingIsExclusive ==
    Departing # {} =>
        /\ matchGoing
        /\ Closing = {} /\ Opening = {}
        /\ courtAvailable = 0
        /\ Holding = Departing
        /\ Cardinality(Departing) <= capacity

\* The last one resets an empty court that nobody can enter.
ClosingIsExclusive ==
    Closing # {} =>
        /\ Holding = {}
        /\ courtAvailable = 0

\* While it opens the court, as many slots are in use as it has posted.
OpeningCounts ==
    \A t \in Opening :
        /\ ~matchGoing
        /\ posted[t] < capacity
        /\ courtAvailable + Cardinality(Holding) = posted[t]

OneCloser == \A t, u \in Closing \cup Opening : t = u

\* matchGoing is true from the formation of the match to its reset.
GoingFrom == AtTheBarrier # {} \/ Among({"reset"}) # {} => matchGoing
GoingUntil == Notifying # {} => ~matchGoing

\* The console shows an unfinished match exactly then.
ConsoleFollows ==
    console["started"] =
        console["everybodyLeft"] + IF matchGoing \/ Notifying # {} THEN 1 ELSE 0

CourtInv ==
    /\ TypeOK
    /\ inside = Cardinality(Inside)
    /\ SlotsBeforeBarrier
    /\ LeavingIsExclusive
    /\ ClosingIsExclusive
    /\ OpeningCounts
    /\ OneCloser
    /\ GoingFrom
    /\ GoingUntil
    /\ ConsoleFollows

-----------------------------------------------------------------------------
(* Lemmas about the sets of threads at given points.                        *)

\* A set of threads is finite, so it has a cardinality.
LEMMA AmongFinite ==
    ASSUME NEW points
    PROVE  /\ IsFiniteSet(Among(points))
           /\ Cardinality(Among(points)) \in Nat
           /\ Cardinality(Among(points)) = 0 <=> Among(points) = {}
<1>1. IsFiniteSet(Among(points))
  BY ThreadsAssumption, FS_Subset DEF Among
<1> QED
  BY <1>1, FS_CardinalityType, FS_EmptySet

\* A set of threads after one thread has moved to q.
Moved(set, points, t, q) ==
    IF q \in points
      THEN IF pc[t] \in points THEN set ELSE set \cup {t}
      ELSE IF pc[t] \in points THEN set \ {t} ELSE set

\* What a move of one thread does to the sets the invariant speaks of.
AllMoved(t, q) ==
    /\ Inside' = Moved(Inside, InsidePoints, t, q)
    /\ Holding' = Moved(Holding, InsidePoints \cup EnteringPoints, t, q)
    /\ Departing' = Moved(Departing, DepartingPoints, t, q)
    /\ Closing' = Moved(Closing, ClosingPoints, t, q)
    /\ Opening' = Moved(Opening, {"open"}, t, q)
    /\ AtTheBarrier' = Moved(AtTheBarrier, {"barrier", "blocked"}, t, q)
    /\ Notifying' = Moved(Notifying, {"notify"}, t, q)
    /\ Among({"reset"})' = Moved(Among({"reset"}), {"reset"}, t, q)

LEMMA Move ==
    ASSUME TypeOK, NEW t \in Threads, NEW q, Goto(t, q)
    PROVE  AllMoved(t, q)
<1> USE DEF TypeOK, Goto, Among, Moved
<1>1. Inside' = Moved(Inside, InsidePoints, t, q) BY DEF Inside
<1>2. Holding' = Moved(Holding, InsidePoints \cup EnteringPoints, t, q) BY DEF Holding
<1>3. Departing' = Moved(Departing, DepartingPoints, t, q) BY DEF Departing
<1>4. Closing' = Moved(Closing, ClosingPoints, t, q) BY DEF Closing
<1>5. Opening' = Moved(Opening, {"open"}, t, q) BY DEF Opening
<1>6. AtTheBarrier' = Moved(AtTheBarrier, {"barrier", "blocked"}, t, q) BY DEF AtTheBarrier
<1>7. Notifying' = Moved(Notifying, {"notify"}, t, q) BY DEF Notifying
<1>8. Among({"reset"})' = Moved(Among({"reset"}), {"reset"}, t, q)
  OBVIOUS
<1> QED
  BY <1>1, <1>2, <1>3, <1>4, <1>5, <1>6, <1>7, <1>8 DEF AllMoved

\* The same in numbers, for the two sets that are counted.
LEMMA MoveCounts ==
    ASSUME TypeOK, NEW t \in Threads, NEW q, Goto(t, q)
    PROVE  /\ Cardinality(Inside') =
                 CASE q \in InsidePoints /\ t \notin Inside -> Cardinality(Inside) + 1
                   [] q \notin InsidePoints /\ t \in Inside -> Cardinality(Inside) - 1
                   [] OTHER -> Cardinality(Inside)
           /\ Cardinality(Holding') =
                 CASE q \in InsidePoints \cup EnteringPoints /\ t \notin Holding
                        -> Cardinality(Holding) + 1
                   [] q \notin InsidePoints \cup EnteringPoints /\ t \in Holding
                        -> Cardinality(Holding) - 1
                   [] OTHER -> Cardinality(Holding)
<1>1. IsFiniteSet(Inside) /\ IsFiniteSet(Holding)
  BY AmongFinite DEF Inside, Holding
<1>2. /\ Cardinality(Inside \cup {t}) =
             IF t \in Inside THEN Cardinality(Inside) ELSE Cardinality(Inside) + 1
      /\ Cardinality(Inside \ {t}) =
             IF t \in Inside THEN Cardinality(Inside) - 1 ELSE Cardinality(Inside)
      /\ Cardinality(Holding \cup {t}) =
             IF t \in Holding THEN Cardinality(Holding) ELSE Cardinality(Holding) + 1
      /\ Cardinality(Holding \ {t}) =
             IF t \in Holding THEN Cardinality(Holding) - 1 ELSE Cardinality(Holding)
  BY <1>1, FS_AddElement, FS_RemoveElement
<1>3. /\ t \in Inside <=> pc[t] \in InsidePoints
      /\ t \in Holding <=> pc[t] \in InsidePoints \cup EnteringPoints
  BY DEF Inside, Holding, Among
<1> QED
  BY <1>2, <1>3, Move DEF AllMoved, Moved

\* The people inside hold slots, and a full house is everyone.
LEMMA InsideHolds ==
    /\ Inside \subseteq Holding
    /\ Cardinality(Inside) \in Nat /\ Cardinality(Holding) \in Nat
    /\ Cardinality(Inside) <= Cardinality(Holding)
    /\ Cardinality(Inside) = 0 <=> Inside = {}
    /\ Cardinality(Holding) = 0 <=> Holding = {}
<1>1. Inside \subseteq Holding
  BY DEF Inside, Holding, Among
<1>2. Cardinality(Inside) <= Cardinality(Holding)
  BY <1>1, AmongFinite, FS_Subset DEF Holding
<1> QED
  BY <1>1, <1>2, AmongFinite DEF Inside, Holding

-----------------------------------------------------------------------------
(* The invariant holds at the start and every step keeps it.                *)

LEMMA InitInv == Init => CourtInv
<1> SUFFICES ASSUME Init PROVE CourtInv
  OBVIOUS
<1>1. PICK p \in 0..MaxPlayers, r \in 0..2 : Construct(p, r)
  BY DEF Init
<1>2. TypeOK
  <2>1. /\ neededPlayers \in Nat \ {0} /\ hasReferee \in {0, 1}
        /\ inside \in Nat /\ matchGoing \in BOOLEAN /\ matchEnd \in Nat
        /\ refereeId \in Threads \cup {NoThread} /\ courtAvailable \in Nat
    <3>1. p \in Nat \ {0} /\ r \in {0, 1}
      BY <1>1, MaxPlayersAssumption DEF Construct, ValidArgs
    <3>2. p + r \in Nat
      BY <3>1
    <3> QED
      BY <1>1, <3>1, <3>2 DEF Construct
  <2>2. /\ pc \in [Threads -> Points] /\ posted \in [Threads -> Nat]
        /\ console \in [Lines -> Nat]
    BY DEF Init, Points
  <2> QED
    BY <2>1, <2>2 DEF TypeOK
<1>3. /\ Inside = {} /\ Holding = {} /\ Departing = {} /\ Closing = {}
      /\ Opening = {} /\ AtTheBarrier = {} /\ Notifying = {} /\ Among({"reset"}) = {}
  BY DEF Init, Inside, Holding, Departing, Closing, Opening, AtTheBarrier,
         Notifying, Among, InsidePoints, EnteringPoints, DepartingPoints,
         ClosingPoints
<1>4. inside = 0 /\ courtAvailable = capacity /\ ~matchGoing
  BY <1>1 DEF Construct, capacity
<1>5. console["started"] = 0 /\ console["everybodyLeft"] = 0
  BY DEF Init, Lines
<1> QED
  BY <1>2, <1>3, <1>4, <1>5, FS_EmptySet
  DEF CourtInv, SlotsBeforeBarrier, LeavingIsExclusive, ClosingIsExclusive,
      OpeningCounts, OneCloser, GoingFrom, GoingUntil, ConsoleFollows,
      TypeOK, capacity

LEMMA TypeStep == CourtInv /\ [Next]_vars => TypeOK'
<1> SUFFICES ASSUME CourtInv, [Next]_vars PROVE TypeOK'
  BY DEF CourtInv
<1> USE DEF TypeOK, Points, Lines, Goto, At, Say, config
<1>0. TypeOK
  BY DEF CourtInv
<1>1. CASE UNCHANGED vars
  BY <1>0, <1>1 DEF vars
<1>2. ASSUME NEW t \in Threads, Step(t) \/ Play(t) PROVE TypeOK'
  <2>1. CASE TakeSlot(t) BY <1>0, <2>1 DEF TakeSlot
  <2>2. CASE FindMatchGoing(t) BY <1>0, <2>2 DEF FindMatchGoing
  <2>3. CASE GiveSlotBack(t) BY <1>0, <2>3 DEF GiveSlotBack
  <2>4. CASE Enter(t)
    <3>1. CASE EnoughPlayers(inside + 1) BY <1>0, <2>4, <3>1 DEF Enter
    <3>2. CASE ~EnoughPlayers(inside + 1) BY <1>0, <2>4, <3>2 DEF Enter
    <3> QED BY <3>1, <3>2
  <2>5. CASE ReadMatchGoing(t) BY <1>0, <2>5 DEF ReadMatchGoing
  <2>6. CASE QuitWithoutMatch(t)
    <3>1. inside > 0
      BY <1>0, <2>6, InsideHolds DEF QuitWithoutMatch, CourtInv, Inside, Among, InsidePoints
    <3> QED BY <1>0, <2>6, <3>1 DEF QuitWithoutMatch
  <2>7. CASE ReleaseSlot(t) BY <1>0, <2>7 DEF ReleaseSlot
  <2>8. CASE WaitAtBarrier(t) BY <1>0, <2>8 DEF WaitAtBarrier
  <2>9. CASE RefereeSpeaks(t) BY <1>0, <2>9 DEF RefereeSpeaks
  <2>10. CASE AnnounceEnd(t) BY <1>0, <2>10 DEF AnnounceEnd
  <2>11. CASE PlayerAwaits(t) BY <1>0, <2>11 DEF PlayerAwaits
  <2>12. CASE PlayerAgrees(t) BY <1>0, <2>12 DEF PlayerAgrees
  <2>13. CASE WaitMatchEnd(t) BY <1>0, <2>13 DEF WaitMatchEnd
  <2>14. CASE Exit(t)
    <3>1. inside > 0
      BY <1>0, <2>14, InsideHolds DEF Exit, CourtInv, Inside, Among, InsidePoints
    <3> QED BY <1>0, <2>14, <3>1 DEF Exit
  <2>15. CASE ResetMatch(t) BY <1>0, <2>15 DEF ResetMatch
  <2>16. CASE LetWaitersKnow(t) BY <1>0, <2>16 DEF LetWaitersKnow
  <2>17. CASE OpenSlot(t) BY <1>0, <2>17 DEF OpenSlot
  <2>18. CASE Play(t) BY <1>0, <2>18 DEF Play
  <2> QED
    BY <1>2, <2>1, <2>2, <2>3, <2>4, <2>5, <2>6, <2>7, <2>8, <2>9, <2>10,
       <2>11, <2>12, <2>13, <2>14, <2>15, <2>16, <2>17, <2>18 DEF Step
<1> QED
  BY <1>1, <1>2 DEF Next

\* A step that moves nobody between the sets and leaves what they are compared
\* with alone keeps the invariant.
LEMMA QuietStep ==
    ASSUME CourtInv, TypeOK',
           UNCHANGED <<Inside, Holding, Departing, Closing, Opening,
                       AtTheBarrier, Notifying, Among({"reset"})>>,
           UNCHANGED <<config, inside, matchGoing, courtAvailable>>,
           \A u \in Opening : posted'[u] = posted[u],
           console'["started"] = console["started"],
           console'["everybodyLeft"] = console["everybodyLeft"]
    PROVE  CourtInv'
BY DEF CourtInv, SlotsBeforeBarrier, LeavingIsExclusive, ClosingIsExclusive,
       OpeningCounts, OneCloser, GoingFrom, GoingUntil, ConsoleFollows,
       capacity, config

\* The moves between two points that are in the same sets.
SamePlace(p, q) ==
    /\ p \in InsidePoints <=> q \in InsidePoints
    /\ p \in EnteringPoints <=> q \in EnteringPoints
    /\ p \in DepartingPoints <=> q \in DepartingPoints
    /\ p \in ClosingPoints <=> q \in ClosingPoints
    /\ p \in {"barrier", "blocked"} <=> q \in {"barrier", "blocked"}
    /\ p \in {"open", "reset", "notify"} \/ q \in {"open", "reset", "notify"} => p = q

LEMMA SamePlaceMove ==
    ASSUME TypeOK, NEW t \in Threads, NEW q, Goto(t, q), SamePlace(pc[t], q)
    PROVE  UNCHANGED <<Inside, Holding, Departing, Closing, Opening,
                       AtTheBarrier, Notifying, Among({"reset"})>>
<1>1. AllMoved(t, q)
  BY Move
<1> QED
  BY <1>1 DEF AllMoved, Moved, SamePlace

LEMMA QuietActions ==
    ASSUME CourtInv, TypeOK', NEW t \in Threads,
           \/ FindMatchGoing(t) \/ Play(t) \/ RefereeSpeaks(t) \/ AnnounceEnd(t)
           \/ PlayerAwaits(t) \/ PlayerAgrees(t) \/ WaitMatchEnd(t)
    PROVE  CourtInv'
<1> DEFINE Kept == /\ UNCHANGED <<config, inside, matchGoing, courtAvailable>>
                   /\ \A u \in Opening : posted'[u] = posted[u]
                   /\ console'["started"] = console["started"]
                   /\ console'["everybodyLeft"] = console["everybodyLeft"]
<1>0. TypeOK
  BY DEF CourtInv
<1> USE <1>0 DEF At, Say, TypeOK, Lines, Points, SamePlace, InsidePoints,
                 EnteringPoints, DepartingPoints, ClosingPoints, Opening, Among
<1>1. CASE FindMatchGoing(t)
  <2>1. Goto(t, "giveBack") /\ SamePlace(pc[t], "giveBack") /\ Kept
    BY <1>1 DEF FindMatchGoing
  <2> QED BY <2>1, SamePlaceMove, QuietStep
<1>2. CASE Play(t)
  <2>1. Goto(t, "leave") /\ SamePlace(pc[t], "leave") /\ Kept
    BY <1>2 DEF Play
  <2> QED BY <2>1, SamePlaceMove, QuietStep
<1>3. CASE RefereeSpeaks(t)
  <2>1. Goto(t, "announce") /\ SamePlace(pc[t], "announce") /\ Kept
    BY <1>3 DEF RefereeSpeaks
  <2> QED BY <2>1, SamePlaceMove, QuietStep
<1>4. CASE AnnounceEnd(t)
  <2> DEFINE q == IF posted[t] + 1 = neededPlayers THEN "exit" ELSE "announce"
  <2>1. Goto(t, q) /\ SamePlace(pc[t], q) /\ Kept
    BY <1>4 DEF AnnounceEnd
  <2> QED BY <2>1, SamePlaceMove, QuietStep
<1>5. CASE PlayerAwaits(t)
  <2>1. Goto(t, "awaitReferee") /\ SamePlace(pc[t], "awaitReferee") /\ Kept
    BY <1>5 DEF PlayerAwaits
  <2> QED BY <2>1, SamePlaceMove, QuietStep
<1>6. CASE PlayerAgrees(t)
  <2>1. Goto(t, "exit") /\ SamePlace(pc[t], "exit") /\ Kept
    BY <1>6 DEF PlayerAgrees
  <2> QED BY <2>1, SamePlaceMove, QuietStep
<1>7. CASE WaitMatchEnd(t)
  <2> DEFINE q == IF pc[t] = "waitEnd" THEN "court" ELSE "exit"
  <2>1. Goto(t, q) /\ SamePlace(pc[t], q) /\ Kept
    BY <1>7 DEF WaitMatchEnd
  <2> QED BY <2>1, SamePlaceMove, QuietStep
<1> QED
  BY <1>1, <1>2, <1>3, <1>4, <1>5, <1>6, <1>7

\* Coming in: a thread takes a slot, and is counted.
LEMMA TakeSlotKeeps ==
    ASSUME CourtInv, TypeOK', NEW t \in Threads, TakeSlot(t)
    PROVE  CourtInv'
<1>0. TypeOK BY DEF CourtInv
<1>1. Goto(t, "check") /\ pc[t] = "court"
  BY DEF TakeSlot, At
<1>2. /\ t \notin Inside /\ t \notin Holding /\ t \notin Departing
      /\ t \notin Closing /\ t \notin Opening /\ t \notin AtTheBarrier
      /\ t \notin Notifying /\ t \notin Among({"reset"})
  BY <1>1 DEF Inside, Holding, Departing, Closing, Opening, AtTheBarrier,
              Notifying, Among, InsidePoints, EnteringPoints, DepartingPoints,
              ClosingPoints
<1>3. /\ Inside' = Inside /\ Holding' = Holding \cup {t}
      /\ Departing' = Departing /\ Closing' = Closing /\ Opening' = Opening
      /\ AtTheBarrier' = AtTheBarrier /\ Notifying' = Notifying
      /\ Among({"reset"})' = Among({"reset"})
  <2>1. AllMoved(t, "check")
    BY <1>0, <1>1, Move
  <2> QED
    BY <1>1, <2>1 DEF AllMoved, Moved, InsidePoints, EnteringPoints,
                      DepartingPoints, ClosingPoints
<1>4. Cardinality(Holding') = Cardinality(Holding) + 1
  BY <1>0, <1>1, <1>2, MoveCounts DEF InsidePoints, EnteringPoints
<1>5. /\ courtAvailable > 0 /\ courtAvailable' = courtAvailable - 1
      /\ UNCHANGED <<config, inside, matchGoing, posted, console>>
  BY DEF TakeSlot
<1>6. Departing = {} /\ Closing = {}
  BY <1>0, <1>5 DEF CourtInv, LeavingIsExclusive, ClosingIsExclusive, TypeOK
<1>7. courtAvailable' + Cardinality(Holding') = courtAvailable + Cardinality(Holding)
  BY <1>0, <1>4, <1>5, InsideHolds DEF TypeOK
<1> QED
  BY <1>3, <1>5, <1>6, <1>7
  DEF CourtInv, SlotsBeforeBarrier, LeavingIsExclusive, ClosingIsExclusive,
      OpeningCounts, OneCloser, GoingFrom, GoingUntil, ConsoleFollows,
      capacity, config

LEMMA EnterKeeps ==
    ASSUME CourtInv, TypeOK', NEW t \in Threads, Enter(t)
    PROVE  CourtInv'
<1>0. TypeOK BY DEF CourtInv
<1>1. Goto(t, "play") /\ pc[t] = "check" /\ ~matchGoing
  BY DEF Enter, At
<1>2. /\ t \notin Inside /\ t \in Holding /\ t \notin Departing
      /\ t \notin Closing /\ t \notin Opening /\ t \notin AtTheBarrier
      /\ t \notin Notifying /\ t \notin Among({"reset"})
  BY <1>1 DEF Inside, Holding, Departing, Closing, Opening, AtTheBarrier,
              Notifying, Among, InsidePoints, EnteringPoints, DepartingPoints,
              ClosingPoints
<1>3. /\ Inside' = Inside \cup {t} /\ Holding' = Holding
      /\ Departing' = Departing /\ Closing' = Closing /\ Opening' = Opening
      /\ AtTheBarrier' = AtTheBarrier /\ Notifying' = Notifying
      /\ Among({"reset"})' = Among({"reset"})
  <2>1. AllMoved(t, "play")
    BY <1>0, <1>1, Move
  <2> QED
    BY <1>1, <2>1 DEF AllMoved, Moved, InsidePoints, EnteringPoints,
                      DepartingPoints, ClosingPoints
<1>4. Cardinality(Inside') = Cardinality(Inside) + 1
  BY <1>0, <1>1, <1>2, MoveCounts DEF InsidePoints, EnteringPoints
<1>5. Cardinality(Inside') <= Cardinality(Holding)
  <2>1. Inside' \subseteq Holding
    BY <1>2, <1>3, InsideHolds
  <2> QED BY <2>1, AmongFinite, FS_Subset DEF Holding
<1>6. /\ inside' = inside + 1
      /\ UNCHANGED <<config, courtAvailable, posted>>
  BY DEF Enter
<1>7. Closing = {} /\ Notifying = {}
  BY <1>2 DEF CourtInv, ClosingIsExclusive, Notifying, Closing, Among, ClosingPoints
<1>8. CASE EnoughPlayers(inside + 1)
  <2>1. inside + 1 = capacity
    BY <1>0, <1>8 DEF EnoughPlayers, capacity, TypeOK
  <2>2. Opening = {}
    BY <1>0, <1>4, <1>5, <2>1, InsideHolds DEF CourtInv, OpeningCounts, capacity, TypeOK, Opening, Among
  <2>3. /\ matchGoing' = TRUE
        /\ console'["started"] = console["started"] + 1
        /\ console'["everybodyLeft"] = console["everybodyLeft"]
    BY <1>0, <1>8 DEF Enter, Say, TypeOK, Lines
  <2> QED
    BY <1>0, <1>1, <1>3, <1>4, <1>6, <1>7, <2>2, <2>3, InsideHolds
    DEF CourtInv, SlotsBeforeBarrier, LeavingIsExclusive, ClosingIsExclusive,
        OpeningCounts, OneCloser, GoingFrom, GoingUntil, ConsoleFollows,
        capacity, config, TypeOK, Lines
<1>9. CASE ~EnoughPlayers(inside + 1)
  <2>1. UNCHANGED <<matchGoing, console>>
    BY <1>9 DEF Enter
  <2> QED
    BY <1>0, <1>1, <1>3, <1>4, <1>6, <1>7, <2>1, InsideHolds
    DEF CourtInv, SlotsBeforeBarrier, LeavingIsExclusive, ClosingIsExclusive,
        OpeningCounts, OneCloser, GoingFrom, GoingUntil, ConsoleFollows,
        capacity, config, TypeOK
<1> QED
  BY <1>8, <1>9

\* Giving a slot back, in enter() or after a play() without a match.
LEMMA GiveBackKeeps ==
    ASSUME CourtInv, TypeOK', NEW t \in Threads, GiveSlotBack(t) \/ ReleaseSlot(t)
    PROVE  CourtInv'
<1>0. TypeOK BY DEF CourtInv
<1>1. PICK q \in {"waitEnd", "done"} : Goto(t, q) /\ pc[t] \in {"giveBack", "release"}
  BY DEF GiveSlotBack, ReleaseSlot, At
<1>2. /\ t \notin Inside /\ t \in Holding /\ t \notin Departing
      /\ t \notin Closing /\ t \notin Opening /\ t \notin AtTheBarrier
      /\ t \notin Notifying /\ t \notin Among({"reset"})
  BY <1>1 DEF Inside, Holding, Departing, Closing, Opening, AtTheBarrier,
              Notifying, Among, InsidePoints, EnteringPoints, DepartingPoints,
              ClosingPoints
<1>3. /\ Inside' = Inside /\ Holding' = Holding \ {t}
      /\ Departing' = Departing /\ Closing' = Closing /\ Opening' = Opening
      /\ AtTheBarrier' = AtTheBarrier /\ Notifying' = Notifying
      /\ Among({"reset"})' = Among({"reset"})
  <2>1. AllMoved(t, q)
    BY <1>0, <1>1, Move
  <2> QED
    BY <1>1, <2>1 DEF AllMoved, Moved, InsidePoints, EnteringPoints,
                      DepartingPoints, ClosingPoints
<1>4. Cardinality(Holding') = Cardinality(Holding) - 1
  BY <1>0, <1>1, <1>2, MoveCounts DEF InsidePoints, EnteringPoints
<1>5. /\ courtAvailable' = courtAvailable + 1
      /\ UNCHANGED <<config, inside, matchGoing, posted, console>>
  BY DEF GiveSlotBack, ReleaseSlot
<1>6. Departing = {} /\ Closing = {}
  BY <1>2 DEF CourtInv, LeavingIsExclusive, ClosingIsExclusive
<1>7. courtAvailable' + Cardinality(Holding') = courtAvailable + Cardinality(Holding)
  BY <1>0, <1>4, <1>5, InsideHolds DEF TypeOK
<1> QED
  BY <1>3, <1>5, <1>6, <1>7
  DEF CourtInv, SlotsBeforeBarrier, LeavingIsExclusive, ClosingIsExclusive,
      OpeningCounts, OneCloser, GoingFrom, GoingUntil, ConsoleFollows,
      capacity, config

\* The two outcomes of reading matchGoing, and the quitting that follows one.
LEMMA ReadKeeps ==
    ASSUME CourtInv, TypeOK', NEW t \in Threads, ReadMatchGoing(t)
    PROVE  CourtInv'
<1> DEFINE q == IF matchGoing THEN "barrier" ELSE "noMatch"
<1>0. TypeOK BY DEF CourtInv
<1>1. /\ Goto(t, q) /\ pc[t] = "leave"
      /\ UNCHANGED <<config, inside, matchGoing, courtAvailable, posted, console>>
  BY DEF ReadMatchGoing, At
<1>2. AllMoved(t, q)
  BY <1>0, <1>1, Move
<1>3. /\ UNCHANGED <<Inside, Holding, Departing, Closing, Opening, Notifying,
                      Among({"reset"})>>
      /\ matchGoing \/ UNCHANGED AtTheBarrier
  BY <1>1, <1>2 DEF AllMoved, Moved, InsidePoints, EnteringPoints, DepartingPoints,
                      ClosingPoints
<1> QED
  BY <1>1, <1>3
  DEF CourtInv, SlotsBeforeBarrier, LeavingIsExclusive, ClosingIsExclusive,
      OpeningCounts, OneCloser, GoingFrom, GoingUntil, ConsoleFollows,
      capacity, config

LEMMA QuitKeeps ==
    ASSUME CourtInv, TypeOK', NEW t \in Threads, QuitWithoutMatch(t)
    PROVE  CourtInv'
<1>0. TypeOK BY DEF CourtInv
<1>1. /\ Goto(t, "release") /\ pc[t] = "noMatch"
      /\ inside' = inside - 1
      /\ UNCHANGED <<config, matchGoing, courtAvailable, posted>>
      /\ console'["started"] = console["started"]
      /\ console'["everybodyLeft"] = console["everybodyLeft"]
  BY <1>0 DEF QuitWithoutMatch, At, Say, TypeOK, Lines
<1>2. AllMoved(t, "release")
  BY <1>0, <1>1, Move
<1>3. UNCHANGED <<Holding, Departing, Closing, Opening, AtTheBarrier, Notifying,
                  Among({"reset"})>>
  BY <1>1, <1>2 DEF AllMoved, Moved, InsidePoints, EnteringPoints, DepartingPoints,
                      ClosingPoints
<1>4. Cardinality(Inside') = Cardinality(Inside) - 1
  <2>1. t \in Inside
    BY <1>1 DEF Inside, Among, InsidePoints
  <2> QED
    BY <1>0, <1>1, <2>1, MoveCounts DEF InsidePoints
<1> QED
  BY <1>1, <1>3, <1>4
  DEF CourtInv, SlotsBeforeBarrier, LeavingIsExclusive, ClosingIsExclusive,
      OpeningCounts, OneCloser, GoingFrom, GoingUntil, ConsoleFollows,
      capacity, config

\* The last arrival at the barrier: all the slots are held by the threads it
\* lets go.
LEMMA BarrierKeeps ==
    ASSUME CourtInv, TypeOK', NEW t \in Threads, WaitAtBarrier(t)
    PROVE  CourtInv'
<1>0. TypeOK BY DEF CourtInv
<1>1. /\ pc[t] = "barrier"
      /\ UNCHANGED <<config, inside, matchGoing, courtAvailable, posted, console>>
  BY DEF WaitAtBarrier, At
<1>2. CASE Cardinality(AtBarrier) + 1 # capacity
  <2>1. Goto(t, "blocked") /\ SamePlace(pc[t], "blocked")
    BY <1>1, <1>2 DEF WaitAtBarrier, Goto, SamePlace, InsidePoints, EnteringPoints, DepartingPoints,
                      ClosingPoints
  <2> QED BY <1>0, <1>1, <2>1, SamePlaceMove, QuietStep
<1>3. CASE Cardinality(AtBarrier) + 1 = capacity
  <2> DEFINE Team == AtBarrier \cup {t}
  <2>1. pc' = [u \in Threads |-> IF u \in Team THEN "after" ELSE pc[u]]
    BY <1>3 DEF WaitAtBarrier
  <2>2. t \in AtTheBarrier /\ t \in Holding /\ t \notin Departing /\ t \notin AtBarrier
    BY <1>1 DEF AtTheBarrier, AtBarrier, At, Holding, Departing, Among, InsidePoints,
                DepartingPoints
  <2>3. matchGoing /\ Departing = {} /\ Closing = {} /\ Opening = {}
    BY <2>2 DEF CourtInv, GoingFrom, LeavingIsExclusive, ClosingIsExclusive,
                OpeningCounts
  <2>4. courtAvailable + Cardinality(Holding) = capacity
    BY <2>3 DEF CourtInv, SlotsBeforeBarrier
  <2>5. IsFiniteSet(AtBarrier) /\ IsFiniteSet(Holding)
    BY ThreadsAssumption, FS_Subset, AmongFinite DEF AtBarrier, Holding
  <2>6. Cardinality(Team) = capacity
    BY <1>3, <2>2, <2>5, FS_AddElement
  <2>7. Team \subseteq Holding
    BY <2>2 DEF AtBarrier, At, Holding, Among, InsidePoints
  <2>8. Cardinality(Team) <= Cardinality(Holding)
        /\ (Cardinality(Team) = Cardinality(Holding) => Holding = Team)
    BY <2>5, <2>7, FS_Subset
  <2>9. courtAvailable = 0 /\ Holding = Team
    BY <1>0, <2>4, <2>6, <2>8, InsideHolds DEF TypeOK, capacity
  <2>10. \A u \in Threads : /\ u \in Holding <=> u \in Team
                            /\ u \in Team <=> pc'[u] = "after"
                            /\ u \notin Team => pc'[u] = pc[u]
    <3>1. \A u \in Threads : u \notin Team => pc[u] # "after"
      BY <2>3 DEF Departing, Among, DepartingPoints
    <3> QED BY <2>1, <2>9, <3>1
  <2>11. \A u \in Threads : u \notin Team =>
            pc[u] \notin InsidePoints \cup EnteringPoints
    BY <2>9 DEF Holding, Among
  <2>12. Team \subseteq Threads
    BY DEF AtBarrier
  <2>13. /\ Holding' = Team /\ Departing' = Team /\ Inside' = Team /\ Inside = Team
    <3>1. Holding' = Team
      BY <2>10, <2>11, <2>12 DEF Holding, Among, InsidePoints, EnteringPoints
    <3>2. Departing' = Team
      BY <2>10, <2>11, <2>12 DEF Departing, Among, InsidePoints, DepartingPoints
    <3>3. Inside' = Team
      BY <2>10, <2>11, <2>12 DEF Inside, Among, InsidePoints
    <3>4. \A u \in Team : pc[u] \in {"barrier", "blocked"}
      BY <1>1 DEF AtBarrier, At
    <3>5. Inside = Team
      BY <2>11, <2>12, <3>4 DEF Inside, Among, InsidePoints
    <3> QED BY <3>1, <3>2, <3>3, <3>5
  <2>14. /\ Closing' = {} /\ Opening' = {} /\ AtTheBarrier' = {}
         /\ Notifying' = {} /\ Among({"reset"})' = {} /\ Notifying = {}
    BY <2>3, <2>10, <2>11
    DEF Closing, Opening, AtTheBarrier, Notifying, Among, ClosingPoints,
        InsidePoints
  <2>15. Cardinality(Departing') <= capacity
    BY <1>0, <2>6, <2>13 DEF TypeOK, capacity
  <2> QED
    BY <1>1, <2>2, <2>3, <2>9, <2>13, <2>14, <2>15
    DEF CourtInv, SlotsBeforeBarrier, LeavingIsExclusive, ClosingIsExclusive,
        OpeningCounts, OneCloser, GoingFrom, GoingUntil, ConsoleFollows,
        capacity, config
<1> QED
  BY <1>2, <1>3

\* Leaving a match: the one who brings inside to 0 is alone and goes on to the
\* reset.
LEMMA ExitKeeps ==
    ASSUME CourtInv, TypeOK', NEW t \in Threads, Exit(t)
    PROVE  CourtInv'
<1> DEFINE q == IF inside - 1 = 0 THEN "reset" ELSE "done"
<1>0. TypeOK BY DEF CourtInv
<1>1. /\ Goto(t, q) /\ pc[t] = "exit"
      /\ inside' = inside - 1
      /\ UNCHANGED <<config, matchGoing, courtAvailable, posted, console>>
  BY DEF Exit, At
<1>2. t \in Departing /\ t \in Inside
  BY <1>1 DEF Departing, Inside, Among, DepartingPoints, InsidePoints
<1>3. /\ matchGoing /\ Closing = {} /\ Opening = {} /\ courtAvailable = 0
      /\ Holding = Departing
  BY <1>2 DEF CourtInv, LeavingIsExclusive
<1>4. Inside = Departing
  BY <1>3, InsideHolds DEF Departing, Inside, Among, DepartingPoints, InsidePoints
<1>5. AllMoved(t, q)
  BY <1>0, <1>1, Move
<1>6. Cardinality(Inside') = Cardinality(Inside) - 1
  BY <1>0, <1>1, <1>2, MoveCounts DEF InsidePoints
<1>7. /\ Inside' = Departing' /\ Holding' = Departing' /\ Opening' = {}
      /\ Notifying' = Notifying /\ matchGoing'
  BY <1>1, <1>3, <1>4, <1>5 DEF AllMoved, Moved, InsidePoints, EnteringPoints, DepartingPoints,
                      ClosingPoints
<1>8. Cardinality(Inside') = 0 <=> Inside' = {}
  BY <1>1, <1>2, <1>5, AmongFinite, FS_RemoveElement, FS_EmptySet
  DEF AllMoved, Moved, Inside, InsidePoints
<1>9. CASE inside - 1 = 0
  <2>1. Departing' = {} /\ Closing' = {t}
    BY <1>1, <1>3, <1>5, <1>6, <1>7, <1>8, <1>9
    DEF CourtInv, AllMoved, Moved, ClosingPoints
  <2> QED
    BY <1>1, <1>3, <1>6, <1>7, <2>1
    DEF CourtInv, SlotsBeforeBarrier, LeavingIsExclusive, ClosingIsExclusive,
        OpeningCounts, OneCloser, GoingFrom, GoingUntil, ConsoleFollows,
        capacity, config
<1>10. CASE inside - 1 # 0
  <2>1. Departing' # {} /\ Closing' = {}
    BY <1>1, <1>3, <1>5, <1>6, <1>7, <1>8, <1>10
    DEF CourtInv, AllMoved, Moved, ClosingPoints
  <2>2. Cardinality(Departing') <= capacity
    BY <1>0, <1>2, <1>4, <1>6, <1>7, InsideHolds
    DEF CourtInv, LeavingIsExclusive, TypeOK, capacity
  <2> QED
    BY <1>1, <1>3, <1>6, <1>7, <2>1, <2>2
    DEF CourtInv, SlotsBeforeBarrier, LeavingIsExclusive, ClosingIsExclusive,
        OpeningCounts, OneCloser, GoingFrom, GoingUntil, ConsoleFollows,
        capacity, config
<1> QED
  BY <1>9, <1>10

LEMMA ResetKeeps ==
    ASSUME CourtInv, TypeOK', NEW t \in Threads, ResetMatch(t)
    PROVE  CourtInv'
<1>0. TypeOK BY DEF CourtInv
<1>1. /\ Goto(t, "notify") /\ pc[t] = "reset"
      /\ matchGoing' = FALSE
      /\ UNCHANGED <<config, inside, courtAvailable, posted, console>>
  BY DEF ResetMatch, At
<1>2. t \in Closing /\ t \in Among({"reset"})
  BY <1>1 DEF Closing, Among, ClosingPoints
<1>3. /\ matchGoing /\ Holding = {} /\ courtAvailable = 0
      /\ Departing = {} /\ AtTheBarrier = {}
  <2>1. matchGoing /\ Holding = {} /\ courtAvailable = 0
    BY <1>2 DEF CourtInv, ClosingIsExclusive, GoingFrom
  <2> QED
    BY <2>1 DEF Holding, Departing, AtTheBarrier, Among, InsidePoints,
                DepartingPoints
<1>4. Among({"reset"}) = {t}
  BY <1>2 DEF CourtInv, OneCloser, Closing, Among, ClosingPoints
<1>5. AllMoved(t, "notify")
  BY <1>0, <1>1, Move
<1>6. /\ UNCHANGED <<Inside, Holding, Departing, Closing, Opening, AtTheBarrier>>
      /\ Notifying' = Notifying \cup {t} /\ Among({"reset"})' = {}
  BY <1>1, <1>4, <1>5 DEF AllMoved, Moved, InsidePoints, EnteringPoints, DepartingPoints,
                      ClosingPoints
<1> QED
  BY <1>1, <1>2, <1>3, <1>6
  DEF CourtInv, SlotsBeforeBarrier, LeavingIsExclusive, ClosingIsExclusive,
      OpeningCounts, OneCloser, GoingFrom, GoingUntil, ConsoleFollows,
      capacity, config

LEMMA NotifyKeeps ==
    ASSUME CourtInv, TypeOK', NEW t \in Threads, LetWaitersKnow(t)
    PROVE  CourtInv'
<1>0. TypeOK BY DEF CourtInv
<1>1. /\ Goto(t, "open") /\ pc[t] = "notify"
      /\ posted' = [posted EXCEPT ![t] = 0]
      /\ console'["started"] = console["started"]
      /\ console'["everybodyLeft"] = console["everybodyLeft"] + 1
      /\ UNCHANGED <<config, inside, matchGoing, courtAvailable>>
  BY <1>0 DEF LetWaitersKnow, At, Say, TypeOK, Lines
<1>2. t \in Closing /\ t \in Notifying
  BY <1>1 DEF Closing, Notifying, Among, ClosingPoints
<1>3. ~matchGoing /\ Holding = {} /\ courtAvailable = 0
  BY <1>2 DEF CourtInv, ClosingIsExclusive, GoingUntil
<1>4. /\ Closing = {t} /\ Opening = {} /\ Notifying = {t}
      /\ Among({"reset"}) = {} /\ AtTheBarrier = {} /\ Departing = {}
  <2>1. \A u \in Threads : u # t => pc[u] \notin {"reset", "notify", "open"}
    BY <1>2 DEF CourtInv, OneCloser, Closing, Opening, Among, ClosingPoints
  <2>2. AtTheBarrier = {} /\ Departing = {}
    BY <1>3 DEF Holding, Departing, AtTheBarrier, Among, InsidePoints,
                DepartingPoints
  <2>3. Opening = {} /\ Among({"reset"}) = {}
    BY <1>1, <2>1 DEF Opening, Among
  <2>4. Closing = {t} /\ Notifying = {t}
    BY <1>1, <2>1 DEF Closing, Notifying, Among, ClosingPoints
  <2> QED BY <2>2, <2>3, <2>4
<1>5. AllMoved(t, "open")
  BY <1>0, <1>1, Move
<1>6. /\ UNCHANGED <<Inside, Holding, Departing, AtTheBarrier, Among({"reset"})>>
      /\ Closing' = {} /\ Notifying' = {} /\ Opening' = {t}
  BY <1>1, <1>4, <1>5 DEF AllMoved, Moved, InsidePoints, EnteringPoints, DepartingPoints,
                      ClosingPoints
<1>7. posted'[t] = 0 /\ capacity > 0 /\ Cardinality(Holding) = 0
  BY <1>0, <1>1, <1>3, FS_EmptySet DEF TypeOK, capacity
<1> QED
  BY <1>0, <1>1, <1>3, <1>4, <1>6, <1>7
  DEF CourtInv, SlotsBeforeBarrier, LeavingIsExclusive, ClosingIsExclusive,
      OpeningCounts, OneCloser, GoingFrom, GoingUntil, ConsoleFollows,
      capacity, config, TypeOK, Lines

LEMMA OpenKeeps ==
    ASSUME CourtInv, TypeOK', NEW t \in Threads, OpenSlot(t)
    PROVE  CourtInv'
<1> DEFINE q == IF posted[t] + 1 = capacity THEN "done" ELSE "open"
<1>0. TypeOK BY DEF CourtInv
<1>1. /\ Goto(t, q) /\ pc[t] = "open"
      /\ courtAvailable' = courtAvailable + 1
      /\ posted'[t] = posted[t] + 1
      /\ UNCHANGED <<config, inside, matchGoing, console>>
  BY <1>0 DEF OpenSlot, At, TypeOK
<1>2. t \in Opening
  BY <1>1 DEF Opening, Among
<1>3. /\ ~matchGoing /\ posted[t] < capacity
      /\ courtAvailable + Cardinality(Holding) = posted[t]
  BY <1>2 DEF CourtInv, OpeningCounts
<1>4. Opening = {t} /\ Closing = {} /\ Departing = {}
  BY <1>2, <1>3 DEF CourtInv, OneCloser, LeavingIsExclusive, Opening, Closing,
                    Among, ClosingPoints
<1>5. AllMoved(t, q)
  BY <1>0, <1>1, Move
<1>6. /\ UNCHANGED <<Inside, Holding, Departing, Closing, AtTheBarrier, Notifying,
                      Among({"reset"})>>
      /\ Opening' = IF posted[t] + 1 = capacity THEN {} ELSE {t}
  BY <1>1, <1>4, <1>5 DEF AllMoved, Moved, InsidePoints, EnteringPoints, DepartingPoints,
                      ClosingPoints
<1>7. /\ courtAvailable' + Cardinality(Holding') = posted[t] + 1
      /\ posted[t] + 1 # capacity => posted'[t] < capacity
  BY <1>0, <1>1, <1>3, <1>6, InsideHolds DEF TypeOK, capacity
<1> QED
  BY <1>1, <1>3, <1>4, <1>6, <1>7
  DEF CourtInv, SlotsBeforeBarrier, LeavingIsExclusive, ClosingIsExclusive,
      OpeningCounts, OneCloser, GoingFrom, GoingUntil, ConsoleFollows,
      capacity, config

LEMMA CourtInduction == CourtInv /\ [Next]_vars => CourtInv'
<1> SUFFICES ASSUME CourtInv, [Next]_vars PROVE CourtInv'
  OBVIOUS
<1>1. TypeOK'
  BY TypeStep
<1>2. CASE UNCHANGED vars
  <2>1. UNCHANGED <<Inside, Holding, Departing, Closing, Opening, AtTheBarrier,
                    Notifying, Among({"reset"})>>
    BY <1>2 DEF vars, Inside, Holding, Departing, Closing, Opening,
                AtTheBarrier, Notifying, Among
  <2> QED
    BY <1>1, <1>2, <2>1, QuietStep DEF vars, config
<1>3. ASSUME NEW t \in Threads, Step(t) \/ Play(t) PROVE CourtInv'
  BY <1>1, <1>3, QuietActions, TakeSlotKeeps, EnterKeeps, GiveBackKeeps, ReadKeeps,
     QuitKeeps, BarrierKeeps, ExitKeeps, ResetKeeps, NotifyKeeps, OpenKeeps
  DEF Step
<1> QED
  BY <1>2, <1>3 DEF Next

THEOREM CourtInvariant == Spec => []CourtInv
BY InitInv, CourtInduction, PTL DEF Spec

-----------------------------------------------------------------------------
(* What follows from the invariant.                                         *)

\* The values of the fields and the places of the threads have their types.
THEOREM TypeCorrect == Spec => []TypeOK
<1>1. CourtInv => TypeOK
  BY DEF CourtInv
<1> QED
  BY <1>1, CourtInvariant, PTL

\* No slot of the court is lost or made twice by the three places of Court.h
\* that post court_available.
THEOREM SlotConservation == Spec => []SlotsConserved
<1>1. ASSUME CourtInv PROVE SlotsConserved
  <2> USE <1>1
  <2>0. TypeOK BY DEF CourtInv
  <2>1. CASE Departing # {}
    BY <2>0, <2>1, InsideHolds
    DEF CourtInv, LeavingIsExclusive, SlotsConserved, SlotsMissing, TypeOK, capacity
  <2>2. CASE Closing # {}
    <3>1. Departing = {} /\ Cardinality(Holding) = 0 /\ courtAvailable = 0
          /\ Cardinality(Departing) = 0
      BY <2>2, FS_EmptySet DEF CourtInv, ClosingIsExclusive, LeavingIsExclusive
    <3> QED
      BY <2>0, <2>2, <3>1 DEF SlotsConserved, SlotsMissing, TypeOK, capacity
  <2>3. CASE Departing = {} /\ Closing = {} /\ Opening # {}
    <3> DEFINE t == CHOOSE u \in Opening : TRUE
    <3>1. t \in Opening /\ t \in Threads
      BY <2>3 DEF Opening, Among
    <3>2. courtAvailable + Cardinality(Holding) = posted[t] /\ posted[t] \in Nat
      BY <2>0, <3>1 DEF CourtInv, OpeningCounts, TypeOK
    <3>3. SlotsMissing = capacity - posted[t]
      BY <2>3 DEF SlotsMissing
    <3> QED
      BY <2>0, <3>2, <3>3, InsideHolds DEF SlotsConserved, TypeOK, capacity
  <2>4. CASE Departing = {} /\ Closing = {} /\ Opening = {}
    BY <2>0, <2>4, InsideHolds
    DEF CourtInv, SlotsBeforeBarrier, SlotsConserved, SlotsMissing, TypeOK, capacity
  <2> QED
    BY <2>1, <2>2, <2>3, <2>4
<1> QED
  BY <1>1, CourtInvariant, PTL

\* README "Only fixed number of players allowed inside": for every number of
\* threads, whatever they do, no more than the capacity are on the court.
THEOREM CapacityRespected == Spec => []NoOverCapacity
<1>1. CourtInv /\ SlotsConserved => NoOverCapacity
  <2> SUFFICES ASSUME CourtInv, SlotsConserved PROVE NoOverCapacity
    OBVIOUS
  <2>0. TypeOK BY DEF CourtInv
  <2>1. SlotsMissing \in Int /\ SlotsMissing >= 0
    <3>1. CASE Departing # {}
      BY <2>0, <3>1, InsideHolds, AmongFinite
      DEF CourtInv, LeavingIsExclusive, SlotsConserved, TypeOK, capacity,
          SlotsMissing, Departing
    <3>2. CASE Closing # {}
      <4>1. Departing = {} /\ Cardinality(Departing) = 0
        BY <3>2, FS_EmptySet DEF CourtInv, LeavingIsExclusive
      <4> QED
        BY <2>0, <3>2, <4>1 DEF SlotsMissing, TypeOK, capacity
    <3>3. CASE Departing = {} /\ Closing = {} /\ Opening # {}
      <4> DEFINE t == CHOOSE u \in Opening : TRUE
      <4>1. t \in Opening /\ t \in Threads
        BY <3>3 DEF Opening, Among
      <4>2. posted[t] < capacity /\ posted[t] \in Nat /\ capacity \in Nat
        BY <2>0, <4>1 DEF CourtInv, OpeningCounts, TypeOK, capacity
      <4> QED
        BY <3>3, <4>2 DEF SlotsMissing
    <3>4. CASE Departing = {} /\ Closing = {} /\ Opening = {}
      BY <3>4 DEF SlotsMissing
    <3> QED
      BY <3>1, <3>2, <3>3, <3>4
  <2> QED
    BY <2>0, <2>1, InsideHolds DEF CourtInv, SlotsConserved, NoOverCapacity,
                                   TypeOK, capacity
<1> QED
  BY <1>1, CourtInvariant, SlotConservation, PTL

\* The reset is done by one thread, on an empty court whose slots are all out.
THEOREM ResetIsExclusive == Spec => []ResetWhenEmpty
<1>1. ASSUME CourtInv PROVE ResetWhenEmpty
  <2> USE <1>1
  <2>1. Closing # {} => inside = 0 /\ courtAvailable = 0
    BY InsideHolds, FS_EmptySet DEF CourtInv, ClosingIsExclusive
  <2>2. CASE Closing \cup Opening = {}
    BY <2>1, <2>2, FS_EmptySet DEF ResetWhenEmpty
  <2>3. CASE Closing \cup Opening # {}
    <3>1. PICK t : t \in Closing \cup Opening
      BY <2>3
    <3>2. Closing \cup Opening = {t}
      BY <3>1 DEF CourtInv, OneCloser
    <3>3. Cardinality(Closing \cup Opening) = 1
      BY <3>2, FS_Singleton
    <3> QED
      BY <2>1, <3>3 DEF ResetWhenEmpty
  <2> QED
    BY <2>2, <2>3
<1> QED
  BY <1>1, CourtInvariant, PTL

\* From the line that starts a match to the line that says everybody left,
\* nobody is counted in.
THEOREM EntryBetweenMatches == Spec => NoEntryDuringMatch
<1>1. ASSUME CourtInv, [Next]_vars, inside' > inside
      PROVE  console["started"] = console["everybodyLeft"]
  <2>0. TypeOK /\ inside \in Nat
    BY <1>1 DEF CourtInv, TypeOK
  <2>1. PICK t \in Threads : Enter(t)
    BY <1>1, <2>0 DEF Next, Step, vars, TakeSlot, FindMatchGoing, GiveSlotBack,
       ReadMatchGoing, QuitWithoutMatch, ReleaseSlot, WaitAtBarrier,
       RefereeSpeaks, AnnounceEnd, PlayerAwaits, PlayerAgrees, WaitMatchEnd,
       Exit, ResetMatch, LetWaitersKnow, OpenSlot, Play
  <2>2. ~matchGoing /\ t \in Holding
    BY <2>1 DEF Enter, At, Holding, Among, EnteringPoints
  <2>3. Notifying = {}
    BY <1>1, <2>2 DEF CourtInv, ClosingIsExclusive, Closing, Notifying, Among,
                      ClosingPoints
  <2> QED
    BY <1>1, <2>0, <2>2, <2>3 DEF CourtInv, ConsoleFollows, TypeOK, Lines
<1>2. CourtInv /\ [Next]_vars =>
        [inside' > inside => console["started"] = console["everybodyLeft"]]_vars
  BY <1>1
<1> QED
  BY <1>2, CourtInvariant, PTL DEF Spec, NoEntryDuringMatch

-----------------------------------------------------------------------------
(* The referee's signal: who waits for match_end, and that the posts are    *)
(* exactly those the players of the match need.  enter() and leave() wait   *)
(* on the same semaphore, and only leave() has posts coming: what keeps     *)
(* them apart is that a thread which waits in enter() has taken the place   *)
(* of a player who quit, so that the match it found going can never be left.*)

Waiters == Among({"giveBack", "waitEnd"})

\* The players of the match being left who have not had their signal.
Awaiting == Among({"after", "awaitReferee"}) \ {refereeId}

RefereeAt(points) == refereeId \in Among(points)

\* The posts the referee has still to make.
PostsToCome ==
    IF RefereeAt({"after"}) THEN neededPlayers
    ELSE IF RefereeAt({"announce"}) THEN neededPlayers - posted[refereeId]
    ELSE 0

\* Whoever waits in enter() waits for a match that lacks a player.
WaitersAreStuck ==
    Waiters # {} =>
        /\ matchGoing
        /\ Departing = {} /\ Closing = {}
        /\ inside < capacity

\* The referee of a match waits for it at the barrier.
RefereeStays ==
    hasReferee = 1 /\ matchGoing /\ Departing = {} /\ Closing = {} =>
        RefereeAt({"play", "leave", "barrier", "blocked"})

\* From then on it is among those who leave, or has left already.
RefereeLeaves ==
    hasReferee = 1 /\ (Departing # {} \/ Among({"reset"}) # {}) =>
        RefereeAt({"after", "announce", "exit", "reset", "done"})

\* Without a referee there are no signals.
NoRefereeNoSignal ==
    hasReferee = 0 => matchEnd = 0 /\ Among({"announce", "awaitReferee"}) = {}

\* Nobody but the referee makes posts, and it does not wait for its own.
OnlyTheReferee ==
    /\ \A t \in Among({"announce"}) : t = refereeId /\ posted[t] < neededPlayers
    /\ \A t \in Among({"awaitReferee"}) : t # refereeId

\* Every player who waits has a post, made or to come, and no post is left over.
PostsMatch ==
    hasReferee = 1 => Cardinality(Awaiting) = matchEnd + PostsToCome

\* The lines printed and to be printed make full matches.
LinesMatch ==
    hasReferee = 1 =>
        console["playerLeft"] + Cardinality(Awaiting) =
            neededPlayers * console["refereeLeft"]
              + IF RefereeAt({"after"}) THEN neededPlayers ELSE 0

SignalInv ==
    /\ WaitersAreStuck
    /\ RefereeStays
    /\ RefereeLeaves
    /\ NoRefereeNoSignal
    /\ OnlyTheReferee
    /\ PostsMatch
    /\ LinesMatch

-----------------------------------------------------------------------------

LEMMA AwaitingFinite ==
    /\ IsFiniteSet(Awaiting) /\ Cardinality(Awaiting) \in Nat
    /\ Cardinality(Awaiting) = 0 <=> Awaiting = {}
<1>1. IsFiniteSet(Awaiting)
  BY AmongFinite, FS_Subset DEF Awaiting
<1> QED
  BY <1>1, FS_CardinalityType, FS_EmptySet

\* A thread that does not step stays where it is, unless the barrier lets it go.
LEMMA OthersStay ==
    ASSUME TypeOK, NEW t \in Threads, Step(t) \/ Play(t), NEW u \in Threads, u # t
    PROVE  pc'[u] = pc[u] \/ (pc[u] = "blocked" /\ pc'[u] = "after" /\ WaitAtBarrier(t))
<1>1. CASE WaitAtBarrier(t)
  BY <1>1 DEF WaitAtBarrier, AtBarrier, At, TypeOK
<1>2. CASE ~WaitAtBarrier(t)
  <2>1. \E q \in Points : Goto(t, q)
    BY <1>2
    DEF Step, TakeSlot, FindMatchGoing, GiveSlotBack, Enter, ReadMatchGoing,
        QuitWithoutMatch, ReleaseSlot, RefereeSpeaks, AnnounceEnd, PlayerAwaits,
        PlayerAgrees, WaitMatchEnd, Exit, ResetMatch, LetWaitersKnow, OpenSlot,
        Play, Points
  <2> QED
    BY <2>1 DEF Goto, TypeOK
<1> QED
  BY <1>1, <1>2

\* Where a step takes the thread that makes it.
LEMMA StepMoves ==
    ASSUME TypeOK, TypeOK', NEW t \in Threads, Step(t) \/ Play(t)
    PROVE  \/ TakeSlot(t) /\ pc[t] = "court" /\ pc'[t] = "check"
           \/ FindMatchGoing(t) /\ pc[t] = "check" /\ pc'[t] = "giveBack"
           \/ GiveSlotBack(t) /\ pc[t] = "giveBack" /\ pc'[t] = "waitEnd"
           \/ Enter(t) /\ pc[t] = "check" /\ pc'[t] = "play"
           \/ Play(t) /\ pc[t] = "play" /\ pc'[t] = "leave"
           \/ ReadMatchGoing(t) /\ pc[t] = "leave"
                /\ pc'[t] = IF matchGoing THEN "barrier" ELSE "noMatch"
           \/ QuitWithoutMatch(t) /\ pc[t] = "noMatch" /\ pc'[t] = "release"
           \/ ReleaseSlot(t) /\ pc[t] = "release" /\ pc'[t] = "done"
           \/ WaitAtBarrier(t) /\ pc[t] = "barrier" /\ pc'[t] \in {"blocked", "after"}
           \/ RefereeSpeaks(t) /\ pc[t] = "after" /\ pc'[t] = "announce"
           \/ AnnounceEnd(t) /\ pc[t] = "announce" /\ pc'[t] \in {"announce", "exit"}
           \/ PlayerAwaits(t) /\ pc[t] = "after" /\ pc'[t] = "awaitReferee"
           \/ PlayerAgrees(t) /\ pc[t] = "after" /\ pc'[t] = "exit"
           \/ WaitMatchEnd(t) /\ pc[t] = "awaitReferee" /\ pc'[t] = "exit"
           \/ WaitMatchEnd(t) /\ pc[t] = "waitEnd" /\ pc'[t] = "court"
           \/ Exit(t) /\ pc[t] = "exit" /\ pc'[t] \in {"reset", "done"}
           \/ ResetMatch(t) /\ pc[t] = "reset" /\ pc'[t] = "notify"
           \/ LetWaitersKnow(t) /\ pc[t] = "notify" /\ pc'[t] = "open"
           \/ OpenSlot(t) /\ pc[t] = "open" /\ pc'[t] \in {"open", "done"}
<1> USE DEF Goto, At, TypeOK
<1>1. CASE TakeSlot(t) BY <1>1 DEF TakeSlot
<1>2. CASE FindMatchGoing(t) BY <1>2 DEF FindMatchGoing
<1>3. CASE GiveSlotBack(t) BY <1>3 DEF GiveSlotBack
<1>4. CASE Enter(t) BY <1>4 DEF Enter
<1>5. CASE Play(t) BY <1>5 DEF Play
<1>6. CASE ReadMatchGoing(t) BY <1>6 DEF ReadMatchGoing
<1>7. CASE QuitWithoutMatch(t) BY <1>7 DEF QuitWithoutMatch
<1>8. CASE ReleaseSlot(t) BY <1>8 DEF ReleaseSlot
<1>9. CASE WaitAtBarrier(t) BY <1>9 DEF WaitAtBarrier
<1>10. CASE RefereeSpeaks(t) BY <1>10 DEF RefereeSpeaks
<1>11. CASE AnnounceEnd(t) BY <1>11 DEF AnnounceEnd
<1>12. CASE PlayerAwaits(t) BY <1>12 DEF PlayerAwaits
<1>13. CASE PlayerAgrees(t) BY <1>13 DEF PlayerAgrees
<1>14. CASE WaitMatchEnd(t) BY <1>14 DEF WaitMatchEnd
<1>15. CASE Exit(t) BY <1>15 DEF Exit
<1>16. CASE ResetMatch(t) BY <1>16 DEF ResetMatch
<1>17. CASE LetWaitersKnow(t) BY <1>17 DEF LetWaitersKnow
<1>18. CASE OpenSlot(t) BY <1>18 DEF OpenSlot
<1> QED
  BY <1>1, <1>2, <1>3, <1>4, <1>5, <1>6, <1>7, <1>8, <1>9, <1>10, <1>11, <1>12,
     <1>13, <1>14, <1>15, <1>16, <1>17, <1>18 DEF Step

LEMMA InitSignals == Init => SignalInv
<1> SUFFICES ASSUME Init PROVE SignalInv
  OBVIOUS
<1>1. PICK p \in 0..MaxPlayers, r \in 0..2 : Construct(p, r)
  BY DEF Init
<1>2. \A t \in Threads : pc[t] = "court"
  BY DEF Init
<1>3. matchEnd = 0 /\ ~matchGoing
  BY <1>1 DEF Construct
<1>4. console["playerLeft"] = 0 /\ console["refereeLeft"] = 0
  BY DEF Init, Lines
<1>5. /\ Waiters = {} /\ Awaiting = {} /\ PostsToCome = 0
      /\ ~RefereeAt({"after"}) /\ Departing = {} /\ Among({"reset"}) = {}
      /\ Among({"announce", "awaitReferee"}) = {}
      /\ Among({"announce"}) = {} /\ Among({"awaitReferee"}) = {}
  BY <1>2 DEF Waiters, Awaiting, PostsToCome, RefereeAt, Departing, Among,
              DepartingPoints
<1>6. neededPlayers \in Nat
  BY InitInv DEF CourtInv, TypeOK
<1> QED
  BY <1>3, <1>4, <1>5, <1>6, FS_EmptySet
  DEF SignalInv, WaitersAreStuck, RefereeStays, RefereeLeaves, NoRefereeNoSignal,
      OnlyTheReferee, PostsMatch, LinesMatch

\* A thread enters the wait of enter() only when the match it found has lost a
\* player, and nobody can come in to replace that player.
LEMMA StuckStep ==
    ASSUME CourtInv, WaitersAreStuck, [Next]_vars, CourtInv'
    PROVE  WaitersAreStuck'
<1>0. TypeOK /\ TypeOK'
  BY DEF CourtInv
<1> SUFFICES ASSUME Waiters' # {}
             PROVE  (matchGoing /\ Departing = {} /\ Closing = {} /\ inside < capacity)'
  BY DEF WaitersAreStuck
<1>1. CASE Waiters = {}
  <2>1. PICK t \in Threads : FindMatchGoing(t)
    <3>1. PICK u \in Threads : pc'[u] \in {"giveBack", "waitEnd"}
      BY DEF Waiters, Among
    <3>2. pc[u] \notin {"giveBack", "waitEnd"}
      BY <1>1 DEF Waiters, Among
    <3> QED
      BY <1>0, <3>1, <3>2
      DEF Next, Step, vars, TakeSlot, FindMatchGoing, GiveSlotBack, Enter,
          ReadMatchGoing, QuitWithoutMatch, ReleaseSlot, WaitAtBarrier,
          RefereeSpeaks, AnnounceEnd, PlayerAwaits, PlayerAgrees, WaitMatchEnd,
          Exit, ResetMatch, LetWaitersKnow, OpenSlot, Play, Goto, At, TypeOK
  <2>2. /\ Goto(t, "giveBack") /\ pc[t] = "check" /\ matchGoing
        /\ UNCHANGED <<config, inside, matchGoing, courtAvailable>>
    BY <2>1 DEF FindMatchGoing, At
  <2>3. t \in Holding /\ t \notin Inside /\ t \notin Departing
    BY <2>2 DEF Holding, Inside, Departing, Among, InsidePoints, EnteringPoints,
                DepartingPoints
  <2>4. Departing = {} /\ Closing = {} /\ Opening = {}
    BY <2>2, <2>3 DEF CourtInv, LeavingIsExclusive, ClosingIsExclusive, OpeningCounts
  <2>5. courtAvailable + Cardinality(Holding) = capacity
    BY <2>4 DEF CourtInv, SlotsBeforeBarrier
  <2>6. Cardinality(Inside) < Cardinality(Holding)
    <3>1. Inside \subseteq Holding /\ Inside # Holding
      BY <2>3, InsideHolds
    <3>2. IsFiniteSet(Holding)
      BY AmongFinite DEF Holding
    <3>3. Cardinality(Inside) # Cardinality(Holding)
      BY <3>1, <3>2, FS_Subset
    <3> QED
      BY <3>3, InsideHolds
  <2>7. inside < capacity
    BY <1>0, <2>5, <2>6, InsideHolds DEF CourtInv, TypeOK, capacity
  <2>8. Departing' = {} /\ Closing' = {}
    <3>1. AllMoved(t, "giveBack")
      BY <1>0, <2>2, Move
    <3> QED
      BY <2>2, <2>4, <3>1 DEF AllMoved, Moved, DepartingPoints, ClosingPoints
  <2> QED
    BY <2>2, <2>7, <2>8 DEF capacity, config
<1>2. CASE Waiters # {}
  <2>1. matchGoing /\ Departing = {} /\ Closing = {} /\ inside < capacity
    BY <1>2 DEF WaitersAreStuck
  <2>2. Opening = {}
    BY <2>1 DEF CourtInv, OpeningCounts
  <2>3. CASE UNCHANGED vars
    BY <2>1, <2>3 DEF vars, Departing, Closing, Among, capacity
  <2>4. ASSUME NEW t \in Threads, Step(t) \/ Play(t)
        PROVE  (matchGoing /\ Departing = {} /\ Closing = {} /\ inside < capacity)'
    <3>1. pc[t] \notin {"after", "announce", "awaitReferee", "exit", "reset",
                        "notify", "open"}
      BY <2>1, <2>2 DEF Departing, Closing, Opening, Among, DepartingPoints,
                        ClosingPoints
    <3>2. CASE WaitAtBarrier(t)
      <4>1. t \notin AtBarrier /\ IsFiniteSet(AtBarrier) /\ IsFiniteSet(Inside)
        BY <3>2, ThreadsAssumption, FS_Subset, AmongFinite
        DEF WaitAtBarrier, AtBarrier, At, Inside
      <4>2. AtBarrier \cup {t} \subseteq Inside
        BY <3>2 DEF WaitAtBarrier, AtBarrier, At, Inside, Among, InsidePoints
      <4>3. Cardinality(AtBarrier \cup {t}) = Cardinality(AtBarrier) + 1
        BY <4>1, FS_AddElement
      <4>4. Cardinality(AtBarrier) + 1 # capacity
        <5>1. Cardinality(AtBarrier \cup {t}) <= Cardinality(Inside)
          BY <4>1, <4>2, FS_Subset
        <5> QED
          BY <1>0, <2>1, <4>3, <5>1, InsideHolds DEF CourtInv, TypeOK, capacity
      <4>5. Goto(t, "blocked") /\ UNCHANGED <<config, inside, matchGoing>>
        BY <3>2, <4>4 DEF WaitAtBarrier, Goto
      <4>6. Departing' = {} /\ Closing' = {}
        BY <1>0, <2>1, <4>5, <3>1, Move
        DEF AllMoved, Moved, DepartingPoints, ClosingPoints
      <4> QED
        BY <2>1, <4>5, <4>6 DEF capacity, config
    <3>3. CASE ~WaitAtBarrier(t)
      <4>1. PICK q \in {"check", "giveBack", "waitEnd", "leave", "barrier",
                        "noMatch", "release", "done", "court"} : Goto(t, q)
        BY <2>1, <2>4, <3>1, <3>3
        DEF Step, TakeSlot, FindMatchGoing, GiveSlotBack, Enter, ReadMatchGoing,
            QuitWithoutMatch, ReleaseSlot, RefereeSpeaks, AnnounceEnd,
            PlayerAwaits, PlayerAgrees, WaitMatchEnd, Exit, ResetMatch,
            LetWaitersKnow, OpenSlot, Play, At
      <4>2. UNCHANGED <<config, matchGoing>> /\ (inside' = inside \/ inside' = inside - 1)
        BY <2>1, <2>4, <3>1, <3>3
        DEF Step, TakeSlot, FindMatchGoing, GiveSlotBack, Enter, ReadMatchGoing,
            QuitWithoutMatch, ReleaseSlot, RefereeSpeaks, AnnounceEnd,
            PlayerAwaits, PlayerAgrees, WaitMatchEnd, Exit, ResetMatch,
            LetWaitersKnow, OpenSlot, Play, At
      <4>3. Departing' = {} /\ Closing' = {}
        BY <1>0, <2>1, <3>1, <4>1, Move
        DEF AllMoved, Moved, DepartingPoints, ClosingPoints
      <4>4. inside' < capacity
        BY <1>0, <2>1, <4>2 DEF TypeOK, capacity
      <4> QED
        BY <2>1, <4>2, <4>3, <4>4 DEF capacity, config
    <3> QED
      BY <3>2, <3>3
  <2> QED
    BY <2>3, <2>4 DEF Next
<1> QED
  BY <1>1, <1>2

\* The last one of a match does not go away without closing it.
LEMMA LastOneCloses ==
    ASSUME CourtInv, CourtInv', NEW t \in Threads, Exit(t)
    PROVE  Departing' # {} \/ Closing' # {}
<1> SUFFICES ASSUME Departing' = {}, Closing' = {} PROVE FALSE
  OBVIOUS
<1>0. TypeOK /\ pc[t] = "exit" /\ inside' = inside - 1
  BY DEF CourtInv, Exit, At
<1>1. pc'[t] # "reset"
  BY DEF Closing, Among, ClosingPoints
<1>2. Goto(t, "done") /\ inside - 1 # 0
  BY <1>0, <1>1 DEF Exit, Goto, TypeOK
<1>3. Holding = Departing
  BY <1>0 DEF CourtInv, LeavingIsExclusive, Departing, Among, DepartingPoints
<1>4. Inside' \subseteq Departing'
  <2> SUFFICES ASSUME NEW u \in Threads, pc'[u] \in InsidePoints
               PROVE  pc'[u] \in DepartingPoints
    BY DEF Inside, Departing, Among
  <2>1. u # t /\ pc[u] = pc'[u]
    BY <1>0, <1>2 DEF Goto, TypeOK, InsidePoints
  <2>2. u \in Departing
    BY <1>3, <2>1 DEF Holding, Among
  <2> QED
    BY <2>1, <2>2 DEF Departing, Among
<1>5. inside' = 0
  BY <1>4, FS_EmptySet DEF CourtInv
<1> QED
  BY <1>0, <1>2, <1>5

\* The referee of a match is at the barrier when it lets go.
LEMMA RefereeStep ==
    ASSUME CourtInv, RefereeStays, [Next]_vars, CourtInv'
    PROVE  RefereeStays'
<1>0. TypeOK /\ TypeOK'
  BY DEF CourtInv
<1> SUFFICES ASSUME hasReferee' = 1, matchGoing', Departing' = {}, Closing' = {}
             PROVE  RefereeAt({"play", "leave", "barrier", "blocked"})'
  BY DEF RefereeStays
<1>1. CASE UNCHANGED vars
  BY <1>1 DEF vars, config, RefereeStays, RefereeAt, Departing, Closing, Among
<1>2. ASSUME NEW t \in Threads, Step(t) \/ Play(t)
      PROVE  RefereeAt({"play", "leave", "barrier", "blocked"})'
  <2>1. pc'[t] \notin {"after", "announce", "awaitReferee", "exit", "reset", "notify"}
    BY DEF Departing, Closing, Among, DepartingPoints, ClosingPoints
  <2>2. CASE Departing # {}
    <3>1. PICK u \in Threads : pc[u] \in DepartingPoints
      BY <2>2 DEF Departing, Among
    <3>2. pc'[u] \notin DepartingPoints
      BY <3>1 DEF Departing, Among
    <3>3. t = u
      BY <1>0, <1>2, <3>1, <3>2, OthersStay DEF DepartingPoints
    <3>4. Exit(t)
      BY <1>0, <1>2, <2>1, <3>1, <3>2, <3>3
      DEF Step, TakeSlot, FindMatchGoing, GiveSlotBack, Enter, ReadMatchGoing,
          QuitWithoutMatch, ReleaseSlot, RefereeSpeaks, AnnounceEnd, WaitAtBarrier,
          PlayerAwaits, PlayerAgrees, WaitMatchEnd, ResetMatch,
          LetWaitersKnow, OpenSlot, Play, Goto, At, TypeOK, DepartingPoints
    <3> QED
      BY <3>4, LastOneCloses
  <2>3. CASE Departing = {} /\ Closing # {}
    <3>1. PICK u \in Threads : pc[u] \in {"reset", "notify"}
      BY <2>3 DEF Closing, Among, ClosingPoints
    <3>2. pc'[u] \notin {"reset", "notify"}
      BY <3>1 DEF Closing, Among, ClosingPoints
    <3>3. t = u
      BY <1>0, <1>2, <3>1, <3>2, OthersStay
    <3>4. LetWaitersKnow(u)
      BY <1>0, <1>2, <2>1, <3>1, <3>2, <3>3
      DEF Step, TakeSlot, FindMatchGoing, GiveSlotBack, Enter, ReadMatchGoing,
          QuitWithoutMatch, ReleaseSlot, RefereeSpeaks, AnnounceEnd, WaitAtBarrier,
          PlayerAwaits, PlayerAgrees, WaitMatchEnd, ResetMatch, AtBarrier,
          Exit, OpenSlot, Play, Goto, At, TypeOK
    <3>5. ~matchGoing /\ matchGoing' = matchGoing
      BY <3>4 DEF LetWaitersKnow, At, CourtInv, GoingUntil, Notifying, Among
    <3> QED
      BY <3>5
  <2>4. CASE Departing = {} /\ Closing = {} /\ ~matchGoing
    <3>1. Enter(t) /\ EnoughPlayers(inside + 1)
      BY <1>2, <2>4
      DEF Step, TakeSlot, FindMatchGoing, GiveSlotBack, Enter, ReadMatchGoing,
          QuitWithoutMatch, ReleaseSlot, RefereeSpeaks, AnnounceEnd, WaitAtBarrier,
          PlayerAwaits, PlayerAgrees, WaitMatchEnd, ResetMatch, LetWaitersKnow,
          Exit, OpenSlot, Play
    <3>2. refereeId' = t /\ pc'[t] = "play"
      BY <1>0, <3>1 DEF Enter, config, Goto, TypeOK
    <3> QED
      BY <3>2 DEF RefereeAt, Among
  <2>5. CASE Departing = {} /\ Closing = {} /\ matchGoing
    <3>1. UNCHANGED <<config, refereeId>>
      BY <1>2, <2>5
      DEF Step, TakeSlot, FindMatchGoing, GiveSlotBack, Enter, ReadMatchGoing,
          QuitWithoutMatch, ReleaseSlot, RefereeSpeaks, AnnounceEnd, WaitAtBarrier,
          PlayerAwaits, PlayerAgrees, WaitMatchEnd, ResetMatch, LetWaitersKnow,
          Exit, OpenSlot, Play, At, Closing, Among, ClosingPoints
    <3>2. refereeId \in Threads /\ pc[refereeId] \in {"play", "leave", "barrier", "blocked"}
      BY <2>5, <3>1 DEF RefereeStays, RefereeAt, Among, config
    <3>3. pc'[refereeId] \in {"play", "leave", "barrier", "blocked"}
      <4>1. pc'[refereeId] # "after"
        BY <3>2 DEF Departing, Among, DepartingPoints
      <4> QED
        BY <1>0, <1>2, <2>1, <2>5, <3>2, <4>1
        DEF Step, TakeSlot, FindMatchGoing, GiveSlotBack, Enter, ReadMatchGoing,
            QuitWithoutMatch, ReleaseSlot, RefereeSpeaks, AnnounceEnd, WaitAtBarrier,
            PlayerAwaits, PlayerAgrees, WaitMatchEnd, ResetMatch, LetWaitersKnow,
            Exit, OpenSlot, Play, Goto, At, TypeOK
    <3> QED
      BY <3>1, <3>2, <3>3 DEF RefereeAt, Among
  <2> QED
    BY <2>2, <2>3, <2>4, <2>5
<1> QED
  BY <1>1, <1>2 DEF Next

\* The last arrival at the barrier: those it lets go are all who hold a slot.
LEMMA WholeTeam ==
    ASSUME CourtInv, NEW t \in Threads, WaitAtBarrier(t),
           Cardinality(AtBarrier) + 1 = capacity
    PROVE  /\ matchGoing /\ Departing = {} /\ Closing = {}
           /\ Holding = AtBarrier \cup {t}
           /\ IsFiniteSet(Holding) /\ Cardinality(Holding) = capacity
           /\ pc' = [u \in Threads |-> IF u \in Holding THEN "after" ELSE pc[u]]
<1> DEFINE Team == AtBarrier \cup {t}
<1>1. pc[t] = "barrier"
  BY DEF WaitAtBarrier, At
<1>2. t \in Holding /\ t \notin Departing /\ t \notin AtBarrier /\ t \in AtTheBarrier
  BY <1>1 DEF AtTheBarrier, AtBarrier, At, Holding, Departing, Among, InsidePoints,
              DepartingPoints
<1>3. matchGoing /\ Departing = {} /\ Closing = {} /\ Opening = {}
  BY <1>2 DEF CourtInv, GoingFrom, LeavingIsExclusive, ClosingIsExclusive,
              OpeningCounts
<1>4. IsFiniteSet(AtBarrier) /\ IsFiniteSet(Holding)
  BY ThreadsAssumption, FS_Subset, AmongFinite DEF AtBarrier, Holding
<1>5. Cardinality(Team) = capacity
  BY <1>2, <1>4, FS_AddElement
<1>6. Team \subseteq Holding
  BY <1>2 DEF AtBarrier, At, Holding, Among, InsidePoints
<1>7. courtAvailable + Cardinality(Holding) = capacity
  BY <1>3 DEF CourtInv, SlotsBeforeBarrier
<1>8. Cardinality(Team) <= Cardinality(Holding)
  BY <1>4, <1>6, FS_Subset
<1>9. Cardinality(Team) = Cardinality(Holding)
  BY <1>5, <1>7, <1>8, InsideHolds DEF CourtInv, TypeOK, capacity
<1>10. Holding = Team
  BY <1>4, <1>6, <1>9, FS_Subset
<1>11. pc' = [u \in Threads |-> IF u \in Team THEN "after" ELSE pc[u]]
  BY DEF WaitAtBarrier
<1> QED
  BY <1>3, <1>4, <1>5, <1>10, <1>11

\* The referee goes through the barrier with the others and posts before it exits.
LEMMA RefereeLeavesStep ==
    ASSUME CourtInv, RefereeStays, RefereeLeaves, [Next]_vars, CourtInv'
    PROVE  RefereeLeaves'
<1>0. TypeOK /\ TypeOK'
  BY DEF CourtInv
<1> SUFFICES ASSUME hasReferee' = 1, (Departing # {} \/ Among({"reset"}) # {})'
             PROVE  RefereeAt({"after", "announce", "exit", "reset", "done"})'
  BY DEF RefereeLeaves
<1>1. CASE UNCHANGED vars
  BY <1>1 DEF vars, config, RefereeLeaves, RefereeAt, Departing, Among
<1>2. ASSUME NEW t \in Threads, Step(t) \/ Play(t)
      PROVE  RefereeAt({"after", "announce", "exit", "reset", "done"})'
  <2>1. UNCHANGED config
    BY <1>2
    DEF Step, TakeSlot, FindMatchGoing, GiveSlotBack, Enter, ReadMatchGoing,
        QuitWithoutMatch, ReleaseSlot, RefereeSpeaks, AnnounceEnd, WaitAtBarrier,
        PlayerAwaits, PlayerAgrees, WaitMatchEnd, ResetMatch, LetWaitersKnow,
        Exit, OpenSlot, Play
  <2>2. CASE Departing = {} /\ Among({"reset"}) = {}
    <3>1. PICK u \in Threads : pc'[u] \in DepartingPoints \cup {"reset"}
      BY DEF Departing, Among
    <3>2. pc[u] \notin DepartingPoints \cup {"reset"}
      BY <2>2 DEF Departing, Among
    <3>3. WaitAtBarrier(t) /\ Cardinality(AtBarrier) + 1 = capacity
      <4>1. CASE u = t
        BY <1>0, <1>2, <3>1, <3>2, <4>1
        DEF Step, TakeSlot, FindMatchGoing, GiveSlotBack, Enter, ReadMatchGoing,
            QuitWithoutMatch, ReleaseSlot, RefereeSpeaks, AnnounceEnd, WaitAtBarrier,
            PlayerAwaits, PlayerAgrees, WaitMatchEnd, ResetMatch, LetWaitersKnow,
            Exit, OpenSlot, Play, Goto, At, TypeOK, DepartingPoints
      <4>2. CASE u # t
        BY <1>0, <1>2, <3>1, <3>2, <4>2, OthersStay DEF WaitAtBarrier, TypeOK
      <4> QED
        BY <4>1, <4>2
    <3>4. /\ matchGoing /\ Departing = {} /\ Closing = {}
          /\ pc' = [v \in Threads |-> IF v \in Holding THEN "after" ELSE pc[v]]
      BY <3>3, WholeTeam
    <3>5. refereeId \in Holding /\ refereeId \in Threads
      BY <2>1, <3>4 DEF RefereeStays, RefereeAt, Holding, Among, InsidePoints, config
    <3>6. refereeId' = refereeId
      BY <3>3 DEF WaitAtBarrier
    <3> QED
      BY <3>4, <3>5, <3>6 DEF RefereeAt, Among
  <2>3. CASE Departing # {} \/ Among({"reset"}) # {}
    <3>1. /\ matchGoing
          /\ refereeId \in Threads
          /\ pc[refereeId] \in {"after", "announce", "exit", "reset", "done"}
      BY <2>1, <2>3 DEF RefereeLeaves, RefereeAt, Among, config, CourtInv,
                        LeavingIsExclusive, GoingFrom
    <3>2. ~ResetMatch(t)
      <4> SUFFICES ASSUME ResetMatch(t) PROVE FALSE
        OBVIOUS
      <4>1. t \in Closing /\ pc[t] = "reset"
        BY DEF ResetMatch, At, Closing, Among, ClosingPoints
      <4>2. Departing = {} /\ Among({"reset"}) = {t}
        BY <4>1 DEF CourtInv, LeavingIsExclusive, OneCloser, Closing, Among, ClosingPoints
      <4>3. Departing' = {} /\ Among({"reset"})' = {}
        BY <1>0, <4>1, <4>2 DEF ResetMatch, Goto, Departing, Among, TypeOK, DepartingPoints
      <4> QED
        BY <4>3
    <3>3. refereeId' = refereeId
      BY <1>2, <3>1, <3>2
      DEF Step, TakeSlot, FindMatchGoing, GiveSlotBack, Enter, ReadMatchGoing,
          QuitWithoutMatch, ReleaseSlot, RefereeSpeaks, AnnounceEnd, WaitAtBarrier,
          PlayerAwaits, PlayerAgrees, WaitMatchEnd, LetWaitersKnow,
          Exit, OpenSlot, Play
    <3>4. pc'[refereeId] \in {"after", "announce", "exit", "reset", "done"}
      <4>1. CASE refereeId # t
        BY <1>0, <1>2, <3>1, <4>1, OthersStay
      <4>2. CASE refereeId = t
        BY <1>0, <1>2, <2>1, <3>1, <3>2, <4>2
        DEF Step, TakeSlot, FindMatchGoing, GiveSlotBack, Enter, ReadMatchGoing,
            QuitWithoutMatch, ReleaseSlot, RefereeSpeaks, AnnounceEnd, WaitAtBarrier,
            PlayerAwaits, PlayerAgrees, WaitMatchEnd, LetWaitersKnow,
            Exit, OpenSlot, Play, Goto, At, TypeOK, config
      <4> QED
        BY <4>1, <4>2
    <3> QED
      BY <3>1, <3>3, <3>4 DEF RefereeAt, Among
  <2> QED
    BY <2>2, <2>3
<1> QED
  BY <1>1, <1>2 DEF Next

-----------------------------------------------------------------------------

SignalCounts == NoRefereeNoSignal /\ OnlyTheReferee /\ PostsMatch /\ LinesMatch

\* With no match being left nothing is posted and nothing is to be posted.
LEMMA NothingPosted ==
    ASSUME TypeOK, SignalCounts, Departing = {}
    PROVE  /\ matchEnd = 0
           /\ Awaiting = {} /\ Among({"announce"}) = {} /\ Among({"awaitReferee"}) = {}
           /\ ~RefereeAt({"after"})
           /\ hasReferee = 1 =>
                console["playerLeft"] = neededPlayers * console["refereeLeft"]
<1>1. \A t \in Threads : pc[t] \notin DepartingPoints
  BY DEF Departing, Among
<1>2. /\ Awaiting = {} /\ Among({"announce"}) = {} /\ Among({"awaitReferee"}) = {}
      /\ ~RefereeAt({"after"}) /\ ~RefereeAt({"announce"})
  BY <1>1 DEF Awaiting, RefereeAt, Among, DepartingPoints
<1>3. Cardinality(Awaiting) = 0 /\ PostsToCome = 0
  BY <1>2, FS_EmptySet DEF PostsToCome
<1>4. CASE hasReferee = 0
  BY <1>2, <1>4 DEF SignalCounts, NoRefereeNoSignal
<1>5. CASE hasReferee = 1
  <2>1. matchEnd = 0
    BY <1>3, <1>5 DEF SignalCounts, PostsMatch, TypeOK
  <2>2. console["playerLeft"] + 0 = neededPlayers * console["refereeLeft"] + 0
    BY <1>2, <1>3, <1>5 DEF SignalCounts, LinesMatch
  <2>3. /\ console["playerLeft"] \in Nat /\ console["refereeLeft"] \in Nat
        /\ neededPlayers * console["refereeLeft"] \in Nat
    BY DEF TypeOK, Lines
  <2> QED
    BY <1>2, <2>1, <2>2, <2>3
<1> QED
  BY <1>4, <1>5 DEF TypeOK

\* A step that leaves the threads at the signal alone keeps the counts.
LEMMA SignalsKept ==
    ASSUME SignalCounts,
           UNCHANGED <<Among({"after"}), Among({"announce"}), Among({"awaitReferee"})>>,
           UNCHANGED <<config, refereeId, matchEnd>>,
           \A u \in Among({"announce"}) : posted'[u] = posted[u],
           console'["playerLeft"] = console["playerLeft"],
           console'["refereeLeft"] = console["refereeLeft"]
    PROVE  SignalCounts'
<1>1. /\ Among({"after", "awaitReferee"}) = Among({"after"}) \cup Among({"awaitReferee"})
      /\ Among({"announce", "awaitReferee"}) = Among({"announce"}) \cup Among({"awaitReferee"})
  BY DEF Among
<1>2. /\ Among({"after", "awaitReferee"})' = Among({"after"})' \cup Among({"awaitReferee"})'
      /\ Among({"announce", "awaitReferee"})' = Among({"announce"})' \cup Among({"awaitReferee"})'
  BY DEF Among
<1>3. UNCHANGED <<Among({"after", "awaitReferee"}), Among({"announce", "awaitReferee"})>>
  BY <1>1, <1>2
<1>4. UNCHANGED <<Awaiting, RefereeAt({"after"}), RefereeAt({"announce"})>>
  BY <1>3 DEF Awaiting, RefereeAt
<1>5. UNCHANGED PostsToCome
  BY <1>4 DEF PostsToCome, RefereeAt, config
<1> QED
  BY <1>3, <1>4, <1>5
  DEF SignalCounts, NoRefereeNoSignal, OnlyTheReferee, PostsMatch, LinesMatch, config

\* So does a step between two times at which no match is being left.
LEMMA SignalsAtRest ==
    ASSUME TypeOK, SignalCounts, Departing = {}, Departing' = {},
           UNCHANGED <<config, matchEnd>>,
           console'["playerLeft"] = console["playerLeft"],
           console'["refereeLeft"] = console["refereeLeft"]
    PROVE  SignalCounts'
<1>1. /\ matchEnd = 0
      /\ hasReferee = 1 => console["playerLeft"] = neededPlayers * console["refereeLeft"]
  BY NothingPosted
<1>2. \A t \in Threads : pc'[t] \notin DepartingPoints
  BY DEF Departing, Among
<1>3. (/\ Awaiting = {} /\ Among({"announce"}) = {} /\ Among({"awaitReferee"}) = {}
       /\ Among({"announce", "awaitReferee"}) = {}
       /\ ~RefereeAt({"after"}) /\ ~RefereeAt({"announce"}))'
  BY <1>2 DEF Awaiting, RefereeAt, Among, DepartingPoints
<1>4. Cardinality(Awaiting') = 0 /\ PostsToCome' = 0
  BY <1>3, FS_EmptySet DEF PostsToCome
<1>5. neededPlayers * console["refereeLeft"] \in Nat
  BY DEF TypeOK, Lines
<1> QED
  BY <1>1, <1>3, <1>4, <1>5
  DEF SignalCounts, NoRefereeNoSignal, OnlyTheReferee, PostsMatch, LinesMatch, config

SignalPoints == {"after", "announce", "awaitReferee"}

\* A move away from the signal.
LEMMA MoveElsewhere ==
    ASSUME TypeOK, NEW t \in Threads, NEW q, Goto(t, q),
           pc[t] \notin SignalPoints, q \notin SignalPoints
    PROVE  UNCHANGED <<Among({"after"}), Among({"announce"}), Among({"awaitReferee"})>>
BY DEF TypeOK, Goto, Among, SignalPoints

LEMMA ElsewhereKeepsSignals ==
    ASSUME CourtInv, SignalCounts, NEW t \in Threads,
           \/ TakeSlot(t) \/ FindMatchGoing(t) \/ GiveSlotBack(t) \/ Play(t)
           \/ ReadMatchGoing(t) \/ QuitWithoutMatch(t) \/ ReleaseSlot(t)
           \/ Exit(t) \/ LetWaitersKnow(t) \/ OpenSlot(t)
    PROVE  SignalCounts'
<1>0. TypeOK
  BY DEF CourtInv
<1>1. \E q \in Points \ SignalPoints : pc[t] \notin SignalPoints /\ Goto(t, q)
  BY DEF TakeSlot, FindMatchGoing, GiveSlotBack, Play, ReadMatchGoing,
         QuitWithoutMatch, ReleaseSlot, Exit, LetWaitersKnow, OpenSlot,
         SignalPoints, Points, At
<1>2. UNCHANGED <<Among({"after"}), Among({"announce"}), Among({"awaitReferee"})>>
  BY <1>0, <1>1, MoveElsewhere
<1>3. /\ UNCHANGED <<config, refereeId, matchEnd>>
      /\ console'["playerLeft"] = console["playerLeft"]
      /\ console'["refereeLeft"] = console["refereeLeft"]
      /\ \A u \in Threads : u # t => posted'[u] = posted[u]
  BY <1>0 DEF TakeSlot, FindMatchGoing, GiveSlotBack, Play, ReadMatchGoing,
         QuitWithoutMatch, ReleaseSlot, Exit, LetWaitersKnow, OpenSlot,
         Say, TypeOK, Lines
<1>4. \A u \in Among({"announce"}) : posted'[u] = posted[u]
  BY <1>1, <1>3 DEF Among, SignalPoints
<1> QED
  BY <1>2, <1>3, <1>4, SignalsKept

LEMMA EnterKeepsSignals ==
    ASSUME CourtInv, SignalCounts, CourtInv', NEW t \in Threads,
           Enter(t) \/ ResetMatch(t)
    PROVE  SignalCounts'
<1>0. TypeOK
  BY DEF CourtInv
<1>1. PICK q \in {"play", "notify"} : Goto(t, q) /\ pc[t] \in {"check", "reset"}
  BY DEF Enter, ResetMatch, At
<1>2. Departing = {}
  <2>1. CASE pc[t] = "check"
    BY <2>1 DEF CourtInv, LeavingIsExclusive, Holding, Departing, Among,
                EnteringPoints, DepartingPoints
  <2>2. CASE pc[t] = "reset"
    BY <2>2 DEF CourtInv, LeavingIsExclusive, Closing, Among, ClosingPoints
  <2> QED
    BY <1>1, <2>1, <2>2
<1>3. Departing' = {}
  BY <1>0, <1>1, <1>2 DEF Departing, Among, Goto, TypeOK, DepartingPoints
<1>4. /\ UNCHANGED <<config, matchEnd>>
      /\ console'["playerLeft"] = console["playerLeft"]
      /\ console'["refereeLeft"] = console["refereeLeft"]
  BY <1>0 DEF Enter, ResetMatch, Say, TypeOK, Lines
<1> QED
  BY <1>0, <1>2, <1>3, <1>4, SignalsAtRest

\* The barrier lets go of a whole match, the referee among them.
LEMMA BarrierKeepsSignals ==
    ASSUME CourtInv, SignalCounts, RefereeStays, NEW t \in Threads, WaitAtBarrier(t)
    PROVE  SignalCounts'
<1>0. TypeOK
  BY DEF CourtInv
<1>1. /\ pc[t] = "barrier"
      /\ UNCHANGED <<config, refereeId, matchEnd, posted, console>>
  BY DEF WaitAtBarrier, At
<1>2. CASE Cardinality(AtBarrier) + 1 # capacity
  <2>1. Goto(t, "blocked")
    BY <1>2 DEF WaitAtBarrier, Goto
  <2>2. UNCHANGED <<Among({"after"}), Among({"announce"}), Among({"awaitReferee"})>>
    BY <1>0, <1>1, <2>1, MoveElsewhere DEF SignalPoints
  <2> QED
    BY <1>1, <2>2, SignalsKept
<1>3. CASE Cardinality(AtBarrier) + 1 = capacity
  <2>1. /\ matchGoing /\ Departing = {} /\ Closing = {}
        /\ IsFiniteSet(Holding) /\ Cardinality(Holding) = capacity
        /\ pc' = [u \in Threads |-> IF u \in Holding THEN "after" ELSE pc[u]]
    BY <1>3, WholeTeam
  <2>4. /\ matchEnd = 0
        /\ hasReferee = 1 =>
             console["playerLeft"] = neededPlayers * console["refereeLeft"]
    BY <1>0, <2>1, NothingPosted
  <2>5. /\ Among({"announce"})' = {} /\ Among({"awaitReferee"})' = {}
        /\ Among({"announce", "awaitReferee"})' = {}
        /\ Among({"after"})' = Holding /\ Among({"after", "awaitReferee"})' = Holding
    <3>1. \A u \in Threads : pc[u] \notin SignalPoints
      BY <2>1 DEF Departing, Among, DepartingPoints, SignalPoints
    <3>2. Holding \subseteq Threads
      BY DEF Holding, Among
    <3> QED
      BY <2>1, <3>1, <3>2 DEF Among, SignalPoints
  <2>6. ASSUME hasReferee = 1
        PROVE  refereeId \in Holding /\ Cardinality(Holding \ {refereeId}) = neededPlayers
    <3>1. refereeId \in Holding
      BY <2>1, <2>6 DEF RefereeStays, RefereeAt, Holding, Among, InsidePoints
    <3>2. Cardinality(Holding \ {refereeId}) = Cardinality(Holding) - 1
      BY <2>1, <3>1, FS_RemoveElement
    <3> QED
      BY <1>0, <2>1, <2>6, <3>1, <3>2 DEF TypeOK, capacity
  <2>7. CASE hasReferee = 0
    BY <1>0, <1>1, <2>4, <2>5, <2>7
    DEF SignalCounts, NoRefereeNoSignal, OnlyTheReferee, PostsMatch, LinesMatch, config
  <2>8. CASE hasReferee = 1
    <3>1. RefereeAt({"after"})' /\ Cardinality(Awaiting') = neededPlayers
      BY <1>1, <2>5, <2>6, <2>8 DEF RefereeAt, Awaiting
    <3>2. PostsToCome' = neededPlayers
      BY <1>1, <3>1 DEF PostsToCome, config
    <3>3. neededPlayers \in Nat
      BY <1>0 DEF TypeOK
    <3> QED
      BY <1>1, <2>4, <2>5, <2>8, <3>1, <3>2, <3>3
      DEF SignalCounts, NoRefereeNoSignal, OnlyTheReferee, PostsMatch, LinesMatch, config
  <2> QED
    BY <1>0, <2>7, <2>8 DEF TypeOK
<1> QED
  BY <1>2, <1>3

\* What the move of a thread does to the sets at the signal.
LEMMA SignalMove ==
    ASSUME TypeOK, NEW t \in Threads, NEW q, Goto(t, q), NEW points
    PROVE  Among(points)' = Moved(Among(points), points, t, q)
BY DEF TypeOK, Goto, Among, Moved

\* The referee speaks: all its posts are to come, and one more line is there.
LEMMA SpeakKeepsSignals ==
    ASSUME TypeOK, TypeOK', SignalCounts, NEW t \in Threads, RefereeSpeaks(t)
    PROVE  SignalCounts'
<1>1. /\ pc[t] = "after" /\ hasReferee = 1 /\ refereeId = t
      /\ Goto(t, "announce") /\ posted' = [posted EXCEPT ![t] = 0]
      /\ console' = [console EXCEPT !["refereeLeft"] = @ + 1]
      /\ UNCHANGED <<config, refereeId, matchEnd>>
  BY DEF RefereeSpeaks, At, Say
<1>2. /\ Among({"after", "awaitReferee"})' = Among({"after", "awaitReferee"}) \ {t}
      /\ Among({"after"})' = Among({"after"}) \ {t}
      /\ Among({"announce"})' = Among({"announce"}) \cup {t}
      /\ Among({"awaitReferee"})' = Among({"awaitReferee"})
  BY <1>1, SignalMove DEF Moved
<1>3. Awaiting' = Awaiting /\ t \in Among({"after"})
  BY <1>1, <1>2 DEF Awaiting, Among
<1>4. /\ RefereeAt({"after"}) /\ ~RefereeAt({"after"})' /\ RefereeAt({"announce"})'
  BY <1>1, <1>2, <1>3 DEF RefereeAt
<1>5. PostsToCome = neededPlayers /\ PostsToCome' = neededPlayers - 0
  BY <1>1, <1>4 DEF PostsToCome, config, TypeOK
<1>6. Among({"announce"})' = {t}
  BY <1>1, <1>2 DEF SignalCounts, OnlyTheReferee, Among
<1>7. /\ console'["playerLeft"] = console["playerLeft"]
      /\ console'["refereeLeft"] = console["refereeLeft"] + 1
      /\ console["refereeLeft"] \in Nat /\ neededPlayers \in Nat \ {0}
  BY <1>1 DEF TypeOK, Lines
<1>8. neededPlayers * (console["refereeLeft"] + 1)
        = neededPlayers * console["refereeLeft"] + neededPlayers
  BY <1>7
<1>9. OnlyTheReferee' /\ NoRefereeNoSignal'
  BY <1>1, <1>2, <1>6, <1>7 DEF SignalCounts, OnlyTheReferee, NoRefereeNoSignal, config, TypeOK
<1>10. PostsMatch'
  BY <1>1, <1>3, <1>5, <1>7 DEF SignalCounts, PostsMatch, config
<1>11. LinesMatch'
  <2>1. neededPlayers * console["refereeLeft"] \in Nat
    BY <1>7
  <2> QED
    BY <1>1, <1>3, <1>4, <1>7, <1>8, <2>1, AwaitingFinite
    DEF SignalCounts, LinesMatch, config, TypeOK, Lines
<1> QED
  BY <1>9, <1>10, <1>11 DEF SignalCounts

\* A post that was to come is made.
LEMMA AnnounceKeepsSignals ==
    ASSUME TypeOK, TypeOK', SignalCounts, NEW t \in Threads, AnnounceEnd(t)
    PROVE  SignalCounts'
<1> DEFINE q == IF posted[t] + 1 = neededPlayers THEN "exit" ELSE "announce"
<1>1. /\ pc[t] = "announce" /\ Goto(t, q)
      /\ matchEnd' = matchEnd + 1 /\ posted' = [posted EXCEPT ![t] = @ + 1]
      /\ UNCHANGED <<config, refereeId, console>>
  BY DEF AnnounceEnd, At
<1>2. /\ t \in Among({"announce"}) /\ t \in Among({"announce", "awaitReferee"})
      /\ t \notin Among({"after"})
  BY <1>1 DEF Among
<1>3. refereeId = t /\ posted[t] < neededPlayers /\ hasReferee = 1
  BY <1>2 DEF SignalCounts, OnlyTheReferee, NoRefereeNoSignal, TypeOK
<1>4. /\ UNCHANGED <<Among({"after", "awaitReferee"}), Among({"after"}), Among({"awaitReferee"})>>
      /\ Among({"announce"})' = IF q = "exit" THEN Among({"announce"}) \ {t}
                                              ELSE Among({"announce"})
  <2>1. CASE q = "exit"
    BY <1>1, <2>1 DEF Goto, Among, TypeOK
  <2>2. CASE q = "announce"
    BY <1>1, <2>2 DEF Goto, Among, TypeOK
  <2> QED
    BY <2>1, <2>2
<1>5. /\ UNCHANGED <<Awaiting, RefereeAt({"after"})>> /\ ~RefereeAt({"after"})
      /\ RefereeAt({"announce"}) /\ RefereeAt({"announce"})' = (q = "announce")
  BY <1>1, <1>2, <1>3, <1>4 DEF Awaiting, RefereeAt
<1>6. /\ PostsToCome = neededPlayers - posted[t]
      /\ posted'[t] = posted[t] + 1 /\ posted[t] \in Nat /\ neededPlayers \in Nat
  BY <1>1, <1>3, <1>5 DEF PostsToCome, TypeOK
<1>7. PostsToCome' = neededPlayers - (posted[t] + 1)
  <2>1. CASE posted[t] + 1 = neededPlayers
    <3>1. ~RefereeAt({"announce"})' /\ ~RefereeAt({"after"})'
      BY <1>5, <2>1
    <3>2. PostsToCome' = 0
      BY <3>1 DEF PostsToCome
    <3> QED
      BY <1>6, <2>1, <3>2
  <2>2. CASE posted[t] + 1 # neededPlayers
    BY <1>1, <1>3, <1>5, <1>6, <2>2 DEF PostsToCome, config
  <2> QED
    BY <2>1, <2>2
<1>8. OnlyTheReferee'
  <2>1. \A u \in Among({"announce"})' : u = t /\ posted'[u] < neededPlayers
    BY <1>1, <1>2, <1>3, <1>4, <1>6 DEF SignalCounts, OnlyTheReferee
  <2> QED
    BY <1>1, <1>3, <1>4, <2>1 DEF SignalCounts, OnlyTheReferee, config
<1>9. PostsMatch' /\ NoRefereeNoSignal'
  BY <1>1, <1>3, <1>5, <1>6, <1>7, AwaitingFinite
  DEF SignalCounts, PostsMatch, NoRefereeNoSignal, config, TypeOK
<1>10. LinesMatch'
  BY <1>1, <1>3, <1>5 DEF SignalCounts, LinesMatch, config
<1> QED
  BY <1>8, <1>9, <1>10 DEF SignalCounts

\* After the barrier a player turns to the semaphore, or goes where there is no
\* referee to wait for.
LEMMA AfterKeepsSignals ==
    ASSUME TypeOK, TypeOK', SignalCounts, NEW t \in Threads,
           PlayerAwaits(t) \/ PlayerAgrees(t)
    PROVE  SignalCounts'
<1>1. CASE PlayerAwaits(t)
  <2>1. /\ pc[t] = "after" /\ hasReferee = 1 /\ refereeId # t
        /\ Goto(t, "awaitReferee")
        /\ UNCHANGED <<config, refereeId, matchEnd, posted, console>>
    BY <1>1 DEF PlayerAwaits, At
  <2>2. /\ UNCHANGED <<Among({"after", "awaitReferee"}), Among({"announce"})>>
        /\ Among({"after"})' = Among({"after"}) \ {t}
        /\ Among({"awaitReferee"})' = Among({"awaitReferee"}) \cup {t}
    BY <2>1 DEF Goto, Among, TypeOK
  <2>3. UNCHANGED <<Awaiting, RefereeAt({"after"}), RefereeAt({"announce"})>>
    BY <2>1, <2>2 DEF Awaiting, RefereeAt
  <2>4. UNCHANGED PostsToCome
    BY <2>1, <2>3 DEF PostsToCome, config
  <2> QED
    BY <2>1, <2>2, <2>3, <2>4
    DEF SignalCounts, NoRefereeNoSignal, OnlyTheReferee, PostsMatch, LinesMatch, config
<1>2. CASE PlayerAgrees(t)
  <2>1. /\ pc[t] = "after" /\ hasReferee = 0 /\ Goto(t, "exit")
        /\ UNCHANGED <<config, refereeId, matchEnd, posted>>
    BY <1>2 DEF PlayerAgrees, At
  <2>2. UNCHANGED <<Among({"announce", "awaitReferee"}), Among({"announce"}),
                    Among({"awaitReferee"})>>
    BY <2>1 DEF Goto, Among, TypeOK
  <2> QED
    BY <2>1, <2>2
    DEF SignalCounts, NoRefereeNoSignal, OnlyTheReferee, PostsMatch, LinesMatch, config
<1> QED
  BY <1>1, <1>2

\* A player takes a post; the threads that wait in enter() find none.
LEMMA WaitKeepsSignals ==
    ASSUME TypeOK, TypeOK', WaitersAreStuck, SignalCounts,
           NEW t \in Threads, WaitMatchEnd(t)
    PROVE  SignalCounts'
<1>1. pc[t] # "waitEnd"
  <2> SUFFICES ASSUME pc[t] = "waitEnd" PROVE FALSE
    OBVIOUS
  <2>1. Departing = {}
    BY DEF WaitersAreStuck, Waiters, Among
  <2> QED
    BY <2>1, NothingPosted DEF WaitMatchEnd, TypeOK
<1>2. /\ pc[t] = "awaitReferee" /\ Goto(t, "exit")
      /\ matchEnd' = matchEnd - 1
      /\ console' = [console EXCEPT !["playerLeft"] = @ + 1]
      /\ UNCHANGED <<config, refereeId, posted>>
  BY <1>1 DEF WaitMatchEnd, At, Say
<1>3. t # refereeId /\ t \in Awaiting /\ hasReferee = 1
  BY <1>2 DEF SignalCounts, OnlyTheReferee, NoRefereeNoSignal, Awaiting, Among, TypeOK
<1>4. /\ UNCHANGED <<Among({"after"}), Among({"announce"})>>
      /\ Among({"after", "awaitReferee"})' = Among({"after", "awaitReferee"}) \ {t}
      /\ Among({"awaitReferee"})' = Among({"awaitReferee"}) \ {t}
  BY <1>2, SignalMove DEF Moved
<1>5. /\ Awaiting' = Awaiting \ {t}
      /\ UNCHANGED <<RefereeAt({"after"}), RefereeAt({"announce"})>>
  BY <1>2, <1>4 DEF Awaiting, RefereeAt
<1>6. Cardinality(Awaiting') = Cardinality(Awaiting) - 1
  BY <1>3, <1>5, AwaitingFinite, FS_RemoveElement
<1>7. UNCHANGED PostsToCome
  BY <1>2, <1>5 DEF PostsToCome, config
<1>8. /\ PostsToCome \in Int
      /\ matchEnd \in Nat /\ Cardinality(Awaiting) \in Nat
      /\ console["playerLeft"] \in Nat
      /\ console'["playerLeft"] = console["playerLeft"] + 1
      /\ console'["refereeLeft"] = console["refereeLeft"]
  BY <1>2, AwaitingFinite DEF PostsToCome, RefereeAt, Among, TypeOK, Lines
<1>9. NoRefereeNoSignal' /\ OnlyTheReferee'
  BY <1>2, <1>3, <1>4 DEF SignalCounts, NoRefereeNoSignal, OnlyTheReferee, config
<1>10. PostsMatch'
  BY <1>2, <1>3, <1>6, <1>7, <1>8 DEF SignalCounts, PostsMatch, config
<1>11. LinesMatch'
  BY <1>2, <1>3, <1>5, <1>6, <1>8 DEF SignalCounts, LinesMatch, config
<1> QED
  BY <1>9, <1>10, <1>11 DEF SignalCounts

LEMMA SignalInduction ==
    CourtInv /\ SignalInv /\ [Next]_vars /\ CourtInv' => SignalInv'
<1> SUFFICES ASSUME CourtInv, SignalInv, [Next]_vars, CourtInv' PROVE SignalInv'
  OBVIOUS
<1>1. /\ TypeOK /\ TypeOK' /\ WaitersAreStuck /\ RefereeStays /\ RefereeLeaves
      /\ SignalCounts
  BY DEF CourtInv, SignalInv, SignalCounts
<1>2. WaitersAreStuck' /\ RefereeStays' /\ RefereeLeaves'
  BY <1>1, StuckStep, RefereeStep, RefereeLeavesStep
<1>3. SignalCounts'
  <2>1. CASE UNCHANGED vars
    BY <1>1, <2>1, SignalsKept DEF vars, config, Among
  <2>2. ASSUME NEW t \in Threads, Step(t) \/ Play(t) PROVE SignalCounts'
    BY <1>1, <2>2, ElsewhereKeepsSignals, EnterKeepsSignals, BarrierKeepsSignals,
       SpeakKeepsSignals, AnnounceKeepsSignals, AfterKeepsSignals, WaitKeepsSignals
    DEF Step
  <2> QED
    BY <2>1, <2>2 DEF Next
<1> QED
  BY <1>2, <1>3 DEF SignalInv, SignalCounts

\* The posts of match_end made and to come are as many as the players who wait
\* for the referee, in every reachable state of the court.
THEOREM SignalInvariant == Spec => []SignalInv
BY InitSignals, SignalInduction, CourtInvariant, PTL DEF Spec

-----------------------------------------------------------------------------
(* What follows from the invariant.                                         *)

\* The console shows the referee of a match before any player of it, and no
\* post of match_end is left over from one match to the next: for any number of
\* threads and players, however leave() and enter() share the semaphore.
THEOREM RefereeComesFirst == Spec => []RefereeFirst
<1>1. ASSUME CourtInv, SignalInv PROVE RefereeFirst
  <2> SUFFICES ASSUME hasReferee = 1
               PROVE  /\ console["playerLeft"] <= neededPlayers * console["refereeLeft"]
                      /\ matchEnd <= neededPlayers * console["refereeLeft"]
                                       - console["playerLeft"]
    BY DEF RefereeFirst
  <2> DEFINE due == neededPlayers * console["refereeLeft"]
  <2>1. /\ neededPlayers \in Nat /\ console["playerLeft"] \in Nat /\ matchEnd \in Nat
        /\ due \in Nat
    BY <1>1 DEF CourtInv, TypeOK, Lines
  <2>2. /\ Cardinality(Awaiting) = matchEnd + PostsToCome
        /\ console["playerLeft"] + Cardinality(Awaiting) =
             due + IF RefereeAt({"after"}) THEN neededPlayers ELSE 0
    BY <1>1 DEF SignalInv, PostsMatch, LinesMatch
  <2>3. PostsToCome \in Nat /\ (RefereeAt({"after"}) => PostsToCome = neededPlayers)
    BY <1>1, <2>1 DEF PostsToCome, RefereeAt, SignalInv, OnlyTheReferee, CourtInv, TypeOK, Among
  <2> QED
    BY <2>1, <2>2, <2>3
<1> QED
  BY <1>1, CourtInvariant, SignalInvariant, PTL

\* The posts of the referee cannot go to a thread that waits in enter().
THEOREM SignalsAreForPlayers == Spec => []NoSignalStolen
<1>1. ASSUME CourtInv, SignalInv PROVE NoSignalStolen
  <2> SUFFICES ASSUME Among({"waitEnd"}) # {} PROVE Departing = {} /\ matchEnd = 0
    BY DEF NoSignalStolen
  <2>1. Departing = {}
    BY <1>1 DEF SignalInv, WaitersAreStuck, Waiters, Among
  <2> QED
    BY <1>1, <2>1, NothingPosted DEF CourtInv, SignalInv, SignalCounts
<1> QED
  BY <1>1, CourtInvariant, SignalInvariant, PTL
=============================================================================
