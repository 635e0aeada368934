-------------------------- MODULE CourtTimedProofs --------------------------
(***************************************************************************)
(* Proofs about the court as the test drivers use it, when those who       *)
(* return from play() together have gone before anyone else comes in       *)
(* (OrderlySpec).  Then a match is always full: nobody quits once it has   *)
(* been formed.  That is what the promise to the users (CourtPromise) and  *)
(* the counts of the output rest on; with any timing neither holds.        *)
(***************************************************************************)
EXTENDS CourtTimed, CourtProofs

Quitting == Among({"noMatch", "release"})

TimedTypeOK ==
    /\ driver \in {"court_test", "court_test2"}
    /\ asleep \in [Threads -> Nat]

\* Threads sleep before they come to the court and while they play.
SleepersPlay == \A t \in Threads : asleep[t] > 0 => pc[t] \in {"court", "play"}

\* While someone is coming in, nobody is on the way from play() to the exit.
EntryAlone == Among({"check"}) # {} => \A u \in Threads : ~Returning(u)

\* A match that has been formed has all its people, and nobody is giving up; no
\* thread finds a match going.
MatchIsFull ==
    /\ Waiters = {}
    /\ IF matchGoing
         THEN Quitting = {} /\ (Departing = {} /\ Closing = {} => inside = capacity)
         ELSE inside < capacity

OrderInv == TimedTypeOK /\ SleepersPlay /\ EntryAlone /\ MatchIsFull

-----------------------------------------------------------------------------

\* Every step of the drivers is a step of the court or leaves it alone.
LEMMA OrderlyIsCourt == [OrderlyNext]_timedVars => [Next]_vars
<1> SUFFICES ASSUME OrderlyNext PROVE [Next]_vars
  BY DEF timedVars
<1>1. CASE \E t \in Threads : OrderlyRun(t)
  BY <1>1 DEF OrderlyRun, Run, Next
<1> QED
  BY <1>1 DEF OrderlyNext, Second, MainTerminates, timedVars

LEMMA OrderlyInvariant == OrderlySpec => [](CourtInv /\ SignalInv)
<1>1. OrderlySpec => TimedInit /\ [][OrderlyNext]_timedVars
  BY PTL DEF OrderlySpec
<1>2. TimedInit => CourtInv /\ SignalInv
  BY InitInv, InitSignals DEF TimedInit
<1>3. CourtInv /\ SignalInv /\ [OrderlyNext]_timedVars => (CourtInv /\ SignalInv)'
  BY OrderlyIsCourt, CourtInduction, SignalInduction
<1> QED
  BY <1>1, <1>2, <1>3, PTL

\* Time passes only when every thread sleeps or waits.
LEMMA AtSecond ==
    ASSUME TypeOK, SleepersPlay, TimedTypeOK, Second
    PROVE  \A t \in Threads :
             /\ pc[t] \in {"court", "blocked", "awaitReferee", "waitEnd", "done", "play"}
             /\ pc[t] = "play" => asleep[t] > 0
             /\ pc[t] = "court" => asleep[t] > 0 \/ courtAvailable = 0
BY DEF Second, Asleep, Awake, Waits, At, SleepersPlay, TimedTypeOK, TypeOK

LEMMA InitOrder == TimedInit => OrderInv
<1> SUFFICES ASSUME TimedInit PROVE OrderInv
  OBVIOUS
<1>0. Init /\ CourtInv
  BY InitInv DEF TimedInit
<1>1. \A t \in Threads : pc[t] = "court"
  BY <1>0 DEF Init
<1>2. TimedTypeOK
  <2>1. Cardinality(Threads) \in Nat
    BY ThreadsAssumption, FS_CardinalityType
  <2>2. \A t \in Threads : Delay(t) \in Nat
    BY <2>1, NumberedThreads DEF Delay
  <2> QED
    BY <2>2, DriversAssumption DEF TimedInit, TimedTypeOK
<1>3. Waiters = {} /\ Inside = {} /\ Among({"check"}) = {}
  BY <1>1 DEF Waiters, Inside, Among, InsidePoints
<1>4. ~matchGoing
  BY <1>0 DEF Init, Construct
<1>5. inside = 0 /\ capacity > 0
  BY <1>0, <1>3, FS_EmptySet DEF CourtInv, TypeOK, capacity
<1> QED
  BY <1>1, <1>2, <1>3, <1>4, <1>5 DEF OrderInv, SleepersPlay, EntryAlone, MatchIsFull

LEMMA TypesKept ==
    ASSUME CourtInv, CourtInv', OrderInv, [OrderlyNext]_timedVars
    PROVE  TimedTypeOK' /\ SleepersPlay'
<1>0. /\ TypeOK /\ TypeOK' /\ TimedTypeOK /\ SleepersPlay
  BY DEF CourtInv, OrderInv
<1>1. ASSUME NEW t \in Threads, OrderlyRun(t) PROVE TimedTypeOK' /\ SleepersPlay'
  <2>1. /\ asleep[t] = 0 /\ (Step(t) \/ Play(t)) /\ driver' = driver
        /\ asleep' = IF pc'[t] = "play" THEN [asleep EXCEPT ![t] = 2] ELSE asleep
    BY <1>1 DEF OrderlyRun, Run, Awake, PlaySeconds
  <2>2. TimedTypeOK'
    BY <1>0, <2>1 DEF TimedTypeOK
  <2>3. ASSUME NEW u \in Threads, asleep'[u] > 0 PROVE pc'[u] \in {"court", "play"}
    <3>1. CASE u = t
      BY <1>0, <2>1, <2>3, <3>1 DEF TimedTypeOK
    <3>2. CASE u # t
      <4>1. pc[u] \in {"court", "play"}
        BY <1>0, <2>1, <2>3, <3>2 DEF TimedTypeOK, SleepersPlay
      <4> QED
        BY <1>0, <2>1, <3>2, <4>1, OthersStay
    <3> QED
      BY <3>1, <3>2
  <2> QED
    BY <2>2, <2>3 DEF SleepersPlay
<1>2. CASE Second
  BY <1>0, <1>2 DEF Second, Awake, TimedTypeOK, SleepersPlay, vars
<1>3. CASE UNCHANGED timedVars
  BY <1>0, <1>3 DEF timedVars, TimedTypeOK, SleepersPlay, vars
<1> QED
  BY <1>1, <1>2, <1>3 DEF OrderlyNext, MainTerminates

\* A thread that comes in waits for those who return from play() to be gone.
LEMMA EntryStep ==
    ASSUME CourtInv, CourtInv', OrderInv, [OrderlyNext]_timedVars
    PROVE  EntryAlone'
<1>0. /\ TypeOK /\ TypeOK' /\ TimedTypeOK /\ SleepersPlay /\ EntryAlone
  BY DEF CourtInv, OrderInv
<1>1. ASSUME NEW t \in Threads, OrderlyRun(t) PROVE EntryAlone'
  <2> SUFFICES ASSUME Among({"check"})' # {}, NEW u \in Threads, Returning(u)'
               PROVE  FALSE
    BY DEF EntryAlone
  <2>1. /\ asleep[t] = 0 /\ (Step(t) \/ Play(t))
        /\ asleep' = IF pc'[t] = "play" THEN [asleep EXCEPT ![t] = 2] ELSE asleep
        /\ pc[t] = "court" => \A v \in Threads : ~Returning(v)
    BY <1>1 DEF OrderlyRun, Run, Awake, PlaySeconds, At
  <2>2. Returning(u)
    <3>1. CASE u # t
      BY <1>0, <2>1, <3>1, OthersStay DEF Returning, Awake, At, TimedTypeOK
    <3>2. CASE u = t
      <4>1. pc'[t] # "play"
        BY <1>0, <2>1, <3>2 DEF Returning, Awake, At, TimedTypeOK
      <4>2. pc[t] \in {"play", "leave", "noMatch"}
        BY <1>0, <2>1, <3>2, <4>1, StepMoves DEF Returning, At
      <4> QED
        BY <2>1, <3>2, <4>2 DEF Returning, Awake, At
    <3> QED
      BY <3>1, <3>2
  <2>3. Among({"check"}) = {} /\ pc[t] # "court"
    BY <2>1, <2>2, <1>0 DEF EntryAlone
  <2>4. PICK w \in Threads : pc'[w] = "check"
    BY DEF Among
  <2>5. pc[w] # "check"
    BY <2>3 DEF Among
  <2>6. w = t
    BY <1>0, <2>1, <2>4, <2>5, OthersStay
  <2> QED
    BY <1>0, <2>1, <2>3, <2>4, <2>6, StepMoves
<1>2. CASE Second
  <2>1. Among({"check"})' = {}
    BY <1>0, <1>2, AtSecond DEF Second, Among, vars
  <2> QED
    BY <2>1 DEF EntryAlone
<1>3. CASE UNCHANGED timedVars
  BY <1>0, <1>3 DEF timedVars, vars, EntryAlone, Returning, Awake, At, Among
<1> QED
  BY <1>1, <1>2, <1>3 DEF OrderlyNext, MainTerminates

\* No thread that holds a slot finds a match going: the slots are all held by
\* the people of the match.
LEMMA NoLateFind ==
    ASSUME CourtInv, MatchIsFull, NEW t \in Threads
    PROVE  ~FindMatchGoing(t)
<1> SUFFICES ASSUME pc[t] = "check", matchGoing PROVE FALSE
  BY DEF FindMatchGoing, At
<1>1. t \in Holding /\ t \notin Inside /\ t \notin Departing
  BY DEF Holding, Inside, Departing, Among, InsidePoints, EnteringPoints, DepartingPoints
<1>2. Departing = {} /\ Closing = {} /\ Opening = {}
  BY <1>1 DEF CourtInv, LeavingIsExclusive, ClosingIsExclusive, OpeningCounts
<1>3. Cardinality(Inside) = capacity /\ courtAvailable + Cardinality(Holding) = capacity
  BY <1>2 DEF CourtInv, SlotsBeforeBarrier, MatchIsFull
<1>4. IsFiniteSet(Holding) /\ Inside \subseteq Holding /\ Inside # Holding
  BY <1>1, InsideHolds, AmongFinite DEF Holding
<1>5. Cardinality(Inside) # Cardinality(Holding)
  BY <1>4, FS_Subset
<1> QED
  BY <1>3, <1>5, InsideHolds DEF CourtInv, TypeOK, capacity

\* A match is formed by someone who comes in, when nobody is on the way out, and
\* then nobody quits any more.
LEMMA FullStep ==
    ASSUME CourtInv, CourtInv', OrderInv, [OrderlyNext]_timedVars
    PROVE  MatchIsFull'
<1>0. /\ TypeOK /\ TypeOK' /\ EntryAlone /\ MatchIsFull /\ Waiters = {}
  BY DEF CourtInv, OrderInv, MatchIsFull
<1>1. ASSUME NEW t \in Threads, Step(t) \/ Play(t) PROVE MatchIsFull'
  <2>1. Waiters' = {}
    <3> SUFFICES ASSUME NEW u \in Threads, pc'[u] \in {"giveBack", "waitEnd"}
                 PROVE  FALSE
      BY DEF Waiters, Among
    <3>1. pc[u] \notin {"giveBack", "waitEnd"}
      BY <1>0 DEF Waiters, Among
    <3>2. u = t
      BY <1>0, <1>1, <3>1, OthersStay
    <3> QED
      BY <1>0, <1>1, <3>1, <3>2, StepMoves, NoLateFind
  <2>2. CASE Enter(t)
    <3>1. Quitting = {}
      BY <1>0, <2>2 DEF Enter, At, EntryAlone, Returning, Quitting, Among
    <3>2. Quitting' = {}
      BY <1>0, <2>2, <3>1 DEF Enter, Goto, Quitting, Among, TypeOK
    <3>3. inside' = inside + 1 /\ inside < capacity /\ UNCHANGED config
      BY <1>0, <2>2 DEF Enter, MatchIsFull
    <3>4. EnoughPlayers(inside + 1) <=> inside + 1 = capacity
      BY <1>0 DEF EnoughPlayers, capacity, TypeOK
    <3>5. CASE inside + 1 = capacity
      <4>1. matchGoing' = TRUE /\ inside' = capacity'
        BY <2>2, <3>3, <3>4, <3>5 DEF Enter, capacity, config
      <4> QED
        BY <2>1, <3>2, <4>1 DEF MatchIsFull
    <3>6. CASE inside + 1 # capacity
      <4>1. ~matchGoing' /\ capacity' = capacity
        BY <2>2, <3>3, <3>4, <3>6 DEF Enter, capacity, config
      <4>2. inside \in Nat /\ capacity \in Nat
        BY <1>0 DEF capacity, TypeOK
      <4>3. inside' < capacity'
        BY <3>3, <3>6, <4>1, <4>2
      <4> QED
        BY <2>1, <4>1, <4>3 DEF MatchIsFull
    <3> QED
      BY <3>5, <3>6
  <2>3. CASE pc[t] \in DepartingPoints
    <3>1. t \in Departing
      BY <2>3 DEF Departing, Among
    <3>2. matchGoing /\ Quitting = {}
      BY <1>0, <3>1 DEF CourtInv, LeavingIsExclusive, MatchIsFull
    <3>3. matchGoing' = matchGoing
      BY <1>0, <1>1, <2>3, StepMoves
      DEF DepartingPoints, RefereeSpeaks, AnnounceEnd, PlayerAwaits, PlayerAgrees,
          WaitMatchEnd, Exit
    <3>4. Quitting' = {}
      <4> SUFFICES ASSUME NEW u \in Threads, pc'[u] \in {"noMatch", "release"} PROVE FALSE
        BY DEF Quitting, Among
      <4>1. pc[u] \notin {"noMatch", "release"}
        BY <3>2 DEF Quitting, Among
      <4>2. u = t
        BY <1>0, <1>1, <4>1, OthersStay
      <4> QED
        BY <1>0, <1>1, <2>3, <4>2, StepMoves DEF DepartingPoints
    <3>5. Departing' # {} \/ Closing' # {}
      <4>1. CASE Exit(t)
        BY <4>1, LastOneCloses
      <4>2. CASE ~Exit(t)
        <5>1. pc'[t] \in DepartingPoints
          BY <1>0, <1>1, <2>3, <4>2, StepMoves DEF DepartingPoints
        <5> QED
          BY <5>1 DEF Departing, Among
      <4> QED
        BY <4>1, <4>2
    <3> QED
      BY <2>1, <3>2, <3>3, <3>4, <3>5 DEF MatchIsFull
  <2>4. CASE ResetMatch(t)
    <3>1. Closing # {} /\ ~matchGoing' /\ inside' = inside /\ UNCHANGED config
      BY <2>4 DEF ResetMatch, At, Closing, Among, ClosingPoints
    <3>2. inside = 0
      BY <3>1, InsideHolds, FS_EmptySet DEF CourtInv, ClosingIsExclusive
    <3> QED
      BY <1>0, <2>1, <3>1, <3>2 DEF MatchIsFull, TypeOK, capacity, config
  <2>5. CASE WaitAtBarrier(t)
    <3>1. /\ UNCHANGED <<config, inside, matchGoing>> /\ matchGoing /\ Departing = {}
          /\ Closing = {}
      BY <2>5 DEF WaitAtBarrier, At, CourtInv, GoingFrom, AtTheBarrier, Among,
         LeavingIsExclusive, ClosingIsExclusive, Holding, DepartingPoints, Departing,
         InsidePoints
    <3>2. Quitting' = {}
      BY <1>0, <2>5, <3>1 DEF MatchIsFull, Quitting, Among, WaitAtBarrier, TypeOK
    <3> QED
      BY <1>0, <2>1, <3>1, <3>2 DEF MatchIsFull, capacity, config
  <2>6. CASE QuitWithoutMatch(t) \/ ReleaseSlot(t)
    <3>1. t \in Quitting
      BY <2>6 DEF QuitWithoutMatch, ReleaseSlot, At, Quitting, Among
    <3>2. ~matchGoing /\ inside < capacity /\ UNCHANGED <<config, matchGoing>>
      BY <1>0, <2>6, <3>1 DEF MatchIsFull, QuitWithoutMatch, ReleaseSlot
    <3>3. inside' = inside \/ inside' = inside - 1
      BY <2>6 DEF QuitWithoutMatch, ReleaseSlot
    <3> QED
      BY <1>0, <2>1, <3>2, <3>3 DEF MatchIsFull, capacity, config, TypeOK
  <2>7. CASE /\ pc[t] \in {"court", "play", "leave", "notify", "open"}
    <3>1. UNCHANGED <<config, inside, matchGoing>>
      BY <1>0, <1>1, <2>7, StepMoves
      DEF TakeSlot, Play, ReadMatchGoing, LetWaitersKnow, OpenSlot
    <3>2. ASSUME matchGoing
          PROVE Quitting' = {} /\ (Departing' = {} /\ Closing' = {} => Departing = {} /\ Closing = {})
      <4>1. pc[t] \in {"court", "play", "leave"}
        BY <2>7, <3>2 DEF CourtInv, GoingUntil, OpeningCounts, Notifying, Opening, Among
      <4>2. pc'[t] \in {"check", "leave", "barrier"}
        BY <1>0, <1>1, <3>2, <4>1, StepMoves
      <4>3. \A u \in Threads : u # t => pc'[u] = pc[u]
        BY <1>0, <1>1, <4>1, OthersStay DEF WaitAtBarrier, At
      <4>4. Quitting' = {}
        BY <1>0, <3>2, <4>1, <4>2, <4>3 DEF MatchIsFull, Quitting, Among
      <4> QED
        BY <4>1, <4>2, <4>3, <4>4 DEF Departing, Closing, Among, DepartingPoints, ClosingPoints
    <3> QED
      BY <1>0, <2>1, <3>1, <3>2 DEF MatchIsFull, capacity, config
  <2> QED
    BY <1>0, <1>1, <2>2, <2>3, <2>4, <2>5, <2>6, <2>7, StepMoves, NoLateFind
    DEF DepartingPoints, Waiters, Among
<1>2. CASE UNCHANGED vars
  BY <1>0, <1>2 DEF vars, MatchIsFull, Waiters, Quitting, Departing, Closing, Among,
                    capacity
<1> QED
  BY <1>1, <1>2, OrderlyIsCourt DEF Next

\* The drivers, when returns from play() are over before the next entrant: a match
\* that is going on has all its people, and no thread comes in while one goes out.
THEOREM OrderInvariant == OrderlySpec => []OrderInv
<1>1. OrderlySpec => TimedInit /\ [][OrderlyNext]_timedVars
  BY PTL DEF OrderlySpec
<1>2. CourtInv /\ CourtInv' /\ OrderInv /\ [OrderlyNext]_timedVars => OrderInv'
  BY TypesKept, EntryStep, FullStep DEF OrderInv
<1>3. OrderlySpec => []CourtInv
  BY OrderlyInvariant, PTL
<1> QED
  BY <1>1, <1>2, <1>3, InitOrder, PTL

-----------------------------------------------------------------------------
(* The promise to the users: the phases of a match, and each step one of them *)

\* The referee has come through the barrier and has not spoken yet.
SilentReferee == hasReferee = 1 /\ RefereeAt({"after"})

\* As long as the referee is silent, everyone of the match is still there.
LEMMA SilenceKeepsAll ==
    ASSUME CourtInv, SignalInv, SilentReferee
    PROVE  /\ matchGoing
           /\ Inside = Departing /\ Cardinality(Inside) = capacity
           /\ \A t \in Departing : pc[t] \in {"after", "awaitReferee"}
<1>0. TypeOK
  BY DEF CourtInv
<1>1. refereeId \in Departing /\ refereeId \notin Awaiting
  BY DEF SilentReferee, RefereeAt, Departing, Among, DepartingPoints, Awaiting
<1>2. /\ matchGoing /\ Holding = Departing
      /\ Cardinality(Departing) <= capacity
  BY <1>1 DEF CourtInv, LeavingIsExclusive
<1>3. Inside = Departing
  BY <1>2, InsideHolds DEF Departing, Inside, Among, DepartingPoints, InsidePoints
<1>4. Cardinality(Awaiting) >= neededPlayers
  BY <1>0 DEF SignalInv, PostsMatch, PostsToCome, SilentReferee, TypeOK
<1>5. /\ IsFiniteSet(Awaiting \cup {refereeId})
      /\ Cardinality(Awaiting \cup {refereeId}) >= capacity
  <2>1. /\ IsFiniteSet(Awaiting \cup {refereeId})
        /\ Cardinality(Awaiting \cup {refereeId}) = Cardinality(Awaiting) + 1
    BY <1>1, AwaitingFinite, FS_AddElement
  <2> QED
    BY <1>0, <1>4, <2>1, AwaitingFinite DEF SilentReferee, capacity, TypeOK
<1>6. Awaiting \cup {refereeId} \subseteq Departing
  BY <1>1 DEF Awaiting, Departing, Among, DepartingPoints
<1>7. IsFiniteSet(Departing) /\ Cardinality(Departing) \in Nat
  BY AmongFinite DEF Departing
<1>8. Cardinality(Awaiting \cup {refereeId}) <= Cardinality(Departing)
  BY <1>6, <1>7, FS_Subset
<1>9. /\ Cardinality(Awaiting \cup {refereeId}) \in Nat /\ capacity \in Nat
  BY <1>0, <1>5, FS_CardinalityType DEF capacity, TypeOK
<1>10. /\ Cardinality(Awaiting \cup {refereeId}) = Cardinality(Departing)
       /\ Cardinality(Departing) = capacity
  BY <1>2, <1>5, <1>7, <1>8, <1>9
<1>11. Awaiting \cup {refereeId} = Departing
  BY <1>6, <1>7, <1>10, FS_Subset
<1>12. \A t \in Awaiting \cup {refereeId} : pc[t] \in {"after", "awaitReferee"}
  BY DEF Awaiting, SilentReferee, RefereeAt, Among
<1> QED
  BY <1>2, <1>3, <1>10, <1>11, <1>12

\* A match is over from the barrier or, with a referee, from its word on.
Over == Departing \cup Closing # {} /\ ~SilentReferee

LEMMA MatchOverWhen == CourtInv /\ SignalInv /\ matchGoing => (MatchOver <=> Over)
<1> SUFFICES ASSUME CourtInv, SignalInv, matchGoing PROVE MatchOver <=> Over
  OBVIOUS
<1>0. TypeOK
  BY DEF CourtInv
<1>1. CASE hasReferee = 0
  BY <1>1 DEF MatchOver, Over, SilentReferee
<1>2. CASE hasReferee = 1 /\ Departing \cup Closing = {}
  <2>1. refereeId \in Threads /\ pc[refereeId] \in {"play", "leave", "barrier", "blocked"}
    BY <1>2 DEF SignalInv, RefereeStays, RefereeAt, Among
  <2> QED
    BY <1>2, <2>1 DEF MatchOver, Over
<1>3. CASE hasReferee = 1 /\ Departing \cup Closing # {}
  <2>1. Departing # {} \/ Among({"reset"}) # {}
    BY <1>3 DEF CourtInv, GoingUntil, Notifying, Closing, Among, ClosingPoints
  <2>2. /\ refereeId \in Threads
        /\ pc[refereeId] \in {"after", "announce", "exit", "reset", "done"}
    BY <1>3, <2>1 DEF SignalInv, RefereeLeaves, RefereeAt, Among
  <2> QED
    BY <1>3, <2>2, NoThreadAssumption DEF MatchOver, Over, SilentReferee, RefereeAt, Among
<1> QED
  BY <1>0, <1>1, <1>2, <1>3 DEF TypeOK

LEMMA MatchOverThen == CourtInv' /\ SignalInv' /\ matchGoing' => (MatchOver' <=> Over')
BY MatchOverWhen, PTL

Phase == IF ~matchGoing THEN "gathering" ELSE IF Over THEN "leaving" ELSE "playing"

LEMMA SameCardinality == \A S : Promise!Cardinality(S) = Cardinality(S)
BY DEF Promise!Cardinality, Cardinality

\* The steps of the promise, in terms of Phase.
LEMMA PromiseMoves ==
    ASSUME CourtInv, SignalInv, CourtInv', SignalInv', UNCHANGED config
    PROVE  /\ Phase' = Phase /\ Inside' = Inside => UNCHANGED Promise!vars
           /\ \A t \in Threads :
                /\ Phase = "gathering" /\ t \notin Inside /\ Inside' = Inside \cup {t}
                /\ Phase' = IF Cardinality(Inside') = capacity THEN "playing" ELSE Phase
                => Promise!ComeIn(t)
           /\ \A t \in Threads :
                /\ Phase = "gathering" /\ t \in Inside /\ Inside' = Inside \ {t}
                /\ Phase' = Phase
                => Promise!GiveUp(t)
           /\ /\ Phase = "playing" /\ Cardinality(Inside) = capacity
              /\ Phase' = "leaving" /\ Inside' = Inside
              => Promise!EndMatch
           /\ \A t \in Threads :
                /\ Phase = "leaving" /\ t \in Inside /\ Inside' = Inside \ {t}
                /\ Phase' = Phase
                => Promise!GoHome(t)
           /\ /\ Phase = "leaving" /\ Inside = {}
              /\ Phase' = "gathering" /\ Inside' = Inside
              => Promise!Reopen
<1>1. Phase = IF ~matchGoing THEN "gathering"
              ELSE IF MatchOver THEN "leaving" ELSE "playing"
  BY MatchOverWhen DEF Phase
<1>2. Phase' = IF ~matchGoing' THEN "gathering"
               ELSE IF MatchOver' THEN "leaving" ELSE "playing"
  BY MatchOverThen DEF Phase
<1>3. capacity' = capacity
  BY DEF capacity, config
<1>4. Phase' = Phase /\ Inside' = Inside => UNCHANGED Promise!vars
  BY <1>1, <1>2, <1>3 DEF Promise!vars
<1>5. ASSUME NEW t \in Threads,
             Phase = "gathering", t \notin Inside, Inside' = Inside \cup {t},
             Phase' = IF Cardinality(Inside') = capacity THEN "playing" ELSE Phase
      PROVE  Promise!ComeIn(t)
  BY <1>1, <1>2, <1>3, <1>5, SameCardinality DEF Promise!ComeIn
<1>6. ASSUME NEW t \in Threads,
             Phase = "gathering", t \in Inside, Inside' = Inside \ {t}, Phase' = Phase
      PROVE  Promise!GiveUp(t)
  BY <1>1, <1>2, <1>3, <1>6 DEF Promise!GiveUp
<1>7. ASSUME Phase = "playing", Cardinality(Inside) = capacity,
             Phase' = "leaving", Inside' = Inside
      PROVE  Promise!EndMatch
  BY <1>1, <1>2, <1>3, <1>7, SameCardinality DEF Promise!EndMatch
<1>8. ASSUME NEW t \in Threads,
             Phase = "leaving", t \in Inside, Inside' = Inside \ {t}, Phase' = Phase
      PROVE  Promise!GoHome(t)
  BY <1>1, <1>2, <1>3, <1>8 DEF Promise!GoHome
<1>9. ASSUME Phase = "leaving", Inside = {}, Phase' = "gathering", Inside' = Inside
      PROVE  Promise!Reopen
  BY <1>1, <1>2, <1>3, <1>9 DEF Promise!Reopen
<1> QED
  BY <1>4, <1>5, <1>6, <1>7, <1>8, <1>9

\* A step among the points before the barrier, or of the last one who opens the
\* court, changes nothing of the phase.
LEMMA PhaseElsewhere ==
    ASSUME TypeOK, NEW t \in Threads, NEW q, Goto(t, q),
           pc[t] \notin DepartingPoints \cup ClosingPoints,
           q \notin DepartingPoints \cup ClosingPoints,
           UNCHANGED <<config, matchGoing, refereeId>>
    PROVE  Phase' = Phase
<1>1. /\ Departing' = Departing /\ Closing' = Closing
  BY DEF TypeOK, Goto, Departing, Closing, Among
<1>2. RefereeAt({"after"})' <=> RefereeAt({"after"})
  BY DEF TypeOK, Goto, RefereeAt, Among, DepartingPoints
<1>3. Over' <=> Over
  BY <1>1, <1>2 DEF Over, SilentReferee, config
<1> QED
  BY <1>3 DEF Phase

\* While people leave, the phase depends on nothing but whether the referee has
\* spoken.
LEMMA PhaseLeaving ==
    ASSUME CourtInv, Departing # {}, Departing' \cup Closing' # {},
           UNCHANGED <<config, matchGoing>>
    PROVE  /\ Phase = IF SilentReferee THEN "playing" ELSE "leaving"
           /\ Phase' = IF SilentReferee' THEN "playing" ELSE "leaving"
<1>1. matchGoing /\ matchGoing'
  BY DEF CourtInv, LeavingIsExclusive
<1> QED
  BY <1>1 DEF Phase, Over

\* What a step does to the people on the court and to the phase, when matches are
\* full: five kinds of steps change one of them, and the others none.
Entering(t) ==
    /\ Enter(t)
    /\ Phase = "gathering" /\ t \notin Inside /\ Inside' = Inside \cup {t}
    /\ Phase' = IF Cardinality(Inside') = capacity THEN "playing" ELSE Phase

GivingUp(t) ==
    /\ QuitWithoutMatch(t)
    /\ Phase = "gathering" /\ t \in Inside /\ Inside' = Inside \ {t} /\ Phase' = Phase

Ending(t) ==
    /\ \/ RefereeSpeaks(t)
       \/ WaitAtBarrier(t) /\ hasReferee = 0 /\ Among({"after"})' = Inside
    /\ Phase = "playing" /\ Cardinality(Inside) = capacity
    /\ Phase' = "leaving" /\ Inside' = Inside

GoingHome(t) ==
    /\ Exit(t)
    /\ Phase = "leaving" /\ t \in Inside /\ Inside' = Inside \ {t} /\ Phase' = Phase

Reopening(t) ==
    /\ ResetMatch(t)
    /\ Phase = "leaving" /\ Inside = {} /\ Phase' = "gathering" /\ Inside' = Inside

Unseen(t) ==
    /\ ~Enter(t) /\ ~QuitWithoutMatch(t) /\ ~RefereeSpeaks(t) /\ ~Exit(t) /\ ~ResetMatch(t)
    /\ Phase' = Phase /\ Inside' = Inside

LEMMA OtherSteps ==
    ASSUME NEW t \in Threads,
           \/ TakeSlot(t) \/ Play(t) \/ ReadMatchGoing(t) \/ ReleaseSlot(t)
           \/ LetWaitersKnow(t) \/ OpenSlot(t) \/ WaitAtBarrier(t)
           \/ AnnounceEnd(t) \/ PlayerAwaits(t) \/ PlayerAgrees(t) \/ WaitMatchEnd(t)
    PROVE  /\ ~Enter(t) /\ ~QuitWithoutMatch(t) /\ ~RefereeSpeaks(t) /\ ~Exit(t)
           /\ ~ResetMatch(t)
BY DEF At, TakeSlot, Play, ReadMatchGoing, ReleaseSlot, LetWaitersKnow, OpenSlot,
   WaitAtBarrier, AnnounceEnd, PlayerAwaits, PlayerAgrees, WaitMatchEnd, Enter,
   QuitWithoutMatch, RefereeSpeaks, Exit, ResetMatch

LEMMA ConfigStays == [Next]_vars => UNCHANGED config
BY DEF Next, vars, config, Step, TakeSlot, FindMatchGoing, GiveSlotBack, Enter,
   ReadMatchGoing, QuitWithoutMatch, ReleaseSlot, WaitAtBarrier, RefereeSpeaks,
   AnnounceEnd, PlayerAwaits, PlayerAgrees, WaitMatchEnd, Exit, ResetMatch,
   LetWaitersKnow, OpenSlot, Play

LEMMA PhaseStep ==
    ASSUME CourtInv, SignalInv, MatchIsFull, CourtInv', SignalInv', MatchIsFull',
           NEW t \in Threads, Step(t) \/ Play(t)
    PROVE  \/ Entering(t) \/ GivingUp(t) \/ Ending(t) \/ GoingHome(t) \/ Reopening(t)
           \/ Unseen(t)
<1>0. TypeOK /\ TypeOK' /\ Waiters = {}
  BY DEF CourtInv, MatchIsFull
<1>1. UNCHANGED config
  BY ConfigStays DEF Next
<1>2. CASE \/ TakeSlot(t) \/ Play(t) \/ ReadMatchGoing(t) \/ ReleaseSlot(t)
           \/ LetWaitersKnow(t) \/ OpenSlot(t)
  <2>1. PICK q \in Points : Goto(t, q)
    BY <1>2 DEF TakeSlot, Play, ReadMatchGoing, ReleaseSlot, LetWaitersKnow,
                OpenSlot, Points
  <2>2. Inside' = Inside
    <3>1. pc'[t] = q
      BY <1>0, <2>1 DEF Goto, TypeOK
    <3>2. pc[t] \in InsidePoints <=> q \in InsidePoints
      BY <1>0, <1>2, <3>1
      DEF TakeSlot, Play, ReadMatchGoing, ReleaseSlot, LetWaitersKnow, OpenSlot, At,
          Goto, TypeOK, InsidePoints
    <3> QED
      BY <1>0, <2>1, <3>2 DEF TypeOK, Goto, Inside, Among
  <2>3. CASE ~LetWaitersKnow(t)
    <3>1. UNCHANGED <<matchGoing, refereeId>>
      BY <1>2 DEF TakeSlot, Play, ReadMatchGoing, ReleaseSlot, LetWaitersKnow, OpenSlot
    <3>2. /\ pc[t] \notin DepartingPoints \cup ClosingPoints
          /\ q \notin DepartingPoints \cup ClosingPoints
      BY <1>0, <1>2, <2>1, <2>3
      DEF TakeSlot, Play, ReadMatchGoing, ReleaseSlot, OpenSlot, At, Goto, TypeOK,
          DepartingPoints, ClosingPoints
    <3> QED
      BY <1>0, <1>1, <1>2, OtherSteps, <2>1, <2>2, <3>1, <3>2, PhaseElsewhere DEF Unseen
  <2>4. CASE LetWaitersKnow(t)
    <3>1. ~matchGoing /\ matchGoing' = matchGoing
      BY <2>4 DEF LetWaitersKnow, At, CourtInv, GoingUntil, Notifying, Among
    <3> QED
      BY <1>2, OtherSteps, <1>1, <2>2, <3>1 DEF Phase, Unseen
  <2> QED
    BY <2>3, <2>4
<1>3. CASE Enter(t)
  <2>1. /\ Phase = "gathering" /\ t \notin Inside /\ Inside' = Inside \cup {t}
    BY <1>0, <1>3 DEF Enter, At, Goto, TypeOK, Inside, Among, InsidePoints, Phase
  <2>2. Phase' = IF Cardinality(Inside') = capacity THEN "playing" ELSE Phase
    <3>1. /\ capacity \in Nat /\ capacity' = capacity
          /\ inside' = Cardinality(Inside') /\ inside' = inside + 1
      BY <1>0, <1>1, <1>3 DEF capacity, config, TypeOK, CourtInv, Enter
    <3>2. CASE ~matchGoing'
      BY <1>0, <3>1, <3>2, <2>1 DEF MatchIsFull, Phase, TypeOK
    <3>3. CASE matchGoing'
      <4>1. inside + 1 = capacity
        <5>1. EnoughPlayers(inside + 1)
          BY <1>3, <3>3 DEF Enter
        <5> QED
          BY <1>0, <5>1 DEF EnoughPlayers, capacity, TypeOK
      <4>2. Departing' = {} /\ Closing' = {}
        <5>1. t \in Holding /\ t \notin Departing
          BY <1>3 DEF Enter, At, Holding, Departing, Among, EnteringPoints,
                      DepartingPoints
        <5>2. Departing = {} /\ Closing = {}
          BY <5>1 DEF CourtInv, LeavingIsExclusive, ClosingIsExclusive
        <5> QED
          BY <1>0, <1>3, <5>2
          DEF Enter, At, Goto, TypeOK, Departing, Closing, Among, DepartingPoints,
              ClosingPoints
      <4> QED
        BY <3>1, <3>3, <4>1, <4>2 DEF Phase, Over
    <3> QED
      BY <3>2, <3>3
  <2> QED
    BY <1>3, <2>1, <2>2 DEF Entering
<1>4. CASE QuitWithoutMatch(t)
  <2>1. t \in Inside /\ Inside' = Inside \ {t}
    BY <1>0, <1>4
    DEF QuitWithoutMatch, At, Goto, TypeOK, Inside, Among, InsidePoints
  <2>2. t \in Quitting /\ matchGoing' = matchGoing
    BY <1>4 DEF QuitWithoutMatch, At, Quitting, Among
  <2>3. Phase = "gathering" /\ Phase' = Phase
    BY <2>2 DEF MatchIsFull, Phase
  <2> QED
    BY <1>4, <2>1, <2>3 DEF GivingUp
<1>5. CASE Exit(t)
  <2>1. t \in Departing /\ pc[t] = "exit" /\ UNCHANGED <<matchGoing, refereeId>>
    BY <1>5 DEF Exit, At, Departing, Among, DepartingPoints
  <2>2. t \in Inside /\ Inside' = Inside \ {t}
    BY <1>0, <1>5 DEF Exit, At, Goto, TypeOK, Inside, Among, InsidePoints
  <2>3. ~SilentReferee
    BY <2>1, SilenceKeepsAll
  <2>4. ~SilentReferee'
    BY <1>0, <1>1, <1>5, <2>1, <2>3
    DEF SilentReferee, RefereeAt, Among, Exit, Goto, TypeOK, config
  <2>5. Phase = "leaving" /\ Phase' = Phase
    BY <1>1, <1>5, <2>1, <2>3, <2>4, LastOneCloses, PhaseLeaving
  <2> QED
    BY <1>5, <2>2, <2>5 DEF GoingHome
<1>6. CASE ResetMatch(t)
  <2>1. /\ t \in Closing /\ ~matchGoing' /\ matchGoing
    BY <1>6 DEF ResetMatch, At, Closing, Among, ClosingPoints, CourtInv, GoingFrom
  <2>2. Inside = {} /\ Departing = {} /\ Inside' = Inside
    <3>1. Holding = {}
      BY <2>1 DEF CourtInv, ClosingIsExclusive
    <3>2. Inside = {} /\ Departing = {}
      BY <3>1 DEF Holding, Inside, Departing, Among, InsidePoints, DepartingPoints
    <3> QED
      BY <1>0, <1>6, <3>2 DEF ResetMatch, At, Goto, TypeOK, Inside, Among, InsidePoints
  <2>3. ~SilentReferee
    BY <2>2 DEF SilentReferee, RefereeAt, Departing, Among, DepartingPoints
  <2>4. Phase = "leaving" /\ Phase' = "gathering"
    BY <2>1, <2>3 DEF Phase, Over
  <2> QED
    BY <1>6, <2>2, <2>4 DEF Reopening
<1>7. CASE RefereeSpeaks(t)
  <2>1. /\ hasReferee = 1 /\ refereeId = t /\ pc[t] = "after" /\ pc'[t] = "announce"
        /\ UNCHANGED <<matchGoing, refereeId>>
    BY <1>0, <1>7 DEF RefereeSpeaks, At, Goto, TypeOK
  <2>2. SilentReferee /\ ~SilentReferee'
    BY <2>1 DEF SilentReferee, RefereeAt, Among
  <2>3. Departing # {} /\ Departing' # {}
    BY <2>1 DEF Departing, Among, DepartingPoints
  <2>4. Phase = "playing" /\ Phase' = "leaving"
    BY <1>1, <2>1, <2>2, <2>3, PhaseLeaving
  <2>5. Cardinality(Inside) = capacity /\ Inside' = Inside
    BY <1>0, <1>7, <2>2, SilenceKeepsAll
    DEF RefereeSpeaks, At, Goto, TypeOK, Inside, Among, InsidePoints
  <2> QED
    BY <1>7, <2>4, <2>5 DEF Ending
<1>8. CASE AnnounceEnd(t) \/ PlayerAwaits(t) \/ PlayerAgrees(t)
           \/ (WaitMatchEnd(t) /\ pc[t] = "awaitReferee")
  <2>1. PICK q \in DepartingPoints :
            Goto(t, q) /\ pc[t] \in DepartingPoints /\ UNCHANGED <<matchGoing, refereeId>>
    BY <1>8
    DEF AnnounceEnd, PlayerAwaits, PlayerAgrees, WaitMatchEnd, At, DepartingPoints
  <2>2. Inside' = Inside
    BY <1>0, <2>1 DEF Goto, TypeOK, Inside, Among, InsidePoints, DepartingPoints
  <2>3. Departing # {} /\ Departing' # {}
    BY <1>0, <2>1 DEF Goto, TypeOK, Departing, Among
  <2>4. SilentReferee' <=> SilentReferee
    <3>1. \/ hasReferee = 0 \/ refereeId # t
          \/ pc[t] # "after" /\ pc'[t] # "after"
      BY <1>0, <1>8
      DEF AnnounceEnd, PlayerAwaits, PlayerAgrees, WaitMatchEnd, At, Goto, TypeOK
    <3>2. \A u \in Threads : u # t => pc'[u] = pc[u]
      BY <1>0, <2>1 DEF Goto, TypeOK
    <3> QED
      BY <1>1, <2>1, <3>1, <3>2 DEF SilentReferee, RefereeAt, Among, config
  <2>5. Phase' = Phase
    BY <1>1, <2>1, <2>3, <2>4, PhaseLeaving
  <2> QED
    BY <1>8, OtherSteps, <1>1, <2>2, <2>5 DEF Unseen
<1>9. CASE WaitAtBarrier(t)
  <2>1. pc[t] = "barrier" /\ UNCHANGED <<matchGoing, refereeId>>
    BY <1>9 DEF WaitAtBarrier, At
  <2>2. Inside' = Inside
    BY <1>0, <1>9, <2>1 DEF WaitAtBarrier, AtBarrier, At, TypeOK, Inside, Among, InsidePoints
  <2>3. CASE Cardinality(AtBarrier) + 1 # capacity
    <3>1. Goto(t, "blocked")
      BY <1>9, <2>3 DEF WaitAtBarrier, Goto
    <3>2. Phase' = Phase
      BY <1>0, <1>1, <2>1, <3>1, PhaseElsewhere DEF DepartingPoints, ClosingPoints
    <3> QED
      BY <1>9, OtherSteps, <1>1, <2>2, <3>2 DEF Unseen
  <2>4. CASE Cardinality(AtBarrier) + 1 = capacity
    <3>1. /\ matchGoing /\ Departing = {} /\ Closing = {}
          /\ Cardinality(Holding) = capacity
          /\ pc' = [u \in Threads |-> IF u \in Holding THEN "after" ELSE pc[u]]
      BY <1>9, <2>4, WholeTeam
    <3>2. Phase = "playing" /\ Departing' # {} /\ matchGoing'
      <4>1. t \in Holding
        BY <2>1 DEF Holding, Among, InsidePoints
      <4> QED
        BY <2>1, <3>1, <4>1 DEF Phase, Over, Departing, Among, DepartingPoints
    <3>3. CASE hasReferee = 1
      <4>1. RefereeAt({"play", "leave", "barrier", "blocked"})
        BY <3>1, <3>3 DEF SignalInv, RefereeStays
      <4>2. refereeId \in Holding
        BY <4>1 DEF RefereeAt, Holding, Among, InsidePoints
      <4>3. SilentReferee'
        BY <1>1, <2>1, <3>1, <3>3, <4>2
        DEF SilentReferee, RefereeAt, Among, Holding, config
      <4>4. Phase' = Phase
        BY <3>2, <4>3 DEF Phase, Over
      <4> QED
        BY <1>9, OtherSteps, <1>1, <2>2, <4>4 DEF Unseen
    <3>4. CASE hasReferee = 0
      <4>1. Phase' = "leaving"
        BY <1>1, <3>2, <3>4 DEF Phase, Over, SilentReferee, config
      <4>2. Cardinality(Inside) = capacity
        BY <3>1 DEF MatchIsFull, CourtInv
      <4>3. Among({"after"})' = Inside
        <5>1. Holding = AtBarrier \cup {t}
          BY <1>9, <2>4, WholeTeam
        <5>2. Inside = Holding
          BY <2>1, <5>1, InsideHolds DEF AtBarrier, At, Inside, Among, InsidePoints
        <5>3. \A u \in Threads : pc'[u] = "after" <=> u \in Holding
          BY <3>1 DEF Departing, Among, DepartingPoints
        <5> QED
          BY <5>2, <5>3 DEF Among, Holding
      <4> QED
        BY <1>9, <2>2, <3>2, <3>4, <4>1, <4>2, <4>3 DEF Ending
    <3> QED
      BY <1>0, <3>3, <3>4 DEF TypeOK
  <2> QED
    BY <2>3, <2>4
<1> QED
  BY <1>0, <1>2, <1>3, <1>4, <1>5, <1>6, <1>7, <1>8, <1>9, StepMoves, NoLateFind
  DEF Waiters, Among

\* Each step of a court whose matches are full is one of the promise or none.
LEMMA PromiseStep ==
    ASSUME CourtInv, SignalInv, MatchIsFull, CourtInv', SignalInv', MatchIsFull',
           [Next]_vars
    PROVE  [Promise!Next]_(Promise!vars)
<1>1. UNCHANGED config
  BY ConfigStays
<1>2. CASE UNCHANGED vars
  <2>1. Inside' = Inside /\ Phase' = Phase
    BY <1>2 DEF vars, Inside, Phase, Over, SilentReferee, RefereeAt, Departing,
                Closing, Among
  <2> QED
    BY <1>1, <2>1, PromiseMoves
<1>3. ASSUME NEW t \in Threads, Step(t) \/ Play(t)
      PROVE  [Promise!Next]_(Promise!vars)
  <2>1. CASE Entering(t)
    BY <1>1, <2>1, PromiseMoves DEF Entering, Promise!Next
  <2>2. CASE GivingUp(t)
    BY <1>1, <2>2, PromiseMoves DEF GivingUp, Promise!Next
  <2>3. CASE Ending(t)
    BY <1>1, <2>3, PromiseMoves DEF Ending, Promise!Next
  <2>4. CASE GoingHome(t)
    BY <1>1, <2>4, PromiseMoves DEF GoingHome, Promise!Next
  <2>5. CASE Reopening(t)
    BY <1>1, <2>5, PromiseMoves DEF Reopening, Promise!Next
  <2>6. CASE Unseen(t)
    BY <1>1, <2>6, PromiseMoves DEF Unseen
  <2> QED
    BY <1>3, <2>1, <2>2, <2>3, <2>4, <2>5, <2>6, PhaseStep
<1> QED
  BY <1>2, <1>3 DEF Next

\* With returns from play() that are over before the next entrant, Court
\* implements what CourtPromise says may happen: nobody gives up during a match,
\* nobody comes in before the last one has left, and nobody leaves before the
\* match is over for everyone.
THEOREM KeepsItsPromise == OrderlySpec => Promise!Safety
<1>1. OrderlySpec => TimedInit /\ [][OrderlyNext]_timedVars
  BY PTL DEF OrderlySpec
<1>2. TimedInit => Promise!Init
  <2> SUFFICES ASSUME TimedInit PROVE Promise!Init
    OBVIOUS
  <2>1. Init /\ CourtInv
    BY InitInv DEF TimedInit
  <2>2. capacity \in Nat \ {0}
    BY <2>1 DEF CourtInv, TypeOK, capacity
  <2>3. ~matchGoing
    BY <2>1 DEF Init, Construct
  <2>4. Inside = {}
    BY <2>1 DEF Init, Inside, Among, InsidePoints
  <2> QED
    BY <2>2, <2>3, <2>4 DEF Promise!Init
<1>3. /\ CourtInv /\ SignalInv /\ OrderInv
      /\ CourtInv' /\ SignalInv' /\ OrderInv'
      /\ [OrderlyNext]_timedVars
      => [Promise!Next]_(Promise!vars)
  BY OrderlyIsCourt, PromiseStep DEF OrderInv
<1> QED
  BY <1>1, <1>2, <1>3, OrderlyInvariant, OrderInvariant, PTL DEF Promise!Safety

-----------------------------------------------------------------------------
(* The lines the court prints (FullOutput).  The counts of the lines of each *)
(* kind follow the phase of the match; at the end of the program nobody is   *)
(* left and the counts are what the assignment asks for.                     *)

\* The threads that have left the court for good.
Gone == Among({"release", "reset", "notify", "open", "done"})

\* Every match but the one being played has had its referee's line, if there
\* is a referee.
RefereeLines ==
    IF hasReferee = 1
      THEN console["started"] =
               console["refereeLeft"] + IF Phase = "playing" THEN 1 ELSE 0
      ELSE console["refereeLeft"] = 0

\* Without a referee the players' lines come as they pass the barrier.
PlayerLines ==
    hasReferee = 0 =>
        neededPlayers * console["started"] =
            console["playerLeft"] + IF Phase = "playing" THEN neededPlayers
                                    ELSE Cardinality(Among({"after"}))

\* Everyone who has left has printed "no match" or belongs to a match.
PeopleCounted ==
    Cardinality(Gone) + (IF matchGoing THEN inside ELSE 0) =
        console["noMatch"] + capacity * console["started"]

\* When all come at once and play for the same time, nobody quits while there is
\* someone still to come.
ComeAtOnce ==
    driver = "court_test" =>
        /\ \A t \in Threads : asleep[t] > 0 => pc[t] = "play"
        /\ matchGoing => console["noMatch"] = 0
        /\ ~matchGoing => console["noMatch"] + inside < capacity
        /\ ~matchGoing /\ (console["noMatch"] > 0 \/ \E u \in Threads : Returning(u))
             => Among({"court", "check"}) = {}

OutputInv == RefereeLines /\ PlayerLines /\ PeopleCounted /\ ComeAtOnce

-----------------------------------------------------------------------------
(* Which steps print which line.                                            *)

LEMMA SaidBy ==
    ASSUME TypeOK, NEW t \in Threads, Step(t) \/ Play(t)
    PROVE  /\ ~Enter(t) => console'["started"] = console["started"]
           /\ ~RefereeSpeaks(t) => console'["refereeLeft"] = console["refereeLeft"]
           /\ ~QuitWithoutMatch(t) => console'["noMatch"] = console["noMatch"]
           /\ ~PlayerAgrees(t) /\ ~WaitMatchEnd(t)
                => console'["playerLeft"] = console["playerLeft"]
<1> USE DEF TypeOK, Lines, Say
<1>1. CASE \/ TakeSlot(t) \/ FindMatchGoing(t) \/ GiveSlotBack(t) \/ ReadMatchGoing(t)
           \/ ReleaseSlot(t) \/ WaitAtBarrier(t) \/ AnnounceEnd(t) \/ PlayerAwaits(t)
           \/ Exit(t) \/ ResetMatch(t) \/ OpenSlot(t) \/ Play(t)
  BY <1>1
  DEF TakeSlot, FindMatchGoing, GiveSlotBack, ReadMatchGoing, ReleaseSlot, WaitAtBarrier,
      AnnounceEnd, PlayerAwaits, Exit, ResetMatch, OpenSlot, Play
<1>2. CASE Enter(t) BY <1>2 DEF Enter
<1>3. CASE QuitWithoutMatch(t) BY <1>3 DEF QuitWithoutMatch
<1>4. CASE RefereeSpeaks(t) BY <1>4 DEF RefereeSpeaks
<1>5. CASE PlayerAgrees(t) BY <1>5 DEF PlayerAgrees
<1>6. CASE WaitMatchEnd(t) BY <1>6 DEF WaitMatchEnd
<1>7. CASE LetWaitersKnow(t) BY <1>7 DEF LetWaitersKnow
<1> QED
  BY <1>1, <1>2, <1>3, <1>4, <1>5, <1>6, <1>7 DEF Step

\* The entrant that completes the team starts the match.
LEMMA EntryLines ==
    ASSUME TypeOK, NEW t \in Threads, Entering(t)
    PROVE  \/ /\ Phase' = "playing" /\ matchGoing' /\ inside + 1 = capacity
              /\ console'["started"] = console["started"] + 1
           \/ /\ Phase' = "gathering" /\ ~matchGoing'
              /\ console'["started"] = console["started"]
<1>1. Enter(t) /\ ~matchGoing
  BY DEF Entering, Enter
<1>2. CASE EnoughPlayers(inside + 1)
  <2>1. matchGoing' /\ console'["started"] = console["started"] + 1
    BY <1>1, <1>2 DEF Enter, Say, TypeOK, Lines
  <2>2. inside + 1 = capacity
    BY <1>2 DEF EnoughPlayers, capacity, TypeOK
  <2> QED
    BY <2>1, <2>2 DEF Entering, Phase
<1>3. CASE ~EnoughPlayers(inside + 1)
  <2>1. ~matchGoing' /\ console' = console
    BY <1>1, <1>3 DEF Enter
  <2> QED
    BY <2>1 DEF Entering, Phase
<1> QED
  BY <1>2, <1>3

LEMMA InitOutput == TimedInit => OutputInv
<1> SUFFICES ASSUME TimedInit PROVE OutputInv
  OBVIOUS
<1>0. Init /\ CourtInv /\ OrderInv /\ ~matchGoing
  BY InitInv, InitOrder DEF TimedInit, Init, Construct
<1>1. \A t \in Threads : pc[t] = "court"
  BY <1>0 DEF Init
<1>2. \A line \in Lines : console[line] = 0
  BY <1>0 DEF Init
<1>3. Gone = {} /\ Inside = {} /\ Among({"after"}) = {}
  BY <1>1 DEF Gone, Inside, Among, InsidePoints
<1>4. /\ Cardinality(Gone) = 0 /\ Cardinality(Among({"after"})) = 0 /\ inside = 0
  BY <1>0, <1>3, FS_EmptySet DEF CourtInv
<1>5. /\ neededPlayers \in Nat \ {0} /\ capacity \in Nat \ {0} /\ Phase = "gathering"
  BY <1>0 DEF CourtInv, TypeOK, capacity, Phase
<1>6. RefereeLines /\ PlayerLines /\ PeopleCounted
  BY <1>0, <1>2, <1>4, <1>5 DEF RefereeLines, PlayerLines, PeopleCounted, Lines
<1>7. ComeAtOnce
  <2> SUFFICES ASSUME driver = "court_test" PROVE ComeAtOnce
    BY DEF ComeAtOnce
  <2>1. \A t \in Threads : asleep[t] = 0 /\ ~Returning(t)
    BY <1>1 DEF TimedInit, Delay, Returning, At
  <2> QED
    BY <1>0, <1>2, <1>4, <1>5, <2>1 DEF ComeAtOnce, Lines
<1> QED
  BY <1>6, <1>7 DEF OutputInv

-----------------------------------------------------------------------------
(* Each count follows its phase.                                            *)

LEMMA RefereeLinesStep ==
    ASSUME CourtInv, SignalInv, MatchIsFull, CourtInv', SignalInv', MatchIsFull',
           RefereeLines, NEW t \in Threads, Step(t) \/ Play(t)
    PROVE  RefereeLines'
<1>0. TypeOK /\ hasReferee' = hasReferee
  BY ConfigStays DEF CourtInv, Next, config
<1>1. console["started"] \in Nat /\ console["refereeLeft"] \in Nat
  BY <1>0 DEF TypeOK, Lines
<1>2. CASE Entering(t)
  <2>1. ~RefereeSpeaks(t) /\ Phase = "gathering"
    BY <1>2 DEF Entering, Enter, RefereeSpeaks, At
  <2> QED
    BY <1>0, <1>1, <1>2, <2>1, SaidBy, EntryLines DEF RefereeLines
<1>3. CASE Ending(t) /\ RefereeSpeaks(t)
  <2>1. console'["refereeLeft"] = console["refereeLeft"] + 1
    BY <1>0, <1>3 DEF RefereeSpeaks, Say, TypeOK, Lines
  <2>2. ~Enter(t) /\ hasReferee = 1
    BY <1>3 DEF Enter, RefereeSpeaks, At
  <2>3. Phase = "playing" /\ Phase' = "leaving"
    BY <1>3 DEF Ending
  <2> QED
    BY <1>0, <1>1, <2>1, <2>2, <2>3, SaidBy DEF RefereeLines
<1>4. CASE Ending(t) /\ ~RefereeSpeaks(t)
  BY <1>0, <1>4, SaidBy DEF Ending, RefereeLines, Enter, WaitAtBarrier, At
<1>5. CASE GivingUp(t) \/ GoingHome(t) \/ Reopening(t) \/ Unseen(t)
  <2>1. ~Enter(t) /\ ~RefereeSpeaks(t)
    BY <1>5 DEF GivingUp, GoingHome, Reopening, Unseen, QuitWithoutMatch, Exit,
                ResetMatch, Enter, RefereeSpeaks, At
  <2>2. Phase' = "playing" <=> Phase = "playing"
    BY <1>5 DEF GivingUp, GoingHome, Reopening, Unseen
  <2> QED
    BY <1>0, <2>1, <2>2, SaidBy DEF RefereeLines
<1> QED
  BY <1>2, <1>3, <1>4, <1>5, PhaseStep

LEMMA AfterStays ==
    ASSUME TypeOK, NEW t \in Threads, NEW q, Goto(t, q), pc[t] # "after", q # "after"
    PROVE  Among({"after"})' = Among({"after"})
BY DEF TypeOK, Goto, Among

LEMMA PlayerLinesStep ==
    ASSUME CourtInv, SignalInv, MatchIsFull, CourtInv', SignalInv', MatchIsFull',
           PlayerLines, NEW t \in Threads, Step(t) \/ Play(t)
    PROVE  PlayerLines'
<1> SUFFICES ASSUME hasReferee' = 0
             PROVE  (neededPlayers * console["started"] =
                       console["playerLeft"] + IF Phase = "playing" THEN neededPlayers
                                               ELSE Cardinality(Among({"after"})))'
  BY DEF PlayerLines
<1> DEFINE after == Cardinality(Among({"after"}))
<1>0. /\ TypeOK /\ TypeOK' /\ hasReferee = 0 /\ neededPlayers' = neededPlayers
      /\ ~RefereeSpeaks(t) /\ ~WaitMatchEnd(t)
  <2>1. TypeOK /\ hasReferee = 0 /\ neededPlayers' = neededPlayers
    BY ConfigStays DEF CourtInv, Next, config
  <2>2. matchEnd = 0
    BY <2>1 DEF SignalInv, NoRefereeNoSignal
  <2> QED
    BY <2>1, <2>2 DEF RefereeSpeaks, WaitMatchEnd, CourtInv
<1>1. /\ neededPlayers \in Nat /\ console["started"] \in Nat /\ console["playerLeft"] \in Nat
      /\ after \in Nat
  BY <1>0, AmongFinite DEF TypeOK, Lines
<1>2. neededPlayers * console["started"] =
          console["playerLeft"] + IF Phase = "playing" THEN neededPlayers ELSE after
  BY <1>0 DEF PlayerLines
<1>3. CASE Entering(t)
  <2>1. Enter(t) /\ Phase = "gathering" /\ Goto(t, "play") /\ pc[t] = "check"
    BY <1>3 DEF Entering, Enter, At
  <2>2. Among({"after"}) = {} /\ Among({"after"})' = Among({"after"})
    <3>1. Departing = {}
      BY <2>1 DEF Enter, CourtInv, LeavingIsExclusive
    <3> QED
      BY <1>0, <2>1, <3>1, AfterStays DEF Departing, Among, DepartingPoints
  <2>3. after = 0 /\ after' = 0
    BY <2>2, FS_EmptySet
  <2>4. console'["playerLeft"] = console["playerLeft"]
    BY <1>0, <2>1, SaidBy DEF PlayerAgrees, At
  <2>5. neededPlayers * (console["started"] + 1) =
            neededPlayers * console["started"] + neededPlayers
    BY <1>1
  <2> QED
    BY <1>0, <1>1, <1>2, <1>3, <2>1, <2>3, <2>4, <2>5, EntryLines
<1>4. CASE Ending(t)
  <2>1. /\ WaitAtBarrier(t) /\ Among({"after"})' = Inside
        /\ Cardinality(Inside) = capacity /\ Phase = "playing" /\ Phase' = "leaving"
    BY <1>0, <1>4 DEF Ending
  <2>2. console' = console
    BY <2>1 DEF WaitAtBarrier
  <2>3. capacity = neededPlayers
    BY <1>0 DEF capacity, TypeOK
  <2> QED
    BY <1>0, <1>2, <2>1, <2>2, <2>3
<1>5. CASE GivingUp(t) \/ GoingHome(t) \/ Reopening(t)
  <2>1. PICK q \in Points \ {"after"} : Goto(t, q) /\ pc[t] # "after"
    BY <1>5 DEF GivingUp, GoingHome, Reopening, QuitWithoutMatch, Exit, ResetMatch, At,
                Points
  <2>2. after' = after
    BY <1>0, <2>1, AfterStays
  <2>3. Phase # "playing" /\ Phase' # "playing"
    BY <1>5 DEF GivingUp, GoingHome, Reopening
  <2>4. ~Enter(t) /\ ~PlayerAgrees(t)
    BY <1>5 DEF GivingUp, GoingHome, Reopening, QuitWithoutMatch, Exit, ResetMatch, At,
                Enter, PlayerAgrees
  <2> QED
    BY <1>0, <1>2, <2>2, <2>3, <2>4, SaidBy
<1>6. CASE Unseen(t) /\ PlayerAgrees(t)
  <2>1. /\ pc[t] = "after" /\ Goto(t, "exit")
        /\ console'["playerLeft"] = console["playerLeft"] + 1
        /\ console'["started"] = console["started"]
    BY <1>0, <1>6 DEF PlayerAgrees, Say, At, TypeOK, Lines
  <2>2. t \in Among({"after"}) /\ Among({"after"})' = Among({"after"}) \ {t}
    BY <1>0, <2>1 DEF Goto, TypeOK, Among
  <2>3. after' = after - 1
    BY <2>2, AmongFinite, FS_RemoveElement
  <2>4. Phase = "leaving" /\ Phase' = Phase
    <3>1. Departing # {}
      BY <2>1 DEF Departing, Among, DepartingPoints
    <3>2. matchGoing
      BY <3>1 DEF CourtInv, LeavingIsExclusive
    <3> QED
      BY <1>0, <1>6, <3>1, <3>2 DEF Unseen, Phase, Over, SilentReferee
  <2> QED
    BY <1>0, <1>1, <1>2, <2>1, <2>3, <2>4
<1>7. CASE Unseen(t) /\ WaitAtBarrier(t)
  <2>1. console' = console /\ pc[t] = "barrier" /\ Phase' = Phase
    BY <1>7 DEF WaitAtBarrier, At, Unseen
  <2>2. CASE Cardinality(AtBarrier) + 1 = capacity
    <3>1. Phase = "playing"
      BY <1>7, <2>2, WholeTeam DEF Phase, Over
    <3> QED
      BY <1>0, <1>2, <2>1, <3>1
  <2>3. CASE Cardinality(AtBarrier) + 1 # capacity
    <3>1. Goto(t, "blocked")
      BY <1>7, <2>3 DEF WaitAtBarrier, Goto
    <3>2. after' = after
      BY <1>0, <2>1, <3>1, AfterStays
    <3> QED
      BY <1>0, <1>2, <2>1, <3>2
  <2> QED
    BY <2>2, <2>3
<1>8. CASE Unseen(t) /\ ~PlayerAgrees(t) /\ ~WaitAtBarrier(t)
  <2>1. pc[t] # "after" /\ pc'[t] # "after"
    BY <1>0, <1>8, StepMoves DEF Unseen, PlayerAwaits
  <2>2. after' = after
    <3>1. \A u \in Threads : u # t => pc'[u] = pc[u]
      BY <1>0, <1>8, OthersStay
    <3> QED
      BY <2>1, <3>1 DEF Among
  <2> QED
    BY <1>0, <1>2, <1>8, <2>2, SaidBy DEF Unseen
<1> QED
  BY <1>3, <1>4, <1>5, <1>6, <1>7, <1>8, PhaseStep

GonePoints == {"release", "reset", "notify", "open", "done"}

\* One more has gone, or nobody.
LEMMA GoneMoves ==
    ASSUME TypeOK, NEW t \in Threads, NEW q, Goto(t, q)
    PROVE  /\ (pc[t] \in GonePoints <=> q \in GonePoints)
                => Cardinality(Gone') = Cardinality(Gone)
           /\ pc[t] \notin GonePoints /\ q \in GonePoints
                => Cardinality(Gone') = Cardinality(Gone) + 1
<1>1. CASE pc[t] \in GonePoints <=> q \in GonePoints
  <2>1. Gone' = Gone
    BY <1>1 DEF TypeOK, Goto, Gone, GonePoints, Among
  <2> QED
    BY <1>1, <2>1
<1>2. CASE pc[t] \notin GonePoints /\ q \in GonePoints
  <2>1. t \notin Gone /\ Gone' = Gone \cup {t}
    BY <1>2 DEF TypeOK, Goto, Gone, GonePoints, Among
  <2>2. IsFiniteSet(Gone)
    BY AmongFinite DEF Gone
  <2> QED
    BY <1>2, <2>1, <2>2, FS_AddElement
<1> QED
  BY <1>1, <1>2

LEMMA PeopleStep ==
    ASSUME CourtInv, SignalInv, MatchIsFull, CourtInv', SignalInv', MatchIsFull',
           PeopleCounted, NEW t \in Threads, Step(t) \/ Play(t)
    PROVE  PeopleCounted'
<1> DEFINE s == console["started"]
           n == console["noMatch"]
           g == Cardinality(Gone)
<1>0. TypeOK /\ TypeOK' /\ capacity' = capacity
  BY ConfigStays DEF CourtInv, Next, config, capacity
<1>1. /\ s \in Nat /\ n \in Nat /\ g \in Nat /\ inside \in Nat /\ capacity \in Nat
      /\ capacity * s \in Nat /\ capacity * (s + 1) = capacity * s + capacity
  <2>1. /\ s \in Nat /\ n \in Nat /\ g \in Nat /\ inside \in Nat /\ capacity \in Nat
    BY <1>0, AmongFinite DEF TypeOK, Lines, Gone, capacity
  <2> QED
    BY <2>1
<1>2. g + (IF matchGoing THEN inside ELSE 0) = n + capacity * s
  BY DEF PeopleCounted
<1> HIDE DEF s, n, g
<1>3. SUFFICES g' + (IF matchGoing' THEN inside' ELSE 0) = n' + capacity * s'
  BY <1>0 DEF PeopleCounted, s, n, g
<1>4. CASE Entering(t)
  <2>1. /\ Enter(t) /\ ~matchGoing /\ inside' = inside + 1
        /\ Goto(t, "play") /\ pc[t] = "check"
    BY <1>4 DEF Entering, Enter, At
  <2>2. g' = g
    BY <1>0, <2>1, GoneMoves DEF GonePoints, g
  <2>3. n' = n
    BY <1>0, <2>1, SaidBy DEF QuitWithoutMatch, At, n
  <2>4. \/ matchGoing' /\ inside + 1 = capacity /\ s' = s + 1
        \/ ~matchGoing' /\ s' = s
    BY <1>0, <1>4, EntryLines DEF s
  <2> QED
    BY <1>1, <1>2, <2>1, <2>2, <2>3, <2>4
<1>5. CASE GivingUp(t)
  <2>1. /\ QuitWithoutMatch(t) /\ matchGoing' = matchGoing
        /\ Goto(t, "release") /\ pc[t] = "noMatch"
    BY <1>5 DEF GivingUp, QuitWithoutMatch, At
  <2>2. ~matchGoing
    BY <2>1 DEF MatchIsFull, Quitting, Among
  <2>3. g' = g + 1
    BY <1>0, <2>1, GoneMoves DEF GonePoints, g
  <2>4. n' = n + 1 /\ s' = s
    BY <1>0, <2>1 DEF QuitWithoutMatch, Say, TypeOK, Lines, n, s
  <2> QED
    BY <1>1, <1>2, <2>1, <2>2, <2>3, <2>4
<1>6. CASE GoingHome(t)
  <2>1. /\ Exit(t) /\ matchGoing' = matchGoing /\ inside' = inside - 1
        /\ console' = console /\ pc[t] = "exit"
    BY <1>6 DEF GoingHome, Exit, At
  <2>2. matchGoing
    BY <1>6 DEF GoingHome, Phase
  <2>3. PICK q \in GonePoints : Goto(t, q)
    BY <2>1 DEF Exit, GonePoints
  <2>4. g' = g + 1
    BY <1>0, <2>1, <2>3, GoneMoves DEF GonePoints, g
  <2> QED
    BY <1>0, <1>1, <1>2, <2>1, <2>2, <2>4 DEF TypeOK, n, s
<1>7. CASE Reopening(t)
  <2>1. /\ ResetMatch(t) /\ ~matchGoing' /\ console' = console
        /\ Goto(t, "notify") /\ pc[t] = "reset"
    BY <1>7 DEF Reopening, ResetMatch, At
  <2>2. g' = g
    BY <1>0, <2>1, GoneMoves DEF GonePoints, g
  <2>3. inside = 0
    BY <1>7, FS_EmptySet DEF Reopening, CourtInv
  <2> QED
    BY <1>1, <1>2, <2>1, <2>2, <2>3 DEF n, s
<1>8. CASE Ending(t) \/ Unseen(t)
  <2>1. ~Enter(t) /\ ~QuitWithoutMatch(t) /\ ~Exit(t) /\ ~ResetMatch(t)
    BY <1>8 DEF Ending, Unseen, RefereeSpeaks, WaitAtBarrier, Enter, QuitWithoutMatch,
                Exit, ResetMatch, At
  <2>2. n' = n /\ s' = s
    BY <1>0, <2>1, SaidBy DEF n, s
  <2>3. inside' = inside /\ matchGoing' = matchGoing
    BY <2>1
    DEF Step, TakeSlot, FindMatchGoing, GiveSlotBack, ReadMatchGoing, ReleaseSlot,
        WaitAtBarrier, RefereeSpeaks, AnnounceEnd, PlayerAwaits, PlayerAgrees,
        WaitMatchEnd, LetWaitersKnow, OpenSlot, Play
  <2>4. g' = g
    <3>1. pc[t] \in GonePoints <=> pc'[t] \in GonePoints
      BY <1>0, <2>1, StepMoves DEF GonePoints
    <3>2. \A u \in Threads : pc[u] \in GonePoints <=> pc'[u] \in GonePoints
      BY <1>0, <3>1, OthersStay DEF GonePoints
    <3>3. Gone' = Gone
      BY <3>2 DEF Gone, GonePoints, Among
    <3> QED
      BY <3>3 DEF g
  <2> QED
    BY <1>2, <2>2, <2>3, <2>4
<1> QED
  BY <1>4, <1>5, <1>6, <1>7, <1>8, PhaseStep

-----------------------------------------------------------------------------
(* All come at once.                                                        *)

\* When time passes and no match is going, there is a slot for whoever waits
\* outside, so nobody does.
LEMMA NobodyOutside ==
    ASSUME CourtInv, OrderInv, Second, ~matchGoing,
           \A t \in Threads : asleep[t] > 0 => pc[t] = "play"
    PROVE  Among({"court", "check"}) = {}
<1>1. \A t \in Threads :
        /\ pc[t] \in {"court", "blocked", "awaitReferee", "waitEnd", "done", "play"}
        /\ pc[t] = "court" => courtAvailable = 0
  BY AtSecond DEF CourtInv, OrderInv
<1>2. Departing = {} /\ Closing = {} /\ Opening = {}
  BY <1>1 DEF CourtInv, LeavingIsExclusive, Closing, Opening, Among, ClosingPoints
<1>3. courtAvailable + Cardinality(Holding) = capacity
  BY <1>2 DEF CourtInv, SlotsBeforeBarrier
<1>4. Holding = Inside
  BY <1>1 DEF Holding, Inside, Among, EnteringPoints, InsidePoints
<1>5. Cardinality(Holding) < capacity
  BY <1>4 DEF OrderInv, MatchIsFull, CourtInv
<1>6. courtAvailable > 0
  BY <1>3, <1>5, InsideHolds DEF CourtInv, TypeOK, capacity
<1> QED
  BY <1>1, <1>6 DEF Among

LEMMA TogetherStep ==
    ASSUME CourtInv, SignalInv, OrderInv, CourtInv', SignalInv', OrderInv',
           ComeAtOnce, driver = "court_test", NEW t \in Threads, OrderlyRun(t)
    PROVE  ComeAtOnce'
<1>0. /\ TypeOK /\ TypeOK' /\ TimedTypeOK /\ MatchIsFull /\ MatchIsFull' /\ Waiters = {}
      /\ SleepersPlay' /\ capacity' = capacity
  BY OrderlyIsCourt, ConfigStays
  DEF CourtInv, OrderInv, MatchIsFull, OrderlyNext, config, capacity
<1>1. /\ asleep[t] = 0 /\ (Step(t) \/ Play(t)) /\ driver' = driver
      /\ asleep' = IF pc'[t] = "play" THEN [asleep EXCEPT ![t] = 2] ELSE asleep
  BY DEF OrderlyRun, Run, Awake, PlaySeconds
<1>2. /\ \A u \in Threads : asleep[u] > 0 => pc[u] = "play"
      /\ matchGoing => console["noMatch"] = 0
      /\ ~matchGoing => console["noMatch"] + inside < capacity
      /\ ~matchGoing /\ (console["noMatch"] > 0 \/ \E u \in Threads : Returning(u))
           => Among({"court", "check"}) = {}
  BY DEF ComeAtOnce
<1>3. console["noMatch"] \in Nat /\ inside \in Nat /\ capacity \in Nat
  BY <1>0 DEF TypeOK, Lines, capacity
<1>4. \A u \in Threads : asleep'[u] > 0 => pc'[u] = "play"
  <2> SUFFICES ASSUME NEW u \in Threads, asleep'[u] > 0 PROVE pc'[u] = "play"
    OBVIOUS
  <2>1. CASE u = t
    BY <1>0, <1>1, <2>1 DEF TimedTypeOK
  <2>2. CASE u # t
    <3>1. asleep[u] > 0
      BY <1>0, <1>1, <2>2 DEF TimedTypeOK
    <3> QED
      BY <1>0, <1>1, <1>2, <2>2, <3>1, OthersStay
  <2> QED
    BY <2>1, <2>2
\* Nobody comes to the court a second time.
<1>5. Among({"court", "check"}) = {} => Among({"court", "check"})' = {}
  <2> SUFFICES ASSUME Among({"court", "check"}) = {}, NEW u \in Threads,
                      pc'[u] \in {"court", "check"}
               PROVE  FALSE
    BY DEF Among
  <2>1. pc[u] \notin {"court", "check"}
    BY DEF Among
  <2>2. u = t
    BY <1>0, <1>1, <2>1, OthersStay
  <2>3. pc[t] = "waitEnd"
    BY <1>0, <1>1, <2>1, <2>2, StepMoves
  <2> QED
    BY <1>0, <2>3 DEF Waiters, Among
\* Who returns from play() has done so before, or is t.
<1>6. ASSUME NEW u \in Threads, Returning(u)' PROVE Returning(u)
  <2>1. CASE u # t
    BY <1>0, <1>1, <1>6, <2>1, OthersStay DEF Returning, Awake, At, TimedTypeOK
  <2>2. CASE u = t
    <3>1. pc'[t] # "play"
      BY <1>0, <1>1, <1>6, <2>2 DEF Returning, Awake, At, TimedTypeOK
    <3>2. pc[t] \in {"play", "leave", "noMatch"}
      BY <1>0, <1>1, <1>6, <2>2, <3>1, StepMoves DEF Returning, At
    <3> QED
      BY <1>1, <2>2, <3>2 DEF Returning, Awake, At
  <2> QED
    BY <2>1, <2>2
<1>7. SUFFICES /\ matchGoing' => console'["noMatch"] = 0
               /\ ~matchGoing' => console'["noMatch"] + inside' < capacity
               /\ ~matchGoing' /\ (console'["noMatch"] > 0 \/ \E u \in Threads : Returning(u)')
                    => Among({"court", "check"})' = {}
  BY <1>0, <1>4 DEF ComeAtOnce
<1>8. CASE Entering(t)
  <2>1. Enter(t) /\ ~matchGoing /\ t \in Among({"court", "check"})
    BY <1>8 DEF Entering, Enter, At, Among
  <2>2. console["noMatch"] = 0 /\ \A u \in Threads : ~Returning(u)
    BY <1>2, <1>3, <2>1
  <2>3. console'["noMatch"] = 0
    BY <1>0, <1>1, <2>1, <2>2, SaidBy DEF QuitWithoutMatch, Enter, At
  <2>4. ~matchGoing' => inside' < capacity
    BY <1>0 DEF MatchIsFull
  <2> QED
    BY <1>0, <1>6, <2>2, <2>3, <2>4 DEF TypeOK
<1>9. CASE GivingUp(t)
  <2>1. /\ QuitWithoutMatch(t) /\ matchGoing' = matchGoing /\ inside' = inside - 1
        /\ pc[t] = "noMatch"
    BY <1>9 DEF GivingUp, QuitWithoutMatch, At
  <2>2. ~matchGoing
    BY <1>0, <2>1 DEF MatchIsFull, Quitting, Among
  <2>3. console'["noMatch"] = console["noMatch"] + 1
    BY <1>0, <2>1 DEF QuitWithoutMatch, Say, TypeOK, Lines
  <2>4. Among({"court", "check"})' = {}
    BY <1>2, <1>5, <2>1, <2>2 DEF Returning
  <2> QED
    BY <1>2, <1>3, <2>1, <2>2, <2>3, <2>4
<1>10. CASE Reopening(t)
  <2>1. ResetMatch(t) /\ matchGoing /\ inside' = inside /\ console' = console
    BY <1>10 DEF Reopening, ResetMatch, Phase
  <2>2. inside = 0 /\ capacity > 0
    BY <1>0, <1>10, FS_EmptySet DEF Reopening, CourtInv, TypeOK, capacity
  <2>3. \A u \in Threads : ~Returning(u)'
    <3> SUFFICES ASSUME NEW u \in Threads, Returning(u) PROVE FALSE
      BY <1>6
    <3>1. pc[u] # "noMatch" /\ pc[u] # "release"
      BY <1>0, <2>1 DEF MatchIsFull, Quitting, Among
    <3>2. pc[u] \notin InsidePoints
      BY <1>10 DEF Reopening, Inside, Among
    <3> QED
      BY <3>1, <3>2 DEF Returning, At, InsidePoints
  <2> QED
    BY <1>2, <2>1, <2>2, <2>3
<1>11. CASE Ending(t) \/ GoingHome(t) \/ Unseen(t)
  <2>1. ~Enter(t) /\ ~QuitWithoutMatch(t) /\ ~ResetMatch(t)
    BY <1>11 DEF Ending, GoingHome, Unseen, RefereeSpeaks, WaitAtBarrier, Enter, Exit,
                 QuitWithoutMatch, ResetMatch, At
  <2>2. matchGoing' = matchGoing
    BY <1>1, <2>1
    DEF Step, TakeSlot, FindMatchGoing, GiveSlotBack, ReadMatchGoing, ReleaseSlot,
        WaitAtBarrier, RefereeSpeaks, AnnounceEnd, PlayerAwaits, PlayerAgrees,
        WaitMatchEnd, LetWaitersKnow, OpenSlot, Play, Exit
  <2>3. console'["noMatch"] = console["noMatch"]
    BY <1>0, <1>1, <2>1, SaidBy
  <2>4. ~matchGoing => inside' = inside
    <3>1. CASE GoingHome(t)
      BY <3>1 DEF GoingHome, Phase
    <3>2. CASE Ending(t) \/ Unseen(t)
      BY <3>2 DEF Ending, Unseen, CourtInv
    <3> QED
      BY <1>11, <3>1, <3>2
  <2> QED
    BY <1>2, <1>5, <1>6, <2>2, <2>3, <2>4
<1> QED
  BY <1>0, <1>1, <1>8, <1>9, <1>10, <1>11, PhaseStep

\* Time brings sleepers back from play(), when nobody is outside any more.
LEMMA ComeAtOnceStep ==
    ASSUME CourtInv, SignalInv, OrderInv, CourtInv', SignalInv', OrderInv',
           ComeAtOnce, [OrderlyNext]_timedVars
    PROVE  ComeAtOnce'
<1> SUFFICES ASSUME driver' = "court_test" PROVE ComeAtOnce'
  BY DEF ComeAtOnce
<1>1. driver = "court_test"
  BY DEF OrderlyNext, OrderlyRun, Run, Second, MainTerminates, timedVars
<1>2. ASSUME NEW t \in Threads, OrderlyRun(t) PROVE ComeAtOnce'
  BY <1>1, <1>2, TogetherStep
<1>3. CASE Second
  <2>1. /\ \A u \in Threads : asleep[u] > 0 => pc[u] = "play"
        /\ matchGoing => console["noMatch"] = 0
        /\ ~matchGoing => console["noMatch"] + inside < capacity
    BY <1>1 DEF ComeAtOnce
  <2>2. /\ UNCHANGED <<config, inside, matchGoing, pc, console>> /\ capacity' = capacity
        /\ asleep' = [u \in Threads |-> IF Awake(u) THEN 0 ELSE asleep[u] - 1]
    BY <1>3 DEF Second, vars, config, capacity
  <2>3. \A u \in Threads : asleep'[u] > 0 => pc'[u] = "play"
    BY <2>1, <2>2 DEF Awake, OrderInv, TimedTypeOK
  <2>4. ~matchGoing' => Among({"court", "check"})' = {}
    BY <1>3, <2>1, <2>2, NobodyOutside DEF Among
  <2> QED
    BY <2>1, <2>2, <2>3, <2>4 DEF ComeAtOnce
<1>4. CASE UNCHANGED timedVars
  BY <1>1, <1>4
  DEF timedVars, vars, ComeAtOnce, Returning, Awake, At, Among, capacity
<1> QED
  BY <1>2, <1>3, <1>4 DEF OrderlyNext, MainTerminates

LEMMA OutputStep ==
    ASSUME CourtInv, SignalInv, OrderInv, CourtInv', SignalInv', OrderInv',
           OutputInv, [OrderlyNext]_timedVars
    PROVE  OutputInv'
<1>1. ComeAtOnce'
  BY ComeAtOnceStep DEF OutputInv
<1>2. CASE UNCHANGED vars
  <2>1. /\ Phase' = Phase /\ Gone' = Gone /\ Among({"after"})' = Among({"after"})
        /\ capacity' = capacity
        /\ UNCHANGED <<neededPlayers, hasReferee, matchGoing, inside, console>>
    BY <1>2 DEF vars, Phase, Over, SilentReferee, RefereeAt, Departing, Closing, Gone,
                Among, capacity
  <2>2. RefereeLines' /\ PlayerLines' /\ PeopleCounted'
    BY <2>1 DEF OutputInv, RefereeLines, PlayerLines, PeopleCounted
  <2> QED
    BY <1>1, <2>2 DEF OutputInv
<1>3. ASSUME NEW t \in Threads, Step(t) \/ Play(t) PROVE OutputInv'
  BY <1>1, <1>3, RefereeLinesStep, PlayerLinesStep, PeopleStep DEF OutputInv, OrderInv
<1> QED
  BY <1>2, <1>3, OrderlyIsCourt DEF Next

LEMMA EveryInvariant == OrderlySpec => [](CourtInv /\ SignalInv /\ OrderInv /\ OutputInv)
<1>1. OrderlySpec => TimedInit /\ [][OrderlyNext]_timedVars
  BY PTL DEF OrderlySpec
<1>2. /\ CourtInv /\ SignalInv /\ OrderInv /\ CourtInv' /\ SignalInv' /\ OrderInv'
      /\ OutputInv /\ [OrderlyNext]_timedVars
      => OutputInv'
  BY OutputStep
<1> QED
  BY <1>1, <1>2, InitOutput, OrderlyInvariant, OrderInvariant, PTL

-----------------------------------------------------------------------------
(* With all the threads gone.                                               *)

LEMMA Quotient ==
    ASSUME NEW c \in Nat \ {0}, NEW s \in Nat, NEW m \in Nat, m < c
    PROVE  (m + c * s) \div c = s
<1> DEFINE n == m + c * s
           q == n \div c
<1>1. n \in Nat
  OBVIOUS
<1> HIDE DEF n
<1>2. q \in Int /\ c * q <= n /\ n < c * (q + 1)
  BY <1>1
<1> HIDE DEF q
<1>3. n = m + c * s
  BY DEF n
<1>4. c * q < c * (s + 1) /\ c * s < c * (q + 1)
  BY <1>2, <1>3
<1>5. q < s + 1 /\ s < q + 1
  BY <1>2, <1>4
<1>6. q = s
  BY <1>2, <1>5
<1> QED
  BY <1>6 DEF n, q

\* Once every thread of a test driver has left, the console holds the numbers of
\* lines the assignment asks for: each match had its referee, its players and its
\* last person, everyone else has a "no match" line and, when all came at once, as
\* many matches were played as full teams could be made.
THEOREM OutputIsFull == OrderlySpec => []FullOutput
<1>1. ASSUME CourtInv, SignalInv, OrderInv, OutputInv PROVE FullOutput
  <2> SUFFICES ASSUME AllDone PROVE FullOutput
    BY DEF FullOutput
  <2> DEFINE s == console["started"]
             n == console["noMatch"]
  <2>0. TypeOK
    BY <1>1 DEF CourtInv
  <2>1. \A t \in Threads : pc[t] = "done"
    BY DEF AllDone, At
  <2>2. /\ Inside = {} /\ Departing = {} /\ Closing = {} /\ Notifying = {}
        /\ Awaiting = {} /\ Among({"after"}) = {} /\ Gone = Threads
    BY <2>1
    DEF Inside, Departing, Closing, Notifying, Awaiting, Gone, Among, InsidePoints,
        DepartingPoints, ClosingPoints
  <2>3. /\ inside = 0 /\ Cardinality(Awaiting) = 0 /\ Cardinality(Among({"after"})) = 0
    BY <1>1, <2>2, FS_EmptySet DEF CourtInv
  <2>4. /\ s \in Nat /\ n \in Nat /\ capacity \in Nat \ {0} /\ neededPlayers \in Nat
        /\ console["playerLeft"] \in Nat /\ console["refereeLeft"] \in Nat
        /\ hasReferee \in {0, 1}
    BY <2>0 DEF TypeOK, Lines, capacity
  <2>5. ~matchGoing /\ Phase = "gathering"
    BY <1>1, <2>2, <2>3, <2>4 DEF OrderInv, MatchIsFull, Phase
  <2>6. console["everybodyLeft"] = s
    BY <1>1, <2>0, <2>2, <2>5 DEF CourtInv, ConsoleFollows, TypeOK, Lines
  <2>7. console["refereeLeft"] = hasReferee * s
    BY <1>1, <2>4, <2>5 DEF OutputInv, RefereeLines
  <2>8. console["playerLeft"] = neededPlayers * s
    <3>1. CASE hasReferee = 0
      BY <1>1, <2>3, <2>4, <2>5, <3>1 DEF OutputInv, PlayerLines
    <3>2. CASE hasReferee = 1
      <4>1. ~RefereeAt({"after"})
        BY <2>2 DEF RefereeAt
      <4>2. console["playerLeft"] = neededPlayers * console["refereeLeft"]
        BY <1>1, <2>3, <2>4, <3>2, <4>1 DEF SignalInv, LinesMatch
      <4> QED
        BY <2>4, <2>7, <3>2, <4>2
    <3> QED
      BY <2>4, <3>1, <3>2
  <2>9. Cardinality(Threads) = n + capacity * s
    BY <1>1, <2>2, <2>5, AmongFinite DEF OutputInv, PeopleCounted, Gone
  <2>10. n = Cardinality(Threads) - capacity * s
    BY <2>4, <2>9
  <2>11. driver = "court_test" => s = Cardinality(Threads) \div capacity
    <3> SUFFICES ASSUME driver = "court_test" PROVE s = Cardinality(Threads) \div capacity
      OBVIOUS
    <3>1. n < capacity
      BY <1>1, <2>3, <2>4, <2>5 DEF OutputInv, ComeAtOnce
    <3> QED
      BY <2>4, <2>9, <3>1, Quotient
  <2> QED
    BY <2>6, <2>7, <2>8, <2>10, <2>11 DEF FullOutput
<1> QED
  BY <1>1, EveryInvariant, PTL
=============================================================================
