------------------------------- MODULE Court -------------------------------
(***************************************************************************)
(* The basketball court of src/PA3/Court.h: threads enter() a court that   *)
(* holds a fixed number of people, play(), and leave().  One counting      *)
(* semaphore rations the slots, a second one carries the referee's signal, *)
(* a barrier gathers the participants of a match, and a mutex protects the *)
(* counters.  Every critical section of the mutex is one action; every     *)
(* semaphore and barrier call is an action of its own, so all the          *)
(* interleavings of the class are here.  play() takes any time at all (the *)
(* class leaves it to the caller); CourtTimed adds the two seconds it      *)
(* takes in the test driver.                                               *)
(***************************************************************************)
EXTENDS Naturals, FiniteSets

CONSTANTS
    Threads,        \* the threads a test driver creates
    MaxPlayers,     \* bound on the playersPerMatch argument that is tried
    NoThread        \* the value 0 of refereeId

ASSUME ThreadsAssumption == IsFiniteSet(Threads)
ASSUME MaxPlayersAssumption == MaxPlayers \in Nat
ASSUME NoThreadAssumption == NoThread \notin Threads

VARIABLES
    neededPlayers,  \* the constructor's playersPerMatch
    hasReferee,     \* the constructor's refereePresent, 0 or 1
    inside,         \* people counted on the court
    matchGoing,     \* a match has been formed and not reset yet
    refereeId,      \* the last entrant of a match with a referee
    courtAvailable, \* value of the semaphore court_available
    matchEnd,       \* value of the semaphore match_end
    pc,             \* where each thread is in enter(), play() and leave()
    posted,         \* the loop variable i of the two posting loops, per thread
    console         \* how many lines of each kind have been printed

config == <<neededPlayers, hasReferee>>
vars == <<neededPlayers, hasReferee, inside, matchGoing, refereeId,
          courtAvailable, matchEnd, pc, posted, console>>

capacity == neededPlayers + hasReferee

Points == {"court", "check", "giveBack", "waitEnd", "play", "leave",
           "noMatch", "release", "barrier", "blocked", "after", "announce",
           "awaitReferee", "exit", "reset", "notify", "open", "done"}

Lines == {"started", "noMatch", "refereeLeft", "playerLeft", "everybodyLeft"}

At(t, point) == pc[t] = point
Goto(t, point) == pc' = [pc EXCEPT ![t] = point]
Say(line) == console' = [console EXCEPT ![line] = @ + 1]

-----------------------------------------------------------------------------
(* Plausible slips: wrong versions of actions below.  Each breaks one of    *)
(* the properties at the end, which shows that the property bites.          *)

\* The slot of a thread that found a match going is never given back.
SlipKeepSlot(t) ==
    /\ At(t, "giveBack")
    /\ Goto(t, "waitEnd")
    /\ UNCHANGED <<config, inside, matchGoing, refereeId, courtAvailable,
                   matchEnd, posted, console>>

\* sem_trywait in place of sem_wait, its result ignored.
SlipTryWait(t) ==
    /\ pc[t] \in {"awaitReferee", "waitEnd"}
    /\ matchEnd' = matchEnd - 1
    /\ Goto(t, "exit")
    /\ Say("playerLeft")
    /\ UNCHANGED <<config, inside, matchGoing, refereeId, courtAvailable,
                   posted>>

\* A thread that quits forgets to take itself off the counter.
SlipStayCounted(t) ==
    /\ At(t, "noMatch")
    /\ Say("noMatch")
    /\ Goto(t, "release")
    /\ UNCHANGED <<config, inside, matchGoing, refereeId, courtAvailable,
                   matchEnd, posted>>

\* The referee posts once for everyone on the court, itself included.
SlipAnnounceToAll(t) ==
    /\ At(t, "announce")
    /\ matchEnd' = matchEnd + 1
    /\ posted' = [posted EXCEPT ![t] = @ + 1]
    /\ Goto(t, IF posted[t] + 1 = neededPlayers + 1 THEN "exit" ELSE "announce")
    /\ UNCHANGED <<config, inside, matchGoing, refereeId, courtAvailable,
                   console>>

\* The referee posts for all players but one.
SlipAnnounceShort(t) ==
    /\ At(t, "announce")
    /\ IF posted[t] + 1 = neededPlayers
         THEN Goto(t, "exit") /\ UNCHANGED <<matchEnd, posted>>
         ELSE /\ matchEnd' = matchEnd + 1
              /\ posted' = [posted EXCEPT ![t] = @ + 1]
              /\ UNCHANGED pc
    /\ UNCHANGED <<config, inside, matchGoing, refereeId, courtAvailable,
                   console>>

\* Everyone who leaves posts a slot at once, the last one too.
SlipSlotPerExit(t) ==
    /\ At(t, "exit")
    /\ inside' = inside - 1
    /\ courtAvailable' = courtAvailable + 1
    /\ Goto(t, IF inside - 1 = 0 THEN "reset" ELSE "done")
    /\ UNCHANGED <<config, matchGoing, refereeId, matchEnd, posted, console>>

\* The last person is found by the value before the decrement.
SlipLastButOne(t) ==
    /\ At(t, "exit")
    /\ inside' = inside - 1
    /\ Goto(t, IF inside <= 2 THEN "reset" ELSE "done")
    /\ UNCHANGED <<config, matchGoing, refereeId, courtAvailable, matchEnd,
                   posted, console>>

\* The slots are posted without a word to the waiting people.
SlipSilentReset(t) ==
    /\ At(t, "reset")
    /\ matchGoing' = FALSE
    /\ refereeId' = NoThread
    /\ Goto(t, "open")
    /\ UNCHANGED <<config, inside, courtAvailable, matchEnd, posted, console>>

\* The players of a match with a referee go without waiting for the signal.
SlipNoAwait(t) ==
    /\ At(t, "after")
    /\ hasReferee = 1
    /\ refereeId # t
    /\ Say("playerLeft")
    /\ Goto(t, "exit")
    /\ UNCHANGED <<config, inside, matchGoing, refereeId, courtAvailable,
                   matchEnd, posted>>

\* The court is opened for one person fewer than it holds.
SlipOpenShort(t) ==
    /\ At(t, "open")
    /\ courtAvailable' = courtAvailable + 1
    /\ posted' = [posted EXCEPT ![t] = @ + 1]
    /\ Goto(t, IF posted[t] + 1 >= capacity - 1 THEN "done" ELSE "open")
    /\ UNCHANGED <<config, inside, matchGoing, refereeId, matchEnd, console>>

-----------------------------------------------------------------------------
(* The constructor.  Arguments it rejects make no court.                    *)

ValidArgs(playersPerMatch, refereePresent) ==
    /\ playersPerMatch > 0
    /\ refereePresent \in {0, 1}

Construct(playersPerMatch, refereePresent) ==
    /\ ValidArgs(playersPerMatch, refereePresent)
    /\ neededPlayers = playersPerMatch
    /\ hasReferee = refereePresent
    /\ inside = 0
    /\ matchGoing = FALSE
    /\ refereeId = NoThread
    /\ courtAvailable = playersPerMatch + refereePresent
    /\ matchEnd = 0

Init ==
    /\ \E p \in 0..MaxPlayers, r \in 0..2 : Construct(p, r)
    /\ pc = [t \in Threads |-> "court"]
    /\ posted = [t \in Threads |-> 0]
    /\ console = [line \in Lines |-> 0]

-----------------------------------------------------------------------------
(* enter()                                                                  *)

TakeSlot(t) ==
    /\ At(t, "court")
    /\ courtAvailable > 0
    /\ courtAvailable' = courtAvailable - 1
    /\ Goto(t, "check")
    /\ UNCHANGED <<config, inside, matchGoing, refereeId, matchEnd, posted,
                   console>>

\* The critical section of enter() when a match is going on.
FindMatchGoing(t) ==
    /\ At(t, "check")
    /\ matchGoing
    /\ Goto(t, "giveBack")
    /\ UNCHANGED <<config, inside, matchGoing, refereeId, courtAvailable,
                   matchEnd, posted, console>>

GiveSlotBack(t) ==
    /\ At(t, "giveBack")
    /\ courtAvailable' = courtAvailable + 1
    /\ Goto(t, "waitEnd")
    /\ UNCHANGED <<config, inside, matchGoing, refereeId, matchEnd, posted,
                   console>>

EnoughPlayers(n) ==
    \/ hasReferee = 0 /\ n = neededPlayers
    \/ hasReferee = 1 /\ n = capacity

\* The critical section of enter() when no match is going on: the entrant is
\* counted and, if it completes the team, forms the match and may become the
\* referee.
Enter(t) ==
    /\ At(t, "check")
    /\ ~matchGoing
    /\ inside' = inside + 1
    /\ IF EnoughPlayers(inside + 1)
         THEN /\ matchGoing' = TRUE
              /\ refereeId' = IF hasReferee = 1 THEN t ELSE refereeId
              /\ Say("started")
         ELSE UNCHANGED <<matchGoing, refereeId, console>>
    /\ Goto(t, "play")
    /\ UNCHANGED <<config, courtAvailable, matchEnd, posted>>

Play(t) ==
    /\ At(t, "play")
    /\ Goto(t, "leave")
    /\ UNCHANGED <<config, inside, matchGoing, refereeId, courtAvailable,
                   matchEnd, posted, console>>

-----------------------------------------------------------------------------
(* leave()                                                                  *)

\* The first critical section only reads matchGoing; the copy is used after
\* the mutex has been released.
ReadMatchGoing(t) ==
    /\ At(t, "leave")
    /\ Goto(t, IF matchGoing THEN "barrier" ELSE "noMatch")
    /\ UNCHANGED <<config, inside, matchGoing, refereeId, courtAvailable,
                   matchEnd, posted, console>>

QuitWithoutMatch(t) ==
    /\ At(t, "noMatch")
    /\ Say("noMatch")
    /\ inside' = inside - 1
    /\ Goto(t, "release")
    /\ UNCHANGED <<config, matchGoing, refereeId, courtAvailable, matchEnd,
                   posted>>

ReleaseSlot(t) ==
    /\ At(t, "release")
    /\ courtAvailable' = courtAvailable + 1
    /\ Goto(t, "done")
    /\ UNCHANGED <<config, inside, matchGoing, refereeId, matchEnd, posted,
                   console>>

AtBarrier == {t \in Threads : At(t, "blocked")}

\* pthread_barrier_wait: the arrival that makes the count lets everyone go.
WaitAtBarrier(t) ==
    /\ At(t, "barrier")
    /\ pc' = IF Cardinality(AtBarrier) + 1 = capacity
               THEN [u \in Threads |-> IF u \in AtBarrier \cup {t}
                                         THEN "after" ELSE pc[u]]
               ELSE [pc EXCEPT ![t] = "blocked"]
    /\ UNCHANGED <<config, inside, matchGoing, refereeId, courtAvailable,
                   matchEnd, posted, console>>

RefereeSpeaks(t) ==
    /\ At(t, "after")
    /\ hasReferee = 1
    /\ refereeId = t
    /\ Say("refereeLeft")
    /\ posted' = [posted EXCEPT ![t] = 0]
    /\ Goto(t, "announce")
    /\ UNCHANGED <<config, inside, matchGoing, refereeId, courtAvailable,
                   matchEnd>>

\* One iteration of the loop that posts match_end once for each player.
AnnounceEnd(t) ==
    /\ At(t, "announce")
    /\ matchEnd' = matchEnd + 1
    /\ posted' = [posted EXCEPT ![t] = @ + 1]
    /\ Goto(t, IF posted[t] + 1 = neededPlayers THEN "exit" ELSE "announce")
    /\ UNCHANGED <<config, inside, matchGoing, refereeId, courtAvailable,
                   console>>

PlayerAwaits(t) ==
    /\ At(t, "after")
    /\ hasReferee = 1
    /\ refereeId # t
    /\ Goto(t, "awaitReferee")
    /\ UNCHANGED <<config, inside, matchGoing, refereeId, courtAvailable,
                   matchEnd, posted, console>>

\* Without a referee the players agree among themselves.
PlayerAgrees(t) ==
    /\ At(t, "after")
    /\ hasReferee = 0
    /\ Say("playerLeft")
    /\ Goto(t, "exit")
    /\ UNCHANGED <<config, inside, matchGoing, refereeId, courtAvailable,
                   matchEnd, posted>>

\* sem_wait(&match_end), which two places call: a player in leave(), and a
\* thread of enter() that found a match going and then tries again.
WaitMatchEnd(t) ==
    /\ pc[t] \in {"awaitReferee", "waitEnd"}
    /\ matchEnd > 0
    /\ matchEnd' = matchEnd - 1
    /\ IF At(t, "waitEnd")
         THEN Goto(t, "court") /\ UNCHANGED console
         ELSE Goto(t, "exit") /\ Say("playerLeft")
    /\ UNCHANGED <<config, inside, matchGoing, refereeId, courtAvailable,
                   posted>>

Exit(t) ==
    /\ At(t, "exit")
    /\ inside' = inside - 1
    /\ Goto(t, IF inside - 1 = 0 THEN "reset" ELSE "done")
    /\ UNCHANGED <<config, matchGoing, refereeId, courtAvailable, matchEnd,
                   posted, console>>

ResetMatch(t) ==
    /\ At(t, "reset")
    /\ matchGoing' = FALSE
    /\ refereeId' = NoThread
    /\ Goto(t, "notify")
    /\ UNCHANGED <<config, inside, courtAvailable, matchEnd, posted, console>>

LetWaitersKnow(t) ==
    /\ At(t, "notify")
    /\ Say("everybodyLeft")
    /\ posted' = [posted EXCEPT ![t] = 0]
    /\ Goto(t, "open")
    /\ UNCHANGED <<config, inside, matchGoing, refereeId, courtAvailable,
                   matchEnd>>

\* One iteration of the loop that posts court_available for the next round.
OpenSlot(t) ==
    /\ At(t, "open")
    /\ courtAvailable' = courtAvailable + 1
    /\ posted' = [posted EXCEPT ![t] = @ + 1]
    /\ Goto(t, IF posted[t] + 1 = capacity THEN "done" ELSE "open")
    /\ UNCHANGED <<config, inside, matchGoing, refereeId, matchEnd, console>>

-----------------------------------------------------------------------------

\* Every step of a thread but its return from play().
Step(t) ==
    \/ TakeSlot(t) \/ FindMatchGoing(t) \/ GiveSlotBack(t) \/ Enter(t)
    \/ ReadMatchGoing(t) \/ QuitWithoutMatch(t) \/ ReleaseSlot(t)
    \/ WaitAtBarrier(t) \/ RefereeSpeaks(t) \/ AnnounceEnd(t)
    \/ PlayerAwaits(t) \/ PlayerAgrees(t) \/ WaitMatchEnd(t)
    \/ Exit(t) \/ ResetMatch(t) \/ LetWaitersKnow(t) \/ OpenSlot(t)

Next == \E t \in Threads : Step(t) \/ Play(t)

Spec == Init /\ [][Next]_vars

\* The scheduler runs every thread that can run, and play() returns.
FairSpec == Spec /\ \A t \in Threads : WF_vars(Step(t) \/ Play(t))

-----------------------------------------------------------------------------
(* Invariants.                                                              *)

TypeOK ==
    /\ neededPlayers \in Nat \ {0}
    /\ hasReferee \in {0, 1}
    /\ inside \in Nat
    /\ matchGoing \in BOOLEAN
    /\ refereeId \in Threads \cup {NoThread}
    /\ courtAvailable \in Nat
    /\ matchEnd \in Nat
    /\ pc \in [Threads -> Points]
    /\ posted \in [Threads -> Nat]
    /\ console \in [Lines -> Nat]

InsidePoints == {"play", "leave", "noMatch", "barrier", "blocked", "after",
                 "announce", "awaitReferee", "exit"}
EnteringPoints == {"check", "giveBack", "release"}
DepartingPoints == {"after", "announce", "awaitReferee", "exit"}
ClosingPoints == {"reset", "notify"}

Among(points) == {t \in Threads : pc[t] \in points}
Inside == Among(InsidePoints)
Holding == Among(InsidePoints \cup EnteringPoints)
Departing == Among(DepartingPoints)
Closing == Among(ClosingPoints)
Opening == Among({"open"})

\* Once the barrier has let a match go, the slots of those who left are
\* missing until the last one has opened the court again.
SlotsMissing ==
    IF Departing \cup Closing # {}
      THEN capacity - Cardinality(Departing)
      ELSE IF Opening # {}
             THEN capacity - posted[CHOOSE t \in Opening : TRUE]
             ELSE 0

\* Every slot of the court is available, held by one thread, or waiting to be
\* posted by the last person of a match: whatever the interleaving of the
\* three places that post court_available, none is lost or made twice.
SlotsConserved == courtAvailable + Cardinality(Holding) + SlotsMissing = capacity

\* README "Only fixed number of players allowed inside": the counter is the
\* number of threads between enter() and the end of leave(), and it never
\* exceeds the capacity.
NoOverCapacity == inside = Cardinality(Inside) /\ inside <= capacity

\* The console shows the referee of a match before any player of it: at any
\* time the players gone are those of matches whose referee has spoken, so no
\* player walks on a match_end post that was left over or stolen.
RefereeFirst ==
    hasReferee = 1 =>
        /\ console["playerLeft"] <= neededPlayers * console["refereeLeft"]
        /\ matchEnd <= neededPlayers * console["refereeLeft"]
                         - console["playerLeft"]

\* A thread that waits in enter() for the end of a match never waits while
\* one is being left: the posts of the referee cannot go to anyone but its
\* players.
NoSignalStolen == Among({"waitEnd"}) # {} => Departing = {} /\ matchEnd = 0

\* One thread at a time resets the court, and only an empty one: the decision
\* taken on inside = 0 still holds when matchGoing is cleared without it.
ResetWhenEmpty ==
    /\ Cardinality(Closing \cup Opening) <= 1
    /\ Closing # {} => inside = 0 /\ courtAvailable = 0

-----------------------------------------------------------------------------
(* Properties of the steps.                                                 *)

\* Nobody is counted in between the line that starts a match and the line
\* that says everybody left, although matchGoing is cleared before the latter.
NoEntryDuringMatch ==
    [][inside' > inside => console["started"] = console["everybodyLeft"]]_vars

\* README "Players cannot leave during a match": the thread that goes away
\* without a match does so while there is none.
QuitOnlyWithoutMatch ==
    [][console'["noMatch"] > console["noMatch"] => ~matchGoing]_vars

\* Court.h "wait for match to end": a thread that found a match going on tries
\* again when the match is over.
WaitersTryAgain ==
    \A t \in Threads : At(t, "waitEnd") ~> At(t, "court")
=============================================================================
