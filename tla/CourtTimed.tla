----------------------------- MODULE CourtTimed -----------------------------
(***************************************************************************)
(* The court as the two drivers of src/PA3/PA3_Bundle use it.  Each        *)
(* creates its threads at once; play() sleeps for two seconds.  In         *)
(* court_test.cpp every thread comes to the court at once; in              *)
(* court_test2.cpp the k-th thread to count itself sleeps k seconds first, *)
(* for k >= 2.  A sleep is longer than anything else a thread does, so     *)
(* time passes only when no thread that is awake can take a step; threads  *)
(* whose sleeps end together go on in any order.                           *)
(***************************************************************************)
EXTENDS Court

CONSTANT Drivers    \* the drivers that are tried

ASSUME DriversAssumption == Drivers \subseteq {"court_test", "court_test2"}
ASSUME NumberedThreads == Threads = 1..Cardinality(Threads)

VARIABLES
    driver,         \* the program that uses the court
    asleep          \* seconds each thread still has to sleep

timedVars == <<vars, driver, asleep>>

\* Before it comes to the court: the number a thread of court_test2.cpp
\* takes from the counter is the number of seconds it sleeps.
Delay(t) == IF driver = "court_test2" /\ (t - 1) \div 2 # 0 THEN t - 1 ELSE 0

PlaySeconds == 2

TimedInit ==
    /\ Init
    /\ driver \in Drivers
    /\ asleep = [t \in Threads |-> Delay(t)]

\* A step of a thread that is awake; the one that enters goes on to play().
Awake(t) == asleep[t] = 0

Run(t) ==
    /\ Awake(t)
    /\ Step(t) \/ Play(t)
    /\ asleep' = IF pc'[t] = "play" THEN [asleep EXCEPT ![t] = PlaySeconds]
                                    ELSE asleep
    /\ UNCHANGED driver

\* A thread that is awake and waits: for a slot, at the barrier, for the end
\* of a match, or for nothing any more.
Waits(t) ==
    \/ At(t, "court") /\ courtAvailable = 0
    \/ At(t, "blocked")
    \/ pc[t] \in {"awaitReferee", "waitEnd"} /\ matchEnd = 0
    \/ At(t, "done")

Asleep == {t \in Threads : ~Awake(t)}

Second ==
    /\ Asleep # {}
    /\ \A t \in Threads \ Asleep : Waits(t)
    /\ asleep' = [t \in Threads |-> IF Awake(t) THEN 0 ELSE asleep[t] - 1]
    /\ UNCHANGED <<vars, driver>>

AllDone == \A t \in Threads : At(t, "done")

\* main has joined every thread and returns.
MainTerminates == AllDone /\ UNCHANGED timedVars

TimedNext == (\E t \in Threads : Run(t)) \/ Second \/ MainTerminates

\* The scheduler runs every thread that can run, and every sleep ends.
TimedSpec ==
    /\ TimedInit /\ [][TimedNext]_timedVars
    /\ \A t \in Threads : WF_timedVars(Run(t))
    /\ WF_timedVars(Second)

-----------------------------------------------------------------------------
(* In court_test2.cpp a thread may come in the very second in which others  *)
(* return from play(), and then the order in which they run decides whether *)
(* the race of leave() happens.  It does not when those who return have     *)
(* gone before anyone else enters.                                          *)

Returning(t) ==
    \/ Awake(t) /\ At(t, "play")
    \/ pc[t] \in {"leave", "noMatch", "release"}

OrderlyRun(t) ==
    /\ At(t, "court") => \A u \in Threads : ~Returning(u)
    /\ Run(t)

OrderlyNext == (\E t \in Threads : OrderlyRun(t)) \/ Second \/ MainTerminates

OrderlySpec ==
    /\ TimedInit /\ [][OrderlyNext]_timedVars
    /\ \A t \in Threads : WF_timedVars(OrderlyRun(t))
    /\ WF_timedVars(Second)

-----------------------------------------------------------------------------

\* The match is over once its referee has spoken or, without one, once the
\* barrier has let its players go.
MatchOver ==
    IF hasReferee = 1
      THEN refereeId # NoThread
             /\ pc[refereeId] \in {"announce", "exit", "reset", "done"}
      ELSE Departing \cup Closing # {}

Promise == INSTANCE CourtPromise WITH
    places <- capacity,
    onCourt <- Inside,
    phase <- IF ~matchGoing THEN "gathering"
             ELSE IF MatchOver THEN "leaving" ELSE "playing"

\* The class implements CourtPromise: nobody gives up during a match, nobody
\* comes in before the last one has left, nobody leaves before the match is
\* over for all, and every match ends.
ImplementsPromise == Promise!Spec

\* The driver's main joins every thread, so every thread must get out of
\* leave(): no semaphore or barrier keeps one for ever.
EveryoneLeaves == \A t \in Threads : <>At(t, "done")

\* The numbers of lines the assignment asks of every execution (its section
\* "Correctness"): with all the threads gone, every match had its referee,
\* its players and its last person, and everyone else has a "no match" line;
\* when all come at once, as many matches as full teams could be made.
FullOutput ==
    AllDone =>
        /\ console["everybodyLeft"] = console["started"]
        /\ console["refereeLeft"] = hasReferee * console["started"]
        /\ console["playerLeft"] = neededPlayers * console["started"]
        /\ console["noMatch"] = Cardinality(Threads)
                                  - capacity * console["started"]
        /\ driver = "court_test" =>
             console["started"] = Cardinality(Threads) \div capacity
=============================================================================
