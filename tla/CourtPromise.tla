---------------------------- MODULE CourtPromise ----------------------------
(***************************************************************************)
(* What a court promises its users: people gather, a full court plays a    *)
(* match, the match is ended for everyone at once, everyone leaves, and    *)
(* only then does the next gathering begin.  People may give up while they *)
(* gather and at no other time.                                            *)
(***************************************************************************)
EXTENDS Naturals, FiniteSets

CONSTANT Threads

VARIABLES
    places,     \* the number of people that makes a match
    onCourt,    \* the people on the court
    phase       \* "gathering", "playing" or "leaving"

vars == <<places, onCourt, phase>>

Init == places \in Nat \ {0} /\ onCourt = {} /\ phase = "gathering"

ComeIn(t) ==
    /\ phase = "gathering"
    /\ t \notin onCourt
    /\ onCourt' = onCourt \cup {t}
    /\ phase' = IF Cardinality(onCourt') = places THEN "playing" ELSE phase
    /\ UNCHANGED places

GiveUp(t) ==
    /\ phase = "gathering"
    /\ t \in onCourt
    /\ onCourt' = onCourt \ {t}
    /\ UNCHANGED <<places, phase>>

EndMatch ==
    /\ phase = "playing"
    /\ Cardinality(onCourt) = places
    /\ phase' = "leaving"
    /\ UNCHANGED <<places, onCourt>>

GoHome(t) ==
    /\ phase = "leaving"
    /\ t \in onCourt
    /\ onCourt' = onCourt \ {t}
    /\ UNCHANGED <<places, phase>>

Reopen ==
    /\ phase = "leaving"
    /\ onCourt = {}
    /\ phase' = "gathering"
    /\ UNCHANGED <<places, onCourt>>

Next ==
    \/ \E t \in Threads : ComeIn(t) \/ GiveUp(t) \/ GoHome(t)
    \/ EndMatch
    \/ Reopen

\* What never happens: every step is one of these.
Safety == Init /\ [][Next]_vars

\* A match that has started ends, and all its people leave.
Spec ==
    /\ Safety
    /\ WF_vars(EndMatch) /\ WF_vars(Reopen)
    /\ WF_vars(\E t \in Threads : GoHome(t))
=============================================================================
