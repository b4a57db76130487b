-------------------------------- MODULE SeatGate --------------------------------
(***************************************************************************)
(* The seat gate of one workflow run (bootstrap/src/app/                   *)
(* workflow-seat-gate.ts): after the run's concurrency bound is lowered,   *)
(* the subagents above it park before their next turn step instead of      *)
(* being cancelled.  The gate is synchronous, so it is a record and one    *)
(* operator per method; AskScheduler composes it with the scheduler.       *)
(*                                                                         *)
(* The table "instances" of the source only maps a settled ask back to the *)
(* actor it was started on; here the callers name that actor.              *)
(***************************************************************************)
EXTENDS WaitingLine, FiniteSets

CONSTANT Actors        \* the subagents of the run

ASSUME ActorsAssumption == IsFiniteSet(Actors)

Gates == [limit: Nat \ {0}, working: SUBSET Actors, parked: Seq(Actors)]

NewGate(limit) == [limit |-> limit, working |-> {}, parked |-> <<>>]

ParkedActors(g) == Elements(g.parked)

\* Mutant of Unpark: a seat is handed on without asking whether one is free.
UnparkOne(g) ==
    IF g.parked = <<>> THEN g
    ELSE [g EXCEPT !.working = @ \cup {Head(g.parked)}, !.parked = Tail(@)]

\* unpark(): FIFO, while there is a free seat.
Unpark(g) ==
    LET free == g.limit - Cardinality(g.working)
        n    == IF free <= 0 THEN 0
                ELSE IF free < Len(g.parked) THEN free ELSE Len(g.parked)
    IN  [g EXCEPT !.working = @ \cup {g.parked[i] : i \in 1 .. n},
                  !.parked  = SubSeq(@, n + 1, Len(@))]

SetLimit(g, limit) == Unpark([g EXCEPT !.limit = limit])

AskStarted(g, a) ==
    IF a \in ParkedActors(g) THEN g ELSE [g EXCEPT !.working = @ \cup {a}]

\* The waiting line without a.
LeaveLine(g, a) == [g EXCEPT !.parked = Without(@, IndexOf(@, a))]

\* Mutant of AskSettled: the free seat is given to nobody.
AskSettledOnly(g, a) ==
    IF a \in ParkedActors(g) THEN LeaveLine(g, a)
    ELSE [g EXCEPT !.working = @ \ {a}]

AskSettled(g, a) ==
    IF a \in ParkedActors(g) THEN LeaveLine(g, a)
    ELSE IF a \in g.working THEN Unpark([g EXCEPT !.working = @ \ {a}])
    ELSE g

\* Mutant of MustPark: >= instead of >.
MustParkEarly(g, a) == a \in g.working /\ Cardinality(g.working) >= g.limit

\* A request of a working actor with no tool running is a turn step; it parks
\* when more actors work than there are seats.
MustPark(g, a) == a \in g.working /\ Cardinality(g.working) > g.limit

Park(g, a) ==
    [g EXCEPT !.working = @ \ {a}, !.parked = Append(@, a)]

\* Mutant of AbortParked: out of the line, but not back to work.
AbortParkedGone(g, a) == IF a \in ParkedActors(g) THEN LeaveLine(g, a) ELSE g

\* onAbort of a parked request: out of the line, back to work.
AbortParked(g, a) ==
    IF a \in ParkedActors(g)
    THEN [LeaveLine(g, a) EXCEPT !.working = @ \cup {a}]
    ELSE g

\* The actors that a step of the gate from g to h seats.
Seated(g, h) == ParkedActors(g) \cap h.working
===============================================================================
