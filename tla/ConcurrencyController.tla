------------------------- MODULE ConcurrencyController -------------------------
(***************************************************************************)
(* The AIMD state machine that decides how many model requests one         *)
(* provider key may have in flight: class ConcurrencyController of         *)
(* dynamic-workflow/src/engine/concurrency.ts.  The class is pure (the     *)
(* clock is an argument), so it is a record and one operator per method.   *)
(*                                                                         *)
(* Two representations differ from the source and lose nothing:            *)
(*   - instants are kept relative to now: cooldown is what is left of      *)
(*     cooldownUntil (0: it has passed), sinceRequest what has elapsed     *)
(*     since lastRequestAt, counted no further than IdleResetMs;           *)
(*   - epochs are only ever compared with the current one, so instead of   *)
(*     the counter the record holds the set thisEpoch of the tickets       *)
(*     admitted in the current epoch; "epoch += 1" empties it.             *)
(***************************************************************************)
EXTENDS Integers

CONSTANTS
    Ceiling,           \* the CPU-derived ceiling: initial cap and upper bound
    IncreaseAfter,     \* CONCURRENCY_INCREASE_AFTER_SUCCESSES
    IdleResetMs        \* CONCURRENCY_IDLE_RESET_MS, in ticks

ASSUME ControllerAssumption ==
    /\ Ceiling \in Nat \ {0}
    /\ IncreaseAfter \in Nat \ {0}
    /\ IdleResetMs \in Nat \ {0}

Floor == 1             \* CONCURRENCY_FLOOR
IncreaseStep == 1      \* CONCURRENCY_INCREASE_STEP

None == -1             \* an optional field that is undefined

Smaller(m, n) == IF m < n THEN m ELSE n
Larger(m, n)  == IF m > n THEN m ELSE n

Controllers(Tickets) ==
    [cap: Nat, inFlight: Nat, waiters: Nat, successStreak: 0 .. IncreaseAfter,
     cooldown: Nat \cup {None}, sinceRequest: 0 .. IdleResetMs \cup {None},
     lastGood: Nat \cup {None}, lastBad: Nat \cup {None},
     thisEpoch: SUBSET Tickets]

NewController ==
    [cap |-> Ceiling, inFlight |-> 0, waiters |-> 0, successStreak |-> 0,
     cooldown |-> None, sinceRequest |-> None, lastGood |-> None, lastBad |-> None,
     thisEpoch |-> {}]

CanAdmit(c) == c.inFlight < c.cap /\ c.cooldown \in {None, 0}

Pristine(c) ==
    /\ c.cap = Ceiling
    /\ c.successStreak = 0
    /\ c.cooldown = None
    /\ c.lastGood = None
    /\ c.lastBad = None

NeedsIdleReset(c) ==
    /\ c.sinceRequest = IdleResetMs
    /\ c.inFlight = 0
    /\ ~Pristine(c)

IdleReset(c) ==
    IF NeedsIdleReset(c)
    THEN [c EXCEPT !.cap = Ceiling, !.successStreak = 0, !.cooldown = None,
                   !.lastGood = None, !.lastBad = None, !.thisEpoch = {}]
    ELSE c

Observe(c) == IdleReset(c)

Admitted(c, t) ==
    [c EXCEPT !.sinceRequest = 0, !.inFlight = @ + 1, !.thisEpoch = @ \cup {t}]

\* idleReset and inFlight--, the opening of every terminal signal; with the
\* request gone nobody holds ticket t any more.
Ended(c, t) ==
    [IdleReset(c) EXCEPT !.inFlight = Larger(0, @ - 1), !.thisEpoch = @ \ {t}]

\* Mutant of IsCurrent: the comparison of the epochs is dropped.
IsCurrentAny(c, t) == TRUE

IsCurrent(c, t) == t \in IdleReset(c).thisEpoch

\* The streak only matters as "0", "below K" and "at least K": it is counted
\* no further than IncreaseAfter.
Succeeded(c, t) ==
    LET d      == Ended(c, t)
        streak == Smaller(IncreaseAfter, d.successStreak + 1)
        proven == [d EXCEPT !.successStreak = streak, !.lastGood = Larger(@, d.cap)]
    IN  IF ~IsCurrent(c, t) THEN d
        ELSE IF streak < IncreaseAfter THEN [d EXCEPT !.successStreak = streak]
        ELSE IF d.waiters = 0 \/ d.cap >= Ceiling THEN proven
        ELSE [proven EXCEPT !.cap = Smaller(Ceiling, @ + IncreaseStep),
                            !.successStreak = 0]

\* Mutant of Throttled: no floor under the cut.
ThrottledToZero(c, t, retryAfter) ==
    LET d == [Ended(c, t) EXCEPT !.successStreak = 0]
    IN  IF ~IsCurrent(c, t) THEN d
        ELSE [d EXCEPT !.cap = (@ * 3) \div 4, !.lastBad = d.cap,
                       !.lastGood = None, !.thisEpoch = {}]

\* retryAfter = 0 stands for a missing (or non-positive) Retry-After.
Throttled(c, t, retryAfter) ==
    LET e == Ended(c, t)
        d == [e EXCEPT !.successStreak = 0,
                       !.cooldown = IF retryAfter > 0 THEN Larger(@, retryAfter) ELSE @]
    IN  IF ~IsCurrent(c, t) THEN d
        ELSE IF d.lastGood # None /\ d.cap > d.lastGood
        THEN [d EXCEPT !.lastBad = d.cap, !.cap = d.lastGood, !.thisEpoch = {}]
        ELSE [d EXCEPT !.cap = Larger(Floor, (@ * 3) \div 4), !.lastBad = d.cap,
                       !.lastGood = None, !.thisEpoch = {}]

FailedTransient(c, t) == [Ended(c, t) EXCEPT !.successStreak = 0]

\* Mutant of Waiters: a signal that resets the controller returns early.
WaitersUnlessReset(c, n) ==
    IF NeedsIdleReset(c) THEN IdleReset(c) ELSE [c EXCEPT !.waiters = n]

Waiters(c, n) == [IdleReset(c) EXCEPT !.waiters = n]

\* One tick of the clock, as every instant held relative to now sees it.
Elapse(c) ==
    [c EXCEPT !.cooldown = IF @ > 0 THEN @ - 1 ELSE @,
              !.sinceRequest = IF @ = None THEN None ELSE Smaller(IdleResetMs, @ + 1)]

\* The cap stays between the probe floor and the ceiling, and what a streak of
\* successes proved never exceeds what is in force.
ControllerOK(c) ==
    /\ c.cap \in Floor .. Ceiling
    /\ c.lastGood # None => c.lastGood \in Floor .. c.cap
    /\ c.lastBad # None => c.lastBad \in Floor .. Ceiling
===============================================================================
