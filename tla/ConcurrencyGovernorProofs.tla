----------------------- MODULE ConcurrencyGovernorProofs -----------------------
(***************************************************************************)
(* The inductive invariant of the governor, for every number of agents and *)
(* runs, every ceiling, streak length, idle time and Retry-After.          *)
(***************************************************************************)
EXTENDS ConcurrencyGovernor, WaitingLineLemmas, FiniteSetTheorems, TLAPS

\* What every method of the controller keeps: the shape of the record and the
\* bounds of the cap.
Sound(c, Tickets) == c \in Controllers(Tickets) /\ ControllerOK(c)

\* The ranges of the constants, in the form the record types need.
LEMMA ConstantRanges ==
    /\ 0 \in 0 .. IncreaseAfter
    /\ 0 \in 0 .. IdleResetMs
    /\ Ceiling \in Nat /\ Ceiling >= 1
BY ControllerAssumption

\* The types of the fields of a controller, one by one.
LEMMA FieldTypes ==
    ASSUME NEW Tickets, NEW c \in Controllers(Tickets)
    PROVE  /\ c.cap \in Nat /\ c.inFlight \in Nat /\ c.waiters \in Nat
           /\ c.successStreak \in 0 .. IncreaseAfter
           /\ c.cooldown \in Nat \cup {None}
           /\ c.sinceRequest \in 0 .. IdleResetMs \cup {None}
           /\ c.lastGood \in Nat \cup {None} /\ c.lastBad \in Nat \cup {None}
           /\ c.thisEpoch \in SUBSET Tickets
BY DEF Controllers

\* A fresh bucket starts at the ceiling.
LEMMA NewControllerSound == ASSUME NEW Tickets PROVE Sound(NewController, Tickets)
<1>1. NewController \in Controllers(Tickets)
  BY ConstantRanges DEF NewController, Controllers
<1>2. ControllerOK(NewController)
  BY ConstantRanges DEF NewController, ControllerOK, None, Floor
<1> QED BY <1>1, <1>2 DEF Sound

\* idleReset restores the ceiling and forgets everything learned.
LEMMA IdleResetSound ==
    ASSUME NEW Tickets, NEW c, Sound(c, Tickets)
    PROVE  /\ Sound(IdleReset(c), Tickets)
           /\ IdleReset(c).inFlight = c.inFlight
           /\ IdleReset(c).waiters = c.waiters
           /\ IdleReset(c).thisEpoch \subseteq c.thisEpoch
<1>1. CASE NeedsIdleReset(c)
  <2> DEFINE d == IdleReset(c)
  <2>1. d = [c EXCEPT !.cap = Ceiling, !.successStreak = 0, !.cooldown = None,
                      !.lastGood = None, !.lastBad = None, !.thisEpoch = {}]
    BY <1>1 DEF IdleReset
  <2> HIDE DEF d
  <2>2. c \in Controllers(Tickets)
    BY DEF Sound
  <2>3. d \in Controllers(Tickets)
    BY <2>1, <2>2, ConstantRanges DEF Controllers
  <2>4. /\ d.cap = Ceiling /\ d.lastGood = None /\ d.lastBad = None
        /\ d.inFlight = c.inFlight /\ d.waiters = c.waiters /\ d.thisEpoch = {}
    BY <2>1, <2>2 DEF Controllers
  <2>5. ControllerOK(d)
    BY <2>4, ConstantRanges DEF ControllerOK, Floor, None
  <2> QED BY <2>3, <2>4, <2>5 DEF Sound, d
<1>2. CASE ~NeedsIdleReset(c)
  BY <1>2 DEF IdleReset
<1> QED BY <1>1, <1>2

\* A change of fields that the bounds of the cap do not mention is harmless.
LEMMA SameCapOK ==
    ASSUME NEW c, NEW d, ControllerOK(c),
           d.cap = c.cap, d.lastGood = c.lastGood, d.lastBad = c.lastBad
    PROVE  ControllerOK(d)
BY DEF ControllerOK

\* admitted counts one request more, of the current epoch.
LEMMA AdmittedSound ==
    ASSUME NEW Tickets, NEW c, Sound(c, Tickets), NEW t \in Tickets
    PROVE  /\ Sound(Admitted(c, t), Tickets)
           /\ Admitted(c, t).inFlight = c.inFlight + 1
           /\ Admitted(c, t).thisEpoch = c.thisEpoch \cup {t}
<1> DEFINE d == Admitted(c, t)
<1>1. c \in Controllers(Tickets) /\ c.inFlight + 1 \in Nat
  BY FieldTypes DEF Sound
<1>2. d \in Controllers(Tickets)
  BY <1>1, ConstantRanges DEF Controllers, Admitted
<1>3. /\ d.cap = c.cap /\ d.lastGood = c.lastGood /\ d.lastBad = c.lastBad
      /\ d.inFlight = c.inFlight + 1 /\ d.thisEpoch = c.thisEpoch \cup {t}
  BY <1>1 DEF Controllers, Admitted
<1> QED BY <1>2, <1>3, SameCapOK DEF Sound

\* ended gives one slot back and keeps the cap, unless the key had been idle.
LEMMA EndedSound ==
    ASSUME NEW Tickets, NEW c, Sound(c, Tickets), NEW t
    PROVE  /\ Sound(Ended(c, t), Tickets)
           /\ Ended(c, t).inFlight = Larger(0, c.inFlight - 1)
           /\ Ended(c, t).waiters = c.waiters
           /\ Ended(c, t).thisEpoch \subseteq c.thisEpoch \ {t}
<1> DEFINE d == IdleReset(c)
           e == Ended(c, t)
<1>1. Sound(d, Tickets) /\ d.inFlight = c.inFlight /\ d.waiters = c.waiters
      /\ d.thisEpoch \subseteq c.thisEpoch
  BY IdleResetSound
<1>2. e = [d EXCEPT !.inFlight = Larger(0, @ - 1), !.thisEpoch = @ \ {t}]
  BY DEF Ended
<1> HIDE DEF d, e
<1>3. d \in Controllers(Tickets) /\ Larger(0, d.inFlight - 1) \in Nat
  BY <1>1, FieldTypes DEF Sound, Larger
<1>4. e \in Controllers(Tickets)
  BY <1>2, <1>3 DEF Controllers
<1>5. /\ e.cap = d.cap /\ e.lastGood = d.lastGood /\ e.lastBad = d.lastBad
      /\ e.inFlight = Larger(0, d.inFlight - 1) /\ e.thisEpoch = d.thisEpoch \ {t}
      /\ e.waiters = d.waiters
  BY <1>2, <1>3 DEF Controllers
<1>6. ControllerOK(e)
  BY <1>1, <1>5, SameCapOK DEF Sound
<1> QED BY <1>1, <1>4, <1>5, <1>6 DEF Sound, e

\* failedTransient is ended with the streak cleared.
LEMMA FailedTransientSound ==
    ASSUME NEW Tickets, NEW c, Sound(c, Tickets), NEW t
    PROVE  /\ Sound(FailedTransient(c, t), Tickets)
           /\ FailedTransient(c, t).inFlight = Larger(0, c.inFlight - 1)
           /\ FailedTransient(c, t).thisEpoch \subseteq c.thisEpoch \ {t}
<1> DEFINE e == Ended(c, t)
           d == FailedTransient(c, t)
<1>1. /\ Sound(e, Tickets) /\ e.inFlight = Larger(0, c.inFlight - 1)
      /\ e.thisEpoch \subseteq c.thisEpoch \ {t}
  BY EndedSound
<1>2. d = [e EXCEPT !.successStreak = 0]
  BY DEF FailedTransient
<1> HIDE DEF d, e
<1>3. e \in Controllers(Tickets)
  BY <1>1 DEF Sound
<1>4. d \in Controllers(Tickets)
  BY <1>2, <1>3, ConstantRanges DEF Controllers
<1>5. /\ d.cap = e.cap /\ d.lastGood = e.lastGood /\ d.lastBad = e.lastBad
      /\ d.inFlight = e.inFlight /\ d.thisEpoch = e.thisEpoch
  BY <1>2, <1>3 DEF Controllers
<1> QED BY <1>1, <1>4, <1>5, SameCapOK DEF Sound, d

\* waiters records the demand it is told.
LEMMA WaitersSound ==
    ASSUME NEW Tickets, NEW c, Sound(c, Tickets), NEW n \in Nat
    PROVE  /\ Sound(Waiters(c, n), Tickets)
           /\ Waiters(c, n).inFlight = c.inFlight
           /\ Waiters(c, n).waiters = n
           /\ Waiters(c, n).thisEpoch \subseteq c.thisEpoch
<1> DEFINE e == IdleReset(c)
           d == Waiters(c, n)
<1>1. Sound(e, Tickets) /\ e.inFlight = c.inFlight /\ e.thisEpoch \subseteq c.thisEpoch
  BY IdleResetSound
<1>2. d = [e EXCEPT !.waiters = n]
  BY DEF Waiters
<1> HIDE DEF d, e
<1>3. e \in Controllers(Tickets)
  BY <1>1 DEF Sound
<1>4. d \in Controllers(Tickets)
  BY <1>2, <1>3 DEF Controllers
<1>5. /\ d.cap = e.cap /\ d.lastGood = e.lastGood /\ d.lastBad = e.lastBad
      /\ d.inFlight = e.inFlight /\ d.thisEpoch = e.thisEpoch /\ d.waiters = n
  BY <1>2, <1>3 DEF Controllers
<1> QED BY <1>1, <1>4, <1>5, SameCapOK DEF Sound, d

\* The passing of time touches neither the cap nor the count.
LEMMA ElapseSound ==
    ASSUME NEW Tickets, NEW c, Sound(c, Tickets)
    PROVE  /\ Sound(Elapse(c), Tickets)
           /\ Elapse(c).inFlight = c.inFlight
           /\ Elapse(c).waiters = c.waiters
           /\ Elapse(c).thisEpoch = c.thisEpoch
<1> DEFINE cool  == IF c.cooldown > 0 THEN c.cooldown - 1 ELSE c.cooldown
           since == IF c.sinceRequest = None THEN None
                    ELSE Smaller(IdleResetMs, c.sinceRequest + 1)
           d     == Elapse(c)
<1>1. c \in Controllers(Tickets)
  BY DEF Sound
<1>2. cool \in Nat \cup {None}
  BY <1>1, FieldTypes DEF None
<1>3. since \in 0 .. IdleResetMs \cup {None}
  BY <1>1, FieldTypes, ControllerAssumption DEF None, Smaller
<1>4. d = [c EXCEPT !.cooldown = cool, !.sinceRequest = since]
  BY <1>1 DEF Elapse, Controllers
<1> HIDE DEF cool, since, d
<1>5. d \in Controllers(Tickets)
  BY <1>1, <1>2, <1>3, <1>4 DEF Controllers
<1>6. /\ d.cap = c.cap /\ d.lastGood = c.lastGood /\ d.lastBad = c.lastBad
      /\ d.inFlight = c.inFlight /\ d.thisEpoch = c.thisEpoch /\ d.waiters = c.waiters
  BY <1>1, <1>4 DEF Controllers
<1> QED BY <1>5, <1>6, SameCapOK DEF Sound, d

\* A success may raise the cap by one, up to the ceiling, and only after the
\* present level has been recorded as proved.
LEMMA SucceededSound ==
    ASSUME NEW Tickets, NEW c, Sound(c, Tickets), NEW t
    PROVE  /\ Sound(Succeeded(c, t), Tickets)
           /\ Succeeded(c, t).inFlight = Larger(0, c.inFlight - 1)
           /\ Succeeded(c, t).waiters = c.waiters
           /\ Succeeded(c, t).thisEpoch \subseteq c.thisEpoch \ {t}
<1> DEFINE d      == Ended(c, t)
           streak == Smaller(IncreaseAfter, d.successStreak + 1)
           proven == [d EXCEPT !.successStreak = streak, !.lastGood = Larger(@, d.cap)]
           raised == [proven EXCEPT !.cap = Smaller(Ceiling, @ + IncreaseStep),
                                    !.successStreak = 0]
           e      == Succeeded(c, t)
<1>1. /\ Sound(d, Tickets) /\ d.inFlight = Larger(0, c.inFlight - 1)
      /\ d.waiters = c.waiters /\ d.thisEpoch \subseteq c.thisEpoch \ {t}
  BY EndedSound
<1>2. e = IF ~IsCurrent(c, t) THEN d
          ELSE IF streak < IncreaseAfter THEN [d EXCEPT !.successStreak = streak]
          ELSE IF d.waiters = 0 \/ d.cap >= Ceiling THEN proven
          ELSE raised
  BY DEF Succeeded
<1> HIDE DEF d, e
<1>3. d \in Controllers(Tickets) /\ ControllerOK(d)
  BY <1>1 DEF Sound
<1>4. streak \in 0 .. IncreaseAfter
  BY <1>3, FieldTypes, ControllerAssumption DEF Smaller
<1>5. d.cap \in Nat /\ d.cap >= 1 /\ d.cap <= Ceiling
  BY <1>3, FieldTypes, ConstantRanges DEF ControllerOK, Floor
<1>6. Larger(d.lastGood, d.cap) = d.cap
  <2>1. d.lastGood \in Nat \cup {None} /\ (d.lastGood # None => d.lastGood <= d.cap)
    BY <1>3, FieldTypes DEF ControllerOK, Floor
  <2> QED BY <2>1, <1>5 DEF Larger, None
<1> HIDE DEF streak
<1>7. proven \in Controllers(Tickets)
  BY <1>3, <1>4, <1>5, <1>6 DEF Controllers
<1>8. /\ proven.cap = d.cap /\ proven.lastGood = d.cap /\ proven.lastBad = d.lastBad
      /\ proven.inFlight = d.inFlight /\ proven.thisEpoch = d.thisEpoch
      /\ proven.waiters = d.waiters
  BY <1>3, <1>6 DEF Controllers
<1> HIDE DEF proven
<1>9. CASE e = d
  BY <1>1, <1>9 DEF e
<1>10. CASE e = [d EXCEPT !.successStreak = streak]
  <2>1. e \in Controllers(Tickets)
    BY <1>3, <1>4, <1>10 DEF Controllers
  <2>2. /\ e.cap = d.cap /\ e.lastGood = d.lastGood /\ e.lastBad = d.lastBad
        /\ e.inFlight = d.inFlight /\ e.thisEpoch = d.thisEpoch /\ e.waiters = d.waiters
    BY <1>3, <1>10 DEF Controllers
  <2> QED BY <1>1, <1>3, <2>1, <2>2, SameCapOK DEF Sound, e
<1>11. CASE e = proven
  <2>1. ControllerOK(e)
    BY <1>3, <1>5, <1>8, <1>11 DEF ControllerOK, Floor
  <2> QED BY <1>1, <1>7, <1>8, <1>11, <2>1 DEF Sound, e
<1>12. CASE e = raised /\ d.cap < Ceiling
  <2> DEFINE new == Smaller(Ceiling, proven.cap + IncreaseStep)
  <2>1. new \in Nat /\ new >= d.cap /\ new >= 1 /\ new <= Ceiling
    BY <1>5, <1>8, <1>12, ConstantRanges DEF Smaller, IncreaseStep
  <2>2. e = [proven EXCEPT !.cap = new, !.successStreak = 0]
    BY <1>12, <1>7 DEF Controllers
  <2> HIDE DEF new
  <2>3. e \in Controllers(Tickets)
    BY <2>1, <2>2, <1>7, ConstantRanges DEF Controllers
  <2>4. /\ e.cap = new /\ e.lastGood = d.cap /\ e.lastBad = d.lastBad
        /\ e.inFlight = d.inFlight /\ e.thisEpoch = d.thisEpoch /\ e.waiters = d.waiters
    BY <1>7, <1>8, <2>2 DEF Controllers
  <2>5. ControllerOK(e)
    BY <1>3, <1>5, <2>1, <2>4 DEF ControllerOK, Floor
  <2> QED BY <1>1, <2>3, <2>4, <2>5 DEF Sound, e
<1> QED BY <1>2, <1>5, <1>9, <1>10, <1>11, <1>12, ConstantRanges

\* A 429 of the current epoch falls back to the proved level or to three
\* quarters of the cap, never below one; any other 429 leaves the cap alone.
LEMMA ThrottledSound ==
    ASSUME NEW Tickets, NEW c, Sound(c, Tickets), NEW t, NEW ms \in Nat
    PROVE  /\ Sound(Throttled(c, t, ms), Tickets)
           /\ Throttled(c, t, ms).inFlight = Larger(0, c.inFlight - 1)
           /\ Throttled(c, t, ms).waiters = c.waiters
           /\ Throttled(c, t, ms).thisEpoch \subseteq c.thisEpoch \ {t}
<1> DEFINE e    == Ended(c, t)
           cool == IF ms > 0 THEN Larger(e.cooldown, ms) ELSE e.cooldown
           d    == [e EXCEPT !.successStreak = 0, !.cooldown = cool]
           less == Larger(Floor, (d.cap * 3) \div 4)
           f    == Throttled(c, t, ms)
<1>1. /\ Sound(e, Tickets) /\ e.inFlight = Larger(0, c.inFlight - 1)
      /\ e.waiters = c.waiters /\ e.thisEpoch \subseteq c.thisEpoch \ {t}
  BY EndedSound
<1>2. e \in Controllers(Tickets)
  BY <1>1 DEF Sound
<1>3. f = IF ~IsCurrent(c, t) THEN d
          ELSE IF d.lastGood # None /\ d.cap > d.lastGood
          THEN [d EXCEPT !.lastBad = d.cap, !.cap = d.lastGood, !.thisEpoch = {}]
          ELSE [d EXCEPT !.cap = Larger(Floor, (@ * 3) \div 4), !.lastBad = d.cap,
                         !.lastGood = None, !.thisEpoch = {}]
  BY <1>2 DEF Throttled, Controllers
<1> HIDE DEF e, f
<1>4. cool \in Nat \cup {None}
  BY <1>2, FieldTypes DEF Larger
<1> HIDE DEF cool
<1>5. d \in Controllers(Tickets)
  BY <1>2, <1>4, ConstantRanges DEF Controllers
<1>6. /\ d.cap = e.cap /\ d.lastGood = e.lastGood /\ d.lastBad = e.lastBad
      /\ d.inFlight = e.inFlight /\ d.thisEpoch = e.thisEpoch /\ d.waiters = e.waiters
  BY <1>2 DEF Controllers
<1>7. ControllerOK(d)
  BY <1>1, <1>6, SameCapOK DEF Sound
<1> HIDE DEF d
<1>8. /\ d.cap \in Nat /\ d.cap >= 1 /\ d.cap <= Ceiling
      /\ d.lastGood \in Nat \cup {None}
      /\ d.lastGood # None => d.lastGood >= 1 /\ d.lastGood <= d.cap
  BY <1>5, <1>7, FieldTypes, ConstantRanges DEF ControllerOK, Floor
<1>9. CASE f = d
  BY <1>1, <1>5, <1>6, <1>7, <1>9 DEF Sound, f
<1>10. CASE /\ d.lastGood # None
            /\ f = [d EXCEPT !.lastBad = d.cap, !.cap = d.lastGood, !.thisEpoch = {}]
  <2>1. d.lastGood \in Nat
    BY <1>8, <1>10
  <2>2. f \in Controllers(Tickets)
    BY <1>5, <1>8, <1>10, <2>1 DEF Controllers
  <2>3. /\ f.cap = d.lastGood /\ f.lastGood = d.lastGood /\ f.lastBad = d.cap
        /\ f.inFlight = d.inFlight /\ f.thisEpoch = {} /\ f.waiters = d.waiters
    BY <1>5, <1>10 DEF Controllers
  <2>4. ControllerOK(f)
    BY <1>8, <1>10, <2>3, ConstantRanges DEF ControllerOK, Floor
  <2> QED BY <1>1, <1>6, <2>2, <2>3, <2>4 DEF Sound, f
<1>11. CASE f = [d EXCEPT !.cap = Larger(Floor, (@ * 3) \div 4), !.lastBad = d.cap,
                          !.lastGood = None, !.thisEpoch = {}]
  <2>1. less \in Nat /\ less >= 1 /\ less <= d.cap
    BY <1>8 DEF Larger, Floor
  <2>2. f = [d EXCEPT !.cap = less, !.lastBad = d.cap, !.lastGood = None,
                      !.thisEpoch = {}]
    BY <1>5, <1>11 DEF Controllers
  <2> HIDE DEF less
  <2>3. f \in Controllers(Tickets)
    BY <1>5, <1>8, <2>1, <2>2 DEF Controllers
  <2>4. /\ f.cap = less /\ f.lastGood = None /\ f.lastBad = d.cap
        /\ f.inFlight = d.inFlight /\ f.thisEpoch = {} /\ f.waiters = d.waiters
    BY <1>5, <2>2 DEF Controllers
  <2>5. ControllerOK(f)
    BY <1>8, <2>1, <2>4, ConstantRanges DEF ControllerOK, Floor
  <2> QED BY <1>1, <1>6, <2>3, <2>4, <2>5 DEF Sound, f
<1> QED BY <1>3, <1>9, <1>10, <1>11

-----------------------------------------------------------------------------
\* The load: the controller and the tickets it has counted.
LoadInv ==
    /\ Sound(ctl, Agents)
    /\ req \in [Agents -> RequestStates]
    /\ InFlightCounted
    /\ EpochOfHolders

\* The queues, their order in the Map and the waiters in them.
QueueInv ==
    /\ queues \in [Runs -> Seq(Agents)]
    /\ order \in Seq(Runs)
    /\ QueuesExact

IInv ==
    /\ LoadInv
    /\ QueueInv
    /\ WaitersFresh
    /\ lastGrantedRun \in Runs \cup {Observer, NoRun}
    /\ wake \in Nat \cup {None}
    /\ draining \in BOOLEAN

\* Subsets of the agents can be counted, and counting moves by one.
LEMMA Counting ==
    ASSUME NEW A, A \subseteq Agents
    PROVE  /\ Cardinality(A) \in Nat
           /\ \A a \in Agents \ A : Cardinality(A \cup {a}) = Cardinality(A) + 1
           /\ \A a \in A : Cardinality(A \ {a}) = Cardinality(A) - 1
           /\ \A a \in A : Cardinality(A) > 0
<1>1. IsFiniteSet(A)
  BY GovernorAssumption, FS_Subset
<1>2. Cardinality(A) \in Nat
  BY <1>1, FS_CardinalityType
<1>3. \A a \in Agents \ A : Cardinality(A \cup {a}) = Cardinality(A) + 1
  BY <1>1, FS_AddElement
<1>4. \A a \in A : Cardinality(A \ {a}) = Cardinality(A) - 1
  BY <1>1, FS_RemoveElement
<1>5. \A a \in A : Cardinality(A) > 0
  BY <1>1, <1>2, FS_EmptySet
<1> QED BY <1>2, <1>3, <1>4, <1>5

\* A step that leaves the tickets alone keeps the load, if the controller
\* keeps its count and admits nobody.
LEMMA SameLoad ==
    ASSUME LoadInv, Sound(ctl', Agents), req' \in [Agents -> RequestStates],
           ctl'.inFlight = ctl.inFlight, ctl'.thisEpoch \subseteq ctl.thisEpoch,
           InFlight' = InFlight
    PROVE  LoadInv'
BY DEF LoadInv, InFlightCounted, EpochOfHolders

\* A grant is counted once and joins the current epoch.
LEMMA GrantLoad ==
    ASSUME LoadInv, NEW a \in Agents, req[a] # "inflight",
           NEW c, Sound(c, Agents), c.inFlight = ctl.inFlight,
           c.thisEpoch \subseteq ctl.thisEpoch, Grant(a, c)
    PROVE  LoadInv'
<1> DEFINE d == Observe(c)
<1>1. Sound(d, Agents) /\ d.inFlight = ctl.inFlight /\ d.thisEpoch \subseteq ctl.thisEpoch
  BY IdleResetSound DEF Observe
<1>2. ctl' = Admitted(d, a) /\ req' = [req EXCEPT ![a] = "inflight"]
  BY DEF Grant
<1> HIDE DEF d
<1>3. /\ Sound(ctl', Agents) /\ ctl'.inFlight = ctl.inFlight + 1
      /\ ctl'.thisEpoch = d.thisEpoch \cup {a}
  BY <1>1, <1>2, AdmittedSound
<1>4. req' \in [Agents -> RequestStates]
  BY <1>2 DEF LoadInv, RequestStates
<1>5. InFlight' = InFlight \cup {a} /\ InFlight \subseteq Agents /\ a \notin InFlight
  BY <1>2 DEF LoadInv, InFlight
<1>6. InFlightCounted'
  BY <1>3, <1>5, Counting DEF LoadInv, InFlightCounted
<1>7. EpochOfHolders'
  BY <1>1, <1>3, <1>5 DEF LoadInv, EpochOfHolders
<1> QED BY <1>3, <1>4, <1>6, <1>7 DEF LoadInv

\* A settled ticket gives back its slot and leaves the epoch, whatever its
\* signal was.
LEMMA SettleLoad ==
    ASSUME LoadInv, NEW a \in Agents, req[a] = "inflight",
           NEW c, Sound(c, Agents), c.inFlight = Larger(0, ctl.inFlight - 1),
           c.thisEpoch \subseteq ctl.thisEpoch \ {a},
           ctl' = Observe(c), req' = [req EXCEPT ![a] = "idle"]
    PROVE  LoadInv'
<1>1. /\ Sound(ctl', Agents) /\ ctl'.inFlight = Larger(0, ctl.inFlight - 1)
      /\ ctl'.thisEpoch \subseteq ctl.thisEpoch \ {a}
  BY IdleResetSound DEF Observe
<1>2. req' \in [Agents -> RequestStates]
  BY DEF LoadInv, RequestStates
<1>3. InFlight' = InFlight \ {a} /\ InFlight \subseteq Agents /\ a \in InFlight
  BY DEF LoadInv, InFlight
<1>4. InFlightCounted'
  <2>1. /\ Cardinality(InFlight') = Cardinality(InFlight) - 1
        /\ Cardinality(InFlight) \in Nat /\ Cardinality(InFlight) > 0
    BY <1>3, Counting
  <2> QED BY <1>1, <2>1 DEF LoadInv, InFlightCounted, Larger
<1>5. EpochOfHolders'
  BY <1>1, <1>3 DEF LoadInv, EpochOfHolders
<1> QED BY <1>1, <1>2, <1>4, <1>5 DEF LoadInv
-----------------------------------------------------------------------------
\* The waiters in the queues are the agents whose request is queued.
LEMMA WaitingIsQueued ==
    ASSUME QueueInv
    PROVE  /\ Waiting = {a \in Agents : req[a] = "queued"}
           /\ WaiterCount \in Nat
           /\ Waiting = {} => WaiterCount = 0
           /\ \A r \in Runs : r \in Elements(order) <=> queues[r] # <<>>
<1>1. Waiting = {a \in Agents : req[a] = "queued"}
  BY DEF QueueInv, QueuesExact, Waiting, Queued
<1>2. WaiterCount \in Nat
  BY <1>1, Counting DEF WaiterCount
<1>3. Waiting = {} => WaiterCount = 0
  BY FS_EmptySet DEF WaiterCount
<1>4. ASSUME NEW r \in Runs PROVE r \in Elements(order) <=> queues[r] # <<>>
  <2>1. queues[r] \in Seq(Agents)
    BY DEF QueueInv
  <2>2. queues[r] # <<>> <=> Elements(queues[r]) # {}
    BY <2>1, EmptyIffNoElements
  <2> QED BY <2>2 DEF QueueInv, QueuesExact
<1> QED BY <1>1, <1>2, <1>3, <1>4

\* Steps that neither queue nor release a waiter.
LEMMA SameQueues ==
    ASSUME QueueInv, UNCHANGED <<queues, order>>,
           \A a \in Agents : req'[a] = "queued" <=> req[a] = "queued",
           \A a \in Agents : req'[a] = "missed" => RunOf[a] \in Runs
    PROVE  QueueInv' /\ Waiting' = Waiting
<1>1. \A r : Queued(r)' = Queued(r)
  BY DEF Queued
<1>2. QueuesExact'
  BY <1>1 DEF QueueInv, QueuesExact
<1> QED BY <1>2 DEF QueueInv, Waiting

\* push(waiter), and set() of the run's queue in the Map.
LEMMA Enqueue ==
    ASSUME QueueInv, NEW a \in Agents, req \in [Agents -> RequestStates],
           req[a] = "missed", NEW r, r = RunOf[a],
           req' = [req EXCEPT ![a] = "queued"],
           queues' = [queues EXCEPT ![r] = Append(@, a)],
           order' = IF queues[r] = <<>> THEN Append(order, r) ELSE order
    PROVE  QueueInv'
<1>1. r \in Runs /\ queues[r] \in Seq(Agents) /\ order \in Seq(Runs)
  BY DEF QueueInv, QueuesExact
<1>2. a \notin Elements(queues[r]) /\ Distinct(queues[r]) /\ Distinct(order)
  BY <1>1 DEF QueueInv, QueuesExact, Queued
<1>3. /\ Append(queues[r], a) \in Seq(Agents) /\ Distinct(Append(queues[r], a))
      /\ Elements(Append(queues[r], a)) = Elements(queues[r]) \cup {a}
  BY <1>1, <1>2, AppendElements
<1>4. queues' \in [Runs -> Seq(Agents)]
  BY <1>3 DEF QueueInv
<1>5. \A s \in Runs : Queued(s)' = IF s = r THEN Queued(s) \cup {a} ELSE Queued(s)
  BY DEF Queued, QueueInv
<1>6. \A s \in Runs : Elements(queues'[s]) = Queued(s)' /\ Distinct(queues'[s])
  BY <1>1, <1>3, <1>5 DEF QueueInv, QueuesExact
<1>7. /\ order' \in Seq(Runs) /\ Distinct(order')
      /\ Elements(order') = Elements(order) \cup {r}
  <2>1. CASE queues[r] = <<>>
    BY <1>1, <1>2, <2>1, AppendElements, WaitingIsQueued
  <2>2. CASE queues[r] # <<>>
    BY <1>1, <1>2, <2>2, WaitingIsQueued
  <2> QED BY <2>1, <2>2
<1>8. Elements(order') = {s \in Runs : Queued(s)' # {}}
  BY <1>1, <1>5, <1>7 DEF QueueInv, QueuesExact
<1>9. \A b \in Agents : req'[b] \in {"missed", "queued"} => RunOf[b] \in Runs
  BY <1>1 DEF QueueInv, QueuesExact
<1> QED BY <1>4, <1>6, <1>7, <1>8, <1>9 DEF QueueInv, QueuesExact

LEMMA EmptyLine == ASSUME NEW S, NEW u \in Seq(S) PROVE u = <<>> <=> Elements(u) = {}
<1>1. DOMAIN u = 1 .. Len(u) /\ Len(u) \in Nat
  OBVIOUS
<1>2. Len(<<>>) = 0 /\ (u # <<>> => Len(u) # 0)
  BY EmptySeq
<1>3. CASE u = <<>>
  BY <1>1, <1>2, <1>3 DEF Elements
<1>4. CASE u # <<>>
  <2>1. 1 \in DOMAIN u
    BY <1>1, <1>2, <1>4
  <2> QED BY <1>4, <2>1 DEF Elements
<1> QED BY <1>3, <1>4

\* A waiter leaves the queue of its run, which leaves the Map when it is empty.
LEMMA Dequeue ==
    ASSUME QueueInv, req \in [Agents -> RequestStates],
           NEW r \in Runs, NEW i \in DOMAIN queues[r],
           NEW st \in {"idle", "inflight"},
           req' = [req EXCEPT ![queues[r][i]] = st],
           queues' = [queues EXCEPT ![r] = Without(queues[r], i)],
           IF Without(queues[r], i) = <<>>
           THEN \E k \in DOMAIN order : order[k] = r /\ order' = Without(order, k)
           ELSE order' = order
    PROVE  QueueInv' /\ Waiting' = Waiting \ {queues[r][i]}
<1> DEFINE a == queues[r][i]
           q == Without(queues[r], i)
<1>1. queues[r] \in Seq(Agents) /\ order \in Seq(Runs)
  BY DEF QueueInv
<1>2. Distinct(queues[r]) /\ Distinct(order) /\ Elements(queues[r]) = Queued(r)
  BY DEF QueueInv, QueuesExact
<1>3. a \in Agents /\ req[a] = "queued" /\ RunOf[a] = r
  BY <1>1, <1>2 DEF Elements, Queued
<1>4. q \in Seq(Agents) /\ Distinct(q) /\ Elements(q) = Elements(queues[r]) \ {a}
  BY <1>1, <1>2, WithoutElements
<1>5. q = <<>> <=> Elements(q) = {}
  BY <1>4, EmptyLine
<1> HIDE DEF a, q
<1>6. req' = [req EXCEPT ![a] = st] /\ queues' = [queues EXCEPT ![r] = q]
  BY DEF a, q
<1>7. queues' \in [Runs -> Seq(Agents)]
  BY <1>4, <1>6 DEF QueueInv
<1>8. \A s \in Runs : Queued(s)' = IF s = r THEN Queued(s) \ {a} ELSE Queued(s)
  BY <1>3, <1>6 DEF Queued
<1>9. \A s \in Runs : Elements(queues'[s]) = Queued(s)' /\ Distinct(queues'[s])
  BY <1>2, <1>4, <1>6, <1>8 DEF QueueInv, QueuesExact
<1>10. /\ order' \in Seq(Runs) /\ Distinct(order')
       /\ Elements(order') = IF q = <<>> THEN Elements(order) \ {r} ELSE Elements(order)
  <2>1. CASE q = <<>>
    <3>1. PICK k \in DOMAIN order : order[k] = r /\ order' = Without(order, k)
      BY <2>1 DEF q
    <3> QED BY <1>1, <1>2, <2>1, <3>1, WithoutElements
  <2>2. CASE q # <<>>
    BY <1>1, <1>2, <2>2 DEF q
  <2> QED BY <2>1, <2>2
<1>11. Elements(order') = {s \in Runs : Queued(s)' # {}}
  <2>1. Queued(r)' = Elements(q)
    BY <1>2, <1>4, <1>8
  <2>2. Elements(order) = {s \in Runs : Queued(s) # {}}
    BY DEF QueueInv, QueuesExact
  <2>3. Queued(r) # {}
    BY <1>3 DEF Queued
  <2> QED BY <1>5, <1>8, <1>10, <2>1, <2>2, <2>3
<1>12. \A b \in Agents : req'[b] \in {"missed", "queued"} => RunOf[b] \in Runs
  BY <1>3, <1>6 DEF QueueInv, QueuesExact
<1>13. QueueInv'
  BY <1>7, <1>9, <1>10, <1>11, <1>12 DEF QueueInv, QueuesExact
<1>14. Waiting' = Waiting \ {a}
  <2>1. Waiting = UNION {Queued(s) : s \in Runs}
    BY DEF Waiting, QueueInv, QueuesExact
  <2>2. Waiting' = UNION {Queued(s)' : s \in Runs}
    BY <1>9 DEF Waiting
  <2>3. \A s \in Runs : Queued(s)' = Queued(s) \ {a}
    BY <1>3, <1>8 DEF Queued
  <2> QED BY <2>1, <2>2, <2>3
<1> QED BY <1>13, <1>14 DEF a
-----------------------------------------------------------------------------
\* The rotation picks a run that has waiters.
LEMMA NextRunWaits ==
    ASSUME QueueInv, order # <<>>
    PROVE  NextRunWithWaiters \in Runs /\ queues[NextRunWithWaiters] # <<>>
<1> DEFINE last == {i \in DOMAIN order : order[i] = lastGrantedRun}
           i    == IF last = {} THEN 0 ELSE CHOOSE k \in last : TRUE
<1>1. /\ order \in Seq(Runs) /\ DOMAIN order = 1 .. Len(order)
      /\ Len(order) \in Nat /\ Len(order) # 0
  BY EmptySeq, LenProperties DEF QueueInv
<1>2. i \in Nat
  BY <1>1
<1>3. (i % Len(order)) + 1 \in DOMAIN order
  <2> HIDE DEF i
  <2>1. i % Len(order) \in 0 .. (Len(order) - 1)
    BY <1>1, <1>2
  <2> QED BY <1>1, <2>1
<1>4. NextRunWithWaiters = order[(i % Len(order)) + 1]
  BY DEF NextRunWithWaiters
<1> HIDE DEF i
<1>5. NextRunWithWaiters \in Elements(order) /\ NextRunWithWaiters \in Runs
  BY <1>1, <1>3, <1>4 DEF Elements
<1> QED BY <1>5, WaitingIsQueued

\* Consequences of the invariant that every step starts from.
LEMMA Basics ==
    ASSUME IInv
    PROVE  /\ ctl.cooldown \in Nat \cup {None}
           /\ Sound(Observe(ctl), Agents)
           /\ Observe(ctl).inFlight = ctl.inFlight
           /\ Observe(ctl).waiters = ctl.waiters
           /\ Observe(ctl).thisEpoch \subseteq ctl.thisEpoch
           /\ WaiterCount \in Nat
BY FieldTypes, IdleResetSound, WaitingIsQueued DEF IInv, LoadInv, Sound, Observe

\* The fast path grants, or sends its caller to the queue.
LEMMA TryAdmitStep ==
    ASSUME IInv, ~draining, NEW a \in Agents, req[a] \in {"idle", "missed"},
           RunOf[a] \in Runs, TryAdmit(a), UNCHANGED <<queues, order, wake, draining>>
    PROVE  IInv'
<1> DEFINE c == Observe(ctl)
<1>1. /\ Sound(c, Agents) /\ c.inFlight = ctl.inFlight /\ c.waiters = ctl.waiters
      /\ c.thisEpoch \subseteq ctl.thisEpoch
  BY Basics
<1>2. \/ Grant(a, c)
      \/ ctl' = c /\ req' = [req EXCEPT ![a] = "missed"] /\ UNCHANGED lastGrantedRun
  BY DEF TryAdmit
<1> HIDE DEF c
<1>3. req \in [Agents -> RequestStates]
  BY DEF IInv, LoadInv
<1>4. QueueInv' /\ Waiting' = Waiting
  <2>1. \E st \in {"missed", "inflight"} : req' = [req EXCEPT ![a] = st]
    BY <1>2 DEF Grant
  <2>2. \A b \in Agents : req[b] = "missed" => RunOf[b] \in Runs
    BY DEF IInv, QueueInv, QueuesExact
  <2> QED BY <1>3, <2>1, <2>2, SameQueues DEF IInv
<1>5. CASE Grant(a, c)
  <2>1. LoadInv'
    BY <1>1, <1>5, GrantLoad DEF IInv
  <2>2. ctl'.waiters = ctl.waiters
    <3>1. IdleReset(c).waiters = c.waiters /\ Sound(IdleReset(c), Agents)
      BY <1>1, IdleResetSound
    <3>2. Admitted(IdleReset(c), a).waiters = IdleReset(c).waiters
      BY <3>1 DEF Admitted, Sound, Controllers
    <3> QED BY <1>1, <1>5, <3>1, <3>2 DEF Grant, Observe
  <2>3. WaitersFresh'
    BY <1>4, <2>2 DEF IInv, WaitersFresh, WaiterCount
  <2> QED BY <1>4, <1>5, <2>1, <2>3 DEF IInv, Grant
<1>6. CASE ctl' = c /\ req' = [req EXCEPT ![a] = "missed"] /\ UNCHANGED lastGrantedRun
  <2>1. InFlight' = InFlight
    BY <1>3, <1>6 DEF InFlight
  <2>2. req' \in [Agents -> RequestStates]
    BY <1>3, <1>6 DEF RequestStates
  <2>3. LoadInv'
    BY <1>1, <1>6, <2>1, <2>2, SameLoad DEF IInv
  <2>4. WaitersFresh'
    BY <1>1, <1>4, <1>6 DEF IInv, WaitersFresh, WaiterCount
  <2> QED BY <1>4, <1>6, <2>3, <2>4 DEF IInv
<1> QED BY <1>2, <1>5, <1>6

\* The main agent's grant.
LEMMA ObserverStep ==
    ASSUME IInv, NEW a \in Agents, ObserverAcquire(a)
    PROVE  IInv'
<1> DEFINE c == Observe(ctl)
<1>1. /\ Sound(c, Agents) /\ c.inFlight = ctl.inFlight /\ c.waiters = ctl.waiters
      /\ c.thisEpoch \subseteq ctl.thisEpoch
  BY Basics
<1>2. Grant(a, c) /\ req[a] = "idle" /\ RunOf[a] = Observer /\ ~draining
  BY DEF ObserverAcquire
<1>3. UNCHANGED <<queues, order, wake, draining>>
  BY DEF ObserverAcquire
<1> HIDE DEF c
<1>4. LoadInv'
  BY <1>1, <1>2, GrantLoad DEF IInv
<1>5. QueueInv' /\ Waiting' = Waiting
  <2>1. req \in [Agents -> RequestStates] /\ req' = [req EXCEPT ![a] = "inflight"]
    BY <1>2 DEF IInv, LoadInv, Grant
  <2>2. \A b \in Agents : req[b] = "missed" => RunOf[b] \in Runs
    BY DEF IInv, QueueInv, QueuesExact
  <2> QED BY <1>2, <1>3, <2>1, <2>2, SameQueues DEF IInv
<1>6. ctl'.waiters = ctl.waiters
  <2>1. IdleReset(c).waiters = c.waiters /\ Sound(IdleReset(c), Agents)
    BY <1>1, IdleResetSound
  <2>2. Admitted(IdleReset(c), a).waiters = IdleReset(c).waiters
    BY <2>1 DEF Admitted, Sound, Controllers
  <2> QED BY <1>1, <1>2, <2>1, <2>2 DEF Grant, Observe
<1>7. WaitersFresh'
  BY <1>3, <1>5, <1>6 DEF IInv, WaitersFresh, WaiterCount
<1> QED BY <1>2, <1>3, <1>4, <1>5, <1>7 DEF IInv, Grant

\* Joining the queue.
LEMMA AcquireStep ==
    ASSUME IInv, NEW a \in Agents, Acquire(a)
    PROVE  IInv'
<1> DEFINE r == RunOf[a]
           c == Observe(ctl)
<1>1. /\ Sound(c, Agents) /\ c.inFlight = ctl.inFlight
      /\ c.thisEpoch \subseteq ctl.thisEpoch
  BY Basics
<1>2. ~draining /\ req[a] = "missed" /\ r \in Runs /\ req \in [Agents -> RequestStates]
  BY DEF Acquire, IInv, LoadInv, QueueInv, QueuesExact
<1>3. CASE WaiterCount = 0 /\ CanAdmit(c)
  <2>1. TryAdmit(a) /\ UNCHANGED <<queues, order, wake, draining>>
    BY <1>3 DEF Acquire, TryAdmit
  <2> QED BY <1>2, <2>1, TryAdmitStep
<1>4. CASE ~(WaiterCount = 0 /\ CanAdmit(c))
  <2>1. /\ req' = [req EXCEPT ![a] = "queued"]
        /\ queues' = [queues EXCEPT ![r] = Append(@, a)]
        /\ order' = IF queues[r] = <<>> THEN Append(order, r) ELSE order
        /\ ctl' = Observe(c) /\ draining' = TRUE
        /\ UNCHANGED <<lastGrantedRun, wake>>
    BY <1>4 DEF Acquire, StartDrain
  <2> HIDE DEF c, r
  <2>2. QueueInv'
    BY <1>2, <2>1, Enqueue DEF IInv, r
  <2>3. /\ Sound(ctl', Agents) /\ ctl'.inFlight = ctl.inFlight
        /\ ctl'.thisEpoch \subseteq ctl.thisEpoch
    BY <1>1, <2>1, IdleResetSound DEF Observe
  <2>4. InFlight' = InFlight /\ req' \in [Agents -> RequestStates]
    BY <1>2, <2>1 DEF InFlight, RequestStates
  <2>5. LoadInv'
    BY <2>3, <2>4, SameLoad DEF IInv
  <2> QED BY <2>1, <2>2, <2>5 DEF IInv, WaitersFresh
<1> QED BY <1>3, <1>4

\* A signal aborted before its request reached the queue.
LEMMA AbortBeforeQueueStep ==
    ASSUME IInv, NEW a \in Agents, AbortBeforeQueue(a)
    PROVE  IInv'
<1> DEFINE c == Observe(ctl)
<1>1. /\ Sound(c, Agents) /\ c.inFlight = ctl.inFlight /\ c.waiters = ctl.waiters
      /\ c.thisEpoch \subseteq ctl.thisEpoch
  BY Basics
<1>2. /\ ~draining /\ req[a] = "missed" /\ RunOf[a] \in Runs
      /\ req \in [Agents -> RequestStates] /\ UNCHANGED <<queues, order, wake, draining>>
  BY DEF AbortBeforeQueue, IInv, LoadInv, QueueInv, QueuesExact
<1>3. CASE TryAdmit(a)
  BY <1>2, <1>3, TryAdmitStep
<1>4. CASE ctl' = c /\ req' = [req EXCEPT ![a] = "idle"] /\ UNCHANGED lastGrantedRun
  <2> HIDE DEF c
  <2>1. InFlight' = InFlight /\ req' \in [Agents -> RequestStates]
    BY <1>2, <1>4 DEF InFlight, RequestStates
  <2>2. LoadInv'
    BY <1>1, <1>4, <2>1, SameLoad DEF IInv
  <2>3. QueueInv' /\ Waiting' = Waiting
    <3>1. \A b \in Agents : req[b] = "missed" => RunOf[b] \in Runs
      BY DEF IInv, QueueInv, QueuesExact
    <3> QED BY <1>2, <1>4, <3>1, SameQueues DEF IInv
  <2>4. WaitersFresh'
    BY <1>1, <1>2, <1>4, <2>3 DEF IInv, WaitersFresh, WaiterCount
  <2> QED BY <1>2, <1>4, <2>2, <2>3, <2>4 DEF IInv
<1> QED BY <1>3, <1>4 DEF AbortBeforeQueue

\* The timer armed from a controller and a count is a time or nothing.
LEMMA ArmedWakeType ==
    ASSUME NEW c, Sound(c, Agents), NEW n
    PROVE  ArmedWake(c, n) \in Nat \cup {None}
BY FieldTypes DEF Sound, ArmedWake

\* A waiter's signal is aborted.
LEMMA AbortStep ==
    ASSUME IInv, NEW a \in Agents, Abort(a)
    PROVE  IInv'
<1> DEFINE r == RunOf[a]
           n == Cardinality(Waiting \ {a})
<1>1. /\ ~draining /\ req[a] = "queued" /\ r \in Runs
      /\ req \in [Agents -> RequestStates] /\ req' = [req EXCEPT ![a] = "idle"]
      /\ UNCHANGED <<lastGrantedRun, draining>>
  BY DEF Abort, IInv, LoadInv, QueueInv, QueuesExact
<1>2. PICK i \in DOMAIN queues[r] :
        /\ queues[r][i] = a
        /\ queues' = [queues EXCEPT ![r] = Without(queues[r], i)]
        /\ IF Without(queues[r], i) = <<>>
           THEN \E k \in DOMAIN order : order[k] = r /\ order' = Without(order, k)
           ELSE order' = order
  BY DEF Abort
<1>3. ctl' = Waiters(ctl, n) /\ wake' = ArmedWake(ctl', n)
  BY DEF Abort
<1>4. n \in Nat
  BY WaitingIsQueued, Counting DEF IInv
<1> HIDE DEF n, r
<1>5. QueueInv' /\ Waiting' = Waiting \ {a}
  BY <1>1, <1>2, Dequeue DEF IInv
<1>6. /\ Sound(ctl', Agents) /\ ctl'.inFlight = ctl.inFlight /\ ctl'.waiters = n
      /\ ctl'.thisEpoch \subseteq ctl.thisEpoch
  BY <1>3, <1>4, WaitersSound DEF IInv, LoadInv
<1>7. InFlight' = InFlight /\ req' \in [Agents -> RequestStates]
  BY <1>1 DEF InFlight, RequestStates
<1>8. LoadInv'
  BY <1>6, <1>7, SameLoad DEF IInv
<1>9. WaitersFresh'
  BY <1>5, <1>6 DEF WaitersFresh, WaiterCount, n
<1>10. wake' \in Nat \cup {None}
  BY <1>3, <1>6, ArmedWakeType
<1> QED BY <1>1, <1>5, <1>8, <1>9, <1>10 DEF IInv

\* One turn of drain's loop.
LEMMA DrainGrantStep ==
    ASSUME IInv, DrainGrant
    PROVE  IInv'
<1> DEFINE c == Waiters(ctl, WaiterCount)
           r == NextRunWithWaiters
           a == Head(queues[r])
<1>1. /\ draining /\ order # <<>> /\ Grant(a, c)
      /\ queues' = [queues EXCEPT ![r] = Tail(@)]
      /\ IF Tail(queues[r]) = <<>>
         THEN \E k \in DOMAIN order : order[k] = r /\ order' = Without(order, k)
         ELSE order' = order
      /\ UNCHANGED <<wake, draining>>
  BY DEF DrainGrant
<1>2. r \in Runs /\ queues[r] # <<>> /\ queues[r] \in Seq(Agents)
  BY <1>1, NextRunWaits DEF IInv, QueueInv
<1>3. Tail(queues[r]) = Without(queues[r], 1) /\ 1 \in DOMAIN queues[r] /\ a = queues[r][1]
  BY <1>2, TailIsWithout
<1>4. /\ Sound(c, Agents) /\ c.inFlight = ctl.inFlight
      /\ c.thisEpoch \subseteq ctl.thisEpoch
  BY Basics, WaitersSound DEF IInv, LoadInv
<1> HIDE DEF c, r, a
<1>5. a \in Agents /\ req[a] = "queued" /\ RunOf[a] = r
  <2>1. a \in Elements(queues[r])
    BY <1>3 DEF Elements
  <2> QED BY <1>2, <2>1 DEF IInv, QueueInv, QueuesExact, Queued
<1>6. LoadInv'
  BY <1>1, <1>4, <1>5, GrantLoad DEF IInv
<1>7. QueueInv'
  <2>1. req \in [Agents -> RequestStates] /\ req' = [req EXCEPT ![queues[r][1]] = "inflight"]
    BY <1>1, <1>3 DEF Grant, IInv, LoadInv
  <2>2. queues' = [queues EXCEPT ![r] = Without(queues[r], 1)]
    BY <1>1, <1>3
  <2> QED BY <1>1, <1>2, <1>3, <2>1, <2>2, Dequeue DEF IInv
<1>8. lastGrantedRun' \in Runs
  BY <1>1, <1>2, <1>5 DEF Grant
<1> QED BY <1>1, <1>6, <1>7, <1>8 DEF IInv, WaitersFresh

\* The exit of drain.
LEMMA DrainEndStep ==
    ASSUME IInv, DrainEnd
    PROVE  IInv'
<1> DEFINE c == Waiters(ctl, WaiterCount)
<1>1. /\ ctl' = c /\ wake' = ArmedWake(c, WaiterCount) /\ draining' = FALSE
      /\ UNCHANGED <<req, queues, order, lastGrantedRun>>
  BY DEF DrainEnd
<1>2. /\ Sound(c, Agents) /\ c.inFlight = ctl.inFlight /\ c.waiters = WaiterCount
      /\ c.thisEpoch \subseteq ctl.thisEpoch
  <2>1. WaiterCount \in Nat /\ Sound(ctl, Agents)
    BY Basics DEF IInv, LoadInv
  <2> QED BY <2>1, WaitersSound
<1> HIDE DEF c
<1>3. QueueInv' /\ Waiting' = Waiting
  BY <1>1, SameQueues DEF IInv, QueueInv, QueuesExact
<1>4. InFlight' = InFlight /\ req' \in [Agents -> RequestStates]
  BY <1>1 DEF InFlight, IInv, LoadInv
<1>5. LoadInv'
  BY <1>1, <1>2, <1>4, SameLoad DEF IInv
<1>6. WaitersFresh'
  BY <1>1, <1>2, <1>3 DEF WaitersFresh, WaiterCount
<1>7. wake' \in Nat \cup {None}
  BY <1>1, <1>2, ArmedWakeType
<1> QED BY <1>1, <1>3, <1>5, <1>6, <1>7 DEF IInv

\* A ticket is settled, by whatever signal keeps the controller sound.
LEMMA SettleStep ==
    ASSUME IInv, NEW a \in Agents, NEW c, Settle(a, c), Sound(c, Agents),
           c.inFlight = Larger(0, ctl.inFlight - 1),
           c.thisEpoch \subseteq ctl.thisEpoch \ {a}
    PROVE  IInv'
<1>1. /\ req[a] = "inflight" /\ req' = [req EXCEPT ![a] = "idle"]
      /\ ctl' = Observe(c) /\ draining' = TRUE
      /\ UNCHANGED <<queues, order, lastGrantedRun, wake>>
  BY DEF Settle, StartDrain
<1>2. LoadInv'
  BY <1>1, SettleLoad DEF IInv
<1>3. QueueInv'
  <2>1. req \in [Agents -> RequestStates]
    BY DEF IInv, LoadInv
  <2>2. \A b \in Agents : req[b] = "missed" => RunOf[b] \in Runs
    BY DEF IInv, QueueInv, QueuesExact
  <2> QED BY <1>1, <2>1, <2>2, SameQueues DEF IInv
<1> QED BY <1>1, <1>2, <1>3 DEF IInv, WaitersFresh
-----------------------------------------------------------------------------
\* The invariant holds in a fresh bucket.
LEMMA InitIInv == Init => IInv
<1> SUFFICES ASSUME Init PROVE IInv
  OBVIOUS
<1>1. Sound(ctl, Agents)
  BY NewControllerSound DEF Init
<1>2. InFlight = {} /\ ctl.inFlight = 0 /\ ctl.thisEpoch = {} /\ ctl.waiters = 0
  BY DEF Init, InFlight, NewController
<1>3. LoadInv
  BY <1>1, <1>2, FS_EmptySet DEF Init, LoadInv, InFlightCounted, EpochOfHolders, RequestStates
<1>4. queues \in [Runs -> Seq(Agents)] /\ order \in Seq(Runs)
  BY EmptySeq DEF Init
<1>5. Elements(<<>>) = {} /\ Distinct(<<>>)
  BY DEF Elements, Distinct
<1>6. QueuesExact /\ Waiting = {}
  BY <1>5 DEF Init, QueuesExact, Queued, Waiting
<1>7. WaitersFresh
  BY <1>2, <1>6, FS_EmptySet DEF WaitersFresh, WaiterCount
<1> QED BY <1>3, <1>4, <1>6, <1>7 DEF Init, IInv, QueueInv

\* Every step of the governor keeps the invariant.
LEMMA NextIInv == IInv /\ [Next]_vars => IInv'
<1> SUFFICES ASSUME IInv, [Next]_vars PROVE IInv'
  OBVIOUS
<1>1. ASSUME NEW a \in Agents, TryAcquire(a) PROVE IInv'
  <2>1. RunOf[a] \in Runs
    BY <1>1, GovernorAssumption DEF TryAcquire
  <2> QED BY <1>1, <2>1, TryAdmitStep DEF TryAcquire
<1>2. ASSUME NEW a \in Agents, Acquire(a) PROVE IInv'
  BY <1>2, AcquireStep
<1>3. ASSUME NEW a \in Agents, AbortBeforeQueue(a) PROVE IInv'
  BY <1>3, AbortBeforeQueueStep
<1>4. ASSUME NEW a \in Agents, Abort(a) PROVE IInv'
  BY <1>4, AbortStep
<1>5. ASSUME NEW a \in Agents, ObserverAcquire(a) PROVE IInv'
  BY <1>5, ObserverStep
<1>6. ASSUME NEW a \in Agents, Complete(a) PROVE IInv'
  BY <1>6, SettleStep, SucceededSound DEF Complete, IInv, LoadInv
<1>7. ASSUME NEW a \in Agents, FailTransient(a) PROVE IInv'
  BY <1>7, SettleStep, FailedTransientSound DEF FailTransient, IInv, LoadInv
<1>8. ASSUME NEW a \in Agents, Release(a) PROVE IInv'
  BY <1>8, SettleStep, EndedSound DEF Release, IInv, LoadInv
<1>9. ASSUME NEW a \in Agents, NEW ms \in RetryAfters, Throttle(a, ms) PROVE IInv'
  <2>1. ms \in Nat
    BY GovernorAssumption
  <2> QED BY <1>9, <2>1, SettleStep, ThrottledSound DEF Throttle, IInv, LoadInv
<1>10. CASE DrainGrant
  BY <1>10, DrainGrantStep
<1>11. CASE DrainEnd
  BY <1>11, DrainEndStep
<1>12. CASE Wake
  <2>1. /\ ctl' = Observe(ctl) /\ wake' = None /\ draining' = TRUE
        /\ UNCHANGED <<req, queues, order, lastGrantedRun>>
    BY <1>12 DEF Wake, StartDrain
  <2>2. LoadInv'
    BY <2>1, Basics, SameLoad DEF IInv, LoadInv, InFlight
  <2>3. QueueInv'
    BY <2>1, SameQueues DEF IInv, QueueInv, QueuesExact
  <2> QED BY <2>1, <2>2, <2>3 DEF IInv, WaitersFresh
<1>13. CASE Tick
  <2>1. /\ ctl' = Elapse(ctl) /\ wake' = IF wake > 0 THEN wake - 1 ELSE wake
        /\ UNCHANGED <<req, queues, order, lastGrantedRun, draining>>
    BY <1>13 DEF Tick
  <2>2. /\ Sound(ctl', Agents) /\ ctl'.inFlight = ctl.inFlight
        /\ ctl'.waiters = ctl.waiters /\ ctl'.thisEpoch = ctl.thisEpoch
    BY <2>1, ElapseSound DEF IInv, LoadInv
  <2>3. LoadInv'
    BY <2>1, <2>2, SameLoad DEF IInv, LoadInv, InFlight
  <2>4. QueueInv' /\ Waiting' = Waiting
    BY <2>1, SameQueues DEF IInv, QueueInv, QueuesExact
  <2>5. WaitersFresh'
    BY <2>1, <2>2, <2>4 DEF IInv, WaitersFresh, WaiterCount
  <2>6. wake' \in Nat \cup {None}
    BY <2>1 DEF IInv, None
  <2> QED BY <2>1, <2>3, <2>4, <2>5, <2>6 DEF IInv
<1>14. CASE UNCHANGED vars
  <2>1. LoadInv'
    BY <1>14, SameLoad DEF vars, IInv, LoadInv, InFlight
  <2>2. QueueInv' /\ Waiting' = Waiting
    BY <1>14, SameQueues DEF vars, IInv, QueueInv, QueuesExact
  <2> QED BY <1>14, <2>1, <2>2 DEF vars, IInv, WaitersFresh, WaiterCount
<1> QED
  BY <1>1, <1>2, <1>3, <1>4, <1>5, <1>6, <1>7, <1>8, <1>9, <1>10, <1>11, <1>12,
     <1>13, <1>14
  DEF Next

\* The inductive invariant is an invariant of the governor.
THEOREM Invariance == Spec => []IInv
BY InitIInv, NextIInv, PTL DEF Spec

\* Type correctness.
THEOREM TypeCorrect == Spec => []TypeOK
<1>1. IInv => TypeOK
  BY DEF IInv, LoadInv, QueueInv, Sound, TypeOK
<1> QED BY <1>1, Invariance, PTL

\* The cap stays within 1..Ceiling and above the proved level, in every order of
\* completions, throttles and idle resets.
THEOREM CapAlwaysBounded == Spec => []CapBounded
<1>1. IInv => CapBounded
  BY DEF IInv, LoadInv, Sound, CapBounded
<1> QED BY <1>1, Invariance, PTL

\* No slot leaks and none is returned twice; a ticket of the current epoch is
\* always held by a request in flight.
THEOREM LoadExact == Spec => [](InFlightCounted /\ EpochOfHolders)
<1>1. IInv => InFlightCounted /\ EpochOfHolders
  BY DEF IInv, LoadInv
<1> QED BY <1>1, Invariance, PTL

\* The queues, the Map's order and the waiters agree.
THEOREM QueuesAlwaysExact == Spec => []QueuesExact
<1>1. IInv => QueuesExact
  BY DEF IInv, QueueInv
<1> QED BY <1>1, Invariance, PTL

\* Whenever no drain is under way the controller knows the demand.
THEOREM DemandKnown == Spec => []WaitersFresh
<1>1. IInv => WaitersFresh
  BY DEF IInv
<1> QED BY <1>1, Invariance, PTL

-----------------------------------------------------------------------------
(* What a grant is allowed to be. *)

\* A subagent's request is granted below the cap and outside a cooldown, one at a
\* time, and never past a waiter: while anybody waits, the fast path takes nobody,
\* and drain() takes the first of the run's queue.
GrantAllowed(a) ==
    RunOf[a] # Observer =>
        /\ Cardinality(InFlight') <= ctl'.cap
        /\ ctl'.cooldown \in {None, 0}
        /\ Waiting # {} => queues[RunOf[a]] # <<>> /\ a = Head(queues[RunOf[a]])
        /\ Granted = {a}

GrantsAllowed == [][\A a \in Granted : GrantAllowed(a)]_vars

\* A grant the controller admitted stays under the cap it leaves.
LEMMA AdmittedGrant ==
    ASSUME IInv, NEW a \in Agents, req[a] # "inflight",
           NEW c, Sound(c, Agents), c.inFlight = ctl.inFlight,
           c.thisEpoch \subseteq ctl.thisEpoch, CanAdmit(c), Grant(a, c)
    PROVE  /\ Cardinality(InFlight') <= ctl'.cap
           /\ ctl'.cooldown \in {None, 0}
           /\ Granted = {a}
<1> DEFINE d == Observe(c)
<1>1. /\ Sound(d, Agents) /\ d.inFlight = c.inFlight
      /\ d.cap >= c.cap /\ (d.cooldown = c.cooldown \/ d.cooldown = None)
  <2>1. Sound(d, Agents) /\ d.inFlight = c.inFlight
    BY IdleResetSound DEF Observe
  <2>2. c \in Controllers(Agents) /\ c.cap \in Nat /\ c.cap <= Ceiling
    BY FieldTypes, ConstantRanges DEF Sound, ControllerOK, Floor
  <2>3. CASE NeedsIdleReset(c)
    <3>1. d = [c EXCEPT !.cap = Ceiling, !.successStreak = 0, !.cooldown = None,
                        !.lastGood = None, !.lastBad = None, !.thisEpoch = {}]
      BY <2>3 DEF Observe, IdleReset
    <3>2. d.cap = Ceiling /\ d.cooldown = None
      BY <2>2, <3>1 DEF Controllers
    <3> QED BY <2>1, <2>2, <3>2
  <2>4. CASE ~NeedsIdleReset(c)
    <3>1. d = c
      BY <2>4 DEF Observe, IdleReset
    <3> QED BY <2>1, <2>2, <3>1
  <2> QED BY <2>3, <2>4
<1>2. ctl' = Admitted(d, a) /\ req' = [req EXCEPT ![a] = "inflight"]
  BY DEF Grant
<1> HIDE DEF d
<1>3. ctl'.inFlight = d.inFlight + 1 /\ ctl'.cap = d.cap /\ ctl'.cooldown = d.cooldown
  BY <1>1, <1>2 DEF Admitted, Sound, Controllers
<1>4. InFlightCounted'
  BY GrantLoad DEF IInv, LoadInv
<1>5. c.inFlight < c.cap /\ c.cooldown \in {None, 0} /\ c.cap \in Nat /\ c.inFlight \in Nat
      /\ d.cap \in Nat
  BY <1>1, FieldTypes DEF CanAdmit, Sound
<1>6. Cardinality(InFlight') <= ctl'.cap
  <2>1. Cardinality(InFlight') = ctl'.inFlight
    BY <1>4 DEF InFlightCounted
  <2> QED BY <1>1, <1>3, <1>5, <2>1
<1>7. Granted = {a}
  BY <1>2 DEF Granted, IInv, LoadInv
<1> QED BY <1>1, <1>3, <1>5, <1>6, <1>7

\* The fast path takes nobody while somebody waits.
LEMMA FastPathAllowed ==
    ASSUME IInv, NEW a \in Agents, req[a] # "inflight",
           WaiterCount = 0, CanAdmit(Observe(ctl)), Grant(a, Observe(ctl))
    PROVE  \A b \in Granted : GrantAllowed(b)
<1>1. /\ Cardinality(InFlight') <= ctl'.cap /\ ctl'.cooldown \in {None, 0}
      /\ Granted = {a}
  BY Basics, AdmittedGrant
<1>2. Waiting = {}
  <2>1. Waiting \subseteq Agents
    BY WaitingIsQueued DEF IInv
  <2>2. \A b \in Waiting : Cardinality(Waiting) > 0
    BY <2>1, Counting
  <2> QED BY <2>2 DEF WaiterCount
<1> QED BY <1>1, <1>2 DEF GrantAllowed

\* drain() takes the head of a queue.
LEMMA DrainAllowed ==
    ASSUME IInv, DrainGrant
    PROVE  \A b \in Granted : GrantAllowed(b)
<1> DEFINE c == Waiters(ctl, WaiterCount)
           r == NextRunWithWaiters
           a == Head(queues[r])
<1>1. order # <<>> /\ CanAdmit(c) /\ Grant(a, c)
  BY DEF DrainGrant
<1>2. r \in Runs /\ queues[r] # <<>> /\ queues[r] \in Seq(Agents)
  BY <1>1, NextRunWaits DEF IInv, QueueInv
<1>3. 1 \in DOMAIN queues[r] /\ a = queues[r][1]
  BY <1>2, TailIsWithout
<1>4. /\ Sound(c, Agents) /\ c.inFlight = ctl.inFlight
      /\ c.thisEpoch \subseteq ctl.thisEpoch
  BY Basics, WaitersSound DEF IInv, LoadInv
<1> HIDE DEF c, r
<1>5. a \in Agents /\ req[a] = "queued" /\ RunOf[a] = r
  <2>1. a \in Elements(queues[r])
    BY <1>3 DEF Elements
  <2> QED BY <1>2, <2>1 DEF IInv, QueueInv, QueuesExact, Queued
<1>6. /\ Cardinality(InFlight') <= ctl'.cap /\ ctl'.cooldown \in {None, 0}
      /\ Granted = {a}
  BY <1>1, <1>4, <1>5, AdmittedGrant
<1> QED BY <1>2, <1>5, <1>6 DEF GrantAllowed

\* For any agents, runs and ceiling: the provider never sees a subagent's request
\* above the learned cap or in a cooldown, and no request overtakes one of its own
\* run that already waits (tryAdmit, admit, drain).
THEOREM AdmissionGuarded == Spec => GrantsAllowed
<1>1. IInv /\ [Next]_vars => [\A a \in Granted : GrantAllowed(a)]_vars
  <2> SUFFICES ASSUME IInv, Next PROVE \A b \in Granted : GrantAllowed(b)
    OBVIOUS
  <2>1. ASSUME NEW a \in Agents, TryAcquire(a) \/ Acquire(a) \/ AbortBeforeQueue(a)
        PROVE  \A b \in Granted : GrantAllowed(b)
    <3>1. req[a] \in {"idle", "missed"}
      BY <2>1 DEF TryAcquire, Acquire, AbortBeforeQueue
    <3>2. CASE WaiterCount = 0 /\ CanAdmit(Observe(ctl)) /\ Grant(a, Observe(ctl))
      BY <3>1, <3>2, FastPathAllowed
    <3>3. CASE \E st \in {"idle", "missed", "queued"} : req' = [req EXCEPT ![a] = st]
      <4>1. Granted = {}
        BY <3>3 DEF Granted, IInv, LoadInv
      <4> QED BY <4>1
    <3> QED BY <2>1, <3>2, <3>3 DEF TryAcquire, Acquire, AbortBeforeQueue, TryAdmit
  <2>2. ASSUME NEW a \in Agents, ObserverAcquire(a)
        PROVE  \A b \in Granted : GrantAllowed(b)
    <3>1. RunOf[a] = Observer /\ req' = [req EXCEPT ![a] = "inflight"]
      BY <2>2 DEF ObserverAcquire, Grant
    <3>2. Granted \subseteq {a}
      BY <3>1 DEF Granted, IInv, LoadInv
    <3> QED BY <3>1, <3>2 DEF GrantAllowed
  <2>3. CASE DrainGrant
    BY <2>3, DrainAllowed
  <2>4. CASE \/ \E a \in Agents : \/ Abort(a) \/ Complete(a) \/ FailTransient(a) \/ Release(a)
                                  \/ \E ms \in RetryAfters : Throttle(a, ms)
             \/ DrainEnd \/ Wake \/ Tick
    <3>1. req' = req \/ \E a \in Agents : req' = [req EXCEPT ![a] = "idle"]
      BY <2>4 DEF Abort, Complete, FailTransient, Release, Throttle, Settle, DrainEnd, Wake, Tick
    <3>2. Granted = {}
      BY <3>1 DEF Granted, IInv, LoadInv
    <3> QED BY <3>2
  <2> QED BY <2>1, <2>2, <2>3, <2>4 DEF Next
<1> QED BY <1>1, Invariance, PTL DEF Spec, GrantsAllowed
===============================================================================
