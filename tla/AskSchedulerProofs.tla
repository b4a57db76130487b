--------------------------- MODULE AskSchedulerProofs ---------------------------
(***************************************************************************)
(* The inductive invariant of a run's scheduler and seat gate, for every   *)
(* number of subagents and asks, every bound and every retry budget.       *)
(***************************************************************************)
EXTENDS AskScheduler, WaitingLineLemmas

-----------------------------------------------------------------------------
(* What every method of the seat gate keeps, and whom it seats. *)

\* Nobody is both at work and in line or twice in line, and whoever is in line
\* has left at least as many at work as there are seats.
GateSound(g) ==
    /\ g \in Gates
    /\ g.working \cap ParkedActors(g) = {}
    /\ Distinct(g.parked)
    /\ g.parked # <<>> => Cardinality(g.working) >= g.limit

\* Those with a started ask, as the gate sees them.
Engaged(g) == g.working \cup ParkedActors(g)

\* The types of the fields of a gate.
LEMMA GateFields ==
    ASSUME NEW g \in Gates
    PROVE  /\ g.limit \in Nat \ {0}
           /\ g.working \in SUBSET Actors
           /\ g.parked \in Seq(Actors)
           /\ ParkedActors(g) \subseteq Actors
           /\ IsFiniteSet(g.working)
           /\ Cardinality(g.working) \in Nat
<1>1. /\ g.limit \in Nat \ {0} /\ g.working \in SUBSET Actors /\ g.parked \in Seq(Actors)
  BY DEF Gates
<1>2. IsFiniteSet(g.working)
  BY <1>1, ActorsAssumption, FS_Subset
<1>3. ParkedActors(g) \subseteq Actors
  BY <1>1 DEF ParkedActors, Elements
<1> QED BY <1>1, <1>2, <1>3, FS_CardinalityType

\* A gate is what its fields are.
LEMMA MakeGate ==
    ASSUME NEW g \in Gates, NEW l \in Nat \ {0}, NEW w \in SUBSET Actors,
           NEW p \in Seq(Actors), NEW h,
           h = [g EXCEPT !.limit = l, !.working = w, !.parked = p]
    PROVE  h \in Gates /\ h.limit = l /\ h.working = w /\ h.parked = p
BY DEF Gates

\* The gate a run starts with.
LEMMA NewGateSound ==
    ASSUME NEW l \in Nat \ {0}
    PROVE  /\ GateSound(NewGate(l)) /\ NewGate(l).limit = l
           /\ Engaged(NewGate(l)) = {} /\ NewGate(l).working = {}
<1>1. <<>> \in Seq(Actors)
  OBVIOUS
<1>2. NewGate(l) \in Gates
  BY <1>1 DEF NewGate, Gates
<1> QED BY <1>2 DEF NewGate, GateSound, ParkedActors, Elements, Distinct, Engaged

\* unpark() seats from the head of the line as many as there are free seats.
LEMMA UnparkSound ==
    ASSUME NEW g \in Gates, g.working \cap ParkedActors(g) = {}, Distinct(g.parked)
    PROVE  /\ GateSound(Unpark(g))
           /\ Unpark(g).limit = g.limit
           /\ g.working \subseteq Unpark(g).working
           /\ Engaged(Unpark(g)) = Engaged(g)
           /\ Unpark(g).working # g.working => Cardinality(Unpark(g).working) <= g.limit
<1> DEFINE free == g.limit - Cardinality(g.working)
           n    == IF free <= 0 THEN 0
                   ELSE IF free < Len(g.parked) THEN free ELSE Len(g.parked)
           F    == {g.parked[i] : i \in 1 .. n}
           rest == SubSeq(g.parked, n + 1, Len(g.parked))
           h    == Unpark(g)
<1>1. /\ g.limit \in Nat \ {0} /\ g.working \in SUBSET Actors /\ g.parked \in Seq(Actors)
      /\ IsFiniteSet(g.working) /\ Cardinality(g.working) \in Nat
      /\ Len(g.parked) \in Nat /\ DOMAIN g.parked = 1 .. Len(g.parked)
  BY GateFields
<1>2. n \in 0 .. Len(g.parked)
  BY <1>1
<1>3. h = [g EXCEPT !.working = g.working \cup F, !.parked = rest]
  BY DEF Unpark
<1>4. F \subseteq ParkedActors(g) /\ F \subseteq Actors
  BY <1>1, <1>2 DEF ParkedActors, Elements
<1>5. IsFiniteSet(F) /\ Cardinality(F) = n
  <2> HIDE DEF n
  <2> DEFINE s == g.parked
  <2>1. s \in Seq(Actors) /\ Distinct(s) /\ n \in 0 .. Len(s)
    BY <1>1, <1>2
  <2> HIDE DEF s
  <2>2. /\ IsFiniteSet({s[i] : i \in 1 .. n})
        /\ Cardinality({s[i] : i \in 1 .. n}) = n
    BY <2>1, FirstAreThatMany
  <2> QED BY <2>2 DEF s
<1>6. /\ rest \in Seq(Actors) /\ Elements(rest) = ParkedActors(g) \ F /\ Distinct(rest)
      /\ n = Len(g.parked) => rest = <<>>
  BY <1>1, <1>2, RestOfLine DEF ParkedActors
<1>7. n > 0 => n <= free
  BY <1>1
<1>8. n < Len(g.parked) => n >= free
  BY <1>1
<1> HIDE DEF n, F, rest, h
<1>9. /\ h \in Gates /\ h.limit = g.limit /\ h.working = g.working \cup F /\ h.parked = rest
  BY <1>1, <1>3, <1>4, <1>6 DEF Gates
<1>10. g.working \cap F = {}
  BY <1>4
<1>11. Cardinality(h.working) = Cardinality(g.working) + n
  <2>1. /\ IsFiniteSet(g.working \cap F) /\ Cardinality(g.working \cap F) = 0
    BY <1>10, FS_EmptySet
  <2>2. Cardinality(g.working \cup F)
          = Cardinality(g.working) + Cardinality(F) - Cardinality(g.working \cap F)
    BY <1>1, <1>5, FS_Union
  <2> QED BY <1>1, <1>2, <1>5, <1>9, <2>1, <2>2
<1>12. h.parked # <<>> => Cardinality(h.working) >= h.limit
  BY <1>1, <1>2, <1>6, <1>8, <1>9, <1>11
<1>13. h.working # g.working => Cardinality(h.working) <= g.limit
  <2> SUFFICES ASSUME h.working # g.working PROVE Cardinality(h.working) <= g.limit
    OBVIOUS
  <2>1. F # {}
    BY <1>9
  <2>2. n # 0
    BY <1>5, <2>1, FS_EmptySet
  <2> QED BY <1>1, <1>2, <1>7, <1>11, <2>2
<1>14. ParkedActors(h) = ParkedActors(g) \ F
  BY <1>6, <1>9 DEF ParkedActors
<1>15. h.working \cap ParkedActors(h) = {}
  BY <1>9, <1>14
<1>16. Engaged(h) = Engaged(g)
  BY <1>4, <1>9, <1>14 DEF Engaged
<1>17. GateSound(h)
  BY <1>6, <1>9, <1>12, <1>15 DEF GateSound
<1> QED BY <1>9, <1>13, <1>16, <1>17 DEF h

\* setLimit seats whom the new bound admits and unseats nobody.
LEMMA SetLimitSound ==
    ASSUME NEW g, GateSound(g), NEW l \in Nat \ {0}
    PROVE  /\ GateSound(SetLimit(g, l))
           /\ SetLimit(g, l).limit = l
           /\ g.working \subseteq SetLimit(g, l).working
           /\ Engaged(SetLimit(g, l)) = Engaged(g)
           /\ SetLimit(g, l).working # g.working => Cardinality(SetLimit(g, l).working) <= l
<1> DEFINE h == [g EXCEPT !.limit = l]
<1>1. h \in Gates /\ h.limit = l /\ h.working = g.working /\ h.parked = g.parked
  BY DEF GateSound, Gates
<1>2. SetLimit(g, l) = Unpark(h)
  BY DEF SetLimit
<1> HIDE DEF h
<1>3. h.working \cap ParkedActors(h) = {} /\ Distinct(h.parked) /\ Engaged(h) = Engaged(g)
  BY <1>1 DEF GateSound, ParkedActors, Engaged
<1> QED BY <1>1, <1>2, <1>3, UnparkSound

\* askStarted: one more at work.
LEMMA AskStartedSound ==
    ASSUME NEW g, GateSound(g), NEW a \in Actors
    PROVE  /\ GateSound(AskStarted(g, a))
           /\ AskStarted(g, a).limit = g.limit
           /\ g.working \subseteq AskStarted(g, a).working
           /\ AskStarted(g, a).parked = g.parked
           /\ Engaged(AskStarted(g, a)) = Engaged(g) \cup {a}
<1> DEFINE h == AskStarted(g, a)
<1>1. CASE a \in ParkedActors(g)
  BY <1>1 DEF AskStarted, Engaged
<1>2. CASE a \notin ParkedActors(g)
  <2>1. h = [g EXCEPT !.working = g.working \cup {a}]
    BY <1>2 DEF AskStarted
  <2>2. g \in Gates
    BY DEF GateSound
  <2>3. /\ g.working \in SUBSET Actors /\ IsFiniteSet(g.working)
        /\ Cardinality(g.working) \in Nat /\ g.limit \in Nat
    BY <2>2, GateFields
  <2> HIDE DEF h
  <2>4. /\ h \in Gates /\ h.limit = g.limit /\ h.working = g.working \cup {a}
        /\ h.parked = g.parked
    BY <2>1, <2>2, <2>3 DEF Gates
  <2>5. Cardinality(h.working) >= Cardinality(g.working)
    <3>1. Cardinality(g.working \cup {a})
            = IF a \in g.working THEN Cardinality(g.working) ELSE Cardinality(g.working) + 1
      BY <2>3, FS_AddElement, Zenon
    <3> QED BY <2>3, <2>4, <3>1
  <2>6. Cardinality(h.working) \in Nat
    BY <2>4, GateFields
  <2>7. ParkedActors(h) = ParkedActors(g)
    BY <2>4 DEF ParkedActors
  <2>8. h.working \cap ParkedActors(h) = {}
    BY <1>2, <2>4, <2>7 DEF GateSound
  <2>9. h.parked # <<>> => Cardinality(h.working) >= h.limit
    BY <2>3, <2>4, <2>5, <2>6 DEF GateSound
  <2>10. GateSound(h)
    BY <2>4, <2>8, <2>9 DEF GateSound
  <2> QED BY <2>4, <2>7, <2>10 DEF Engaged, h
<1> QED BY <1>1, <1>2

\* Leaving the line leaves everything else alone.
LEMMA LeaveLineSound ==
    ASSUME NEW g, GateSound(g), NEW a \in ParkedActors(g)
    PROVE  /\ GateSound(LeaveLine(g, a))
           /\ LeaveLine(g, a).limit = g.limit
           /\ LeaveLine(g, a).working = g.working
           /\ ParkedActors(LeaveLine(g, a)) = ParkedActors(g) \ {a}
           /\ g.parked # <<>>
<1> DEFINE i == IndexOf(g.parked, a)
           p == Without(g.parked, i)
           h == LeaveLine(g, a)
<1>1. /\ g \in Gates /\ g.parked \in Seq(Actors) /\ Distinct(g.parked)
      /\ a \in Elements(g.parked)
  BY GateFields DEF GateSound, ParkedActors
<1>2. i \in DOMAIN g.parked /\ g.parked[i] = a
  BY <1>1, IndexOfPlace
<1>3. p \in Seq(Actors) /\ Elements(p) = Elements(g.parked) \ {a} /\ Distinct(p)
  BY <1>1, <1>2, WithoutElements
<1>4. h = [g EXCEPT !.parked = p]
  BY DEF LeaveLine
<1> HIDE DEF i, p, h
<1>5. h \in Gates /\ h.limit = g.limit /\ h.working = g.working /\ h.parked = p
  BY <1>1, <1>3, <1>4 DEF Gates
<1>6. ParkedActors(h) = ParkedActors(g) \ {a}
  BY <1>3, <1>5 DEF ParkedActors
<1>7. g.parked # <<>>
  BY <1>1, EmptyIffNoElements
<1>8. GateSound(h)
  BY <1>3, <1>5, <1>6, <1>7 DEF GateSound
<1> QED BY <1>5, <1>6, <1>7, <1>8 DEF h

\* askSettled: a leaves the gate, and its seat goes to the head of the line.
LEMMA AskSettledSound ==
    ASSUME NEW g, GateSound(g), NEW a \in Actors
    PROVE  /\ GateSound(AskSettled(g, a))
           /\ AskSettled(g, a).limit = g.limit
           /\ g.working \ {a} \subseteq AskSettled(g, a).working
           /\ Engaged(AskSettled(g, a)) = Engaged(g) \ {a}
           /\ Seated(g, AskSettled(g, a)) # {}
                => Cardinality(AskSettled(g, a).working) <= g.limit
           /\ ParkedActors(AskSettled(g, a)) \subseteq ParkedActors(g)
<1> DEFINE h == AskSettled(g, a)
<1>1. CASE a \in ParkedActors(g)
  <2>1. h = LeaveLine(g, a)
    BY <1>1 DEF AskSettled
  <2>2. /\ GateSound(h) /\ h.limit = g.limit /\ h.working = g.working
        /\ ParkedActors(h) = ParkedActors(g) \ {a}
    BY <1>1, <2>1, LeaveLineSound
  <2>3. g.working \cap ParkedActors(g) = {}
    BY DEF GateSound
  <2> HIDE DEF h
  <2>4. Engaged(h) = Engaged(g) \ {a}
    BY <1>1, <2>2, <2>3 DEF Engaged
  <2>5. Seated(g, h) = {}
    BY <2>2, <2>3 DEF Seated
  <2> QED BY <2>2, <2>4, <2>5 DEF h
<1>2. CASE a \notin ParkedActors(g) /\ a \in g.working
  <2> DEFINE f == [g EXCEPT !.working = g.working \ {a}]
  <2>1. h = Unpark(f)
    BY <1>2 DEF AskSettled
  <2>2. /\ f \in Gates /\ f.limit = g.limit /\ f.working = g.working \ {a}
        /\ f.parked = g.parked
    BY GateFields DEF GateSound, Gates
  <2> HIDE DEF f, h
  <2>3. /\ ParkedActors(f) = ParkedActors(g) /\ Distinct(f.parked)
        /\ f.working \cap ParkedActors(f) = {}
    BY <2>2 DEF GateSound, ParkedActors
  <2>4. /\ GateSound(h) /\ h.limit = f.limit /\ f.working \subseteq h.working
        /\ Engaged(h) = Engaged(f)
        /\ h.working # f.working => Cardinality(h.working) <= f.limit
    BY <2>1, <2>2, <2>3, UnparkSound
  <2>5. Engaged(h) = Engaged(g) \ {a}
    BY <1>2, <2>2, <2>3, <2>4 DEF Engaged
  <2>6. h.working = f.working => Seated(g, h) = {}
    BY <2>2 DEF Seated, GateSound
  <2>7. ParkedActors(h) \subseteq ParkedActors(g)
    BY <2>2, <2>3, <2>4 DEF Engaged, GateSound
  <2> QED BY <2>2, <2>4, <2>5, <2>6, <2>7 DEF h
<1>3. CASE a \notin ParkedActors(g) /\ a \notin g.working
  BY <1>3 DEF AskSettled, Engaged, Seated, GateSound
<1> QED BY <1>1, <1>2, <1>3

\* Parking leaves at least as many at work as there are seats.
LEMMA ParkSound ==
    ASSUME NEW g, GateSound(g), NEW a \in Actors, MustPark(g, a)
    PROVE  /\ GateSound(Park(g, a))
           /\ Park(g, a).limit = g.limit
           /\ Park(g, a).working = g.working \ {a}
           /\ ParkedActors(Park(g, a)) = ParkedActors(g) \cup {a}
           /\ a \in g.working
<1> DEFINE p == Append(g.parked, a)
           h == Park(g, a)
<1>1. /\ g \in Gates /\ a \in g.working /\ Cardinality(g.working) > g.limit
      /\ g.working \cap ParkedActors(g) = {} /\ Distinct(g.parked)
  BY DEF GateSound, MustPark
<1>2. /\ g.parked \in Seq(Actors) /\ g.limit \in Nat /\ g.working \in SUBSET Actors
      /\ IsFiniteSet(g.working) /\ Cardinality(g.working) \in Nat
  BY <1>1, GateFields
<1>3. a \notin Elements(g.parked)
  BY <1>1 DEF ParkedActors
<1>4. p \in Seq(Actors) /\ Elements(p) = Elements(g.parked) \cup {a} /\ Distinct(p)
  BY <1>1, <1>2, <1>3, AppendElements
<1>5. h = [g EXCEPT !.working = g.working \ {a}, !.parked = p]
  BY DEF Park
<1> HIDE DEF p, h
<1>6. /\ h \in Gates /\ h.limit = g.limit /\ h.working = g.working \ {a} /\ h.parked = p
  BY <1>1, <1>2, <1>4, <1>5 DEF Gates
<1>7. Cardinality(h.working) = Cardinality(g.working) - 1
  <2>1. Cardinality(g.working \ {a})
          = IF a \in g.working THEN Cardinality(g.working) - 1 ELSE Cardinality(g.working)
    BY <1>2, FS_RemoveElement, Zenon
  <2> QED BY <1>1, <1>6, <2>1
<1>8. ParkedActors(h) = ParkedActors(g) \cup {a}
  BY <1>4, <1>6 DEF ParkedActors
<1>9. h.working \cap ParkedActors(h) = {}
  BY <1>1, <1>6, <1>8
<1>10. Cardinality(h.working) >= h.limit
  BY <1>1, <1>2, <1>6, <1>7
<1>11. GateSound(h)
  BY <1>4, <1>6, <1>9, <1>10 DEF GateSound
<1> QED BY <1>1, <1>6, <1>8, <1>11 DEF h

\* An aborted request takes its actor out of the line and back to work.
LEMMA AbortParkedSound ==
    ASSUME NEW g, GateSound(g), NEW a \in Actors
    PROVE  /\ GateSound(AbortParked(g, a))
           /\ AbortParked(g, a).limit = g.limit
           /\ g.working \subseteq AbortParked(g, a).working
           /\ AbortParked(g, a).working \subseteq g.working \cup {a}
           /\ Engaged(AbortParked(g, a)) = Engaged(g)
           /\ ParkedActors(AbortParked(g, a)) = ParkedActors(g) \ {a}
<1> DEFINE h == AbortParked(g, a)
           f == LeaveLine(g, a)
<1>1. CASE a \in ParkedActors(g)
  <2>1. h = [f EXCEPT !.working = f.working \cup {a}]
    BY <1>1 DEF AbortParked
  <2>2. /\ GateSound(f) /\ f.limit = g.limit /\ f.working = g.working
        /\ ParkedActors(f) = ParkedActors(g) \ {a}
    BY <1>1, LeaveLineSound
  <2>3. h = AskStarted(f, a)
    BY <2>1, <2>2 DEF AskStarted
  <2> HIDE DEF f, h
  <2>4. /\ GateSound(h) /\ h.limit = f.limit /\ f.working \subseteq h.working
        /\ h.parked = f.parked /\ Engaged(h) = Engaged(f) \cup {a}
    BY <2>2, <2>3, AskStartedSound
  <2>5. f \in Gates /\ f.working \in SUBSET Actors
    BY <2>2, GateFields DEF GateSound
  <2>6. h.working = f.working \cup {a}
    BY <2>1, <2>5 DEF Gates
  <2>7. ParkedActors(h) = ParkedActors(f)
    BY <2>4 DEF ParkedActors
  <2>8. Engaged(h) = Engaged(g)
    BY <1>1, <2>2, <2>4 DEF Engaged
  <2> QED BY <2>2, <2>4, <2>6, <2>7, <2>8 DEF h
<1>2. CASE a \notin ParkedActors(g)
  BY <1>2 DEF AbortParked
<1> QED BY <1>1, <1>2

-----------------------------------------------------------------------------
(* The scheduler. *)

\* An ask in a queue stands in its own actor's queue, once, and is queued.
QueuesOK(q, st) ==
    \A a \in Actors :
        /\ Distinct(q[a])
        /\ \A k \in Elements(q[a]) : ActorOf[k] = a /\ st[k] = "queued"

\* An actor only ever holds an ask addressed to it.
CurrentOK(c) == \A a \in Actors : c[a] # NoAsk => ActorOf[c[a]] = a

Busy(c) == {a \in Actors : c[a] # NoAsk}

\* What the scheduler's tables say while the run lives.
TablesOK ==
    /\ QueuesOK(queue, stage)
    /\ CurrentOK(current)
    /\ activeAsks = Cardinality(Busy(current))
    /\ Engaged(gate) = Started(current, stage)

IInv ==
    /\ TypeOK
    /\ GateSound(gate)
    /\ recent \subseteq gate.working
    /\ TurnsWithinLimit
    /\ \A a \in recent : phase[a] = "model"
    /\ \A a \in ParkedActors(gate) : phase[a] = "parked"
    /\ run = "running" => TablesOK

-----------------------------------------------------------------------------
\* The set of busy actors is finite.
LEMMA BusyFinite ==
    ASSUME NEW c
    PROVE  IsFiniteSet(Busy(c)) /\ Cardinality(Busy(c)) \in Nat
<1>1. Busy(c) \in SUBSET Actors
  BY DEF Busy
<1>2. IsFiniteSet(Busy(c))
  BY <1>1, ActorsAssumption, FS_Subset
<1> QED BY <1>2, FS_CardinalityType

\* pumpAll moves the head of a queue to its actor; it starts nothing and
\* counts every ask it hands out.  q, c, n and st are what its caller leaves.
LEMMA PumpStep ==
    ASSUME TypeOK,
           NEW q \in [Actors -> Seq(Asks)], NEW c \in [Actors -> Asks \cup {NoAsk}],
           NEW st \in [Asks -> Stages], NEW n, NEW bound,
           QueuesOK(q, st), CurrentOK(c), n = Cardinality(Busy(c)),
           PumpAll(q, c, n, bound, st)
    PROVE  /\ queue' \in [Actors -> Seq(Asks)]
           /\ current' \in [Actors -> Asks \cup {NoAsk}]
           /\ stage' \in [Asks -> Stages]
           /\ session' \in [Actors -> {"none", "creating", "ready", "failed"}]
           /\ activeAsks' \in Nat
           /\ QueuesOK(queue', stage')
           /\ CurrentOK(current')
           /\ activeAsks' = Cardinality(Busy(current'))
           /\ Started(current', stage') = Started(c, st)
<1> DEFINE P == Picked(q, c, n, bound)
           asks == {Head(q[a]) : a \in P}
           qq == queue'
           cc == current'
           ss == stage'
<1>20. /\ qq = [a \in Actors |-> IF a \in P THEN Tail(q[a]) ELSE q[a]]
       /\ cc = [a \in Actors |-> IF a \in P THEN Head(q[a]) ELSE c[a]]
       /\ ss = [k \in Asks |-> IF k \in asks THEN "dispatching" ELSE st[k]]
       /\ activeAsks' = n + Cardinality(P)
  BY DEF PumpAll
<1>21. session' \in [Actors -> {"none", "creating", "ready", "failed"}]
  BY DEF PumpAll, TypeOK
<1>1. /\ P \in SUBSET Actors
      /\ \A a \in P : c[a] = NoAsk /\ q[a] # <<>> /\ q[a] \in Seq(Asks)
  BY DEF Picked
<1>22. asks = {Head(q[a]) : a \in P}
  OBVIOUS
<1> HIDE DEF P, asks, qq, cc, ss
<1>2. ASSUME NEW a \in P
      PROVE  /\ Head(q[a]) \in Elements(q[a]) /\ Head(q[a]) \in Asks
             /\ Tail(q[a]) \in Seq(Asks)
             /\ Elements(Tail(q[a])) = Elements(q[a]) \ {Head(q[a])}
             /\ Distinct(Tail(q[a]))
  <2> DEFINE s == q[a]
  <2>1. s \in Seq(Asks) /\ s # <<>> /\ Distinct(s)
    BY <1>1, <1>2 DEF QueuesOK
  <2> HIDE DEF s
  <2>2. Tail(s) = Without(s, 1) /\ 1 \in DOMAIN s /\ Head(s) = s[1]
    BY <2>1, TailIsWithout
  <2>3. /\ Without(s, 1) \in Seq(Asks)
        /\ Elements(Without(s, 1)) = Elements(s) \ {s[1]}
        /\ Distinct(Without(s, 1))
    BY <2>1, <2>2, WithoutElements
  <2>4. s[1] \in Elements(s) /\ s[1] \in Asks
    BY <2>1, <2>2 DEF Elements
  <2> QED BY <2>2, <2>3, <2>4 DEF s
<1>3. \A k \in asks : k \in Asks /\ st[k] = "queued" /\ ActorOf[k] \in P /\ k = Head(q[ActorOf[k]])
  BY <1>1, <1>2, <1>22 DEF QueuesOK
<1>4. \A a \in P : Head(q[a]) \in asks /\ ActorOf[Head(q[a])] = a /\ Head(q[a]) # NoAsk
  BY <1>1, <1>2, <1>22, SchedulerAssumption DEF QueuesOK
<1>5. qq \in [Actors -> Seq(Asks)]
  BY <1>2, <1>20
<1>6. cc \in [Actors -> Asks \cup {NoAsk}]
  BY <1>2, <1>20
<1>7. ss \in [Asks -> Stages]
  BY <1>20 DEF Stages
<1>8. QueuesOK(qq, ss)
  <2> SUFFICES ASSUME NEW a \in Actors
               PROVE  /\ Distinct(qq[a])
                      /\ \A k \in Elements(qq[a]) : ActorOf[k] = a /\ ss[k] = "queued"
    BY DEF QueuesOK
  <2>1. /\ Distinct(q[a])
        /\ \A k \in Elements(q[a]) : k \in Asks /\ ActorOf[k] = a /\ st[k] = "queued"
    BY DEF QueuesOK, Elements
  <2>2. CASE a \in P
    <3>1. qq[a] = Tail(q[a])
      BY <1>20, <2>2
    <3>2. \A k \in Elements(qq[a]) : k \in Elements(q[a]) /\ k # Head(q[a])
      BY <1>2, <2>2, <3>1
    <3>3. \A k \in Elements(qq[a]) : k \notin asks
      BY <1>3, <2>1, <3>2
    <3> QED BY <1>2, <1>20, <2>1, <2>2, <3>1, <3>2, <3>3
  <2>3. CASE a \notin P
    <3>1. qq[a] = q[a]
      BY <1>20, <2>3
    <3>2. \A k \in Elements(qq[a]) : k \notin asks
      BY <1>3, <2>1, <2>3, <3>1
    <3> QED BY <1>20, <2>1, <3>1, <3>2
  <2> QED BY <2>2, <2>3
<1>9. CurrentOK(cc)
  BY <1>4, <1>20 DEF CurrentOK
<1>10. Busy(cc) = Busy(c) \cup P
  BY <1>1, <1>4, <1>20 DEF Busy
<1>11. Busy(c) \cap P = {}
  BY <1>1 DEF Busy
<1>12. n + Cardinality(P) = Cardinality(Busy(cc))
  <2>1. IsFiniteSet(Busy(c)) /\ Cardinality(Busy(c)) \in Nat
    BY BusyFinite
  <2>2. IsFiniteSet(P)
    BY <1>1, ActorsAssumption, FS_Subset
  <2>3. Cardinality(P) \in Nat
    BY <2>2, FS_CardinalityType
  <2>4. Cardinality(Busy(c) \cup P)
          = Cardinality(Busy(c)) + Cardinality(P) - Cardinality(Busy(c) \cap P)
    BY <2>1, <2>2, FS_Union
  <2>5. Cardinality(Busy(c) \cap P) = 0
    BY <1>11, FS_EmptySet, Zenon
  <2>6. Cardinality(Busy(cc)) = Cardinality(Busy(c) \cup P)
    BY <1>10, Zenon
  <2> QED BY <2>1, <2>3, <2>4, <2>5, <2>6
<1>13. Started(cc, ss) = Started(c, st)
  <2> SUFFICES ASSUME NEW a \in Actors
               PROVE  (cc[a] # NoAsk /\ ss[cc[a]] = "started")
                        <=> (c[a] # NoAsk /\ st[c[a]] = "started")
    BY DEF Started
  <2>1. CASE a \in P
    <3>1. cc[a] = Head(q[a]) /\ c[a] = NoAsk /\ cc[a] \in asks /\ cc[a] \in Asks
      BY <1>1, <1>2, <1>4, <1>20, <2>1
    <3>2. ss[cc[a]] = "dispatching"
      BY <1>20, <3>1
    <3> QED BY <3>1, <3>2
  <2>2. CASE a \notin P
    <3>1. cc[a] = c[a]
      BY <1>20, <2>2
    <3>2. ASSUME c[a] # NoAsk PROVE ss[c[a]] = "started" <=> st[c[a]] = "started"
      <4>1. c[a] \in Asks
        BY <3>2
      <4>2. CASE c[a] \in asks
        BY <1>3, <1>20, <4>1, <4>2
      <4>3. CASE c[a] \notin asks
        BY <1>20, <4>1, <4>3
      <4> QED BY <4>2, <4>3
    <3> QED BY <3>1, <3>2
  <2> QED BY <2>1, <2>2
<1>14. activeAsks' \in Nat /\ activeAsks' = Cardinality(Busy(cc))
  BY <1>12, <1>20, BusyFinite
<1> QED
  BY <1>5, <1>6, <1>7, <1>8, <1>9, <1>13, <1>14, <1>21 DEF qq, cc, ss

-----------------------------------------------------------------------------
\* Of a part of those at work there are no more than of all of them.
LEMMA PartOfWorking ==
    ASSUME NEW g \in Gates, NEW R, R \subseteq g.working, NEW l \in Nat,
           Cardinality(g.working) <= l
    PROVE  Cardinality(R) <= l
<1>1. IsFiniteSet(g.working) /\ Cardinality(g.working) \in Nat
  BY GateFields
<1>2. /\ IsFiniteSet(R) /\ Cardinality(R) \in Nat
      /\ Cardinality(R) <= Cardinality(g.working)
  BY <1>1, FS_Subset, FS_CardinalityType
<1> QED BY <1>1, <1>2

\* Nor does a part of a small set make a big one.
LEMMA PartOfRecent ==
    ASSUME NEW S \in SUBSET Actors, NEW R, R \subseteq S, NEW l \in Nat, Cardinality(S) <= l
    PROVE  Cardinality(R) <= l
<1>1. IsFiniteSet(S) /\ Cardinality(S) \in Nat
  BY ActorsAssumption, FS_Subset, FS_CardinalityType
<1>2. /\ IsFiniteSet(R) /\ Cardinality(R) \in Nat /\ Cardinality(R) <= Cardinality(S)
  BY <1>1, FS_Subset, FS_CardinalityType
<1> QED BY <1>1, <1>2

\* The ask an actor holds is in no queue, and no other actor holds it.
LEMMA HeldAlone ==
    ASSUME IInv, run = "running", NEW a \in Actors, NEW k \in Asks, current[a] = k,
           stage[k] # "queued"
    PROVE  /\ \A b \in Actors : k \notin Elements(queue[b])
           /\ \A b \in Actors : current[b] = k => b = a
           /\ k # NoAsk
<1>1. k # NoAsk
  BY SchedulerAssumption
<1>2. TablesOK
  BY DEF IInv
<1> QED BY <1>1, <1>2 DEF TablesOK, QueuesOK, CurrentOK

\* Another stage for an ask that is in no queue leaves the queues right.
LEMMA QueuesKept ==
    ASSUME NEW q \in [Actors -> Seq(Asks)], NEW st \in [Asks -> Stages], NEW k \in Asks,
           NEW s, QueuesOK(q, st), \A b \in Actors : k \notin Elements(q[b])
    PROVE  QueuesOK(q, [st EXCEPT ![k] = s])
<1> SUFFICES ASSUME NEW a \in Actors
             PROVE  /\ Distinct(q[a])
                    /\ \A j \in Elements(q[a]) :
                          ActorOf[j] = a /\ [st EXCEPT ![k] = s][j] = "queued"
  BY DEF QueuesOK
<1>1. \A j \in Elements(q[a]) : j \in Asks /\ j # k
  BY DEF Elements
<1> QED BY <1>1 DEF QueuesOK

\* The slot of an actor that lets go of its ask.
LEMMA SlotReturned ==
    ASSUME TypeOK, activeAsks = Cardinality(Busy(current)), NEW a \in Actors,
           current[a] # NoAsk
    PROVE  activeAsks - 1 = Cardinality(Busy([current EXCEPT ![a] = NoAsk]))
<1> DEFINE c == [current EXCEPT ![a] = NoAsk]
<1>1. Busy(c) = Busy(current) \ {a} /\ a \in Busy(current)
  BY DEF Busy, TypeOK
<1>2. IsFiniteSet(Busy(current)) /\ Cardinality(Busy(current)) \in Nat
  BY BusyFinite
<1>3. Cardinality(Busy(current) \ {a})
        = IF a \in Busy(current) THEN Cardinality(Busy(current)) - 1
          ELSE Cardinality(Busy(current))
  BY <1>2, FS_RemoveElement, Zenon
<1>4. Cardinality(Busy(c)) = Cardinality(Busy(current) \ {a})
  BY <1>1, Zenon
<1> QED BY <1>1, <1>2, <1>3, <1>4

-----------------------------------------------------------------------------
\* Every way an ask settles while the run lives: its slot is given back once,
\* its seat goes to the head of the line, and the queues are rescanned.
LEMMA SettleSound ==
    ASSUME IInv, run = "running", NEW a \in Actors, NEW k \in Asks, current[a] = k,
           stage[k] \in {"dispatching", "started"}, NEW outcome \in {"ok", "failed"},
           Settle(a, k, outcome), UNCHANGED repairs, nudges' \in [Asks -> 0 .. NudgeAttempts]
    PROVE  IInv'
<1> DEFINE c == [current EXCEPT ![a] = NoAsk]
           st == [stage EXCEPT ![k] = "settled"]
<1>1. TypeOK /\ GateSound(gate) /\ TablesOK /\ gate \in Gates
  BY DEF IInv, GateSound
<1>2. /\ \A b \in Actors : k \notin Elements(queue[b])
      /\ \A b \in Actors : current[b] = k => b = a
      /\ k # NoAsk
  BY HeldAlone
<1>3. PumpAll(queue, c, activeAsks - 1, maxConcurrency, st)
  BY DEF Settle
<1>4. QueuesOK(queue, st)
  BY <1>1, <1>2, QueuesKept DEF TablesOK, TypeOK
<1>5. c \in [Actors -> Asks \cup {NoAsk}] /\ st \in [Asks -> Stages] /\ CurrentOK(c)
  BY <1>1 DEF TypeOK, TablesOK, CurrentOK, Stages
<1>6. activeAsks - 1 = Cardinality(Busy(c))
  BY <1>1, <1>2, SlotReturned DEF TypeOK, TablesOK
<1>7. Started(c, st) = Started(current, stage) \ {a}
  <2> SUFFICES ASSUME NEW b \in Actors
               PROVE  (c[b] # NoAsk /\ st[c[b]] = "started")
                        <=> (current[b] # NoAsk /\ stage[current[b]] = "started" /\ b # a)
    BY DEF Started
  <2>1. CASE b = a
    BY <1>1, <2>1 DEF TypeOK
  <2>2. CASE b # a
    BY <1>1, <1>2, <2>2 DEF TypeOK
  <2> QED BY <2>1, <2>2
<1> HIDE DEF c, st
<1>8. /\ queue' \in [Actors -> Seq(Asks)]
      /\ current' \in [Actors -> Asks \cup {NoAsk}]
      /\ stage' \in [Asks -> Stages]
      /\ session' \in [Actors -> {"none", "creating", "ready", "failed"}]
      /\ activeAsks' \in Nat
      /\ QueuesOK(queue', stage')
      /\ CurrentOK(current')
      /\ activeAsks' = Cardinality(Busy(current'))
      /\ Started(current', stage') = Started(current, stage) \ {a}
  <2>1. queue \in [Actors -> Seq(Asks)]
    BY <1>1 DEF TypeOK
  <2> QED BY <1>1, <1>3, <1>4, <1>5, <1>6, <1>7, <2>1, PumpStep
<1> DEFINE g == AskSettled(gate, a)
           seated == Seated(gate, g) \ {a}
<1>9. /\ gate' = g
      /\ phase' = [b \in Actors |-> IF b = a THEN "none" ELSE
                                     IF b \in seated THEN "model" ELSE phase[b]]
      /\ recent' = (recent \cup seated) \ {a}
  BY DEF Settle, MoveGate, Only
<1>10. /\ GateSound(g) /\ g \in Gates /\ g.limit = gate.limit
       /\ gate.working \ {a} \subseteq g.working
       /\ Engaged(g) = Engaged(gate) \ {a}
       /\ Seated(gate, g) # {} => Cardinality(g.working) <= gate.limit
       /\ ParkedActors(g) \subseteq ParkedActors(gate)
  BY <1>1, AskSettledSound DEF GateSound
<1>11. seated \subseteq g.working /\ seated \subseteq Seated(gate, g) /\ seated \subseteq Actors
  BY <1>10, GateFields DEF Seated
<1>12. /\ gate.limit \in Nat /\ recent \subseteq gate.working /\ recent \subseteq Actors
       /\ Cardinality(recent) <= gate.limit
       /\ \A b \in recent : phase[b] = "model"
       /\ \A b \in ParkedActors(gate) : phase[b] = "parked"
       /\ phase \in [Actors -> {"none", "idle", "model", "tool", "parked"}]
  BY <1>1, GateFields DEF IInv, TypeOK, TurnsWithinLimit
<1> HIDE DEF g, seated
<1>13. recent' \subseteq g.working /\ recent' \subseteq Actors
  BY <1>9, <1>10, <1>11, <1>12
<1>14. Cardinality(recent') <= gate.limit
  <2>1. CASE Seated(gate, g) = {}
    <3>1. recent' \subseteq recent
      BY <1>9, <1>11, <2>1
    <3> QED BY <1>12, <3>1, PartOfRecent
  <2>2. CASE Seated(gate, g) # {}
    BY <1>10, <1>12, <1>13, <2>2, PartOfWorking
  <2> QED BY <2>1, <2>2
<1>15. \A b \in recent' : phase'[b] = "model"
  BY <1>9, <1>11, <1>12
<1>16. \A b \in ParkedActors(g) : phase'[b] = "parked"
  <2> SUFFICES ASSUME NEW b \in ParkedActors(g) PROVE phase'[b] = "parked"
    OBVIOUS
  <2>1. b # a /\ b \notin g.working /\ b \in ParkedActors(gate) /\ b \in Actors
    BY <1>10, GateFields DEF Engaged, GateSound
  <2>2. b \notin seated
    BY <1>11, <2>1
  <2> QED BY <1>9, <1>12, <2>1, <2>2
<1>17. phase' \in [Actors -> {"none", "idle", "model", "tool", "parked"}]
  BY <1>9, <1>12
<1>18. TypeOK'
  <2>1. /\ row' \in [Asks -> {"none", "running", "completed", "failed"}]
        /\ promise' \in [Asks -> {"none", "pending", "ok", "failed", "cancelled"}]
        /\ run' = run /\ maxConcurrency' = maxConcurrency /\ seq' = seq /\ nextSeq' = nextSeq
    BY <1>1 DEF Settle, TypeOK
  <2>2. trace' \in [Asks -> Seq({"queued", "dispatched", "repairing", "nudged",
                                  "ok", "failed", "cancelled"})]
    BY <1>1 DEF Settle, Record, TypeOK
  <2> QED BY <1>1, <1>8, <1>9, <1>10, <1>13, <1>17, <2>1, <2>2 DEF TypeOK
<1>19. TablesOK'
  <2>1. Engaged(gate') = Started(current', stage')
    BY <1>1, <1>8, <1>9, <1>10 DEF TablesOK
  <2> QED
    BY <1>8, <2>1
    DEF TablesOK, Busy, Started, QueuesOK, CurrentOK, Engaged, ParkedActors, Elements, Distinct
<1> QED
  BY <1>9, <1>10, <1>13, <1>14, <1>15, <1>16, <1>18, <1>19
  DEF IInv, TurnsWithinLimit, GateSound, ParkedActors, Elements, Distinct

\* What the invariant says of the gate side, spelled out.
LEMMA GateSide ==
    ASSUME IInv
    PROVE  /\ TypeOK /\ GateSound(gate) /\ gate \in Gates
           /\ gate.limit \in Nat \ {0}
           /\ gate.working \subseteq Actors
           /\ ParkedActors(gate) \subseteq Actors
           /\ recent \subseteq gate.working
           /\ Cardinality(recent) <= gate.limit
           /\ \A a \in recent : phase[a] = "model"
           /\ \A a \in ParkedActors(gate) : phase[a] = "parked"
           /\ phase \in [Actors -> {"none", "idle", "model", "tool", "parked"}]
BY GateFields DEF IInv, GateSound, TypeOK, TurnsWithinLimit

\* The invariant after a step, from its parts.
LEMMA FromParts ==
    ASSUME TypeOK', GateSound(gate'), recent' \subseteq gate'.working,
           Cardinality(recent') <= gate'.limit,
           \A a \in recent' : phase'[a] = "model",
           \A a \in ParkedActors(gate') : phase'[a] = "parked",
           run' = "running" => /\ QueuesOK(queue', stage')
                               /\ CurrentOK(current')
                               /\ activeAsks' = Cardinality(Busy(current'))
                               /\ Engaged(gate') = Started(current', stage')
    PROVE  IInv'
BY DEF IInv, TurnsWithinLimit, GateSound, ParkedActors, Elements, Distinct, TablesOK,
       Busy, Started, QueuesOK, CurrentOK, Engaged

\* A step that leaves the gate and the actors' phases alone, and the tables as
\* they were, keeps the invariant when its types are right.
LEMMA TablesAlone ==
    ASSUME IInv, TypeOK', UNCHANGED <<gate, phase, recent, run>>,
           UNCHANGED <<queue, current, stage, activeAsks>>
    PROVE  IInv'
BY DEF IInv, TurnsWithinLimit, GateSound, ParkedActors, Elements, Distinct, TablesOK,
       Busy, Started, QueuesOK, CurrentOK, Engaged

\* ask() puts the new ask at the end of its actor's queue.
LEMMA AskedQueues ==
    ASSUME IInv, NEW k \in Asks, Ask(k)
    PROVE  QueuesOK([queue EXCEPT ![ActorOf[k]] = Append(@, k)],
                    [stage EXCEPT ![k] = "queued"])
<1> DEFINE a == ActorOf[k]
           q == [queue EXCEPT ![a] = Append(@, k)]
           st == [stage EXCEPT ![k] = "queued"]
<1>0. TypeOK /\ TablesOK /\ a \in Actors
  BY SchedulerAssumption DEF IInv, Ask
<1> SUFFICES ASSUME NEW b \in Actors
             PROVE  /\ Distinct(q[b])
                    /\ \A j \in Elements(q[b]) : ActorOf[j] = b /\ st[j] = "queued"
  BY DEF QueuesOK
<1> DEFINE s == queue[b]
<1>1. /\ s \in Seq(Asks) /\ Distinct(s) /\ k \notin Elements(s)
      /\ \A j \in Elements(s) : j \in Asks /\ ActorOf[j] = b /\ stage[j] = "queued"
  <2>1. /\ s \in Seq(Asks) /\ Distinct(s)
        /\ \A j \in Elements(s) : ActorOf[j] = b /\ stage[j] = "queued"
    BY <1>0 DEF TypeOK, TablesOK, QueuesOK
  <2>2. stage[k] = "unasked"
    BY DEF Ask
  <2> HIDE DEF s
  <2>3. \A j \in Elements(s) : j \in Asks
    BY <2>1 DEF Elements
  <2> QED BY <2>1, <2>2, <2>3
<1>2. \A j \in Elements(s) : st[j] = "queued"
  BY <1>0, <1>1 DEF TypeOK
<1>3. CASE b = a
  <2>1. q[b] = Append(s, k)
    BY <1>0, <1>3 DEF TypeOK
  <2> HIDE DEF s
  <2>2. Elements(Append(s, k)) = Elements(s) \cup {k} /\ Distinct(Append(s, k))
    BY <1>1, AppendElements
  <2>3. st[k] = "queued" /\ ActorOf[k] = b
    BY <1>0, <1>3 DEF TypeOK
  <2> QED BY <1>1, <1>2, <2>1, <2>2, <2>3
<1>4. CASE b # a
  <2>1. q[b] = s
    BY <1>0, <1>4 DEF TypeOK
  <2> QED BY <1>1, <1>2, <2>1
<1> QED BY <1>3, <1>4

\* ask() queues the new ask behind its actor's others.
LEMMA AskSound ==
    ASSUME IInv, NEW k \in Asks, Ask(k)
    PROVE  IInv'
<1> DEFINE a == ActorOf[k]
           q == [queue EXCEPT ![a] = Append(@, k)]
           st == [stage EXCEPT ![k] = "queued"]
<1>1. TypeOK /\ TablesOK /\ a \in Actors
  BY SchedulerAssumption DEF IInv, Ask
<1>2. PumpAll(q, current, activeAsks, maxConcurrency, st)
  BY DEF Ask
<1>3. /\ q \in [Actors -> Seq(Asks)] /\ st \in [Asks -> Stages]
      /\ current \in [Actors -> Asks \cup {NoAsk}]
  BY <1>1 DEF TypeOK, Stages
<1>4. QueuesOK(q, st)
  BY AskedQueues
<1>5. Started(current, st) = Started(current, stage)
  BY <1>1 DEF Started, TypeOK, Ask
<1>6. CurrentOK(current) /\ activeAsks = Cardinality(Busy(current))
  BY <1>1 DEF TablesOK
<1> HIDE DEF q, st
<1>7. /\ queue' \in [Actors -> Seq(Asks)]
      /\ current' \in [Actors -> Asks \cup {NoAsk}]
      /\ stage' \in [Asks -> Stages]
      /\ session' \in [Actors -> {"none", "creating", "ready", "failed"}]
      /\ activeAsks' \in Nat
      /\ QueuesOK(queue', stage')
      /\ CurrentOK(current')
      /\ activeAsks' = Cardinality(Busy(current'))
      /\ Started(current', stage') = Started(current, stage)
  BY <1>1, <1>2, <1>3, <1>4, <1>5, <1>6, PumpStep
<1>8. TypeOK'
  <2>1. /\ seq' \in [Asks -> Nat] /\ nextSeq' \in [Actors -> Nat]
        /\ row' \in [Asks -> {"none", "running", "completed", "failed"}]
        /\ promise' \in [Asks -> {"none", "pending", "ok", "failed", "cancelled"}]
    BY <1>1 DEF Ask, TypeOK
  <2>2. trace' \in [Asks -> Seq({"queued", "dispatched", "repairing", "nudged",
                                  "ok", "failed", "cancelled"})]
    BY <1>1 DEF Ask, Record, TypeOK
  <2> QED BY <1>1, <1>7, <2>1, <2>2 DEF TypeOK, Ask
<1>9. UNCHANGED <<gate, phase, recent>>
  BY DEF Ask
<1> QED BY <1>1, <1>7, <1>8, <1>9, GateSide, FromParts DEF TablesOK

\* startAsk: the actor goes to work with the ask it holds.
LEMMA StartAskSound ==
    ASSUME IInv, NEW a \in Actors, StartAsk(a)
    PROVE  IInv'
<1> DEFINE k == current[a]
           g == AskStarted(gate, a)
<1>1. TypeOK /\ TablesOK /\ k \in Asks /\ stage[k] = "dispatching" /\ run = "running"
  BY DEF IInv, StartAsk, TypeOK
<1>2. /\ \A b \in Actors : k \notin Elements(queue[b])
      /\ \A b \in Actors : current[b] = k => b = a
      /\ k # NoAsk
  BY <1>1, HeldAlone
<1>3. /\ stage' = [stage EXCEPT ![k] = "started"] /\ gate' = g
      /\ phase' = [phase EXCEPT ![a] = "idle"]
      /\ UNCHANGED <<run, queue, current, activeAsks, recent>>
  BY DEF StartAsk
<1>4. /\ GateSound(g) /\ g \in Gates /\ g.limit = gate.limit
      /\ gate.working \subseteq g.working /\ g.parked = gate.parked
      /\ Engaged(g) = Engaged(gate) \cup {a}
  BY GateSide, AskStartedSound DEF GateSound
<1>5. QueuesOK(queue, [stage EXCEPT ![k] = "started"])
  BY <1>1, <1>2, QueuesKept DEF TablesOK, TypeOK
<1>6. Started(current', stage') = Started(current, stage) \cup {a}
  <2> SUFFICES ASSUME NEW b \in Actors
               PROVE  (current[b] # NoAsk /\ stage'[current[b]] = "started")
                        <=> ((current[b] # NoAsk /\ stage[current[b]] = "started") \/ b = a)
    BY <1>3 DEF Started
  <2>1. CASE b = a
    BY <1>1, <1>2, <1>3, <2>1 DEF TypeOK
  <2>2. CASE b # a
    BY <1>1, <1>2, <1>3, <2>2 DEF TypeOK
  <2> QED BY <2>1, <2>2
<1>7. a \notin Engaged(gate)
  BY <1>1 DEF TablesOK, Started
<1> HIDE DEF g, k
<1>8. \A b \in ParkedActors(gate') : phase'[b] = "parked"
  BY <1>3, <1>4, <1>7, GateSide DEF ParkedActors, Engaged
<1>9. \A b \in recent' : phase'[b] = "model"
  BY <1>3, <1>7, GateSide DEF Engaged
<1>10. TypeOK'
  <2>1. /\ stage' \in [Asks -> Stages]
        /\ phase' \in [Actors -> {"none", "idle", "model", "tool", "parked"}]
    BY <1>1, <1>3 DEF TypeOK, Stages
  <2>2. trace' \in [Asks -> Seq({"queued", "dispatched", "repairing", "nudged",
                                  "ok", "failed", "cancelled"})]
    BY <1>1 DEF StartAsk, Record, TypeOK
  <2> QED BY <1>1, <1>3, <1>4, <2>1, <2>2 DEF TypeOK, StartAsk
<1>11. /\ QueuesOK(queue', stage') /\ CurrentOK(current')
       /\ activeAsks' = Cardinality(Busy(current'))
       /\ Engaged(gate') = Started(current', stage')
  BY <1>1, <1>3, <1>4, <1>5, <1>6 DEF TablesOK
<1> QED BY <1>3, <1>4, <1>8, <1>9, <1>10, <1>11, GateSide, FromParts

\* A turn step passes when there is a seat and parks when there is none.
LEMMA TurnStepSound ==
    ASSUME IInv, NEW a \in Actors, TurnStep(a)
    PROVE  IInv'
<1>1. TypeOK /\ TablesOK /\ run = "running" /\ phase[a] = "idle"
      /\ current[a] # NoAsk /\ stage[current[a]] = "started" /\ UNCHANGED engineVars
  BY DEF IInv, TurnStep, Runs
<1>2. a \in gate.working
  <2>1. a \in Engaged(gate)
    BY <1>1 DEF TablesOK, Started
  <2>2. a \notin ParkedActors(gate)
    BY <1>1, GateSide
  <2> QED BY <2>1, <2>2 DEF Engaged
<1>3. /\ UNCHANGED <<run, queue, current, stage, activeAsks>>
      /\ QueuesOK(queue, stage) /\ CurrentOK(current)
      /\ activeAsks = Cardinality(Busy(current))
      /\ Engaged(gate) = Started(current, stage)
  BY <1>1 DEF TablesOK, engineVars
<1>4. CASE MustPark(gate, a)
  <2> DEFINE g == Park(gate, a)
  <2>1. gate' = g /\ phase' = [phase EXCEPT ![a] = "parked"] /\ recent' = recent
    BY <1>4 DEF TurnStep
  <2>2. /\ GateSound(g) /\ g.limit = gate.limit /\ g.working = gate.working \ {a}
        /\ ParkedActors(g) = ParkedActors(gate) \cup {a}
    BY <1>4, GateSide, ParkSound
  <2>3. g \in Gates
    BY <2>2 DEF GateSound
  <2> HIDE DEF g
  <2>4. a \notin recent
    BY <1>1, GateSide
  <2>5. recent' \subseteq gate'.working /\ Cardinality(recent') <= gate'.limit
    BY <2>1, <2>2, <2>4, GateSide
  <2>6. \A b \in recent' : phase'[b] = "model"
    BY <2>1, <2>4, GateSide
  <2>7. \A b \in ParkedActors(gate') : phase'[b] = "parked"
    BY <2>1, <2>2, GateSide
  <2>8. Engaged(gate') = Started(current', stage')
    BY <1>2, <1>3, <2>1, <2>2 DEF Engaged
  <2>9. TypeOK'
    BY <1>1, <2>1, <2>3 DEF TypeOK, engineVars
  <2> QED BY <1>3, <2>1, <2>2, <2>5, <2>6, <2>7, <2>8, <2>9, FromParts
<1>5. CASE ~MustPark(gate, a)
  <2>1. gate' = gate /\ phase' = [phase EXCEPT ![a] = "model"] /\ recent' = recent \cup {a}
    BY <1>5 DEF TurnStep, Passes
  <2>2. gate \in Gates /\ gate.limit \in Nat /\ Cardinality(gate.working) \in Nat
    BY GateSide, GateFields
  <2>3. Cardinality(gate.working) <= gate.limit
    BY <1>2, <1>5, <2>2 DEF MustPark
  <2>4. recent' \subseteq gate.working
    BY <1>2, <2>1, GateSide
  <2>5. Cardinality(recent') <= gate.limit
    BY <2>2, <2>3, <2>4, PartOfWorking
  <2>6. \A b \in recent' : phase'[b] = "model"
    BY <2>1, GateSide
  <2>7. a \notin ParkedActors(gate)
    BY <1>2, GateSide DEF GateSound
  <2>8. \A b \in ParkedActors(gate') : phase'[b] = "parked"
    BY <2>1, <2>7, GateSide
  <2>9. TypeOK'
    BY <1>1, <2>1 DEF TypeOK, engineVars
  <2>10. GateSound(gate')
    BY <2>1, GateSide
  <2>11. Engaged(gate') = Started(current', stage')
    BY <1>3, <2>1
  <2> QED BY <1>3, <2>1, <2>4, <2>5, <2>6, <2>8, <2>9, <2>10, <2>11, FromParts
<1> QED BY <1>4, <1>5

\* The model's answer and a tool's return only move an actor between phases.
LEMMA PhaseSound ==
    ASSUME IInv, NEW a \in Actors, phase[a] \in {"model", "tool"},
           NEW p \in {"idle", "tool"}, phase' = [phase EXCEPT ![a] = p],
           recent' = recent \ {a}, UNCHANGED <<engineVars, gate>>
    PROVE  IInv'
<1>1. TypeOK /\ (run = "running" => TablesOK)
  BY DEF IInv
<1>2. /\ gate' = gate /\ UNCHANGED <<run, queue, current, stage, activeAsks>>
  BY DEF engineVars
<1>3. recent' \subseteq gate.working /\ Cardinality(recent') <= gate.limit
  <2>1. recent \in SUBSET Actors /\ recent' \subseteq recent /\ gate.limit \in Nat
    BY GateSide
  <2>2. Cardinality(recent') <= gate.limit
    BY <2>1, GateSide, PartOfRecent
  <2> QED BY <2>1, <2>2, GateSide
<1>4. \A b \in recent' : phase'[b] = "model"
  BY GateSide
<1>5. \A b \in ParkedActors(gate) : phase'[b] = "parked"
  BY GateSide
<1>6. TypeOK'
  BY <1>1, <1>3 DEF TypeOK, engineVars
<1> QED BY <1>1, <1>2, <1>3, <1>4, <1>5, <1>6, GateSide, FromParts DEF TablesOK

\* A parked request that is aborted goes back to work and seats nobody else.
LEMMA AbortRequestSound ==
    ASSUME IInv, NEW a \in Actors, AbortRequest(a)
    PROVE  IInv'
<1> DEFINE g == AbortParked(gate, a)
<1>1. TypeOK /\ TablesOK /\ run = "running" /\ UNCHANGED engineVars
  BY DEF IInv, AbortRequest
<1>2. /\ GateSound(g) /\ g.limit = gate.limit /\ gate.working \subseteq g.working
      /\ g.working \subseteq gate.working \cup {a}
      /\ Engaged(g) = Engaged(gate)
      /\ ParkedActors(g) = ParkedActors(gate) \ {a}
  BY GateSide, AbortParkedSound
<1>3. g \in Gates
  BY <1>2 DEF GateSound
<1>4. Seated(gate, g) \ {a} = {}
  BY <1>2, GateSide DEF Seated, GateSound
<1>5. /\ gate' = g
      /\ phase' = [b \in Actors |-> IF b = a THEN "idle" ELSE phase[b]]
      /\ recent' = recent \ {a}
  <2>1. /\ gate' = g
        /\ phase' = [b \in Actors |-> IF b = a THEN "idle" ELSE
                                       IF b \in Seated(gate, g) \ {a} THEN "model" ELSE phase[b]]
        /\ recent' = (recent \cup (Seated(gate, g) \ {a})) \ {a}
    BY DEF AbortRequest, MoveGate, Only
  <2> HIDE DEF g
  <2> QED BY <1>4, <2>1
<1> HIDE DEF g
<1>6. recent' \subseteq gate'.working /\ Cardinality(recent') <= gate'.limit
  <2>1. recent \in SUBSET Actors /\ recent' \subseteq recent /\ gate.limit \in Nat
    BY <1>5, GateSide
  <2>2. Cardinality(recent') <= gate.limit
    BY <2>1, GateSide, PartOfRecent
  <2> QED BY <1>2, <1>5, <2>1, <2>2, GateSide
<1>7. \A b \in recent' : phase'[b] = "model"
  BY <1>5, GateSide
<1>8. \A b \in ParkedActors(gate') : phase'[b] = "parked"
  BY <1>2, <1>5, GateSide
<1>9. TypeOK'
  BY <1>1, <1>3, <1>5 DEF TypeOK, engineVars
<1>10. /\ QueuesOK(queue', stage') /\ CurrentOK(current')
       /\ activeAsks' = Cardinality(Busy(current'))
       /\ Engaged(gate') = Started(current', stage')
  BY <1>1, <1>2, <1>5 DEF TablesOK, engineVars
<1> QED BY <1>2, <1>5, <1>6, <1>7, <1>8, <1>9, <1>10, FromParts

\* A new bound seats whom it admits, and only they count against it at first.
LEMMA RetuneSound ==
    ASSUME IInv, NEW limit \in Limits, Retune(limit)
    PROVE  IInv'
<1> DEFINE g == SetLimit(gate, limit)
           seated == Seated(gate, g)
<1>1. TypeOK /\ TablesOK /\ run = "running" /\ run' = run /\ limit \in Nat \ {0}
  BY SchedulerAssumption DEF IInv, Retune
<1>2. /\ GateSound(g) /\ g.limit = limit /\ gate.working \subseteq g.working
      /\ Engaged(g) = Engaged(gate)
      /\ g.working # gate.working => Cardinality(g.working) <= limit
  BY <1>1, GateSide, SetLimitSound
<1>3. /\ gate' = g /\ recent' = seated /\ maxConcurrency' = limit
      /\ phase' = [a \in Actors |-> IF a \in seated THEN "model" ELSE phase[a]]
  BY DEF Retune
<1>4. /\ queue' \in [Actors -> Seq(Asks)]
      /\ current' \in [Actors -> Asks \cup {NoAsk}]
      /\ stage' \in [Asks -> Stages]
      /\ session' \in [Actors -> {"none", "creating", "ready", "failed"}]
      /\ activeAsks' \in Nat
      /\ QueuesOK(queue', stage')
      /\ CurrentOK(current')
      /\ activeAsks' = Cardinality(Busy(current'))
      /\ Started(current', stage') = Started(current, stage)
  <2>1. CASE limit > maxConcurrency
    <3>1. PumpAll(queue, current, activeAsks, limit, stage)
      BY <2>1 DEF Retune
    <3>2. /\ queue \in [Actors -> Seq(Asks)] /\ stage \in [Asks -> Stages]
          /\ current \in [Actors -> Asks \cup {NoAsk}]
          /\ QueuesOK(queue, stage) /\ CurrentOK(current)
          /\ activeAsks = Cardinality(Busy(current))
      BY <1>1 DEF TypeOK, TablesOK
    <3> QED BY <1>1, <3>1, <3>2, PumpStep
  <2>2. CASE ~(limit > maxConcurrency)
    <3>1. UNCHANGED <<queue, current, activeAsks, stage, session>>
      BY <2>2 DEF Retune
    <3> QED BY <1>1, <3>1 DEF TypeOK, TablesOK
  <2> QED BY <2>1, <2>2
<1>5. g \in Gates /\ seated \subseteq g.working /\ seated \subseteq ParkedActors(gate)
  BY <1>2 DEF GateSound, Seated
<1> HIDE DEF g, seated
<1>6. Cardinality(recent') <= limit
  <2>1. CASE g.working = gate.working
    <3>1. recent' = {}
      BY <1>3, <1>5, <2>1, GateSide DEF GateSound
    <3> QED BY <1>1, <3>1, FS_EmptySet
  <2>2. CASE g.working # gate.working
    BY <1>1, <1>2, <1>3, <1>5, <2>2, PartOfWorking
  <2> QED BY <2>1, <2>2
<1>7. \A b \in recent' : phase'[b] = "model"
  BY <1>3, <1>5, GateSide
<1>8. \A b \in ParkedActors(gate') : phase'[b] = "parked"
  <2> SUFFICES ASSUME NEW b \in ParkedActors(g) PROVE phase'[b] = "parked"
    BY <1>3
  <2>1. b \notin g.working
    BY <1>2 DEF GateSound
  <2>2. b \in ParkedActors(gate) /\ b \notin seated
    BY <1>2, <1>5, <2>1 DEF Engaged
  <2> QED BY <1>3, <2>2, GateSide
<1>9. TypeOK'
  <2>1. /\ phase' \in [Actors -> {"none", "idle", "model", "tool", "parked"}]
        /\ recent' \subseteq Actors
    BY <1>3, <1>5, GateSide
  <2> QED BY <1>1, <1>3, <1>4, <1>5, <2>1 DEF TypeOK, Retune
<1>10. Engaged(gate') = Started(current', stage')
  BY <1>1, <1>2, <1>3, <1>4 DEF TablesOK
<1> QED BY <1>2, <1>3, <1>4, <1>5, <1>6, <1>7, <1>8, <1>9, <1>10, FromParts

\* The end of the run: nobody is left in line and nothing is under way.
LEMMA FinishSound ==
    ASSUME IInv, NEW status \in {"completed", "stopped", "errored"}, Finish(status)
    PROVE  IInv'
<1>1. TypeOK /\ run' = status /\ recent' = {} /\ phase' = [a \in Actors |-> "none"]
  BY DEF IInv, Finish
<1> DEFINE w == IF status = "errored" THEN gate.working \cup ParkedActors(gate) ELSE {}
<1>2. gate' = [gate EXCEPT !.parked = <<>>, !.working = w]
  BY DEF Finish
<1>3. w \in SUBSET Actors /\ <<>> \in Seq(Actors)
  BY GateSide
<1> HIDE DEF w
<1>4. gate' \in Gates /\ gate'.parked = <<>> /\ gate'.limit = gate.limit
  BY <1>2, <1>3, GateSide DEF Gates
<1>5. ParkedActors(gate') = {}
  BY <1>4 DEF ParkedActors, Elements
<1>6. GateSound(gate')
  BY <1>4, <1>5 DEF GateSound, Distinct
<1>7. Cardinality(recent') <= gate'.limit
  BY <1>1, <1>4, GateSide, FS_EmptySet
<1>8. TypeOK'
  <2>1. /\ stage' \in [Asks -> Stages] /\ activeAsks' \in Nat
        /\ promise' \in [Asks -> {"none", "pending", "ok", "failed", "cancelled"}]
        /\ run' \in Statuses
    BY <1>1 DEF Finish, TypeOK, Stages, Statuses
  <2>2. trace' \in [Asks -> Seq({"queued", "dispatched", "repairing", "nudged",
                                  "ok", "failed", "cancelled"})]
    BY <1>1 DEF Finish, TypeOK
  <2>3. phase' \in [Actors -> {"none", "idle", "model", "tool", "parked"}]
    BY <1>1
  <2> QED BY <1>1, <1>4, <2>1, <2>2, <2>3 DEF TypeOK, Finish
<1> QED BY <1>1, <1>5, <1>6, <1>7, <1>8, FromParts

\* The verdicts of a submission and of a turn's end: settle, or go on with one
\* repair or nudge less.
LEMMA VerdictSound ==
    ASSUME IInv, NEW a \in Actors, NEW k \in Asks,
           \/ \E valid \in BOOLEAN : Submit(a, k, valid)
           \/ TurnEnded(a, k)
           \/ AskFailed(a, k)
    PROVE  IInv'
<1>1. run = "running" /\ current[a] = k /\ stage[k] = "started"
  BY DEF Submit, TurnEnded, AskFailed, Runs
<1>2. TypeOK
  BY DEF IInv
<1>3. ASSUME NEW outcome \in {"ok", "failed"}, Settle(a, k, outcome),
             UNCHANGED <<repairs, nudges>>
      PROVE  IInv'
  <2>1. nudges' \in [Asks -> 0 .. NudgeAttempts]
    BY <1>2, <1>3 DEF TypeOK
  <2> QED BY <1>1, <1>3, <2>1, SettleSound
<1>4. ASSUME NEW event \in {"repairing", "nudged"}, Record(k, event),
             repairs' \in [Asks -> 0 .. RepairAttempts],
             nudges' \in [Asks -> 0 .. NudgeAttempts],
             UNCHANGED <<run, maxConcurrency, seq, nextSeq, queue, current, activeAsks,
                         session, row, promise, stage, gate, phase, recent>>
      PROVE  IInv'
  <2>1. trace' \in [Asks -> Seq({"queued", "dispatched", "repairing", "nudged",
                                  "ok", "failed", "cancelled"})]
    BY <1>2, <1>4 DEF Record, TypeOK
  <2>2. TypeOK'
    BY <1>2, <1>4, <2>1 DEF TypeOK
  <2> QED BY <1>4, <2>2, TablesAlone
<1>5. ASSUME NEW valid \in BOOLEAN, Submit(a, k, valid) PROVE IInv'
  <2>1. CASE valid
    BY <1>3, <1>5, <2>1 DEF Submit
  <2>2. CASE ~valid /\ repairs[k] > 0
    <3>1. /\ repairs' = [repairs EXCEPT ![k] = @ - 1]
          /\ Record(k, "repairing")
          /\ UNCHANGED <<run, maxConcurrency, seq, nextSeq, queue, current, activeAsks,
                         session, nudges, row, promise, stage, gate, phase, recent>>
      BY <1>5, <2>2 DEF Submit
    <3>2. repairs' \in [Asks -> 0 .. RepairAttempts]
      BY <1>2, <2>2, <3>1, SchedulerAssumption DEF TypeOK
    <3> QED BY <1>2, <1>4, <3>1, <3>2 DEF TypeOK
  <2>3. CASE ~valid /\ ~(repairs[k] > 0)
    BY <1>3, <1>5, <2>3 DEF Submit
  <2> QED BY <2>1, <2>2, <2>3
<1>6. CASE TurnEnded(a, k)
  <2>1. CASE k \in Typed /\ nudges[k] > 0
    <3>1. /\ nudges' = [nudges EXCEPT ![k] = @ - 1]
          /\ Record(k, "nudged")
          /\ UNCHANGED <<run, maxConcurrency, seq, nextSeq, queue, current, activeAsks,
                         session, repairs, row, promise, stage, gate, phase, recent>>
      BY <1>6, <2>1 DEF TurnEnded
    <3>2. nudges' \in [Asks -> 0 .. NudgeAttempts]
      BY <1>2, <2>1, <3>1, SchedulerAssumption DEF TypeOK
    <3> QED BY <1>2, <1>4, <3>1, <3>2 DEF TypeOK
  <2>2. CASE ~(k \in Typed /\ nudges[k] > 0)
    BY <1>3, <1>6, <2>2 DEF TurnEnded
  <2> QED BY <2>1, <2>2
<1>7. CASE AskFailed(a, k)
  BY <1>3, <1>7 DEF AskFailed
<1> QED BY <1>5, <1>6, <1>7

\* A session that cannot be created settles the ask that waits for it.
LEMMA DispatchFailsSound ==
    ASSUME IInv, NEW a \in Actors, DispatchFails(a)
    PROVE  IInv'
<1> DEFINE k == current[a]
<1>1. /\ run = "running" /\ k \in Asks /\ stage[k] = "dispatching"
      /\ Settle(a, k, "failed") /\ UNCHANGED <<repairs, nudges>>
  BY DEF IInv, TypeOK, DispatchFails
<1>2. nudges' \in [Asks -> 0 .. NudgeAttempts]
  BY <1>1 DEF IInv, TypeOK
<1> QED BY <1>1, <1>2, SettleSound

-----------------------------------------------------------------------------
\* A run starts with the invariant.
LEMMA InitSound == Init => IInv
<1> SUFFICES ASSUME Init PROVE IInv
  OBVIOUS
<1>1. StartLimit \in Nat \ {0}
  BY SchedulerAssumption
<1>2. /\ GateSound(gate) /\ gate \in Gates /\ gate.limit = StartLimit
      /\ Engaged(gate) = {} /\ gate.working = {}
  BY <1>1, NewGateSound DEF Init, GateSound
<1>3. TypeOK
  BY <1>2, SchedulerAssumption DEF Init, TypeOK, Statuses, Stages
<1>4. TurnsWithinLimit
  BY <1>1, <1>2, FS_EmptySet DEF Init, TurnsWithinLimit
<1>5. Busy(current) = {} /\ Started(current, stage) = {}
  BY DEF Init, Busy, Started
<1>6. activeAsks = Cardinality(Busy(current))
  BY <1>5, FS_EmptySet DEF Init
<1>7. QueuesOK(queue, stage) /\ CurrentOK(current)
  BY DEF Init, QueuesOK, CurrentOK, Distinct, Elements
<1>8. ParkedActors(gate) = {}
  BY <1>2 DEF Engaged
<1> QED BY <1>2, <1>3, <1>4, <1>5, <1>6, <1>7, <1>8 DEF IInv, TablesOK, Init

\* Every step keeps it.
LEMMA NextSound == IInv /\ [Next]_vars => IInv'
<1> SUFFICES ASSUME IInv, [Next]_vars PROVE IInv'
  OBVIOUS
<1>1. ASSUME NEW k \in Asks, Ask(k) PROVE IInv'
  BY <1>1, AskSound
<1>2. ASSUME NEW a \in Actors, NEW ok \in BOOLEAN, SessionCreated(a, ok) PROVE IInv'
  <2>1. TypeOK'
    BY <1>2 DEF SessionCreated, IInv, TypeOK
  <2> QED BY <1>2, <2>1, TablesAlone DEF SessionCreated
<1>3. ASSUME NEW a \in Actors, StartAsk(a) PROVE IInv'
  BY <1>3, StartAskSound
<1>4. ASSUME NEW a \in Actors, DispatchFails(a) PROVE IInv'
  BY <1>4, DispatchFailsSound
<1>5. ASSUME NEW a \in Actors, TurnStep(a) PROVE IInv'
  BY <1>5, TurnStepSound
<1>6. ASSUME NEW a \in Actors, NEW next \in {"tool", "idle"}, ModelAnswers(a, next)
      PROVE  IInv'
  BY <1>6, PhaseSound DEF ModelAnswers
<1>7. ASSUME NEW a \in Actors, ToolReturns(a) PROVE IInv'
  <2>1. a \notin recent
    BY <1>7, GateSide DEF ToolReturns
  <2>2. recent' = recent \ {a}
    BY <1>7, <2>1 DEF ToolReturns
  <2> QED BY <1>7, <2>2, PhaseSound DEF ToolReturns
<1>8. ASSUME NEW a \in Actors, AbortRequest(a) PROVE IInv'
  BY <1>8, AbortRequestSound
<1>9. ASSUME NEW a \in Actors, NEW k \in Asks,
             \/ \E valid \in BOOLEAN : Submit(a, k, valid)
             \/ TurnEnded(a, k)
             \/ AskFailed(a, k)
      PROVE  IInv'
  BY <1>9, VerdictSound
<1>10. ASSUME NEW limit \in Limits, Retune(limit) PROVE IInv'
  BY <1>10, RetuneSound
<1>11. ASSUME NEW status \in {"completed", "stopped", "errored"}, Finish(status) PROVE IInv'
  BY <1>11, FinishSound
<1>12. CASE UNCHANGED vars
  <2>1. TypeOK'
    BY <1>12 DEF vars, engineVars, IInv, TypeOK
  <2> QED BY <1>12, <2>1, TablesAlone DEF vars, engineVars
<1> QED
  BY <1>1, <1>2, <1>3, <1>4, <1>5, <1>6, <1>7, <1>8, <1>9, <1>10, <1>11, <1>12 DEF Next

\* The invariant holds throughout every run.
THEOREM Invariance == Spec => []IInv
<1>1. Init => IInv
  BY InitSound
<1>2. IInv /\ [Next]_vars => IInv'
  BY NextSound
<1> QED BY <1>1, <1>2, PTL DEF Spec

\* Every variable keeps its type whatever the script, the model, the tools and
\* the user do.
THEOREM TypeCorrect == Spec => []TypeOK
<1>1. IInv => TypeOK
  BY DEF IInv
<1> QED BY <1>1, Invariance, PTL

\* No settlement path leaks a slot of the run's bound or gives one back twice.
THEOREM SlotsExact == Spec => []ActiveAsksExact
<1>1. IInv => ActiveAsksExact
  BY DEF IInv, TablesOK, ActiveAsksExact, Busy
<1> QED BY <1>1, Invariance, PTL

\* No subagent with a started ask is lost between work and the line for a seat.
THEOREM SeatsAlwaysExact == Spec => []SeatsExact
<1>1. IInv => SeatsExact
  BY DEF IInv, TablesOK, GateSound, Engaged, SeatsExact
<1> QED BY <1>1, Invariance, PTL

\* While anybody is parked somebody works: parked subagents never wait for each
\* other only.
THEOREM SomeoneAlwaysWorks == Spec => []SomeoneWorks
<1>1. IInv => SomeoneWorks
  BY DEF IInv, GateSound, SomeoneWorks
<1> QED BY <1>1, Invariance, PTL

\* Of the turn steps sent to the model since the bound last changed, no more
\* than the bound are ever under way at once.
THEOREM BoundHonoured == Spec => []TurnsWithinLimit
<1>1. IInv => TurnsWithinLimit
  BY DEF IInv
<1> QED BY <1>1, Invariance, PTL

-----------------------------------------------------------------------------
(***************************************************************************)
(* What the script and the user may rely on while a run lives and after    *)
(* it: the outcomes the journal keeps, the order of an actor's asks, that  *)
(* no slot stays idle and that nobody overtakes a parked subagent.         *)
(***************************************************************************)
Live(s) == s \in {"queued", "dispatching", "started"}

\* An actor's queue stands in admission order, every queued ask stands in it,
\* and a picked or started ask is the one its actor holds.
OrderOK(q, c, st, sq) ==
    /\ \A a \in Actors : \A i, j \in DOMAIN q[a] : i < j => sq[q[a][i]] < sq[q[a][j]]
    /\ \A k \in Asks : st[k] = "queued" => k \in Elements(q[ActorOf[k]])
    /\ \A k \in Asks : st[k] \in {"dispatching", "started"} => c[ActorOf[k]] = k

\* InAdmissionOrder, of any stages and numbers.
InOrder(st, sq) ==
    \A j, k \in Asks :
        /\ ActorOf[j] = ActorOf[k]
        /\ Live(st[j])
        /\ st[k] \notin {"unasked", "queued"}
        => sq[k] <= sq[j]

\* A number is below the next one its actor gives.
NumbersOK == \A k \in Asks : stage[k] # "unasked" => seq[k] < nextSeq[ActorOf[k]]

\* What holds of a living run.
Ordered ==
    /\ OrderOK(queue, current, stage, seq)
    /\ InOrder(stage, seq)
    /\ NumbersOK
    /\ gate.limit = maxConcurrency
    /\ NoIdleSlot

OInv ==
    /\ IInv
    /\ InOrder(stage, seq)
    /\ run = "running" => Ordered

-----------------------------------------------------------------------------
\* What a step does to the tables, when the run lives.
Untouched ==
    /\ UNCHANGED <<run, maxConcurrency, seq, nextSeq, queue, current, activeAsks,
                   stage, row, promise>>
    /\ gate'.limit = gate.limit

Settles(a, k, outcome) ==
    /\ Settle(a, k, outcome)
    /\ run = "running"
    /\ current[a] = k
    /\ stage[k] \in {"dispatching", "started"}

LEMMA StepShapes ==
    ASSUME IInv, run = "running", [Next]_vars
    PROVE  \/ \E k \in Asks : Ask(k)
           \/ \E a \in Actors, k \in Asks, outcome \in {"ok", "failed"} : Settles(a, k, outcome)
           \/ \E a \in Actors : StartAsk(a)
           \/ \E limit \in Limits : Retune(limit)
           \/ \E status \in {"completed", "stopped", "errored"} : Finish(status)
           \/ Untouched
<1> USE DEF Untouched, Settles
<1>1. ASSUME NEW a \in Actors, NEW ok \in BOOLEAN, SessionCreated(a, ok) PROVE Untouched
  BY <1>1 DEF SessionCreated
<1>2. ASSUME NEW a \in Actors, DispatchFails(a)
      PROVE  Settles(a, current[a], "failed") /\ current[a] \in Asks
  BY <1>2, GateSide DEF DispatchFails, TypeOK
<1>3. ASSUME NEW a \in Actors, TurnStep(a) PROVE Untouched
  <2>1. CASE MustPark(gate, a)
    <3>1. gate' = Park(gate, a) /\ UNCHANGED engineVars
      BY <1>3, <2>1 DEF TurnStep
    <3> QED BY <2>1, <3>1, GateSide, ParkSound DEF engineVars
  <2>2. CASE ~MustPark(gate, a)
    BY <1>3, <2>2 DEF TurnStep, Passes, engineVars
  <2> QED BY <2>1, <2>2
<1>4. ASSUME NEW a \in Actors, NEW next \in {"tool", "idle"}, ModelAnswers(a, next)
      PROVE  Untouched
  BY <1>4 DEF ModelAnswers, engineVars
<1>5. ASSUME NEW a \in Actors, ToolReturns(a) PROVE Untouched
  BY <1>5 DEF ToolReturns, engineVars
<1>6. ASSUME NEW a \in Actors, AbortRequest(a) PROVE Untouched
  <2>1. gate' = AbortParked(gate, a) /\ UNCHANGED engineVars
    BY <1>6 DEF AbortRequest, MoveGate
  <2> QED BY <2>1, GateSide, AbortParkedSound DEF engineVars
<1>7. ASSUME NEW a \in Actors, NEW k \in Asks, NEW valid \in BOOLEAN, Submit(a, k, valid)
      PROVE  Untouched \/ Settles(a, k, "ok") \/ Settles(a, k, "failed")
  BY <1>7 DEF Submit, Runs
<1>8. ASSUME NEW a \in Actors, NEW k \in Asks, TurnEnded(a, k) \/ AskFailed(a, k)
      PROVE  Untouched \/ Settles(a, k, "ok") \/ Settles(a, k, "failed")
  BY <1>8 DEF TurnEnded, AskFailed, Runs
<1>9. CASE UNCHANGED vars
  BY <1>9 DEF vars, engineVars
<1> HIDE DEF Untouched, Settles
<1> QED BY <1>1, <1>2, <1>3, <1>4, <1>5, <1>6, <1>7, <1>8, <1>9 DEF Next

\* run-settled is the last event of a run: afterwards nothing is recorded,
\* started or settled, and no promise of the script changes.
LEMMA QuietStep ==
    ASSUME run # "running", [Next]_vars
    PROVE  UNCHANGED <<run, trace, row, promise, stage, gate, seq, current>>
<1>1. CASE UNCHANGED vars
  BY <1>1 DEF vars, engineVars
<1>2. ASSUME NEW a \in Actors, NEW ok \in BOOLEAN, SessionCreated(a, ok)
      PROVE  UNCHANGED <<run, trace, row, promise, stage, gate, seq, current>>
  BY <1>2 DEF SessionCreated
<1>3. ASSUME NEW a \in Actors,
             ToolReturns(a) \/ \E next \in {"tool", "idle"} : ModelAnswers(a, next)
      PROVE  UNCHANGED <<run, trace, row, promise, stage, gate, seq, current>>
  BY <1>3 DEF ToolReturns, ModelAnswers, engineVars
<1>4. ASSUME NEW a \in Actors
      PROVE  ~(StartAsk(a) \/ DispatchFails(a) \/ TurnStep(a) \/ AbortRequest(a))
  BY DEF StartAsk, DispatchFails, TurnStep, Runs, AbortRequest
<1>5. ASSUME NEW a \in Actors, NEW k \in Asks
      PROVE  /\ ~(Ask(k) \/ TurnEnded(a, k) \/ AskFailed(a, k))
             /\ \A valid \in BOOLEAN : ~Submit(a, k, valid)
  BY DEF Ask, TurnEnded, AskFailed, Submit, Runs
<1>6. \A k \in Asks : ~Ask(k)
  BY DEF Ask
<1>7. ASSUME NEW limit \in Limits PROVE ~Retune(limit)
  BY DEF Retune
<1>8. ASSUME NEW status PROVE ~Finish(status)
  BY DEF Finish
<1> QED BY <1>1, <1>2, <1>3, <1>4, <1>5, <1>6, <1>7, <1>8 DEF Next

-----------------------------------------------------------------------------
\* What pumpAll does to the asks: the head of each picked actor's queue, and no
\* other, goes from queued to dispatching.
Moved(q, c, st) ==
    /\ \A a \in Actors : current'[a] # c[a] =>
         /\ c[a] = NoAsk /\ q[a] # <<>> /\ 1 \in DOMAIN q[a]
         /\ current'[a] = q[a][1]
         /\ queue'[a] = Without(q[a], 1)
         /\ stage'[current'[a]] = "dispatching"
    /\ \A a \in Actors : current'[a] = c[a] => queue'[a] = q[a]
    /\ \A k \in Asks : stage'[k] # st[k] =>
         /\ st[k] = "queued" /\ stage'[k] = "dispatching"
         /\ current'[ActorOf[k]] = k /\ c[ActorOf[k]] = NoAsk

LEMMA PumpEffect ==
    ASSUME NEW q \in [Actors -> Seq(Asks)], NEW c \in [Actors -> Asks \cup {NoAsk}],
           NEW st \in [Asks -> Stages], NEW n, NEW bound,
           QueuesOK(q, st), PumpAll(q, c, n, bound, st)
    PROVE  /\ Moved(q, c, st)
           /\ \A a \in Actors : current'[a] # c[a] <=> a \in Picked(q, c, n, bound)
<1> DEFINE P == Picked(q, c, n, bound)
           asks == {Head(q[a]) : a \in P}
<1>1. /\ \A a \in Actors : queue'[a] = IF a \in P THEN Tail(q[a]) ELSE q[a]
      /\ \A a \in Actors : current'[a] = IF a \in P THEN Head(q[a]) ELSE c[a]
      /\ \A k \in Asks : stage'[k] = IF k \in asks THEN "dispatching" ELSE st[k]
      /\ activeAsks' = n + Cardinality(P)
  BY DEF PumpAll
<1>2. \A a \in P : a \in Actors /\ c[a] = NoAsk /\ q[a] # <<>> /\ q[a] \in Seq(Asks)
  BY DEF Picked
<1>3. \A k : k \in asks <=> \E a \in P : k = Head(q[a])
  OBVIOUS
<1> HIDE DEF P, asks
<1>4. ASSUME NEW a \in P
      PROVE  /\ Head(q[a]) = q[a][1] /\ 1 \in DOMAIN q[a] /\ Tail(q[a]) = Without(q[a], 1)
             /\ q[a][1] \in Asks /\ q[a][1] # NoAsk /\ q[a][1] \in asks
             /\ ActorOf[q[a][1]] = a /\ st[q[a][1]] = "queued"
  <2>1. Head(q[a]) = q[a][1] /\ 1 \in DOMAIN q[a] /\ Tail(q[a]) = Without(q[a], 1)
    BY <1>2, TailIsWithout
  <2>2. q[a][1] \in Elements(q[a]) /\ q[a][1] \in Asks
    BY <1>2, <2>1 DEF Elements
  <2> QED BY <1>2, <1>3, <2>1, <2>2, SchedulerAssumption DEF QueuesOK
<1>5. \A a \in P : current'[a] = q[a][1] /\ current'[a] # c[a]
  BY <1>1, <1>2, <1>4
<1>6. \A k \in Asks : k \in asks => /\ st[k] = "queued" /\ stage'[k] = "dispatching"
                                   /\ current'[ActorOf[k]] = k /\ c[ActorOf[k]] = NoAsk
  BY <1>1, <1>2, <1>3, <1>4, <1>5
<1>7. \A a \in Actors : a \notin P => current'[a] = c[a] /\ queue'[a] = q[a]
  BY <1>1
<1>8. \A a \in P : stage'[current'[a]] = "dispatching" /\ queue'[a] = Without(q[a], 1)
  BY <1>1, <1>2, <1>4, <1>5
<1> QED BY <1>1, <1>2, <1>4, <1>5, <1>6, <1>7, <1>8 DEF P, Moved

\* The order survives it.
LEMMA PumpInOrder ==
    ASSUME NEW q \in [Actors -> Seq(Asks)], NEW c \in [Actors -> Asks \cup {NoAsk}],
           NEW st \in [Asks -> Stages], NEW n, NEW bound, NEW sq \in [Asks -> Nat],
           QueuesOK(q, st), OrderOK(q, c, st, sq), InOrder(st, sq),
           PumpAll(q, c, n, bound, st)
    PROVE  OrderOK(queue', current', stage', sq) /\ InOrder(stage', sq)
<1>1. Moved(q, c, st)
  BY PumpEffect
<1>2. \A k \in Asks : ActorOf[k] \in Actors /\ k # NoAsk
  BY SchedulerAssumption
<1>3. ASSUME NEW a \in Actors, current'[a] # c[a]
      PROVE  LET s == q[a]
                 t == Without(s, 1)
             IN  /\ \A i, j \in DOMAIN t : i < j => sq[t[i]] < sq[t[j]]
                 /\ \A x \in Elements(s) : x # s[1] => x \in Elements(t)
                 /\ \A x \in Elements(s) : x # s[1] => sq[s[1]] < sq[x]
                 /\ s[1] \in Elements(s)
  <2> DEFINE s == q[a]
             t == Without(s, 1)
  <2>1. s \in Seq(Asks) /\ 1 \in DOMAIN s /\ Distinct(s)
    BY <1>1, <1>3 DEF QueuesOK, Moved
  <2>2. \A i, j \in DOMAIN s : i < j => sq[s[i]] < sq[s[j]]
    BY DEF OrderOK
  <2> HIDE DEF s
  <2>3. /\ Len(s) \in Nat /\ DOMAIN s = 1 .. Len(s)
        /\ DOMAIN t = 1 .. Len(s) - 1
        /\ \A i \in 1 .. Len(s) - 1 : t[i] = IF i < 1 THEN s[i] ELSE s[i + 1]
    BY <2>1, WithoutIsSeq
  <2>4. Elements(t) = Elements(s) \ {s[1]}
    BY <2>1, WithoutElements
  <2> HIDE DEF t
  <2>5. \A i, j \in DOMAIN t : i < j => sq[t[i]] < sq[t[j]]
    <3> SUFFICES ASSUME NEW i \in DOMAIN t, NEW j \in DOMAIN t, i < j
                 PROVE  sq[t[i]] < sq[t[j]]
      OBVIOUS
    <3>1. /\ t[i] = s[i + 1] /\ t[j] = s[j + 1] /\ i + 1 < j + 1
          /\ i + 1 \in DOMAIN s /\ j + 1 \in DOMAIN s
      BY <2>3
    <3> QED BY <2>2, <3>1
  <2>6. \A x \in Elements(s) : x # s[1] => sq[s[1]] < sq[x]
    <3> SUFFICES ASSUME NEW i \in DOMAIN s, s[i] # s[1] PROVE sq[s[1]] < sq[s[i]]
      BY DEF Elements
    <3>1. 1 < i
      BY <2>3
    <3> QED BY <2>1, <2>2, <3>1
  <2>7. s[1] \in Elements(s)
    BY <2>1 DEF Elements
  <2> QED BY <2>4, <2>5, <2>6, <2>7 DEF s, t
<1>4. ASSUME NEW a \in Actors
      PROVE  \A i, j \in DOMAIN queue'[a] : i < j => sq[queue'[a][i]] < sq[queue'[a][j]]
  <2>1. CASE current'[a] = c[a]
    BY <1>1, <2>1 DEF OrderOK, Moved
  <2>2. CASE current'[a] # c[a]
    BY <1>1, <1>3, <2>2 DEF Moved
  <2> QED BY <2>1, <2>2
<1>5. ASSUME NEW k \in Asks, stage'[k] = "queued" PROVE k \in Elements(queue'[ActorOf[k]])
  <2>1. st[k] = "queued" /\ k \in Elements(q[ActorOf[k]])
    BY <1>1, <1>5 DEF OrderOK, Moved
  <2>2. CASE current'[ActorOf[k]] = c[ActorOf[k]]
    BY <1>1, <1>2, <2>1, <2>2 DEF Moved
  <2>3. CASE current'[ActorOf[k]] # c[ActorOf[k]]
    <3>1. k # q[ActorOf[k]][1]
      BY <1>1, <1>2, <1>5, <2>3 DEF Moved
    <3> QED BY <1>1, <1>2, <1>3, <2>1, <2>3, <3>1 DEF Moved
  <2> QED BY <2>2, <2>3
<1>6. ASSUME NEW k \in Asks, stage'[k] \in {"dispatching", "started"}
      PROVE  current'[ActorOf[k]] = k
  BY <1>1, <1>2, <1>6 DEF OrderOK, Moved
<1>7. ASSUME NEW j \in Asks, NEW k \in Asks, ActorOf[j] = ActorOf[k], Live(stage'[j]),
             stage'[k] \notin {"unasked", "queued"}
      PROVE  sq[k] <= sq[j]
  <2>1. Live(st[j])
    BY <1>1, <1>7 DEF Live, Moved
  <2>2. CASE stage'[k] = st[k]
    BY <1>7, <2>1, <2>2 DEF InOrder
  <2>3. CASE stage'[k] # st[k]
    <3> DEFINE a == ActorOf[k]
    <3>1. a \in Actors /\ c[a] = NoAsk /\ current'[a] = k /\ current'[a] # c[a] /\ q[a][1] = k
      BY <1>1, <1>2, <2>3 DEF Moved
    <3>2. st[j] = "queued"
      BY <1>2, <1>7, <2>1, <3>1 DEF OrderOK, Live
    <3>3. j \in Elements(q[a])
      BY <1>7, <3>2 DEF OrderOK
    <3>4. CASE j = k
      BY <3>4
    <3>5. CASE j # k
      BY <1>3, <3>1, <3>3, <3>5
    <3> QED BY <3>4, <3>5
  <2> QED BY <2>2, <2>3
<1> QED BY <1>4, <1>5, <1>6, <1>7 DEF OrderOK, InOrder

-----------------------------------------------------------------------------
\* Of the actors that are free and have an ask waiting, those pumpAll passes
\* over come after as many as there were free slots.
LEMMA PumpLeavesNoneIdle ==
    ASSUME NEW q \in [Actors -> Seq(Asks)], NEW c \in [Actors -> Asks \cup {NoAsk}],
           NEW st \in [Asks -> Stages], NEW n \in Nat, NEW bound \in Nat,
           QueuesOK(q, st), PumpAll(q, c, n, bound, st),
           NEW a \in Actors, current'[a] = NoAsk, queue'[a] # <<>>
    PROVE  activeAsks' >= bound
<1> DEFINE P == Picked(q, c, n, bound)
           R == {x \in Actors : c[x] = NoAsk /\ q[x] # <<>>}
           Below(x) == {b \in R : Rank[b] < Rank[x]}
           U == {Below(x) : x \in R \ P}
<1>1. activeAsks' = n + Cardinality(P) /\ P \subseteq R
  BY DEF PumpAll, Picked
<1>2. \A x \in R \ P : ~(n + Cardinality(Below(x)) < bound)
  BY DEF Picked
<1>3. a \in R \ P
  <2>1. Moved(q, c, st) /\ (current'[a] # c[a] <=> a \in P)
    BY PumpEffect
  <2>2. current'[a] = c[a]
    <3> SUFFICES ASSUME current'[a] # c[a] PROVE FALSE
      OBVIOUS
    <3>1. current'[a] = q[a][1] /\ 1 \in DOMAIN q[a]
      BY <2>1 DEF Moved
    <3>2. q[a][1] \in Asks
      BY <3>1
    <3> QED BY <3>1, <3>2, SchedulerAssumption
  <2> QED BY <2>1, <2>2 DEF Moved
<1>4. /\ IsFiniteSet(P) /\ Cardinality(P) \in Nat
      /\ \A x : IsFiniteSet(Below(x)) /\ Cardinality(Below(x)) \in Nat
  <2>1. P \subseteq Actors /\ \A x : Below(x) \subseteq Actors
    BY <1>1
  <2> HIDE DEF P, R, Below
  <2> QED BY <2>1, ActorsAssumption, FS_Subset, FS_CardinalityType
<1>5. \A x, y \in R : Rank[x] \in Nat /\ Rank[y] \in Nat
  BY SchedulerAssumption
<1>6. PICK m \in R \ P : \A x \in R \ P :
                            ~(Below(x) \subseteq Below(m) /\ Below(x) # Below(m))
  <2>1. \A x : Below(x) \in FiniteSubsetsOf(Actors)
    <3>1. \A x : Below(x) \in SUBSET Actors
      OBVIOUS
    <3> HIDE DEF Below
    <3> QED BY <1>4, <3>1 DEF FiniteSubsetsOf
  <2> HIDE DEF P, R, Below
  <2>2. U # {} /\ U \subseteq FiniteSubsetsOf(Actors)
    BY <1>3, <2>1
  <2>3. \A x \in R \ P : Below(x) \in U
    OBVIOUS
  <2>4. IsWellFoundedOn(StrictSubsetOrdering(Actors), FiniteSubsetsOf(Actors))
    BY FS_StrictSubsetOrderingWellFounded
  <2>5. PICK L \in U : \A T \in U : <<T, L>> \notin StrictSubsetOrdering(Actors)
    <3> HIDE DEF U
    <3> QED BY <2>2, <2>4, WFMin
  <2>6. PICK m \in R \ P : L = Below(m)
    OBVIOUS
  <2>7. \A T \in U : ~(T \subseteq L /\ T # L)
    <3>1. \A T \in U : T \in SUBSET Actors
      BY <2>2 DEF FiniteSubsetsOf
    <3> HIDE DEF U
    <3> QED BY <2>5, <3>1 DEF StrictSubsetOrdering
  <2> HIDE DEF U
  <2>8. \A x \in R \ P : ~(Below(x) \subseteq Below(m) /\ Below(x) # Below(m))
    BY <2>3, <2>6, <2>7
  <2> QED BY <2>6, <2>8
<1>7. Below(m) \subseteq P
  <2> SUFFICES ASSUME NEW x \in Below(m), x \notin P PROVE FALSE
    OBVIOUS
  <2>1. x \in R /\ m \in R /\ Rank[x] < Rank[m]
    BY <1>6
  <2>2. Below(x) \subseteq Below(m)
    BY <1>5, <2>1
  <2>3. x \notin Below(x)
    BY <1>5, <2>1
  <2> QED BY <1>6, <2>1, <2>2, <2>3
<1>8. Cardinality(Below(m)) <= Cardinality(P)
  BY <1>4, <1>7, FS_Subset
<1>9. ~(n + Cardinality(Below(m)) < bound)
  BY <1>2, <1>6
<1>10. Cardinality(Below(m)) \in Nat
  BY <1>4
<1> HIDE DEF P, R, Below
<1> QED BY <1>1, <1>4, <1>8, <1>9, <1>10

\* While somebody is parked as many work as there are seats, so there is no slot
\* to pick an ask for.
LEMMA PumpPick ==
    ASSUME TypeOK,
           NEW q \in [Actors -> Seq(Asks)], NEW c \in [Actors -> Asks \cup {NoAsk}],
           NEW st \in [Asks -> Stages], NEW n, NEW bound \in Nat,
           QueuesOK(q, st), CurrentOK(c), n = Cardinality(Busy(c)),
           PumpAll(q, c, n, bound, st),
           IInv', run' = "running", gate'.limit = bound,
           NEW a \in Actors, current'[a] # c[a]
    PROVE  gate'.parked = <<>>
<1>1. a \in Picked(q, c, n, bound)
  BY PumpEffect
<1>2. IsFiniteSet(Busy(c)) /\ Cardinality(Busy(c)) \in Nat
  BY BusyFinite
<1>3. n < bound
  <2> DEFINE B == {b \in {x \in Actors : c[x] = NoAsk /\ q[x] # <<>>} : Rank[b] < Rank[a]}
  <2>1. n + Cardinality(B) < bound
    BY <1>1 DEF Picked
  <2>2. B \subseteq Actors
    OBVIOUS
  <2> HIDE DEF B
  <2>3. Cardinality(B) \in Nat
    BY <2>2, ActorsAssumption, FS_Subset, FS_CardinalityType
  <2> QED BY <1>2, <2>1, <2>3
<1>4. Started(current', stage') = Started(c, st)
  BY PumpStep
<1>5. /\ GateSound(gate') /\ Engaged(gate') = Started(current', stage')
  BY DEF IInv, GateSound, TablesOK, Engaged, Started, ParkedActors, Elements, Distinct
<1>6. gate'.working \subseteq Busy(c)
  BY <1>4, <1>5 DEF Engaged, Started, Busy
<1>7. Cardinality(gate'.working) \in Nat /\ Cardinality(gate'.working) <= n
  BY <1>2, <1>6, FS_Subset, FS_CardinalityType
<1> QED BY <1>2, <1>3, <1>5, <1>7 DEF GateSound

\* The parts of Ordered after a step.
LEMMA FromOrder ==
    ASSUME OrderOK(queue', current', stage', seq'), InOrder(stage', seq'),
           \A k \in Asks : stage'[k] # "unasked" => seq'[k] < nextSeq'[ActorOf[k]],
           gate'.limit = maxConcurrency',
           \A a \in Actors : current'[a] = NoAsk /\ queue'[a] # <<>>
                                => activeAsks' >= maxConcurrency'
    PROVE  Ordered'
BY DEF Ordered, OrderOK, InOrder, Live, Elements, NumbersOK, NoIdleSlot

\* A step of the scheduler that ends in pumpAll, from what its caller leaves.
LEMMA PumpOrdered ==
    ASSUME TypeOK, TypeOK', IInv', run' = "running",
           NEW q \in [Actors -> Seq(Asks)], NEW c \in [Actors -> Asks \cup {NoAsk}],
           NEW st \in [Asks -> Stages], NEW n,
           QueuesOK(q, st), CurrentOK(c), n = Cardinality(Busy(c)),
           OrderOK(q, c, st, seq'), InOrder(st, seq'),
           \A k \in Asks : st[k] # "unasked" => seq'[k] < nextSeq'[ActorOf[k]],
           gate'.limit = maxConcurrency',
           PumpAll(q, c, n, maxConcurrency', st)
    PROVE  /\ Ordered'
           /\ \A a \in Actors : current'[a] # c[a] => gate'.parked = <<>>
<1>1. seq' \in [Asks -> Nat] /\ maxConcurrency' \in Nat
  BY SchedulerAssumption DEF TypeOK
<1>2. OrderOK(queue', current', stage', seq') /\ InOrder(stage', seq')
  BY <1>1, PumpInOrder
<1>3. n \in Nat
  BY BusyFinite
<1>4. \A a \in Actors : current'[a] = NoAsk /\ queue'[a] # <<>> => activeAsks' >= maxConcurrency'
  BY <1>1, <1>3, PumpLeavesNoneIdle
<1>5. Moved(q, c, st)
  BY PumpEffect
<1>6. \A k \in Asks : stage'[k] # "unasked" => seq'[k] < nextSeq'[ActorOf[k]]
  BY <1>5 DEF Moved
<1>7. \A a \in Actors : current'[a] # c[a] => gate'.parked = <<>>
  BY <1>1, PumpPick
<1> QED BY <1>2, <1>4, <1>6, <1>7, FromOrder

-----------------------------------------------------------------------------
\* Nobody in line is overtaken by the ask the step picks.
NoOvertaking ==
    (\E a \in Actors : current'[a] # current[a] /\ current'[a] # NoAsk) => gate'.parked = <<>>

\* A new ask comes last: it has the highest number its actor has given.
LEMMA AskOrdered ==
    ASSUME IInv, IInv', Ordered, NEW k \in Asks, Ask(k)
    PROVE  Ordered' /\ NoOvertaking
<1> DEFINE a == ActorOf[k]
           q == [queue EXCEPT ![a] = Append(@, k)]
           st == [stage EXCEPT ![k] = "queued"]
<1>1. /\ TypeOK /\ TypeOK' /\ TablesOK /\ run' = "running" /\ a \in Actors
      /\ \A j \in Asks : ActorOf[j] \in Actors
  BY SchedulerAssumption DEF IInv, Ask
<1>2. /\ q \in [Actors -> Seq(Asks)] /\ st \in [Asks -> Stages]
      /\ current \in [Actors -> Asks \cup {NoAsk}]
  BY <1>1 DEF TypeOK, Stages
<1>3. QueuesOK(q, st) /\ CurrentOK(current) /\ activeAsks = Cardinality(Busy(current))
  BY <1>1, AskedQueues DEF TablesOK
<1>4. /\ seq' = [seq EXCEPT ![k] = nextSeq[a]] /\ seq' \in [Asks -> Nat]
      /\ nextSeq' = [nextSeq EXCEPT ![a] = nextSeq[a] + 1]
      /\ nextSeq \in [Actors -> Nat] /\ seq \in [Asks -> Nat]
      /\ stage \in [Asks -> Stages] /\ stage[k] = "unasked"
      /\ maxConcurrency' = maxConcurrency /\ gate' = gate
      /\ PumpAll(q, current, activeAsks, maxConcurrency, st)
  BY <1>1 DEF Ask, TypeOK
<1>5. /\ st[k] = "queued" /\ seq'[k] = nextSeq[a]
      /\ \A j \in Asks : j # k => st[j] = stage[j] /\ seq'[j] = seq[j]
  BY <1>4
<1>6. \A j \in Asks : stage[j] # "unasked" => seq[j] < nextSeq[ActorOf[j]]
  BY DEF Ordered, NumbersOK
<1>7. \A j \in Asks : st[j] # "unasked" => seq'[j] < nextSeq'[ActorOf[j]]
  <2> SUFFICES ASSUME NEW j \in Asks, st[j] # "unasked" PROVE seq'[j] < nextSeq'[ActorOf[j]]
    OBVIOUS
  <2>1. nextSeq[ActorOf[j]] <= nextSeq'[ActorOf[j]] /\ nextSeq'[a] = nextSeq[a] + 1
    BY <1>1, <1>4
  <2>2. CASE j = k
    BY <1>1, <1>4, <1>5, <2>1, <2>2
  <2>3. CASE j # k
    BY <1>1, <1>4, <1>5, <1>6, <2>1, <2>3
  <2> QED BY <2>2, <2>3
<1>8. InOrder(st, seq')
  <2> SUFFICES ASSUME NEW i \in Asks, NEW j \in Asks, ActorOf[i] = ActorOf[j], Live(st[i]),
                      st[j] \notin {"unasked", "queued"}
               PROVE  seq'[j] <= seq'[i]
    BY DEF InOrder
  <2>1. j # k /\ st[j] = stage[j] /\ seq'[j] = seq[j]
    BY <1>5
  <2>2. CASE i = k
    BY <1>4, <1>5, <1>6, <2>1, <2>2
  <2>3. CASE i # k
    BY <1>5, <2>1, <2>3 DEF Ordered, InOrder
  <2> QED BY <2>2, <2>3
<1>9. OrderOK(q, current, st, seq')
  <2>1. ASSUME NEW b \in Actors, NEW i \in DOMAIN q[b], NEW l \in DOMAIN q[b], i < l
        PROVE  seq'[q[b][i]] < seq'[q[b][l]]
    <3> DEFINE s == queue[b]
    <3>1. /\ s \in Seq(Asks)
          /\ \A x \in DOMAIN s : ActorOf[s[x]] = b /\ stage[s[x]] = "queued"
      <4>1. s \in Seq(Asks) /\ \A j \in Elements(s) : ActorOf[j] = b /\ stage[j] = "queued"
        BY <1>1 DEF TypeOK, TablesOK, QueuesOK
      <4> HIDE DEF s
      <4>2. \A x \in DOMAIN s : s[x] \in Elements(s)
        BY DEF Elements
      <4> QED BY <4>1, <4>2
    <3>2. \A x, y \in DOMAIN s : x < y => seq[s[x]] < seq[s[y]]
      BY DEF Ordered, OrderOK
    <3>3. q[b] = IF b = a THEN Append(s, k) ELSE s
      BY <1>1 DEF TypeOK
    <3> HIDE DEF s
    <3>4. \A x \in DOMAIN s : s[x] \in Asks /\ s[x] # k /\ seq'[s[x]] = seq[s[x]]
      BY <1>4, <1>5, <3>1
    <3>5. CASE b # a
      BY <2>1, <3>2, <3>3, <3>4, <3>5
    <3>6. CASE b = a
      <4>1. /\ Len(s) \in Nat /\ DOMAIN s = 1 .. Len(s) /\ DOMAIN q[b] = 1 .. Len(s) + 1
            /\ q[b][Len(s) + 1] = k
            /\ \A x \in 1 .. Len(s) : q[b][x] = s[x]
        BY <3>1, <3>3, <3>6
      <4>2. i \in DOMAIN s /\ q[b][i] = s[i]
        BY <2>1, <4>1
      <4>3. CASE l \in DOMAIN s
        BY <2>1, <3>2, <3>4, <4>1, <4>2, <4>3
      <4>4. CASE l \notin DOMAIN s
        <5>1. q[b][l] = k
          BY <4>1, <4>4
        <5>2. seq[s[i]] < nextSeq[a]
          BY <1>6, <3>1, <3>4, <3>6, <4>2
        <5> QED BY <1>5, <3>4, <4>2, <5>1, <5>2
      <4> QED BY <4>3, <4>4
    <3> QED BY <3>5, <3>6
  <2>2. ASSUME NEW j \in Asks, st[j] = "queued" PROVE j \in Elements(q[ActorOf[j]])
    <3> DEFINE s == queue[ActorOf[j]]
    <3>1. s \in Seq(Asks) /\ q[ActorOf[j]] = IF ActorOf[j] = a THEN Append(s, k) ELSE s
      BY <1>1 DEF TypeOK
    <3>2. j # k => j \in Elements(s)
      BY <1>5, <2>2 DEF Ordered, OrderOK
    <3> HIDE DEF s
    <3>3. Elements(Append(s, k)) = Elements(s) \cup {k}
      BY <3>1, AppendElements
    <3> QED BY <3>1, <3>2, <3>3
  <2>3. ASSUME NEW j \in Asks, st[j] \in {"dispatching", "started"}
        PROVE  current[ActorOf[j]] = j
    BY <1>5, <2>3 DEF Ordered, OrderOK
  <2> QED BY <2>1, <2>2, <2>3 DEF OrderOK
<1>10. gate'.limit = maxConcurrency'
  BY <1>4 DEF Ordered
<1> HIDE DEF q, st
<1>11. PumpAll(q, current, activeAsks, maxConcurrency', st)
  BY <1>4
<1>12. /\ Ordered'
       /\ \A b \in Actors : current'[b] # current[b] => gate'.parked = <<>>
  BY <1>1, <1>2, <1>3, <1>7, <1>8, <1>9, <1>10, <1>11, PumpOrdered
<1> QED BY <1>12 DEF NoOvertaking

\* A settled ask makes room for the next of its actor, and for others.
LEMMA SettleOrdered ==
    ASSUME IInv, IInv', Ordered, NEW a \in Actors, NEW k \in Asks,
           NEW outcome \in {"ok", "failed"}, Settles(a, k, outcome)
    PROVE  Ordered' /\ NoOvertaking
<1> DEFINE c == [current EXCEPT ![a] = NoAsk]
           st == [stage EXCEPT ![k] = "settled"]
<1>1. /\ TypeOK /\ TypeOK' /\ TablesOK /\ current[a] = k /\ k # NoAsk
      /\ stage[k] \in {"dispatching", "started"} /\ run' = "running"
      /\ \A b \in Actors : k \notin Elements(queue[b])
      /\ \A b \in Actors : current[b] = k => b = a
  BY HeldAlone DEF IInv, Settles, Settle
<1>2. /\ queue \in [Actors -> Seq(Asks)] /\ st \in [Asks -> Stages]
      /\ c \in [Actors -> Asks \cup {NoAsk}]
  BY <1>1 DEF TypeOK, Stages
<1>3. QueuesOK(queue, st)
  BY <1>1, QueuesKept DEF TablesOK, TypeOK
<1>4. CurrentOK(c)
  BY <1>1 DEF TablesOK, CurrentOK, TypeOK
<1>5. activeAsks - 1 = Cardinality(Busy(c))
  BY <1>1, SlotReturned DEF TablesOK
<1>6. /\ seq' = seq /\ nextSeq' = nextSeq /\ maxConcurrency' = maxConcurrency
      /\ gate' = AskSettled(gate, a)
      /\ PumpAll(queue, c, activeAsks - 1, maxConcurrency, st)
  BY DEF Settles, Settle, MoveGate
<1>7. gate'.limit = maxConcurrency'
  BY <1>6, GateSide, AskSettledSound DEF Ordered
<1>8. st[k] = "settled" /\ \A j \in Asks : j # k => st[j] = stage[j]
  BY <1>1 DEF TypeOK
<1>9. c[a] = NoAsk /\ \A b \in Actors : b # a => c[b] = current[b]
  BY <1>1 DEF TypeOK
<1>10. \A j \in Asks : st[j] # "unasked" => seq'[j] < nextSeq'[ActorOf[j]]
  BY <1>1, <1>6, <1>8 DEF Ordered, NumbersOK
<1> HIDE DEF st, c
<1>11. InOrder(st, seq')
  BY <1>1, <1>6, <1>8 DEF Ordered, InOrder, Live
<1>12. OrderOK(queue, c, st, seq')
  <2>1. \A j \in Asks : st[j] \in {"dispatching", "started"} => c[ActorOf[j]] = j
    <3> SUFFICES ASSUME NEW j \in Asks, st[j] \in {"dispatching", "started"}
                 PROVE  c[ActorOf[j]] = j
      OBVIOUS
    <3>1. j # k /\ current[ActorOf[j]] = j
      BY <1>8 DEF Ordered, OrderOK
    <3>2. ActorOf[j] \in Actors /\ ActorOf[j] # a
      BY <1>1, <3>1, SchedulerAssumption
    <3> QED BY <1>9, <3>1, <3>2
  <2>2. \A j \in Asks : st[j] = "queued" => j \in Elements(queue[ActorOf[j]])
    BY <1>8 DEF Ordered, OrderOK
  <2> QED BY <1>6, <2>1, <2>2 DEF Ordered, OrderOK
<1>13. PumpAll(queue, c, activeAsks - 1, maxConcurrency', st)
  BY <1>6
<1>14. /\ Ordered'
       /\ \A b \in Actors : current'[b] # c[b] => gate'.parked = <<>>
  BY <1>1, <1>2, <1>3, <1>4, <1>5, <1>7, <1>10, <1>11, <1>12, <1>13, PumpOrdered
<1> QED BY <1>9, <1>14 DEF NoOvertaking

\* A bound that is raised fills the new slots; a lowered one picks nothing.
LEMMA RetuneOrdered ==
    ASSUME IInv, IInv', Ordered, NEW limit \in Limits, Retune(limit)
    PROVE  Ordered' /\ NoOvertaking
<1>1. /\ TypeOK /\ TypeOK' /\ TablesOK /\ run' = "running"
      /\ limit \in Nat \ {0} /\ maxConcurrency \in Nat \ {0}
      /\ maxConcurrency' = limit /\ seq' = seq /\ nextSeq' = nextSeq
  BY SchedulerAssumption DEF IInv, Retune, TypeOK
<1>2. gate'.limit = maxConcurrency'
  BY <1>1, GateSide, SetLimitSound DEF Retune
<1>3. /\ OrderOK(queue, current, stage, seq') /\ InOrder(stage, seq')
      /\ \A j \in Asks : stage[j] # "unasked" => seq'[j] < nextSeq'[ActorOf[j]]
  BY <1>1 DEF Ordered, NumbersOK
<1>4. CASE limit > maxConcurrency
  <2>1. PumpAll(queue, current, activeAsks, maxConcurrency', stage)
    BY <1>1, <1>4 DEF Retune
  <2>2. /\ queue \in [Actors -> Seq(Asks)] /\ stage \in [Asks -> Stages]
        /\ current \in [Actors -> Asks \cup {NoAsk}]
        /\ QueuesOK(queue, stage) /\ CurrentOK(current)
        /\ activeAsks = Cardinality(Busy(current))
    BY <1>1 DEF TypeOK, TablesOK
  <2>3. /\ Ordered'
        /\ \A a \in Actors : current'[a] # current[a] => gate'.parked = <<>>
    BY <1>1, <1>2, <1>3, <2>1, <2>2, PumpOrdered
  <2> QED BY <2>3 DEF NoOvertaking
<1>5. CASE ~(limit > maxConcurrency)
  <2>1. UNCHANGED <<queue, current, activeAsks, stage>>
    BY <1>5 DEF Retune
  <2>2. \A a \in Actors : current'[a] = NoAsk /\ queue'[a] # <<>>
                            => activeAsks' >= maxConcurrency'
    BY <1>1, <1>5, <2>1 DEF Ordered, NoIdleSlot, TypeOK, Retune
  <2> QED BY <1>2, <1>3, <2>1, <2>2, FromOrder DEF NoOvertaking
<1> QED BY <1>4, <1>5

\* A dispatched ask that is started stays where it is.
LEMMA StartOrdered ==
    ASSUME IInv, Ordered, NEW a \in Actors, StartAsk(a)
    PROVE  Ordered' /\ NoOvertaking
<1> DEFINE k == current[a]
<1>1. /\ TypeOK /\ stage[k] = "dispatching" /\ k \in Asks
      /\ stage' = [stage EXCEPT ![k] = "started"]
      /\ UNCHANGED <<maxConcurrency, seq, nextSeq, queue, current, activeAsks>>
      /\ gate' = AskStarted(gate, a)
  BY DEF IInv, TypeOK, StartAsk
<1>2. gate'.limit = maxConcurrency'
  BY <1>1, GateSide, AskStartedSound DEF Ordered
<1>3. stage'[k] = "started" /\ \A j \in Asks : j # k => stage'[j] = stage[j]
  BY <1>1 DEF TypeOK
<1> HIDE DEF k
<1>4. InOrder(stage', seq')
  BY <1>1, <1>3 DEF Ordered, InOrder, Live
<1>5. OrderOK(queue', current', stage', seq')
  BY <1>1, <1>3 DEF Ordered, OrderOK
<1>6. \A j \in Asks : stage'[j] # "unasked" => seq'[j] < nextSeq'[ActorOf[j]]
  BY <1>1, <1>3 DEF Ordered, NumbersOK
<1>7. \A b \in Actors : current'[b] = NoAsk /\ queue'[b] # <<>>
                            => activeAsks' >= maxConcurrency'
  BY <1>1 DEF Ordered, NoIdleSlot, StartAsk
<1> QED BY <1>1, <1>2, <1>4, <1>5, <1>6, <1>7, FromOrder DEF NoOvertaking

\* The steps of a living run keep the order, and overtake nobody.
LEMMA LivingOrdered ==
    ASSUME IInv, IInv', run = "running", Ordered, [Next]_vars
    PROVE  /\ InOrder(stage', seq')
           /\ run' = "running" => Ordered'
           /\ NoOvertaking
<1>1. ASSUME Ordered', NoOvertaking
      PROVE  InOrder(stage', seq') /\ (run' = "running" => Ordered') /\ NoOvertaking
  BY <1>1 DEF Ordered, InOrder, Live
<1>2. ASSUME NEW k \in Asks, Ask(k) PROVE Ordered' /\ NoOvertaking
  BY <1>2, AskOrdered
<1>3. ASSUME NEW a \in Actors, NEW k \in Asks, NEW outcome \in {"ok", "failed"},
             Settles(a, k, outcome)
      PROVE  Ordered' /\ NoOvertaking
  BY <1>3, SettleOrdered
<1>4. ASSUME NEW a \in Actors, StartAsk(a) PROVE Ordered' /\ NoOvertaking
  BY <1>4, StartOrdered
<1>5. ASSUME NEW limit \in Limits, Retune(limit) PROVE Ordered' /\ NoOvertaking
  BY <1>5, RetuneOrdered
<1>6. ASSUME NEW status \in {"completed", "stopped", "errored"}, Finish(status)
      PROVE  InOrder(stage', seq') /\ run' # "running" /\ NoOvertaking
  <2>1. stage' = [k \in Asks |-> IF k \in LiveAsks THEN "settled" ELSE stage[k]]
    BY <1>6 DEF Finish
  <2>2. \A k \in Asks : ~Live(stage'[k])
    BY <2>1 DEF LiveAsks, Live
  <2> QED BY <1>6, <2>2 DEF InOrder, Finish, NoOvertaking
<1>7. CASE Untouched
  <2>1. Ordered'
    BY <1>7 DEF Untouched, Ordered, OrderOK, InOrder, Live, Elements, NumbersOK, NoIdleSlot
  <2> QED BY <1>1, <1>7, <2>1 DEF Untouched, NoOvertaking
<1> QED BY <1>1, <1>2, <1>3, <1>4, <1>5, <1>6, <1>7, StepShapes

\* A run begins in order, with everything asked for still to come.
LEMMA StartsInOrder == Init => OInv
<1> SUFFICES ASSUME Init PROVE OInv
  OBVIOUS
<1>1. IInv
  BY InitSound
<1>2. InOrder(stage, seq) /\ NumbersOK /\ OrderOK(queue, current, stage, seq)
  BY DEF Init, InOrder, Live, NumbersOK, OrderOK
<1>3. gate.limit = maxConcurrency /\ NoIdleSlot
  BY DEF Init, NewGate, NoIdleSlot
<1> QED BY <1>1, <1>2, <1>3 DEF OInv, Ordered

\* Every step keeps the order.
LEMMA OrderKept ==
    ASSUME OInv, [Next]_vars
    PROVE  OInv' /\ NoOvertaking
<1>1. IInv /\ IInv'
  BY NextSound DEF OInv
<1>2. CASE run = "running"
  <2>1. /\ InOrder(stage', seq')
        /\ run' = "running" => Ordered'
        /\ NoOvertaking
    BY <1>1, <1>2, LivingOrdered DEF OInv
  <2> QED BY <1>1, <2>1 DEF OInv, InOrder, Live
<1>3. CASE run # "running"
  <2>1. UNCHANGED <<run, stage, seq, current>>
    BY <1>3, QuietStep
  <2> QED BY <1>1, <1>3, <2>1 DEF OInv, InOrder, Live, NoOvertaking
<1> QED BY <1>2, <1>3

\* The order holds throughout every run.
LEMMA AlwaysOrdered == Spec => []OInv
<1>1. OInv /\ [Next]_vars => OInv'
  BY OrderKept
<1> QED BY <1>1, StartsInOrder, PTL DEF Spec

\* An actor's asks are started in the order they were admitted, one at a time.
THEOREM StartedInOrder == Spec => []InAdmissionOrder
<1>1. OInv => InAdmissionOrder
  BY DEF OInv, InOrder, Live, InAdmissionOrder, Unsettled
<1> QED BY <1>1, AlwaysOrdered, PTL

\* Whenever an actor is free and has an ask waiting, the run is at its bound.
THEOREM NeverIdle == Spec => []NoIdleSlot
<1>1. OInv => NoIdleSlot
  BY DEF OInv, Ordered, NoIdleSlot
<1> QED BY <1>1, AlwaysOrdered, PTL

\* The scheduler picks no new ask while a subagent stays in line for a seat.
THEOREM ParkedNotOvertaken == Spec => NoPickPastParked
<1>1. OInv /\ [Next]_vars
        => [(\E a \in Actors : current'[a] # current[a] /\ current'[a] # NoAsk)
             => gate'.parked = <<>>]_vars
  BY OrderKept DEF NoOvertaking
<1> QED BY <1>1, AlwaysOrdered, PTL DEF Spec, NoPickPastParked

\* After run-settled nothing of the run changes any more.
THEOREM QuietOnceSettled == Spec => QuietAfterSettled
<1>1. [Next]_vars
        => [run # "running" => UNCHANGED <<run, trace, row, promise, stage, gate>>]_vars
  BY QuietStep
<1> QED BY <1>1, PTL DEF Spec, QuietAfterSettled

-----------------------------------------------------------------------------
\* What the script waits for is pending, and the journal tells the rest.
Told ==
    /\ JournalTellsOutcome
    /\ \A k \in Asks : Live(stage[k]) => promise[k] = "pending"

\* Every step leaves journal and promises in agreement.
LEMMA ToldKept ==
    ASSUME IInv, Told, [Next]_vars
    PROVE  Told'
<1>1. TypeOK
  BY DEF IInv
<1>2. ASSUME NEW k \in Asks, Ask(k) PROVE Told'
  <2> DEFINE a == ActorOf[k]
             q == [queue EXCEPT ![a] = Append(@, k)]
             st == [stage EXCEPT ![k] = "queued"]
  <2>1. QueuesOK(q, st)
    BY <1>2, AskedQueues
  <2>2. /\ q \in [Actors -> Seq(Asks)] /\ st \in [Asks -> Stages]
        /\ current \in [Actors -> Asks \cup {NoAsk}]
        /\ PumpAll(q, current, activeAsks, maxConcurrency, st)
    <3>1. queue \in [Actors -> Seq(Asks)] /\ a \in Actors
      BY <1>1, SchedulerAssumption DEF TypeOK
    <3>2. PumpAll(q, current, activeAsks, maxConcurrency, st)
      BY <1>2 DEF Ask
    <3> QED BY <1>1, <3>1, <3>2 DEF TypeOK, Stages
  <2>3. \A j \in Asks : j # k => st[j] = stage[j]
    BY <1>1 DEF TypeOK
  <2> HIDE DEF q, st
  <2>4. Moved(q, current, st)
    BY <2>1, <2>2, PumpEffect
  <2>5. \A j \in Asks : j # k /\ Live(stage'[j]) => Live(stage[j])
    BY <2>3, <2>4 DEF Moved, Live
  <2>6. row' = [row EXCEPT ![k] = "running"] /\ promise' = [promise EXCEPT ![k] = "pending"]
    BY <1>2 DEF Ask
  <2> QED BY <1>1, <2>5, <2>6 DEF Told, JournalTellsOutcome, Live, TypeOK
<1>3. ASSUME NEW a \in Actors, NEW k \in Asks, NEW outcome \in {"ok", "failed"},
             Settles(a, k, outcome), run = "running"
      PROVE  Told'
  <2> DEFINE c == [current EXCEPT ![a] = NoAsk]
             st == [stage EXCEPT ![k] = "settled"]
  <2>1. QueuesOK(queue, st)
    BY <1>1, <1>3, HeldAlone, QueuesKept DEF IInv, TablesOK, TypeOK, Settles
  <2>2. /\ queue \in [Actors -> Seq(Asks)] /\ st \in [Asks -> Stages]
        /\ c \in [Actors -> Asks \cup {NoAsk}]
        /\ PumpAll(queue, c, activeAsks - 1, maxConcurrency, st)
    BY <1>1, <1>3 DEF TypeOK, Stages, Settles, Settle
  <2>3. st[k] = "settled" /\ \A j \in Asks : j # k => st[j] = stage[j]
    BY <1>1 DEF TypeOK
  <2> HIDE DEF c, st
  <2>4. Moved(queue, c, st)
    BY <2>1, <2>2, PumpEffect
  <2>5. \A j \in Asks : Live(stage'[j]) => j # k /\ Live(stage[j])
    BY <2>3, <2>4 DEF Moved, Live
  <2>6. /\ row' = [row EXCEPT ![k] = IF outcome = "ok" THEN "completed" ELSE "failed"]
        /\ promise' = [promise EXCEPT ![k] = outcome]
    BY <1>3 DEF Settles, Settle
  <2> QED BY <1>1, <1>3, <2>5, <2>6 DEF Told, JournalTellsOutcome, Live, TypeOK
<1>4. ASSUME NEW a \in Actors, StartAsk(a) PROVE Told'
  <2>1. /\ stage' = [stage EXCEPT ![current[a]] = "started"]
        /\ stage[current[a]] = "dispatching" /\ row' = row /\ promise' = promise
    BY <1>4 DEF StartAsk
  <2>2. \A j \in Asks : Live(stage'[j]) => Live(stage[j])
    BY <1>1, <2>1 DEF Live, TypeOK
  <2> QED BY <2>1, <2>2 DEF Told, JournalTellsOutcome, Live
<1>5. ASSUME NEW limit \in Limits, Retune(limit), run = "running" PROVE Told'
  <2>1. \A j \in Asks : Live(stage'[j]) => Live(stage[j])
    <3>1. CASE limit > maxConcurrency
      <4>1. PumpAll(queue, current, activeAsks, limit, stage)
        BY <1>5, <3>1 DEF Retune
      <4>2. /\ queue \in [Actors -> Seq(Asks)] /\ stage \in [Asks -> Stages]
            /\ current \in [Actors -> Asks \cup {NoAsk}] /\ QueuesOK(queue, stage)
        BY <1>5 DEF IInv, TypeOK, TablesOK
      <4>3. Moved(queue, current, stage)
        BY <4>1, <4>2, PumpEffect
      <4> QED BY <4>3 DEF Moved, Live
    <3>2. CASE ~(limit > maxConcurrency)
      BY <1>5, <3>2 DEF Retune
    <3> QED BY <3>1, <3>2
  <2>2. row' = row /\ promise' = promise
    BY <1>5 DEF Retune
  <2> QED BY <2>1, <2>2 DEF Told, JournalTellsOutcome, Live
<1>6. ASSUME NEW status \in {"completed", "stopped", "errored"}, Finish(status) PROVE Told'
  <2>1. /\ stage' = [k \in Asks |-> IF k \in LiveAsks THEN "settled" ELSE stage[k]]
        /\ promise' = [k \in Asks |-> IF k \in LiveAsks THEN "cancelled" ELSE promise[k]]
        /\ row' = row
    BY <1>6 DEF Finish
  <2>2. \A k \in Asks : k \in LiveAsks => promise[k] = "pending"
    BY DEF Told, LiveAsks, Live
  <2>3. \A k \in Asks : ~Live(stage'[k])
    BY <2>1 DEF LiveAsks, Live
  <2> QED BY <2>1, <2>2, <2>3 DEF Told, JournalTellsOutcome, Live
<1>7. ASSUME UNCHANGED <<stage, row, promise>> PROVE Told'
  BY <1>7 DEF Told, JournalTellsOutcome, Live
<1>8. CASE run = "running"
  BY <1>2, <1>3, <1>4, <1>5, <1>6, <1>7, <1>8, StepShapes DEF Untouched
<1>9. CASE run # "running"
  BY <1>7, <1>9, QuietStep
<1> QED BY <1>8, <1>9

\* The script sees what the journal says, so a replay of the rows hands it the
\* same outcomes.
THEOREM JournalTold == Spec => []JournalTellsOutcome
<1>1. Init => Told
  BY DEF Init, Told, JournalTellsOutcome, Live
<1>2. IInv /\ Told /\ [Next]_vars => Told'
  BY ToldKept
<1>3. Told => JournalTellsOutcome
  BY DEF Told
<1> QED BY <1>1, <1>2, <1>3, Invariance, PTL DEF Spec
===============================================================================
