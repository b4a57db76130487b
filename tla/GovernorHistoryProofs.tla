-------------------------- MODULE GovernorHistoryProofs --------------------------
(***************************************************************************)
(* What the history variables of the governor show, for every number of    *)
(* agents and runs: one verdict per batch of requests, and the bound on    *)
(* how often a run that waits is passed over.                              *)
(***************************************************************************)
EXTENDS GovernorVerdicts, GovernorRotation, ConcurrencyGovernorProofs

-----------------------------------------------------------------------------
(* One verdict per batch. *)

\* A ticket that has seen a cut is of an earlier epoch.
CutInv ==
    /\ sawCut \in [Agents -> BOOLEAN]
    /\ \A a \in Agents : sawCut[a] => a \notin ctl.thisEpoch

VerdictInv == IInv /\ CutInv

\* A cap is cut only for a ticket of the current epoch, and the cut ends it.
LEMMA VerdictEndsEpoch ==
    ASSUME NEW c, Sound(c, Agents), NEW a \in Agents, NEW ms \in Nat,
           Throttled(c, a, ms).cap < c.cap
    PROVE  a \in c.thisEpoch /\ Throttled(c, a, ms).thisEpoch = {}
<1> DEFINE e    == Ended(c, a)
           cool == IF ms > 0 THEN Larger(e.cooldown, ms) ELSE e.cooldown
           d    == [e EXCEPT !.successStreak = 0, !.cooldown = cool]
           f    == Throttled(c, a, ms)
<1>1. Sound(IdleReset(c), Agents) /\ IdleReset(c).thisEpoch \subseteq c.thisEpoch
  BY IdleResetSound
<1>2. e \in Controllers(Agents) /\ e.cap = IdleReset(c).cap
  <2>1. e \in Controllers(Agents)
    BY EndedSound DEF Sound
  <2>2. e.cap = IdleReset(c).cap
    BY <1>1 DEF Ended, Sound, Controllers
  <2> QED BY <2>1, <2>2
<1>3. f = IF ~IsCurrent(c, a) THEN d
          ELSE IF d.lastGood # None /\ d.cap > d.lastGood
          THEN [d EXCEPT !.lastBad = d.cap, !.cap = d.lastGood, !.thisEpoch = {}]
          ELSE [d EXCEPT !.cap = Larger(Floor, (@ * 3) \div 4), !.lastBad = d.cap,
                         !.lastGood = None, !.thisEpoch = {}]
  BY <1>2 DEF Throttled, Controllers
<1>4. IdleReset(c).cap \in Nat /\ c.cap \in Nat /\ IdleReset(c).cap >= c.cap
  <2>1. c.cap \in Nat /\ c.cap <= Ceiling
    BY FieldTypes, ConstantRanges DEF Sound, ControllerOK, Floor
  <2>2. IdleReset(c).cap = Ceiling \/ IdleReset(c) = c
    <3>1. c \in Controllers(Agents)
      BY DEF Sound
    <3> QED BY <3>1 DEF IdleReset, Controllers
  <2> QED BY <2>1, <2>2, ConstantRanges
<1> HIDE DEF e, f
<1>5. d.cap = e.cap /\ d.thisEpoch = e.thisEpoch /\ DOMAIN d = DOMAIN e
  BY <1>2 DEF Controllers
<1>6. IsCurrent(c, a)
  <2>1. SUFFICES ASSUME f = d PROVE FALSE
    BY <1>3
  <2> QED BY <2>1, <1>2, <1>4, <1>5 DEF f
<1>7. a \in c.thisEpoch
  BY <1>1, <1>6 DEF IsCurrent
<1>8. f.thisEpoch = {}
  <2>1. "thisEpoch" \in DOMAIN d
    BY <1>2, <1>5 DEF Controllers
  <2> HIDE DEF d
  <2> QED BY <1>3, <1>6, <2>1
<1> QED BY <1>7, <1>8 DEF f

\* A step puts into the current epoch only the tickets it grants.
LEMMA EpochGrows ==
    ASSUME IInv, Next
    PROVE  ctl'.thisEpoch \subseteq ctl.thisEpoch \cup Granted
<1>1. ASSUME NEW a \in Agents, NEW c, Sound(c, Agents), req[a] # "inflight",
             c.thisEpoch \subseteq ctl.thisEpoch, Grant(a, c)
      PROVE  ctl'.thisEpoch \subseteq ctl.thisEpoch \cup Granted
  <2>1. ctl' = Admitted(Observe(c), a) /\ req'[a] = "inflight"
    BY <1>1 DEF Grant, IInv, LoadInv
  <2>2. Sound(Observe(c), Agents) /\ Observe(c).thisEpoch \subseteq c.thisEpoch
    BY <1>1, IdleResetSound DEF Observe
  <2>3. ctl'.thisEpoch = Observe(c).thisEpoch \cup {a}
    BY <2>1, <2>2, AdmittedSound
  <2> QED BY <1>1, <2>1, <2>2, <2>3 DEF Granted
<1>2. ASSUME NEW a \in Agents, req[a] # "inflight", TryAdmit(a)
      PROVE  ctl'.thisEpoch \subseteq ctl.thisEpoch \cup Granted
  BY <1>1, <1>2, Basics DEF TryAdmit
<1>3. ASSUME NEW a \in Agents, NEW c, Sound(c, Agents),
             c.thisEpoch \subseteq ctl.thisEpoch \ {a}, Settle(a, c)
      PROVE  ctl'.thisEpoch \subseteq ctl.thisEpoch \cup Granted
  BY <1>3, IdleResetSound DEF Settle, StartDrain, Observe
<1>4. Sound(ctl, Agents)
  BY DEF IInv, LoadInv
<1>5. ASSUME NEW a \in Agents, TryAcquire(a) \/ AbortBeforeQueue(a)
      PROVE  ctl'.thisEpoch \subseteq ctl.thisEpoch \cup Granted
  BY <1>2, <1>5, Basics DEF TryAcquire, AbortBeforeQueue
<1>6. ASSUME NEW a \in Agents, Acquire(a)
      PROVE  ctl'.thisEpoch \subseteq ctl.thisEpoch \cup Granted
  <2>1. Sound(Observe(ctl), Agents) /\ Observe(ctl).thisEpoch \subseteq ctl.thisEpoch
    BY Basics
  <2>2. Grant(a, Observe(ctl)) \/ ctl' = Observe(Observe(ctl))
    BY <1>6 DEF Acquire, StartDrain
  <2>3. Observe(Observe(ctl)).thisEpoch \subseteq Observe(ctl).thisEpoch
    BY <2>1, IdleResetSound DEF Observe
  <2>4. req[a] # "inflight"
    BY <1>6 DEF Acquire
  <2> QED BY <1>1, <2>1, <2>2, <2>3, <2>4
<1>7. ASSUME NEW a \in Agents, Abort(a)
      PROVE  ctl'.thisEpoch \subseteq ctl.thisEpoch \cup Granted
  <2> DEFINE n == Cardinality(Waiting \ {a})
  <2>1. n \in Nat
    BY WaitingIsQueued, Counting DEF IInv
  <2>2. ctl' = Waiters(ctl, n)
    BY <1>7 DEF Abort
  <2> QED BY <1>4, <2>1, <2>2, WaitersSound
<1>8. ASSUME NEW a \in Agents, ObserverAcquire(a)
      PROVE  ctl'.thisEpoch \subseteq ctl.thisEpoch \cup Granted
  BY <1>1, <1>8, Basics DEF ObserverAcquire
<1>9. ASSUME NEW a \in Agents, Complete(a)
      PROVE  ctl'.thisEpoch \subseteq ctl.thisEpoch \cup Granted
  BY <1>3, <1>4, <1>9, SucceededSound DEF Complete
<1>10. ASSUME NEW a \in Agents, FailTransient(a)
       PROVE  ctl'.thisEpoch \subseteq ctl.thisEpoch \cup Granted
  BY <1>3, <1>4, <1>10, FailedTransientSound DEF FailTransient
<1>11. ASSUME NEW a \in Agents, Release(a)
       PROVE  ctl'.thisEpoch \subseteq ctl.thisEpoch \cup Granted
  BY <1>3, <1>4, <1>11, EndedSound DEF Release
<1>12. ASSUME NEW a \in Agents, NEW ms \in RetryAfters, Throttle(a, ms)
       PROVE  ctl'.thisEpoch \subseteq ctl.thisEpoch \cup Granted
  BY <1>3, <1>4, <1>12, ThrottledSound, GovernorAssumption DEF Throttle
<1>13. CASE DrainGrant
  <2> DEFINE c == Waiters(ctl, WaiterCount)
             r == NextRunWithWaiters
             a == Head(queues[r])
  <2>1. Grant(a, c) /\ order # <<>>
    BY <1>13 DEF DrainGrant
  <2>2. Sound(c, Agents) /\ c.thisEpoch \subseteq ctl.thisEpoch
    BY <1>4, Basics, WaitersSound
  <2>3. r \in Runs /\ queues[r] # <<>> /\ queues[r] \in Seq(Agents)
    BY <2>1, NextRunWaits DEF IInv, QueueInv
  <2>4. 1 \in DOMAIN queues[r] /\ a = queues[r][1]
    BY <2>3, TailIsWithout
  <2> HIDE DEF c, r, a
  <2>5. a \in Agents /\ req[a] = "queued"
    BY <2>3, <2>4 DEF IInv, QueueInv, QueuesExact, Queued, Elements
  <2> QED BY <1>1, <2>1, <2>2, <2>5
<1>14. CASE DrainEnd
  BY <1>4, <1>14, Basics, WaitersSound DEF DrainEnd
<1>15. CASE Wake
  BY <1>15, Basics DEF Wake, StartDrain
<1>16. CASE Tick
  BY <1>4, <1>16, ElapseSound DEF Tick
<1> QED
  BY <1>5, <1>6, <1>7, <1>8, <1>9, <1>10, <1>11, <1>12, <1>13, <1>14, <1>15, <1>16
  DEF Next

\* A verdict on a ticket that has seen a cut already contradicts the invariant.
LEMMA NoSecondVerdict ==
    ASSUME VerdictInv, NEW a \in Agents, NEW ms \in RetryAfters, Verdict(a, ms)
    PROVE  ~sawCut[a]
<1>1. Sound(ctl, Agents) /\ ms \in Nat
  BY GovernorAssumption DEF VerdictInv, IInv, LoadInv
<1>2. a \in ctl.thisEpoch
  BY <1>1, VerdictEndsEpoch DEF Verdict
<1> QED BY <1>2 DEF VerdictInv, CutInv

\* Every step keeps the invariant: a cut ends the epoch of all the tickets that
\* now have seen it, and the current epoch is joined only by fresh tickets.
LEMMA NextVerdictInv ==
    ASSUME VerdictInv, [VerdictNext]_verdictVars
    PROVE  VerdictInv'
<1>1. CASE UNCHANGED verdictVars
  BY <1>1, NextIInv DEF verdictVars, vars, VerdictInv, CutInv
<1>2. CASE VerdictNext
  <2>1. Next
    BY <1>2 DEF VerdictNext, Next
  <2>2. IInv'
    BY <2>1, NextIInv DEF VerdictInv
  <2>3. PICK cut \in BOOLEAN :
          /\ RecordCut(cut)
          /\ cut => \E a \in Agents, ms \in RetryAfters : Throttle(a, ms) /\ Verdict(a, ms)
    <3>1. ASSUME NEW a \in Agents, NEW ms \in RetryAfters PROVE Verdict(a, ms) \in BOOLEAN
      BY DEF Verdict
    <3>2. CASE \E a \in Agents, ms \in RetryAfters :
                  Throttle(a, ms) /\ RecordCut(Verdict(a, ms))
      BY <3>1, <3>2
    <3>3. CASE RecordCut(FALSE)
      BY <3>3
    <3> QED BY <1>2, <3>2, <3>3 DEF VerdictNext
  <2>4. sawCut' \in [Agents -> BOOLEAN]
    BY <2>3 DEF RecordCut
  <2>5. ASSUME NEW b \in Agents, sawCut'[b] PROVE b \notin ctl'.thisEpoch
    <3>1. b \notin Granted /\ (sawCut[b] \/ cut)
      BY <2>3, <2>5 DEF RecordCut
    <3>2. CASE sawCut[b]
      BY <2>1, <3>1, <3>2, EpochGrows DEF VerdictInv, CutInv
    <3>3. CASE cut
      <4>1. PICK a \in Agents, ms \in RetryAfters : Throttle(a, ms) /\ Verdict(a, ms)
        BY <2>3, <3>3
      <4>2. Sound(ctl, Agents) /\ ms \in Nat
        BY GovernorAssumption DEF VerdictInv, IInv, LoadInv
      <4>3. /\ Throttled(ctl, a, ms).thisEpoch = {}
            /\ Sound(Throttled(ctl, a, ms), Agents)
        BY <4>1, <4>2, VerdictEndsEpoch, ThrottledSound DEF Verdict
      <4>4. ctl' = Observe(Throttled(ctl, a, ms))
        BY <4>1 DEF Throttle, Settle, StartDrain
      <4>5. ctl'.thisEpoch = {}
        BY <4>3, <4>4, IdleResetSound DEF Observe
      <4> QED BY <4>5
    <3> QED BY <3>1, <3>2, <3>3
  <2> QED BY <2>2, <2>4, <2>5 DEF VerdictInv, CutInv
<1> QED BY <1>1, <1>2

\* A 429 for a request that was in flight when the cap was cut never cuts it
\* again, in whatever order a batch is throttled, settled and refilled.
THEOREM BatchCutOnce == VerdictSpec => OneVerdictPerBatch
<1>1. VerdictInit => VerdictInv
  BY InitIInv DEF VerdictInit, VerdictInv, CutInv
<1>2. VerdictInv /\ [VerdictNext]_verdictVars => VerdictInv'
  BY NextVerdictInv
<1>3. VerdictInv => \A a \in Agents, ms \in RetryAfters :
                        Throttle(a, ms) /\ Verdict(a, ms) => ~sawCut[a]
  BY NoSecondVerdict
<1> QED BY <1>1, <1>2, <1>3, PTL DEF VerdictSpec, OneVerdictPerBatch

-----------------------------------------------------------------------------
(* How often a run that waits is passed over. *)

\* The place in the Map of the run granted last, 0 when it has left.
Cursor ==
    IF lastGrantedRun \in Elements(order) THEN IndexOf(order, lastGrantedRun) ELSE 0

\* Twice the number of grants that may still go to others before the run at
\* place p of a Map of l runs, of n in all, has its turn, the cursor being at c.
\* Before p, the cursor has p - 1 - c places to go; each of the p - 1 runs before
\* p may leave the Map and so send the cursor back to the front, which shortens
\* the way by one place; and the cursor may once jump past p, when a run that
\* has left under it asks again.  Past p it has first to reach the end.
Ahead(p, c, l, n) ==
    IF c < p
    THEN 2 * (p - 1 - c) + (p - 2) * (p - 1) + 2 * Larger(0, p - 2 + n - l)
    ELSE (p - 1) * p + (IF c = n THEN 2 * Larger(0, p - 2) ELSE 2 * (p - 1 + n - c))

\* Twice the bound of RunsRotate, for n runs.
Most(n) == Larger(0, (n - 1) * (n + 2) - 2)

\* A run is passed over at most as often as it could be when it began to wait.
TurnInv ==
    \A r \in Runs :
        IF queues[r] = <<>> THEN bypassed[r] = 0
        ELSE 2 * bypassed[r] + Ahead(IndexOf(order, r), Cursor, Len(order), Cardinality(Runs))
                <= Most(Cardinality(Runs))

RotationInv ==
    /\ IInv
    /\ bypassed \in [Runs -> Nat]
    /\ TurnInv

\* The bound and what is left of it are numbers, and never negative.
LEMMA AheadType ==
    ASSUME NEW p \in Int, NEW c \in Int, NEW l \in Int, NEW n \in Int
    PROVE  /\ Ahead(p, c, l, n) \in Int /\ Most(n) \in Int /\ Most(n) >= 0
           /\ p >= 1 /\ c <= n => Ahead(p, c, l, n) >= 0
<1>1. (p - 2) * (p - 1) \in Int /\ (p - 1) * p \in Int /\ (n - 1) * (n + 2) \in Int
  OBVIOUS
<1>2. p >= 1 => (p - 2) * (p - 1) >= 0 /\ (p - 1) * p >= 0
  OBVIOUS
<1> QED BY <1>1, <1>2 DEF Ahead, Most, Larger

\* A run that has just been granted, or has just joined the Map, waits for less
\* than the bound.
LEMMA AheadAfterTurn ==
    ASSUME NEW n \in Nat, NEW p \in 1 .. n, NEW l
    PROVE  Ahead(p, p, l, n) <= Most(n)
BY DEF Ahead, Most, Larger

LEMMA AheadAtEnd ==
    ASSUME NEW n \in Nat, NEW p \in 1 .. n, NEW c \in 0 .. p - 1
    PROVE  Ahead(p, c, p, n) <= Most(n)
BY DEF Ahead, Most, Larger

\* Another run that joins the Map does not put a waiting run off, not even when
\* it is the one the cursor names.
LEMMA AheadJoin ==
    ASSUME NEW n \in Nat, NEW l \in 1 .. n - 1, NEW p \in 1 .. l, NEW c \in 0 .. l
    PROVE  /\ Ahead(p, c, l + 1, n) <= Ahead(p, c, l, n)
           /\ Ahead(p, l + 1, l + 1, n) <= Ahead(p, 0, l, n)
BY DEF Ahead, Larger

\* A grant to another run brings the turn nearer, whether that run stays in the
\* Map or leaves it.
LEMMA AheadGrant ==
    ASSUME NEW n \in Nat, NEW l \in 1 .. n, NEW p \in 1 .. l, NEW c \in 0 .. l,
           NEW i, i = (c % l) + 1, i # p
    PROVE  /\ Ahead(p, i, l, n) + 2 <= Ahead(p, c, l, n)
           /\ Ahead(IF i < p THEN p - 1 ELSE p, 0, l - 1, n) + 2 <= Ahead(p, c, l, n)
<1>1. Ahead(p, i, l, n) + 2 <= Ahead(p, c, l, n)
  BY DEF Ahead, Larger
<1>2. Ahead(IF i < p THEN p - 1 ELSE p, 0, l - 1, n) + 2 <= Ahead(p, c, l, n)
  BY DEF Ahead, Larger
<1> QED BY <1>1, <1>2

\* Where an element of a line without repetitions is found.
LEMMA PlaceOf ==
    ASSUME NEW S, NEW s \in Seq(S), Distinct(s), NEW k \in DOMAIN s
    PROVE  IndexOf(s, s[k]) = k
<1>1. s[k] \in Elements(s)
  BY DEF Elements
<1>2. IndexOf(s, s[k]) \in DOMAIN s /\ s[IndexOf(s, s[k])] = s[k]
  BY <1>1, IndexOfPlace
<1> QED BY <1>2 DEF Distinct

\* The Map, its cursor, and the run the cursor leads to.
Places ==
    /\ order \in Seq(Runs) /\ Distinct(order)
    /\ Len(order) \in Nat /\ DOMAIN order = 1 .. Len(order)
    /\ Cardinality(Runs) \in Nat /\ Len(order) <= Cardinality(Runs)
    /\ Cursor \in 0 .. Len(order)
    /\ Cursor # 0 => order[Cursor] = lastGrantedRun
    /\ lastGrantedRun \in Elements(order) <=> Cursor # 0
    /\ order # <<>> =>
           /\ (Cursor % Len(order)) + 1 \in DOMAIN order
           /\ NextRunWithWaiters = order[(Cursor % Len(order)) + 1]
    /\ \A r \in Runs : queues[r] # <<>> =>
           /\ IndexOf(order, r) \in DOMAIN order
           /\ order[IndexOf(order, r)] = r

LEMMA Rotation == QueueInv => Places
<1> SUFFICES ASSUME QueueInv PROVE Places
  OBVIOUS
<1>1. /\ order \in Seq(Runs) /\ Distinct(order) /\ Elements(order) \subseteq Runs
      /\ Len(order) \in Nat /\ DOMAIN order = 1 .. Len(order)
  BY DEF QueueInv, QueuesExact
<1>2. Cardinality(Runs) \in Nat /\ Len(order) <= Cardinality(Runs)
  <2>1. Elements(order) = {order[i] : i \in 1 .. Len(order)}
    BY <1>1 DEF Elements
  <2>2. Len(order) \in 0 .. Len(order)
    BY <1>1
  <2>3. Cardinality({order[i] : i \in 1 .. Len(order)}) = Len(order)
    BY ONLY <1>1, <2>2, FirstAreThatMany
  <2> QED BY <1>1, <2>1, <2>3, RotationAssumption, FS_Subset, FS_CardinalityType
<1>3. /\ Cursor \in 0 .. Len(order)
      /\ Cursor # 0 => order[Cursor] = lastGrantedRun
      /\ lastGrantedRun \in Elements(order) <=> Cursor # 0
  BY <1>1, IndexOfPlace DEF Cursor
<1>4. ASSUME order # <<>>
      PROVE  /\ (Cursor % Len(order)) + 1 \in DOMAIN order
             /\ NextRunWithWaiters = order[(Cursor % Len(order)) + 1]
  <2> DEFINE last == {i \in DOMAIN order : order[i] = lastGrantedRun}
  <2>1. last = {} <=> lastGrantedRun \notin Elements(order)
    BY DEF Elements
  <2>2. IndexOf(order, lastGrantedRun) = CHOOSE k \in last : TRUE
    BY DEF IndexOf
  <2> DEFINE i == IF last = {} THEN 0 ELSE CHOOSE k \in last : TRUE
  <2>3. i = Cursor
    BY <2>1, <2>2 DEF Cursor
  <2>4. NextRunWithWaiters = order[(Cursor % Len(order)) + 1]
    <3>1. NextRunWithWaiters = order[(i % Len(order)) + 1]
      BY DEF NextRunWithWaiters
    <3> HIDE DEF i
    <3> QED BY <2>3, <3>1
  <2> HIDE DEF i, last
  <2>5. Len(order) # 0
    BY <1>1, <1>4, EmptySeq
  <2>6. Cursor % Len(order) \in 0 .. Len(order) - 1
    BY <1>1, <1>3, <2>5
  <2> QED BY <1>1, <2>4, <2>6
<1>5. ASSUME NEW r \in Runs, queues[r] # <<>>
      PROVE  IndexOf(order, r) \in DOMAIN order /\ order[IndexOf(order, r)] = r
  BY <1>1, <1>5, WaitingIsQueued, IndexOfPlace
<1> QED BY <1>1, <1>2, <1>3, <1>4, <1>5 DEF Places

LEMMA RotationAfter == QueueInv' => Places'
BY Rotation, PTL

\* What RotationNext records.
Recorded ==
    bypassed' = [r \in Runs |->
            IF queues[r] = <<>> \/ (\E a \in Granted : RunOf[a] = r) THEN 0
            ELSE IF Overtook(r) THEN Smaller(BypassBound, bypassed[r] + 1)
            ELSE bypassed[r]]

\* It counts by ones, and only when somebody is granted.
LEMMA Counted ==
    ASSUME bypassed \in [Runs -> Nat], Recorded
    PROVE  /\ bypassed' \in [Runs -> Nat]
           /\ \A r \in Runs : /\ bypassed'[r] <= bypassed[r] + 1
                              /\ queues[r] = <<>> => bypassed'[r] = 0
                              /\ (\E a \in Granted : RunOf[a] = r) => bypassed'[r] = 0
                              /\ Granted = {} => bypassed'[r] <= bypassed[r]
BY RotationAssumption DEF Recorded, Overtook, Smaller

\* Steps that grant nothing and let no run join or leave the Map.
LEMMA QuietTurn ==
    ASSUME RotationInv, Recorded, Granted = {}, UNCHANGED <<order, lastGrantedRun>>,
           \A r \in Runs : queues'[r] = <<>> <=> queues[r] = <<>>
    PROVE  TurnInv'
<1>1. Cursor' = Cursor
  BY DEF Cursor
<1> DEFINE ahead(r) == Ahead(IndexOf(order, r), Cursor, Len(order), Cardinality(Runs))
<1>2. ASSUME NEW r \in Runs, queues[r] # <<>>
      PROVE  2 * bypassed'[r] + ahead(r) <= Most(Cardinality(Runs))
  <2>1. /\ 2 * bypassed[r] + ahead(r) <= Most(Cardinality(Runs))
        /\ bypassed[r] \in Nat /\ bypassed'[r] \in Nat /\ bypassed'[r] <= bypassed[r]
    BY <1>2, Counted DEF RotationInv, TurnInv
  <2>2. ahead(r) \in Int /\ Most(Cardinality(Runs)) \in Int
    <3>1. /\ IndexOf(order, r) \in Int /\ Cursor \in Int /\ Len(order) \in Int
          /\ Cardinality(Runs) \in Int
      BY <1>2, Rotation DEF RotationInv, IInv, Places
    <3> QED BY <3>1, AheadType
  <2> HIDE DEF ahead
  <2> QED BY <2>1, <2>2
<1>3. \A r \in Runs : queues[r] = <<>> => bypassed'[r] = 0
  BY Counted DEF RotationInv
<1> QED BY <1>1, <1>2, <1>3 DEF TurnInv

\* Steps taken while nobody waits.
LEMMA NobodyWaits ==
    ASSUME RotationInv, Recorded, Waiting = {}, UNCHANGED queues
    PROVE  TurnInv'
<1>1. \A r \in Runs : queues[r] = <<>>
  <2>1. \A r \in Runs : Elements(queues[r]) = {} /\ queues[r] \in Seq(Agents)
    BY DEF Waiting, RotationInv, IInv, QueueInv
  <2> QED BY <2>1, EmptyIffNoElements
<1> QED BY <1>1, Counted DEF TurnInv, RotationInv

\* Where the others stand after one has left.
LEMMA PlaceWithout ==
    ASSUME NEW S, NEW s \in Seq(S), Distinct(s), NEW k \in DOMAIN s, NEW i \in DOMAIN s,
           i # k
    PROVE  IndexOf(Without(s, k), s[i]) = IF i < k THEN i ELSE i - 1
<1> DEFINE j == IF i < k THEN i ELSE i - 1
<1>1. /\ DOMAIN s = 1 .. Len(s) /\ Len(s) \in Nat /\ k \in 1 .. Len(s) /\ i \in 1 .. Len(s)
  OBVIOUS
<1>2. /\ Without(s, k) \in Seq(S) /\ Distinct(Without(s, k))
      /\ DOMAIN Without(s, k) = 1 .. Len(s) - 1
  BY WithoutElements, WithoutIsSeq
<1>3. j \in 1 .. Len(s) - 1
  BY <1>1
<1>4. Without(s, k)[j] = s[i]
  BY <1>1, <1>3 DEF Without
<1> HIDE DEF j
<1>5. IndexOf(Without(s, k), Without(s, k)[j]) = j
  BY <1>2, <1>3, PlaceOf
<1> QED BY <1>4, <1>5 DEF j

\* Where everybody stands after one has joined.
LEMMA PlaceAppend ==
    ASSUME NEW S, NEW s \in Seq(S), Distinct(s), NEW x \in S, x \notin Elements(s)
    PROVE  /\ IndexOf(Append(s, x), x) = Len(s) + 1
           /\ \A i \in DOMAIN s : IndexOf(Append(s, x), s[i]) = i
<1> DEFINE t == Append(s, x)
<1>1. t \in Seq(S) /\ Distinct(t)
  BY AppendElements
<1>2. /\ Len(s) \in Nat /\ DOMAIN s = 1 .. Len(s)
      /\ DOMAIN t = 1 .. Len(s) + 1 /\ t[Len(s) + 1] = x
      /\ \A i \in 1 .. Len(s) : t[i] = s[i]
  OBVIOUS
<1> HIDE DEF t
<1>3. \A i \in DOMAIN t : IndexOf(t, t[i]) = i
  BY <1>1, PlaceOf
<1>4. IndexOf(t, t[Len(s) + 1]) = Len(s) + 1
  BY <1>2, <1>3
<1>5. ASSUME NEW i \in DOMAIN s PROVE IndexOf(t, s[i]) = i
  <2>1. i \in DOMAIN t /\ t[i] = s[i]
    BY <1>2
  <2> QED BY <1>3, <2>1
<1> QED BY <1>2, <1>4, <1>5 DEF t

\* A request joins the queue of its run.
LEMMA JoinTurn ==
    ASSUME RotationInv, Recorded, QueueInv', Granted = {}, UNCHANGED lastGrantedRun,
           NEW s \in Runs, NEW a \in Agents,
           queues' = [queues EXCEPT ![s] = Append(@, a)],
           order' = IF queues[s] = <<>> THEN Append(order, s) ELSE order
    PROVE  TurnInv'
<1> DEFINE n == Cardinality(Runs)
           l == Len(order)
<1>1. queues \in [Runs -> Seq(Agents)] /\ Append(queues[s], a) # <<>>
  BY DEF RotationInv, IInv, QueueInv
<1>2. CASE queues[s] # <<>>
  BY <1>1, <1>2, QuietTurn
<1>3. CASE queues[s] = <<>>
  <2>1. order' = Append(order, s)
    BY <1>3
  <2>2. Places /\ Places'
    BY Rotation, RotationAfter DEF RotationInv, IInv
  <2>3. s \notin Elements(order)
    BY <1>3, WaitingIsQueued DEF RotationInv, IInv
  <2>4. Len(order') = l + 1 /\ l \in 0 .. n - 1 /\ n \in Nat
    BY <2>1, <2>2 DEF Places
  <2>5. /\ IndexOf(order', s) = l + 1
        /\ \A i \in 1 .. l : IndexOf(order', order[i]) = i
    BY <2>1, <2>2, <2>3, PlaceAppend DEF Places
  <2>6. Cursor' \in 0 .. l + 1
    BY <2>2, <2>4 DEF Places
  <2> HIDE DEF n, l
  <2>7. ASSUME NEW r \in Runs, queues'[r] # <<>>
        PROVE  2 * bypassed'[r] + Ahead(IndexOf(order', r), Cursor', Len(order'), n) <= Most(n)
    <3>1. CASE r = s
      <4>1. bypassed'[r] = 0
        BY <1>3, <3>1, Counted DEF RotationInv
      <4>2. l + 1 \in 1 .. n
        BY <2>4
      <4>3. CASE Cursor' = l + 1
        <5>1. Ahead(l + 1, l + 1, l + 1, n) <= Most(n)
          BY <2>4, <4>2, AheadAfterTurn
        <5>2. Ahead(l + 1, l + 1, l + 1, n) \in Int
          BY <2>4, AheadType
        <5> QED BY <2>4, <2>5, <3>1, <4>1, <4>3, <5>1, <5>2
      <4>4. CASE Cursor' # l + 1
        <5>1. Cursor' \in 0 .. (l + 1) - 1
          BY <2>4, <2>6, <4>4
        <5>2. Ahead(l + 1, Cursor', l + 1, n) <= Most(n)
          BY <2>4, <4>2, <5>1, AheadAtEnd
        <5>3. Ahead(l + 1, Cursor', l + 1, n) \in Int
          BY <2>4, <5>1, AheadType
        <5> QED BY <2>4, <2>5, <3>1, <4>1, <5>2, <5>3
      <4> QED BY <4>3, <4>4
    <3>2. CASE r # s
      <4> DEFINE p == IndexOf(order, r)
      <4>1. queues[r] # <<>>
        BY <1>1, <2>7, <3>2
      <4>2. p \in 1 .. l /\ order[p] = r
        BY <2>2, <4>1 DEF Places, l
      <4>3. IndexOf(order', r) = p
        BY <2>5, <4>2
      <4>4. 2 * bypassed[r] + Ahead(p, Cursor, l, n) <= Most(n)
        BY <4>1 DEF RotationInv, TurnInv, n, l
      <4>5. bypassed[r] \in Nat /\ bypassed'[r] \in Nat /\ bypassed'[r] <= bypassed[r]
        BY Counted DEF RotationInv
      <4>6. l \in 1 .. n - 1 /\ Cursor \in 0 .. l
        BY <2>2, <2>4, <4>2 DEF Places, l
      <4> HIDE DEF p
      <4>7. Ahead(p, Cursor', l + 1, n) <= Ahead(p, Cursor, l, n)
        <5>1. CASE lastGrantedRun = s
          <6>1. Cursor = 0
            BY <2>2, <2>3, <5>1 DEF Places
          <6>2. Cursor' = l + 1
            <7>1. s \in Elements(order')
              BY <1>1, <1>3, <2>1, AppendElements DEF RotationInv, IInv, QueueInv
            <7> QED BY <2>5, <5>1, <7>1 DEF Cursor
          <6> QED BY <2>4, <4>2, <4>6, <6>1, <6>2, AheadJoin
        <5>2. CASE lastGrantedRun # s
          <6>1. Elements(order') = Elements(order) \cup {s}
            BY <2>1, AppendElements DEF RotationInv, IInv, QueueInv
          <6>2. Cursor' = Cursor
            <7>1. CASE lastGrantedRun \in Elements(order)
              <8>1. Cursor \in 1 .. l /\ order[Cursor] = lastGrantedRun
                BY <2>2, <4>6, <7>1 DEF Places
              <8>2. IndexOf(order', lastGrantedRun) = Cursor
                BY <2>5, <8>1
              <8> QED BY <6>1, <7>1, <8>2 DEF Cursor
            <7>2. CASE lastGrantedRun \notin Elements(order)
              BY <5>2, <6>1, <7>2 DEF Cursor
            <7> QED BY <7>1, <7>2
          <6> QED BY <2>4, <4>2, <4>6, <6>2, AheadJoin
        <5> QED BY <5>1, <5>2
      <4>8. /\ Ahead(p, Cursor', l + 1, n) \in Int /\ Ahead(p, Cursor, l, n) \in Int
            /\ Most(n) \in Int
        <5>1. p \in Int /\ l \in Int /\ l + 1 \in Int /\ n \in Int /\ Cursor \in Int /\ Cursor' \in Int
          BY <2>4, <2>6, <4>2, <4>6
        <5> QED BY <5>1, AheadType
      <4> QED BY <2>4, <4>3, <4>4, <4>5, <4>7, <4>8
    <3> QED BY <3>1, <3>2
  <2>8. \A r \in Runs : queues'[r] = <<>> => bypassed'[r] = 0
    <3>1. \A r \in Runs : queues'[r] = <<>> => queues[r] = <<>>
      BY <1>1
    <3> QED BY <3>1, Counted DEF RotationInv
  <2> QED BY <2>7, <2>8 DEF TurnInv, n
<1> QED BY <1>2, <1>3

\* One turn of the loop of drain(): the run it serves starts to count anew, and
\* every other run that waits is one grant nearer to its turn.
LEMMA GrantTurn ==
    ASSUME RotationInv, Recorded, DrainGrant, QueueInv'
    PROVE  TurnInv'
<1> DEFINE n == Cardinality(Runs)
           l == Len(order)
           i == (Cursor % l) + 1
           s == NextRunWithWaiters
           a == Head(queues[s])
<1>1. /\ order # <<>>
      /\ queues' = [queues EXCEPT ![s] = Tail(@)]
      /\ IF Tail(queues[s]) = <<>>
         THEN \E k \in DOMAIN order : order[k] = s /\ order' = Without(order, k)
         ELSE order' = order
      /\ req' = [req EXCEPT ![a] = "inflight"] /\ lastGrantedRun' = RunOf[a]
  BY DEF DrainGrant, Grant
<1>2. Places /\ Places'
  BY Rotation, RotationAfter DEF RotationInv, IInv
<1>3. s \in Runs /\ queues[s] # <<>> /\ queues[s] \in Seq(Agents)
  BY <1>1, NextRunWaits DEF RotationInv, IInv, QueueInv
<1>4. a \in Agents /\ req[a] = "queued" /\ RunOf[a] = s
  <2>1. 1 \in DOMAIN queues[s] /\ a = queues[s][1]
    BY <1>3, TailIsWithout
  <2> HIDE DEF a, s
  <2> QED BY <1>3, <2>1 DEF RotationInv, IInv, QueueInv, QueuesExact, Queued, Elements
<1>5. /\ i \in 1 .. l /\ s = order[i] /\ l \in 1 .. n /\ n \in Nat
      /\ Cursor \in 0 .. l /\ IndexOf(order, s) = i
      /\ DOMAIN order = 1 .. l /\ order \in Seq(Runs) /\ Distinct(order)
  <2>1. /\ i \in 1 .. l /\ s = order[i] /\ n \in Nat /\ l \in Nat /\ l <= n
        /\ Cursor \in 0 .. l
        /\ DOMAIN order = 1 .. l /\ order \in Seq(Runs) /\ Distinct(order)
    BY <1>1, <1>2 DEF Places
  <2> HIDE DEF i, s, l, n
  <2>2. IndexOf(order, s) = i
    BY <2>1, PlaceOf
  <2>3. l \in 1 .. n
    BY <2>1
  <2> QED BY <2>1, <2>2, <2>3
<1>6. a \in Granted /\ lastGrantedRun' = s
  BY <1>1, <1>4 DEF Granted, RotationInv, IInv, LoadInv
<1>7. i = (Cursor % l) + 1
  OBVIOUS
<1> HIDE DEF n, l, i, s, a
<1>8. bypassed'[s] = 0
  BY <1>3, <1>4, <1>6, Counted DEF RotationInv
\* The turn of a run that waits on, before the grant and after it.
<1>9. ASSUME NEW r \in Runs, r # s, queues'[r] # <<>>
      PROVE  /\ IndexOf(order, r) \in 1 .. l /\ IndexOf(order, r) # i
             /\ order[IndexOf(order, r)] = r
             /\ 2 * bypassed[r] + Ahead(IndexOf(order, r), Cursor, l, n) <= Most(n)
             /\ bypassed[r] \in Nat /\ bypassed'[r] \in Nat /\ bypassed'[r] <= bypassed[r] + 1
  <2>1. queues[r] # <<>>
    BY <1>1, <1>9 DEF RotationInv, IInv, QueueInv
  <2>2. IndexOf(order, r) \in 1 .. l /\ order[IndexOf(order, r)] = r
    BY <1>2, <2>1 DEF Places, l
  <2>3. 2 * bypassed[r] + Ahead(IndexOf(order, r), Cursor, l, n) <= Most(n)
    BY <2>1 DEF RotationInv, TurnInv, l, n
  <2>4. bypassed[r] \in Nat /\ bypassed'[r] \in Nat /\ bypassed'[r] <= bypassed[r] + 1
    BY Counted DEF RotationInv
  <2> QED BY <1>5, <1>9, <2>2, <2>3, <2>4
<1>10. ASSUME NEW p \in 1 .. l, p # i
       PROVE  /\ Ahead(p, i, l, n) + 2 <= Ahead(p, Cursor, l, n)
              /\ Ahead(IF p < i THEN p ELSE p - 1, 0, l - 1, n) + 2 <= Ahead(p, Cursor, l, n)
              /\ Ahead(p, i, l, n) \in Int /\ Ahead(p, Cursor, l, n) \in Int
              /\ Ahead(IF p < i THEN p ELSE p - 1, 0, l - 1, n) \in Int
              /\ Most(n) \in Int
  <2> DEFINE q == IF p < i THEN p ELSE p - 1
  <2>1. q = IF i < p THEN p - 1 ELSE p
    BY <1>5, <1>10
  <2>2. /\ Ahead(p, i, l, n) + 2 <= Ahead(p, Cursor, l, n)
        /\ Ahead(q, 0, l - 1, n) + 2 <= Ahead(p, Cursor, l, n)
    BY <1>5, <1>7, <1>10, <2>1, AheadGrant
  <2>3. /\ p \in Int /\ q \in Int /\ i \in Int /\ l \in Int /\ n \in Int /\ Cursor \in Int
        /\ l - 1 \in Int /\ 0 \in Int
    BY <1>5
  <2> HIDE DEF q
  <2>4. /\ Ahead(p, i, l, n) \in Int /\ Ahead(p, Cursor, l, n) \in Int
        /\ Ahead(q, 0, l - 1, n) \in Int /\ Most(n) \in Int
    BY <2>3, AheadType
  <2> QED BY <2>2, <2>4 DEF q
<1>11. CASE Tail(queues[s]) # <<>>
  <2>1. order' = order
    BY <1>1, <1>11
  <2>2. Cursor' = i
    BY <1>5, <1>6, <2>1 DEF Cursor, Elements
  <2>3. \A r \in Runs : queues'[r] = <<>> <=> queues[r] = <<>>
    BY <1>1, <1>3, <1>11 DEF RotationInv, IInv, QueueInv
  <2>4. ASSUME NEW r \in Runs, queues'[r] # <<>>
        PROVE  2 * bypassed'[r] + Ahead(IndexOf(order', r), Cursor', l, n) <= Most(n)
    <3>1. CASE r = s
      <4>1. i \in 1 .. n
        BY <1>5
      <4>2. Ahead(i, i, l, n) <= Most(n) /\ Ahead(i, i, l, n) \in Int
        <5>1. i \in Int /\ l \in Int /\ n \in Int
          BY <1>5
        <5>2. Ahead(i, i, l, n) <= Most(n)
          BY <1>5, <4>1, AheadAfterTurn
        <5> QED BY <5>1, <5>2, AheadType
      <4> QED BY <1>5, <1>8, <2>1, <2>2, <3>1, <4>2
    <3>2. CASE r # s
      <4> DEFINE p == IndexOf(order, r)
      <4>1. /\ p \in 1 .. l /\ p # i
            /\ 2 * bypassed[r] + Ahead(p, Cursor, l, n) <= Most(n)
            /\ bypassed[r] \in Nat /\ bypassed'[r] \in Nat /\ bypassed'[r] <= bypassed[r] + 1
        BY <1>9, <2>4, <3>2
      <4> HIDE DEF p
      <4>2. /\ Ahead(p, i, l, n) + 2 <= Ahead(p, Cursor, l, n)
            /\ Ahead(p, i, l, n) \in Int /\ Ahead(p, Cursor, l, n) \in Int /\ Most(n) \in Int
        BY <1>10, <4>1
      <4>3. 2 * bypassed'[r] + Ahead(p, i, l, n) <= Most(n)
        BY <4>1, <4>2
      <4> QED BY <2>1, <2>2, <4>3 DEF p
    <3> QED BY <3>1, <3>2
  <2>5. \A r \in Runs : queues'[r] = <<>> => bypassed'[r] = 0
    BY <2>3, Counted DEF RotationInv
  <2> QED BY <2>1, <2>4, <2>5 DEF TurnInv, l, n
<1>12. CASE Tail(queues[s]) = <<>>
  <2>1. PICK k \in DOMAIN order : order[k] = s /\ order' = Without(order, k)
    BY <1>1, <1>12
  <2>2. k = i
    BY <1>5, <2>1 DEF Distinct
  <2>3. Elements(order') = Elements(order) \ {s} /\ Len(order') = l - 1
    <3>1. Elements(Without(order, k)) = Elements(order) \ {order[k]}
      BY <1>5, WithoutElements
    <3>2. Len(Without(order, k)) = Len(order) - 1
      BY <1>5, WithoutIsSeq
    <3> QED BY <2>1, <3>1, <3>2 DEF l
  <2>4. Cursor' = 0
    BY <1>6, <2>3 DEF Cursor
  <2>5. queues'[s] = <<>> /\ \A r \in Runs \ {s} : queues'[r] = queues[r]
    BY <1>1, <1>3, <1>12 DEF RotationInv, IInv, QueueInv
  <2>6. ASSUME NEW r \in Runs, queues'[r] # <<>>
        PROVE  2 * bypassed'[r] + Ahead(IndexOf(order', r), 0, l - 1, n) <= Most(n)
    <3> DEFINE p == IndexOf(order, r)
               q == IF p < i THEN p ELSE p - 1
    <3>1. r # s
      BY <2>5, <2>6
    <3>2. /\ p \in 1 .. l /\ p # i /\ order[p] = r
          /\ 2 * bypassed[r] + Ahead(p, Cursor, l, n) <= Most(n)
          /\ bypassed[r] \in Nat /\ bypassed'[r] \in Nat /\ bypassed'[r] <= bypassed[r] + 1
      BY <1>9, <2>6, <3>1
    <3>3. IndexOf(order', r) = q
      <4> HIDE DEF p
      <4>1. IndexOf(Without(order, i), order[p]) = q
        BY <1>5, <3>2, PlaceWithout
      <4> QED BY <2>1, <2>2, <3>2, <4>1
    <3> HIDE DEF p
    <3>4. /\ Ahead(q, 0, l - 1, n) + 2 <= Ahead(p, Cursor, l, n)
          /\ Ahead(q, 0, l - 1, n) \in Int /\ Ahead(p, Cursor, l, n) \in Int
          /\ Most(n) \in Int
      BY <1>10, <3>2
    <3> HIDE DEF q
    <3> QED BY <3>2, <3>3, <3>4
  <2>7. ASSUME NEW r \in Runs, queues'[r] = <<>> PROVE bypassed'[r] = 0
    <3>1. CASE r = s
      BY <1>8, <3>1
    <3>2. CASE r # s
      BY <2>5, <2>7, <3>2, Counted DEF RotationInv
    <3> QED BY <3>1, <3>2
  <2> QED BY <2>3, <2>4, <2>6, <2>7 DEF TurnInv, n
<1> QED BY <1>11, <1>12

\* Nobody aborts, and only runs of workflows ask: the main agent is idle.
OnlyRunsAsk == Abortable = {} /\ \A a \in Agents : RunOf[a] \in Runs

LEMMA NextTurnInv ==
    ASSUME OnlyRunsAsk, RotationInv, IInv', Next, Recorded
    PROVE  TurnInv'
<1>1. /\ req \in [Agents -> RequestStates] /\ queues \in [Runs -> Seq(Agents)]
      /\ QueueInv /\ QueueInv'
  BY DEF RotationInv, IInv, LoadInv, QueueInv
<1>2. ASSUME NEW a \in Agents, NEW c, Settle(a, c) PROVE TurnInv'
  <2>1. Granted = {} /\ UNCHANGED <<queues, order, lastGrantedRun>>
    BY <1>1, <1>2 DEF Settle, Granted
  <2> QED BY <2>1, QuietTurn
<1>3. ASSUME NEW a \in Agents, TryAdmit(a), UNCHANGED <<queues, order>> PROVE TurnInv'
  <2>1. CASE WaiterCount = 0
    <3>1. Waiting \subseteq Agents
      BY <1>1, WaitingIsQueued
    <3>2. Waiting = {}
      BY <2>1, <3>1, Counting DEF WaiterCount
    <3> QED BY <1>3, <3>2, NobodyWaits
  <2>2. CASE WaiterCount # 0
    <3>1. req' = [req EXCEPT ![a] = "missed"] /\ UNCHANGED lastGrantedRun
      BY <1>3, <2>2 DEF TryAdmit
    <3>2. Granted = {}
      BY <1>1, <3>1 DEF Granted
    <3> QED BY <1>3, <3>1, <3>2, QuietTurn
  <2> QED BY <2>1, <2>2
<1>4. ASSUME NEW a \in Agents, TryAcquire(a) PROVE TurnInv'
  BY <1>3, <1>4 DEF TryAcquire
<1>5. ASSUME NEW a \in Agents, Acquire(a) PROVE TurnInv'
  <2> DEFINE c == Observe(ctl)
  <2>1. CASE WaiterCount = 0 /\ CanAdmit(c)
    <3>1. TryAdmit(a) /\ UNCHANGED <<queues, order>>
      BY <1>5, <2>1 DEF Acquire, TryAdmit
    <3> QED BY <1>3, <3>1
  <2>2. CASE ~(WaiterCount = 0 /\ CanAdmit(c))
    <3> DEFINE r == RunOf[a]
    <3>1. /\ req' = [req EXCEPT ![a] = "queued"]
          /\ queues' = [queues EXCEPT ![r] = Append(@, a)]
          /\ order' = IF queues[r] = <<>> THEN Append(order, r) ELSE order
          /\ UNCHANGED lastGrantedRun
      BY <1>5, <2>2 DEF Acquire
    <3>2. r \in Runs
      BY DEF OnlyRunsAsk
    <3>3. Granted = {}
      BY <1>1, <3>1 DEF Granted
    <3> HIDE DEF r
    <3> QED BY <1>1, <3>1, <3>2, <3>3, JoinTurn
  <2> QED BY <2>1, <2>2
<1>6. ASSUME NEW a \in Agents, AbortBeforeQueue(a) \/ Abort(a) PROVE TurnInv'
  BY <1>6 DEF OnlyRunsAsk, AbortBeforeQueue, Abort
<1>7. ASSUME NEW a \in Agents, ObserverAcquire(a) PROVE TurnInv'
  BY <1>7, GovernorAssumption DEF OnlyRunsAsk, ObserverAcquire
<1>8. CASE DrainGrant
  BY <1>1, <1>8, GrantTurn
<1>9. CASE DrainEnd \/ Wake \/ Tick
  <2>1. UNCHANGED <<req, queues, order, lastGrantedRun>>
    BY <1>9 DEF DrainEnd, Wake, Tick
  <2>2. Granted = {}
    BY <2>1 DEF Granted
  <2> QED BY <2>1, <2>2, QuietTurn
<1> QED
  BY <1>2, <1>4, <1>5, <1>6, <1>7, <1>8, <1>9
  DEF Next, Complete, FailTransient, Release, Throttle

\* The bound on the bypasses follows from what is left of it.
LEMMA TurnsBounded == RotationInv => RunsRotate
<1> SUFFICES ASSUME RotationInv PROVE RunsRotate
  OBVIOUS
<1> SUFFICES ASSUME NEW r \in Runs PROVE 2 * bypassed[r] <= Most(Cardinality(Runs))
  <2>1. Cardinality(Runs) \in Nat
    BY Rotation DEF RotationInv, IInv, Places
  <2>2. Most(Cardinality(Runs)) =
          LET n == Cardinality(Runs) - 1 IN Larger(0, n * (n + 3) - 2)
    BY <2>1 DEF Most
  <2> QED BY <2>2 DEF RunsRotate
<1> DEFINE n == Cardinality(Runs)
<1>1. Places /\ bypassed[r] \in Nat
  BY Rotation DEF RotationInv, IInv
<1>2. n \in Int /\ Most(n) \in Int /\ Most(n) >= 0
  <2>1. n \in Int /\ 0 \in Int
    BY <1>1 DEF Places
  <2> HIDE DEF n
  <2>2. ASSUME NEW p \in Int PROVE Most(n) \in Int /\ Most(n) >= 0
    BY <2>1, AheadType
  <2> QED BY <2>1, <2>2
<1>3. CASE queues[r] = <<>>
  BY <1>2, <1>3 DEF RotationInv, TurnInv
<1>4. CASE queues[r] # <<>>
  <2> DEFINE p == IndexOf(order, r)
             l == Len(order)
  <2>1. p \in Int /\ p >= 1 /\ Cursor \in Int /\ Cursor <= n /\ l \in Int
    BY <1>1, <1>4 DEF Places
  <2>2. 2 * bypassed[r] + Ahead(p, Cursor, l, n) <= Most(n)
    BY <1>4 DEF RotationInv, TurnInv
  <2> HIDE DEF p, l, n
  <2>3. Ahead(p, Cursor, l, n) \in Int /\ Ahead(p, Cursor, l, n) >= 0
    BY <1>2, <2>1, AheadType
  <2> QED BY <1>1, <1>2, <2>2, <2>3 DEF n
<1> QED BY <1>3, <1>4

\* Without aborts and with the main agent idle, no run that waits is passed over
\* more often than the bound, for every number of runs, agents and slots.
THEOREM BypassBounded ==
    ASSUME OnlyRunsAsk
    PROVE  RotationSpec => []RunsRotate
<1>1. RotationInit => RotationInv
  <2> SUFFICES ASSUME RotationInit PROVE RotationInv
    OBVIOUS
  <2>1. IInv
    BY InitIInv DEF RotationInit
  <2>2. \A r \in Runs : queues[r] = <<>> /\ bypassed[r] = 0
    BY DEF RotationInit, Init
  <2> QED BY <2>1, <2>2 DEF RotationInit, RotationInv, TurnInv
<1>2. RotationInv /\ [RotationNext]_rotationVars => RotationInv'
  <2> SUFFICES ASSUME RotationInv, [RotationNext]_rotationVars PROVE RotationInv'
    OBVIOUS
  <2>1. IInv'
    BY NextIInv DEF RotationInv, RotationNext, rotationVars
  <2>2. CASE RotationNext
    <3>1. Next /\ Recorded
      BY <2>2 DEF RotationNext, Recorded
    <3> QED BY <2>1, <3>1, NextTurnInv, Counted DEF RotationInv
  <2>3. CASE UNCHANGED rotationVars
    BY <2>1, <2>3 DEF rotationVars, vars, RotationInv, TurnInv, Cursor
  <2> QED BY <2>2, <2>3
<1> QED BY <1>1, <1>2, TurnsBounded, PTL DEF RotationSpec
=================================================================================
