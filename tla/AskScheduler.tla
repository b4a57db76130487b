------------------------------ MODULE AskScheduler ------------------------------
(***************************************************************************)
(* One life of a workflow run: the ask scheduler (dynamic-workflow/src/    *)
(* engine/scheduler.ts), the run settlement around it (engine-settlement.  *)
(* ts, engine.ts) and the seat gate below it, as the driver wires them.    *)
(*                                                                         *)
(* The script asks; an admitted ask gets its actor's next sequence number  *)
(* and a "running" journal row, waits in the actor's queue, is dispatched  *)
(* when the actor is free and the run below its bound, runs turns on the   *)
(* actor's session, and settles.  Every turn step passes the seat gate.    *)
(* Model, tools, script and user are the environment.                      *)
(***************************************************************************)
EXTENDS SeatGate

CONSTANTS
    Asks,              \* ask instances (site and ordinal)
    ActorOf,           \* the actor each ask is addressed to
    Typed,             \* asks with a result schema
    Rank,              \* the order in which the actors were registered
    Limits,            \* values max_concurrency may be given
    StartLimit,        \* its value when the run starts
    RepairAttempts,    \* REPAIR_ATTEMPTS
    NudgeAttempts,     \* NUDGE_ATTEMPTS
    NoAsk              \* Actor.current is undefined

ASSUME SchedulerAssumption ==
    /\ ActorOf \in [Asks -> Actors]
    /\ Typed \subseteq Asks
    /\ Rank \in [Actors -> Nat]
    /\ \A a, b \in Actors : Rank[a] = Rank[b] => a = b
    /\ Limits \subseteq Nat \ {0}
    /\ StartLimit \in Limits
    /\ RepairAttempts \in Nat
    /\ NudgeAttempts \in Nat
    /\ NoAsk \notin Asks

VARIABLES
    run,               \* the run's status
    maxConcurrency,    \* caps.maxConcurrency, read before every dispatch
    gate,              \* the seat gate
    stage,             \* where each ask stands
    seq,               \* its actorSeq
    nextSeq,           \* Actor.nextAdmitSeq
    queue,             \* Actor.liveQueue
    current,           \* Actor.current
    activeAsks,
    session,           \* Actor.sessionPromise
    repairs, nudges,   \* repairsRemaining, nudgesRemaining
    row,               \* status of the ask's journal row
    promise,           \* what the script's promise came to
    trace,             \* events recorded for the ask
    phase,             \* what an actor with a started ask is doing
    recent             \* actors whose model request passed the seat gate after
                       \* the latest change of the bound (history)

engineVars == <<run, maxConcurrency, seq, nextSeq, queue, current, activeAsks,
                session, repairs, nudges, row, promise, trace, stage>>
vars == <<engineVars, gate, phase, recent>>

Stages == {"unasked", "queued", "dispatching", "started", "settled"}

Init ==
    /\ run = "running"
    /\ maxConcurrency = StartLimit
    /\ gate = NewGate(StartLimit)
    /\ stage = [k \in Asks |-> "unasked"]
    /\ seq = [k \in Asks |-> 0]
    /\ nextSeq = [a \in Actors |-> 0]
    /\ queue = [a \in Actors |-> <<>>]
    /\ current = [a \in Actors |-> NoAsk]
    /\ activeAsks = 0
    /\ session = [a \in Actors |-> "none"]
    /\ repairs = [k \in Asks |-> RepairAttempts]
    /\ nudges = [k \in Asks |-> NudgeAttempts]
    /\ row = [k \in Asks |-> "none"]
    /\ promise = [k \in Asks |-> "none"]
    /\ trace = [k \in Asks |-> <<>>]
    /\ phase = [a \in Actors |-> "none"]
    /\ recent = {}

\* a runs the ask k: startAsk was called and the ask has not settled.
Runs(a, k) == run = "running" /\ current[a] = k /\ k # NoAsk /\ stage[k] = "started"

Record(k, event) == trace' = [trace EXCEPT ![k] = Append(@, event)]

(* Mutants of Picked: actors that still run an ask; no bound. *)
PickedBusy(q, c, n, bound) == {a \in Actors : q[a] # <<>> /\ n < bound}

PickedUnbounded(q, c, n, bound) == {a \in Actors : c[a] = NoAsk /\ q[a] # <<>>}

(* pumpAll(): in registration order, every free actor with a queue is given *)
(* its next ask while the run is below its bound.  q, c and n are liveQueue, *)
(* current and activeAsks as the caller leaves them, st the stages.          *)
Picked(q, c, n, bound) ==
    LET ready == {a \in Actors : c[a] = NoAsk /\ q[a] # <<>>}
    IN  {a \in ready : n + Cardinality({b \in ready : Rank[b] < Rank[a]}) < bound}

PumpAll(q, c, n, bound, st) ==
    LET picked == Picked(q, c, n, bound)
        asks   == {Head(q[a]) : a \in picked}
    IN  /\ queue' = [a \in Actors |-> IF a \in picked THEN Tail(q[a]) ELSE q[a]]
        /\ current' = [a \in Actors |-> IF a \in picked THEN Head(q[a]) ELSE c[a]]
        /\ activeAsks' = n + Cardinality(picked)
        /\ stage' = [k \in Asks |-> IF k \in asks THEN "dispatching" ELSE st[k]]
        /\ session' = [a \in Actors |-> IF a \in picked /\ session[a] = "none"
                                        THEN "creating" ELSE session[a]]

(* The gate moves to g.  Whoever that seats goes on with its request; the    *)
(* actors in "others" get their phase from the caller.                       *)
MoveGate(g, others) ==
    /\ gate' = g
    /\ LET seated == Seated(gate, g) \ DOMAIN others
       IN  /\ phase' = [a \in Actors |-> IF a \in DOMAIN others THEN others[a]
                                         ELSE IF a \in seated THEN "model"
                                         ELSE phase[a]]
           /\ recent' = (recent \cup seated) \ {a \in DOMAIN others : others[a] # "model"}

Only(a, p) == [b \in {a} |-> p]

-----------------------------------------------------------------------------
(* ask(): admitAsk without a recorded row, admitLive, then pumpAll. *)
Ask(k) ==
    LET a == ActorOf[k] IN
    /\ run = "running"
    /\ stage[k] = "unasked"
    /\ seq' = [seq EXCEPT ![k] = nextSeq[a]]
    /\ nextSeq' = [nextSeq EXCEPT ![a] = @ + 1]
    /\ row' = [row EXCEPT ![k] = "running"]
    /\ promise' = [promise EXCEPT ![k] = "pending"]
    /\ Record(k, "queued")
    /\ PumpAll([queue EXCEPT ![a] = Append(@, k)], current, activeAsks,
               maxConcurrency, [stage EXCEPT ![k] = "queued"])
    /\ UNCHANGED <<run, maxConcurrency, gate, repairs, nudges, phase, recent>>

(* createActorSession of the driver returns, or throws. *)
SessionCreated(a, ok) ==
    /\ session[a] = "creating"
    /\ session' = [session EXCEPT ![a] = IF ok THEN "ready" ELSE "failed"]
    /\ UNCHANGED <<run, maxConcurrency, seq, nextSeq, queue, current, activeAsks,
                   repairs, nudges, row, promise, trace, stage, gate, phase, recent>>

(* Mutant of StartAsk: dispatch() does not look again after its await. *)
StartAskUnchecked(a) ==
    LET k == current[a] IN
    /\ k # NoAsk
    /\ session[a] = "ready"
    /\ phase[a] = "none"
    /\ stage' = [stage EXCEPT ![k] = "started"]
    /\ Record(k, "dispatched")
    /\ gate' = AskStarted(gate, a)
    /\ phase' = [phase EXCEPT ![a] = "idle"]
    /\ UNCHANGED <<run, maxConcurrency, seq, nextSeq, queue, current, activeAsks,
                   session, repairs, nudges, row, promise, recent>>

(* The rest of dispatch(), once the session is there: startAsk. *)
StartAsk(a) ==
    LET k == current[a] IN
    /\ run = "running"
    /\ k # NoAsk
    /\ stage[k] = "dispatching"
    /\ session[a] = "ready"
    /\ stage' = [stage EXCEPT ![k] = "started"]
    /\ Record(k, "dispatched")
    /\ gate' = AskStarted(gate, a)
    /\ phase' = [phase EXCEPT ![a] = "idle"]
    /\ UNCHANGED <<run, maxConcurrency, seq, nextSeq, queue, current, activeAsks,
                   session, repairs, nudges, row, promise, recent>>

(* Mutants of Settle: the slot is not returned; a failure leaves the row. *)
SettleKeepingSlot(a, k, outcome) ==
    /\ row' = [row EXCEPT ![k] = IF outcome = "ok" THEN "completed" ELSE "failed"]
    /\ promise' = [promise EXCEPT ![k] = outcome]
    /\ Record(k, outcome)
    /\ MoveGate(AskSettled(gate, a), Only(a, "none"))
    /\ PumpAll(queue, [current EXCEPT ![a] = NoAsk], activeAsks,
               maxConcurrency, [stage EXCEPT ![k] = "settled"])
    /\ UNCHANGED <<run, maxConcurrency, seq, nextSeq>>

SettleWithoutRow(a, k, outcome) ==
    /\ row' = [row EXCEPT ![k] = IF outcome = "ok" THEN "completed" ELSE @]
    /\ promise' = [promise EXCEPT ![k] = outcome]
    /\ Record(k, outcome)
    /\ MoveGate(AskSettled(gate, a), Only(a, "none"))
    /\ PumpAll(queue, [current EXCEPT ![a] = NoAsk], activeAsks - 1,
               maxConcurrency, [stage EXCEPT ![k] = "settled"])
    /\ UNCHANGED <<run, maxConcurrency, seq, nextSeq>>

(* settleOk and settleFailed: the journal row, the node-settled event (which *)
(* the driver's emit turns into askSettled), finishLiveNode and its pumpAll, *)
(* then the script's promise.                                                *)
Settle(a, k, outcome) ==
    /\ row' = [row EXCEPT ![k] = IF outcome = "ok" THEN "completed" ELSE "failed"]
    /\ promise' = [promise EXCEPT ![k] = outcome]
    /\ Record(k, outcome)
    /\ MoveGate(AskSettled(gate, a), Only(a, "none"))
    /\ PumpAll(queue, [current EXCEPT ![a] = NoAsk], activeAsks - 1,
               maxConcurrency, [stage EXCEPT ![k] = "settled"])
    /\ UNCHANGED <<run, maxConcurrency, seq, nextSeq>>

(* Mutant of DispatchFails: a rejection is settled though the ask is no more. *)
DispatchFailsLate(a) ==
    LET k == current[a] IN
    /\ k # NoAsk
    /\ session[a] = "failed"
    /\ Settle(a, k, "failed")
    /\ UNCHANGED <<repairs, nudges>>

(* ensureSession rejected: dispatch() settles the ask as failed. *)
DispatchFails(a) ==
    LET k == current[a] IN
    /\ run = "running"
    /\ k # NoAsk
    /\ stage[k] = "dispatching"
    /\ session[a] = "failed"
    /\ Settle(a, k, "failed")
    /\ UNCHANGED <<repairs, nudges>>

-----------------------------------------------------------------------------
(* Turns of the subagents.  A request made while a tool runs is a tool's and *)
(* goes past the gate (phase "tool" throughout); any other is a turn step.   *)
Passes(a) ==
    /\ phase' = [phase EXCEPT ![a] = "model"]
    /\ recent' = recent \cup {a}
    /\ UNCHANGED gate

TurnStep(a) ==
    /\ Runs(a, current[a])
    /\ phase[a] = "idle"
    /\ IF MustPark(gate, a)
       THEN /\ gate' = Park(gate, a)
            /\ phase' = [phase EXCEPT ![a] = "parked"]
            /\ UNCHANGED recent
       ELSE Passes(a)
    /\ UNCHANGED engineVars

(* The model answers, with a tool call or with text. *)
ModelAnswers(a, next) ==
    /\ phase[a] = "model"
    /\ next \in {"tool", "idle"}
    /\ phase' = [phase EXCEPT ![a] = next]
    /\ recent' = recent \ {a}
    /\ UNCHANGED <<engineVars, gate>>

ToolReturns(a) ==
    /\ phase[a] = "tool"
    /\ phase' = [phase EXCEPT ![a] = "idle"]
    /\ UNCHANGED <<engineVars, gate, recent>>

(* The signal of this one request is aborted; the ask lives on (the driver   *)
(* redrives the turn).                                                       *)
AbortRequest(a) ==
    /\ run = "running"
    /\ phase[a] \in {"parked", "model"}
    /\ MoveGate(AbortParked(gate, a), Only(a, "idle"))
    /\ UNCHANGED engineVars

(* handleSubmitAttempted.  submit_result is a tool: the actor is in one. *)
Submit(a, k, valid) ==
    /\ Runs(a, k)
    /\ phase[a] = "tool"
    /\ k \in Typed
    /\ \/ /\ valid
          /\ Settle(a, k, "ok")
          /\ UNCHANGED <<repairs, nudges>>
       \/ /\ ~valid
          /\ repairs[k] > 0
          /\ repairs' = [repairs EXCEPT ![k] = @ - 1]
          /\ Record(k, "repairing")
          /\ UNCHANGED <<run, maxConcurrency, seq, nextSeq, queue, current, activeAsks,
                         session, nudges, row, promise, stage, gate, phase, recent>>
       \/ /\ ~valid
          /\ repairs[k] = 0
          /\ Settle(a, k, "failed")
          /\ UNCHANGED <<repairs, nudges>>

(* handleTurnEnded: the turn is over and nothing was accepted. *)
TurnEnded(a, k) ==
    /\ Runs(a, k)
    /\ phase[a] = "idle"
    /\ \/ /\ k \notin Typed
          /\ Settle(a, k, "ok")
          /\ UNCHANGED <<repairs, nudges>>
       \/ /\ k \in Typed
          /\ nudges[k] > 0
          /\ nudges' = [nudges EXCEPT ![k] = @ - 1]
          /\ Record(k, "nudged")
          /\ UNCHANGED <<run, maxConcurrency, seq, nextSeq, queue, current, activeAsks,
                         session, repairs, row, promise, stage, gate, phase, recent>>
       \/ /\ k \in Typed
          /\ nudges[k] = 0
          /\ Settle(a, k, "failed")
          /\ UNCHANGED <<repairs, nudges>>

(* askFailed: the turn was rejected for good. *)
AskFailed(a, k) ==
    /\ Runs(a, k)
    /\ phase[a] = "idle"
    /\ Settle(a, k, "failed")
    /\ UNCHANGED <<repairs, nudges>>

-----------------------------------------------------------------------------
(* Mutant of Retune: the queues are not scanned again. *)
RetuneQuietly(limit) ==
    /\ run = "running"
    /\ limit # maxConcurrency
    /\ maxConcurrency' = limit
    /\ MoveGate(SetLimit(gate, limit), <<>>)
    /\ UNCHANGED <<run, seq, nextSeq, queue, current, activeAsks, stage, session,
                   repairs, nudges, row, promise, trace>>

(* WorkflowRunControl.setMaxConcurrency: the engine first (and a rescan of   *)
(* the queues when the bound was raised), then the gate.                     *)
Retune(limit) ==
    /\ run = "running"
    /\ limit # maxConcurrency
    /\ maxConcurrency' = limit
    /\ IF limit > maxConcurrency
       THEN PumpAll(queue, current, activeAsks, limit, stage)
       ELSE UNCHANGED <<queue, current, activeAsks, stage, session>>
    /\ LET g == SetLimit(gate, limit)
       IN  /\ gate' = g
           /\ phase' = [a \in Actors |-> IF a \in Seated(gate, g) THEN "model" ELSE phase[a]]
           /\ recent' = Seated(gate, g)
    /\ UNCHANGED <<run, seq, nextSeq, repairs, nudges, row, promise, trace>>

(* settleCompleted, settleStopped, settleFailed and abortInFlight: every     *)
(* live ask is cancelled (a parked request is aborted back to work), its     *)
(* promise rejected; its journal row stays "running" for a later resume.     *)
(* Unless the run errored a node-settled event is recorded too, and the gate *)
(* sees it: with all asks gone nobody works.                                 *)
LiveAsks == {k \in Asks : stage[k] \in {"queued", "dispatching", "started"}}

Finish(status) ==
    /\ run = "running"
    /\ run' = status
    /\ stage' = [k \in Asks |-> IF k \in LiveAsks THEN "settled" ELSE stage[k]]
    /\ promise' = [k \in Asks |-> IF k \in LiveAsks THEN "cancelled" ELSE promise[k]]
    /\ trace' = [k \in Asks |-> IF k \in LiveAsks /\ status # "errored"
                                THEN Append(trace[k], "cancelled") ELSE trace[k]]
    /\ gate' = [gate EXCEPT !.parked  = <<>>,
                            !.working = IF status = "errored"
                                        THEN @ \cup ParkedActors(gate) ELSE {}]
    /\ activeAsks' = 0
    /\ phase' = [a \in Actors |-> "none"]
    /\ recent' = {}
    /\ UNCHANGED <<maxConcurrency, seq, nextSeq, queue, current, session, repairs, nudges, row>>

Next ==
    \/ \E k \in Asks : Ask(k)
    \/ \E a \in Actors :
        \/ \E ok \in BOOLEAN : SessionCreated(a, ok)
        \/ StartAsk(a)
        \/ DispatchFails(a)
        \/ TurnStep(a)
        \/ \E next \in {"tool", "idle"} : ModelAnswers(a, next)
        \/ ToolReturns(a)
        \/ AbortRequest(a)
        \/ \E k \in Asks : \/ \E valid \in BOOLEAN : Submit(a, k, valid)
                           \/ TurnEnded(a, k)
                           \/ AskFailed(a, k)
    \/ \E limit \in Limits : Retune(limit)
    \/ \E status \in {"completed", "stopped", "errored"} : Finish(status)

Spec == Init /\ [][Next]_vars

(* Timers, the model and the tools eventually answer; a turn that keeps      *)
(* coming to its end is eventually over for good.  Nobody has to ask, abort  *)
(* a request, retune or end the run.                                         *)
Fairness ==
    \A a \in Actors :
        /\ WF_vars(\E ok \in BOOLEAN : SessionCreated(a, ok))
        /\ WF_vars(StartAsk(a))
        /\ WF_vars(DispatchFails(a))
        /\ WF_vars(TurnStep(a))
        /\ WF_vars(\E next \in {"tool", "idle"} : ModelAnswers(a, next))
        /\ WF_vars(ToolReturns(a))
        /\ SF_vars(\E k \in Asks : TurnEnded(a, k) \/ AskFailed(a, k))

FairSpec == Spec /\ Fairness

-----------------------------------------------------------------------------
Statuses == {"running", "completed", "stopped", "errored"}

Unsettled(k) == stage[k] \in {"queued", "dispatching", "started"}

\* The actors with a started ask, when c is current and st the stages.
Started(c, st) == {a \in Actors : c[a] # NoAsk /\ st[c[a]] = "started"}

TypeOK ==
    /\ run \in Statuses
    /\ maxConcurrency \in Limits
    /\ gate \in Gates
    /\ stage \in [Asks -> Stages]
    /\ seq \in [Asks -> Nat]
    /\ nextSeq \in [Actors -> Nat]
    /\ queue \in [Actors -> Seq(Asks)]
    /\ current \in [Actors -> Asks \cup {NoAsk}]
    /\ activeAsks \in Nat
    /\ session \in [Actors -> {"none", "creating", "ready", "failed"}]
    /\ repairs \in [Asks -> 0 .. RepairAttempts]
    /\ nudges \in [Asks -> 0 .. NudgeAttempts]
    /\ row \in [Asks -> {"none", "running", "completed", "failed"}]
    /\ promise \in [Asks -> {"none", "pending", "ok", "failed", "cancelled"}]
    /\ trace \in [Asks -> Seq({"queued", "dispatched", "repairing", "nudged",
                               "ok", "failed", "cancelled"})]
    /\ phase \in [Actors -> {"none", "idle", "model", "tool", "parked"}]
    /\ recent \subseteq Actors

\* While the run lives, activeAsks is the number of actors that hold an ask:
\* no settlement path leaks a slot of the run's bound or gives one back twice.
ActiveAsksExact ==
    run = "running" => activeAsks = Cardinality({a \in Actors : current[a] # NoAsk})

\* No capacity is left idle: when an actor is free and has an ask waiting, the
\* run is at its bound (admission, settlement and a raised bound all rescan).
NoIdleSlot ==
    /\ run = "running"
    /\ \E a \in Actors : current[a] = NoAsk /\ queue[a] # <<>>
    => activeAsks >= maxConcurrency

\* A subagent with a started ask is either at work or in line for a seat, never
\* both and never neither, and nobody else is: seats do not leak whatever is
\* aborted, settled or retuned.
SeatsExact ==
    run = "running" =>
        /\ gate.working \cap ParkedActors(gate) = {}
        /\ gate.working \cup ParkedActors(gate) = Started(current, stage)
        /\ Distinct(gate.parked)

\* The third discipline of the gate's header: whoever parks leaves at least as
\* many at work as there are seats, so the line always moves.
SomeoneWorks ==
    gate.parked # <<>> => Cardinality(gate.working) >= gate.limit

\* What lowering the bound is for: of the turn steps sent to the model since
\* the bound last changed, no more than the bound are under way at once.
TurnsWithinLimit == Cardinality(recent) <= gate.limit

\* An actor's asks are started in the order they were admitted, and the next
\* one not before the previous one has settled.
InAdmissionOrder ==
    \A j, k \in Asks :
        /\ ActorOf[j] = ActorOf[k]
        /\ Unsettled(j)
        /\ stage[k] \notin {"unasked", "queued"}
        => seq[k] <= seq[j]

\* The script sees what the journal says: a replay of the rows would hand it
\* the same outcomes, and an ask cancelled with the run is still to be done.
JournalTellsOutcome ==
    \A k \in Asks :
        /\ promise[k] = "ok" <=> row[k] = "completed"
        /\ promise[k] = "failed" <=> row[k] = "failed"
        /\ promise[k] \in {"pending", "cancelled"} <=> row[k] = "running"

\* The scheduler picks no new ask while a subagent stays in line for a seat.
NoPickPastParked ==
    [][(\E a \in Actors : current'[a] # current[a] /\ current'[a] # NoAsk)
        => gate'.parked = <<>>]_vars

\* run-settled is the last event of a run: afterwards nothing is recorded,
\* started or settled, and no promise of the script changes.
QuietAfterSettled ==
    [][run # "running" => UNCHANGED <<run, trace, row, promise, stage, gate>>]_vars

\* Every ask comes to an end, also those parked by a lowered bound: the line
\* for a seat and the queues below the bound never wait for each other.
EveryAskSettles ==
    \A k \in Asks : (promise[k] = "pending") ~> (promise[k] # "pending")
===============================================================================
