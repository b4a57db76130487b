-------------------------- MODULE ConcurrencyGovernor --------------------------
(***************************************************************************)
(* One bucket of the process-wide workflow concurrency governor            *)
(* (bootstrap/src/app/workflow-concurrency-governor.ts): the AIMD          *)
(* controller of a provider key, the per-run queues of requests waiting    *)
(* for admission, the round-robin cursor and the cooldown timer.           *)
(*                                                                         *)
(* An agent is a subagent of a workflow run, or the main agent (its run is *)
(* Observer); it has at most one model request at a time, so the request,  *)
(* its waiter and its ticket all carry the agent's name.                   *)
(*                                                                         *)
(* JavaScript runs drain() to its end before anything else can happen.     *)
(* Here its loop body is one step (DrainGrant) and its exit another        *)
(* (DrainEnd); between the call and the exit "draining" holds and disables *)
(* every other action, so the interleavings are those of the code.         *)
(***************************************************************************)
EXTENDS ConcurrencyController, WaitingLine, FiniteSets

CONSTANTS
    Agents,            \* those who send model requests
    Runs,              \* workflow runs
    Observer,          \* OBSERVER_RUN_ID, the main agent
    RunOf,             \* the run of each agent
    Abortable,         \* agents whose request carries an abort signal
    RetryAfters        \* Retry-After values of the provider (0: none), in ticks

ASSUME GovernorAssumption ==
    /\ IsFiniteSet(Agents)
    /\ Observer \notin Runs
    /\ RunOf \in [Agents -> Runs \cup {Observer}]
    /\ Abortable \subseteq Agents
    /\ RetryAfters \subseteq Nat

VARIABLES
    ctl,               \* Bucket.controller
    req,               \* where each agent's request attempt stands
    queues,            \* Bucket.queues: the waiters of each run
    order,             \* ... and the order in which that Map lists its runs
    lastGrantedRun,    \* the cursor of the rotation
    wake,              \* time left on the cooldown timer (None: not armed)
    draining           \* drain() is running

vars == <<ctl, req, queues, order, lastGrantedRun, wake, draining>>

\* "missed": tryAcquire returned no ticket and the runner is on its way to acquire.
RequestStates == {"idle", "missed", "queued", "inflight"}

NoRun == "no run yet"

InFlight == {a \in Agents : req[a] = "inflight"}

\* The agents a step grants a request to.
Granted == {a \in Agents : req[a] # "inflight" /\ req'[a] = "inflight"}

Queued(r) == {a \in Agents : req[a] = "queued" /\ RunOf[a] = r}

Waiting == UNION {Elements(queues[r]) : r \in Runs}

WaiterCount == Cardinality(Waiting)

Init ==
    /\ ctl = NewController
    /\ req = [a \in Agents |-> "idle"]
    /\ queues = [r \in Runs |-> <<>>]
    /\ order = <<>>
    /\ lastGrantedRun = NoRun
    /\ wake = None
    /\ draining = FALSE

\* grant(): c is the controller before it.
Grant(a, c) ==
    /\ ctl' = Admitted(Observe(c), a)
    /\ req' = [req EXCEPT ![a] = "inflight"]
    /\ lastGrantedRun' = RunOf[a]

\* The opening of drain(): c is the controller the caller leaves behind.
StartDrain(c) ==
    /\ ctl' = Observe(c)
    /\ draining' = TRUE

\* Mutants of ArmedWake: no lower bound on the delay; no timer at all.
ArmedWakeUnclamped(c, n) == IF n = 0 THEN None ELSE c.cooldown - 1

ArmedWakeNever(c, n) == None

\* armCooldownWake(), from the controller and the number of waiters it sees.
ArmedWake(c, n) == IF n = 0 THEN None ELSE c.cooldown

\* Mutant of NextRunWithWaiters: the search begins at the run granted last.
SameRunWithWaiters ==
    LET last == {i \in DOMAIN order : order[i] = lastGrantedRun}
    IN  order[IF last = {} THEN 1 ELSE CHOOSE k \in last : TRUE]

NextRunWithWaiters ==
    LET last == {i \in DOMAIN order : order[i] = lastGrantedRun}
        i    == IF last = {} THEN 0 ELSE CHOOSE k \in last : TRUE
    IN  order[(i % Len(order)) + 1]

-----------------------------------------------------------------------------
(* The fast path tryAdmit: only when nobody waits. *)
TryAdmit(a) ==
    LET c == Observe(ctl) IN
    IF WaiterCount = 0 /\ CanAdmit(c)
    THEN Grant(a, c)
    ELSE /\ ctl' = c
         /\ req' = [req EXCEPT ![a] = "missed"]
         /\ UNCHANGED lastGrantedRun

TryAcquire(a) ==
    /\ ~draining
    /\ req[a] = "idle"
    /\ RunOf[a] # Observer
    /\ TryAdmit(a)
    /\ UNCHANGED <<queues, order, wake, draining>>

\* acquire() of the driver: the fast path once more, then the queue.
Acquire(a) ==
    /\ ~draining
    /\ req[a] = "missed"
    /\ LET r == RunOf[a]
           c == Observe(ctl)
       IN  IF WaiterCount = 0 /\ CanAdmit(c)
           THEN Grant(a, c) /\ UNCHANGED <<queues, order, wake, draining>>
           ELSE /\ req' = [req EXCEPT ![a] = "queued"]
                /\ queues' = [queues EXCEPT ![r] = Append(@, a)]
                /\ order' = IF queues[r] = <<>> THEN Append(order, r) ELSE order
                /\ StartDrain(c)
                /\ UNCHANGED <<lastGrantedRun, wake>>

\* The signal was aborted before acquire got to queue: admit rejects at once.
AbortBeforeQueue(a) ==
    /\ ~draining
    /\ a \in Abortable
    /\ req[a] = "missed"
    /\ IF WaiterCount = 0 /\ CanAdmit(Observe(ctl))
       THEN TryAdmit(a)
       ELSE /\ ctl' = Observe(ctl)
            /\ req' = [req EXCEPT ![a] = "idle"]
            /\ UNCHANGED lastGrantedRun
    /\ UNCHANGED <<queues, order, wake, draining>>

\* Waiter.onAbort: leave the queue, feed the waiter count, re-arm the timer.
Abort(a) ==
    /\ ~draining
    /\ a \in Abortable
    /\ req[a] = "queued"
    /\ LET r == RunOf[a]
           left(i) == Without(queues[r], i)
           n == Cardinality(Waiting \ {a})
       IN  /\ \E i \in DOMAIN queues[r] :
                /\ queues[r][i] = a
                /\ queues' = [queues EXCEPT ![r] = left(i)]
                /\ IF left(i) = <<>>
                   THEN \E k \in DOMAIN order : order[k] = r /\ order' = Without(order, k)
                   ELSE UNCHANGED order
           /\ ctl' = Waiters(ctl, n)
           /\ wake' = ArmedWake(ctl', n)
    /\ req' = [req EXCEPT ![a] = "idle"]
    /\ UNCHANGED <<lastGrantedRun, draining>>

\* One turn of the loop of drain(): feed the waiter count, grant the head of
\* the next run's queue.
DrainGrant ==
    LET c == Waiters(ctl, WaiterCount)
        r == NextRunWithWaiters
        a == Head(queues[r])
    IN  /\ draining
        /\ order # <<>>
        /\ CanAdmit(c)
        /\ queues' = [queues EXCEPT ![r] = Tail(@)]
        /\ IF Tail(queues[r]) = <<>>
           THEN \E k \in DOMAIN order : order[k] = r /\ order' = Without(order, k)
           ELSE UNCHANGED order
        /\ Grant(a, c)
        /\ UNCHANGED <<wake, draining>>

\* The exit of drain(): the waiters left, and the timer for their cooldown.
DrainEnd ==
    LET c == Waiters(ctl, WaiterCount) IN
    /\ draining
    /\ order = <<>> \/ ~CanAdmit(c)
    /\ ctl' = c
    /\ wake' = ArmedWake(c, WaiterCount)
    /\ draining' = FALSE
    /\ UNCHANGED <<req, queues, order, lastGrantedRun>>

\* Mutant of Settle: it may be called again for a ticket already settled.
SettleAgain(a, signalled) ==
    /\ ~draining
    /\ req[a] \in {"inflight", "idle"}
    /\ req' = [req EXCEPT ![a] = "idle"]
    /\ StartDrain(signalled)
    /\ UNCHANGED <<queues, order, lastGrantedRun, wake>>

\* settle() of a ticket: its one terminal signal, then drain().
Settle(a, signalled) ==
    /\ ~draining
    /\ req[a] = "inflight"
    /\ req' = [req EXCEPT ![a] = "idle"]
    /\ StartDrain(signalled)
    /\ UNCHANGED <<queues, order, lastGrantedRun, wake>>

Complete(a) == Settle(a, Succeeded(ctl, a))

Throttle(a, ms) == Settle(a, Throttled(ctl, a, ms))

FailTransient(a) == Settle(a, FailedTransient(ctl, a))

Release(a) == Settle(a, Ended(ctl, a))

\* The main agent is admitted at once: no queue, no cooldown, but counted.
ObserverAcquire(a) ==
    /\ ~draining
    /\ req[a] = "idle"
    /\ RunOf[a] = Observer
    /\ Grant(a, Observe(ctl))
    /\ UNCHANGED <<queues, order, wake, draining>>

\* The cooldown timer fires, no earlier than it was set for.
Wake ==
    /\ ~draining
    /\ wake = 0
    /\ wake' = None
    /\ StartDrain(ctl)
    /\ UNCHANGED <<req, queues, order, lastGrantedRun>>

Tick ==
    /\ ~draining
    /\ ctl' = Elapse(ctl)
    /\ wake' = IF wake > 0 THEN wake - 1 ELSE wake
    /\ UNCHANGED <<req, queues, order, lastGrantedRun, draining>>

Next ==
    \/ \E a \in Agents : \/ TryAcquire(a) \/ Acquire(a)
                         \/ AbortBeforeQueue(a) \/ Abort(a)
                         \/ ObserverAcquire(a)
                         \/ Complete(a) \/ FailTransient(a) \/ Release(a)
                         \/ \E ms \in RetryAfters : Throttle(a, ms)
    \/ DrainGrant \/ DrainEnd \/ Wake \/ Tick

Spec == Init /\ [][Next]_vars

\* The event loop runs every callback that is due and the clock advances: a
\* request attempt ends, time passes, an armed timer fires.  All of these are
\* suspended while drain() runs, hence strong fairness.  Nothing obliges an
\* agent to send a request or a signal to be aborted.
Fairness ==
    /\ WF_vars(DrainGrant) /\ WF_vars(DrainEnd)
    /\ SF_vars(Wake) /\ SF_vars(Tick)
    /\ \A a \in Agents :
        SF_vars(\/ Complete(a) \/ FailTransient(a) \/ Release(a)
                \/ \E ms \in RetryAfters : Throttle(a, ms))

FairSpec == Spec /\ Fairness
-----------------------------------------------------------------------------
TypeOK ==
    /\ ctl \in Controllers(Agents)
    /\ req \in [Agents -> RequestStates]
    /\ queues \in [Runs -> Seq(Agents)]
    /\ order \in Seq(Runs)
    /\ lastGrantedRun \in Runs \cup {Observer, NoRun}
    /\ wake \in Nat \cup {None}
    /\ draining \in BOOLEAN

\* The learned cap never leaves 1..Ceiling and never falls below the level a
\* streak of successes has proved (the comments on succeeded and throttled),
\* whatever order completions, 429s and idle resets arrive in.
CapBounded == ControllerOK(ctl)

\* The controller's counter is the number of tickets that have not been settled:
\* a slot is neither leaked by an aborted waiter nor returned twice, so the
\* idle reset and the gate see the true load.
InFlightCounted == ctl.inFlight = Cardinality(InFlight)

\* A ticket of the current epoch is held by somebody: a settled one is never
\* taken for evidence about the current cap.
EpochOfHolders == ctl.thisEpoch \subseteq InFlight

\* The queues hold exactly the agents that wait, each once and under its own
\* run, and the Map lists exactly the runs with waiters, so that no run is
\* visited for an empty queue, none is forgotten by the rotation, and the main
\* agent never queues.
QueuesExact ==
    /\ \A a \in Agents : req[a] \in {"missed", "queued"} => RunOf[a] \in Runs
    /\ \A r \in Runs : Elements(queues[r]) = Queued(r) /\ Distinct(queues[r])
    /\ Elements(order) = {r \in Runs : Queued(r) # {}} /\ Distinct(order)

\* What the controller was last told about demand is the demand: a stale count
\* would raise the cap for nobody, or keep it down under load.
WaitersFresh == ~draining => ctl.waiters = WaiterCount

\* Outside drain(), a waiter that is kept although a slot is free is kept for
\* a cooldown, and then the timer that will admit it is armed ("the cooldown's
\* end must wake the waiters", header of the source).
NoStrandedWaiter ==
    ~draining /\ Waiting # {} /\ ctl.inFlight < ctl.cap => wake # None

\* Every waiter is eventually admitted (or aborts), whatever the provider says.
EveryWaiterLeaves == \A a \in Agents : req[a] = "queued" ~> req[a] # "queued"
=============================================================================
