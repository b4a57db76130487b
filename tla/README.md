# Dave Desktop: a verification project

TLA+ modules, TLC configurations and TLAPS proofs for the parts of Dave
Desktop where several activities meet: the workflow engine of `dave-cli` (how
model requests are admitted, how asks are scheduled and parked, how a run is
replayed from its journal), the protocol that carries a session over sockets that
break, the supervisor of the server, and the lock that keeps two servers off one
data root.

1. [The system](#1-the-system)
2. [The plan](#2-the-plan)
3. [Modules and code](#3-modules-and-code)
4. [Runs](#4-runs)
5. [Fairness](#5-fairness)
6. [Proofs](#6-proofs)
7. [Where the code and its comments differ](#7-where-the-code-and-its-comments-differ)
8. [Not modelled](#8-not-modelled)

Paths below are relative to `src/`; `cli/` stands for `apps/dave-cli/packages/`.

## 1. The system

### Components

| component | where | state | operations | correct when |
|---|---|---|---|---|
| Adaptive concurrency controller | `cli/dynamic-workflow/src/engine/concurrency.ts` | cap, lastGood, streak, in-flight count, tickets of the current epoch, cooldown, idle clock | admitted, succeeded, throttled, failedTransient, ended, waiters, observe, canAdmit | the cap stays in bounds, load is counted exactly, one verdict per batch, Retry-After kept |
| Workflow concurrency governor | `cli/bootstrap/src/app/workflow-concurrency-governor.ts`, `workflow-driver-concurrency.ts` | per provider key: controller, a queue of waiters per run, rotation cursor, cooldown timer | tryAcquire, acquire, abort, drain, settle, wake, the main agent's admission | no slot leaked, no waiter lost or starved, runs rotate |
| Seat gate of a run | `cli/bootstrap/src/app/workflow-seat-gate.ts` | limit, working actors, FIFO of parked ones | acquireSeat, setLimit, askStarted, askSettled, abort of a parked request | seats exact, a lowered bound is honoured, somebody always works |
| Ask scheduler and run settlement | `cli/dynamic-workflow/src/engine/scheduler*.ts`, `engine-settlement.ts`, `engine.ts` | per actor: queue, current ask, session; per run: active asks, bound; per ask: row, events, repair and nudge budgets | admitAsk, pumpAll, dispatch, settleOk/settleFailed, handleSubmitAttempted, handleTurnEnded, setMaxConcurrency, the three ends of a run | no slot leaked or idle, admission order per actor, journal and script agree |
| Workflow driver | `cli/bootstrap/src/app/workflow-driver*.ts` | turns, accepted/cancelled flags | turn steps, redrive of aborted requests, rejected turns | every ask gets an answer |
| Run journal and settle-order gate | `cli/dynamic-workflow/src/engine/replay-order.ts`, `engine-report.ts`, `cli/adapters/.../dwf-journal.ts` | rows, events, the recovered order, parked answers | putNode, appendEvent, recoverSettleOrder, hold, pump, flush | a deterministic script replays without mismatch, over any number of lives |
| Sandbox host bridge | `cli/dynamic-workflow-runtime/src/harness.ts`, `child-source.ts` | two pipes, a microtask queue | deliver, ask, report | answers and calls keep their order |
| Server data-root lock | `packages/dave-server-cli/src/runtime/lock.ts` | lock file, recovery gate, quarantine files | acquire, release, claimStalePath | one server per data root, stale files never lock everybody out |
| Import cache and amend-resume | `cli/dynamic-workflow/src/engine/imported-cache*.ts` | which answers of an earlier run may be taken over | lookup, close | no answer is taken over past the first difference |
| Artifacts and reports | `cli/dynamic-workflow/src/engine/engine-artifacts*.ts` | versions derived from rows | publish | caps and versions agree with the rows |
| Workflow compiler | `cli/dynamic-workflow/src/{compiler,analysis,lowering}` | none | compile, analyse, lower | pure transformations |
| Runtime command queue and steering | `cli/core/src/runtime/` | queued messages, the running turn | queue, steer, stop, resume | a message is delivered once |
| Protocol v4 inbox and topics | `cli/bootstrap/src/dave-protocol-v4/`, `packages/shared/src/dave-protocol-v4/` | command ledger, subscriptions, split frames | accept, retry, reassemble | a command runs once across reconnects |
| RPC persistent protocol | `packages/rpc/src/persistent-protocol.ts`, `remote.ts` | per end: the frames kept until acknowledged, the two numbers, saturated, overflowed, closed; the client's reconnection loops | send, readMessages, processAck, replaceSocket, abandonSession, the keep-alive and grace timers, the loop | nothing lost, nothing handed over out of order, a sender told to stop is told to go on |
| RPC channels | `packages/rpc/src/channel*.ts` | pending requests | call, cancel, dispose | one answer per request |
| Server supervisor | `packages/dave-server-cli/src/supervisor/`, `runtime/releaseManager.ts`, `runtime/startupRecovery.ts` | the core process, the operation under way, crash budget; on disk the current and the pending release and the update transaction | start, stop, restart, applyUpdate with its rollback, recovery after a crash | one core, under the lock; a release that never got ready is not left as the current one |
| Remote deploy lock | `packages/server/src/remote/remoteDeployLock.ts` | a lock on a remote host | acquire, refresh, release | one deployment at a time |
| Desktop automation scheduler | `packages/desktop/src/scheduler/`, `main/desktopCronScheduler.ts` | due automations, claims | claim, run, release | a due automation runs once |
| Session store | `cli/adapters/src/storage/session-store/` | SQLite tables | repositories | the two statements replay depends on are in `WorkflowReplay` |
| Model adapters | `cli/adapters/src/model/` | an attempt and its terminal signal | admission, streaming | one terminal signal per attempt |
| User interfaces | `packages/{ui,web,desktop}` | presentation | | |

### How they interact

A workflow script runs in a sandbox and talks to the engine over two pipes.
Each `ask` becomes a journal row and is queued for its actor by the **ask
scheduler**, which runs at most `maxConcurrency` of them. An actor's turn is a
sequence of model requests; each passes the run's **seat gate** (which parks it
when the bound has been lowered under it) and then the process-wide
**governor** (which queues it while the provider key is at its learned cap or
in a cooldown). What the provider answers feeds the **controller**, whose
change of the cap lets queued requests of any run go. When an ask settles, the
**journal** gets its row and its event, the seat gate hands on the seat and the
scheduler looks at all queues again. When the process dies or the user stops
the run, the next life starts the same script over the same journal; the
**settle-order gate** lets recorded answers go in the order in which they were
first delivered, because that order decides how the script's later calls are
numbered.

Desktop and web clients reach a server through the **persistent protocol**, whose
client end connects again when its socket is lost and whose two ends replay what
the other has not acknowledged. The server's core runs under the **supervisor**,
which holds the **data-root lock** from before the core starts until after it has
stopped, and which replaces the release the core runs.

### What is hard

* JavaScript is single-threaded, so the interleavings are those of callbacks:
  an abort between two drains, a session that comes back after the run has
  ended, a bound lowered between the choice of an ask and its start.
* State is updated lazily: the idle reset of the controller runs inside other
  signals; the cooldown timer is cancelled and armed again by whoever comes by.
* Rotation over a map whose keys leave and come back.
* Two writes (row, event) that a crash may separate, and a recovered order
  built from the events of several lives, some of which were stopped.
* Sockets that break with frames on their way, a replay that may cross an
  acknowledgement, several reconnection loops over one session.
* An update in a dozen awaited steps, with the core's exit, a timer or the death
  of the supervisor between any two of them, and three files that must never tell
  a release that did not start.
* Lock files, where each call to the file system is a step of its own and any
  process may die between two of them.

`PROJECT.json` lists each of these hazards at its line, with the properties
that would catch it.

## 2. The plan

Done, in this order:

1. `WaitingLine`, `ConcurrencyController`, `ConcurrencyGovernor`: the component
   every model request of the process depends on; then its history variants
   `GovernorVerdicts` and `GovernorRotation`.
2. `SeatGate`, and `AskScheduler`, which composes it with the scheduler, the
   settlement of a run and the turns of the driver.
3. `WorkflowReplay`: journal, settle-order gate and sandbox over several lives.
4. `DataRootLock`.
5. `PersistentProtocol`, and `ReliablePipe`, the abstract specification it
   implements in each direction.
6. `ServerSupervisor`.
7. Proofs: the inductive invariants of the governor, the scheduler, the lock, the
   protocol and the supervisor; then all safety properties of the scheduler, the
   protocol's refinement, and that a replay finds the calls where they are recorded;
   then the bound on the rotation, the cut per batch, the byte counter, the number
   of rows and the lone process. Every safety property of every run is proved.

Next, in this order; each would take the place of a run that documents a
divergence, once the code has changed:

| module | what | abstract specification | runs |
|---|---|---|---|
| `ReplayAdmission` | the hold rule of replayed asks per actor (`drainActorAdmission`) and the import cache | "a call of the amended run gets the old answer exactly up to the first difference" | 2 lives, 2 actors |
| `RuntimeCommandQueue` | queued and steered messages against compaction, stop and resume | a set of messages, each delivered at most once | 3 messages |
| `CommandInbox` | commands across reconnects (on `PersistentProtocol`) and restarts | exactly-once execution | 2 commands, 2 restarts |
| `RemoteDeployLock`, `AutomationClaims` | locks with expiry | mutual exclusion | 2 hosts |

Theorems still to prove: that `applyUpdate` ends with one of the two releases it
began with, as an abstract specification of the supervisor's files; an abstract
governor (a set of tickets under a cap) that `ConcurrencyGovernor` implements.

## 3. Modules and code

`PROJECT.json` maps each definition to its lines.

**WaitingLine** has what the other modules need of queues: `Elements`,
`Distinct`, `Without` (leave the line by position), `Filtered`, `IndexOf`.

**ConcurrencyController** is the AIMD state machine as a record and one
operator per method. Time is a distance: `cooldown` is what is left of
`cooldownUntil - now`, `sinceRequest` the time since `lastRequestAt`, stopped
at the idle window since nothing tells later times apart; `Elapse` moves the
clock. An epoch is represented by its tickets: `thisEpoch` holds the requests
admitted since the last cut, which is all `epoch !== this.epoch` distinguishes.

**ConcurrencyGovernor** is one bucket. `req[a]` says where agent `a`'s request
stands: `idle`, `missed` (tryAcquire gave nothing, acquire is about to be
called), `queued`, `inflight`. `queues` and `order` are the JavaScript `Map` of
queues and its insertion order. The loop of `drain()` is one step per grant
(`DrainGrant`) and one for its exit (`DrainEnd`); `draining` keeps everything
else from happening in between, as the event loop does. `publish` and `release`
are `Complete`, `Throttle`, `FailTransient` and `Release`; the `settled` flag of
a ticket is the guard of `Settle`. The main agent is an agent of the run
`Observer`.

**GovernorVerdicts** adds what the provider's answers are evidence of (`sawCut`,
`retryAfter`), **GovernorRotation** how often a waiting run is bypassed
(`bypassed`). Both constrain nothing: they conjoin history variables to the
governor's actions.

**SeatGate** is a record `[limit, working, parked]` with one operator per
method. The table from ask instances to actors is left out, callers name the
actor.

**AskScheduler** composes the scheduler with the gate. `Ask`, `StartAsk`,
`DispatchFails`, `Submit`, `TurnEnded`, `AskFailed`, `Retune` and `Finish` are
the handlers, each with the `pumpAll` it ends in; `stage`, `current`, `queue`,
`activeAsks`, `session`, `repairs`, `nudges` are the fields, `row` and `trace`
what the journal has, `promise` what the script got. `phase` is the driver's
side of an actor: `idle` between steps, `model` for a request that passed the
gate, `parked`, `tool`. The await of the session in `dispatch` splits it into
`PumpAll` (the slot is taken) and `StartAsk`/`DispatchFails` with the checks the
code makes afterwards.

**WorkflowReplay** is one run over several lives. Persistent: `asks` (the rows,
by site and ordinal), `reports`, `log` (first `node-settled` events). Volatile:
the gate (`order`, `cursor`, `parked`, `due`), `live` asks, the two pipes
(`calls`, `answers`) and the microtask queue of the sandbox. The script is the
worst case for numbering: every branch of a fan-out calls the same site, so a
call's ordinal depends on who was answered first. A call's hash is the branch
that made it. `torn` is a settlement whose row is written and whose event is
not. `happened` remembers which surprises a behaviour contained.

**DataRootLock** has one step per call to the file system. A file stands for
the record its creator will write into it; `blank` are those without. `own[p]`
are the tokens a process holds, `removal[p]` what it is about to remove
(`claimStalePath`, `releaseOwnedPath`) because of what it read. Files that
nobody refers to are used again, so the state space is finite without a bound
on the number of acquisitions. Renames over an existing file succeed, as they
do on POSIX. `happened` records the two circumstances the algorithm does not
cope with.

**ReliablePipe** is what one direction of a session promises: frames are numbered
as they are sent and got in that order; a pipe that is not given up delivers all.

**PersistentProtocol** is both ends of the class, the sockets between them and the
client's reconnection. `socket[p]` is the socket an end is bound to, `up` the ones
that are not broken, `wire[s][p]` what is on its way; a break keeps any beginning
of it. `unack`, `outId`, `inAck`, `saturated`, `overflowed` are the fields of the
same (longer) names. `Receive` is `readMessages` for one frame with the
acknowledgement it carries, `Send` the whole of `send` with the limits, `Replace`
the whole of `replaceSocket` with its replay. `loop` counts the attempts of each
`reconnectLoop`, of which several may run. The server's acceptance of a socket
(`Accept`) is outside the repository and marked external. `top` is a history
variable: the highest number handed to `onMessage`.

**ServerSupervisor** has two threads of control that go from await to await:
`boot`, the start of the command line, and `op`, the one lifecycle operation that
`lifecycleOperation` lets through. `pc` says at which await each stands. The three
files (`current`, `pending`, `marker`) survive `Exit`; everything else does not.
`runs[g]` is the image a core process runs, `core` the one the supervisor knows of;
`CoreReady`, `CoreExits`, `Relaunch` are the handlers and the crash timer, which
come at any await. The lock is one variable here; how it is taken is
`DataRootLock`. A launch may throw (`LaunchThrows`), and each caller does then what
the code does: `start` ends in its catch (`OpenThrows`, `StartFails`, `GiveUp`), an
update rolls back, the rollback itself ends where it stands, and the crash timer,
which nobody catches for, ends the process (`Die`). `Exit` leaves any of the cores
behind as an `Orphan`, which shuts down in its own time. Two variables are history:
`proven`, the images that were ready once, and `happened`, which `Surprises` the
supervisor has met: a request before `start()` was done (`"early"`), an update over
one left open (`"again"`), a `pending.json` that read otherwise the second time
(`"prepared"`), and a launch that threw last (`"thrown"`). No guard depends on
`happened`; the properties that do not survive a surprise name it.

**MC\*** modules give the constants values; **\*Lemmas** and **\*Proofs** hold
the proofs. Operators named in a comment as mutants are faulty variants of the
definition that follows them: with one of them in its place, the property of
the run it belongs to fails.

## 4. Runs

| run | instance | checks | states |
|---|---|---|---|
| `MCVerdicts` | 3 subagents of 2 runs and the main agent, ceiling 3, Retry-After 0 or 2, idle window 2, everybody may abort | `TypeOK CapBounded InFlightCounted QueuesExact WaitersFresh OneVerdictPerBatch` | 496 106 |
| `MCRotation` | 2 + 1 + 1 subagents of 3 runs, ceiling 2, no aborts | `RunsRotate EveryWaiterLeaves` | 23 559 |
| `MCScheduler` | 3 actors, 4 asks (one actor asked twice, one ask typed), bound in 1..3 | `TypeOK ActiveAsksExact NoIdleSlot SeatsExact SomeoneWorks TurnsWithinLimit InAdmissionOrder JournalTellsOutcome NoPickPastParked QuietAfterSettled` | 161 000 |
| `MCSchedulerLive` | 2 actors, 3 asks, bound in 1..2 | `EveryAskSettles` | 10 568 |
| `MCReplay` | 3 branches, 2 sites and a report each, 3 lives, crashes and stops | `TypeOK ReplayFaithful CallsFollowSettles JournalOnlyGrows GateNeverSticks` | 655 252 |
| `MCLock` | 2 processes that start, stop and die, files of a dead third | `TypeOK HolderHasLock NothingLeft LoneSucceeds` | 523 797 |
| `MCProtocol` | 2 frames one way and 1 the other, of 2 sizes, 3 sockets of which 2 may break, 1 failed connection, 1 loop | `TypeOK NothingLost NoGap MarksAgree ReliableBothWays SaturationEnds` | 347 864 |
| `MCSupervisor` | 2 releases beside the bundled one, 2 core processes, a budget of 1 crash, deaths, launches that throw and file errors anywhere, one surprise or one orphan, another server | `TypeOK OneCoreUnderLock StateTellsCore RunsCurrent CurrentProven OperationsEnd` | 368 904 |
| `MCVerdictsStranded`, `MCVerdictsRetryAfter`, `MCReplayStop`, `MCLockEarly` | as above or smaller | one property each, which fails: section 7 | |

Why these bounds are enough to be interesting. *Governor*: ceiling 3 lets the
cap be cut (3 to 2 to 1) and recover; two runs make the rotation and the removal
of a run from the map happen; two waiters of one run make the middle of a queue.
In `MCRotation` there are twice as many subagents as slots, so the runs leave the
map and come back while one waits: it is passed over up to three times, of the four
that `RunsRotate` allows for two other runs; with a fifth subagent TLC meets the four
(305 911 states), and none more. *Scheduler*: with three
actors and bound 1 two can be parked, so the order of the line matters; an actor
with two asks has a queue; one repair and one nudge reach both ends of each
budget. *Replay*: a call's number depends on an earlier delivery from the second
site on; two lives are needed to replay and a third to replay what a replaying
life recorded; three branches give the gate something to hold back behind
something held back. *Lock*: a dead process's files, one process clearing them
away and one in its way; two rounds of acquire's loop are what a lone process
needs. *Protocol*: with the marks at 1 and 0 and the buffer's limit at 2 a frame of
size 1 fits, two saturate, and one of size 3 ends the session; two breaks let a
replay be cut and replayed, and a frame sent during a replay follow it; a loop of
one attempt uses its attempts up. *Supervisor*: a second process is what a lost or
a doubled core would be, and two releases let an update follow another and
`pending.json` change under one. `OneSurprise` keeps the surprises apart, and from an
orphan (launches that throw come on top of each), and after an early request
`EarlyIsLast` lets nothing more be asked; with one release and neither of the two
bounds TLC finds no error either (555 418 states), and the theorems know no such
bounds. Bounds on
counters (`MaxLives`, `Attempts`, `BypassBound`, `MaxSent`, `MaxSockets`, `MaxFails`)
are named constants. `Tokens` is none: `TypeOK` of `DataRootLock` says that a
process never runs out of them, since there are more than a state can know.

Deadlock is checked in the governor's runs, where time always passes, and in the
supervisor's. In the others it is off because they do stop: a run settles, the
lives are used up, all processes die, the bounded frames have been sent.

`RunsRotate` is checked, and proved, without aborts and with the main agent idle.
Otherwise it fails: section 7.

## 5. Fairness

*Governor* (`FairSpec`): `drain()` runs to its end; a request in flight
eventually ends in some way; the clock moves and an armed timer fires. The last
three are strongly fair because `draining` disables them again and again. No
agent has to ask, nobody has to abort, and the provider may answer with 429
forever.

*Scheduler*: sessions are created or fail, the model answers, tools return, and
a turn that comes to its end again and again is eventually over (`SF`: between
two ends of turns the actor is busy, and the driver's retries and nudges are
bounded). Nothing obliges the user to raise the bound or the script to ask.

*Replay*: the pipes, the gate's microtask and the write that completes a
settlement go on. No live ask has to settle: `GateNeverSticks` must not depend
on it.

*Protocol* (`PersistentProtocol!Fairness`): a frame on its way through a working
socket is read, the keep-alive timer fires, the event of a closed socket comes, an
attempt of a loop succeeds or fails, and the server accepts the connection that was
made. Sockets may break whenever they like, up to the bound, and the grace timer
need not fire. `ReliablePipe!PipeSpec` then has weak fairness of `Get` while the
session is up, and `MCProtocol` checks that the protocol implements it.

*Supervisor*: the steps of an operation and of the start (a promise settles, a
timeout fires, a file is written or refused) go on. A core need never get ready nor
exit by itself, and nobody has to ask for anything.

`DataRootLock` states no liveness; that a process gets the lock is
`LoneSucceeds`, a safety property with a bound on the rounds.

## 6. Proofs

All proofs are for every value of the constants, from the assumptions the
modules name (`ControllerAssumption`, `GovernorAssumption`, `ActorsAssumption`,
`SchedulerAssumption`, `ReplayAssumption`, `LockAssumption`, `ProtocolAssumption`,
`SupervisorAssumption`).

**ConcurrencyGovernorProofs.** The inductive invariant `IInv` is the
conjunction of `LoadInv`, `QueueInv`, `WaitersFresh` and the types of the
remaining variables. `LoadInv` joins the controller's bounds (`Sound`, from which
`CapBounded` follows), `InFlightCounted`, and that the tickets of the current
epoch are held (`EpochOfHolders`): without it a settlement of a ticket not in
flight could not be excluded. `QueueInv` joins `QueuesExact` with the types of the
queues and of their order. One lemma per controller method says it keeps the
controller's bounds; one per action says it keeps the load and the queues.
`CapAlwaysBounded`, `LoadExact`, `QueuesAlwaysExact`, `DemandKnown` (that is
`WaitersFresh`) and `TypeCorrect` follow. From the same invariant, `AdmissionGuarded`
says of every grant to a subagent, by whichever of the three ways: it is below the cap
and outside a cooldown (`AdmittedGrant`: `grant` calls `observe` once more, which can
only raise the cap and end the cooldown), and while anybody waits it is the first of a
run's queue that gets it. This one is proved only, no run checks it.

**GovernorHistoryProofs** is about the history variables. `BatchCutOnce`: a ticket
that saw a cut is not of the current epoch (`CutInv`), because a cut empties the epoch
(`VerdictEndsEpoch`) and only a grant, which forgets what a ticket saw, adds to it
(`EpochGrows`). `BypassBounded` rests on a measure, `Ahead(p, c, l, n)`: twice how many
grants may still go to other runs before the one at place `p` of the map's `l`, with
the cursor at `c`. `RotationInv` says that twice the grants counted plus this measure
never exceed the bound. A grant to another run takes two off it, whether that run
stays in the map or leaves it, which throws the cursor back to the front
(`AheadGrant`); a run that joins adds nothing (`AheadJoin`); and a run that has been
granted, or has just joined, starts below the bound (`AheadAfterTurn`, `AheadAtEnd`).
The measure is quadratic in the number of runs because one that leaves throws the
cursor back in front of those already served. The theorem assumes `OnlyRunsAsk`:
nobody aborts, and the main agent is not among the agents.

**AskSchedulerProofs.** `IInv` joins `TypeOK` and `TurnsWithinLimit` with what
links the parts: the gate is sound (`GateSound`), the actors that passed it
recently are at work in it and in phase `model`, the actors it has parked are in
phase `parked`, and, while the run goes on, `TablesOK`: the asks of queues and of
`current` are unsettled and belong to their actor, `activeAsks` counts the busy
actors, the gate's engaged actors are those that started. `TurnsWithinLimit`
alone is not inductive: that a working actor may pass only while at most `limit`
work is what the gate's decision gives, and that those who passed keep working
until they leave is the link to the gate's set. The lemmas the module begins with
describe the gate's operators, `PumpStep` and `SettleSound` the two things every
handler ends in. `TypeCorrect`, `SlotsExact`, `SeatsAlwaysExact`,
`SomeoneAlwaysWorks` and `BoundHonoured` follow.

Its second part has the scheduler's other safety properties, so that all of
them are proved. `StepShapes` sorts the steps by what they do to the tables; `OInv`
adds to `IInv` that queues stand in admission order, that every queued ask stands in
its actor's queue and every dispatched one is its actor's current ask (`OrderOK`),
that numbers stay below the next one (`NumbersOK`), and that the gate's limit is the
engine's bound. `PumpEffect` says what `pumpAll` moves, `PumpInOrder` that the order
survives it, `PumpLeavesNoneIdle` that whom it passes over found the run full: of
the actors passed over, the first in registration order (it exists because the sets
of actors before one are finite, hence well-founded) has only picked ones before it.
`PumpPick` counts: with somebody parked at least `limit` work, all of them hold an
ask, and a pick needs fewer than that. `StartedInOrder`, `NeverIdle`,
`ParkedNotOvertaken`, `QuietOnceSettled` and `JournalTold` follow.

**WorkflowReplayProofs.** `Typed` alone gives `JournalKept`, whatever happens. The rest
is about behaviours in which only crashes between two steps happened (`happened = {}`)
and scripts whose branches await to one depth (`HopsAlike`); section 7 says what becomes
of the others. The idea is that the journal determines an order of calls, `Arrivals`:
those the script begins with, then for every settlement of the log the call that follows
it. The invariant `Faithful(K)` says that the log has the settled rows, each once
(`SettlesLogged`), that the rows are the first `K` arrivals, those of a site in their
order (`Recorded`), and that a running life, having taken `N` calls and let `r`
settlements go, is on its way through the same order (`Replaying`): ordinals count the
first `N` arrivals (`Numbered`); the calls in the pipe, then what the microtasks make,
then what the answers lead to, are the arrivals after these, in a row (`PipesCarry`);
what the gate has let go, what is due and what it still holds are consecutive pieces of
the log (`AtGate`); and live asks are unsettled (`AtWork`). Neither
`ReplayFaithful` nor `CallsFollowSettles` is inductive without it: that the next call
finds its own row rests on what is in the pipes, and that on what the gate let go
before. Microtasks need a phase of their own (`InTurn`), since each turn puts the first
of them at the end with a hop less: that is where depths that differ would break
the order. `NextIsRecorded` and `NextIsNew` say that the next call hits its row
or makes the next one, `HoldParks` and `HoldKeepsGate` that an answer is held exactly until
its turn, `WholeLogRecovered` that the next life gets the whole log as its order; one
lemma per action, ending in `Keeps`, puts them together. `DeterministicReplay` and
`CallsFollow` follow, for any branches, sites, lives and hops that are alike; the
run has three branches.

`JournalBounded` (`TypeOK`) needs none of that and holds whatever happens, also after
stops and for hops that differ: that a site has at most as many rows as there are
branches. `Bounded` says that a branch is in one place at a time (`OnePlace`), be it
a call in the pipe, an answer there or among the microtasks, what the gate holds or has
let go, an ask under way or a torn settlement; that it has not been, in this life, at
the site it leads to (`NotThereYet`); and so that no site has two rows of one branch
(`OncePerSite`), which bounds the rows. One lemma per place a branch may move to.

**DataRootLockProofs.** `IInv` says nothing once `happened` is not empty, and
`Good` before: a file is at one path and its owner's token says where
(`InPlace`); the tokens fit the step (`Stage`), and so does what a process is
about to remove: its own gate, its own lock, or, within the gate, a lock file
that is nobody's own (`ClearsLock`); a gate that exists belongs to a living
process (`GateOwned`); a living process's lock file is its own or has no record
(`LockLeft`). `HolderHasLock` is not inductive without all of them: a lock's file
is removed by its owner or from within the gate, which finds it nobody's own
there and, the gate being one process's, still does when it renames. The two
circumstances come in at one leaf each: an early read would let the gate take a
lock whose record is being written for nobody's own, and a gate left behind would
let two processes in. One lemma per action, and `OtherStays` for the processes
that do not act. `HolderAlwaysHasLock`, `HoldersAlone` and `NeverLeft` follow, for
any number of processes; the runs have two. From `LockAssumption`.

The second part excludes nothing that may happen. `Tokened` says which tokens a
process has at each step and after each removal (`HasTokens`, `Removes`); one lemma
per action, most of them by way of `GoesOn` or `RemovalBegins`. That there is a file
name left (`FreshExists`) is the pigeonhole principle: a process's files are known
from `Cardinality(Procs) + 2` paths, as many removals at most and two tokens, which is
what `LockAssumption` asks of `Tokens`. `TokensRight` (`TypeOK`) follows. `Undisturbed` says
where the only process alive has got to (`GetsThere`): the files at the shared
paths are not its own, so none of them has a living holder (`NobodyHolds`); it clears
a left gate in its first round and a left lock within its gate, and finds there what it
read. `LoneAlwaysSucceeds` follows; it needs the two rounds the run has, and the code
has a hundred.

**PersistentProtocolProofs.** `NothingLost` is inductive only with what makes a
replay complete: the frames kept are the last ones sent, in a row (`Rows`); no frame
acknowledges more than was received (`AcksSound`); the socket an end writes to, while it
works, carries whatever is kept and not yet received (`OnItsWay`); sockets not yet used are empty
(`Unused`); and on every wire a regular frame is at most one ahead of what was
received before it (`InOrder`, which is `NoGap`). `WriteKeeps`, `ReplaceKeeps`,
`BreakKeeps` and `ReceiveKeeps` are the four ways queues and wires change.
`TypeCorrect`, `NoFrameLost` and `NoFrameSkipped` follow, and, from the same
invariant, `MarksAlwaysAgree`: the counter `unackBytes` is the sum of the sizes kept.
A sum over a sequence is a recursion, out of the provers' reach, so `Bytes` is the
number of the cells `<<i, k>>`, `k` up to the size of frame `i`; that it splits and grows
as sums do (`BytesSplit`, `BytesGrow`) is then about finite sets. And `BothWaysPipes`: every step is a step or a stutter of `ReliablePipe` in
both directions. That a pipe also delivers (its fairness) is `MCProtocol`'s.

**ServerSupervisorProofs.** `IInv` says that no core runs but the known one
(`OneCore`), that from the launch of a core to the end of the stop that follows the
control server is there and keeps the lock (`ControlKeepsLock`), and in which states
each await stands (`Places`): this is what keeps a crash timer, a second start or
the rollback from launching beside a core. Only its types (`TInv`, from which
`TypeCorrect` follows) survive an early request, so the inductive invariant is
`LockInv`: the types, and the rest as long as no request was early. An orphan, an
update over one left open, a `pending.json` that changed and a launch that threw do
not disturb it; `NeverTwoCores` and `StateTruthful` follow. `DInv` follows the three
files through an update and its rollback (`FilesSwitched`) and through recovery
(`FilesRead`); it holds as long as the supervisor is `Undisturbed` (`FilesInv`), and
`NoUnprovenRelease` and `RunsWhatFilesSay` follow. Since only the note of a throw is
ever taken back from `happened` (`Remembered`), a condition on it at the end of a
step held at its beginning. The conditions are in the properties, no theorem assumes
anything of the constants beyond `SupervisorAssumption`; each of them says where the
code relies on more than it checks: section 7.

Only model-checked: the liveness properties, which are out of the prover's reach:
`EveryWaiterLeaves`, `EveryAskSettles`, `GateNeverSticks`, `SaturationEnds`,
`OperationsEnd`, and of `ReliableBothWays` that a pipe delivers.

## 7. Where the code and its comments differ

Each of the first four has a run that shows it and an entry under `findings`.

* **A stranded waiter** (`MCVerdictsStranded`). An abort feeds the new waiter
  count to the controller; if that triggers the idle reset, the cooldown is gone,
  `armCooldownWake` cancels the timer and arms none, and nothing drains. Who
  still waits stays there until another request comes along.
* **A forgotten Retry-After** (`MCVerdictsRetryAfter`). The only request outlives
  the idle window and ends with a Retry-After: `throttled` sets the cooldown, and
  the `observe` of the drain that follows resets it.
* **A stop reorders the next replay** (`MCReplayStop`). The cancelled
  `node-settled` events count as first settlements when the instance really
  settles in a later life.
* **Two holders of the server lock** (`MCLockEarly`). A lock file read before its
  record is written looks stale, and two empty files compare equal.

Seen while modelling, without a run of their own. Of the supervisor, the first
three are what the properties' conditions on `happened` leave out: drop the
condition, and TLC shows the behaviour in `MCSupervisor`.

* `"early"`: the control server answers before `start()` has finished with it
  (`chmod` is awaited, `ipc/controlServer.ts:33`). A restart requested then stops a
  core that is not there and gives the lock back, and `start()` launches one all the
  same: `OneCoreUnderLock`, `StateTellsCore` and `RunsCurrent` fail
  (`packages/dave-server-cli/src/supervisor/supervisor.ts:102`, `:202`).
* `"again"`: `applyUpdate` (`supervisor.ts:266`) does not look at a transaction left
  open. An update requested after a restore that failed writes its own release over
  it, so the release that last worked is forgotten and `CurrentProven` fails, though
  the comment at `supervisor.ts:299` counts on it.
* `"prepared"`: a release prepared in the middle of an update is applied instead of
  the one that was read (`supervisor.ts:279`, `runtime/releaseManager.ts:131`), and
  `RunsCurrent` and `CurrentProven` fail.
* Orphans: the lock of a dead supervisor is taken by the next one while the old core
  still closes its server and disposes of its services (`server-core/core.ts:92`), so
  two cores are at the data root for a while. `OneCoreUnderLock` speaks of cores whose
  supervisor lives; its comment says so.
* A launch that throws. The state is `starting` before `launchCore` is called
  (`supervisor.ts:104`, `:280`, `:315`, `:391`), and `fork` and the wiring of the
  release may throw. In `start()` and in an update the state is `starting` without a
  core until the catch has dealt with it; in the rollback (`:315`, `:316`) nothing
  does, and the supervisor stays `starting` for good: `start()` would return at once,
  only a stop, a restart or another update gets it out. In the crash timer
  (`:389`) nothing catches, and the supervisor dies. `StateTellsCore` excepts a
  launch that threw last (`"thrown"`).
* A rollback to the bundled core launches nothing and leaves the supervisor
  `stopped`, which the comment at `supervisor.ts:311` excludes.
* A restart whose start fails leaves a process without control server and lock.
* `dispatch` takes its slot before it awaits the session, and the bound may fall
  meanwhile: the ask then starts in front of a subagent that is parked
  (`cli/bootstrap/src/app/workflow-seat-gate.ts:13`). `NoPickPastParked` is about the
  choice of an ask, where the order does hold.
* A settlement's row and its event are two statements; a process that dies between
  them leaves a row whose place in the order is lost (`torn` in `WorkflowReplay`).
* With a gate left behind by a dead process, two servers may clear it away one
  after the other, the second taking the first one's new gate; with both in the
  gate, the lock's exclusion is lost too. This is why `HolderHasLock` excludes
  `"gate left"`; without that condition TLC finds the behaviour in `MCLock`.
* A cooldown that is over is not cleared, so a drain that leaves waiters arms a
  timer of zero.
* A grant to the main agent overwrites the cursor of the rotation with a run that
  is in no queue, so the rotation starts from the first run again
  (`workflow-concurrency-governor.ts:249`). If the main agent is granted a request
  between any two drains, the run at the front of the map is served each time and the
  others wait for as long as its fan-out lasts, which the comment at line 97 excludes;
  with the main agent, or aborts, in `MCRotation`, TLC finds runs passed over more
  often than any bound it is given. An abort moves the cursor too: it takes a run out
  of the map without a grant.
* A recovery raises the cap without a new epoch, so a 429 of a request sent under
  the lower cap cuts the higher one.
* Answers delivered in one chunk to branches that await to different depths
  (`Hops`) may be followed by calls in an order other than the recorded one, and
  so may a live answer that overtakes the replay of what is recorded (`"fast"`).
  `MCReplay` has branches alike and live turns slower than the replay; the theorems
  assume `HopsAlike` and leave `"fast"` out.

## 8. Not modelled

Of the modelled components: the fan-out of cap changes to subscribers, the phases
reported to the UI, statistics; escalations, transcripts and the
accepted/cancelled flags of the driver; world reads and artifacts (they pass the
same settle-order gate); replayed asks that wait for their actor's earlier ones;
amend-resume; the process and the timeouts of the sandbox; writes that fail after
part of a lock record was written. `inspect` of the lock only reads. Of the
protocol: how frames are cut from the bytes of a socket, and everything of a
session above `onMessage`. Of the supervisor: the status snapshot, the count of
running tasks (which is looked at before two awaits and not again), uninstalling,
the host's signals during an update.

The components without a module are in section 1; the reasons are in
`PROJECT.json`: user interfaces and adapters are I/O and presentation, the
compiler transforms syntax trees, artifacts are sequential bookkeeping, and the
others (command inbox, runtime command queue, automation claims, remote lock,
import cache) are the next candidates of section 2. Most of the repository's lines
are presentation, translations and adapters, of which there is nothing to check
with a finite model; the modelled files are those where an order of events decides.
