---------------------------- MODULE ServerSupervisor ----------------------------
(***************************************************************************)
(* The supervisor of Dave Server (dave-server-cli/src/supervisor): it      *)
(* starts the core as a child process, restarts it when it crashes, stops  *)
(* it, and replaces its release in a transaction that a crash may cut      *)
(* anywhere (runtime/releaseManager.ts, runtime/startupRecovery.ts).       *)
(*                                                                         *)
(* Two threads of control go from await to await: "boot", the start() of   *)
(* the command line, and "op", the one lifecycle operation that may run.   *)
(* Files, the lock and the core change in steps of their own; the handlers *)
(* of the core's messages and of its exit come at any await.  A core shuts *)
(* down when its supervisor is gone (server-core/core.ts, on disconnect);  *)
(* until it has, it is an orphan.  Time is not counted: a timeout comes at *)
(* any moment.                                                             *)
(***************************************************************************)
EXTENDS Naturals

CONSTANTS
    Releases,       \* releases that may be installed
    Cores,          \* bound on the processes that matter at a time
    Budget          \* CRASH_BACKOFF_MS.length

Bundled == "bundled"    \* null: the core that comes with the command line
Images == Releases \cup {Bundled}
Nothing == "nothing"    \* no pending.json, no transaction
Off == "off"            \* a core that does not run
Orphan == "orphan"      \* a core whose supervisor is gone, which is shutting down
NoCore == 0

ASSUME SupervisorAssumption ==
    /\ Cores \subseteq Nat \ {NoCore} /\ Budget \in Nat
    /\ Releases \cap {Bundled, Nothing, Off, Orphan} = {}

VARIABLES
    current, pending,       \* current.json, pending.json
    marker,                 \* update-transaction.json: the release before
    lock,                   \* the lock of the data root: free, ours, theirs
    up,                     \* the supervisor's process runs
    pc,                     \* where boot and op stand
    op,                     \* lifecycleOperation, and what applyUpdate has read
    state,
    core,                   \* this.core
    control,                \* this.control is there
    active,                 \* activeRelease
    crashes,                \* crashCount of the window
    runs,                   \* the image each core runs
    proven,                 \* history: images that were ready once
    happened                \* history: what the supervisor is not made for

files == <<current, pending, marker>>
memory == <<active, control, crashes, op>>
history == <<proven, happened>>
vars == <<files, lock, up, pc, state, core, memory, runs, history>>

(* What `happened` may hold: a request while start() still opens the control   *)
(* server, an update over one that was left open, a pending.json that reads    *)
(* otherwise the second time, and a last launch that threw.                    *)
Surprises == {"early", "again", "prepared", "thrown"}

NoOp == [kind |-> "none", prev |-> Bundled, cand |-> Nothing]

Init ==
    /\ current \in Images /\ pending = Nothing /\ marker = Nothing
    /\ lock = "free" /\ up = FALSE
    /\ pc = [t \in {"boot", "op"} |-> "idle"] /\ op = NoOp
    /\ state = "stopped" /\ core = NoCore /\ control = FALSE
    /\ active = Bundled /\ crashes = 0 /\ runs = [g \in Cores |-> Off]
    /\ proven = {current} /\ happened = {}
--------------------------------------------------------------------------------
At(t, s) == up /\ pc[t] = s
Goto(t, s) == pc' = [pc EXCEPT ![t] = s]
Running(g) == g \in Cores /\ runs[g] \in Images

(* launchCore: another child takes the place of this.core, or launch throws    *)
(* and this.core is what it was.  The callers have set the state before.       *)
Launch(image) ==
    LET spare == {g \in Cores : runs[g] = Off /\ g # core}
    IN  /\ \E g \in spare :
            /\ \A h \in spare : g <= h
            /\ core' = g /\ runs' = [runs EXCEPT ![g] = image]
        /\ state' = "starting"
        /\ happened' = happened \ {"thrown"}

LaunchThrows == happened' = happened \cup {"thrown"} /\ UNCHANGED <<core, runs>>

(* The process ends.  A core shuts down then, at once or after a while in       *)
(* which it still works; the lock of a dead process is taken.                   *)
Exit ==
    /\ up' = FALSE
    /\ pc' = [t \in {"boot", "op"} |-> "idle"] /\ op' = NoOp
    /\ state' = "stopped" /\ core' = NoCore /\ control' = FALSE
    /\ active' = Bundled /\ crashes' = 0
    /\ \E left \in SUBSET {g \in Cores : runs[g] # Off} :
            runs' = [g \in Cores |-> IF g \in left THEN Orphan ELSE Off]
    /\ lock' = IF lock = "ours" THEN "free" ELSE lock
    /\ happened' = happened \ {"thrown"}
    /\ UNCHANGED <<files, proven>>

(* start, step by step.  Its catch stops the core, if there is one, closes the *)
(* control server, and gives the lock back; on the command line that ends the  *)
(* process.                                                                    *)
StartFails(t, s) ==
    /\ IF t = "boot" \/ core = NoCore THEN state' = s /\ Goto(t, "give up")
       ELSE state' = "stopping" /\ Goto(t, "unstart")
    /\ control' = FALSE
    /\ UNCHANGED <<files, lock, up, active, crashes, op, proven>>

GiveUp(t) ==
    /\ At(t, "give up")
    /\ IF t = "boot" THEN Exit
       ELSE /\ state' = IF state = "stop-failed" THEN state ELSE "stopped"
            /\ lock' = IF lock = "ours" THEN "free" ELSE lock
            /\ Goto(t, "idle") /\ op' = NoOp
            /\ UNCHANGED <<files, up, core, active, control, crashes, runs, history>>

Boot ==
    /\ ~up
    /\ up' = TRUE /\ Goto("boot", "enter")
    /\ UNCHANGED <<files, lock, state, core, memory, runs, history>>

StartReturns(t) ==
    /\ Goto(t, "idle")
    /\ op' = IF t = "op" THEN NoOp ELSE op

Enter(t) ==
    /\ At(t, "enter")
    /\ IF state \in {"ready", "starting"} THEN StartReturns(t) ELSE Goto(t, "lock") /\ UNCHANGED op
    /\ UNCHANGED <<files, lock, up, state, core, active, control, crashes, runs, history>>

Lock(t) ==
    /\ At(t, "lock") /\ lock = "free"
    /\ lock' = "ours" /\ Goto(t, "recover")
    /\ UNCHANGED <<files, up, state, core, memory, runs, history>>

LockHeld(t) ==
    /\ At(t, "lock") /\ lock # "free"
    /\ IF t = "boot" THEN Exit
       ELSE /\ StartReturns(t)
            /\ UNCHANGED <<files, lock, up, state, core, active, control, crashes, runs, history>>

(* recoverInterruptedUpdate.  Mutant: the transaction is only forgotten. *)
RecoverForgetting(t) ==
    /\ At(t, "recover")
    /\ Goto(t, IF marker = Nothing THEN "read" ELSE "forget")
    /\ UNCHANGED <<files, lock, up, state, core, memory, runs, history>>

Recover(t) ==
    /\ At(t, "recover")
    /\ IF marker = Nothing THEN Goto(t, "read") /\ UNCHANGED current
       ELSE Goto(t, "forget") /\ current' = marker
    /\ UNCHANGED <<pending, marker, lock, up, state, core, memory, runs, history>>

Forget(t) ==
    /\ At(t, "forget")
    /\ marker' = Nothing /\ Goto(t, "read")
    /\ UNCHANGED <<current, pending, lock, up, state, core, memory, runs, history>>

RecoveryFails(t) ==
    /\ \/ At(t, "recover") /\ marker # Nothing
       \/ At(t, "forget")
    /\ StartFails(t, "stop-failed")
    /\ UNCHANGED <<core, runs, happened>>

(* Mutant: activeRelease stays what it was. *)
ReadCurrentOnce(t) ==
    /\ At(t, "read")
    /\ Goto(t, "listen")
    /\ UNCHANGED <<files, lock, up, state, core, memory, runs, history>>

ReadCurrent(t) ==
    /\ At(t, "read")
    /\ active' = current /\ Goto(t, "listen")
    /\ UNCHANGED <<files, lock, up, state, core, control, crashes, op, runs, history>>

(* createControlServer listens, and returns after another await.  A release   *)
(* that is gone and an endpoint that cannot be used end the start.            *)
Listen(t) ==
    /\ At(t, "listen")
    /\ Goto(t, "open")
    /\ UNCHANGED <<files, lock, up, state, core, memory, runs, history>>

NoListen(t) ==
    /\ At(t, "read") \/ At(t, "listen")
    /\ StartFails(t, state)
    /\ UNCHANGED <<core, runs, happened>>

Open(t) ==
    /\ At(t, "open")
    /\ control' = TRUE
    /\ Launch(active)
    /\ StartReturns(t)
    /\ UNCHANGED <<files, lock, up, active, crashes, proven>>

OpenThrows(t) ==
    /\ At(t, "open")
    /\ LaunchThrows
    /\ StartFails(t, "starting")
--------------------------------------------------------------------------------
(* handleControl, runLifecycleOperation: one operation at a time; uninstall    *)
(* stops like stop.  A signal, and a start that was not ready, stop without    *)
(* the control server.                                                        *)
Request(kind) ==
    /\ up /\ pc["op"] = "idle"
    /\ \/ control
       \/ kind = "stop" /\ pc["boot"] = "idle"
       \/ pc["boot"] = "open"
    /\ Goto("op", "begin")
    /\ op' = [NoOp EXCEPT !.kind = kind]
    /\ happened' = IF pc["boot"] = "open" THEN happened \cup {"early"} ELSE happened
    /\ UNCHANGED <<files, lock, up, state, core, active, control, crashes, runs, proven>>

StopSteps == {"stopping", "back", "last", "unstart"}

(* enterUpdateRollback: the timer of a candidate that crashed must not start it *)
(* again.  Mutant: it may.                                                      *)
RollbackStateAsIs == state
RollbackState == IF state = "crashed" THEN "updating" ELSE state

(* After stopCore: stopInternal, applyUpdate, its rollback, the end of a       *)
(* rollback whose release does not get ready either, and a start that fails.   *)
Stopped(step) ==
    \/ /\ step = "stopping" /\ op.kind # "update"
       /\ state' = "stopped" /\ Goto("op", "close") /\ UNCHANGED op
    \/ /\ step = "stopping" /\ op.kind = "update"
       /\ state' = "updating" /\ Goto("op", "mark") /\ UNCHANGED op
    \/ /\ step = "back"
       /\ state' = RollbackState
       /\ Goto("op", "restore") /\ UNCHANGED op
    \/ /\ step = "last"
       /\ state' = "stopped" /\ Goto("op", "idle") /\ op' = NoOp
    \/ /\ step = "unstart"
       /\ Goto("op", "give up") /\ UNCHANGED <<state, op>>

StopCore(step) ==
    IF core = NoCore THEN Stopped(step)
    ELSE state' = "stopping" /\ Goto("op", step) /\ UNCHANGED op

CoreStopped ==
    /\ up /\ pc["op"] \in StopSteps /\ ~Running(core)
    /\ core' = NoCore
    /\ Stopped(pc["op"])
    /\ UNCHANGED <<files, lock, up, active, control, crashes, runs, history>>

(* SIGKILL is not answered in time: this.core and the lock are kept.  Mutant:  *)
(* the operation goes on.                                                      *)
KillTimesOutQuietly ==
    /\ up /\ pc["op"] \in StopSteps /\ Running(core)
    /\ core' = NoCore
    /\ Stopped(pc["op"])
    /\ UNCHANGED <<files, lock, up, active, control, crashes, runs, history>>

KillTimesOut ==
    /\ up /\ pc["op"] \in StopSteps /\ Running(core)
    /\ state' = "stop-failed" /\ Goto("op", "idle") /\ op' = NoOp
    /\ UNCHANGED <<files, lock, up, core, active, control, crashes, runs, history>>

BeginStop ==
    /\ At("op", "begin") /\ op.kind # "update"
    /\ StopCore("stopping")
    /\ UNCHANGED <<files, lock, up, core, active, control, crashes, runs, history>>

Close ==
    /\ At("op", "close")
    /\ control' = FALSE /\ Goto("op", "release")
    /\ UNCHANGED <<files, lock, up, state, core, active, crashes, op, runs, history>>

Release ==
    /\ At("op", "release")
    /\ lock' = IF lock = "ours" THEN "free" ELSE lock
    /\ IF op.kind = "restart" THEN Goto("op", "enter") /\ UNCHANGED op
       ELSE Goto("op", "idle") /\ op' = NoOp
    /\ UNCHANGED <<files, up, state, core, active, control, crashes, runs, history>>
--------------------------------------------------------------------------------
(* applyUpdate.  It is refused without a prepared release, and when tasks run  *)
(* and it is not forced.  Mutant: lifecycleOperation is not cleared.           *)
RefuseUpdateForever ==
    /\ At("op", "begin") /\ op.kind = "update"
    /\ Goto("op", "idle")
    /\ UNCHANGED <<files, lock, up, state, core, memory, runs, history>>

RefuseUpdate ==
    /\ At("op", "begin") /\ op.kind = "update"
    /\ Goto("op", "idle") /\ op' = NoOp
    /\ UNCHANGED <<files, lock, up, state, core, active, control, crashes, runs, history>>

BeginUpdate ==
    /\ At("op", "begin") /\ op.kind = "update" /\ pending # Nothing
    /\ op' = [op EXCEPT !.cand = pending] /\ Goto("op", "previous")
    /\ UNCHANGED <<files, lock, up, state, core, active, control, crashes, runs, history>>

ReadPrevious ==
    /\ At("op", "previous")
    /\ op' = [op EXCEPT !.prev = current]
    /\ IF core = NoCore THEN state' = "updating" /\ Goto("op", "mark")
       ELSE state' = "stopping" /\ Goto("op", "stopping")
    /\ happened' = IF marker = Nothing THEN happened ELSE happened \cup {"again"}
    /\ UNCHANGED <<files, lock, up, core, active, control, crashes, runs, proven>>

(* applyPendingWithTransaction: the transaction is opened, then applyPending   *)
(* reads pending.json again.                                                   *)
Mark ==
    /\ At("op", "mark")
    /\ marker' = op.prev /\ Goto("op", "apply")
    /\ UNCHANGED <<current, pending, lock, up, state, core, memory, runs, history>>

Apply ==
    /\ At("op", "apply") /\ pending # Nothing
    /\ current' = pending /\ Goto("op", "clear")
    /\ happened' = IF pending = op.cand THEN happened ELSE happened \cup {"prepared"}
    /\ UNCHANGED <<pending, marker, lock, up, state, core, memory, runs, proven>>

LaunchCandidate ==
    /\ At("op", "clear")
    /\ pending' = Nothing
    /\ active' = op.cand
    /\ \/ Launch(op.cand) /\ Goto("op", "await")
       \/ /\ LaunchThrows
          /\ IF core = NoCore THEN state' = "starting" /\ Goto("op", "restore")
             ELSE state' = "stopping" /\ Goto("op", "back")
    /\ UNCHANGED <<current, marker, lock, up, control, crashes, op, proven>>

(* waitForUpdateReady, for the candidate and for the release before it. *)
SeenReady ==
    /\ At("op", "await") /\ state = "ready"
    /\ Goto("op", "complete")
    /\ UNCHANGED <<files, lock, up, state, core, memory, runs, history>>

Complete ==
    /\ At("op", "complete")
    /\ marker' = Nothing
    /\ Goto("op", "idle") /\ op' = NoOp
    /\ UNCHANGED <<current, pending, lock, up, state, core, active, control, crashes, runs,
                   history>>

(* Its catch: a file cannot be written, the candidate crashes, or it is not    *)
(* ready in time.  Mutant: there is no deadline.                                *)
FailingNoDeadline ==
    \/ \E s \in {"mark", "apply", "clear", "complete"} : At("op", s)
    \/ At("op", "await") /\ state \in {"crashed", "crash-loop-stopped"}

Failing == \E s \in {"mark", "apply", "clear", "await", "complete"} : At("op", s)

RollBack ==
    /\ Failing
    /\ StopCore("back")
    /\ UNCHANGED <<files, lock, up, core, active, control, crashes, runs, history>>

Restore ==
    /\ At("op", "restore")
    /\ current' = op.prev /\ Goto("op", "forget update")
    /\ UNCHANGED <<pending, marker, lock, up, state, core, memory, runs, history>>

(* The release before is started again, if there was one; a launch that throws *)
(* ends the operation where it stands.                                         *)
LaunchPrevious ==
    /\ At("op", "forget update")
    /\ marker' = Nothing
    /\ active' = op.prev
    /\ IF op.prev # Bundled
       THEN \/ Launch(op.prev) /\ Goto("op", "await back") /\ UNCHANGED op
            \/ LaunchThrows /\ state' = "starting" /\ Goto("op", "idle") /\ op' = NoOp
       ELSE /\ state' = "stopped" /\ Goto("op", "idle") /\ op' = NoOp
            /\ UNCHANGED <<core, runs, happened>>
    /\ UNCHANGED <<current, pending, lock, up, control, crashes, proven>>

RestoreFails ==
    /\ At("op", "restore") \/ At("op", "forget update")
    /\ state' = "stop-failed"
    /\ Goto("op", "idle") /\ op' = NoOp
    /\ UNCHANGED <<files, lock, up, core, active, control, crashes, runs, history>>

SeenReadyBack ==
    /\ At("op", "await back") /\ state = "ready"
    /\ Goto("op", "idle") /\ op' = NoOp
    /\ UNCHANGED <<files, lock, up, state, core, active, control, crashes, runs, history>>

BackFails ==
    /\ At("op", "await back")
    /\ StopCore("last")
    /\ UNCHANGED <<files, lock, up, core, active, control, crashes, runs, history>>
--------------------------------------------------------------------------------
(* handleCoreMessage, for ready. *)
CoreReady ==
    /\ up /\ Running(core) /\ state = "starting"
    /\ state' = "ready"
    /\ proven' = proven \cup {runs[core]}
    /\ UNCHANGED <<files, lock, up, pc, core, memory, runs, happened>>

(* recordCrash: in the window, or as the first of the      *)
(* next.  Once it is used up the budget is no longer counted.                  *)
Crash ==
    \E n \in {1, IF crashes > Budget THEN crashes ELSE crashes + 1} :
        /\ crashes' = n
        /\ state' = IF n <= Budget THEN "crashed" ELSE "crash-loop-stopped"

(* handleTerminal: not for a core that was given up or is being stopped. *)
CoreExits(g) ==
    /\ Running(g)
    /\ runs' = [runs EXCEPT ![g] = Off]
    /\ IF g # core \/ state \in {"stopping", "stopped"} THEN UNCHANGED <<core, state, crashes>>
       ELSE /\ core' = NoCore
            /\ IF state = "stop-failed" THEN UNCHANGED <<state, crashes>> ELSE Crash
    /\ UNCHANGED <<files, lock, up, pc, active, control, op, history>>

OrphanExits(g) ==
    /\ g \in Cores /\ runs[g] = Orphan
    /\ runs' = [runs EXCEPT ![g] = Off]
    /\ UNCHANGED <<files, lock, up, pc, state, core, memory, history>>

(* The timer of a crash.  It does nothing in another state, so an older one    *)
(* that is still armed does what the last one would.  Nobody catches a launch  *)
(* that throws here: the process dies.                                         *)
Relaunch ==
    /\ up /\ state = "crashed"
    /\ Launch(active)
    /\ UNCHANGED <<files, lock, up, pc, memory, proven>>

Die == up /\ Exit

(* External: the update command prepares a release, or takes it back; another  *)
(* server starts and stops.                                                    *)
Prepare(image) ==
    /\ image # current /\ pending' = image
    /\ UNCHANGED <<current, marker, lock, up, pc, state, core, memory, runs, history>>

OtherServer ==
    /\ \/ lock = "free" /\ lock' = "theirs"
       \/ lock = "theirs" /\ lock' = "free"
    /\ UNCHANGED <<files, up, pc, state, core, memory, runs, history>>

Start(t) ==
    \/ Enter(t) \/ Lock(t) \/ LockHeld(t) \/ Recover(t) \/ Forget(t) \/ RecoveryFails(t)
    \/ ReadCurrent(t) \/ Listen(t) \/ NoListen(t) \/ Open(t) \/ OpenThrows(t) \/ GiveUp(t)

Operation ==
    \/ Start("op")
    \/ CoreStopped \/ KillTimesOut \/ BeginStop \/ Close \/ Release
    \/ RefuseUpdate \/ BeginUpdate \/ ReadPrevious \/ Mark \/ Apply \/ LaunchCandidate
    \/ SeenReady \/ Complete \/ RollBack \/ Restore \/ LaunchPrevious \/ RestoreFails
    \/ SeenReadyBack \/ BackFails

Next ==
    \/ Boot \/ Start("boot") \/ Operation
    \/ \E kind \in {"stop", "restart", "update"} : Request(kind)
    \/ CoreReady \/ Relaunch \/ Die \/ OtherServer
    \/ \E g \in Cores : CoreExits(g) \/ OrphanExits(g)
    \/ \E image \in Releases \cup {Nothing} : Prepare(image)

(* A promise of an operation is settled, a file is written and a timer fires   *)
(* at some time; a core need not get ready, and nobody need ask for anything.  *)
Fairness == WF_vars(Operation) /\ WF_vars(Start("boot"))

Spec == Init /\ [][Next]_vars /\ Fairness
--------------------------------------------------------------------------------
States == {"stopped", "starting", "ready", "crashed", "crash-loop-stopped", "stopping",
           "stop-failed", "updating"}
StartSteps == {"enter", "lock", "recover", "forget", "read", "listen", "open",
               "unstart", "give up"}
UpdateSteps == {"previous", "mark", "apply", "clear", "await", "complete", "back", "restore",
                "forget update", "await back", "last"}
Steps == {"idle", "begin", "stopping", "close", "release"} \cup StartSteps \cup UpdateSteps

DataOK ==
    /\ current \in Images /\ pending \in Releases \cup {Nothing}
    /\ marker \in Images \cup {Nothing}
    /\ lock \in {"free", "ours", "theirs"} /\ up \in BOOLEAN
    /\ op \in [kind : {"none", "stop", "restart", "update"}, prev : Images,
               cand : Releases \cup {Nothing}]
    /\ state \in States /\ core \in Cores \cup {NoCore} /\ control \in BOOLEAN
    /\ active \in Images /\ crashes \in 0 .. Budget + 1
    /\ runs \in [Cores -> Images \cup {Off, Orphan}]
    /\ proven \subseteq Images /\ happened \subseteq Surprises

StepsOfOp ==
    /\ pc["boot"] \in {"idle"} \cup StartSteps
    /\ op.kind = "none" <=> pc["op"] = "idle"
    /\ pc["op"] \in StartSteps => op.kind = "restart"
    /\ pc["op"] \in {"close", "release"} => op.kind \in {"stop", "restart"}
    /\ pc["op"] \in UpdateSteps => op.kind = "update"

\* Types, and the steps of each operation: one that is over leaves no
\* lifecycleOperation behind, which would refuse every later request.
TypeOK == DataOK /\ pc \in [{"boot", "op"} -> Steps] /\ StepsOfOp

\* Every core that runs, but one whose supervisor is gone, is the one the
\* supervisor knows, and it has the lock of the data root, whatever crashes,
\* timeouts and failures come together, unless a request came while start() still
\* opened the control server: a core that was given up, replaced or launched twice
\* would work on the data root beside another one, or beside another server.
OneCoreUnderLock ==
    "early" \notin happened => \A g \in Cores : Running(g) => g = core /\ lock = "ours"

\* What the supervisor says of a core is so, unless a request came while start()
\* still opened the control server: a core that is ready runs, one that is starting
\* runs or the last launch threw, and none is left when it is said to be stopped.
StateTellsCore ==
    "early" \notin happened =>
        /\ state = "ready" => Running(core)
        /\ state = "starting" => Running(core) \/ "thrown" \in happened
        /\ state \in {"stopped", "crashed", "crash-loop-stopped", "updating"} => core = NoCore

\* The supervisor has met no early request, no update over one that was left open
\* and no pending.json that changed between its two readings.
Undisturbed == happened \subseteq {"thrown"}

\* Outside an update, and with no update left open, the core runs the release
\* current.json names, as long as the supervisor is undisturbed.
RunsCurrent ==
    Undisturbed /\ op.kind # "update" /\ marker = Nothing /\ Running(core) => runs[core] = current

\* A release that never got ready is never left as the current one without a
\* transaction that will take it back, wherever an undisturbed supervisor dies, a
\* launch throws or a file cannot be written.
CurrentProven == Undisturbed /\ marker = Nothing => current \in proven

\* Every operation ends, whatever the core and the files do.
OperationsEnd == pc["op"] # "idle" ~> pc["op"] = "idle"
================================================================================
