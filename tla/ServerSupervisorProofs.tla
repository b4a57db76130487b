------------------------- MODULE ServerSupervisorProofs -------------------------
(***************************************************************************)
(* The supervisor never has two cores, nor one without the lock, and       *)
(* current.json never names a release that never got ready, each within    *)
(* the scope its property states.                                          *)
(***************************************************************************)
EXTENDS ServerSupervisor, TLAPS

(* The types, and that an update has read what it is to install: also after an  *)
(* early request, and after any other surprise.                                 *)
CandKnown == op.kind = "update" /\ pc["op"] # "begin" => op.cand # Nothing

TInv == TypeOK /\ CandKnown

(* What holds at each place: the control server is there from the launch of a  *)
(* core to the end of the stop that follows, and it keeps the lock; files are   *)
(* switched without a core, and in a state that no timer wakes up in.           *)
ControlKeepsLock ==
    /\ control => up /\ lock = "ours" /\ pc["boot"] = "idle"
    /\ core # NoCore \/ op.kind = "update" => control
    /\ state \notin {"stopped", "stop-failed"} =>
            control \/ pc["boot"] = "give up" \/ pc["op"] = "give up"
    /\ ~up => pc["boot"] = "idle" /\ pc["op"] = "idle" /\ state = "stopped" /\ lock # "ours"

Starting(t) ==
    /\ pc[t] \in StartSteps => ~control
    /\ pc[t] \in StartSteps \ {"give up"} => state = "stopped"
    /\ pc[t] = "give up" => state \in {"stopped", "starting", "stop-failed"}
    /\ pc[t] \in {"enter", "lock"} => lock # "ours"
    /\ pc[t] \in StartSteps \ {"enter", "lock"} => lock = "ours"

Places ==
    /\ pc["boot"] # "idle" => op.kind = "none"
    /\ \A t \in {"boot", "op"} : Starting(t)
    /\ pc["op"] \in {"close", "release"} => state = "stopped"
    /\ pc["op"] = "release" => ~control
    /\ pc["op"] \in StopSteps => state = "stopping"
    /\ pc["op"] \in {"mark", "apply", "clear"} => state = "updating"
    /\ pc["op"] \in {"restore", "forget update"} =>
            core = NoCore /\ state \in {"starting", "updating", "stopping", "crash-loop-stopped"}
    /\ pc["op"] \in {"await", "complete", "await back"} =>
            state \in {"starting", "ready", "crashed", "crash-loop-stopped"}

OneCore == \A g \in Cores : Running(g) => g = core

StateTold ==
    /\ state = "ready" => Running(core)
    /\ state = "starting" => Running(core) \/ "thrown" \in happened
    /\ state \in {"stopped", "crashed", "crash-loop-stopped", "updating"} => core = NoCore

KInv == OneCore /\ StateTold /\ ControlKeepsLock /\ Places

IInv == TInv /\ KInv

(* The inductive invariant: an early request spoils KInv for good. *)
LockInv == TInv /\ ("early" \notin happened => KInv)

(* The part of an update in which the files still tell the release before. *)
Switching == op.kind = "update" /\ pc["op"] \in {"stopping", "mark"}

CurrentKept == marker = Nothing => current \in proven

(* What a launch relies on: active is what current.json names, unless an update is open. *)
Files ==
    /\ marker \in proven \cup {Nothing}
    /\ marker = Nothing /\ control => active = current
    /\ Running(core) => runs[core] = active
    /\ state = "ready" => active \in proven

FilesRead(t) ==
    /\ pc[t] = "forget" => current = marker
    /\ pc[t] \in {"read", "listen", "open"} => marker = Nothing
    /\ pc[t] \in {"listen", "open"} => active = current

(* How far the update has got with the files, at each of its steps. *)
FilesSwitched ==
    /\ Switching => marker = Nothing /\ op.prev = current
    /\ pc["op"] \in {"apply", "clear", "await", "complete"} => marker = op.prev
    /\ pc["op"] \in {"clear", "await", "complete"} => current = op.cand
    /\ pc["op"] \in {"await", "complete"} => active = current
    /\ pc["op"] = "complete" => current \in proven
    /\ pc["op"] \in {"back", "restore", "forget update"} =>
            /\ op.prev \in proven /\ marker \in {op.prev, Nothing}
            /\ marker = Nothing => current = op.prev
    /\ pc["op"] = "forget update" => current = op.prev
    /\ pc["op"] \in {"await back", "last"} => marker = Nothing

DInv == CurrentKept /\ Files /\ (\A t \in {"boot", "op"} : FilesRead(t)) /\ FilesSwitched

(* Inductive with LockInv: each surprise but a throw spoils DInv for good. *)
FilesInv == Undisturbed => DInv

LEMMA Distinct ==
    /\ NoCore \notin Cores /\ Off \notin Images /\ Orphan \notin Images
    /\ Nothing \notin Images /\ Off # Orphan
    /\ Bundled \in Images /\ Releases \subseteq Images
BY SupervisorAssumption DEF NoCore, Off, Orphan, Images, Bundled, Nothing

LEMMA NoOpFacts ==
    /\ NoOp.kind = "none" /\ NoOp.cand = Nothing
    /\ NoOp \in [kind : {"none", "stop", "restart", "update"}, prev : Images,
                  cand : Releases \cup {Nothing}]
BY Distinct DEF NoOp

USE DEF At, Goto, files, memory, history

(* What a surprise has spoilt stays so: only the note of a throw is taken back. *)
LEMMA Remembered == ASSUME [Next]_vars PROVE happened \ {"thrown"} \subseteq happened'
<1> USE DEF Exit, Launch, LaunchThrows
<1>1. ASSUME NEW t \in {"boot", "op"}, Start(t) PROVE happened \ {"thrown"} \subseteq happened'
  BY <1>1 DEF Start, Enter, StartReturns, Lock, LockHeld, Recover, Forget, RecoveryFails,
     ReadCurrent, Listen, NoListen, Open, OpenThrows, GiveUp
<1>2. CASE Operation
  <2>1. CASE Start("op")
    BY <1>1, <2>1
  <2>2. CASE CoreStopped \/ KillTimesOut \/ BeginStop \/ Close \/ Release \/ RollBack \/ BackFails
    BY <2>2 DEF CoreStopped, KillTimesOut, BeginStop, Close, Release, RollBack, BackFails
  <2>3. CASE \/ RefuseUpdate \/ BeginUpdate \/ ReadPrevious \/ Mark \/ Apply \/ LaunchCandidate
             \/ SeenReady \/ Complete
    BY <2>3 DEF RefuseUpdate, BeginUpdate, ReadPrevious, Mark, Apply, LaunchCandidate,
       SeenReady, Complete
  <2>4. CASE Restore \/ LaunchPrevious \/ RestoreFails \/ SeenReadyBack
    BY <2>4 DEF Restore, LaunchPrevious, RestoreFails, SeenReadyBack
  <2> QED
    BY <1>2, <2>1, <2>2, <2>3, <2>4 DEF Operation
<1>3. CASE \E kind \in {"stop", "restart", "update"} : Request(kind)
  BY <1>3 DEF Request
<1>4. CASE Boot \/ CoreReady \/ Relaunch \/ Die \/ OtherServer
  BY <1>4 DEF Boot, CoreReady, Relaunch, Die, OtherServer
<1>5. CASE \E g \in Cores : CoreExits(g) \/ OrphanExits(g)
  BY <1>5 DEF CoreExits, OrphanExits
<1>6. CASE \E image \in Releases \cup {Nothing} : Prepare(image)
  BY <1>6 DEF Prepare
<1>7. CASE UNCHANGED vars
  BY <1>7 DEF vars
<1> QED
  BY <1>1, <1>2, <1>3, <1>4, <1>5, <1>6, <1>7 DEF Next

--------------------------------------------------------------------------------
(* TInv, action by action.                                                     *)
LEMMA TypedInit == Init => TInv
<1> SUFFICES ASSUME Init PROVE TInv
  OBVIOUS
<1>1. DataOK
  <2>1. 0 \in 0 .. Budget + 1
    BY SupervisorAssumption
  <2> QED
    BY <2>1, Distinct, NoOpFacts DEF Init, DataOK, States, Surprises
<1>2. pc \in [{"boot", "op"} -> Steps] /\ StepsOfOp /\ CandKnown
  BY NoOpFacts DEF Init, Steps, StepsOfOp, CandKnown, StartSteps, UpdateSteps
<1> QED
  BY <1>1, <1>2 DEF TInv, TypeOK

LEMMA ExitTyped == ASSUME TInv, Exit PROVE TInv'
<1> USE DEF TInv, TypeOK
<1>1. pc' = [t \in {"boot", "op"} |-> "idle"] /\ op' = NoOp
  BY DEF Exit
<1>2. DataOK'
  <2>1. 0 \in 0 .. Budget + 1
    BY SupervisorAssumption
  <2>2. runs' \in [Cores -> Images \cup {Off, Orphan}]
    BY DEF Exit
  <2>3. lock' \in {"free", "ours", "theirs"} /\ happened' \subseteq Surprises
    BY DEF Exit, DataOK
  <2> QED
    BY <1>1, <2>1, <2>2, <2>3, Distinct, NoOpFacts DEF DataOK, States, Exit
<1>3. pc' \in [{"boot", "op"} -> Steps] /\ StepsOfOp' /\ CandKnown'
  BY <1>1, NoOpFacts DEF Steps, StepsOfOp, CandKnown, StartSteps, UpdateSteps
<1> QED
  BY <1>2, <1>3

LEMMA LaunchTyped ==
    ASSUME DataOK, NEW image \in Images, Launch(image)
    PROVE  /\ core' \in Cores /\ core' # core
           /\ runs' \in [Cores -> Images \cup {Off, Orphan}] /\ runs'[core'] = image
           /\ \A h \in Cores \ {core'} : runs'[h] = runs[h]
           /\ state' = "starting" /\ happened' \subseteq Surprises
<1>1. PICK g \in Cores : core' = g /\ g # core /\ runs' = [runs EXCEPT ![g] = image]
  BY DEF Launch
<1> QED
  BY <1>1 DEF Launch, DataOK

(* A failure of start leaves the operation at one of the two steps of its catch. *)
LEMMA StartFailsTyped ==
    ASSUME TInv, NEW t \in {"boot", "op"}, NEW s \in States, pc[t] \in StartSteps,
           StartFails(t, s), UNCHANGED <<core, runs>>, happened' \subseteq Surprises
    PROVE  TInv'
<1> USE DEF TInv, TypeOK
<1>1. op' = op /\ (pc' = [pc EXCEPT ![t] = "give up"] \/
                    (t = "op" /\ pc' = [pc EXCEPT ![t] = "unstart"]))
  BY DEF StartFails
<1>2. state' \in States
  BY DEF StartFails, States
<1>3. DataOK'
  BY <1>1, <1>2 DEF DataOK, StartFails
<1>4. pc' \in [{"boot", "op"} -> Steps]
  BY <1>1 DEF Steps, StartSteps
<1>5. StepsOfOp' /\ CandKnown'
  <2>1. CASE t = "boot"
    BY <1>1, <2>1 DEF StepsOfOp, CandKnown, StartSteps, UpdateSteps
  <2>2. CASE t = "op"
    BY <1>1, <2>2 DEF StepsOfOp, CandKnown, StartSteps, UpdateSteps
  <2> QED
    BY <2>1, <2>2
<1> QED
  BY <1>3, <1>4, <1>5

LEMMA BootTyped == ASSUME TInv, Boot PROVE TInv'
<1> USE DEF TInv, TypeOK
<1>1. DataOK'
  BY Distinct, NoOpFacts DEF DataOK, States, Boot
<1>2. pc' \in [{"boot", "op"} -> Steps]
  BY DEF Steps, StartSteps, UpdateSteps, Boot
<1>3. StepsOfOp'
  BY NoOpFacts DEF StepsOfOp, StartSteps, UpdateSteps, Boot
<1>4. CandKnown'
  BY NoOpFacts DEF DataOK, StepsOfOp, UpdateSteps, StartSteps, CandKnown, Boot
<1> QED
  BY <1>1, <1>2, <1>3, <1>4

LEMMA EnterTyped == ASSUME TInv, NEW t \in {"boot", "op"}, Enter(t) PROVE TInv'
<1> USE DEF TInv, TypeOK
<1>1. DataOK'
  BY Distinct, NoOpFacts DEF DataOK, States, Enter, StartReturns
<1>2. pc' \in [{"boot", "op"} -> Steps]
  BY ZenonT(60) DEF Steps, StartSteps, UpdateSteps, Enter, StartReturns
<1>3. StepsOfOp'
  BY ZenonT(60), NoOpFacts DEF StepsOfOp, StartSteps, UpdateSteps, Enter, StartReturns
<1>4. CandKnown'
  BY NoOpFacts DEF DataOK, StepsOfOp, UpdateSteps, StartSteps, CandKnown, Enter, StartReturns
<1> QED
  BY <1>1, <1>2, <1>3, <1>4

LEMMA LockTyped == ASSUME TInv, NEW t \in {"boot", "op"}, Lock(t) PROVE TInv'
<1> USE DEF TInv, TypeOK
<1>1. DataOK'
  BY Distinct, NoOpFacts DEF DataOK, States, Lock
<1>2. pc' \in [{"boot", "op"} -> Steps]
  BY DEF Steps, StartSteps, UpdateSteps, Lock
<1>3. StepsOfOp'
  BY NoOpFacts DEF StepsOfOp, StartSteps, UpdateSteps, Lock
<1>4. CandKnown'
  BY NoOpFacts DEF DataOK, StepsOfOp, UpdateSteps, StartSteps, CandKnown, Lock
<1> QED
  BY <1>1, <1>2, <1>3, <1>4

LEMMA LockHeldInOpTyped ==
    ASSUME TInv, NEW t \in {"boot", "op"}, LockHeld(t), t = "op"
    PROVE  TInv'
<1> USE DEF TInv, TypeOK
<1>1. DataOK'
  BY Distinct, NoOpFacts DEF DataOK, States, LockHeld, StartReturns
<1>2. pc' \in [{"boot", "op"} -> Steps]
  BY DEF Steps, StartSteps, UpdateSteps, LockHeld, StartReturns
<1>3. StepsOfOp'
  BY NoOpFacts DEF StepsOfOp, StartSteps, UpdateSteps, LockHeld, StartReturns
<1>4. CandKnown'
  BY NoOpFacts DEF DataOK, StepsOfOp, UpdateSteps, StartSteps, CandKnown, LockHeld, StartReturns
<1> QED
  BY <1>1, <1>2, <1>3, <1>4

LEMMA RecoverTyped == ASSUME TInv, NEW t \in {"boot", "op"}, Recover(t) PROVE TInv'
<1> USE DEF TInv, TypeOK
<1>1. DataOK'
  BY Distinct, NoOpFacts DEF DataOK, States, Recover
<1>2. pc' \in [{"boot", "op"} -> Steps]
  BY DEF Steps, StartSteps, UpdateSteps, Recover
<1>3. StepsOfOp'
  BY ZenonT(60), NoOpFacts DEF StepsOfOp, StartSteps, UpdateSteps, Recover
<1>4. CandKnown'
  BY NoOpFacts DEF DataOK, StepsOfOp, UpdateSteps, StartSteps, CandKnown, Recover
<1> QED
  BY <1>1, <1>2, <1>3, <1>4

LEMMA ForgetTyped == ASSUME TInv, NEW t \in {"boot", "op"}, Forget(t) PROVE TInv'
<1> USE DEF TInv, TypeOK
<1>1. DataOK'
  BY Distinct, NoOpFacts DEF DataOK, States, Forget
<1>2. pc' \in [{"boot", "op"} -> Steps]
  BY DEF Steps, StartSteps, UpdateSteps, Forget
<1>3. StepsOfOp'
  BY NoOpFacts DEF StepsOfOp, StartSteps, UpdateSteps, Forget
<1>4. CandKnown'
  BY NoOpFacts DEF DataOK, StepsOfOp, UpdateSteps, StartSteps, CandKnown, Forget
<1> QED
  BY <1>1, <1>2, <1>3, <1>4

LEMMA RecoveryFailsTyped == ASSUME TInv, NEW t \in {"boot", "op"}, RecoveryFails(t) PROVE TInv'
<1>1. pc[t] \in StartSteps /\ StartFails(t, "stop-failed") /\ UNCHANGED <<core, runs>>
  BY DEF RecoveryFails, StartSteps
<1>2. "stop-failed" \in States /\ happened' \subseteq Surprises
  BY DEF TInv, TypeOK, DataOK, States, RecoveryFails
<1> QED
  BY <1>1, <1>2, StartFailsTyped

LEMMA ReadCurrentTyped == ASSUME TInv, NEW t \in {"boot", "op"}, ReadCurrent(t) PROVE TInv'
<1> USE DEF TInv, TypeOK
<1>1. DataOK'
  BY Distinct, NoOpFacts DEF DataOK, States, ReadCurrent
<1>2. pc' \in [{"boot", "op"} -> Steps]
  BY DEF Steps, StartSteps, UpdateSteps, ReadCurrent
<1>3. StepsOfOp'
  BY NoOpFacts DEF StepsOfOp, StartSteps, UpdateSteps, ReadCurrent
<1>4. CandKnown'
  BY NoOpFacts DEF DataOK, StepsOfOp, UpdateSteps, StartSteps, CandKnown, ReadCurrent
<1> QED
  BY <1>1, <1>2, <1>3, <1>4

LEMMA ListenTyped == ASSUME TInv, NEW t \in {"boot", "op"}, Listen(t) PROVE TInv'
<1> USE DEF TInv, TypeOK
<1>1. DataOK'
  BY Distinct, NoOpFacts DEF DataOK, States, Listen
<1>2. pc' \in [{"boot", "op"} -> Steps]
  BY DEF Steps, StartSteps, UpdateSteps, Listen
<1>3. StepsOfOp'
  BY NoOpFacts DEF StepsOfOp, StartSteps, UpdateSteps, Listen
<1>4. CandKnown'
  BY NoOpFacts DEF DataOK, StepsOfOp, UpdateSteps, StartSteps, CandKnown, Listen
<1> QED
  BY <1>1, <1>2, <1>3, <1>4

LEMMA NoListenTyped == ASSUME TInv, NEW t \in {"boot", "op"}, NoListen(t) PROVE TInv'
<1>1. pc[t] \in StartSteps /\ StartFails(t, state) /\ UNCHANGED <<core, runs>>
  BY DEF NoListen, StartSteps
<1>2. state \in States /\ happened' \subseteq Surprises
  BY DEF TInv, TypeOK, DataOK, States, NoListen
<1> QED
  BY <1>1, <1>2, StartFailsTyped

LEMMA OpenTyped == ASSUME TInv, NEW t \in {"boot", "op"}, Open(t) PROVE TInv'
<1> USE DEF TInv, TypeOK
<1>1. DataOK'
  <2>1. active \in Images /\ Launch(active)
    BY DEF DataOK, Open
  <2> QED
    BY <2>1, LaunchTyped, NoOpFacts DEF DataOK, States, Open, StartReturns
<1>2. pc' \in [{"boot", "op"} -> Steps]
  BY DEF Steps, Open, StartReturns
<1>3. StepsOfOp' /\ CandKnown'
  BY NoOpFacts DEF StepsOfOp, CandKnown, StartSteps, UpdateSteps, Open, StartReturns
<1> QED
  BY <1>1, <1>2, <1>3

LEMMA OpenThrowsTyped == ASSUME TInv, NEW t \in {"boot", "op"}, OpenThrows(t) PROVE TInv'
<1>1. pc[t] \in StartSteps /\ StartFails(t, "starting") /\ UNCHANGED <<core, runs>>
  BY DEF OpenThrows, StartSteps, LaunchThrows
<1>2. "starting" \in States /\ happened' \subseteq Surprises
  BY DEF TInv, TypeOK, DataOK, States, OpenThrows, LaunchThrows, Surprises
<1> QED
  BY <1>1, <1>2, StartFailsTyped

LEMMA GiveUpInOpTyped ==
    ASSUME TInv, NEW t \in {"boot", "op"}, GiveUp(t), t = "op"
    PROVE  TInv'
<1> USE DEF TInv, TypeOK
<1>1. DataOK'
  BY NoOpFacts DEF DataOK, States, GiveUp
<1>2. pc' \in [{"boot", "op"} -> Steps]
  BY DEF Steps, GiveUp
<1>3. StepsOfOp' /\ CandKnown'
  BY NoOpFacts DEF StepsOfOp, CandKnown, StartSteps, UpdateSteps, GiveUp
<1> QED
  BY <1>1, <1>2, <1>3

LEMMA RequestTyped ==
    ASSUME TInv, NEW kind \in {"stop", "restart", "update"}, Request(kind)
    PROVE  TInv'
<1> USE DEF TInv, TypeOK
<1>1. DataOK'
  BY Distinct, NoOpFacts DEF DataOK, States, Surprises, Request, NoOp
<1>2. pc' \in [{"boot", "op"} -> Steps]
  BY DEF Steps, StartSteps, UpdateSteps, Request
<1>3. StepsOfOp'
  BY NoOpFacts DEF StepsOfOp, StartSteps, UpdateSteps, Request, NoOp, DataOK
<1>4. CandKnown'
  BY NoOpFacts DEF DataOK, StepsOfOp, UpdateSteps, StartSteps, CandKnown, Request
<1> QED
  BY <1>1, <1>2, <1>3, <1>4

LEMMA CoreStoppedTyped == ASSUME TInv, CoreStopped PROVE TInv'
<1> USE DEF TInv, TypeOK
<1>1. DataOK'
  BY Distinct, NoOpFacts DEF DataOK, States, CoreStopped, Stopped, RollbackState
<1>2. pc' \in [{"boot", "op"} -> Steps]
  BY DEF Steps, StartSteps, UpdateSteps, CoreStopped, Stopped, RollbackState
<1>3. StepsOfOp'
  BY NoOpFacts DEF DataOK, StepsOfOp, StartSteps, UpdateSteps, CoreStopped, Stopped,
     RollbackState, StopSteps
<1>4. CandKnown'
  BY NoOpFacts DEF DataOK, StepsOfOp, UpdateSteps, StartSteps, CandKnown, CoreStopped, Stopped,
     RollbackState
<1> QED
  BY <1>1, <1>2, <1>3, <1>4

LEMMA KillTimesOutTyped == ASSUME TInv, KillTimesOut PROVE TInv'
<1> USE DEF TInv, TypeOK
<1>1. DataOK'
  BY Distinct, NoOpFacts DEF DataOK, States, KillTimesOut
<1>2. pc' \in [{"boot", "op"} -> Steps]
  BY DEF Steps, StartSteps, UpdateSteps, KillTimesOut
<1>3. StepsOfOp'
  BY NoOpFacts DEF StepsOfOp, StartSteps, UpdateSteps, KillTimesOut
<1>4. CandKnown'
  BY NoOpFacts DEF DataOK, StepsOfOp, UpdateSteps, StartSteps, CandKnown, KillTimesOut
<1> QED
  BY <1>1, <1>2, <1>3, <1>4

LEMMA BeginStopTyped == ASSUME TInv, BeginStop PROVE TInv'
<1> USE DEF TInv, TypeOK
<1>1. DataOK'
  BY Distinct, NoOpFacts DEF DataOK, States, BeginStop, StopCore, Stopped
<1>2. pc' \in [{"boot", "op"} -> Steps]
  BY DEF Steps, StartSteps, UpdateSteps, BeginStop, StopCore, Stopped
<1>3. StepsOfOp'
  BY ZenonT(60), NoOpFacts DEF DataOK, StepsOfOp, StartSteps, UpdateSteps, BeginStop, StopCore,
     Stopped
<1>4. CandKnown'
  BY NoOpFacts DEF DataOK, StepsOfOp, UpdateSteps, StartSteps, CandKnown, BeginStop, StopCore,
     Stopped
<1> QED
  BY <1>1, <1>2, <1>3, <1>4

LEMMA CloseTyped == ASSUME TInv, Close PROVE TInv'
<1> USE DEF TInv, TypeOK
<1>1. DataOK'
  BY ZenonT(60), Distinct, NoOpFacts DEF DataOK, States, Close
<1>2. pc' \in [{"boot", "op"} -> Steps]
  BY DEF Steps, StartSteps, UpdateSteps, Close
<1>3. StepsOfOp'
  BY NoOpFacts DEF StepsOfOp, StartSteps, UpdateSteps, Close
<1>4. CandKnown'
  BY NoOpFacts DEF DataOK, StepsOfOp, UpdateSteps, StartSteps, CandKnown, Close
<1> QED
  BY <1>1, <1>2, <1>3, <1>4

LEMMA ReleaseTyped == ASSUME TInv, Release PROVE TInv'
<1> USE DEF TInv, TypeOK
<1>1. DataOK'
  BY Distinct, NoOpFacts DEF DataOK, States, Release
<1>2. pc' \in [{"boot", "op"} -> Steps]
  BY DEF Steps, StartSteps, UpdateSteps, Release
<1>3. StepsOfOp'
  BY NoOpFacts DEF StepsOfOp, StartSteps, UpdateSteps, Release
<1>4. CandKnown'
  BY NoOpFacts DEF DataOK, StepsOfOp, UpdateSteps, StartSteps, CandKnown, Release
<1> QED
  BY <1>1, <1>2, <1>3, <1>4

LEMMA RefuseUpdateTyped == ASSUME TInv, RefuseUpdate PROVE TInv'
<1> USE DEF TInv, TypeOK
<1>1. DataOK'
  BY Distinct, NoOpFacts DEF DataOK, States, RefuseUpdate
<1>2. pc' \in [{"boot", "op"} -> Steps]
  BY DEF Steps, StartSteps, UpdateSteps, RefuseUpdate
<1>3. StepsOfOp'
  BY NoOpFacts DEF StepsOfOp, StartSteps, UpdateSteps, RefuseUpdate
<1>4. CandKnown'
  BY NoOpFacts DEF DataOK, StepsOfOp, UpdateSteps, StartSteps, CandKnown, RefuseUpdate
<1> QED
  BY <1>1, <1>2, <1>3, <1>4

LEMMA BeginUpdateTyped == ASSUME TInv, BeginUpdate PROVE TInv'
<1> USE DEF TInv, TypeOK
<1>1. DataOK'
  BY Distinct, NoOpFacts DEF DataOK, States, BeginUpdate
<1>2. pc' \in [{"boot", "op"} -> Steps]
  BY DEF Steps, StartSteps, UpdateSteps, BeginUpdate
<1>3. StepsOfOp'
  BY NoOpFacts DEF DataOK, StepsOfOp, StartSteps, UpdateSteps, BeginUpdate
<1>4. CandKnown'
  BY NoOpFacts DEF DataOK, StepsOfOp, UpdateSteps, StartSteps, CandKnown, BeginUpdate
<1> QED
  BY <1>1, <1>2, <1>3, <1>4

LEMMA ReadPreviousTyped == ASSUME TInv, ReadPrevious PROVE TInv'
<1> USE DEF TInv, TypeOK
<1>1. DataOK'
  BY Distinct, NoOpFacts DEF DataOK, States, Surprises, ReadPrevious
<1>2. pc' \in [{"boot", "op"} -> Steps]
  BY DEF Steps, StartSteps, UpdateSteps, ReadPrevious
<1>3. StepsOfOp'
  <2>1. op'.kind = op.kind
    BY DEF DataOK, ReadPrevious
  <2> QED
    BY <2>1 DEF StepsOfOp, StartSteps, UpdateSteps, ReadPrevious
<1>4. CandKnown'
  BY NoOpFacts DEF DataOK, StepsOfOp, UpdateSteps, StartSteps, CandKnown, ReadPrevious
<1> QED
  BY <1>1, <1>2, <1>3, <1>4

LEMMA MarkTyped == ASSUME TInv, Mark PROVE TInv'
<1> USE DEF TInv, TypeOK
<1>1. DataOK'
  BY Distinct, NoOpFacts DEF DataOK, States, Mark
<1>2. pc' \in [{"boot", "op"} -> Steps]
  BY DEF Steps, StartSteps, UpdateSteps, Mark
<1>3. StepsOfOp'
  BY NoOpFacts DEF StepsOfOp, StartSteps, UpdateSteps, Mark
<1>4. CandKnown'
  BY NoOpFacts DEF DataOK, StepsOfOp, UpdateSteps, StartSteps, CandKnown, Mark
<1> QED
  BY <1>1, <1>2, <1>3, <1>4

LEMMA ApplyTyped == ASSUME TInv, Apply PROVE TInv'
<1> USE DEF TInv, TypeOK
<1>1. DataOK'
  BY Distinct, NoOpFacts DEF DataOK, States, Surprises, Apply
<1>2. pc' \in [{"boot", "op"} -> Steps]
  BY DEF Steps, StartSteps, UpdateSteps, Apply
<1>3. StepsOfOp'
  BY NoOpFacts DEF StepsOfOp, StartSteps, UpdateSteps, Apply
<1>4. CandKnown'
  BY NoOpFacts DEF DataOK, StepsOfOp, UpdateSteps, StartSteps, CandKnown, Apply
<1> QED
  BY <1>1, <1>2, <1>3, <1>4

LEMMA LaunchCandidateTyped == ASSUME TInv, LaunchCandidate PROVE TInv'
<1> USE DEF TInv, TypeOK
<1>1. op' = op /\ op.kind = "update" /\ op.cand \in Images
  BY DEF LaunchCandidate, DataOK, StepsOfOp, UpdateSteps, CandKnown, Images
<1>2. /\ core' \in Cores \cup {NoCore} /\ runs' \in [Cores -> Images \cup {Off, Orphan}]
      /\ state' \in States /\ happened' \subseteq Surprises
  <2>1. CASE Launch(op.cand)
    BY <1>1, <2>1, LaunchTyped DEF States
  <2>2. CASE LaunchThrows /\ state' \in {"starting", "stopping"}
    BY <2>2 DEF LaunchThrows, DataOK, States, Surprises
  <2> QED
    BY <2>1, <2>2 DEF LaunchCandidate
<1>3. DataOK'
  BY <1>1, <1>2 DEF DataOK, LaunchCandidate
<1>4. pc' \in [{"boot", "op"} -> Steps]
  BY DEF Steps, UpdateSteps, LaunchCandidate
<1>5. StepsOfOp' /\ CandKnown'
  BY <1>1 DEF StepsOfOp, CandKnown, StartSteps, UpdateSteps, LaunchCandidate
<1> QED
  BY <1>3, <1>4, <1>5

LEMMA SeenReadyTyped == ASSUME TInv, SeenReady PROVE TInv'
<1> USE DEF TInv, TypeOK
<1>1. DataOK'
  BY Distinct, NoOpFacts DEF DataOK, States, SeenReady
<1>2. pc' \in [{"boot", "op"} -> Steps]
  BY DEF Steps, StartSteps, UpdateSteps, SeenReady
<1>3. StepsOfOp'
  BY NoOpFacts DEF StepsOfOp, StartSteps, UpdateSteps, SeenReady
<1>4. CandKnown'
  BY NoOpFacts DEF DataOK, StepsOfOp, UpdateSteps, StartSteps, CandKnown, SeenReady
<1> QED
  BY <1>1, <1>2, <1>3, <1>4

LEMMA CompleteTyped == ASSUME TInv, Complete PROVE TInv'
<1> USE DEF TInv, TypeOK
<1>1. DataOK'
  BY Distinct, NoOpFacts DEF DataOK, States, Complete
<1>2. pc' \in [{"boot", "op"} -> Steps]
  BY DEF Steps, StartSteps, UpdateSteps, Complete
<1>3. StepsOfOp'
  BY NoOpFacts DEF StepsOfOp, StartSteps, UpdateSteps, Complete
<1>4. CandKnown'
  BY NoOpFacts DEF DataOK, StepsOfOp, UpdateSteps, StartSteps, CandKnown, Complete
<1> QED
  BY <1>1, <1>2, <1>3, <1>4

LEMMA RollBackTyped == ASSUME TInv, RollBack PROVE TInv'
<1> USE DEF TInv, TypeOK
<1>1. DataOK'
  BY Distinct, NoOpFacts DEF DataOK, States, RollBack, Failing, StopCore, Stopped,
     RollbackState
<1>2. pc' \in [{"boot", "op"} -> Steps]
  BY DEF Steps, StartSteps, UpdateSteps, RollBack, Failing, StopCore, Stopped,
     RollbackState
<1>3. StepsOfOp'
  BY NoOpFacts DEF StepsOfOp, StartSteps, UpdateSteps, RollBack, Failing, StopCore,
     Stopped, RollbackState
<1>4. CandKnown'
  BY NoOpFacts DEF DataOK, StepsOfOp, UpdateSteps, StartSteps, CandKnown, RollBack, Failing,
     StopCore, Stopped, RollbackState
<1> QED
  BY <1>1, <1>2, <1>3, <1>4

LEMMA RestoreTyped == ASSUME TInv, Restore PROVE TInv'
<1> USE DEF TInv, TypeOK
<1>1. DataOK'
  BY ZenonT(60), Distinct, NoOpFacts DEF DataOK, States, Restore
<1>2. pc' \in [{"boot", "op"} -> Steps]
  BY DEF Steps, StartSteps, UpdateSteps, Restore
<1>3. StepsOfOp'
  BY NoOpFacts DEF StepsOfOp, StartSteps, UpdateSteps, Restore
<1>4. CandKnown'
  BY NoOpFacts DEF DataOK, StepsOfOp, UpdateSteps, StartSteps, CandKnown, Restore
<1> QED
  BY <1>1, <1>2, <1>3, <1>4

LEMMA LaunchPreviousTyped == ASSUME TInv, LaunchPrevious PROVE TInv'
<1> USE DEF TInv, TypeOK
<1>1. pc["op"] = "forget update" /\ op.kind = "update" /\ op.prev \in Images
  BY DEF LaunchPrevious, DataOK, StepsOfOp, UpdateSteps
<1>2. /\ core' \in Cores \cup {NoCore} /\ runs' \in [Cores -> Images \cup {Off, Orphan}]
      /\ state' \in States /\ happened' \subseteq Surprises
  <2>1. CASE Launch(op.prev)
    BY <1>1, <2>1, LaunchTyped DEF States
  <2>2. CASE LaunchThrows /\ state' = "starting"
    BY <2>2 DEF LaunchThrows, DataOK, States, Surprises
  <2>3. CASE UNCHANGED <<core, runs, happened>> /\ state' = "stopped"
    BY <2>3 DEF DataOK, States
  <2> QED
    BY <2>1, <2>2, <2>3 DEF LaunchPrevious
<1>3. \/ op' = op /\ pc' = [pc EXCEPT !["op"] = "await back"]
      \/ op' = NoOp /\ pc' = [pc EXCEPT !["op"] = "idle"]
  BY DEF LaunchPrevious
<1>4. DataOK'
  BY <1>1, <1>2, <1>3, NoOpFacts DEF DataOK, LaunchPrevious
<1>5. pc' \in [{"boot", "op"} -> Steps]
  BY <1>3 DEF Steps, UpdateSteps
<1>6. StepsOfOp' /\ CandKnown'
  BY <1>1, <1>3, NoOpFacts DEF StepsOfOp, CandKnown, StartSteps, UpdateSteps
<1> QED
  BY <1>4, <1>5, <1>6

LEMMA RestoreFailsTyped == ASSUME TInv, RestoreFails PROVE TInv'
<1> USE DEF TInv, TypeOK
<1>1. DataOK'
  BY Distinct, NoOpFacts DEF DataOK, States, RestoreFails
<1>2. pc' \in [{"boot", "op"} -> Steps]
  BY DEF Steps, StartSteps, UpdateSteps, RestoreFails
<1>3. StepsOfOp'
  BY NoOpFacts DEF StepsOfOp, StartSteps, UpdateSteps, RestoreFails
<1>4. CandKnown'
  BY NoOpFacts DEF DataOK, StepsOfOp, UpdateSteps, StartSteps, CandKnown, RestoreFails
<1> QED
  BY <1>1, <1>2, <1>3, <1>4

LEMMA SeenReadyBackTyped == ASSUME TInv, SeenReadyBack PROVE TInv'
<1> USE DEF TInv, TypeOK
<1>1. DataOK'
  BY Distinct, NoOpFacts DEF DataOK, States, SeenReadyBack
<1>2. pc' \in [{"boot", "op"} -> Steps]
  BY DEF Steps, StartSteps, UpdateSteps, SeenReadyBack
<1>3. StepsOfOp'
  BY NoOpFacts DEF StepsOfOp, StartSteps, UpdateSteps, SeenReadyBack
<1>4. CandKnown'
  BY NoOpFacts DEF DataOK, StepsOfOp, UpdateSteps, StartSteps, CandKnown, SeenReadyBack
<1> QED
  BY <1>1, <1>2, <1>3, <1>4

LEMMA BackFailsTyped == ASSUME TInv, BackFails PROVE TInv'
<1> USE DEF TInv, TypeOK
<1>1. DataOK'
  BY Distinct, NoOpFacts DEF DataOK, States, BackFails, StopCore, Stopped
<1>2. pc' \in [{"boot", "op"} -> Steps]
  BY DEF Steps, StartSteps, UpdateSteps, BackFails, StopCore, Stopped
<1>3. StepsOfOp'
  BY NoOpFacts DEF StepsOfOp, StartSteps, UpdateSteps, BackFails, StopCore, Stopped
<1>4. CandKnown'
  BY NoOpFacts DEF DataOK, StepsOfOp, UpdateSteps, StartSteps, CandKnown, BackFails, StopCore,
     Stopped
<1> QED
  BY <1>1, <1>2, <1>3, <1>4

LEMMA CoreReadyTyped == ASSUME TInv, CoreReady PROVE TInv'
<1> USE DEF TInv, TypeOK
<1>1. DataOK'
  BY Distinct, NoOpFacts DEF DataOK, States, CoreReady, Running
<1>2. pc' \in [{"boot", "op"} -> Steps]
  BY DEF Steps, StartSteps, UpdateSteps, CoreReady
<1>3. StepsOfOp'
  BY NoOpFacts DEF StepsOfOp, StartSteps, UpdateSteps, CoreReady
<1>4. CandKnown'
  BY NoOpFacts DEF DataOK, StepsOfOp, UpdateSteps, StartSteps, CandKnown, CoreReady
<1> QED
  BY <1>1, <1>2, <1>3, <1>4

LEMMA CoreExitsTyped == ASSUME TInv, NEW g \in Cores, CoreExits(g) PROVE TInv'
<1> USE DEF TInv, TypeOK
<1>1. DataOK'
  BY Distinct, NoOpFacts, SupervisorAssumption DEF DataOK, States, CoreExits, Crash
<1>2. pc' \in [{"boot", "op"} -> Steps]
  BY DEF Steps, StartSteps, UpdateSteps, CoreExits, Crash
<1>3. StepsOfOp'
  BY NoOpFacts DEF StepsOfOp, StartSteps, UpdateSteps, CoreExits, Crash
<1>4. CandKnown'
  BY NoOpFacts DEF DataOK, StepsOfOp, UpdateSteps, StartSteps, CandKnown, CoreExits, Crash
<1> QED
  BY <1>1, <1>2, <1>3, <1>4

LEMMA OrphanExitsTyped == ASSUME TInv, NEW g \in Cores, OrphanExits(g) PROVE TInv'
BY DEF TInv, TypeOK, DataOK, StepsOfOp, CandKnown, OrphanExits

LEMMA RelaunchTyped == ASSUME TInv, Relaunch PROVE TInv'
<1> USE DEF TInv, TypeOK
<1>1. DataOK'
  <2>1. active \in Images /\ Launch(active)
    BY DEF DataOK, Relaunch
  <2> QED
    BY <2>1, LaunchTyped, NoOpFacts DEF DataOK, States, Relaunch
<1>2. pc' \in [{"boot", "op"} -> Steps]
  BY DEF Steps, Relaunch
<1>3. StepsOfOp' /\ CandKnown'
  BY NoOpFacts DEF StepsOfOp, CandKnown, StartSteps, UpdateSteps, Relaunch
<1> QED
  BY <1>1, <1>2, <1>3

LEMMA PrepareTyped ==
    ASSUME TInv, NEW image \in Releases \cup {Nothing}, Prepare(image)
    PROVE  TInv'
<1> USE DEF TInv, TypeOK
<1>1. DataOK'
  BY Distinct, NoOpFacts DEF DataOK, States, Prepare
<1>2. pc' \in [{"boot", "op"} -> Steps]
  BY DEF Steps, StartSteps, UpdateSteps, Prepare
<1>3. StepsOfOp'
  BY NoOpFacts DEF StepsOfOp, StartSteps, UpdateSteps, Prepare
<1>4. CandKnown'
  BY NoOpFacts DEF DataOK, StepsOfOp, UpdateSteps, StartSteps, CandKnown, Prepare
<1> QED
  BY <1>1, <1>2, <1>3, <1>4

LEMMA OtherServerTyped == ASSUME TInv, OtherServer PROVE TInv'
<1> USE DEF TInv, TypeOK
<1>1. DataOK'
  BY Distinct, NoOpFacts DEF DataOK, States, OtherServer
<1>2. pc' \in [{"boot", "op"} -> Steps]
  BY DEF Steps, StartSteps, UpdateSteps, OtherServer
<1>3. StepsOfOp'
  BY NoOpFacts DEF StepsOfOp, StartSteps, UpdateSteps, OtherServer
<1>4. CandKnown'
  BY NoOpFacts DEF DataOK, StepsOfOp, UpdateSteps, StartSteps, CandKnown, OtherServer
<1> QED
  BY <1>1, <1>2, <1>3, <1>4

(* In the command line a start that fails ends the process. *)
LEMMA StartTyped == ASSUME TInv, NEW t \in {"boot", "op"}, Start(t) PROVE TInv'
<1>1. CASE t = "boot" /\ (LockHeld(t) \/ GiveUp(t))
  BY <1>1, ExitTyped DEF LockHeld, GiveUp
<1>2. CASE t = "op" /\ (LockHeld(t) \/ GiveUp(t))
  BY <1>2, LockHeldInOpTyped, GiveUpInOpTyped
<1>3. CASE \/ Enter(t) \/ Lock(t) \/ Recover(t) \/ Forget(t) \/ RecoveryFails(t)
           \/ ReadCurrent(t) \/ Listen(t) \/ NoListen(t) \/ Open(t) \/ OpenThrows(t)
  BY <1>3, EnterTyped, LockTyped, RecoverTyped, ForgetTyped, RecoveryFailsTyped,
     ReadCurrentTyped, ListenTyped, NoListenTyped, OpenTyped, OpenThrowsTyped
<1> QED
  BY <1>1, <1>2, <1>3 DEF Start

LEMMA OperationTyped == ASSUME TInv, Operation PROVE TInv'
<1>1. CASE Start("op")
  BY <1>1, StartTyped
<1>2. CASE CoreStopped \/ KillTimesOut \/ BeginStop \/ Close \/ Release
  BY <1>2, CoreStoppedTyped, KillTimesOutTyped, BeginStopTyped, CloseTyped, ReleaseTyped
<1>3. CASE \/ RefuseUpdate \/ BeginUpdate \/ ReadPrevious \/ Mark \/ Apply \/ LaunchCandidate
           \/ SeenReady \/ Complete
  BY <1>3, RefuseUpdateTyped, BeginUpdateTyped, ReadPreviousTyped, MarkTyped, ApplyTyped,
     LaunchCandidateTyped, SeenReadyTyped, CompleteTyped
<1>4. CASE \/ RollBack \/ Restore \/ LaunchPrevious \/ RestoreFails \/ SeenReadyBack \/ BackFails
  BY <1>4, RollBackTyped, RestoreTyped, LaunchPreviousTyped, RestoreFailsTyped,
     SeenReadyBackTyped, BackFailsTyped
<1> QED
  BY <1>1, <1>2, <1>3, <1>4 DEF Operation

LEMMA TypedStep == ASSUME TInv, [Next]_vars PROVE TInv'
<1>1. CASE Boot \/ Start("boot") \/ Operation
  BY <1>1, BootTyped, StartTyped, OperationTyped
<1>2. CASE \E kind \in {"stop", "restart", "update"} : Request(kind)
  BY <1>2, RequestTyped
<1>3. CASE CoreReady \/ Relaunch \/ Die \/ OtherServer
  BY <1>3, CoreReadyTyped, RelaunchTyped, ExitTyped, OtherServerTyped DEF Die
<1>4. CASE \E g \in Cores : CoreExits(g) \/ OrphanExits(g)
  BY <1>4, CoreExitsTyped, OrphanExitsTyped
<1>5. CASE \E image \in Releases \cup {Nothing} : Prepare(image)
  BY <1>5, PrepareTyped
<1>6. CASE UNCHANGED vars
  BY <1>6 DEF TInv, TypeOK, DataOK, StepsOfOp, CandKnown, vars
<1> QED
  BY <1>1, <1>2, <1>3, <1>4, <1>5, <1>6 DEF Next

THEOREM TypeInvariance == Spec => []TInv
<1>1. TInv /\ [Next]_vars => TInv'
  BY TypedStep
<1> QED
  BY TypedInit, <1>1, PTL DEF Spec

\* Types, for any releases, cores and budget, and operations that leave nothing
\* behind, whatever surprises the supervisor meets.
THEOREM TypeCorrect == Spec => []TypeOK
<1>1. TInv => TypeOK
  BY DEF TInv
<1> QED
  BY TypeInvariance, <1>1, PTL

--------------------------------------------------------------------------------
(* KInv, action by action, as long as no request is early.                     *)
LEMMA KInit == Init => KInv
<1>1. Init => OneCore /\ StateTold
  BY Distinct DEF Init, OneCore, StateTold, Running
<1>2. Init => ControlKeepsLock /\ Places
  BY NoOpFacts DEF Init, ControlKeepsLock, Places, Starting, StartSteps, StopSteps
<1> QED
  BY <1>1, <1>2 DEF KInv

LEMMA ExitKeeps == ASSUME IInv, Exit PROVE KInv'
<1>1. pc' = [t \in {"boot", "op"} |-> "idle"] /\ op' = NoOp
  BY DEF Exit
<1>2. \A g \in Cores : runs'[g] \notin Images
  BY Distinct DEF Exit
<1>3. OneCore' /\ StateTold'
  BY <1>2 DEF Exit, OneCore, StateTold, Running
<1>4. ControlKeepsLock' /\ Places'
  BY <1>1, NoOpFacts DEF Exit, ControlKeepsLock, Places, Starting, StartSteps, StopSteps
<1> QED
  BY <1>3, <1>4 DEF KInv

LEMMA LaunchFacts ==
    ASSUME DataOK, OneCore, core = NoCore, NEW image \in Images, Launch(image)
    PROVE  core' # NoCore /\ state' = "starting" /\ OneCore' /\ Running(core)'
BY LaunchTyped, Distinct DEF OneCore, Running

(* A start that fails has no core to stop. *)
LEMMA StartFailsKeeps ==
    ASSUME IInv, NEW t \in {"boot", "op"}, NEW s \in {"stopped", "starting", "stop-failed"},
           pc[t] \in {"recover", "forget", "read", "listen", "open"},
           StartFails(t, s), UNCHANGED <<core, runs>>,
           s = "starting" => "thrown" \in happened'
    PROVE  KInv'
<1> USE DEF IInv, KInv, TInv, TypeOK
<1>1. core = NoCore /\ lock = "ours" /\ up /\ op.kind # "update"
  <2>1. state = "stopped" /\ lock = "ours"
    BY DEF Places, Starting, StartSteps
  <2>2. op.kind # "update"
    BY DEF Places, StepsOfOp, StartSteps
  <2>3. up
    BY DEF ControlKeepsLock
  <2> QED
    BY <2>1, <2>2, <2>3 DEF StateTold
<1>2. pc' = [pc EXCEPT ![t] = "give up"] /\ state' = s
  BY <1>1 DEF StartFails
<1>3. OneCore' /\ StateTold'
  BY <1>1, <1>2, Distinct DEF OneCore, StateTold, Running, StartFails
<1>4. ControlKeepsLock'
  BY <1>1, <1>2 DEF ControlKeepsLock, StartFails
<1>5. Places'
  <2>1. CASE t = "boot"
    <3>1. op.kind = "none" /\ pc["op"] = "idle"
      BY <2>1 DEF Places, StepsOfOp
    <3> QED
      BY <1>1, <1>2, <2>1, <3>1 DEF Places, Starting, StartSteps, StopSteps, StartFails
  <2>2. CASE t = "op"
    <3>1. pc["boot"] = "idle"
      BY <2>2 DEF Places, StepsOfOp
    <3> QED
      BY <1>1, <1>2, <2>2, <3>1 DEF Places, Starting, StartSteps, StopSteps, StartFails
  <2> QED
    BY <2>1, <2>2
<1> QED
  BY <1>3, <1>4, <1>5

LEMMA BootKeeps == ASSUME IInv, Boot PROVE KInv'
<1> USE DEF IInv, KInv, TInv, TypeOK
<1>1. OneCore' /\ StateTold'
  BY Distinct DEF DataOK, StepsOfOp, OneCore, StateTold, ControlKeepsLock, Places,
     Starting, StartSteps, StopSteps, Running, Boot
<1>2. ControlKeepsLock'
  BY NoOpFacts DEF StepsOfOp, StateTold, ControlKeepsLock, Places, Starting, StartSteps,
     UpdateSteps, Boot
<1>3. Places'
  BY Distinct, NoOpFacts DEF StepsOfOp, OneCore, StateTold, Running, ControlKeepsLock,
     Places, Starting, StartSteps, StopSteps, UpdateSteps, Boot
<1> QED
  BY <1>1, <1>2, <1>3

LEMMA EnterKeeps == ASSUME IInv, NEW t \in {"boot", "op"}, Enter(t) PROVE KInv'
<1> USE DEF IInv, KInv, TInv, TypeOK
<1>1. OneCore' /\ StateTold'
  BY Distinct DEF DataOK, StepsOfOp, OneCore, StateTold, ControlKeepsLock, Places,
     Starting, StartSteps, StopSteps, Running, Enter, StartReturns
<1>2. ControlKeepsLock'
  BY NoOpFacts DEF StepsOfOp, StateTold, ControlKeepsLock, Places, Starting, StartSteps,
     UpdateSteps, Enter, StartReturns
<1>3. Places'
  BY ZenonT(60), Distinct, NoOpFacts DEF StepsOfOp, OneCore, StateTold, Running, ControlKeepsLock,
     Places, Starting, StartSteps, StopSteps, UpdateSteps, Enter, StartReturns
<1> QED
  BY <1>1, <1>2, <1>3

LEMMA LockKeeps == ASSUME IInv, NEW t \in {"boot", "op"}, Lock(t) PROVE KInv'
<1> USE DEF IInv, KInv, TInv, TypeOK
<1>1. OneCore' /\ StateTold'
  BY Distinct DEF DataOK, StepsOfOp, OneCore, StateTold, ControlKeepsLock, Places,
     Starting, StartSteps, StopSteps, Running, Lock
<1>2. ControlKeepsLock'
  BY NoOpFacts DEF StepsOfOp, StateTold, ControlKeepsLock, Places, Starting, StartSteps,
     UpdateSteps, Lock
<1>3. Places'
  BY Distinct, NoOpFacts DEF StepsOfOp, OneCore, StateTold, Running, ControlKeepsLock,
     Places, Starting, StartSteps, StopSteps, UpdateSteps, Lock
<1> QED
  BY <1>1, <1>2, <1>3

LEMMA LockHeldInOpKeeps ==
    ASSUME IInv, NEW t \in {"boot", "op"}, LockHeld(t), t = "op"
    PROVE  KInv'
<1> USE DEF IInv, KInv, TInv, TypeOK
<1>1. OneCore' /\ StateTold'
  BY Distinct DEF DataOK, StepsOfOp, OneCore, StateTold, ControlKeepsLock, Places,
     Starting, StartSteps, StopSteps, Running, LockHeld, StartReturns
<1>2. ControlKeepsLock'
  BY NoOpFacts DEF StepsOfOp, StateTold, ControlKeepsLock, Places, Starting, StartSteps,
     UpdateSteps, LockHeld, StartReturns
<1>3. Places'
  BY Distinct, NoOpFacts DEF StepsOfOp, OneCore, StateTold, Running, ControlKeepsLock,
     Places, Starting, StartSteps, StopSteps, UpdateSteps, LockHeld, StartReturns
<1> QED
  BY <1>1, <1>2, <1>3

LEMMA RecoverKeeps == ASSUME IInv, NEW t \in {"boot", "op"}, Recover(t) PROVE KInv'
<1> USE DEF IInv, KInv, TInv, TypeOK
<1>1. OneCore' /\ StateTold'
  BY Distinct DEF DataOK, StepsOfOp, OneCore, StateTold, ControlKeepsLock, Places,
     Starting, StartSteps, StopSteps, Running, Recover
<1>2. ControlKeepsLock'
  BY NoOpFacts DEF StepsOfOp, StateTold, ControlKeepsLock, Places, Starting, StartSteps,
     UpdateSteps, Recover
<1>3. Places'
  <2>1. CASE t = "op"
    BY ZenonT(60), <2>1, Distinct, NoOpFacts DEF StepsOfOp, OneCore, StateTold, Running,
       ControlKeepsLock, Places, Starting, StartSteps, StopSteps, UpdateSteps, Recover
  <2>2. CASE t = "boot"
    BY <2>2, Distinct, NoOpFacts DEF StepsOfOp, OneCore, StateTold, Running,
       ControlKeepsLock, Places, Starting, StartSteps, StopSteps, UpdateSteps, Recover
  <2> QED
    BY <2>1, <2>2
<1> QED
  BY <1>1, <1>2, <1>3

LEMMA ForgetKeeps == ASSUME IInv, NEW t \in {"boot", "op"}, Forget(t) PROVE KInv'
<1> USE DEF IInv, KInv, TInv, TypeOK
<1>1. OneCore' /\ StateTold'
  BY Distinct DEF DataOK, StepsOfOp, OneCore, StateTold, ControlKeepsLock, Places,
     Starting, StartSteps, StopSteps, Running, Forget
<1>2. ControlKeepsLock'
  BY NoOpFacts DEF StepsOfOp, StateTold, ControlKeepsLock, Places, Starting, StartSteps,
     UpdateSteps, Forget
<1>3. Places'
  BY Distinct, NoOpFacts DEF StepsOfOp, OneCore, StateTold, Running, ControlKeepsLock,
     Places, Starting, StartSteps, StopSteps, UpdateSteps, Forget
<1> QED
  BY <1>1, <1>2, <1>3

LEMMA RecoveryFailsKeeps ==
    ASSUME IInv, NEW t \in {"boot", "op"}, RecoveryFails(t)
    PROVE  KInv'
BY StartFailsKeeps DEF RecoveryFails

LEMMA ReadCurrentKeeps == ASSUME IInv, NEW t \in {"boot", "op"}, ReadCurrent(t) PROVE KInv'
<1> USE DEF IInv, KInv, TInv, TypeOK
<1>1. OneCore' /\ StateTold'
  BY Distinct DEF DataOK, StepsOfOp, OneCore, StateTold, ControlKeepsLock, Places,
     Starting, StartSteps, StopSteps, Running, ReadCurrent
<1>2. ControlKeepsLock'
  BY NoOpFacts DEF StepsOfOp, StateTold, ControlKeepsLock, Places, Starting, StartSteps,
     UpdateSteps, ReadCurrent
<1>3. Places'
  BY Distinct, NoOpFacts DEF StepsOfOp, OneCore, StateTold, Running, ControlKeepsLock,
     Places, Starting, StartSteps, StopSteps, UpdateSteps, ReadCurrent
<1> QED
  BY <1>1, <1>2, <1>3

LEMMA ListenKeeps == ASSUME IInv, NEW t \in {"boot", "op"}, Listen(t) PROVE KInv'
<1> USE DEF IInv, KInv, TInv, TypeOK
<1>1. OneCore' /\ StateTold'
  BY Distinct DEF DataOK, StepsOfOp, OneCore, StateTold, ControlKeepsLock, Places,
     Starting, StartSteps, StopSteps, Running, Listen
<1>2. ControlKeepsLock'
  BY NoOpFacts DEF StepsOfOp, StateTold, ControlKeepsLock, Places, Starting, StartSteps,
     UpdateSteps, Listen
<1>3. Places'
  BY Distinct, NoOpFacts DEF StepsOfOp, OneCore, StateTold, Running, ControlKeepsLock,
     Places, Starting, StartSteps, StopSteps, UpdateSteps, Listen
<1> QED
  BY <1>1, <1>2, <1>3

LEMMA NoListenKeeps == ASSUME IInv, NEW t \in {"boot", "op"}, NoListen(t) PROVE KInv'
<1>1. state = "stopped"
  BY DEF NoListen, IInv, KInv, Places, Starting, StartSteps
<1> QED
  BY <1>1, StartFailsKeeps DEF NoListen

LEMMA OpenKeeps == ASSUME IInv, NEW t \in {"boot", "op"}, Open(t) PROVE KInv'
<1> USE DEF IInv, KInv, TInv, TypeOK
<1>1. /\ core = NoCore /\ up /\ lock = "ours" /\ op.kind # "update"
      /\ active \in Images /\ Launch(active)
  BY DEF StateTold, Places, Starting, StartSteps, StepsOfOp, DataOK, Open
<1>2. core' # NoCore /\ state' = "starting" /\ OneCore' /\ Running(core)'
  BY <1>1, LaunchFacts
<1>3. /\ pc'["boot"] = "idle" /\ pc'["op"] = "idle" /\ op'.kind = "none"
      /\ control' /\ up' /\ lock' = "ours"
  <2>1. CASE t = "boot"
    BY <1>1, <2>1 DEF Open, StartReturns, Places, StepsOfOp
  <2>2. CASE t = "op"
    BY <1>1, <2>2, NoOpFacts DEF Open, StartReturns, Places, StepsOfOp
  <2> QED
    BY <2>1, <2>2
<1>4. StateTold' /\ ControlKeepsLock' /\ Places'
  BY <1>2, <1>3 DEF StateTold, ControlKeepsLock, Places, Starting, StartSteps, StopSteps
<1> QED
  BY <1>2, <1>4

LEMMA OpenThrowsKeeps == ASSUME IInv, NEW t \in {"boot", "op"}, OpenThrows(t) PROVE KInv'
BY StartFailsKeeps DEF OpenThrows, LaunchThrows

LEMMA GiveUpInOpKeeps ==
    ASSUME IInv, NEW t \in {"boot", "op"}, GiveUp(t), t = "op"
    PROVE  KInv'
<1> USE DEF IInv, KInv, TInv, TypeOK
<1>1. /\ pc["op"] = "give up" /\ pc["boot"] = "idle" /\ lock = "ours" /\ ~control /\ up
      /\ core = NoCore
  <2>1. pc["op"] = "give up" /\ up
    BY DEF GiveUp
  <2>2. pc["boot"] = "idle"
    BY <2>1 DEF Places, StepsOfOp
  <2> QED
    BY <2>1, <2>2 DEF Places, Starting, StartSteps, ControlKeepsLock
<1>2. /\ pc' = [pc EXCEPT !["op"] = "idle"] /\ op' = NoOp /\ state' \in {"stopped", "stop-failed"}
      /\ UNCHANGED <<up, core, control, runs>> /\ lock' = "free"
  BY <1>1 DEF GiveUp
<1>3. OneCore' /\ StateTold'
  BY <1>1, <1>2 DEF OneCore, StateTold, Running
<1>4. ControlKeepsLock' /\ Places'
  BY <1>1, <1>2, NoOpFacts DEF ControlKeepsLock, Places, Starting, StartSteps, StopSteps
<1> QED
  BY <1>3, <1>4

LEMMA RequestKeeps ==
    ASSUME IInv, NEW kind \in {"stop", "restart", "update"}, Request(kind),
           "early" \notin happened'
    PROVE  KInv'
<1> USE DEF IInv, KInv, TInv, TypeOK
<1>1. OneCore' /\ StateTold'
  BY Distinct DEF DataOK, StepsOfOp, OneCore, StateTold, ControlKeepsLock, Places,
     Starting, StartSteps, StopSteps, Running, Request
<1>2. ControlKeepsLock'
  BY NoOpFacts DEF StepsOfOp, StateTold, ControlKeepsLock, Places, Starting, StartSteps,
     UpdateSteps, Request, NoOp
<1>3. Places'
  BY Distinct, NoOpFacts DEF StepsOfOp, OneCore, StateTold, Running, NoOp,
     ControlKeepsLock, Places, Starting, StartSteps, StopSteps, UpdateSteps, Request
<1> QED
  BY <1>1, <1>2, <1>3

LEMMA CoreStoppedKeeps == ASSUME IInv, CoreStopped PROVE KInv'
<1> USE DEF IInv, KInv, TInv, TypeOK
<1>1. OneCore' /\ StateTold'
  BY Distinct DEF DataOK, StepsOfOp, OneCore, StateTold, ControlKeepsLock, Places,
     Starting, StartSteps, StopSteps, Running, CoreStopped, Stopped, RollbackState
<1>2. ControlKeepsLock'
  BY NoOpFacts DEF StepsOfOp, StateTold, ControlKeepsLock, Places, Starting, StartSteps,
     UpdateSteps, CoreStopped, Stopped, RollbackState
<1>3. Places'
  BY ZenonT(60), Distinct, NoOpFacts DEF StepsOfOp, OneCore, StateTold, Running, ControlKeepsLock,
     Places, Starting, StartSteps, StopSteps, UpdateSteps, CoreStopped, Stopped,
     RollbackState
<1> QED
  BY <1>1, <1>2, <1>3

LEMMA KillTimesOutKeeps == ASSUME IInv, KillTimesOut PROVE KInv'
<1> USE DEF IInv, KInv, TInv, TypeOK
<1>1. OneCore' /\ StateTold'
  BY Distinct DEF DataOK, StepsOfOp, OneCore, StateTold, ControlKeepsLock, Places,
     Starting, StartSteps, StopSteps, Running, KillTimesOut
<1>2. ControlKeepsLock'
  BY NoOpFacts DEF StepsOfOp, StateTold, ControlKeepsLock, Places, Starting, StartSteps,
     UpdateSteps, KillTimesOut
<1>3. Places'
  BY Distinct, NoOpFacts DEF StepsOfOp, OneCore, StateTold, Running, ControlKeepsLock,
     Places, Starting, StartSteps, StopSteps, UpdateSteps, KillTimesOut
<1> QED
  BY <1>1, <1>2, <1>3

LEMMA BeginStopKeeps == ASSUME IInv, BeginStop PROVE KInv'
<1> USE DEF IInv, KInv, TInv, TypeOK
<1>1. OneCore' /\ StateTold'
  BY Distinct DEF DataOK, StepsOfOp, OneCore, StateTold, ControlKeepsLock, Places,
     Starting, StartSteps, StopSteps, Running, BeginStop, StopCore, Stopped
<1>2. ControlKeepsLock'
  BY NoOpFacts DEF StepsOfOp, StateTold, ControlKeepsLock, Places, Starting, StartSteps,
     UpdateSteps, BeginStop, StopCore, Stopped
<1>3. Places'
  BY ZenonT(60), Distinct, NoOpFacts DEF StepsOfOp, OneCore, StateTold, Running, ControlKeepsLock,
     Places, Starting, StartSteps, StopSteps, UpdateSteps, BeginStop, StopCore, Stopped
<1> QED
  BY <1>1, <1>2, <1>3

LEMMA CloseKeeps == ASSUME IInv, Close PROVE KInv'
<1> USE DEF IInv, KInv, TInv, TypeOK
<1>1. OneCore' /\ StateTold'
  BY Distinct DEF DataOK, StepsOfOp, OneCore, StateTold, ControlKeepsLock, Places,
     Starting, StartSteps, StopSteps, Running, Close
<1>2. ControlKeepsLock'
  BY NoOpFacts DEF StepsOfOp, StateTold, ControlKeepsLock, Places, Starting, StartSteps,
     UpdateSteps, Close
<1>3. Places'
  BY Distinct, NoOpFacts DEF StepsOfOp, OneCore, StateTold, Running, ControlKeepsLock,
     Places, Starting, StartSteps, StopSteps, UpdateSteps, Close
<1> QED
  BY <1>1, <1>2, <1>3

LEMMA ReleaseKeeps == ASSUME IInv, Release PROVE KInv'
<1> USE DEF IInv, KInv, TInv, TypeOK
<1>1. OneCore' /\ StateTold'
  BY Distinct DEF DataOK, StepsOfOp, OneCore, StateTold, ControlKeepsLock, Places,
     Starting, StartSteps, StopSteps, Running, Release
<1>2. ControlKeepsLock'
  BY NoOpFacts DEF StepsOfOp, StateTold, ControlKeepsLock, Places, Starting, StartSteps,
     UpdateSteps, Release
<1>3. Places'
  <2>1. pc["boot"] = "idle" /\ op.kind # "none"
    BY DEF Release, StepsOfOp, Places
  <2>2. pc'["op"] \in {"idle", "enter"} /\ pc'["boot"] = "idle"
    BY <2>1 DEF Release
  <2> QED
    BY <2>1, <2>2, NoOpFacts DEF Release, Places, Starting, StartSteps, StopSteps,
       ControlKeepsLock
<1> QED
  BY <1>1, <1>2, <1>3

LEMMA RefuseUpdateKeeps == ASSUME IInv, RefuseUpdate PROVE KInv'
<1> USE DEF IInv, KInv, TInv, TypeOK
<1>1. OneCore' /\ StateTold'
  BY Distinct DEF DataOK, StepsOfOp, OneCore, StateTold, ControlKeepsLock, Places,
     Starting, StartSteps, StopSteps, Running, RefuseUpdate
<1>2. ControlKeepsLock'
  BY NoOpFacts DEF StepsOfOp, StateTold, ControlKeepsLock, Places, Starting, StartSteps,
     UpdateSteps, RefuseUpdate
<1>3. Places'
  BY Distinct, NoOpFacts DEF StepsOfOp, OneCore, StateTold, Running, ControlKeepsLock,
     Places, Starting, StartSteps, StopSteps, UpdateSteps, RefuseUpdate
<1> QED
  BY <1>1, <1>2, <1>3

LEMMA BeginUpdateKeeps == ASSUME IInv, BeginUpdate PROVE KInv'
<1> USE DEF IInv, KInv, TInv, TypeOK
<1>1. OneCore' /\ StateTold'
  BY Distinct DEF DataOK, StepsOfOp, OneCore, StateTold, ControlKeepsLock, Places,
     Starting, StartSteps, StopSteps, Running, BeginUpdate
<1>2. ControlKeepsLock'
  BY NoOpFacts DEF StepsOfOp, StateTold, ControlKeepsLock, Places, Starting, StartSteps,
     UpdateSteps, BeginUpdate
<1>3. Places'
  BY Distinct, NoOpFacts DEF StepsOfOp, OneCore, StateTold, Running, DataOK,
     ControlKeepsLock, Places, Starting, StartSteps, StopSteps, UpdateSteps, BeginUpdate
<1> QED
  BY <1>1, <1>2, <1>3

LEMMA ReadPreviousKeeps == ASSUME IInv, ReadPrevious PROVE KInv'
<1> USE DEF IInv, KInv, TInv, TypeOK
<1>1. OneCore' /\ StateTold'
  BY Distinct DEF DataOK, StepsOfOp, OneCore, StateTold, ControlKeepsLock, Places,
     Starting, StartSteps, StopSteps, Running, ReadPrevious
<1>2. ControlKeepsLock'
  BY NoOpFacts DEF StepsOfOp, StateTold, ControlKeepsLock, Places, Starting, StartSteps,
     UpdateSteps, ReadPrevious
<1>3. Places'
  <2>1. op'.kind = op.kind /\ op'.cand = op.cand
    BY DEF DataOK, ReadPrevious
  <2>2. CASE core = NoCore
    BY ZenonT(60), <2>1, <2>2, Distinct, NoOpFacts DEF StepsOfOp, OneCore, StateTold, Running,
       ControlKeepsLock, Places, Starting, StartSteps, StopSteps, UpdateSteps, ReadPrevious
  <2>3. CASE core # NoCore
    BY <2>1, <2>3, Distinct, NoOpFacts DEF StepsOfOp, OneCore, StateTold, Running,
       ControlKeepsLock, Places, Starting, StartSteps, StopSteps, UpdateSteps, ReadPrevious
  <2> QED
    BY <2>2, <2>3
<1> QED
  BY <1>1, <1>2, <1>3

LEMMA MarkKeeps == ASSUME IInv, Mark PROVE KInv'
<1> USE DEF IInv, KInv, TInv, TypeOK
<1>1. OneCore' /\ StateTold'
  BY Distinct DEF DataOK, StepsOfOp, OneCore, StateTold, ControlKeepsLock, Places,
     Starting, StartSteps, StopSteps, Running, Mark
<1>2. ControlKeepsLock'
  BY NoOpFacts DEF StepsOfOp, StateTold, ControlKeepsLock, Places, Starting, StartSteps,
     UpdateSteps, Mark
<1>3. Places'
  BY Distinct, NoOpFacts DEF StepsOfOp, OneCore, StateTold, Running, ControlKeepsLock,
     Places, Starting, StartSteps, StopSteps, UpdateSteps, Mark
<1> QED
  BY <1>1, <1>2, <1>3

LEMMA ApplyKeeps == ASSUME IInv, Apply PROVE KInv'
<1> USE DEF IInv, KInv, TInv, TypeOK
<1>1. OneCore' /\ StateTold'
  BY Distinct DEF DataOK, StepsOfOp, OneCore, StateTold, ControlKeepsLock, Places,
     Starting, StartSteps, StopSteps, Running, Apply
<1>2. ControlKeepsLock'
  BY NoOpFacts DEF StepsOfOp, StateTold, ControlKeepsLock, Places, Starting, StartSteps,
     UpdateSteps, Apply
<1>3. Places'
  BY Distinct, NoOpFacts DEF StepsOfOp, OneCore, StateTold, Running, ControlKeepsLock,
     Places, Starting, StartSteps, StopSteps, UpdateSteps, Apply
<1> QED
  BY <1>1, <1>2, <1>3

LEMMA LaunchCandidateKeeps == ASSUME IInv, LaunchCandidate PROVE KInv'
<1> USE DEF IInv, KInv, TInv, TypeOK
<1>1. /\ pc["op"] = "clear" /\ pc["boot"] = "idle" /\ op.kind = "update" /\ op.cand \in Images
      /\ core = NoCore /\ control /\ up /\ lock = "ours"
  <2>1. pc["op"] = "clear" /\ op.kind = "update" /\ state = "updating" /\ op.cand \in Images
    BY DEF LaunchCandidate, Places, DataOK, StepsOfOp, UpdateSteps, CandKnown, Images
  <2> QED
    BY <2>1 DEF StateTold, Places, ControlKeepsLock
<1>2. /\ op' = op /\ UNCHANGED <<control, up, lock>> /\ pc'["boot"] = "idle"
      /\ pc'["op"] \in {"await", "restore"}
  BY <1>1 DEF LaunchCandidate
<1>3. CASE Launch(op.cand) /\ pc'["op"] = "await"
  <2>1. core' # NoCore /\ state' = "starting" /\ OneCore' /\ Running(core)'
    BY <1>1, <1>3, LaunchFacts
  <2> QED
    BY <1>1, <1>2, <1>3, <2>1
    DEF StateTold, ControlKeepsLock, Places, Starting, StartSteps, StopSteps
<1>4. CASE LaunchThrows /\ state' = "starting" /\ pc'["op"] = "restore"
  BY <1>1, <1>2, <1>4
  DEF OneCore, Running, LaunchThrows, StateTold, ControlKeepsLock, Places, Starting,
      StartSteps, StopSteps
<1> QED
  BY <1>1, <1>3, <1>4 DEF LaunchCandidate

LEMMA SeenReadyKeeps == ASSUME IInv, SeenReady PROVE KInv'
<1> USE DEF IInv, KInv, TInv, TypeOK
<1>1. OneCore' /\ StateTold'
  BY Distinct DEF DataOK, StepsOfOp, OneCore, StateTold, ControlKeepsLock, Places,
     Starting, StartSteps, StopSteps, Running, SeenReady
<1>2. ControlKeepsLock'
  BY NoOpFacts DEF StepsOfOp, StateTold, ControlKeepsLock, Places, Starting, StartSteps,
     UpdateSteps, SeenReady
<1>3. Places'
  BY Distinct, NoOpFacts DEF StepsOfOp, OneCore, StateTold, Running, ControlKeepsLock,
     Places, Starting, StartSteps, StopSteps, UpdateSteps, SeenReady
<1> QED
  BY <1>1, <1>2, <1>3

LEMMA CompleteKeeps == ASSUME IInv, Complete PROVE KInv'
<1> USE DEF IInv, KInv, TInv, TypeOK
<1>1. OneCore' /\ StateTold'
  BY Distinct DEF DataOK, StepsOfOp, OneCore, StateTold, ControlKeepsLock, Places,
     Starting, StartSteps, StopSteps, Running, Complete
<1>2. ControlKeepsLock'
  BY NoOpFacts DEF StepsOfOp, StateTold, ControlKeepsLock, Places, Starting, StartSteps,
     UpdateSteps, Complete
<1>3. Places'
  BY Distinct, NoOpFacts DEF StepsOfOp, OneCore, StateTold, Running, ControlKeepsLock,
     Places, Starting, StartSteps, StopSteps, UpdateSteps, Complete
<1> QED
  BY <1>1, <1>2, <1>3

LEMMA RollBackKeeps == ASSUME IInv, RollBack PROVE KInv'
<1> USE DEF IInv, KInv, TInv, TypeOK
<1>1. OneCore' /\ StateTold'
  BY Distinct DEF DataOK, StepsOfOp, OneCore, StateTold, ControlKeepsLock, Places,
     Starting, StartSteps, StopSteps, Running, RollBack, Failing, StopCore,
     Stopped, RollbackState
<1>2. ControlKeepsLock'
  BY NoOpFacts DEF StepsOfOp, StateTold, ControlKeepsLock, Places, Starting, StartSteps,
     UpdateSteps, RollBack, Failing, StopCore, Stopped, RollbackState
<1>3. Places'
  <2>1. CASE core = NoCore
    <3>1. pc'["op"] = "restore" /\ pc'["boot"] = pc["boot"] /\ op' = op
      BY <2>1 DEF RollBack, StopCore, Stopped
    <3>2. state' \in {"starting", "updating", "crash-loop-stopped"}
      BY <2>1, Distinct DEF RollBack, Failing, StopCore, Stopped, RollbackState,
         Places, StateTold, Running
    <3>3. pc["boot"] = "idle"
      BY DEF RollBack, Failing, Places, StepsOfOp, UpdateSteps
    <3> QED
      BY <2>1, <3>1, <3>2, <3>3 DEF Places, Starting, StartSteps, StopSteps, RollBack
  <2>2. CASE core # NoCore
    BY ZenonT(60), <2>2, Distinct, NoOpFacts DEF StepsOfOp, OneCore, StateTold, Running,
       ControlKeepsLock, Places, Starting, StartSteps, StopSteps, UpdateSteps, RollBack,
       Failing, StopCore
  <2> QED
    BY <2>1, <2>2
<1> QED
  BY <1>1, <1>2, <1>3

LEMMA RestoreKeeps == ASSUME IInv, Restore PROVE KInv'
<1> USE DEF IInv, KInv, TInv, TypeOK
<1>1. OneCore' /\ StateTold'
  BY Distinct DEF DataOK, StepsOfOp, OneCore, StateTold, ControlKeepsLock, Places,
     Starting, StartSteps, StopSteps, Running, Restore
<1>2. ControlKeepsLock'
  BY NoOpFacts DEF StepsOfOp, StateTold, ControlKeepsLock, Places, Starting, StartSteps,
     UpdateSteps, Restore
<1>3. Places'
  BY Distinct, NoOpFacts DEF StepsOfOp, OneCore, StateTold, Running, ControlKeepsLock,
     Places, Starting, StartSteps, StopSteps, UpdateSteps, Restore
<1> QED
  BY <1>1, <1>2, <1>3

LEMMA LaunchPreviousKeeps == ASSUME IInv, LaunchPrevious PROVE KInv'
<1> USE DEF IInv, KInv, TInv, TypeOK
<1>1. /\ pc["op"] = "forget update" /\ core = NoCore /\ control /\ op.kind = "update"
      /\ pc["boot"] = "idle" /\ op.prev \in Images /\ up /\ lock = "ours"
  BY DEF LaunchPrevious, DataOK, Places, StepsOfOp, UpdateSteps, ControlKeepsLock
<1>2. UNCHANGED <<control, up, lock>> /\ pc'["boot"] = "idle"
  BY <1>1 DEF LaunchPrevious
<1>3. CASE Launch(op.prev) /\ pc'["op"] = "await back" /\ op' = op
  <2>1. core' # NoCore /\ state' = "starting" /\ OneCore' /\ Running(core)'
    BY <1>1, <1>3, LaunchFacts
  <2> QED
    BY <1>1, <1>2, <1>3, <2>1
    DEF StateTold, ControlKeepsLock, Places, Starting, StartSteps, StopSteps
<1>4. ASSUME UNCHANGED <<core, runs>>, pc'["op"] = "idle", op' = NoOp,
             state' = "stopped" \/ (state' = "starting" /\ "thrown" \in happened')
      PROVE  KInv'
  BY <1>1, <1>2, <1>4, NoOpFacts
  DEF OneCore, Running, StateTold, ControlKeepsLock, Places, Starting, StartSteps, StopSteps
<1> QED
  BY <1>1, <1>3, <1>4 DEF LaunchPrevious, LaunchThrows

LEMMA RestoreFailsKeeps == ASSUME IInv, RestoreFails PROVE KInv'
<1> USE DEF IInv, KInv, TInv, TypeOK
<1>1. OneCore' /\ StateTold'
  BY Distinct DEF DataOK, StepsOfOp, OneCore, StateTold, ControlKeepsLock, Places,
     Starting, StartSteps, StopSteps, Running, RestoreFails
<1>2. ControlKeepsLock'
  BY NoOpFacts DEF StepsOfOp, StateTold, ControlKeepsLock, Places, Starting, StartSteps,
     UpdateSteps, RestoreFails
<1>3. Places'
  BY Distinct, NoOpFacts DEF StepsOfOp, OneCore, StateTold, Running, ControlKeepsLock,
     Places, Starting, StartSteps, StopSteps, UpdateSteps, RestoreFails
<1> QED
  BY <1>1, <1>2, <1>3

LEMMA SeenReadyBackKeeps == ASSUME IInv, SeenReadyBack PROVE KInv'
<1> USE DEF IInv, KInv, TInv, TypeOK
<1>1. OneCore' /\ StateTold'
  BY Distinct DEF DataOK, StepsOfOp, OneCore, StateTold, ControlKeepsLock, Places,
     Starting, StartSteps, StopSteps, Running, SeenReadyBack
<1>2. ControlKeepsLock'
  BY NoOpFacts DEF StepsOfOp, StateTold, ControlKeepsLock, Places, Starting, StartSteps,
     UpdateSteps, SeenReadyBack
<1>3. Places'
  BY Distinct, NoOpFacts DEF StepsOfOp, OneCore, StateTold, Running, ControlKeepsLock,
     Places, Starting, StartSteps, StopSteps, UpdateSteps, SeenReadyBack
<1> QED
  BY <1>1, <1>2, <1>3

LEMMA BackFailsKeeps == ASSUME IInv, BackFails PROVE KInv'
<1> USE DEF IInv, KInv, TInv, TypeOK
<1>1. OneCore' /\ StateTold'
  BY Distinct DEF DataOK, StepsOfOp, OneCore, StateTold, ControlKeepsLock, Places,
     Starting, StartSteps, StopSteps, Running, BackFails, StopCore, Stopped
<1>2. ControlKeepsLock'
  BY NoOpFacts DEF StepsOfOp, StateTold, ControlKeepsLock, Places, Starting, StartSteps,
     UpdateSteps, BackFails, StopCore, Stopped
<1>3. Places'
  BY ZenonT(60), Distinct, NoOpFacts DEF StepsOfOp, OneCore, StateTold, Running, ControlKeepsLock,
     Places, Starting, StartSteps, StopSteps, UpdateSteps, BackFails, StopCore,
     Stopped
<1> QED
  BY <1>1, <1>2, <1>3

LEMMA CoreReadyKeeps == ASSUME IInv, CoreReady PROVE KInv'
<1> USE DEF IInv, KInv, TInv, TypeOK
<1>1. OneCore' /\ StateTold'
  BY Distinct DEF DataOK, StepsOfOp, OneCore, StateTold, ControlKeepsLock, Places,
     Starting, StartSteps, StopSteps, Running, CoreReady
<1>2. ControlKeepsLock'
  BY NoOpFacts DEF StepsOfOp, StateTold, ControlKeepsLock, Places, Starting, StartSteps,
     UpdateSteps, CoreReady
<1>3. Places'
  BY Distinct, NoOpFacts DEF StepsOfOp, OneCore, StateTold, Running, ControlKeepsLock,
     Places, Starting, StartSteps, StopSteps, UpdateSteps, CoreReady
<1> QED
  BY <1>1, <1>2, <1>3

LEMMA CoreExitsKeeps == ASSUME IInv, NEW g \in Cores, CoreExits(g) PROVE KInv'
<1> USE DEF IInv, KInv, TInv, TypeOK
<1>1. OneCore' /\ StateTold'
  BY Distinct DEF DataOK, StepsOfOp, OneCore, StateTold, ControlKeepsLock, Places,
     Starting, StartSteps, StopSteps, Running, CoreExits, Crash
<1>2. ControlKeepsLock'
  BY NoOpFacts DEF StepsOfOp, StateTold, ControlKeepsLock, Places, Starting, StartSteps,
     UpdateSteps, CoreExits, Crash
<1>3. Places'
  BY Distinct, NoOpFacts DEF StepsOfOp, OneCore, StateTold, Running, ControlKeepsLock,
     Places, Starting, StartSteps, StopSteps, UpdateSteps, CoreExits, Crash
<1> QED
  BY <1>1, <1>2, <1>3

LEMMA OrphanExitsKeeps == ASSUME IInv, NEW g \in Cores, OrphanExits(g) PROVE KInv'
<1> USE DEF IInv, KInv, TInv, TypeOK
<1>1. \A h \in Cores : Running(h)' <=> Running(h)
  BY Distinct DEF OrphanExits, Running, DataOK
<1>2. Running(core)' <=> Running(core)
  BY <1>1 DEF OrphanExits, Running
<1>3. OneCore' /\ StateTold'
  BY <1>1, <1>2 DEF OneCore, StateTold, OrphanExits
<1>4. ControlKeepsLock' /\ Places'
  BY DEF ControlKeepsLock, Places, Starting, OrphanExits
<1> QED
  BY <1>3, <1>4

LEMMA RelaunchKeeps == ASSUME IInv, Relaunch PROVE KInv'
<1> USE DEF IInv, KInv, TInv, TypeOK
<1>1. core = NoCore /\ active \in Images /\ Launch(active)
  BY DEF StateTold, DataOK, Relaunch
<1>2. core' # NoCore /\ state' = "starting" /\ OneCore' /\ Running(core)'
  BY <1>1, LaunchFacts
<1>3. StateTold' /\ ControlKeepsLock'
  BY <1>2 DEF StateTold, ControlKeepsLock, Places, Starting, StartSteps, Relaunch
<1>4. Places'
  BY <1>2 DEF Places, Starting, StartSteps, StopSteps, ControlKeepsLock, Relaunch
<1> QED
  BY <1>2, <1>3, <1>4

LEMMA PrepareKeeps ==
    ASSUME IInv, NEW image \in Releases \cup {Nothing}, Prepare(image)
    PROVE  KInv'
<1> USE DEF IInv, KInv, TInv, TypeOK
<1>1. OneCore' /\ StateTold'
  BY Distinct DEF DataOK, StepsOfOp, OneCore, StateTold, ControlKeepsLock, Places,
     Starting, StartSteps, StopSteps, Running, Prepare
<1>2. ControlKeepsLock'
  BY NoOpFacts DEF StepsOfOp, StateTold, ControlKeepsLock, Places, Starting, StartSteps,
     UpdateSteps, Prepare
<1>3. Places'
  BY Distinct, NoOpFacts DEF StepsOfOp, OneCore, StateTold, Running, ControlKeepsLock,
     Places, Starting, StartSteps, StopSteps, UpdateSteps, Prepare
<1> QED
  BY <1>1, <1>2, <1>3

LEMMA OtherServerKeeps == ASSUME IInv, OtherServer PROVE KInv'
<1> USE DEF IInv, KInv, TInv, TypeOK
<1>1. OneCore' /\ StateTold'
  BY Distinct DEF DataOK, StepsOfOp, OneCore, StateTold, ControlKeepsLock, Places,
     Starting, StartSteps, StopSteps, Running, OtherServer
<1>2. ControlKeepsLock'
  BY NoOpFacts DEF StepsOfOp, StateTold, ControlKeepsLock, Places, Starting, StartSteps,
     UpdateSteps, OtherServer
<1>3. Places'
  BY Distinct, NoOpFacts DEF StepsOfOp, OneCore, StateTold, Running, ControlKeepsLock,
     Places, Starting, StartSteps, StopSteps, UpdateSteps, OtherServer
<1> QED
  BY <1>1, <1>2, <1>3

LEMMA StartKeeps == ASSUME IInv, NEW t \in {"boot", "op"}, Start(t) PROVE KInv'
<1>1. CASE t = "boot" /\ (LockHeld(t) \/ GiveUp(t))
  BY <1>1, ExitKeeps DEF LockHeld, GiveUp
<1>2. CASE t = "op" /\ (LockHeld(t) \/ GiveUp(t))
  BY <1>2, LockHeldInOpKeeps, GiveUpInOpKeeps
<1>3. CASE \/ Enter(t) \/ Lock(t) \/ Recover(t) \/ Forget(t) \/ RecoveryFails(t)
           \/ ReadCurrent(t) \/ Listen(t) \/ NoListen(t) \/ Open(t) \/ OpenThrows(t)
  BY <1>3, EnterKeeps, LockKeeps, RecoverKeeps, ForgetKeeps, RecoveryFailsKeeps,
     ReadCurrentKeeps, ListenKeeps, NoListenKeeps, OpenKeeps, OpenThrowsKeeps
<1> QED
  BY <1>1, <1>2, <1>3 DEF Start

LEMMA OperationKeeps == ASSUME IInv, Operation PROVE KInv'
<1>1. CASE Start("op")
  BY <1>1, StartKeeps
<1>2. CASE CoreStopped \/ KillTimesOut \/ BeginStop \/ Close \/ Release
  BY <1>2, CoreStoppedKeeps, KillTimesOutKeeps, BeginStopKeeps, CloseKeeps, ReleaseKeeps
<1>3. CASE \/ RefuseUpdate \/ BeginUpdate \/ ReadPrevious \/ Mark \/ Apply \/ LaunchCandidate
           \/ SeenReady \/ Complete
  BY <1>3, RefuseUpdateKeeps, BeginUpdateKeeps, ReadPreviousKeeps, MarkKeeps, ApplyKeeps,
     LaunchCandidateKeeps, SeenReadyKeeps, CompleteKeeps
<1>4. CASE \/ RollBack \/ Restore \/ LaunchPrevious \/ RestoreFails \/ SeenReadyBack \/ BackFails
  BY <1>4, RollBackKeeps, RestoreKeeps, LaunchPreviousKeeps, RestoreFailsKeeps,
     SeenReadyBackKeeps, BackFailsKeeps
<1> QED
  BY <1>1, <1>2, <1>3, <1>4 DEF Operation

LEMMA StepKeeps == ASSUME IInv, [Next]_vars, "early" \notin happened' PROVE KInv'
<1>1. CASE Boot \/ Start("boot") \/ Operation
  BY <1>1, BootKeeps, StartKeeps, OperationKeeps
<1>2. CASE \E kind \in {"stop", "restart", "update"} : Request(kind)
  BY <1>2, RequestKeeps
<1>3. CASE CoreReady \/ Relaunch \/ Die \/ OtherServer
  BY <1>3, CoreReadyKeeps, RelaunchKeeps, ExitKeeps, OtherServerKeeps DEF Die
<1>4. CASE \E g \in Cores : CoreExits(g) \/ OrphanExits(g)
  BY <1>4, CoreExitsKeeps, OrphanExitsKeeps
<1>5. CASE \E image \in Releases \cup {Nothing} : Prepare(image)
  BY <1>5, PrepareKeeps
<1>6. CASE UNCHANGED vars
  BY <1>6 DEF IInv, KInv, OneCore, StateTold, Running, ControlKeepsLock, Places, Starting, vars
<1> QED
  BY <1>1, <1>2, <1>3, <1>4, <1>5, <1>6 DEF Next

(* The inductive invariant, for the core and the lock. *)
THEOREM Invariance == Spec => []LockInv
<1>1. Init => LockInv
  BY TypedInit, KInit DEF LockInv
<1>2. LockInv /\ [Next]_vars => LockInv'
  BY TypedStep, StepKeeps, Remembered DEF LockInv, IInv
<1> QED
  BY <1>1, <1>2, PTL DEF Spec

\* As long as no request comes while start() still opens the control server,
\* whatever else happens (also an update over one left open, a pending.json that
\* changes between its two readings, a launch that throws, cores that outlive a
\* supervisor): a core that runs is this.core, and the data root is locked.
THEOREM NeverTwoCores == Spec => []OneCoreUnderLock
<1>1. LockInv => OneCoreUnderLock
  BY Distinct DEF LockInv, KInv, OneCore, OneCoreUnderLock, ControlKeepsLock, Running
<1> QED
  BY Invariance, <1>1, PTL

\* Under the same condition the state that status reports tells whether there is
\* a core, but for "starting" after a launch that threw.
THEOREM StateTruthful == Spec => []StateTellsCore
<1>1. LockInv => StateTellsCore
  BY DEF LockInv, KInv, StateTold, StateTellsCore
<1> QED
  BY Invariance, <1>1, PTL

--------------------------------------------------------------------------------
(* DInv, action by action, as long as the supervisor is undisturbed.           *)
LEMMA FilesInit == Init => DInv
<1>1. Init => CurrentKept /\ Files
  BY Distinct DEF Init, CurrentKept, Files, Running
<1>2. Init => (\A t \in {"boot", "op"} : FilesRead(t)) /\ FilesSwitched
  BY NoOpFacts DEF Init, FilesRead, FilesSwitched, Switching
<1> QED
  BY <1>1, <1>2 DEF DInv

LEMMA FilesExit == ASSUME IInv, DInv, Exit PROVE DInv'
<1>1. pc' = [t \in {"boot", "op"} |-> "idle"]
  BY DEF Exit
<1> QED
  BY <1>1, NoOpFacts, Distinct
  DEF Exit, DInv, CurrentKept, Files, FilesRead, FilesSwitched, Switching, Running

LEMMA LaunchRuns ==
    ASSUME DataOK, NEW image \in Images, Launch(image)
    PROVE  runs'[core'] = image /\ state' = "starting"
BY LaunchTyped

LEMMA NoSwitchInStart ==
    ASSUME op'.kind # "update", pc'["op"] \in StartSteps \cup {"idle"}
    PROVE  FilesSwitched'
BY DEF FilesSwitched, Switching, StartSteps

LEMMA OneStart ==
    ASSUME IInv, pc["boot"] \in StartSteps
    PROVE  pc["op"] \notin StartSteps
BY DEF IInv, KInv, TInv, TypeOK, StepsOfOp, Places, StartSteps

LEMMA FilesBoot == ASSUME IInv, DInv, Boot PROVE DInv'
<1> USE DEF IInv, KInv, TInv, TypeOK, DInv
<1>1. CurrentKept' /\ Files'
  BY Distinct, NoOpFacts DEF CurrentKept, Files, FilesRead, FilesSwitched, Switching,
     ControlKeepsLock, Places, Starting, StepsOfOp, StateTold, OneCore, Running,
     StartSteps, UpdateSteps, DataOK, Boot
<1>2. \A u \in {"boot", "op"} : FilesRead(u)'
  BY Distinct, NoOpFacts DEF FilesRead, Places, Starting, StepsOfOp, StartSteps, UpdateSteps,
     StopSteps, Boot
<1>3. FilesSwitched'
  BY Distinct, NoOpFacts DEF CurrentKept, Files, FilesSwitched, Switching, StepsOfOp,
     ControlKeepsLock, Places, StartSteps, UpdateSteps, StopSteps, Boot
<1> QED
  BY <1>1, <1>2, <1>3

LEMMA FilesEnter == ASSUME IInv, DInv, NEW t \in {"boot", "op"}, Enter(t) PROVE DInv'
<1> USE DEF IInv, KInv, TInv, TypeOK, DInv
<1>1. CurrentKept' /\ Files'
  BY Distinct, NoOpFacts DEF CurrentKept, Files, FilesRead, FilesSwitched, Switching,
     ControlKeepsLock, Places, Starting, StepsOfOp, StateTold, OneCore, Running,
     StartSteps, UpdateSteps, DataOK, Enter, StartReturns
<1>2. \A u \in {"boot", "op"} : FilesRead(u)'
  BY Distinct, NoOpFacts DEF FilesRead, Places, Starting, StepsOfOp, StartSteps, UpdateSteps,
     StopSteps, Enter, StartReturns
<1>3. FilesSwitched'
  <2>0. pc[t] \in StartSteps
    BY DEF StartSteps, Enter
  <2>1. op.kind # "update" /\ pc["op"] \in StartSteps \cup {"idle"}
    BY <2>0 DEF StepsOfOp, Places, StartSteps, UpdateSteps
  <2>2. op'.kind # "update" /\ pc'["op"] \in StartSteps \cup {"idle"}
    BY <2>1, NoOpFacts DEF StartSteps, Enter, StartReturns
  <2> QED
    BY <2>2, NoSwitchInStart
<1> QED
  BY <1>1, <1>2, <1>3

LEMMA FilesLock == ASSUME IInv, DInv, NEW t \in {"boot", "op"}, Lock(t) PROVE DInv'
<1> USE DEF IInv, KInv, TInv, TypeOK, DInv
<1>1. CurrentKept' /\ Files'
  BY Distinct, NoOpFacts DEF CurrentKept, Files, FilesRead, FilesSwitched, Switching,
     ControlKeepsLock, Places, Starting, StepsOfOp, StateTold, OneCore, Running,
     StartSteps, UpdateSteps, DataOK, Lock
<1>2. \A u \in {"boot", "op"} : FilesRead(u)'
  BY Distinct, NoOpFacts DEF FilesRead, Places, Starting, StepsOfOp, StartSteps, UpdateSteps,
     StopSteps, Lock
<1>3. FilesSwitched'
  <2>0. pc[t] \in StartSteps
    BY DEF StartSteps, Lock
  <2>1. op.kind # "update" /\ pc["op"] \in StartSteps \cup {"idle"}
    BY <2>0 DEF StepsOfOp, Places, StartSteps, UpdateSteps
  <2>2. op'.kind # "update" /\ pc'["op"] \in StartSteps \cup {"idle"}
    BY <2>1, NoOpFacts DEF StartSteps, Lock
  <2> QED
    BY <2>2, NoSwitchInStart
<1> QED
  BY <1>1, <1>2, <1>3

LEMMA FilesLockHeldInOp ==
    ASSUME IInv, DInv, NEW t \in {"boot", "op"}, LockHeld(t), t = "op"
    PROVE  DInv'
<1> USE DEF IInv, KInv, TInv, TypeOK, DInv
<1>1. CurrentKept' /\ Files'
  BY DEF CurrentKept, Files, Running, LockHeld, StartReturns
<1>2. \A u \in {"boot", "op"} : FilesRead(u)'
  BY Distinct, NoOpFacts DEF FilesRead, Places, Starting, StepsOfOp, StartSteps, UpdateSteps,
     StopSteps, LockHeld, StartReturns
<1>3. FilesSwitched'
  <2>0. pc[t] \in StartSteps
    BY DEF StartSteps, LockHeld
  <2>1. op.kind # "update" /\ pc["op"] \in StartSteps \cup {"idle"}
    BY <2>0 DEF StepsOfOp, Places, StartSteps, UpdateSteps
  <2>2. op'.kind # "update" /\ pc'["op"] \in StartSteps \cup {"idle"}
    BY <2>1, NoOpFacts DEF StartSteps, LockHeld, StartReturns
  <2> QED
    BY <2>2, NoSwitchInStart
<1> QED
  BY <1>1, <1>2, <1>3

LEMMA FilesRecover == ASSUME IInv, DInv, NEW t \in {"boot", "op"}, Recover(t) PROVE DInv'
<1> USE DEF IInv, KInv, TInv, TypeOK, DInv
<1>1. CurrentKept' /\ Files'
  BY Distinct, NoOpFacts DEF CurrentKept, Files, FilesRead, FilesSwitched, Switching,
     ControlKeepsLock, Places, Starting, StepsOfOp, StateTold, OneCore, Running,
     StartSteps, UpdateSteps, DataOK, Recover
<1>2. \A u \in {"boot", "op"} : FilesRead(u)'
  <2>1. \A u \in {"boot", "op"} \ {t} : pc'[u] = pc[u] /\ pc'[u] \notin StartSteps
    BY OneStart DEF Recover, StartSteps
  <2>2. FilesRead(t)'
    BY Distinct DEF FilesRead, Recover
  <2> QED
    BY <2>1, <2>2 DEF FilesRead, StartSteps
<1>3. FilesSwitched'
  <2>0. pc[t] \in StartSteps
    BY DEF StartSteps, Recover
  <2>1. op.kind # "update" /\ pc["op"] \in StartSteps \cup {"idle"}
    BY <2>0 DEF StepsOfOp, Places, StartSteps, UpdateSteps
  <2>2. op'.kind # "update" /\ pc'["op"] \in StartSteps \cup {"idle"}
    BY <2>1, NoOpFacts DEF StartSteps, Recover
  <2> QED
    BY <2>2, NoSwitchInStart
<1> QED
  BY <1>1, <1>2, <1>3

LEMMA FilesForget == ASSUME IInv, DInv, NEW t \in {"boot", "op"}, Forget(t) PROVE DInv'
<1> USE DEF IInv, KInv, TInv, TypeOK, DInv
<1>1. CurrentKept' /\ Files'
  BY Distinct, NoOpFacts DEF CurrentKept, Files, FilesRead, FilesSwitched, Switching,
     ControlKeepsLock, Places, Starting, StepsOfOp, StateTold, OneCore, Running,
     StartSteps, UpdateSteps, DataOK, Forget
<1>2. \A u \in {"boot", "op"} : FilesRead(u)'
  <2>1. /\ pc'[t] = "read"
        /\ \A u \in {"boot", "op"} \ {t} : pc'[u] = pc[u] /\ pc'[u] \notin StartSteps
    BY OneStart DEF Forget, StartSteps
  <2> QED
    BY <2>1 DEF FilesRead, StartSteps, Forget
<1>3. FilesSwitched'
  <2>0. pc[t] \in StartSteps
    BY DEF StartSteps, Forget
  <2>1. op.kind # "update" /\ pc["op"] \in StartSteps \cup {"idle"}
    BY <2>0 DEF StepsOfOp, Places, StartSteps, UpdateSteps
  <2>2. op'.kind # "update" /\ pc'["op"] \in StartSteps \cup {"idle"}
    BY <2>1, NoOpFacts DEF StartSteps, Forget
  <2> QED
    BY <2>2, NoSwitchInStart
<1> QED
  BY <1>1, <1>2, <1>3

(* A start that fails touches no file. *)
LEMMA FilesStartFails ==
    ASSUME IInv, DInv, NEW t \in {"boot", "op"}, NEW s, s # "ready", pc[t] \in StartSteps,
           StartFails(t, s), UNCHANGED <<core, runs>>
    PROVE  DInv'
<1> USE DEF IInv, KInv, TInv, TypeOK, DInv
<1>1. state' # "ready" /\ UNCHANGED <<current, marker, active, proven, op>> /\ ~control'
  BY DEF StartFails
<1>2. CurrentKept' /\ Files'
  BY <1>1 DEF CurrentKept, Files, Running
<1>3. /\ pc'[t] \in {"unstart", "give up"}
      /\ \A u \in {"boot", "op"} \ {t} : pc'[u] = pc[u]
  BY DEF StartFails
<1>4. \A u \in {"boot", "op"} : FilesRead(u)'
  BY <1>1, <1>3 DEF FilesRead
<1>5. op.kind # "update" /\ pc["op"] \in StartSteps \cup {"idle"}
  BY DEF StepsOfOp, Places, StartSteps, UpdateSteps
<1>6. FilesSwitched'
  BY <1>1, <1>3, <1>5, NoSwitchInStart DEF StartSteps
<1> QED
  BY <1>2, <1>4, <1>6

LEMMA FilesRecoveryFails ==
    ASSUME IInv, DInv, NEW t \in {"boot", "op"}, RecoveryFails(t)
    PROVE  DInv'
<1>1. pc[t] \in StartSteps \ {"unstart", "give up"}
  BY DEF RecoveryFails, StartSteps
<1>2. StartFails(t, "stop-failed") /\ UNCHANGED <<core, runs>>
  BY DEF RecoveryFails
<1>3. "stop-failed" # "ready"
  BY <1>1 DEF RecoveryFails, IInv, KInv, Places, Starting
<1> QED
  BY <1>1, <1>2, <1>3, FilesStartFails

LEMMA FilesReadCurrent ==
    ASSUME IInv, DInv, NEW t \in {"boot", "op"}, ReadCurrent(t)
    PROVE  DInv'
<1> USE DEF IInv, KInv, TInv, TypeOK, DInv
<1>1. CurrentKept' /\ Files'
  BY Distinct, NoOpFacts DEF CurrentKept, Files, FilesRead, FilesSwitched, Switching,
     ControlKeepsLock, Places, Starting, StepsOfOp, StateTold, OneCore, Running,
     StartSteps, UpdateSteps, DataOK, ReadCurrent
<1>2. \A u \in {"boot", "op"} : FilesRead(u)'
  BY Distinct, NoOpFacts DEF FilesRead, Places, Starting, StepsOfOp, StartSteps, UpdateSteps,
     StopSteps, ReadCurrent
<1>3. FilesSwitched'
  <2>0. pc[t] \in StartSteps
    BY DEF StartSteps, ReadCurrent
  <2>1. op.kind # "update" /\ pc["op"] \in StartSteps \cup {"idle"}
    BY <2>0 DEF StepsOfOp, Places, StartSteps, UpdateSteps
  <2>2. op'.kind # "update" /\ pc'["op"] \in StartSteps \cup {"idle"}
    BY <2>1, NoOpFacts DEF StartSteps, ReadCurrent
  <2> QED
    BY <2>2, NoSwitchInStart
<1> QED
  BY <1>1, <1>2, <1>3

LEMMA FilesListen == ASSUME IInv, DInv, NEW t \in {"boot", "op"}, Listen(t) PROVE DInv'
<1> USE DEF IInv, KInv, TInv, TypeOK, DInv
<1>1. CurrentKept' /\ Files'
  BY Distinct, NoOpFacts DEF CurrentKept, Files, FilesRead, FilesSwitched, Switching,
     ControlKeepsLock, Places, Starting, StepsOfOp, StateTold, OneCore, Running,
     StartSteps, UpdateSteps, DataOK, Listen
<1>2. \A u \in {"boot", "op"} : FilesRead(u)'
  BY Distinct, NoOpFacts DEF FilesRead, Places, Starting, StepsOfOp, StartSteps, UpdateSteps,
     StopSteps, Listen
<1>3. FilesSwitched'
  <2>0. pc[t] \in StartSteps
    BY DEF StartSteps, Listen
  <2>1. op.kind # "update" /\ pc["op"] \in StartSteps \cup {"idle"}
    BY <2>0 DEF StepsOfOp, Places, StartSteps, UpdateSteps
  <2>2. op'.kind # "update" /\ pc'["op"] \in StartSteps \cup {"idle"}
    BY <2>1, NoOpFacts DEF StartSteps, Listen
  <2> QED
    BY <2>2, NoSwitchInStart
<1> QED
  BY <1>1, <1>2, <1>3

LEMMA FilesNoListen ==
    ASSUME IInv, DInv, NEW t \in {"boot", "op"}, NoListen(t)
    PROVE  DInv'
<1>1. pc[t] \in StartSteps \ {"unstart", "give up"}
  BY DEF NoListen, StartSteps
<1>2. StartFails(t, state) /\ UNCHANGED <<core, runs>>
  BY DEF NoListen
<1>3. state # "ready"
  BY <1>1 DEF NoListen, IInv, KInv, Places, Starting
<1> QED
  BY <1>1, <1>2, <1>3, FilesStartFails

LEMMA FilesOpen == ASSUME IInv, DInv, NEW t \in {"boot", "op"}, Open(t) PROVE DInv'
<1> USE DEF IInv, KInv, TInv, TypeOK, DInv
<1>0. active \in Images /\ Launch(active)
  BY Distinct DEF DataOK, Places, StepsOfOp, UpdateSteps, Open, StartReturns
<1>a. runs'[core'] = active /\ state' = "starting"
  BY <1>0, LaunchRuns
<1>1. CurrentKept' /\ Files'
  BY <1>a, Distinct, NoOpFacts DEF CurrentKept, Files, FilesRead, FilesSwitched, Switching,
     ControlKeepsLock, Places, Starting, StepsOfOp, StateTold, OneCore, Running,
     StartSteps, UpdateSteps, DataOK, Open, StartReturns
<1>2. \A u \in {"boot", "op"} : FilesRead(u)'
  BY <1>a, Distinct, NoOpFacts DEF FilesRead, Places, Starting, StepsOfOp, StartSteps,
     UpdateSteps, StopSteps, Open, StartReturns
<1>3. FilesSwitched'
  <2>0. pc[t] \in StartSteps
    BY DEF StartSteps, Open
  <2>1. op.kind # "update" /\ pc["op"] \in StartSteps \cup {"idle"}
    BY <2>0 DEF StepsOfOp, Places, StartSteps, UpdateSteps
  <2>2. op'.kind # "update" /\ pc'["op"] \in StartSteps \cup {"idle"}
    BY <2>1, NoOpFacts DEF StartSteps, Open, StartReturns
  <2> QED
    BY <2>2, NoSwitchInStart
<1> QED
  BY <1>1, <1>2, <1>3

LEMMA FilesOpenThrows ==
    ASSUME IInv, DInv, NEW t \in {"boot", "op"}, OpenThrows(t)
    PROVE  DInv'
<1>1. pc[t] \in StartSteps \ {"unstart", "give up"}
  BY DEF OpenThrows, StartSteps
<1>2. StartFails(t, "starting") /\ UNCHANGED <<core, runs>>
  BY DEF OpenThrows, LaunchThrows
<1>3. "starting" # "ready"
  BY <1>1 DEF OpenThrows, IInv, KInv, Places, Starting
<1> QED
  BY <1>1, <1>2, <1>3, FilesStartFails

LEMMA FilesGiveUpInOp ==
    ASSUME IInv, DInv, NEW t \in {"boot", "op"}, GiveUp(t), t = "op"
    PROVE  DInv'
<1> USE DEF IInv, KInv, TInv, TypeOK, DInv
<1>1. CurrentKept' /\ Files'
  <2>1. /\ state' # "ready"
        /\ UNCHANGED <<current, marker, core, active, control, runs, proven>>
    BY DEF GiveUp
  <2> QED
    BY <2>1 DEF CurrentKept, Files, Running
<1>2. \A u \in {"boot", "op"} : FilesRead(u)'
  BY DEF FilesRead, GiveUp
<1>3. FilesSwitched'
  BY NoOpFacts, NoSwitchInStart DEF GiveUp
<1> QED
  BY <1>1, <1>2, <1>3

LEMMA FilesRequest ==
    ASSUME IInv, DInv, NEW kind \in {"stop", "restart", "update"}, Request(kind)
    PROVE  DInv'
<1> USE DEF IInv, KInv, TInv, TypeOK, DInv
<1>1. CurrentKept' /\ Files'
  BY Distinct, NoOpFacts DEF CurrentKept, Files, FilesRead, FilesSwitched, Switching,
     ControlKeepsLock, Places, Starting, StepsOfOp, StateTold, OneCore, Running,
     StartSteps, UpdateSteps, DataOK, Request, NoOp
<1>2. \A u \in {"boot", "op"} : FilesRead(u)'
  BY Distinct, NoOpFacts DEF FilesRead, Places, Starting, StepsOfOp, StartSteps, UpdateSteps,
     StopSteps, DataOK, Request, NoOp
<1>3. FilesSwitched'
  BY Distinct, NoOpFacts DEF CurrentKept, Files, FilesSwitched, Switching, StepsOfOp,
     ControlKeepsLock, Places, StartSteps, UpdateSteps, StopSteps, DataOK, Request, NoOp
<1> QED
  BY <1>1, <1>2, <1>3

LEMMA FilesCoreStopped == ASSUME IInv, DInv, CoreStopped PROVE DInv'
<1> USE DEF IInv, KInv, TInv, TypeOK, DInv
<1>1. CurrentKept' /\ Files'
  BY Distinct, NoOpFacts DEF CurrentKept, Files, FilesRead, FilesSwitched, Switching,
     ControlKeepsLock, Places, Starting, StepsOfOp, StateTold, OneCore, Running,
     StartSteps, UpdateSteps, DataOK, CoreStopped, Stopped, RollbackState
<1>2. \A u \in {"boot", "op"} : FilesRead(u)'
  BY Distinct, NoOpFacts DEF FilesRead, Places, Starting, StepsOfOp, StartSteps, UpdateSteps,
     StopSteps, CoreStopped, Stopped, RollbackState
<1>3. FilesSwitched'
  BY Distinct, NoOpFacts DEF CurrentKept, Files, FilesSwitched, Switching, StepsOfOp,
     ControlKeepsLock, Places, StartSteps, UpdateSteps, StopSteps, CoreStopped, Stopped,
     RollbackState
<1> QED
  BY <1>1, <1>2, <1>3

LEMMA FilesKillTimesOut == ASSUME IInv, DInv, KillTimesOut PROVE DInv'
<1> USE DEF IInv, KInv, TInv, TypeOK, DInv
<1>1. CurrentKept' /\ Files'
  BY Distinct, NoOpFacts DEF CurrentKept, Files, FilesRead, FilesSwitched, Switching,
     ControlKeepsLock, Places, Starting, StepsOfOp, StateTold, OneCore, Running,
     StartSteps, UpdateSteps, DataOK, KillTimesOut
<1>2. \A u \in {"boot", "op"} : FilesRead(u)'
  BY Distinct, NoOpFacts DEF FilesRead, Places, Starting, StepsOfOp, StartSteps, UpdateSteps,
     StopSteps, KillTimesOut
<1>3. FilesSwitched'
  BY Distinct, NoOpFacts DEF CurrentKept, Files, FilesSwitched, Switching, StepsOfOp,
     ControlKeepsLock, Places, StartSteps, UpdateSteps, StopSteps, KillTimesOut
<1> QED
  BY <1>1, <1>2, <1>3

LEMMA FilesBeginStop == ASSUME IInv, DInv, BeginStop PROVE DInv'
<1> USE DEF IInv, KInv, TInv, TypeOK, DInv
<1>1. CurrentKept' /\ Files'
  BY Distinct, NoOpFacts DEF CurrentKept, Files, FilesRead, FilesSwitched, Switching,
     ControlKeepsLock, Places, Starting, StepsOfOp, StateTold, OneCore, Running,
     StartSteps, UpdateSteps, DataOK, BeginStop, StopCore, Stopped
<1>2. \A u \in {"boot", "op"} : FilesRead(u)'
  BY Distinct, NoOpFacts DEF FilesRead, Places, Starting, StepsOfOp, StartSteps, UpdateSteps,
     StopSteps, BeginStop, StopCore, Stopped
<1>3. FilesSwitched'
  BY Distinct, NoOpFacts DEF CurrentKept, Files, FilesSwitched, Switching, StepsOfOp,
     ControlKeepsLock, Places, StartSteps, UpdateSteps, StopSteps, BeginStop, StopCore,
     Stopped
<1> QED
  BY <1>1, <1>2, <1>3

LEMMA FilesClose == ASSUME IInv, DInv, Close PROVE DInv'
<1> USE DEF IInv, KInv, TInv, TypeOK, DInv
<1>1. CurrentKept' /\ Files'
  BY Distinct, NoOpFacts DEF CurrentKept, Files, FilesRead, FilesSwitched, Switching,
     ControlKeepsLock, Places, Starting, StepsOfOp, StateTold, OneCore, Running,
     StartSteps, UpdateSteps, DataOK, Close
<1>2. \A u \in {"boot", "op"} : FilesRead(u)'
  BY Distinct, NoOpFacts DEF FilesRead, Places, Starting, StepsOfOp, StartSteps, UpdateSteps,
     StopSteps, Close
<1>3. FilesSwitched'
  BY Distinct, NoOpFacts DEF CurrentKept, Files, FilesSwitched, Switching, StepsOfOp,
     ControlKeepsLock, Places, StartSteps, UpdateSteps, StopSteps, Close
<1> QED
  BY <1>1, <1>2, <1>3

LEMMA FilesRelease == ASSUME IInv, DInv, Release PROVE DInv'
<1> USE DEF IInv, KInv, TInv, TypeOK, DInv
<1>1. CurrentKept' /\ Files'
  BY Distinct, NoOpFacts DEF CurrentKept, Files, FilesRead, FilesSwitched, Switching,
     ControlKeepsLock, Places, Starting, StepsOfOp, StateTold, OneCore, Running,
     StartSteps, UpdateSteps, DataOK, Release
<1>2. \A u \in {"boot", "op"} : FilesRead(u)'
  BY Distinct, NoOpFacts DEF FilesRead, Places, Starting, StepsOfOp, StartSteps, UpdateSteps,
     StopSteps, Release
<1>3. FilesSwitched'
  BY Distinct, NoOpFacts DEF CurrentKept, Files, FilesSwitched, Switching, StepsOfOp,
     ControlKeepsLock, Places, StartSteps, UpdateSteps, StopSteps, Release
<1> QED
  BY <1>1, <1>2, <1>3

LEMMA FilesRefuseUpdate == ASSUME IInv, DInv, RefuseUpdate PROVE DInv'
<1> USE DEF IInv, KInv, TInv, TypeOK, DInv
<1>1. CurrentKept' /\ Files'
  BY Distinct, NoOpFacts DEF CurrentKept, Files, FilesRead, FilesSwitched, Switching,
     ControlKeepsLock, Places, Starting, StepsOfOp, StateTold, OneCore, Running,
     StartSteps, UpdateSteps, DataOK, RefuseUpdate
<1>2. \A u \in {"boot", "op"} : FilesRead(u)'
  BY Distinct, NoOpFacts DEF FilesRead, Places, Starting, StepsOfOp, StartSteps, UpdateSteps,
     StopSteps, RefuseUpdate
<1>3. FilesSwitched'
  BY Distinct, NoOpFacts DEF CurrentKept, Files, FilesSwitched, Switching, StepsOfOp,
     ControlKeepsLock, Places, StartSteps, UpdateSteps, StopSteps, RefuseUpdate
<1> QED
  BY <1>1, <1>2, <1>3

LEMMA FilesBeginUpdate == ASSUME IInv, DInv, BeginUpdate PROVE DInv'
<1> USE DEF IInv, KInv, TInv, TypeOK, DInv
<1>1. CurrentKept' /\ Files'
  BY Distinct, NoOpFacts DEF CurrentKept, Files, FilesRead, FilesSwitched, Switching,
     ControlKeepsLock, Places, Starting, StepsOfOp, StateTold, OneCore, Running,
     StartSteps, UpdateSteps, DataOK, BeginUpdate
<1>2. \A u \in {"boot", "op"} : FilesRead(u)'
  BY Distinct, NoOpFacts DEF FilesRead, Places, Starting, StepsOfOp, StartSteps, UpdateSteps,
     StopSteps, DataOK, BeginUpdate
<1>3. FilesSwitched'
  BY Distinct, NoOpFacts DEF CurrentKept, Files, FilesSwitched, Switching, StepsOfOp,
     ControlKeepsLock, Places, StartSteps, UpdateSteps, StopSteps, DataOK, BeginUpdate
<1> QED
  BY <1>1, <1>2, <1>3

LEMMA FilesReadPrevious == ASSUME IInv, DInv, ReadPrevious, Undisturbed' PROVE DInv'
<1> USE DEF IInv, KInv, TInv, TypeOK, DInv
<1>1. CurrentKept' /\ Files'
  BY Distinct, NoOpFacts DEF CurrentKept, Files, FilesRead, FilesSwitched, Switching,
     ControlKeepsLock, Places, Starting, StepsOfOp, StateTold, OneCore, Running,
     StartSteps, UpdateSteps, DataOK, ReadPrevious
<1>2. \A u \in {"boot", "op"} : FilesRead(u)'
  BY Distinct, NoOpFacts DEF FilesRead, Places, Starting, StepsOfOp, StartSteps, UpdateSteps,
     StopSteps, DataOK, ReadPrevious
<1>3. FilesSwitched'
  BY Distinct, NoOpFacts DEF CurrentKept, Files, FilesSwitched, Switching, StepsOfOp,
     ControlKeepsLock, Places, StartSteps, UpdateSteps, StopSteps, DataOK, ReadPrevious,
     Undisturbed
<1> QED
  BY <1>1, <1>2, <1>3

LEMMA FilesMark == ASSUME IInv, DInv, Mark PROVE DInv'
<1> USE DEF IInv, KInv, TInv, TypeOK, DInv
<1>1. CurrentKept' /\ Files'
  BY Distinct, NoOpFacts DEF CurrentKept, Files, FilesRead, FilesSwitched, Switching,
     ControlKeepsLock, Places, Starting, StepsOfOp, StateTold, OneCore, Running,
     StartSteps, UpdateSteps, DataOK, Mark
<1>2. \A u \in {"boot", "op"} : FilesRead(u)'
  BY Distinct, NoOpFacts DEF FilesRead, Places, Starting, StepsOfOp, StartSteps, UpdateSteps,
     StopSteps, DataOK, Mark
<1>3. FilesSwitched'
  BY Distinct, NoOpFacts DEF CurrentKept, Files, FilesSwitched, Switching, StepsOfOp,
     ControlKeepsLock, Places, StartSteps, UpdateSteps, StopSteps, DataOK, Mark
<1> QED
  BY <1>1, <1>2, <1>3

LEMMA FilesApply == ASSUME IInv, DInv, Apply, Undisturbed' PROVE DInv'
<1> USE DEF IInv, KInv, TInv, TypeOK, DInv
<1>1. CurrentKept' /\ Files'
  BY Distinct, NoOpFacts DEF CurrentKept, Files, FilesRead, FilesSwitched, Switching,
     ControlKeepsLock, Places, Starting, StepsOfOp, StateTold, OneCore, Running,
     StartSteps, UpdateSteps, DataOK, Apply
<1>2. \A u \in {"boot", "op"} : FilesRead(u)'
  BY Distinct, NoOpFacts DEF FilesRead, Places, Starting, StepsOfOp, StartSteps, UpdateSteps,
     StopSteps, Apply
<1>3. FilesSwitched'
  BY Distinct, NoOpFacts DEF CurrentKept, Files, FilesSwitched, Switching, StepsOfOp,
     ControlKeepsLock, Places, StartSteps, UpdateSteps, StopSteps, Apply, Undisturbed
<1> QED
  BY <1>1, <1>2, <1>3

LEMMA FilesLaunchCandidate == ASSUME IInv, DInv, LaunchCandidate PROVE DInv'
<1> USE DEF IInv, KInv, TInv, TypeOK, DInv
<1>1. /\ pc["op"] = "clear" /\ pc["boot"] = "idle" /\ op.kind = "update" /\ op.cand \in Images
      /\ core = NoCore /\ op.prev \in Images
  BY DEF LaunchCandidate, StateTold, Places, DataOK, StepsOfOp, UpdateSteps, CandKnown, Images
<1>2. marker = op.prev /\ current = op.cand /\ op.prev \in proven
  BY <1>1, Distinct DEF FilesSwitched, Files
<1>3. /\ UNCHANGED <<current, marker, control, op, proven>> /\ active' = op.cand
      /\ pc'["boot"] = "idle" /\ pc'["op"] \in {"await", "restore"}
  BY <1>1 DEF LaunchCandidate
<1>4. state' = "starting" /\ (Running(core)' => runs'[core'] = op.cand)
  <2>1. CASE Launch(op.cand)
    BY <1>1, <2>1, LaunchRuns
  <2>2. CASE LaunchThrows /\ state' = "starting"
    BY <1>1, <2>2, Distinct DEF LaunchThrows, Running
  <2> QED
    BY <1>1, <2>1, <2>2 DEF LaunchCandidate
<1>5. CurrentKept' /\ Files'
  BY <1>1, <1>2, <1>3, <1>4, Distinct DEF CurrentKept, Files
<1>6. (\A u \in {"boot", "op"} : FilesRead(u)') /\ FilesSwitched'
  BY <1>1, <1>2, <1>3, Distinct DEF FilesRead, FilesSwitched, Switching
<1> QED
  BY <1>5, <1>6

LEMMA FilesSeenReady == ASSUME IInv, DInv, SeenReady PROVE DInv'
<1> USE DEF IInv, KInv, TInv, TypeOK, DInv
<1>1. CurrentKept' /\ Files'
  BY Distinct, NoOpFacts DEF CurrentKept, Files, FilesRead, FilesSwitched, Switching,
     ControlKeepsLock, Places, Starting, StepsOfOp, StateTold, OneCore, Running,
     StartSteps, UpdateSteps, DataOK, SeenReady
<1>2. \A u \in {"boot", "op"} : FilesRead(u)'
  BY Distinct, NoOpFacts DEF FilesRead, Places, Starting, StepsOfOp, StartSteps, UpdateSteps,
     StopSteps, SeenReady
<1>3. FilesSwitched'
  BY Distinct, NoOpFacts DEF CurrentKept, Files, FilesSwitched, Switching, StepsOfOp,
     ControlKeepsLock, Places, StartSteps, UpdateSteps, StopSteps, SeenReady
<1> QED
  BY <1>1, <1>2, <1>3

LEMMA FilesComplete == ASSUME IInv, DInv, Complete PROVE DInv'
<1> USE DEF IInv, KInv, TInv, TypeOK, DInv
<1>1. CurrentKept' /\ Files'
  BY Distinct, NoOpFacts DEF CurrentKept, Files, FilesRead, FilesSwitched, Switching,
     ControlKeepsLock, Places, Starting, StepsOfOp, StateTold, OneCore, Running,
     StartSteps, UpdateSteps, DataOK, Complete
<1>2. \A u \in {"boot", "op"} : FilesRead(u)'
  BY Distinct, NoOpFacts DEF FilesRead, Places, Starting, StepsOfOp, StartSteps, UpdateSteps,
     StopSteps, Complete
<1>3. FilesSwitched'
  BY Distinct, NoOpFacts DEF CurrentKept, Files, FilesSwitched, Switching, StepsOfOp,
     ControlKeepsLock, Places, StartSteps, UpdateSteps, StopSteps, Complete
<1> QED
  BY <1>1, <1>2, <1>3

LEMMA FilesRollBack == ASSUME IInv, DInv, RollBack PROVE DInv'
<1> USE DEF IInv, KInv, TInv, TypeOK, DInv
<1>1. CurrentKept' /\ Files'
  BY Distinct, NoOpFacts DEF CurrentKept, Files, FilesRead, FilesSwitched, Switching,
     ControlKeepsLock, Places, Starting, StepsOfOp, StateTold, OneCore, Running,
     StartSteps, UpdateSteps, DataOK, RollBack, Failing, StopCore, Stopped,
     RollbackState
<1>2. \A u \in {"boot", "op"} : FilesRead(u)'
  BY Distinct, NoOpFacts DEF FilesRead, Places, Starting, StepsOfOp, StartSteps, UpdateSteps,
     StopSteps, RollBack, Failing, StopCore, Stopped, RollbackState
<1>3. FilesSwitched'
  <2>1. op' = op /\ UNCHANGED <<current, marker, proven, core>> /\ pc'["op"] \in {"back",
  "restore"}
    BY DEF RollBack, StopCore, Stopped
  <2>2. op.kind = "update" /\ op.prev \in proven
        /\ marker \in {op.prev, Nothing} /\ (marker = Nothing => current = op.prev)
    <3>1. CASE pc["op"] = "mark"
      BY <3>1, Distinct DEF FilesSwitched, Switching, CurrentKept, StepsOfOp, UpdateSteps,
         RollBack
    <3>2. CASE pc["op"] \in {"apply", "clear", "complete", "await"}
      <4>1. marker = op.prev
        BY <3>2 DEF FilesSwitched
      <4>2. op.prev # Nothing
        BY Distinct DEF DataOK
      <4> QED
        BY <3>2, <4>1, <4>2 DEF Files, StepsOfOp, UpdateSteps
    <3> QED
      BY <3>1, <3>2 DEF RollBack, Failing
  <2> QED
    BY <2>1, <2>2 DEF FilesSwitched, Switching
<1> QED
  BY <1>1, <1>2, <1>3

LEMMA FilesRestore == ASSUME IInv, DInv, Restore PROVE DInv'
<1> USE DEF IInv, KInv, TInv, TypeOK, DInv
<1>1. CurrentKept' /\ Files'
  BY Distinct, NoOpFacts DEF CurrentKept, Files, FilesRead, FilesSwitched, Switching,
     ControlKeepsLock, Places, Starting, StepsOfOp, StateTold, OneCore, Running,
     StartSteps, UpdateSteps, DataOK, Restore
<1>2. \A u \in {"boot", "op"} : FilesRead(u)'
  BY Distinct, NoOpFacts DEF FilesRead, Places, Starting, StepsOfOp, StartSteps, UpdateSteps,
     StopSteps, Restore
<1>3. FilesSwitched'
  BY Distinct, NoOpFacts DEF CurrentKept, Files, FilesSwitched, Switching, StepsOfOp,
     ControlKeepsLock, Places, StartSteps, UpdateSteps, StopSteps, Restore
<1> QED
  BY <1>1, <1>2, <1>3

LEMMA FilesLaunchPrevious == ASSUME IInv, DInv, LaunchPrevious PROVE DInv'
<1> USE DEF IInv, KInv, TInv, TypeOK, DInv
<1>1. /\ pc["op"] = "forget update" /\ pc["boot"] = "idle" /\ op.kind = "update"
      /\ op.prev \in proven \cap Images /\ current = op.prev /\ core = NoCore
  BY DEF LaunchPrevious, FilesSwitched, DataOK, Places, StepsOfOp, UpdateSteps
<1>2. /\ UNCHANGED <<current, control, proven>> /\ marker' = Nothing /\ active' = op.prev
      /\ pc'["boot"] = "idle"
      /\ pc'["op"] = "await back" \/ (pc'["op"] = "idle" /\ op' = NoOp)
  BY <1>1 DEF LaunchPrevious
<1>3. state' # "ready" /\ (Running(core)' => runs'[core'] = op.prev)
  <2>1. CASE Launch(op.prev)
    BY <1>1, <2>1, LaunchRuns
  <2>2. CASE UNCHANGED <<core, runs>> /\ state' \in {"starting", "stopped"}
    BY <1>1, <2>2, Distinct DEF Running
  <2> QED
    BY <2>1, <2>2 DEF LaunchPrevious, LaunchThrows
<1>4. CurrentKept' /\ Files'
  BY <1>1, <1>2, <1>3 DEF CurrentKept, Files
<1>5. (\A u \in {"boot", "op"} : FilesRead(u)') /\ FilesSwitched'
  BY <1>2, NoOpFacts DEF FilesRead, FilesSwitched, Switching
<1> QED
  BY <1>4, <1>5

LEMMA FilesRestoreFails == ASSUME IInv, DInv, RestoreFails PROVE DInv'
<1> USE DEF IInv, KInv, TInv, TypeOK, DInv
<1>1. CurrentKept' /\ Files'
  BY Distinct, NoOpFacts DEF CurrentKept, Files, FilesRead, FilesSwitched, Switching,
     ControlKeepsLock, Places, Starting, StepsOfOp, StateTold, OneCore, Running,
     StartSteps, UpdateSteps, DataOK, RestoreFails
<1>2. \A u \in {"boot", "op"} : FilesRead(u)'
  BY Distinct, NoOpFacts DEF FilesRead, Places, Starting, StepsOfOp, StartSteps, UpdateSteps,
     StopSteps, RestoreFails
<1>3. FilesSwitched'
  BY Distinct, NoOpFacts DEF CurrentKept, Files, FilesSwitched, Switching, StepsOfOp,
     ControlKeepsLock, Places, StartSteps, UpdateSteps, StopSteps, RestoreFails
<1> QED
  BY <1>1, <1>2, <1>3

LEMMA FilesSeenReadyBack == ASSUME IInv, DInv, SeenReadyBack PROVE DInv'
<1> USE DEF IInv, KInv, TInv, TypeOK, DInv
<1>1. CurrentKept' /\ Files'
  BY Distinct, NoOpFacts DEF CurrentKept, Files, FilesRead, FilesSwitched, Switching,
     ControlKeepsLock, Places, Starting, StepsOfOp, StateTold, OneCore, Running,
     StartSteps, UpdateSteps, DataOK, SeenReadyBack
<1>2. \A u \in {"boot", "op"} : FilesRead(u)'
  BY Distinct, NoOpFacts DEF FilesRead, Places, Starting, StepsOfOp, StartSteps, UpdateSteps,
     StopSteps, SeenReadyBack
<1>3. FilesSwitched'
  BY Distinct, NoOpFacts DEF CurrentKept, Files, FilesSwitched, Switching, StepsOfOp,
     ControlKeepsLock, Places, StartSteps, UpdateSteps, StopSteps, SeenReadyBack
<1> QED
  BY <1>1, <1>2, <1>3

LEMMA FilesBackFails == ASSUME IInv, DInv, BackFails PROVE DInv'
<1> USE DEF IInv, KInv, TInv, TypeOK, DInv
<1>1. CurrentKept' /\ Files'
  BY Distinct, NoOpFacts DEF CurrentKept, Files, FilesRead, FilesSwitched, Switching,
     ControlKeepsLock, Places, Starting, StepsOfOp, StateTold, OneCore, Running,
     StartSteps, UpdateSteps, DataOK, BackFails, StopCore, Stopped
<1>2. \A u \in {"boot", "op"} : FilesRead(u)'
  BY Distinct, NoOpFacts DEF FilesRead, Places, Starting, StepsOfOp, StartSteps, UpdateSteps,
     StopSteps, BackFails, StopCore, Stopped
<1>3. FilesSwitched'
  BY Distinct, NoOpFacts DEF CurrentKept, Files, FilesSwitched, Switching, StepsOfOp,
     ControlKeepsLock, Places, StartSteps, UpdateSteps, StopSteps, BackFails,
     StopCore, Stopped
<1> QED
  BY <1>1, <1>2, <1>3

LEMMA FilesCoreReady == ASSUME IInv, DInv, CoreReady PROVE DInv'
<1> USE DEF IInv, KInv, TInv, TypeOK, DInv
<1>1. CurrentKept' /\ Files'
  BY Distinct, NoOpFacts DEF CurrentKept, Files, FilesRead, FilesSwitched, Switching,
     ControlKeepsLock, Places, Starting, StepsOfOp, StateTold, OneCore, Running,
     StartSteps, UpdateSteps, DataOK, CoreReady
<1>2. \A u \in {"boot", "op"} : FilesRead(u)'
  BY Distinct, NoOpFacts DEF FilesRead, Places, Starting, StepsOfOp, StartSteps, UpdateSteps,
     StopSteps, DataOK, CoreReady
<1>3. FilesSwitched'
  BY Distinct, NoOpFacts DEF CurrentKept, Files, FilesSwitched, Switching, StepsOfOp,
     ControlKeepsLock, Places, StartSteps, UpdateSteps, StopSteps, DataOK, CoreReady
<1> QED
  BY <1>1, <1>2, <1>3

LEMMA FilesCoreExits == ASSUME IInv, DInv, NEW g \in Cores, CoreExits(g) PROVE DInv'
<1> USE DEF IInv, KInv, TInv, TypeOK, DInv
<1>1. CurrentKept' /\ Files'
  BY Distinct, NoOpFacts DEF CurrentKept, Files, FilesRead, FilesSwitched, Switching,
     ControlKeepsLock, Places, Starting, StepsOfOp, StateTold, OneCore, Running,
     StartSteps, UpdateSteps, DataOK, CoreExits, Crash
<1>2. \A u \in {"boot", "op"} : FilesRead(u)'
  BY Distinct, NoOpFacts DEF FilesRead, Places, Starting, StepsOfOp, StartSteps, UpdateSteps,
     StopSteps, DataOK, CoreExits, Crash
<1>3. FilesSwitched'
  BY Distinct, NoOpFacts DEF CurrentKept, Files, FilesSwitched, Switching, StepsOfOp,
     ControlKeepsLock, Places, StartSteps, UpdateSteps, StopSteps, DataOK, CoreExits, Crash
<1> QED
  BY <1>1, <1>2, <1>3

LEMMA FilesOrphanExits == ASSUME IInv, DInv, NEW g \in Cores, OrphanExits(g) PROVE DInv'
<1> USE DEF IInv, KInv, TInv, TypeOK, DInv
<1>1. Running(core)' => Running(core) /\ runs'[core'] = runs[core]
  BY Distinct DEF OrphanExits, Running, DataOK
<1>2. CurrentKept' /\ Files'
  BY <1>1 DEF CurrentKept, Files, OrphanExits
<1>3. (\A u \in {"boot", "op"} : FilesRead(u)') /\ FilesSwitched'
  BY DEF FilesRead, FilesSwitched, Switching, OrphanExits
<1> QED
  BY <1>2, <1>3

LEMMA FilesRelaunch == ASSUME IInv, DInv, Relaunch PROVE DInv'
<1> USE DEF IInv, KInv, TInv, TypeOK, DInv
<1>0. active \in Images /\ Launch(active)
  BY Distinct DEF DataOK, Places, StepsOfOp, UpdateSteps, Relaunch
<1>a. runs'[core'] = active /\ state' = "starting"
  BY <1>0, LaunchRuns
<1>1. CurrentKept' /\ Files'
  BY <1>a, Distinct, NoOpFacts DEF CurrentKept, Files, FilesRead, FilesSwitched, Switching,
     ControlKeepsLock, Places, Starting, StepsOfOp, StateTold, OneCore, Running,
     StartSteps, UpdateSteps, DataOK, Relaunch
<1>2. \A u \in {"boot", "op"} : FilesRead(u)'
  BY <1>a, Distinct, NoOpFacts DEF FilesRead, Places, Starting, StepsOfOp, StartSteps,
     UpdateSteps, StopSteps, Relaunch
<1>3. FilesSwitched'
  BY <1>a, Distinct, NoOpFacts DEF CurrentKept, Files, FilesSwitched, Switching, StepsOfOp,
     ControlKeepsLock, Places, StartSteps, UpdateSteps, StopSteps, Relaunch
<1> QED
  BY <1>1, <1>2, <1>3

LEMMA FilesPrepare ==
    ASSUME IInv, DInv, NEW image \in Releases \cup {Nothing}, Prepare(image)
    PROVE  DInv'
<1> USE DEF IInv, KInv, TInv, TypeOK, DInv
<1>1. CurrentKept' /\ Files'
  BY Distinct, NoOpFacts DEF CurrentKept, Files, FilesRead, FilesSwitched, Switching,
     ControlKeepsLock, Places, Starting, StepsOfOp, StateTold, OneCore, Running,
     StartSteps, UpdateSteps, DataOK, Prepare
<1>2. \A u \in {"boot", "op"} : FilesRead(u)'
  BY Distinct, NoOpFacts DEF FilesRead, Places, Starting, StepsOfOp, StartSteps, UpdateSteps,
     StopSteps, DataOK, Prepare
<1>3. FilesSwitched'
  BY Distinct, NoOpFacts DEF CurrentKept, Files, FilesSwitched, Switching, StepsOfOp,
     ControlKeepsLock, Places, StartSteps, UpdateSteps, StopSteps, DataOK, Prepare
<1> QED
  BY <1>1, <1>2, <1>3

LEMMA FilesOtherServer == ASSUME IInv, DInv, OtherServer PROVE DInv'
<1> USE DEF IInv, KInv, TInv, TypeOK, DInv
<1>1. CurrentKept' /\ Files'
  BY Distinct, NoOpFacts DEF CurrentKept, Files, FilesRead, FilesSwitched, Switching,
     ControlKeepsLock, Places, Starting, StepsOfOp, StateTold, OneCore, Running,
     StartSteps, UpdateSteps, DataOK, OtherServer
<1>2. \A u \in {"boot", "op"} : FilesRead(u)'
  BY Distinct, NoOpFacts DEF FilesRead, Places, Starting, StepsOfOp, StartSteps, UpdateSteps,
     StopSteps, OtherServer
<1>3. FilesSwitched'
  BY Distinct, NoOpFacts DEF CurrentKept, Files, FilesSwitched, Switching, StepsOfOp,
     ControlKeepsLock, Places, StartSteps, UpdateSteps, StopSteps, OtherServer
<1> QED
  BY <1>1, <1>2, <1>3

LEMMA FilesStart == ASSUME IInv, DInv, NEW t \in {"boot", "op"}, Start(t) PROVE DInv'
<1>1. CASE t = "boot" /\ (LockHeld(t) \/ GiveUp(t))
  BY <1>1, FilesExit DEF LockHeld, GiveUp
<1>2. CASE t = "op" /\ (LockHeld(t) \/ GiveUp(t))
  BY <1>2, FilesLockHeldInOp, FilesGiveUpInOp
<1>3. CASE \/ Enter(t) \/ Lock(t) \/ Recover(t) \/ Forget(t) \/ RecoveryFails(t)
           \/ ReadCurrent(t) \/ Listen(t) \/ NoListen(t) \/ Open(t) \/ OpenThrows(t)
  BY <1>3, FilesEnter, FilesLock, FilesRecover, FilesForget, FilesRecoveryFails,
     FilesReadCurrent, FilesListen, FilesNoListen, FilesOpen, FilesOpenThrows
<1> QED
  BY <1>1, <1>2, <1>3 DEF Start

LEMMA FilesOperation == ASSUME IInv, DInv, Operation, Undisturbed' PROVE DInv'
<1>1. CASE Start("op")
  BY <1>1, FilesStart
<1>2. CASE CoreStopped \/ KillTimesOut \/ BeginStop \/ Close \/ Release
  BY <1>2, FilesCoreStopped, FilesKillTimesOut, FilesBeginStop, FilesClose, FilesRelease
<1>3. CASE \/ RefuseUpdate \/ BeginUpdate \/ ReadPrevious \/ Mark \/ Apply \/ LaunchCandidate
           \/ SeenReady \/ Complete
  BY <1>3, FilesRefuseUpdate, FilesBeginUpdate, FilesReadPrevious, FilesMark, FilesApply,
     FilesLaunchCandidate, FilesSeenReady, FilesComplete
<1>4. CASE \/ RollBack \/ Restore \/ LaunchPrevious \/ RestoreFails \/ SeenReadyBack \/ BackFails
  BY <1>4, FilesRollBack, FilesRestore, FilesLaunchPrevious, FilesRestoreFails,
     FilesSeenReadyBack, FilesBackFails
<1> QED
  BY <1>1, <1>2, <1>3, <1>4 DEF Operation

LEMMA FilesStep == ASSUME IInv, DInv, [Next]_vars, Undisturbed' PROVE DInv'
<1>1. CASE Boot \/ Start("boot") \/ Operation
  BY <1>1, FilesBoot, FilesStart, FilesOperation
<1>2. CASE \E kind \in {"stop", "restart", "update"} : Request(kind)
  BY <1>2, FilesRequest
<1>3. CASE CoreReady \/ Relaunch \/ Die \/ OtherServer
  BY <1>3, FilesCoreReady, FilesRelaunch, FilesExit, FilesOtherServer DEF Die
<1>4. CASE \E g \in Cores : CoreExits(g) \/ OrphanExits(g)
  BY <1>4, FilesCoreExits, FilesOrphanExits
<1>5. CASE \E image \in Releases \cup {Nothing} : Prepare(image)
  BY <1>5, FilesPrepare
<1>6. CASE UNCHANGED vars
  <2>1. CurrentKept' /\ Files'
    BY <1>6 DEF DInv, CurrentKept, Files, Running, vars, memory, files
  <2>2. (\A t \in {"boot", "op"} : FilesRead(t)') /\ FilesSwitched'
    BY <1>6 DEF DInv, FilesRead, FilesSwitched, Switching, vars, memory, files
  <2> QED
    BY <2>1, <2>2 DEF DInv
<1> QED
  BY <1>1, <1>2, <1>3, <1>4, <1>5, <1>6 DEF Next

(* The inductive invariant, for the files of the update, beside the first. *)
THEOREM FilesInvariance == Spec => [](LockInv /\ FilesInv)
<1>1. Init => LockInv /\ FilesInv
  BY TypedInit, KInit, FilesInit DEF LockInv, FilesInv
<1>2. LockInv /\ FilesInv /\ [Next]_vars => LockInv' /\ FilesInv'
  <2> SUFFICES ASSUME LockInv, FilesInv, [Next]_vars PROVE LockInv' /\ FilesInv'
    OBVIOUS
  <2>1. LockInv'
    BY TypedStep, StepKeeps, Remembered DEF LockInv, IInv
  <2>2. ASSUME Undisturbed' PROVE DInv'
    <3>1. happened \ {"thrown"} \subseteq happened'
      BY Remembered
    <3>2. happened' \subseteq {"thrown"}
      BY <2>2 DEF Undisturbed
    <3>3. happened \subseteq {"thrown"}
      BY <3>1, <3>2
    <3>4. Undisturbed /\ "early" \notin happened
      BY <3>3 DEF Undisturbed
    <3> QED
      BY <2>2, <3>4, FilesStep DEF LockInv, IInv, FilesInv
  <2> QED
    BY <2>1, <2>2 DEF FilesInv
<1> QED
  BY <1>1, <1>2, PTL DEF Spec

\* Of a supervisor that is undisturbed (no early request, no update over one left
\* open, no pending.json that changes between its two readings): wherever it dies,
\* a launch throws or a file cannot be written, a release that never got ready is
\* not left as the current one without a transaction.
THEOREM NoUnprovenRelease == Spec => []CurrentProven
<1>1. FilesInv => CurrentProven
  BY DEF FilesInv, DInv, CurrentKept, CurrentProven
<1> QED
  BY FilesInvariance, <1>1, PTL

\* Under the same condition, outside an update and with none left open, the core
\* runs the release that current.json names.
THEOREM RunsWhatFilesSay == Spec => []RunsCurrent
<1>1. LockInv /\ FilesInv => RunsCurrent
  <2> SUFFICES ASSUME KInv, DInv, op.kind # "update", marker = Nothing, Running(core)
               PROVE  runs[core] = current
    BY DEF RunsCurrent, LockInv, FilesInv, Undisturbed
  <2>1. core # NoCore
    BY Distinct DEF Running
  <2>2. control
    BY <2>1 DEF KInv, ControlKeepsLock
  <2> QED
    BY <2>2 DEF DInv, Files
<1> QED
  BY FilesInvariance, <1>1, PTL

================================================================================
