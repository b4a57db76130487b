------------------------------ MODULE DataRootLock ------------------------------
(***************************************************************************)
(* The lock that keeps a second Dave Server away from a data root          *)
(* (dave-server-cli/src/runtime/lock.ts).                                  *)
(*                                                                         *)
(* Processes work on one directory, and every call to the file system is a *)
(* step.  open(path, "wx") creates an empty file; a later call writes the  *)
(* owner's record into it, wherever the file has been renamed to by then.  *)
(* A record holds a token of its own, so a file stands for its record.  A  *)
(* process may die between any two steps; the one started in its place has *)
(* another pid.                                                            *)
(***************************************************************************)
EXTENDS Naturals, FiniteSets

CONSTANTS
    Procs,
    Dead,           \* those that died before and may have left files behind
    Tokens,         \* names for the files of a process: more than can be known at a time
    Attempts        \* rounds of acquire's loop (100 in the code)

(* this.path and its recovery path; a process quarantines files at a path of  *)
(* its own, which carries its name here.                                      *)
Shared == {"lock", "recovery"}

ASSUME LockAssumption ==
    /\ IsFiniteSet(Procs) /\ Dead \subseteq Procs /\ Procs \cap Shared = {}
    /\ Tokens \in Nat /\ Tokens > 2 * Cardinality(Procs) + 4 /\ Attempts \in Nat \ {0}

Files == Procs \X (1 .. Tokens)
FilesOf(p) == {p} \X (1 .. Tokens)
NoFile == <<>>
Empty == <<"empty">>    \* what is read before the record is written

VARIABLES
    dir,            \* the file at each path
    blank,          \* files without a record
    alive,
    step,           \* where each process stands
    attempt,
    own,            \* ownerToken and recoveryToken
    removal,        \* what a process removes, because of what it read, and what then
    happened,       \* history: what the lock is not made for
    alone           \* history: who began to acquire as the only process alive

history == <<happened, alone>>
vars == <<dir, blank, alive, step, attempt, own, removal, history>>

NoRemoval == [path |-> "none", raw |-> NoFile, then |-> "idle"]

(* readOwner. *)
Read(path) == IF dir[path] \in blank THEN Empty ELSE dir[path]

(* isHolderAlive: a record without a pid has no living holder.  Mutant: a pid *)
(* is taken for alive without asking.                                         *)
HolderAliveAlways(raw) == raw \in Files

HolderAlive(raw) == raw \in Files /\ raw[1] \in alive

Fresh(p) ==
    LET known(n) == \/ \E path \in DOMAIN dir : dir[path] = <<p, n>>
                    \/ \E q \in Procs : removal[q].raw = <<p, n>>
                    \/ \E path \in Shared : own[p][path] = <<p, n>>
    IN  {<<p, n>> : n \in {m \in 1 .. Tokens : ~known(m) /\ \A l \in 1 .. m - 1 : known(l)}}

Init ==
    /\ \E left \in [Shared -> {NoFile} \cup (Dead \X {1, 2})] :
        /\ left["lock"] = left["recovery"] => left["lock"] = NoFile
        /\ dir = [path \in Shared \cup Procs |->
                    IF path \in Shared THEN left[path] ELSE NoFile]
        /\ blank \in SUBSET {f \in Files : \E path \in Shared : left[path] = f}
    /\ alive = Procs \ Dead
    /\ step = [p \in Procs |-> "idle"]
    /\ attempt = [p \in Procs |-> 0]
    /\ own = [p \in Procs |-> [path \in Shared |-> NoFile]]
    /\ removal = [p \in Procs |-> NoRemoval]
    /\ happened = IF dir["recovery"] = NoFile THEN {} ELSE {"gate left"}
    /\ alone = {}

-----------------------------------------------------------------------------
At(p, s) == p \in alive /\ step[p] = s
Goto(p, s) == step' = [step EXCEPT ![p] = s]
HasFile(p) == \E path \in Shared : dir[path] \in FilesOf(p)
InGate(p) == own[p]["recovery"] # NoFile

Acquire(p) ==
    /\ At(p, "idle")
    /\ Goto(p, "create")
    /\ attempt' = [attempt EXCEPT ![p] = 0]
    /\ alone' = IF alive = {p} /\ ~HasFile(p) THEN {p} ELSE {}
    /\ UNCHANGED <<dir, blank, alive, own, removal, happened>>

(* releaseOwnedPath and claimStalePath: raw is removed from path, if it is    *)
(* still there, and then the process goes on.                                 *)
Remove(p, path, raw, then) ==
    /\ removal' = [removal EXCEPT ![p] = [path |-> path, raw |-> raw, then |-> then]]
    /\ Goto(p, "rename")

(* The finally of the loop: the process leaves the gate. *)
LeaveGate(p, then) ==
    /\ removal' = [removal EXCEPT ![p] = [path |-> "recovery", raw |-> own[p]["recovery"],
                                          then |-> then]]
    /\ Goto(p, "verify")

(* open(path, "wx") succeeds. *)
Create(p, path) ==
    \E f \in Fresh(p) :
        /\ dir[path] = NoFile
        /\ dir' = [dir EXCEPT ![path] = f]
        /\ blank' = blank \cup {f}
        /\ own' = [own EXCEPT ![p][path] = f]

Write(p, path) == blank' = blank \ {own[p][path]}

(* tryAcquireOnce, at first outside the gate and later within.  Mutant of     *)
(* LockExists: the gate is not released when another process was faster.      *)
LockExistsInGate(p) ==
    /\ At(p, "create")
    /\ dir["lock"] # NoFile
    /\ Goto(p, IF InGate(p) THEN "sleep" ELSE "observe")
    /\ UNCHANGED <<dir, blank, alive, attempt, own, removal, history>>

CreateLock(p) ==
    /\ At(p, "create")
    /\ Create(p, "lock")
    /\ Goto(p, "write")
    /\ UNCHANGED <<alive, attempt, removal, history>>

LockExists(p) ==
    /\ At(p, "create")
    /\ dir["lock"] # NoFile
    /\ IF InGate(p) THEN LeaveGate(p, "sleep") ELSE Goto(p, "observe") /\ UNCHANGED removal
    /\ UNCHANGED <<dir, blank, alive, attempt, own, history>>

WriteLock(p) ==
    /\ At(p, "write")
    /\ Write(p, "lock")
    /\ IF InGate(p) THEN LeaveGate(p, "holding") ELSE Goto(p, "holding") /\ UNCHANGED removal
    /\ UNCHANGED <<dir, alive, attempt, own, history>>

(* The write fails: the empty file is not known for one's own and stays. *)
WriteLockFails(p) ==
    /\ At(p, "write")
    /\ own' = [own EXCEPT ![p]["lock"] = NoFile]
    /\ IF InGate(p) THEN LeaveGate(p, "idle") ELSE Goto(p, "idle") /\ UNCHANGED removal
    /\ UNCHANGED <<dir, blank, alive, attempt, history>>

(* Somebody reads a file that is about to get its record. *)
ReadTooEarly(path) ==
    /\ UNCHANGED alone
    /\ happened' = IF \E p \in alive : step[p] \in {"write", "write gate"} /\ dir[path] \in
                           {own[p]["lock"], own[p]["recovery"]} /\ dir[path] \in blank
                   THEN happened \cup {"early read"} ELSE happened

(* The loop of acquire. *)
Observe(p) ==
    /\ At(p, "observe")
    /\ Goto(p, IF HolderAlive(Read("lock")) THEN "idle" ELSE "gate")
    /\ ReadTooEarly("lock")
    /\ UNCHANGED <<dir, blank, alive, attempt, own, removal>>

Sleep(p) ==
    /\ At(p, "sleep")
    /\ Goto(p, IF attempt[p] + 1 < Attempts THEN "observe" ELSE "idle")
    /\ attempt' = [attempt EXCEPT ![p] = @ + 1]
    /\ UNCHANGED <<dir, blank, alive, own, removal, history>>

(* tryAcquireRecoveryGate.  A gate left by a dead process is cleared away,    *)
(* and the process tries again.                                               *)
CreateGate(p) ==
    /\ At(p, "gate")
    /\ Create(p, "recovery")
    /\ Goto(p, "write gate")
    /\ UNCHANGED <<alive, attempt, removal, history>>

GateExists(p) ==
    /\ At(p, "gate")
    /\ dir["recovery"] # NoFile
    /\ Goto(p, "observe gate")
    /\ UNCHANGED <<dir, blank, alive, attempt, own, removal, history>>

WriteGate(p) ==
    /\ At(p, "write gate")
    /\ Write(p, "recovery")
    /\ Goto(p, "current")
    /\ UNCHANGED <<dir, alive, attempt, own, removal, history>>

WriteGateFails(p) ==
    /\ At(p, "write gate")
    /\ own' = [own EXCEPT ![p]["recovery"] = NoFile]
    /\ Goto(p, "idle")
    /\ happened' = happened \cup {"gate left"}
    /\ UNCHANGED <<dir, blank, alive, attempt, removal, alone>>

ObserveGate(p) ==
    /\ At(p, "observe gate")
    /\ LET raw == Read("recovery") IN
       IF raw = NoFile \/ HolderAlive(raw)
       THEN Goto(p, "sleep") /\ UNCHANGED removal
       ELSE Remove(p, "recovery", raw, "sleep")
    /\ ReadTooEarly("recovery")
    /\ UNCHANGED <<dir, blank, alive, attempt, own>>

(* Within the gate the owner is read once more.  Mutant: who holds the lock    *)
(* then is not looked at.                                                     *)
ReadCurrentBlind(p) ==
    /\ At(p, "current")
    /\ IF Read("lock") = NoFile
       THEN Goto(p, "create") /\ UNCHANGED removal
       ELSE Remove(p, "lock", Read("lock"), "create")
    /\ ReadTooEarly("lock")
    /\ UNCHANGED <<dir, blank, alive, attempt, own>>

ReadCurrent(p) ==
    /\ At(p, "current")
    /\ LET raw == Read("lock") IN
       \/ HolderAlive(raw) /\ LeaveGate(p, "idle")
       \/ raw = NoFile /\ Goto(p, "create") /\ UNCHANGED removal
       \/ raw # NoFile /\ ~HolderAlive(raw) /\ Remove(p, "lock", raw, "create")
    /\ ReadTooEarly("lock")
    /\ UNCHANGED <<dir, blank, alive, attempt, own>>

-----------------------------------------------------------------------------
(* A removal is over.  Mutant: the token is kept. *)
ProceedKeeping(p) ==
    /\ Goto(p, removal[p].then)
    /\ removal' = [removal EXCEPT ![p] = NoRemoval]
    /\ UNCHANGED own

Proceed(p) ==
    /\ Goto(p, removal[p].then)
    /\ own' = [own EXCEPT ![p][removal[p].path] = NoFile]
    /\ removal' = [removal EXCEPT ![p] = NoRemoval]

(* release, and releaseOwnedPath's look at whether the file is still one's own. *)
Release(p) ==
    /\ At(p, "holding")
    /\ removal' = [removal EXCEPT ![p] = [path |-> "lock", raw |-> own[p]["lock"],
                                          then |-> "idle"]]
    /\ Goto(p, "verify")
    /\ UNCHANGED <<dir, blank, alive, attempt, own, history>>

Verify(p) ==
    /\ At(p, "verify")
    /\ IF Read(removal[p].path) = removal[p].raw
       THEN Goto(p, "rename") /\ UNCHANGED <<own, removal>>
       ELSE Proceed(p)
    /\ UNCHANGED <<dir, blank, alive, attempt, history>>

(* What is at no path can be read by nobody. *)
ForgetFiles == blank' = {f \in blank : \E path \in DOMAIN dir : dir'[path] = f}

(* The file goes into quarantine, *)
Rename(p) ==
    LET path == removal[p].path IN
    /\ At(p, "rename")
    /\ IF dir[path] = NoFile
       THEN Proceed(p) /\ UNCHANGED dir
       ELSE /\ dir' = [dir EXCEPT ![path] = NoFile, ![p] = dir[path]]
            /\ Goto(p, "compare")
            /\ UNCHANGED <<own, removal>>
    /\ UNCHANGED <<blank, alive, attempt, history>>

(* and if it turns out to be another one, back to where it was, over whatever *)
(* is there by now.                                                           *)
Compare(p) ==
    /\ At(p, "compare")
    /\ dir' = IF Read(p) = removal[p].raw
              THEN [dir EXCEPT ![p] = NoFile]
              ELSE [dir EXCEPT ![p] = NoFile, ![removal[p].path] = dir[p]]
    /\ ForgetFiles
    /\ Proceed(p)
    /\ UNCHANGED <<alive, attempt, history>>

(* The process dies; the shared files stay. *)
Die(p) ==
    /\ p \in alive
    /\ alive' = alive \ {p}
    /\ Goto(p, "idle")
    /\ own' = [own EXCEPT ![p] = [path \in Shared |-> NoFile]]
    /\ removal' = [removal EXCEPT ![p] = NoRemoval]
    /\ dir' = [dir EXCEPT ![p] = NoFile]
    /\ ForgetFiles
    /\ happened' = IF InGate(p) THEN happened \cup {"gate left"} ELSE happened
    /\ UNCHANGED <<attempt, alone>>

Next ==
    \E p \in Procs :
        \/ Acquire(p) \/ CreateLock(p) \/ LockExists(p)
        \/ WriteLock(p) \/ WriteLockFails(p)
        \/ Observe(p) \/ Sleep(p)
        \/ CreateGate(p) \/ GateExists(p) \/ WriteGate(p) \/ WriteGateFails(p)
        \/ ObserveGate(p) \/ ReadCurrent(p)
        \/ Release(p) \/ Verify(p) \/ Rename(p) \/ Compare(p)
        \/ Die(p)

Spec == Init /\ [][Next]_vars
-----------------------------------------------------------------------------
Steps == {"idle", "create", "write", "observe", "sleep", "gate", "observe gate",
          "write gate", "current", "verify", "rename", "compare", "holding"}

Contents == Files \cup {NoFile, Empty}

\* Types, and the tokens a process has at each step: a forgotten recoveryToken
\* or ownerToken would make acquire and release work with one of an earlier try.
TypeOK ==
    /\ dir \in [Shared \cup Procs -> Files \cup {NoFile}]
    /\ blank \subseteq Files
    /\ alive \subseteq Procs
    /\ step \in [Procs -> Steps]
    /\ attempt \in [Procs -> 0 .. Attempts]
    /\ own \in [Procs -> [Shared -> Files \cup {NoFile}]]
    /\ removal \in [Procs -> [path : Shared \cup {"none"}, raw : Contents, then : Steps]]
    /\ happened \subseteq {"early read", "gate left"} /\ alone \subseteq Procs
    /\ \A p \in Procs :
        /\ step[p] \in {"write", "holding"} => own[p]["lock"] # NoFile
        /\ step[p] \in {"idle", "observe", "gate"} => \A path \in Shared : own[p][path] = NoFile
        /\ Fresh(p) # {}

Holders == {p \in alive : step[p] = "holding"}

\* One Dave Server runs over a data root at a time.
Exclusive == Cardinality(Holders) <= 1

\* A server that has acquired the lock is the one whose file is at its path, so
\* there is only one, whatever stale file others are clearing away: as long as
\* nobody reads a file between its creation and its record, and no gate is left
\* behind by a process that died or could not write in it.
HolderHasLock == happened = {} => \A p \in Holders : dir["lock"] = own[p]["lock"]

\* Under the same conditions a process that is done, by release, by a refusal or
\* by giving up, leaves no record of its own behind, which would keep everybody
\* out for as long as it runs.
NothingLeft ==
    happened = {} => \A p \in alive, path \in Shared :
        step[p] = "idle" /\ dir[path] \in FilesOf(p) => dir[path] \in blank

\* Whatever the dead have left at the lock and at the gate, also half-written: a
\* process that starts when nobody else is alive is not refused, and gets the
\* lock within two rounds.
Refused(p) ==
    \/ step[p] \in {"observe", "sleep"} /\ step'[p] = "idle"
    \/ step[p] = "current" /\ step'[p] = "verify"

LoneSucceeds == [][\A p \in alone \cap alive' : ~Refused(p)]_vars
================================================================================
