--------------------------- MODULE DataRootLockProofs ---------------------------
(***************************************************************************)
(* The lock of the data root for any number of processes.  Why a holder    *)
(* keeps the lock: a file at the lock's path is removed by its owner, or by *)
(* the process in the gate, which found in the gate that it is nobody's;   *)
(* and two processes are not in the gate together, because a gate belongs  *)
(* to a living process, and what belongs to a living process is not stale. *)
(*                                                                         *)
(* Then, whatever happens: why there is always a name for one more file,   *)
(* and why a process that begins with nobody else alive is not refused.    *)
(***************************************************************************)
EXTENDS DataRootLock, WaitingLineLemmas, FiniteSetTheorems, TLAPS

\* The file that was at path is in p's quarantine.
Leaving(p, path) == step[p] = "compare" /\ removal[p].path = path

\* What a process removes: its own gate, its own lock, or, from within the gate,
\* a lock nobody has for one's own.
LeavesGate(p) ==
    /\ removal[p].path = "recovery"
    /\ removal[p].raw = own[p]["recovery"] /\ InGate(p)
    /\ removal[p].then \in {"idle", "sleep", "holding"}
    /\ removal[p].then = "holding" <=> own[p]["lock"] # NoFile

Releases(p) ==
    /\ removal[p].path = "lock"
    /\ removal[p].raw = own[p]["lock"] /\ own[p]["lock"] # NoFile
    /\ removal[p].then = "idle" /\ ~InGate(p)

ClearsLock(p) ==
    /\ removal[p].path = "lock" /\ removal[p].raw # NoFile
    /\ removal[p].then = "create"
    /\ own[p]["lock"] = NoFile /\ InGate(p)
    /\ step[p] = "rename" => /\ Read("lock") = removal[p].raw
                             /\ \A q \in Procs : own[q]["lock"] # dir["lock"]
    /\ step[p] = "compare" => Read(p) = removal[p].raw

\* The tokens a process has at each step; only a file about to be written is blank.
Stage(p) ==
    /\ step[p] \in {"idle", "observe", "sleep", "gate", "observe gate"}
        => own[p]["lock"] = NoFile /\ ~InGate(p)
    /\ step[p] = "create" => own[p]["lock"] = NoFile
    /\ step[p] = "write" => own[p]["lock"] \in blank
    /\ step[p] = "write gate" => own[p]["lock"] = NoFile /\ own[p]["recovery"] \in blank
    /\ step[p] = "current" => own[p]["lock"] = NoFile /\ InGate(p)
    /\ step[p] = "holding" => own[p]["lock"] # NoFile /\ ~InGate(p)
    /\ step[p] = "verify" => LeavesGate(p) \/ Releases(p)
    /\ step[p] \in {"rename", "compare"} => LeavesGate(p) \/ Releases(p) \/ ClearsLock(p)
    /\ own[p]["lock"] \in blank => step[p] = "write"
    /\ own[p]["recovery"] \in blank => step[p] = "write gate"

\* One's own file is where one created it, or in one's quarantine.
InPlace(p) == \A path \in Shared :
    own[p][path] # NoFile =>
        /\ p \in alive /\ own[p][path] \in FilesOf(p)
        /\ dir[IF Leaving(p, path) THEN p ELSE path] = own[p][path]

\* The types of what the rest speaks of.
Shape ==
    /\ dir \in [Shared \cup Procs -> Files \cup {NoFile}]
    /\ blank \subseteq Files
    /\ alive \subseteq Procs
    /\ step \in [Procs -> Steps]
    /\ own \in [Procs -> [Shared -> Files \cup {NoFile}]]
    /\ removal \in [Procs -> [path : Shared \cup {"none"}, raw : Contents, then : Steps]]

\* A file is at one path.
OnePath == \A x, y \in Shared \cup Procs : x # y /\ dir[x] = dir[y] => dir[x] = NoFile

\* A gate belongs to a living process that is in it.
GateOwned == dir["recovery"] # NoFile => \E q \in alive : own[q]["recovery"] = dir["recovery"]

\* A lock file of a living process is its own, or has no record.
LockLeft == \A p \in alive :
    dir["lock"] \in FilesOf(p) => own[p]["lock"] = dir["lock"] \/ dir["lock"] \in blank

\* The inductive invariant.  It says nothing of what follows an early read or a
\* gate left behind.
Good == /\ Shape /\ OnePath /\ GateOwned /\ LockLeft
        /\ \A p \in Procs : Stage(p) /\ InPlace(p)
IInv == happened = {} => Good

-----------------------------------------------------------------------------
\* Files tell who created them, and are neither NoFile nor Empty.
LEMMA FileFacts ==
    /\ NoFile \notin Files /\ Empty \notin Files /\ NoFile # Empty
    /\ \A p \in Procs : FilesOf(p) \subseteq Files
    /\ \A p \in Procs : \A f \in FilesOf(p) : f \in Files /\ f[1] = p
    /\ \A p, q \in Procs : p # q => FilesOf(p) \cap FilesOf(q) = {}
    /\ \A f \in Files : f[1] \in Procs /\ f \in FilesOf(f[1])
<1>1. NoFile \notin Files /\ Empty \notin Files /\ NoFile # Empty
  BY DEF NoFile, Empty, Files
<1>2. \A p \in Procs : \A f \in FilesOf(p) : f \in Files /\ f[1] = p
  BY DEF Files, FilesOf
<1>3. \A f \in Files : f[1] \in Procs /\ f \in FilesOf(f[1])
  BY DEF Files, FilesOf
<1> QED BY <1>1, <1>2, <1>3

\* A fresh file is one's own and at no path.
LEMMA FreshFacts ==
    ASSUME NEW p \in Procs, NEW f \in Fresh(p)
    PROVE  /\ f \in FilesOf(p)
           /\ \A path \in DOMAIN dir : dir[path] # f
BY DEF Fresh, FilesOf

\* There are file names enough for the files of the dead.
LEMMA LeftAreFiles == Dead \X {1, 2} \subseteq Files
<1>1. Cardinality(Procs) \in Nat
  BY LockAssumption, FS_CardinalityType
<1>2. {1, 2} \subseteq 1 .. Tokens
  BY <1>1, LockAssumption
<1> QED BY <1>2, LockAssumption DEF Files

\* What the dead have left is nobody's own.
LEMMA InitGood ==
    ASSUME LockAssumption, Init
    PROVE  IInv
<1> SUFFICES ASSUME happened = {} PROVE Good
  BY DEF IInv
<1>1. PICK left \in [Shared -> {NoFile} \cup (Dead \X {1, 2})] :
        /\ left["lock"] = left["recovery"] => left["lock"] = NoFile
        /\ dir = [path \in Shared \cup Procs |-> IF path \in Shared THEN left[path] ELSE NoFile]
        /\ blank \in SUBSET {f \in Files : \E path \in Shared : left[path] = f}
  BY DEF Init
<1>2. alive = Procs \ Dead /\ \A p \in Procs : /\ step[p] = "idle"
                                             /\ own[p]["lock"] = NoFile
                                             /\ own[p]["recovery"] = NoFile
  BY DEF Init, Shared
<1>3. Dead \X {1, 2} \subseteq Files
  BY LeftAreFiles
<1>4. NoRemoval \in [path : Shared \cup {"none"}, raw : Contents, then : Steps]
  BY DEF NoRemoval, Contents, Steps
<1>5. Shape
  <2>1. dir \in [Shared \cup Procs -> Files \cup {NoFile}] /\ blank \subseteq Files
    BY <1>1, <1>3
  <2>2. removal \in [Procs -> [path : Shared \cup {"none"}, raw : Contents, then : Steps]]
    BY <1>4 DEF Init
  <2> QED BY <1>2, <2>1, <2>2 DEF Init, Shape, Steps
<1>6. dir["recovery"] = NoFile
  BY DEF Init
<1>7. OnePath
  BY <1>1, <1>6 DEF OnePath, Shared
<1>8. LockLeft
  <2> SUFFICES ASSUME NEW p \in alive, dir["lock"] \in FilesOf(p) PROVE FALSE
    BY DEF LockLeft
  <2>1. dir["lock"] \in Dead \X {1, 2}
    BY <1>1, <1>2, FileFacts DEF Shared
  <2>2. dir["lock"][1] \in Dead /\ dir["lock"][1] = p
    BY <1>2, <2>1, FileFacts
  <2> QED BY <1>2, <2>2
<1>9. \A p \in Procs : Stage(p) /\ InPlace(p)
  <2> SUFFICES ASSUME NEW p \in Procs PROVE Stage(p) /\ InPlace(p)
    OBVIOUS
  <2>1. NoFile \notin blank
    BY <1>5, FileFacts DEF Shape
  <2>2. Stage(p)
    BY <1>2, <2>1 DEF Stage, InGate
  <2> QED BY <1>2, <2>2 DEF InPlace, Shared
<1> QED BY <1>5, <1>6, <1>7, <1>8, <1>9 DEF Good, GateOwned

\* What a process does without touching a file: the others see no difference.
LEMMA StepOnly ==
    ASSUME Good, NEW p \in Procs, p \in alive,
           UNCHANGED <<dir, blank, alive, own>>,
           NEW s \in Steps, Goto(p, s), step[p] # "compare", s # "compare",
           \/ removal' = removal
           \/ \E r \in [path : Shared \cup {"none"}, raw : Contents, then : Steps] :
                removal' = [removal EXCEPT ![p] = r],
           Stage(p)'
    PROVE  Good'
<1>1. Shape'
  BY DEF Good, Shape, Goto
<1>2. OnePath' /\ GateOwned' /\ LockLeft'
  BY DEF Good, OnePath, GateOwned, LockLeft
<1>3. ASSUME NEW q \in Procs PROVE Stage(q)' /\ InPlace(q)'
  <2>1. step'[p] = s /\ (q # p => step'[q] = step[q] /\ removal'[q] = removal[q])
    BY DEF Good, Shape, Goto
  <2>2. InPlace(q)'
    BY <2>1 DEF Good, InPlace, Leaving
  <2>3. q # p => Stage(q)'
    <3> SUFFICES ASSUME q # p PROVE Stage(q)'
      OBVIOUS
    <3>1. Stage(q)
      BY DEF Good
    <3>2. step'[q] = step[q] /\ removal'[q] = removal[q]
      BY <2>1
    <3> QED BY ONLY <3>1, <3>2, UNCHANGED <<dir, blank, own>>
            DEF Stage, InGate, LeavesGate, Releases, ClearsLock, Read
  <2> QED BY <2>2, <2>3
<1> QED BY <1>1, <1>2, <1>3 DEF Good

\* Only files are blank.
LEMMA NoFileNotBlank ==
    ASSUME Good
    PROVE  NoFile \notin blank
BY FileFacts DEF Good, Shape

\* The steps that only look, outside the gate.
LEMMA LookSteps ==
    ASSUME Good, NEW p \in Procs,
           Acquire(p) \/ Observe(p) \/ Sleep(p) \/ GateExists(p)
    PROVE  Good'
<1>1. UNCHANGED <<dir, blank, alive, own, removal>> /\ p \in alive
  BY DEF Acquire, Observe, Sleep, GateExists, At
<1>2. step[p] \in {"idle", "observe", "sleep", "gate"}
  BY DEF Acquire, Observe, Sleep, GateExists, At
<1>3. PICK s \in {"create", "idle", "gate", "observe", "observe gate"} : Goto(p, s)
  BY DEF Acquire, Observe, Sleep, GateExists
<1>4. step'[p] = s
  BY <1>3 DEF Good, Shape, Goto
<1>5. Stage(p)'
  BY <1>1, <1>2, <1>4, NoFileNotBlank DEF Good, Stage, InGate
<1> QED BY <1>1, <1>2, <1>3, <1>5, StepOnly DEF Steps

\* Who leaves the gate will remove its own file there.
LEMMA LeaveGateStage ==
    ASSUME Good, NEW p \in Procs, NEW t \in {"idle", "sleep", "holding"},
           LeaveGate(p, t), InGate(p), own'[p]["recovery"] = own[p]["recovery"],
           own'[p]["recovery"] \notin blank', own'[p]["lock"] \notin blank',
           t = "holding" <=> own'[p]["lock"] # NoFile
    PROVE  /\ Stage(p)'
           /\ \E r \in [path : Shared \cup {"none"}, raw : Contents, then : Steps] :
                 removal' = [removal EXCEPT ![p] = r]
           /\ Goto(p, "verify")
<1> DEFINE r == [path |-> "recovery", raw |-> own[p]["recovery"], then |-> t]
<1>1. r \in [path : Shared \cup {"none"}, raw : Contents, then : Steps]
  <2>1. "recovery" \in Shared
    BY DEF Shared
  <2>2. own[p]["recovery"] \in Contents
    BY <2>1 DEF Good, Shape, Contents
  <2> QED BY <2>1, <2>2 DEF Steps
<1>2. removal' = [removal EXCEPT ![p] = r] /\ Goto(p, "verify")
  BY DEF LeaveGate
<1>3. removal'[p] = r /\ step'[p] = "verify"
  BY <1>2 DEF Good, Shape, Goto
<1>4. LeavesGate(p)'
  BY <1>3 DEF LeavesGate, InGate
<1>5. Stage(p)'
  BY <1>3, <1>4 DEF Stage
<1> QED BY <1>1, <1>2, <1>5

\* Another process was faster: on to the loop, or out of the gate.
LEMMA LockExistsStep ==
    ASSUME Good, NEW p \in Procs, LockExists(p)
    PROVE  Good'
<1>1. p \in alive /\ step[p] = "create" /\ own[p]["lock"] = NoFile
  BY DEF LockExists, At, Good, Stage
<1>2. UNCHANGED <<dir, blank, alive, own>>
  BY DEF LockExists
<1>3. CASE InGate(p)
  <2>1. own[p]["recovery"] \notin blank /\ own[p]["lock"] \notin blank
    BY <1>1 DEF Good, Stage
  <2>2. LeaveGate(p, "sleep")
    BY <1>3 DEF LockExists
  <2> QED BY <1>1, <1>2, <1>3, <2>1, <2>2, LeaveGateStage, StepOnly DEF Steps
<1>4. CASE ~InGate(p)
  <2>1. Goto(p, "observe") /\ removal' = removal
    BY <1>4 DEF LockExists
  <2>2. step'[p] = "observe"
    BY <2>1 DEF Good, Shape, Goto
  <2>3. Stage(p)'
    BY <1>1, <1>2, <1>4, <2>2, NoFileNotBlank DEF Good, Stage, InGate
  <2> QED BY <1>1, <1>2, <2>1, <2>3, StepOnly DEF Steps
<1> QED BY <1>3, <1>4

\* A gate that is occupied belongs to a living process, so nobody clears it away.
LEMMA ObserveGateStep ==
    ASSUME Good, NEW p \in Procs, ObserveGate(p), happened' = {}
    PROVE  Good'
<1>1. p \in alive /\ step[p] = "observe gate" /\ UNCHANGED <<dir, blank, alive, own>>
  BY DEF ObserveGate, At
<1>2. dir["recovery"] = NoFile \/ HolderAlive(Read("recovery"))
  <2> SUFFICES ASSUME dir["recovery"] # NoFile PROVE HolderAlive(Read("recovery"))
    OBVIOUS
  <2>1. PICK q \in alive : own[q]["recovery"] = dir["recovery"]
    BY DEF Good, GateOwned
  <2>2. q \in Procs /\ own[q]["recovery"] \in FilesOf(q)
    BY <2>1 DEF Good, Shape, InPlace, Shared
  <2>3. dir["recovery"] \notin blank
    BY <2>1, <2>2 DEF Good, Stage, ObserveGate, ReadTooEarly
  <2> QED BY <2>1, <2>2, <2>3, FileFacts DEF Read, HolderAlive
<1>3. Read("recovery") = NoFile \/ HolderAlive(Read("recovery"))
  BY <1>2, NoFileNotBlank DEF Read
<1>4. Goto(p, "sleep") /\ removal' = removal
  BY <1>3 DEF ObserveGate
<1>5. step'[p] = "sleep"
  BY <1>4 DEF Good, Shape, Goto
<1>6. Stage(p)'
  BY <1>1, <1>5, NoFileNotBlank DEF Good, Stage, InGate
<1> QED BY <1>1, <1>4, <1>6, StepOnly DEF Steps

\* Within the gate: the lock's file is left alone if a living process owns it,
\* and otherwise nobody has it for one's own.
LEMMA ReadCurrentStep ==
    ASSUME Good, NEW p \in Procs, ReadCurrent(p), happened' = {}
    PROVE  Good'
<1>1. /\ p \in alive /\ step[p] = "current" /\ UNCHANGED <<dir, blank, alive, own>>
      /\ own[p]["lock"] = NoFile /\ InGate(p)
  BY DEF ReadCurrent, At, Good, Stage
<1>2. own[p]["recovery"] \notin blank /\ own[p]["lock"] \notin blank
  BY <1>1, NoFileNotBlank DEF Good, Stage
<1> DEFINE raw == Read("lock")
<1>3. CASE LeaveGate(p, "idle")
  BY <1>1, <1>2, <1>3, LeaveGateStage, StepOnly DEF Steps
<1>4. CASE Goto(p, "create") /\ UNCHANGED removal
  <2>1. step'[p] = "create"
    BY <1>4 DEF Good, Shape, Goto
  <2>2. Stage(p)'
    BY <1>1, <1>2, <2>1 DEF Stage
  <2> QED BY <1>1, <1>4, <2>2, StepOnly DEF Steps
<1>5. CASE raw # NoFile /\ ~HolderAlive(raw) /\ Remove(p, "lock", raw, "create")
  <2> DEFINE r == [path |-> "lock", raw |-> raw, then |-> "create"]
  <2>1. removal' = [removal EXCEPT ![p] = r] /\ Goto(p, "rename")
    BY <1>5 DEF Remove
  <2>2. "lock" \in Shared
    BY DEF Shared
  <2>3. raw \in Contents
    BY <2>2 DEF Good, Shape, Read, Contents
  <2>4. r \in [path : Shared \cup {"none"}, raw : Contents, then : Steps]
    BY <2>2, <2>3 DEF Steps
  <2>5. removal'[p] = r /\ step'[p] = "rename"
    BY <2>1 DEF Good, Shape, Goto
  <2>6. dir["lock"] # NoFile
    BY <1>5, NoFileNotBlank DEF Read
  <2>7. ASSUME NEW q \in Procs, own[q]["lock"] = dir["lock"] PROVE FALSE
    <3>1. q \in alive /\ dir["lock"] \in FilesOf(q)
      BY <2>2, <2>6, <2>7 DEF Good, InPlace
    <3>2. dir["lock"] \in blank
      BY <1>5, <3>1, FileFacts DEF Read, HolderAlive
    <3>3. step[q] = "write"
      BY <2>7, <3>2 DEF Good, Stage
    <3> QED BY <2>7, <3>1, <3>2, <3>3 DEF ReadCurrent, ReadTooEarly
  <2>8. ClearsLock(p)'
    BY <1>1, <1>5, <2>5, <2>7 DEF ClearsLock, InGate, Read
  <2>9. Stage(p)'
    BY <1>1, <1>2, <2>5, <2>8 DEF Stage
  <2> QED BY <1>1, <2>1, <2>4, <2>9, StepOnly DEF Steps
<1> QED BY <1>3, <1>4, <1>5 DEF ReadCurrent

\* The holder sets out to remove its own file.
LEMMA ReleaseStep ==
    ASSUME Good, NEW p \in Procs, Release(p)
    PROVE  Good'
<1>1. /\ p \in alive /\ step[p] = "holding" /\ UNCHANGED <<dir, blank, alive, own>>
      /\ own[p]["lock"] # NoFile /\ ~InGate(p)
  BY DEF Release, At, Good, Stage
<1>2. own[p]["recovery"] \notin blank /\ own[p]["lock"] \notin blank
  BY <1>1 DEF Good, Stage
<1> DEFINE r == [path |-> "lock", raw |-> own[p]["lock"], then |-> "idle"]
<1>3. removal' = [removal EXCEPT ![p] = r] /\ Goto(p, "verify")
  BY DEF Release
<1>4. "lock" \in Shared
  BY DEF Shared
<1>5. r \in [path : Shared \cup {"none"}, raw : Contents, then : Steps]
  <2>1. own[p]["lock"] \in Contents
    BY <1>4 DEF Good, Shape, Contents
  <2> QED BY <1>4, <2>1 DEF Steps
<1>6. removal'[p] = r /\ step'[p] = "verify"
  BY <1>3 DEF Good, Shape, Goto
<1>7. Releases(p)'
  BY <1>1, <1>6 DEF Releases, InGate
<1>8. Stage(p)'
  BY <1>1, <1>2, <1>6, <1>7 DEF Stage
<1> QED BY <1>1, <1>3, <1>5, <1>8, StepOnly DEF Steps

\* One's own file is where one left it.
LEMMA VerifyStep ==
    ASSUME Good, NEW p \in Procs, Verify(p)
    PROVE  Good'
<1>1. p \in alive /\ step[p] = "verify" /\ UNCHANGED <<dir, blank, alive>>
  BY DEF Verify, At
<1>2. LeavesGate(p) \/ Releases(p)
  BY <1>1 DEF Good, Stage
<1>3. own[p]["recovery"] \notin blank /\ own[p]["lock"] \notin blank
  BY <1>1 DEF Good, Stage
<1>4. Read(removal[p].path) = removal[p].raw
  BY <1>1, <1>2, <1>3 DEF Good, InPlace, Leaving, LeavesGate, Releases, InGate, Read, Shared
<1>5. Goto(p, "rename") /\ UNCHANGED <<own, removal>>
  BY <1>4 DEF Verify
<1>6. step'[p] = "rename"
  BY <1>5 DEF Good, Shape, Goto
<1>7. Stage(p)'
  BY <1>1, <1>2, <1>3, <1>5, <1>6 DEF Stage, LeavesGate, Releases, InGate
<1> QED BY <1>1, <1>5, <1>7, StepOnly DEF Steps

-----------------------------------------------------------------------------
\* Two living processes do not own the same file, nor one the same file twice.
LEMMA OwnApart ==
    ASSUME Good, NEW p \in Procs, NEW path \in Shared, own[p][path] # NoFile
    PROVE  /\ \A q \in Procs : q # p => \A other \in Shared : own[q][other] # own[p][path]
           /\ \A other \in Shared : other # path => own[p][other] # own[p][path]
<1>1. own[p][path] \in FilesOf(p)
  BY DEF Good, InPlace
<1>2. ASSUME NEW q \in Procs, q # p, NEW other \in Shared, own[q][other] = own[p][path]
      PROVE  FALSE
  <2>1. own[q][other] \in FilesOf(q)
    BY <1>2 DEF Good, InPlace
  <2> QED BY <1>1, <1>2, <2>1, FileFacts
<1>3. ASSUME NEW other \in Shared, other # path, own[p][other] = own[p][path]
      PROVE  FALSE
  <2> DEFINE x == IF Leaving(p, path) THEN p ELSE path
             y == IF Leaving(p, other) THEN p ELSE other
  <2>1. dir[x] = own[p][path] /\ dir[y] = own[p][other]
    BY <1>3 DEF Good, InPlace
  <2>2. x # y /\ x \in Shared \cup Procs /\ y \in Shared \cup Procs
    BY <1>3, LockAssumption DEF Leaving
  <2> QED BY <1>3, <2>1, <2>2 DEF Good, OnePath
<1> QED BY <1>2, <1>3

\* A process that does nothing keeps its place when its files keep theirs.
LEMMA OtherStays ==
    ASSUME Good, NEW q \in Procs,
           step'[q] = step[q], own'[q] = own[q], removal'[q] = removal[q],
           q \in alive => q \in alive',
           \A path \in Shared : own[q][path] # NoFile => (own[q][path] \in blank' <=> own[q][path] \in blank),
           blank' \subseteq Files,
           \A path \in Shared : own[q][path] # NoFile /\ own[q][path] = dir[path] => dir'[path] = dir[path],
           Read(q)' = Read(q), dir'[q] = dir[q],
           step[q] = "rename" /\ ClearsLock(q) => ClearsLock(q)'
    PROVE  Stage(q)' /\ InPlace(q)'
<1>1. NoFile \notin blank /\ NoFile \notin blank'
  BY NoFileNotBlank, FileFacts
<1>2. \A path \in Shared : own[q][path] \in blank' <=> own[q][path] \in blank
  BY <1>1
<1>3. InPlace(q)'
  BY DEF Good, InPlace, Leaving
<1>4. step[q] = "compare" /\ ClearsLock(q) => ClearsLock(q)'
  BY DEF ClearsLock, InGate
<1>5. (LeavesGate(q) => LeavesGate(q)') /\ (Releases(q) => Releases(q)')
  BY DEF LeavesGate, Releases, InGate
<1>6. Stage(q)
  BY DEF Good
<1>7. "lock" \in Shared /\ "recovery" \in Shared
  BY DEF Shared
<1>8. /\ own[q]["lock"] \in blank' <=> own[q]["lock"] \in blank
      /\ own[q]["recovery"] \in blank' <=> own[q]["recovery"] \in blank
  BY <1>2, <1>7
<1>9. Stage(q)'
  BY <1>4, <1>5, <1>6, <1>8 DEF Stage, InGate
<1> QED BY <1>3, <1>9

\* The file created at the lock is one's own; nobody was clearing the path.
LEMMA CreateLockStep ==
    ASSUME Good, NEW p \in Procs, CreateLock(p)
    PROVE  Good'
<1>1. p \in alive /\ step[p] = "create" /\ own[p]["lock"] = NoFile /\ UNCHANGED <<alive, removal>>
  BY DEF CreateLock, At, Good, Stage
<1>2. PICK f \in Fresh(p) :
        /\ dir["lock"] = NoFile
        /\ dir' = [dir EXCEPT !["lock"] = f]
        /\ blank' = blank \cup {f}
        /\ own' = [own EXCEPT ![p]["lock"] = f]
  BY DEF CreateLock, Create
<1>3. f \in FilesOf(p) /\ f \in Files /\ f # NoFile /\ \A x \in Shared \cup Procs : dir[x] # f
  BY FreshFacts, FileFacts DEF Good, Shape
<1>4. "lock" \in Shared /\ "recovery" \in Shared /\ Shared = {"lock", "recovery"}
  BY DEF Shared
<1>5. /\ step'[p] = "write" /\ own'[p]["lock"] = f /\ dir'["lock"] = f
      /\ own'[p]["recovery"] = own[p]["recovery"]
      /\ \A q \in Procs : q # p => step'[q] = step[q] /\ own'[q] = own[q]
      /\ \A x \in Shared \cup Procs : x # "lock" => dir'[x] = dir[x]
  BY <1>2, <1>4 DEF CreateLock, Goto, Good, Shape
<1>6. Shape'
  BY <1>1, <1>2, <1>3, <1>4 DEF Good, Shape, CreateLock, Goto, Steps
<1>7. OnePath'
  BY <1>3, <1>5 DEF Good, OnePath
<1>8. GateOwned'
  BY <1>1, <1>4, <1>5 DEF Good, GateOwned, Shape
<1>9. LockLeft'
  BY <1>2, <1>5 DEF LockLeft
<1>10. \A q \in Procs, path \in Shared : own[q][path] # f
  <2> SUFFICES ASSUME NEW q \in Procs, NEW path \in Shared, own[q][path] = f PROVE FALSE
    OBVIOUS
  <2>1. dir[IF Leaving(q, path) THEN q ELSE path] = f
    BY <1>3 DEF Good, InPlace
  <2> QED BY <1>3, <2>1
<1>11. Stage(p)' /\ InPlace(p)'
  <2>1. own[p]["recovery"] \notin blank'
    BY <1>1, <1>2, <1>4, <1>10 DEF Good, Stage
  <2>2. Stage(p)'
    BY <1>2, <1>5, <2>1 DEF Stage
  <2>3. InPlace(p)'
    BY <1>1, <1>3, <1>4, <1>5 DEF Good, InPlace, Leaving
  <2> QED BY <2>2, <2>3
<1>12. ASSUME NEW q \in Procs, q # p PROVE Stage(q)' /\ InPlace(q)'
  <2>1. q # "lock"
    BY <1>4, LockAssumption
  <2>2. dir'[q] = dir[q] /\ Read(q)' = Read(q)
    BY <1>2, <1>3, <1>5, <2>1 DEF Read
  <2>3. ~(step[q] = "rename" /\ ClearsLock(q))
    BY <1>2, NoFileNotBlank DEF ClearsLock, Read
  <2>4. \A path \in Shared : own[q][path] # NoFile /\ own[q][path] = dir[path] => dir'[path] = dir[path]
    BY <1>2, <1>5
  <2>5. \A path \in Shared : own[q][path] \in blank' <=> own[q][path] \in blank
    BY <1>2, <1>10
  <2>6. blank' \subseteq Files
    BY <1>6 DEF Shape
  <2> QED BY <1>1, <1>5, <1>12, <2>2, <2>3, <2>4, <2>5, <2>6, OtherStays
<1> QED BY <1>6, <1>7, <1>8, <1>9, <1>11, <1>12 DEF Good

\* A record is written: the file was the process's own, so nobody else's changes.
LEMMA WriteOthers ==
    ASSUME Good, NEW p \in Procs, NEW path \in Shared,
           own[p][path] \in blank, step[p] # "compare", blank' = blank \ {own[p][path]},
           UNCHANGED <<dir, alive>>,
           own' = own,
           \A q \in Procs : q # p => step'[q] = step[q] /\ removal'[q] = removal[q]
    PROVE  /\ OnePath' /\ GateOwned' /\ LockLeft'
           /\ \A q \in Procs : q # p => Stage(q)' /\ InPlace(q)'
           /\ \A other \in Shared : other # path =>
                (own[p][other] \in blank' <=> own[p][other] \in blank)
<1> DEFINE f == own[p][path]
<1>1. f # NoFile /\ p \in alive /\ f \in FilesOf(p) /\ dir[path] = f
  BY NoFileNotBlank DEF Good, InPlace, Leaving
<1>2. OnePath' /\ GateOwned'
  BY DEF Good, OnePath, GateOwned
<1>3. LockLeft'
  <2> SUFFICES ASSUME NEW q \in alive, dir["lock"] \in FilesOf(q), own[q]["lock"] # dir["lock"]
               PROVE  dir["lock"] \in blank'
    BY DEF LockLeft
  <2>1. dir["lock"] \in blank
    BY DEF Good, LockLeft
  <2>2. dir["lock"] # f
    <3> SUFFICES ASSUME dir["lock"] = f PROVE FALSE
      OBVIOUS
    <3>1. q = p
      BY <1>1, FileFacts DEF Good, Shape
    <3>2. path = "lock"
      BY <1>1, LockAssumption DEF Good, OnePath, Shared
    <3> QED BY <3>1, <3>2
  <2> QED BY <2>1, <2>2
<1>4. ASSUME NEW q \in Procs, q # p PROVE Stage(q)' /\ InPlace(q)'
  <2>1. \A other \in Shared : own[q][other] # f
    BY <1>1, <1>4, OwnApart
  <2>2. dir[q] # f
    BY <1>1, LockAssumption DEF Good, OnePath
  <2>3. Read(q)' = Read(q)
    BY <2>2 DEF Read
  <2>4. ASSUME step[q] = "rename", ClearsLock(q) PROVE ClearsLock(q)'
    <3>1. dir["lock"] # f
      <4> SUFFICES ASSUME dir["lock"] = f PROVE FALSE
        OBVIOUS
      <4>1. path = "lock"
        BY <1>1 DEF Good, OnePath, Shared
      <4> QED BY <2>4, <4>1 DEF ClearsLock
    <3> QED BY <1>4, <2>3, <2>4, <3>1 DEF ClearsLock, InGate, Read
  <2>5. blank' \subseteq Files
    BY DEF Good, Shape
  <2> QED BY <1>4, <2>1, <2>3, <2>4, <2>5, OtherStays
<1>5. \A other \in Shared : other # path => own[p][other] # f
  BY <1>1, OwnApart
<1> QED BY <1>2, <1>3, <1>4, <1>5

\* The record is in the lock, and the process holds it or leaves the gate first.
LEMMA WriteLockStep ==
    ASSUME Good, NEW p \in Procs, WriteLock(p)
    PROVE  Good'
<1>1. p \in alive /\ step[p] = "write" /\ own[p]["lock"] \in blank
  BY DEF WriteLock, At, Good, Stage
<1>2. UNCHANGED <<dir, alive, own>> /\ blank' = blank \ {own[p]["lock"]}
  BY DEF WriteLock, Write
<1>3. "lock" \in Shared /\ "recovery" \in Shared
  BY DEF Shared
<1>4. own[p]["lock"] # NoFile /\ own[p]["recovery"] \notin blank
  BY <1>1, NoFileNotBlank DEF Good, Stage
<1>5. /\ step'[p] \in {"verify", "holding"} /\ Stage(p)' /\ Shape'
      /\ \A q \in Procs : q # p => step'[q] = step[q] /\ removal'[q] = removal[q]
  <2>1. CASE InGate(p)
    <3>1. LeaveGate(p, "holding")
      BY <2>1 DEF WriteLock
    <3>2. Stage(p)' /\ Goto(p, "verify")
          /\ \E r \in [path : Shared \cup {"none"}, raw : Contents, then : Steps] :
                removal' = [removal EXCEPT ![p] = r]
      BY <1>2, <1>4, <2>1, <3>1, LeaveGateStage
    <3>3. PICK r \in [path : Shared \cup {"none"}, raw : Contents, then : Steps] :
            removal' = [removal EXCEPT ![p] = r]
      BY <3>2
    <3>4. step' = [step EXCEPT ![p] = "verify"]
      BY <3>2 DEF Goto
    <3>5. step'[p] = "verify" /\ \A q \in Procs : q # p => step'[q] = step[q] /\ removal'[q] = removal[q]
      BY <3>3, <3>4 DEF Good, Shape
    <3>6. Shape'
      BY <1>2, <3>3, <3>4 DEF Good, Shape, Steps
    <3> QED BY <3>2, <3>5, <3>6
  <2>2. CASE ~InGate(p)
    <3>1. Goto(p, "holding") /\ removal' = removal
      BY <2>2 DEF WriteLock
    <3>2. step'[p] = "holding"
      BY <3>1 DEF Goto, Good, Shape
    <3>3. Stage(p)'
      BY <1>2, <1>4, <2>2, <3>2 DEF Stage, InGate
    <3> QED BY <1>2, <3>1, <3>2, <3>3 DEF Goto, Good, Shape, Steps
  <2> QED BY <2>1, <2>2
<1>6. InPlace(p)'
  BY <1>1, <1>2, <1>5 DEF Good, InPlace, Leaving
<1>7. OnePath' /\ GateOwned' /\ LockLeft' /\ \A q \in Procs : q # p => Stage(q)' /\ InPlace(q)'
  BY <1>1, <1>2, <1>3, <1>5, WriteOthers
<1> QED BY <1>5, <1>6, <1>7 DEF Good

\* The record is in the gate.
LEMMA WriteGateStep ==
    ASSUME Good, NEW p \in Procs, WriteGate(p)
    PROVE  Good'
<1>1. p \in alive /\ step[p] = "write gate" /\ own[p]["recovery"] \in blank /\ own[p]["lock"] = NoFile
  BY DEF WriteGate, At, Good, Stage
<1>2. UNCHANGED <<dir, alive, own, removal>> /\ blank' = blank \ {own[p]["recovery"]}
  BY DEF WriteGate, Write
<1>3. "recovery" \in Shared
  BY DEF Shared
<1>4. step'[p] = "current" /\ \A q \in Procs : q # p => step'[q] = step[q]
  BY DEF WriteGate, Goto, Good, Shape
<1>5. Shape'
  BY <1>2 DEF WriteGate, Goto, Good, Shape, Steps
<1>6. Stage(p)' /\ InPlace(p)'
  BY <1>1, <1>2, <1>4, NoFileNotBlank DEF Good, Stage, InPlace, Leaving, InGate
<1>7. OnePath' /\ GateOwned' /\ LockLeft' /\ \A q \in Procs : q # p => Stage(q)' /\ InPlace(q)'
  BY <1>1, <1>2, <1>3, <1>4, WriteOthers
<1> QED BY <1>5, <1>6, <1>7 DEF Good

\* The empty file stays, and is nobody's own any more.
LEMMA WriteLockFailsStep ==
    ASSUME Good, NEW p \in Procs, WriteLockFails(p)
    PROVE  Good'
<1>1. /\ p \in alive /\ step[p] = "write" /\ own[p]["lock"] \in blank
      /\ own[p]["recovery"] \notin blank /\ UNCHANGED <<dir, blank, alive>>
  BY DEF WriteLockFails, At, Good, Stage
<1>2. own' = [own EXCEPT ![p]["lock"] = NoFile]
  BY DEF WriteLockFails
<1>3. "lock" \in Shared /\ "recovery" \in Shared /\ Shared = {"lock", "recovery"}
  BY DEF Shared
<1>4. /\ own'[p]["lock"] = NoFile /\ own'[p]["recovery"] = own[p]["recovery"]
      /\ \A q \in Procs : q # p => own'[q] = own[q]
  BY <1>2, <1>3 DEF Good, Shape
<1>5. /\ step'[p] \in {"verify", "idle"} /\ Stage(p)' /\ Shape'
      /\ \A q \in Procs : q # p => step'[q] = step[q] /\ removal'[q] = removal[q]
  <2>0. own' \in [Procs -> [Shared -> Files \cup {NoFile}]]
    BY <1>2, <1>3 DEF Good, Shape
  <2>1. CASE InGate(p)
    <3>1. LeaveGate(p, "idle")
      BY <2>1 DEF WriteLockFails
    <3>2. Stage(p)' /\ Goto(p, "verify")
          /\ \E r \in [path : Shared \cup {"none"}, raw : Contents, then : Steps] :
                removal' = [removal EXCEPT ![p] = r]
      BY <1>1, <1>4, <2>1, <3>1, LeaveGateStage, NoFileNotBlank
    <3>3. PICK r \in [path : Shared \cup {"none"}, raw : Contents, then : Steps] :
            removal' = [removal EXCEPT ![p] = r]
      BY <3>2
    <3>4. step' = [step EXCEPT ![p] = "verify"]
      BY <3>2 DEF Goto
    <3>5. step'[p] = "verify" /\ \A q \in Procs : q # p => step'[q] = step[q] /\ removal'[q] = removal[q]
      BY <3>3, <3>4 DEF Good, Shape
    <3>6. Shape'
      BY <1>1, <2>0, <3>3, <3>4 DEF Good, Shape, Steps
    <3> QED BY <3>2, <3>5, <3>6
  <2>2. CASE ~InGate(p)
    <3>1. Goto(p, "idle") /\ removal' = removal
      BY <2>2 DEF WriteLockFails
    <3>2. step'[p] = "idle"
      BY <3>1 DEF Goto, Good, Shape
    <3>3. Stage(p)'
      BY <1>1, <1>4, <2>2, <3>2, NoFileNotBlank DEF Stage, InGate
    <3> QED BY <1>1, <2>0, <3>1, <3>2, <3>3 DEF Goto, Good, Shape, Steps
  <2> QED BY <2>1, <2>2
<1>6. InPlace(p)'
  BY <1>1, <1>3, <1>4, <1>5 DEF Good, InPlace, Leaving
<1>7. OnePath' /\ GateOwned'
  <2>1. OnePath'
    BY <1>1 DEF Good, OnePath
  <2>2. GateOwned'
    BY <1>1, <1>4 DEF Good, GateOwned, Shape
  <2> QED BY <2>1, <2>2
<1>8. LockLeft'
  BY <1>1, <1>4 DEF Good, LockLeft, Shape
<1>9. ASSUME NEW q \in Procs, q # p PROVE Stage(q)' /\ InPlace(q)'
  <2>1. Read(q)' = Read(q)
    BY <1>1 DEF Read
  <2>2. ASSUME step[q] = "rename", ClearsLock(q) PROVE ClearsLock(q)'
    <3>1. dir["lock"] # NoFile
      BY <2>2, NoFileNotBlank DEF ClearsLock, Read
    <3> QED BY <1>1, <1>4, <1>5, <1>9, <2>1, <2>2, <3>1 DEF ClearsLock, InGate, Read
  <2> QED BY <1>1, <1>4, <1>5, <1>9, <2>1, <2>2, OtherStays DEF Good, Shape
<1> QED BY <1>5, <1>6, <1>7, <1>8, <1>9 DEF Good

\* The file created at the gate belongs to a process that lives.
LEMMA CreateGateStep ==
    ASSUME Good, NEW p \in Procs, CreateGate(p)
    PROVE  Good'
<1>1. /\ p \in alive /\ step[p] = "gate" /\ own[p]["lock"] = NoFile /\ ~InGate(p)
      /\ UNCHANGED <<alive, removal>>
  BY DEF CreateGate, At, Good, Stage
<1>2. PICK f \in Fresh(p) :
        /\ dir["recovery"] = NoFile
        /\ dir' = [dir EXCEPT !["recovery"] = f]
        /\ blank' = blank \cup {f}
        /\ own' = [own EXCEPT ![p]["recovery"] = f]
  BY DEF CreateGate, Create
<1>3. f \in FilesOf(p) /\ f \in Files /\ f # NoFile /\ \A x \in Shared \cup Procs : dir[x] # f
  BY FreshFacts, FileFacts DEF Good, Shape
<1>4. "lock" \in Shared /\ "recovery" \in Shared /\ Shared = {"lock", "recovery"}
  BY DEF Shared
<1>5. /\ step'[p] = "write gate" /\ own'[p]["recovery"] = f /\ dir'["recovery"] = f
      /\ own'[p]["lock"] = own[p]["lock"]
      /\ \A q \in Procs : q # p => step'[q] = step[q] /\ own'[q] = own[q]
      /\ \A x \in Shared \cup Procs : x # "recovery" => dir'[x] = dir[x]
  BY <1>2, <1>4 DEF CreateGate, Goto, Good, Shape
<1>6. Shape'
  BY <1>1, <1>2, <1>3, <1>4 DEF Good, Shape, CreateGate, Goto, Steps
<1>7. OnePath'
  <2> SUFFICES ASSUME NEW x \in Shared \cup Procs, NEW y \in Shared \cup Procs,
                      x # y, dir'[x] = dir'[y]
               PROVE  dir'[x] = NoFile
    BY DEF OnePath
  <2>1. CASE x # "recovery" /\ y # "recovery"
    BY <1>5, <2>1 DEF Good, OnePath
  <2>2. CASE x = "recovery"
    BY <1>3, <1>5, <2>2
  <2>3. CASE y = "recovery"
    BY <1>3, <1>5, <2>3
  <2> QED BY <2>1, <2>2, <2>3
<1>8. GateOwned'
  BY <1>1, <1>5 DEF GateOwned
<1>9. LockLeft'
  <2>1. dir'["lock"] = dir["lock"] /\ \A q \in alive : own'[q]["lock"] = own[q]["lock"]
    BY <1>4, <1>5 DEF Good, Shape
  <2> QED BY <1>1, <1>2, <2>1 DEF Good, LockLeft
<1>10. \A q \in Procs, path \in Shared : own[q][path] # f
  <2> SUFFICES ASSUME NEW q \in Procs, NEW path \in Shared, own[q][path] = f PROVE FALSE
    OBVIOUS
  <2>1. dir[IF Leaving(q, path) THEN q ELSE path] = f
    BY <1>3 DEF Good, InPlace
  <2> QED BY <1>3, <2>1
<1>11. Stage(p)' /\ InPlace(p)'
  <2>1. own[p]["lock"] \notin blank'
    BY <1>1, <1>2, <1>3, NoFileNotBlank
  <2>2. own'[p]["lock"] = NoFile /\ own'[p]["recovery"] \in blank'
    <3>1. f \in blank'
      BY <1>2
    <3> QED BY <1>1, <1>5, <3>1
  <2>3. Stage(p)'
    BY <1>1, <1>5, <2>1, <2>2 DEF Stage
  <2>4. InPlace(p)'
    BY <1>1, <1>3, <1>4, <1>5 DEF Good, InPlace, Leaving
  <2> QED BY <2>3, <2>4
<1>12. ASSUME NEW q \in Procs, q # p PROVE Stage(q)' /\ InPlace(q)'
  <2>1. q # "recovery"
    BY <1>4, LockAssumption
  <2>2. dir'[q] = dir[q] /\ Read(q)' = Read(q)
    <3>1. dir'[q] = dir[q] /\ dir[q] # f
      BY <1>3, <1>5, <2>1
    <3> QED BY <1>2, <3>1 DEF Read
  <2>3. ASSUME step[q] = "rename", ClearsLock(q) PROVE ClearsLock(q)'
    <3>1. dir'["lock"] = dir["lock"] /\ Read("lock")' = Read("lock")
      <4>1. dir'["lock"] = dir["lock"] /\ dir["lock"] # f
        BY <1>3, <1>4, <1>5
      <4> QED BY <1>2, <4>1 DEF Read
    <3>2. \A r \in Procs : own'[r]["lock"] = own[r]["lock"]
      BY <1>5
    <3> QED BY <1>1, <1>5, <1>12, <2>2, <2>3, <3>1, <3>2 DEF ClearsLock, InGate
  <2>4. \A path \in Shared : own[q][path] # NoFile /\ own[q][path] = dir[path] => dir'[path] = dir[path]
    BY <1>2, <1>5
  <2>5. \A path \in Shared : own[q][path] \in blank' <=> own[q][path] \in blank
    BY <1>2, <1>10
  <2>6. blank' \subseteq Files
    BY <1>6 DEF Shape
  <2> QED BY <1>1, <1>5, <1>12, <2>2, <2>3, <2>4, <2>5, <2>6, OtherStays
<1> QED BY <1>6, <1>7, <1>8, <1>9, <1>11, <1>12 DEF Good

-----------------------------------------------------------------------------
\* Into quarantine goes the file that was looked at: the lock's holder and the
\* process in the gate do not get in each other's way.
LEMMA RenameStep ==
    ASSUME Good, NEW p \in Procs, Rename(p)
    PROVE  Good'
<1> DEFINE path == removal[p].path
           f == dir[path]
<1>1. p \in alive /\ step[p] = "rename" /\ UNCHANGED <<blank, alive>>
  BY DEF Rename, At
<1>2. LeavesGate(p) \/ Releases(p) \/ ClearsLock(p)
  BY <1>1 DEF Good, Stage
<1>3. path \in Shared /\ "lock" \in Shared /\ "recovery" \in Shared /\ p \notin Shared /\ Shared = {"lock", "recovery"}
  BY <1>2, LockAssumption DEF LeavesGate, Releases, ClearsLock, Shared
<1>4. /\ LeavesGate(p) => f = own[p]["recovery"] /\ f # NoFile
      /\ Releases(p) => f = own[p]["lock"] /\ f # NoFile
      /\ ClearsLock(p) => f # NoFile
  <2>1. ASSUME LeavesGate(p) PROVE f = own[p]["recovery"] /\ f # NoFile
    BY <1>1, <1>3, <2>1 DEF Good, InPlace, Leaving, LeavesGate, InGate
  <2>2. ASSUME Releases(p) PROVE f = own[p]["lock"] /\ f # NoFile
    BY <1>1, <1>3, <2>2 DEF Good, InPlace, Leaving, Releases
  <2>3. ASSUME ClearsLock(p) PROVE f # NoFile
    BY <1>1, <2>3, NoFileNotBlank DEF ClearsLock, Read
  <2> QED BY <2>1, <2>2, <2>3
<1>5. /\ dir' = [dir EXCEPT ![path] = NoFile, ![p] = f]
      /\ step' = [step EXCEPT ![p] = "compare"] /\ UNCHANGED <<own, removal>>
  BY <1>2, <1>4 DEF Rename, Goto
<1>6. /\ dir'[path] = NoFile /\ dir'[p] = f
      /\ \A x \in Shared \cup Procs : x # path /\ x # p => dir'[x] = dir[x]
      /\ step'[p] = "compare" /\ \A q \in Procs : q # p => step'[q] = step[q]
  BY <1>3, <1>5 DEF Good, Shape
<1>7. Shape'
  <2>1. f \in Files \cup {NoFile}
    BY <1>3 DEF Good, Shape
  <2>2. dir' \in [Shared \cup Procs -> Files \cup {NoFile}]
    BY <1>3, <1>5, <2>1 DEF Good, Shape
  <2> QED BY <1>1, <1>5, <2>2 DEF Good, Shape, Steps
<1>8. OnePath'
  <2> SUFFICES ASSUME NEW x \in Shared \cup Procs, NEW y \in Shared \cup Procs,
                      x # y, dir'[x] = dir'[y]
               PROVE  dir'[x] = NoFile
    BY DEF OnePath
  <2>1. CASE x = path \/ y = path
    BY <1>6, <2>1
  <2>2. CASE x # path /\ y # path
    BY <1>3, <1>6, <2>2 DEF Good, OnePath
  <2> QED BY <2>1, <2>2
<1>9. GateOwned'
  <2>1. CASE path = "recovery"
    BY <1>6, <2>1 DEF GateOwned
  <2>2. CASE path # "recovery"
    <3>1. dir'["recovery"] = dir["recovery"]
      BY <1>3, <1>6, <2>2
    <3> QED BY <1>1, <1>5, <3>1 DEF Good, GateOwned
  <2> QED BY <2>1, <2>2
<1>10. LockLeft'
  <2>1. CASE path = "lock"
    <3>1. \A q \in alive : dir'["lock"] \notin FilesOf(q)
      BY <1>6, <2>1, FileFacts DEF Good, Shape
    <3> QED BY <1>1, <3>1 DEF LockLeft
  <2>2. CASE path # "lock"
    <3>1. dir'["lock"] = dir["lock"]
      BY <1>3, <1>6, <2>2
    <3> QED BY <1>1, <1>5, <3>1 DEF Good, LockLeft
  <2> QED BY <2>1, <2>2
<1>11. Stage(p)' /\ InPlace(p)'
  <2>1. own[p]["lock"] \notin blank /\ own[p]["recovery"] \notin blank
    BY <1>1 DEF Good, Stage
  <2>2. LeavesGate(p) => LeavesGate(p)'
    BY <1>5 DEF LeavesGate, InGate
  <2>3. Releases(p) => Releases(p)'
    BY <1>5 DEF Releases, InGate
  <2>4. ASSUME ClearsLock(p) PROVE ClearsLock(p)'
    <3>1. path = "lock" /\ Read("lock") = removal[p].raw
      BY <1>1, <2>4 DEF ClearsLock
    <3>2. Read(p)' = Read("lock")
      BY <1>1, <1>6, <3>1 DEF Read
    <3> QED BY <1>5, <1>6, <2>4, <3>1, <3>2 DEF ClearsLock, InGate
  <2>5. Stage(p)'
    BY <1>1, <1>2, <1>5, <1>6, <2>1, <2>2, <2>3, <2>4 DEF Stage
  <2>6. ASSUME NEW other \in Shared, own[p][other] # NoFile
        PROVE  dir'[IF Leaving(p, other)' THEN p ELSE other] = own[p][other]
    <3>1. dir[other] = own[p][other]
      BY <1>1, <2>6 DEF Good, InPlace, Leaving
    <3>2. Leaving(p, other)' <=> other = path
      BY <1>5, <1>6 DEF Leaving
    <3> QED BY <1>3, <1>6, <3>1, <3>2
  <2>7. InPlace(p)'
    BY <1>1, <1>5, <2>6 DEF Good, InPlace
  <2> QED BY <2>5, <2>7
<1>12. ASSUME NEW q \in Procs, q # p PROVE Stage(q)' /\ InPlace(q)'
  <2>1. dir'[q] = dir[q] /\ Read(q)' = Read(q)
    <3>1. dir'[q] = dir[q]
      BY <1>3, <1>6, <1>12, LockAssumption
    <3> QED BY <1>1, <3>1 DEF Read
  <2>2. \A other \in Shared : own[q][other] # f
    <3>1. CASE LeavesGate(p)
      BY <1>3, <1>4, <1>12, <3>1, OwnApart
    <3>2. CASE Releases(p)
      BY <1>3, <1>4, <1>12, <3>2, OwnApart
    <3>3. CASE ClearsLock(p)
      <4>1. path = "lock" /\ own[q]["lock"] # f
        BY <1>1, <1>12, <3>3 DEF ClearsLock
      <4>2. own[q]["recovery"] # f
        <5> SUFFICES ASSUME own[q]["recovery"] = f PROVE FALSE
          OBVIOUS
        <5>1. InGate(p) /\ dir["recovery"] = own[p]["recovery"] /\ own[p]["recovery"] # NoFile
          BY <1>1, <1>3, <3>3 DEF ClearsLock, InGate, Good, InPlace, Leaving
        <5>2. dir[IF Leaving(q, "recovery") THEN q ELSE "recovery"] = f
          BY <1>3, <1>4, <3>3 DEF Good, InPlace
        <5>3. (IF Leaving(q, "recovery") THEN q ELSE "recovery") # "lock"
          BY <1>3, LockAssumption
        <5> QED BY <1>3, <1>4, <3>3, <4>1, <5>2, <5>3 DEF Good, OnePath
      <4> QED BY <1>3, <4>1, <4>2
    <3> QED BY <1>2, <3>1, <3>2, <3>3
  <2>3. ASSUME step[q] = "rename", ClearsLock(q) PROVE ClearsLock(q)'
    <3>1. path # "lock"
      <4> SUFFICES ASSUME path = "lock" PROVE FALSE
        OBVIOUS
      <4>1. CASE LeavesGate(p)
        BY <4>1 DEF LeavesGate
      <4>2. CASE Releases(p)
        BY <1>4, <2>3, <4>2 DEF ClearsLock
      <4>3. CASE ClearsLock(p)
        <5>1. dir["recovery"] = own[p]["recovery"] /\ own[p]["recovery"] # NoFile
          BY <1>1, <1>3, <4>3 DEF ClearsLock, InGate, Good, InPlace, Leaving
        <5>2. dir["recovery"] = own[q]["recovery"]
          BY <1>3, <2>3 DEF ClearsLock, InGate, Good, InPlace, Leaving
        <5> QED BY <1>3, <1>12, <5>1, <5>2, OwnApart
      <4> QED BY <1>2, <4>1, <4>2, <4>3
    <3>2. dir'["lock"] = dir["lock"] /\ Read("lock")' = Read("lock")
      <4>1. dir'["lock"] = dir["lock"]
        BY <1>3, <1>6, <3>1
      <4> QED BY <1>1, <4>1 DEF Read
    <3> QED BY <1>5, <1>6, <1>12, <2>1, <2>3, <3>2 DEF ClearsLock, InGate
  <2>4. \A other \in Shared : own[q][other] # NoFile /\ own[q][other] = dir[other] => dir'[other] = dir[other]
    BY <1>3, <1>6, <2>2
  <2>5. blank' \subseteq Files
    BY <1>7 DEF Shape
  <2> QED BY <1>1, <1>5, <1>6, <1>12, <2>1, <2>3, <2>4, <2>5, OtherStays
<1> QED BY <1>7, <1>8, <1>9, <1>10, <1>11, <1>12 DEF Good

\* What is still at a path is as blank as before.
LEMMA Forgotten ==
    ASSUME Shape, Shape', ForgetFiles
    PROVE  \A x \in Shared \cup Procs : dir'[x] \in blank' <=> dir'[x] \in blank
BY DEF Shape, ForgetFiles

\* The quarantined file is the one that was to be removed, so nothing goes back.
LEMMA CompareStep ==
    ASSUME Good, NEW p \in Procs, Compare(p)
    PROVE  Good'
<1> DEFINE path == removal[p].path
<1>1. p \in alive /\ step[p] = "compare" /\ UNCHANGED alive
  BY DEF Compare, At
<1>2. LeavesGate(p) \/ Releases(p) \/ ClearsLock(p)
  BY <1>1 DEF Good, Stage
<1>3. /\ path \in Shared /\ "lock" \in Shared /\ "recovery" \in Shared /\ p \notin Shared
      /\ Shared = {"lock", "recovery"}
  BY <1>2, LockAssumption DEF LeavesGate, Releases, ClearsLock, Shared
<1>4. own[p]["lock"] \notin blank /\ own[p]["recovery"] \notin blank
  BY <1>1 DEF Good, Stage
<1>5. Read(p) = removal[p].raw
  <2>1. CASE LeavesGate(p)
    BY <1>1, <1>3, <1>4, <2>1 DEF LeavesGate, InGate, Good, InPlace, Leaving, Read
  <2>2. CASE Releases(p)
    BY <1>1, <1>3, <1>4, <2>2 DEF Releases, Good, InPlace, Leaving, Read
  <2>3. CASE ClearsLock(p)
    BY <1>1, <2>3 DEF ClearsLock
  <2> QED BY <1>2, <2>1, <2>2, <2>3
<1>6. /\ dir' = [dir EXCEPT ![p] = NoFile] /\ step' = [step EXCEPT ![p] = removal[p].then]
      /\ own' = [own EXCEPT ![p][path] = NoFile] /\ removal' = [removal EXCEPT ![p] = NoRemoval]
      /\ ForgetFiles
  BY <1>5 DEF Compare, Proceed, Goto
<1>7. /\ dir'[p] = NoFile /\ \A x \in Shared \cup Procs : x # p => dir'[x] = dir[x]
      /\ step'[p] = removal[p].then
      /\ own'[p][path] = NoFile /\ \A other \in Shared : other # path => own'[p][other] = own[p][other]
      /\ \A q \in Procs : q # p => step'[q] = step[q] /\ own'[q] = own[q] /\ removal'[q] = removal[q]
  BY <1>3, <1>6 DEF Good, Shape
<1>8. Shape'
  <2>1. NoRemoval \in [path : Shared \cup {"none"}, raw : Contents, then : Steps]
    BY DEF NoRemoval, Contents, Steps
  <2>2. removal' \in [Procs -> [path : Shared \cup {"none"}, raw : Contents, then : Steps]]
    BY <1>6, <2>1 DEF Good, Shape
  <2>3. own' \in [Procs -> [Shared -> Files \cup {NoFile}]]
    BY <1>3, <1>6 DEF Good, Shape
  <2>4. blank' \subseteq Files
    BY <1>6 DEF ForgetFiles, Good, Shape
  <2>5. dir' \in [Shared \cup Procs -> Files \cup {NoFile}] /\ step' \in [Procs -> Steps]
    BY <1>6 DEF Good, Shape
  <2> QED BY <1>1, <2>2, <2>3, <2>4, <2>5 DEF Good, Shape
<1>9. \A x \in Shared \cup Procs : x # p => (dir[x] \in blank' <=> dir[x] \in blank)
  BY <1>6, <1>7, <1>8, Forgotten DEF Good
<1>10. \A x \in Shared \cup Procs : x # p /\ dir[x] # NoFile => dir[x] # dir[p]
  BY DEF Good, OnePath
<1>11. \A x \in Shared : x # p
  BY <1>3
<1>12. OnePath'
  BY <1>7 DEF Good, OnePath
<1>13. GateOwned'
  <2> SUFFICES ASSUME dir["recovery"] # NoFile
               PROVE  \E q \in alive : own'[q]["recovery"] = dir["recovery"]
    BY <1>1, <1>3, <1>7, <1>11 DEF GateOwned
  <2>1. PICK q \in alive : own[q]["recovery"] = dir["recovery"]
    BY DEF Good, GateOwned
  <2>2. q \in Procs
    BY DEF Good, Shape
  <2>3. ~(q = p /\ path = "recovery")
    <3> SUFFICES ASSUME q = p, path = "recovery" PROVE FALSE
      OBVIOUS
    <3>1. dir[p] = own[p]["recovery"]
      BY <1>1, <1>3, <2>1 DEF Good, InPlace, Leaving
    <3> QED BY <1>3, <1>10, <1>11, <2>1, <3>1
  <2>4. own'[q]["recovery"] = own[q]["recovery"]
    BY <1>3, <1>7, <2>2, <2>3
  <2> QED BY <2>1, <2>4
<1>14. LockLeft'
  <2> SUFFICES ASSUME NEW q \in alive, dir["lock"] \in FilesOf(q), own'[q]["lock"] # dir["lock"]
               PROVE  dir["lock"] \in blank
    BY <1>1, <1>3, <1>7, <1>9, <1>11 DEF LockLeft
  <2>1. q \in Procs /\ dir["lock"] # NoFile
    BY FileFacts DEF Good, Shape
  <2>2. own[q]["lock"] # dir["lock"]
    <3> SUFFICES ASSUME own[q]["lock"] = dir["lock"] PROVE FALSE
      OBVIOUS
    <3>1. q = p /\ path = "lock"
      BY <1>3, <1>7, <2>1
    <3>2. dir[p] = own[p]["lock"]
      BY <1>1, <1>3, <2>1, <3>1 DEF Good, InPlace, Leaving
    <3> QED BY <1>3, <1>10, <1>11, <2>1, <3>1, <3>2
  <2> QED BY <2>2 DEF Good, LockLeft
<1>15. blank' \subseteq blank
  BY <1>6 DEF ForgetFiles
<1>16. Stage(p)' /\ InPlace(p)'
  <2>1. own'[p]["lock"] \notin blank' /\ own'[p]["recovery"] \notin blank'
    BY <1>3, <1>4, <1>7, <1>15, NoFileNotBlank
  <2>2. Stage(p)'
    <3>1. CASE LeavesGate(p)
      <4>1. /\ step'[p] \in {"idle", "sleep", "holding"} /\ own'[p]["recovery"] = NoFile
            /\ own'[p]["lock"] = own[p]["lock"]
            /\ step'[p] = "holding" <=> own[p]["lock"] # NoFile
        BY <1>3, <1>7, <3>1 DEF LeavesGate
      <4> QED BY <2>1, <4>1 DEF Stage, InGate
    <3>2. CASE Releases(p)
      <4>1. step'[p] = "idle" /\ own'[p]["recovery"] = NoFile /\ own'[p]["lock"] = NoFile
        BY <1>3, <1>7, <3>2 DEF Releases, InGate
      <4> QED BY <2>1, <4>1 DEF Stage, InGate
    <3>3. CASE ClearsLock(p)
      <4>1. step'[p] = "create" /\ own'[p]["lock"] = NoFile
        BY <1>3, <1>7, <3>3 DEF ClearsLock
      <4> QED BY <2>1, <4>1 DEF Stage, InGate
    <3> QED BY <1>2, <3>1, <3>2, <3>3
  <2>3. step'[p] # "compare"
    BY <1>2, <1>7 DEF LeavesGate, Releases, ClearsLock
  <2>4. ASSUME NEW other \in Shared, own'[p][other] # NoFile
        PROVE  own'[p][other] = own[p][other] /\ own[p][other] # NoFile /\ dir'[other] = own[p][other]
    <3>1. other # path /\ own'[p][other] = own[p][other]
      BY <1>7, <2>4
    <3>2. dir[other] = own[p][other]
      BY <2>4, <3>1 DEF Good, InPlace, Leaving
    <3> QED BY <1>7, <1>11, <2>4, <3>1, <3>2
  <2>5. InPlace(p)'
    BY <1>1, <2>3, <2>4 DEF Good, InPlace, Leaving
  <2> QED BY <2>2, <2>5
<1>17. ASSUME NEW q \in Procs, q # p PROVE Stage(q)' /\ InPlace(q)'
  <2>1. dir'[q] = dir[q] /\ Read(q)' = Read(q)
    BY <1>7, <1>9, <1>17 DEF Read
  <2>2. ASSUME NEW other \in Shared, own[q][other] # NoFile
        PROVE  own[q][other] \in blank' <=> own[q][other] \in blank
    <3>1. PICK x \in Shared \cup {q} : dir[x] = own[q][other]
      BY <2>2 DEF Good, InPlace
    <3> QED BY <1>9, <1>11, <1>17, <3>1
  <2>3. ASSUME step[q] = "rename", ClearsLock(q) PROVE ClearsLock(q)'
    <3>1. dir'["lock"] = dir["lock"] /\ Read("lock")' = Read("lock")
      BY <1>3, <1>7, <1>9, <1>11 DEF Read
    <3>2. dir["lock"] # NoFile
      BY <2>3, NoFileNotBlank DEF ClearsLock, Read
    <3>3. \A r \in Procs : own'[r]["lock"] # dir["lock"]
      BY <1>3, <1>7, <2>3, <3>2 DEF ClearsLock
    <3> QED BY <1>7, <1>17, <2>1, <2>3, <3>1, <3>3 DEF ClearsLock, InGate
  <2>4. \A other \in Shared : dir'[other] = dir[other]
    BY <1>7, <1>11
  <2>5. blank' \subseteq Files
    BY <1>8 DEF Shape
  <2> QED BY <1>1, <1>7, <1>17, <2>1, <2>2, <2>3, <2>4, <2>5, OtherStays
<1> QED BY <1>8, <1>12, <1>13, <1>14, <1>16, <1>17 DEF Good

\* A process that is not in the gate dies: what it leaves at the lock is a dead
\* process's.
LEMMA DieStep ==
    ASSUME Good, NEW p \in Procs, Die(p), happened' = {}
    PROVE  Good'
<1>1. p \in alive /\ alive' = alive \ {p} /\ ~InGate(p)
  BY DEF Die
<1>2. "lock" \in Shared /\ "recovery" \in Shared /\ p \notin Shared /\ Shared = {"lock", "recovery"}
  BY LockAssumption DEF Shared
<1>3. /\ dir' = [dir EXCEPT ![p] = NoFile] /\ step' = [step EXCEPT ![p] = "idle"]
      /\ own' = [own EXCEPT ![p] = [path \in Shared |-> NoFile]]
      /\ removal' = [removal EXCEPT ![p] = NoRemoval] /\ ForgetFiles
  BY DEF Die, Goto
<1>4. /\ dir'[p] = NoFile /\ \A x \in Shared \cup Procs : x # p => dir'[x] = dir[x]
      /\ step'[p] = "idle" /\ \A other \in Shared : own'[p][other] = NoFile
      /\ \A q \in Procs : q # p => step'[q] = step[q] /\ own'[q] = own[q] /\ removal'[q] = removal[q]
  BY <1>3 DEF Good, Shape
<1>5. Shape'
  <2>1. NoRemoval \in [path : Shared \cup {"none"}, raw : Contents, then : Steps]
    BY DEF NoRemoval, Contents, Steps
  <2>2. removal' \in [Procs -> [path : Shared \cup {"none"}, raw : Contents, then : Steps]]
    BY <1>3, <2>1 DEF Good, Shape
  <2>3. own' \in [Procs -> [Shared -> Files \cup {NoFile}]]
    BY <1>3 DEF Good, Shape
  <2>4. blank' \subseteq Files
    BY <1>3 DEF ForgetFiles, Good, Shape
  <2>5. dir' \in [Shared \cup Procs -> Files \cup {NoFile}] /\ step' \in [Procs -> Steps]
    BY <1>3 DEF Good, Shape, Steps
  <2> QED BY <1>1, <2>2, <2>3, <2>4, <2>5 DEF Good, Shape
<1>6. \A x \in Shared \cup Procs : x # p => (dir[x] \in blank' <=> dir[x] \in blank)
  BY <1>3, <1>4, <1>5, Forgotten DEF Good
<1>7. \A x \in Shared : x # p
  BY <1>2
<1>8. OnePath'
  BY <1>4 DEF Good, OnePath
<1>9. GateOwned'
  <2> SUFFICES ASSUME dir["recovery"] # NoFile
               PROVE  \E q \in alive' : own'[q]["recovery"] = dir["recovery"]
    BY <1>2, <1>4, <1>7 DEF GateOwned
  <2>1. PICK q \in alive : own[q]["recovery"] = dir["recovery"]
    BY DEF Good, GateOwned
  <2>2. q \in Procs /\ q # p
    BY <1>1, <2>1 DEF Good, Shape, InGate
  <2> QED BY <1>1, <1>4, <2>1, <2>2
<1>10. LockLeft'
  <2> SUFFICES ASSUME NEW q \in alive', dir["lock"] \in FilesOf(q), own'[q]["lock"] # dir["lock"]
               PROVE  dir["lock"] \in blank
    BY <1>2, <1>4, <1>6, <1>7 DEF LockLeft
  <2>1. q \in alive /\ q \in Procs /\ q # p
    BY <1>1 DEF Good, Shape
  <2> QED BY <1>4, <2>1 DEF Good, LockLeft
<1>11. Stage(p)' /\ InPlace(p)'
  <2>1. NoFile \notin blank'
    BY <1>5, FileFacts DEF Shape
  <2>2. Stage(p)'
    BY <1>2, <1>4, <2>1 DEF Stage, InGate
  <2> QED BY <1>4, <2>2 DEF InPlace
<1>12. ASSUME NEW q \in Procs, q # p PROVE Stage(q)' /\ InPlace(q)'
  <2>1. dir'[q] = dir[q] /\ Read(q)' = Read(q)
    BY <1>4, <1>6, <1>12 DEF Read
  <2>2. ASSUME NEW other \in Shared, own[q][other] # NoFile
        PROVE  own[q][other] \in blank' <=> own[q][other] \in blank
    <3>1. PICK x \in Shared \cup {q} : dir[x] = own[q][other]
      BY <2>2 DEF Good, InPlace
    <3> QED BY <1>6, <1>7, <1>12, <3>1
  <2>3. ASSUME step[q] = "rename", ClearsLock(q) PROVE ClearsLock(q)'
    <3>1. dir'["lock"] = dir["lock"] /\ Read("lock")' = Read("lock")
      BY <1>2, <1>4, <1>6, <1>7 DEF Read
    <3>2. dir["lock"] # NoFile
      BY <2>3, NoFileNotBlank DEF ClearsLock, Read
    <3>3. \A r \in Procs : own'[r]["lock"] # dir["lock"]
      BY <1>2, <1>4, <2>3, <3>2 DEF ClearsLock
    <3> QED BY <1>4, <1>12, <2>1, <2>3, <3>1, <3>3 DEF ClearsLock, InGate
  <2>4. \A other \in Shared : dir'[other] = dir[other]
    BY <1>4, <1>7
  <2>5. blank' \subseteq Files
    BY <1>5 DEF Shape
  <2>6. q \in alive => q \in alive'
    BY <1>1, <1>12
  <2> QED BY <1>4, <1>12, <2>1, <2>2, <2>3, <2>4, <2>5, <2>6, OtherStays
<1> QED BY <1>5, <1>8, <1>9, <1>10, <1>11, <1>12 DEF Good

-----------------------------------------------------------------------------
\* What has happened is not forgotten.
LEMMA HappenedGrows ==
    ASSUME Next, happened' = {}
    PROVE  happened = {}
BY DEF Next, Acquire, CreateLock, LockExists, WriteLock, WriteLockFails, Observe, Sleep,
       CreateGate, GateExists, WriteGate, WriteGateFails, ObserveGate, ReadCurrent,
       Release, Verify, Rename, Compare, Die, ReadTooEarly, history

\* Every step keeps the invariant.
LEMMA StepGood ==
    ASSUME IInv, [Next]_vars
    PROVE  IInv'
<1>1. CASE UNCHANGED vars
  <2>1. UNCHANGED <<dir, blank, alive, step, own, removal, happened>>
    BY <1>1 DEF vars, history
  <2> SUFFICES ASSUME Good PROVE Good'
    BY <2>1 DEF IInv
  <2>2. Shape' /\ OnePath' /\ GateOwned' /\ LockLeft'
    BY <2>1 DEF Good, Shape, OnePath, GateOwned, LockLeft
  <2>3. ASSUME NEW q \in Procs PROVE Stage(q)' /\ InPlace(q)'
    <3>1. Read(q)' = Read(q) /\ (ClearsLock(q) => ClearsLock(q)')
      BY <2>1 DEF Read, ClearsLock, InGate
    <3>2. blank' \subseteq Files
      BY <2>2 DEF Shape
    <3> QED BY <2>1, <3>1, <3>2, OtherStays
  <2> QED BY <2>2, <2>3 DEF Good
<1>2. CASE Next
  <2> SUFFICES ASSUME happened' = {} PROVE Good'
    BY DEF IInv
  <2>1. Good
    BY <1>2, HappenedGrows DEF IInv
  <2>2. PICK p \in Procs :
        \/ Acquire(p) \/ CreateLock(p) \/ LockExists(p)
        \/ WriteLock(p) \/ WriteLockFails(p)
        \/ Observe(p) \/ Sleep(p)
        \/ CreateGate(p) \/ GateExists(p) \/ WriteGate(p) \/ WriteGateFails(p)
        \/ ObserveGate(p) \/ ReadCurrent(p)
        \/ Release(p) \/ Verify(p) \/ Rename(p) \/ Compare(p)
        \/ Die(p)
    BY <1>2 DEF Next
  <2>3. CASE Acquire(p) \/ Observe(p) \/ Sleep(p) \/ GateExists(p)
    BY <2>1, <2>3, LookSteps
  <2>4. CASE CreateLock(p)
    BY <2>1, <2>4, CreateLockStep
  <2>5. CASE LockExists(p)
    BY <2>1, <2>5, LockExistsStep
  <2>6. CASE WriteLock(p)
    BY <2>1, <2>6, WriteLockStep
  <2>7. CASE WriteLockFails(p)
    BY <2>1, <2>7, WriteLockFailsStep
  <2>8. CASE CreateGate(p)
    BY <2>1, <2>8, CreateGateStep
  <2>9. CASE WriteGate(p)
    BY <2>1, <2>9, WriteGateStep
  <2>10. CASE WriteGateFails(p)
    BY <2>10 DEF WriteGateFails
  <2>11. CASE ObserveGate(p)
    BY <2>1, <2>11, ObserveGateStep
  <2>12. CASE ReadCurrent(p)
    BY <2>1, <2>12, ReadCurrentStep
  <2>13. CASE Release(p)
    BY <2>1, <2>13, ReleaseStep
  <2>14. CASE Verify(p)
    BY <2>1, <2>14, VerifyStep
  <2>15. CASE Rename(p)
    BY <2>1, <2>15, RenameStep
  <2>16. CASE Compare(p)
    BY <2>1, <2>16, CompareStep
  <2>17. CASE Die(p)
    BY <2>1, <2>17, DieStep
  <2> QED BY <2>2, <2>3, <2>4, <2>5, <2>6, <2>7, <2>8, <2>9, <2>10, <2>11, <2>12, <2>13,
             <2>14, <2>15, <2>16, <2>17
<1> QED BY <1>1, <1>2

\* The invariant holds in every reachable state of acquire and release.
THEOREM Invariant == Spec => []IInv
<1>1. Init => IInv
  BY InitGood, LockAssumption
<1>2. IInv /\ [Next]_vars => IInv'
  BY StepGood
<1> QED BY <1>1, <1>2, PTL DEF Spec

\* For any number of processes and files: who has acquired the lock is the one
\* whose file is at its path (acquire, release and the recovery gate of lock.ts).
THEOREM HolderAlwaysHasLock == Spec => []HolderHasLock
<1>1. IInv => HolderHasLock
  <2> SUFFICES ASSUME Good, NEW p \in Holders PROVE dir["lock"] = own[p]["lock"]
    BY DEF IInv, HolderHasLock
  <2>1. p \in Procs /\ step[p] = "holding"
    BY DEF Holders, Good, Shape
  <2> QED BY <2>1 DEF Good, Stage, InPlace, Leaving, Shared
<1> QED BY <1>1, Invariant, PTL

\* Hence no two servers run over one data root, unless a file was read before its
\* record was written or a gate was left behind.
THEOREM HoldersAlone == Spec => [](happened = {} => \A p, q \in Holders : p = q)
<1>1. IInv => (happened = {} => \A p, q \in Holders : p = q)
  <2> SUFFICES ASSUME Good, NEW p \in Holders, NEW q \in Holders PROVE p = q
    BY DEF IInv
  <2>1. p \in Procs /\ step[p] = "holding" /\ q \in Procs /\ step[q] = "holding" /\ "lock" \in Shared
    BY DEF Holders, Good, Shape, Shared
  <2>2. own[p]["lock"] # NoFile /\ dir["lock"] = own[p]["lock"] /\ dir["lock"] = own[q]["lock"]
    BY <2>1 DEF Good, Stage, InPlace, Leaving
  <2> QED BY <2>1, <2>2, OwnApart
<1> QED BY <1>1, Invariant, PTL

\* For any number of processes and files: a process that is done leaves no record
\* of its own behind, neither at the lock nor at the gate.
THEOREM NeverLeft == Spec => []NothingLeft
<1>1. IInv => NothingLeft
  <2> SUFFICES ASSUME Good, NEW p \in alive, NEW path \in Shared,
                      step[p] = "idle", dir[path] \in FilesOf(p)
               PROVE  dir[path] \in blank
    BY DEF IInv, NothingLeft
  <2>1. p \in Procs /\ own[p]["lock"] = NoFile /\ own[p]["recovery"] = NoFile
    BY DEF Good, Shape, Stage, InGate
  <2>2. dir[path] # NoFile
    BY <2>1, FileFacts
  <2>3. CASE path = "lock"
    BY <2>1, <2>2, <2>3 DEF Good, LockLeft
  <2>4. CASE path = "recovery"
    <3>1. PICK q \in alive : own[q]["recovery"] = dir["recovery"]
      BY <2>2, <2>4 DEF Good, GateOwned
    <3>2. q \in Procs /\ dir["recovery"] \in FilesOf(q)
      BY <2>2, <2>4, <3>1 DEF Good, Shape, InPlace, Shared
    <3>3. q = p
      BY <2>1, <2>4, <3>2, FileFacts
    <3> QED BY <2>1, <2>2, <2>4, <3>1, <3>3
  <2> QED BY <2>3, <2>4 DEF Shared
<1> QED BY <1>1, Invariant, PTL

-----------------------------------------------------------------------------
(* What holds whatever happens: the types, and the tokens of each step.       *)

\* What a process removes, and the token it has when it goes on.
Removes(p) ==
    \/ /\ removal[p].path = "recovery" /\ removal[p].then \in {"idle", "sleep", "holding"}
       /\ removal[p].then = "holding" <=> own[p]["lock"] # NoFile
    \/ removal[p].path = "lock" /\ removal[p].then = "idle" /\ ~InGate(p)
    \/ /\ removal[p].path = "lock" /\ removal[p].then = "create"
       /\ own[p]["lock"] = NoFile

HasTokens(p) ==
    /\ step[p] \in {"idle", "observe", "sleep", "gate", "observe gate"}
        => own[p]["lock"] = NoFile /\ ~InGate(p)
    /\ step[p] \in {"create", "write gate", "current"} => own[p]["lock"] = NoFile
    /\ step[p] = "write" => own[p]["lock"] # NoFile
    /\ step[p] = "holding" => own[p]["lock"] # NoFile /\ ~InGate(p)
    /\ step[p] \in {"verify", "rename", "compare"} => Removes(p)
    /\ step[p] # "idle" => attempt[p] < Attempts

Counted ==
    /\ attempt \in [Procs -> 0 .. Attempts]
    /\ happened \subseteq {"early read", "gate left"} /\ alone \subseteq Procs

Tokened == Shape /\ Counted /\ \A p \in Procs : HasTokens(p)

\* What the only process alive has got to, if it began to acquire as such: which
\* files of its own it may meet, that it clears a left gate once, and a left lock.
Clears(p, path, then) ==
    /\ removal[p].path = path /\ removal[p].then = then
    /\ step[p] = "rename" => Read(path) = removal[p].raw /\ dir[path] # NoFile
    /\ step[p] = "compare" => Read(p) = removal[p].raw /\ dir[path] = NoFile

Foreign(p, path) == dir[path] \notin FilesOf(p)

FirstOrFree(p) == attempt[p] = 0 \/ dir["recovery"] = NoFile

GetsThere(p) ==
    \/ step[p] \in {"idle", "write", "holding"}
    \/ /\ step[p] = "create"
       /\ IF InGate(p) THEN dir["lock"] = NoFile
          ELSE Foreign(p, "lock") /\ Foreign(p, "recovery") /\ attempt[p] = 0
    \/ /\ step[p] \in {"observe", "gate"} /\ Foreign(p, "lock") /\ Foreign(p, "recovery")
       /\ attempt[p] <= 1 /\ FirstOrFree(p)
    \/ /\ step[p] = "observe gate" /\ Foreign(p, "lock") /\ Foreign(p, "recovery")
       /\ attempt[p] = 0 /\ dir["recovery"] # NoFile
    \/ step[p] = "sleep" /\ Foreign(p, "lock") /\ dir["recovery"] = NoFile /\ attempt[p] = 0
    \/ step[p] = "write gate" /\ Foreign(p, "lock") /\ InGate(p)
    \/ step[p] = "current" /\ Foreign(p, "lock") /\ InGate(p)
    \/ /\ step[p] \in {"rename", "compare"} /\ Foreign(p, "lock") /\ attempt[p] = 0
       /\ Clears(p, "recovery", "sleep")
    \/ step[p] \in {"rename", "compare"} /\ InGate(p) /\ Clears(p, "lock", "create")
    \/ step[p] \in {"verify", "rename", "compare"} /\ removal[p].then \in {"idle", "holding"}

\* Nobody else comes to life.
Undisturbed == \A p \in alone : alive \subseteq {p} /\ (p \in alive => GetsThere(p))

LEMMA AttemptsCount == Attempts \in Nat /\ 0 < Attempts /\ 0 \in 0 .. Attempts
<1>1. Attempts \in Nat \ {0}
  BY LockAssumption
<1> QED BY <1>1

LEMMA OneMore == ASSUME NEW n \in Nat, NEW k \in 0 .. n, k < n PROVE k \in Nat /\ k + 1 \in 0 .. n
OBVIOUS

LEMMA TokensOfOthers ==
    ASSUME Tokened, Shape', NEW p \in Procs,
           \A q \in Procs : q # p => /\ step'[q] = step[q] /\ own'[q] = own[q]
                                     /\ removal'[q] = removal[q] /\ attempt'[q] = attempt[q],
           HasTokens(p)', Counted'
    PROVE  Tokened'
<1> SUFFICES ASSUME NEW q \in Procs, q # p PROVE HasTokens(q)'
  BY DEF Tokened
<1> QED BY DEF Tokened, HasTokens, Removes, InGate

\* Init leaves files of the dead only.
LEMMA InitTokened == Init => Tokened
<1> SUFFICES ASSUME Init PROVE Tokened
  OBVIOUS
<1>1. PICK left \in [Shared -> {NoFile} \cup (Dead \X {1, 2})] :
        /\ dir = [path \in Shared \cup Procs |-> IF path \in Shared THEN left[path] ELSE NoFile]
        /\ blank \in SUBSET {f \in Files : \E path \in Shared : left[path] = f}
  BY DEF Init
<1>2. Dead \X {1, 2} \subseteq Files
  BY LeftAreFiles
<1>3. NoRemoval \in [path : Shared \cup {"none"}, raw : Contents, then : Steps]
  BY DEF NoRemoval, Contents, Steps
<1>4. removal \in [Procs -> [path : Shared \cup {"none"}, raw : Contents, then : Steps]]
  BY <1>3 DEF Init
<1>5. dir \in [Shared \cup Procs -> Files \cup {NoFile}] /\ blank \subseteq Files
  BY <1>1, <1>2
<1>6. Shape
  BY <1>4, <1>5 DEF Init, Shape, Steps
<1>7. Counted
  BY AttemptsCount DEF Init, Counted
<1>8. \A p \in Procs : HasTokens(p)
  BY DEF Init, HasTokens, InGate, Shared
<1> QED BY <1>6, <1>7, <1>8 DEF Tokened

\* What is read is a record, or that there is none, or no file.
LEMMA ReadIs ==
    ASSUME Shape, NEW path \in Shared \cup Procs
    PROVE  /\ Read(path) \in Contents
           /\ Read(path) = NoFile <=> dir[path] = NoFile
BY FileFacts DEF Shape, Read, Contents

LEMMA ReadTooEarlyCounted ==
    ASSUME Counted, NEW path, ReadTooEarly(path), attempt' = attempt
    PROVE  Counted'
BY DEF Counted, ReadTooEarly

\* The steps that touch no file.
LEMMA LookTokened ==
    ASSUME Tokened, NEW p \in Procs,
           Acquire(p) \/ Observe(p) \/ Sleep(p) \/ GateExists(p)
    PROVE  Tokened'
<1>1. UNCHANGED <<dir, blank, alive, own, removal>>
  BY DEF Acquire, Observe, Sleep, GateExists
<1>2. PICK s \in {"create", "idle", "gate", "observe", "observe gate"} : Goto(p, s)
  BY DEF Acquire, Observe, Sleep, GateExists
<1>3. /\ step[p] \in {"idle", "observe", "sleep", "gate"}
      /\ step'[p] = s /\ \A q \in Procs : q # p => step'[q] = step[q]
  BY <1>2 DEF Acquire, Observe, Sleep, GateExists, At, Goto, Tokened, Shape
<1>4. Shape'
  BY <1>1, <1>2 DEF Tokened, Shape, Goto, Steps
<1>5. /\ attempt' \in [Procs -> 0 .. Attempts]
      /\ \A q \in Procs : q # p => attempt'[q] = attempt[q]
      /\ s # "idle" => attempt'[p] < Attempts
  <2>0. attempt \in [Procs -> 0 .. Attempts] /\ Attempts \in Nat
        /\ (step[p] # "idle" => attempt[p] < Attempts)
    BY AttemptsCount DEF Tokened, Counted, HasTokens
  <2>1. CASE Acquire(p)
    <3>1. attempt' = [attempt EXCEPT ![p] = 0]
      BY <2>1 DEF Acquire
    <3> QED BY <2>0, <3>1, AttemptsCount
  <2>2. CASE Sleep(p)
    <3>1. attempt' = [attempt EXCEPT ![p] = @ + 1] /\ step[p] = "sleep"
          /\ step' = [step EXCEPT ![p] = IF attempt[p] + 1 < Attempts THEN "observe" ELSE "idle"]
      BY <2>2 DEF Sleep, At, Goto
    <3>a. attempt[p] \in 0 .. Attempts
      BY <2>0
    <3>2. attempt[p] < Attempts /\ attempt[p] \in Nat /\ attempt[p] + 1 \in 0 .. Attempts
      <4>1. attempt[p] < Attempts
        BY <2>0, <3>1
      <4>3. Attempts \in Nat
        BY <2>0
      <4> QED BY ONLY <3>a, <4>1, <4>3, OneMore
    <3>3. s = IF attempt[p] + 1 < Attempts THEN "observe" ELSE "idle"
      BY <1>3, <3>1 DEF Tokened, Shape
    <3> QED BY <2>0, <3>1, <3>2, <3>3
  <2>3. CASE Observe(p) \/ GateExists(p)
    <3>1. attempt' = attempt /\ step[p] # "idle"
      BY <2>3 DEF Observe, GateExists, At
    <3> QED BY <2>0, <3>1
  <2> QED BY <2>1, <2>2, <2>3
<1>6. Counted'
  <2>1. CASE Observe(p)
    BY <2>1, ReadTooEarlyCounted DEF Tokened, Observe
  <2>2. CASE ~Observe(p)
    BY <1>5, <2>2 DEF Tokened, Counted, Acquire, Sleep, GateExists, history
  <2> QED BY <2>1, <2>2
<1>7. HasTokens(p)'
  BY <1>1, <1>3, <1>5 DEF Tokened, HasTokens, InGate
<1> QED BY <1>1, <1>3, <1>4, <1>5, <1>6, <1>7, TokensOfOthers

\* The steps that begin a removal, or go on without one.
LEMMA RemovalBegins ==
    ASSUME Tokened, NEW p \in Procs, step[p] # "idle",
           NEW path \in Shared, NEW raw \in Contents, NEW then \in Steps,
           NEW s \in {"verify", "rename"}, Goto(p, s),
           removal' = [removal EXCEPT ![p] = [path |-> path, raw |-> raw, then |-> then]],
           UNCHANGED <<dir, alive, attempt>>, blank' \subseteq Files, Counted',
           own' = own \/ own' = [own EXCEPT ![p]["lock"] = NoFile],
           \/ /\ path = "recovery" /\ then \in {"idle", "sleep", "holding"}
              /\ then = "holding" <=> own'[p]["lock"] # NoFile
           \/ path = "lock" /\ then = "idle" /\ ~InGate(p)
           \/ path = "lock" /\ then = "create" /\ own'[p]["lock"] = NoFile
    PROVE  Tokened'
<1>1. /\ step'[p] = s /\ removal'[p] = [path |-> path, raw |-> raw, then |-> then]
      /\ \A q \in Procs : q # p => step'[q] = step[q] /\ removal'[q] = removal[q]
  BY DEF Tokened, Shape, Goto
<1>2. /\ \A q \in Procs : q # p => own'[q] = own[q]
      /\ own'[p]["recovery"] = own[p]["recovery"]
      /\ own' \in [Procs -> [Shared -> Files \cup {NoFile}]]
  BY DEF Tokened, Shape, Shared
<1>3. Shape'
  <2>1. [path |-> path, raw |-> raw, then |-> then]
            \in [path : Shared \cup {"none"}, raw : Contents, then : Steps]
    OBVIOUS
  <2>2. removal' \in [Procs -> [path : Shared \cup {"none"}, raw : Contents, then : Steps]]
    BY <2>1 DEF Tokened, Shape
  <2> QED BY <1>2, <2>2 DEF Tokened, Shape, Goto, Steps
<1>4. HasTokens(p)'
  <2>1. attempt'[p] < Attempts
    BY DEF Tokened, HasTokens
  <2>2. Removes(p)'
    BY <1>1, <1>2 DEF Removes, InGate
  <2> QED BY <1>1, <2>1, <2>2 DEF HasTokens
<1> QED BY <1>1, <1>2, <1>3, <1>4, TokensOfOthers

\* The steps that go on without a removal to come.
LEMMA GoesOn ==
    ASSUME Tokened, NEW p \in Procs, NEW s \in Steps \ {"verify", "rename", "compare"},
           Goto(p, s), Shape', Counted', attempt' = attempt,
           \A q \in Procs : q # p => own'[q] = own[q] /\ removal'[q] = removal[q],
           step[p] # "idle" \/ s = "idle",
           s \in {"idle", "observe", "sleep", "gate", "observe gate"}
               => own'[p]["lock"] = NoFile /\ own'[p]["recovery"] = NoFile,
           s \in {"create", "write gate", "current"} => own'[p]["lock"] = NoFile,
           s = "write" => own'[p]["lock"] # NoFile,
           s = "holding" => own'[p]["lock"] # NoFile /\ own'[p]["recovery"] = NoFile
    PROVE  Tokened'
<1>1. step'[p] = s /\ \A q \in Procs : q # p => step'[q] = step[q]
  BY DEF Tokened, Shape, Goto
<1>2. HasTokens(p)'
  BY <1>1 DEF Tokened, HasTokens, InGate
<1> QED BY <1>1, <1>2, TokensOfOthers

LEMMA CreateTokened ==
    ASSUME Tokened, NEW p \in Procs, CreateLock(p) \/ CreateGate(p)
    PROVE  Tokened'
<1>1. PICK path \in Shared, s \in {"write", "write gate"} :
        /\ Create(p, path) /\ Goto(p, s) /\ UNCHANGED <<alive, attempt, removal, history>>
        /\ path = "lock" => s = "write" /\ step[p] = "create"
        /\ path = "recovery" => s = "write gate" /\ step[p] = "gate"
  BY DEF CreateLock, CreateGate, At, Shared
<1>2. PICK f \in Fresh(p) : /\ dir' = [dir EXCEPT ![path] = f] /\ blank' = blank \cup {f}
                            /\ own' = [own EXCEPT ![p][path] = f]
  BY <1>1 DEF Create
<1>3. f \in Files /\ f # NoFile
  BY FreshFacts, FileFacts
<1>4. Shape'
  BY <1>1, <1>2, <1>3 DEF Tokened, Shape, Goto, Steps
<1>5. own'[p][path] = f /\ (path = "recovery" => own'[p]["lock"] = own[p]["lock"])
      /\ \A q \in Procs : q # p => own'[q] = own[q]
  BY <1>2 DEF Tokened, Shape, Shared
<1>6. path = "recovery" => own[p]["lock"] = NoFile
  BY <1>1 DEF Tokened, HasTokens
<1>7. Counted'
  BY <1>1 DEF Tokened, Counted, history
<1>8. s \in Steps \ {"verify", "rename", "compare"} /\ step[p] # "idle"
      /\ (s = "write" => path = "lock") /\ (s = "write gate" => path = "recovery")
  BY <1>1 DEF Shared, Steps
<1>9. s = "write" => own'[p]["lock"] # NoFile
  BY <1>3, <1>5, <1>8
<1>10. s = "write gate" => own'[p]["lock"] = NoFile
  BY <1>5, <1>6, <1>8
<1>11. s \in {"write", "write gate"} /\ Goto(p, s) /\ attempt' = attempt
       /\ \A q \in Procs : q # p => removal'[q] = removal[q]
  BY <1>1
<1> HIDE <1>1
<1> QED BY <1>4, <1>5, <1>7, <1>8, <1>9, <1>10, <1>11, GoesOn

LEMMA LockExistsTokened ==
    ASSUME Tokened, NEW p \in Procs, LockExists(p)
    PROVE  Tokened'
<1>1. /\ step[p] = "create" /\ own[p]["lock"] = NoFile
      /\ UNCHANGED <<dir, blank, alive, attempt, own, history>>
  BY DEF LockExists, At, Tokened, HasTokens
<1>2. Counted'
  BY <1>1 DEF Tokened, Counted, history
<1>3. CASE InGate(p)
  <2>1. LeaveGate(p, "sleep")
    BY <1>3 DEF LockExists
  <2>2. own[p]["recovery"] \in Contents /\ blank' \subseteq Files
    BY <1>1 DEF Tokened, Shape, Contents, Shared
  <2> QED BY <1>1, <1>2, <2>1, <2>2, RemovalBegins DEF LeaveGate, Shared, Steps
<1>4. CASE ~InGate(p)
  <2>1. Goto(p, "observe") /\ removal' = removal /\ own[p]["recovery"] = NoFile
    BY <1>4 DEF LockExists, InGate
  <2>2. Shape'
    BY <1>1, <2>1 DEF Tokened, Shape, Goto, Steps
  <2> QED BY <1>1, <1>2, <2>1, <2>2, GoesOn DEF Steps
<1> QED BY <1>3, <1>4

LEMMA WriteTokened ==
    ASSUME Tokened, NEW p \in Procs, WriteLock(p) \/ WriteLockFails(p)
    PROVE  Tokened'
<1>1. /\ step[p] = "write" /\ own[p]["lock"] # NoFile /\ UNCHANGED <<dir, alive, attempt, history>>
      /\ blank' \subseteq blank
  BY DEF WriteLock, WriteLockFails, Write, At, Tokened, HasTokens
<1>2. PICK s \in {"idle", "holding"} :
        /\ IF InGate(p) THEN LeaveGate(p, s) ELSE Goto(p, s) /\ UNCHANGED removal
        /\ s = "holding" => own' = own
        /\ s = "idle" => own' = [own EXCEPT ![p]["lock"] = NoFile]
  BY DEF WriteLock, WriteLockFails
<1>3. Counted' /\ blank' \subseteq Files
  BY <1>1 DEF Tokened, Counted, history, Shape
<1>4. /\ own' \in [Procs -> [Shared -> Files \cup {NoFile}]]
      /\ own'[p]["recovery"] = own[p]["recovery"]
      /\ \A q \in Procs : q # p => own'[q] = own[q]
      /\ s = "holding" <=> own'[p]["lock"] # NoFile
  BY <1>1, <1>2 DEF Tokened, Shape, Shared
<1>5. CASE InGate(p)
  <2>1. own[p]["recovery"] \in Contents
    BY DEF Tokened, Shape, Contents, Shared
  <2>2. LeaveGate(p, s) /\ (own' = own \/ own' = [own EXCEPT ![p]["lock"] = NoFile])
    BY <1>2, <1>5
  <2> QED BY <1>1, <1>3, <1>4, <2>1, <2>2, RemovalBegins DEF LeaveGate, Shared, Steps
<1>6. CASE ~InGate(p)
  <2>1. Goto(p, s) /\ removal' = removal /\ own[p]["recovery"] = NoFile
    BY <1>2, <1>6 DEF InGate
  <2>2. Shape'
    BY <1>1, <1>3, <1>4, <2>1 DEF Tokened, Shape, Goto, Steps
  <2>3. s \in Steps \ {"verify", "rename", "compare"}
    BY DEF Steps
  <2> QED BY <1>1, <1>3, <1>4, <2>1, <2>2, <2>3, GoesOn
<1> QED BY <1>5, <1>6

LEMMA WriteGateTokened ==
    ASSUME Tokened, NEW p \in Procs, WriteGate(p) \/ WriteGateFails(p)
    PROVE  Tokened'
<1>1. /\ step[p] = "write gate" /\ own[p]["lock"] = NoFile
      /\ UNCHANGED <<dir, alive, attempt, removal, alone>> /\ blank' \subseteq blank
  BY DEF WriteGate, WriteGateFails, Write, At, Tokened, HasTokens, history
<1>2. PICK s \in {"idle", "current"} :
        /\ Goto(p, s)
        /\ s = "current" => own' = own
        /\ s = "idle" => own' = [own EXCEPT ![p]["recovery"] = NoFile]
  BY DEF WriteGate, WriteGateFails
<1>3. Counted'
  BY <1>1 DEF Tokened, Counted, WriteGate, WriteGateFails, history
<1>4. /\ own' \in [Procs -> [Shared -> Files \cup {NoFile}]]
      /\ own'[p]["lock"] = NoFile /\ (s = "idle" => own'[p]["recovery"] = NoFile)
      /\ \A q \in Procs : q # p => own'[q] = own[q]
  <2>1. CASE s = "current"
    BY <1>1, <1>2, <2>1 DEF Tokened, Shape
  <2>2. CASE s = "idle"
    <3>1. own' = [own EXCEPT ![p]["recovery"] = NoFile]
      BY <1>2, <2>2
    <3>2. own \in [Procs -> [Shared -> Files \cup {NoFile}]]
      BY DEF Tokened, Shape
    <3>3. /\ own' \in [Procs -> [Shared -> Files \cup {NoFile}]]
          /\ \A q \in Procs : q # p => own'[q] = own[q]
      BY <3>1, <3>2 DEF Shared
    <3>4. own'[p]["lock"] = own[p]["lock"] /\ own'[p]["recovery"] = NoFile
      BY <3>1, <3>2 DEF Shared
    <3> QED BY <1>1, <3>3, <3>4
  <2> QED BY <2>1, <2>2
<1>5. Shape'
  BY <1>1, <1>2, <1>4 DEF Tokened, Shape, Goto, Steps
<1>6. s \in Steps \ {"verify", "rename", "compare"}
  BY DEF Steps
<1> QED BY <1>1, <1>2, <1>3, <1>4, <1>5, <1>6, GoesOn

LEMMA ObserveGateTokened ==
    ASSUME Tokened, NEW p \in Procs, ObserveGate(p)
    PROVE  Tokened'
<1>1. /\ step[p] = "observe gate" /\ own[p]["lock"] = NoFile /\ own[p]["recovery"] = NoFile
      /\ UNCHANGED <<dir, blank, alive, attempt, own>> /\ ReadTooEarly("recovery")
  BY DEF ObserveGate, At, Tokened, HasTokens, InGate
<1>2. Counted' /\ Read("recovery") \in Contents /\ blank' \subseteq Files
  BY <1>1, ReadTooEarlyCounted, ReadIs DEF Tokened, Shared, Shape
<1>3. CASE Goto(p, "sleep") /\ removal' = removal
  <2>1. Shape'
    BY <1>1, <1>3 DEF Tokened, Shape, Goto, Steps
  <2> QED BY <1>1, <1>2, <1>3, <2>1, GoesOn DEF Steps
<1>4. CASE Remove(p, "recovery", Read("recovery"), "sleep")
  BY <1>1, <1>2, <1>4, RemovalBegins DEF Remove, Shared, Steps
<1> QED BY <1>3, <1>4 DEF ObserveGate

LEMMA ReadCurrentTokened ==
    ASSUME Tokened, NEW p \in Procs, ReadCurrent(p)
    PROVE  Tokened'
<1>1. /\ step[p] = "current" /\ own[p]["lock"] = NoFile
      /\ UNCHANGED <<dir, blank, alive, attempt, own>> /\ ReadTooEarly("lock")
  BY DEF ReadCurrent, At, Tokened, HasTokens
<1>2. Counted' /\ Read("lock") \in Contents /\ own[p]["recovery"] \in Contents
      /\ blank' \subseteq Files
  BY <1>1, ReadTooEarlyCounted, ReadIs DEF Tokened, Shared, Shape, Contents
<1>3. CASE LeaveGate(p, "idle")
  BY <1>1, <1>2, <1>3, RemovalBegins DEF LeaveGate, Shared, Steps
<1>4. CASE Goto(p, "create") /\ removal' = removal
  <2>1. Shape'
    BY <1>1, <1>4 DEF Tokened, Shape, Goto, Steps
  <2> QED BY <1>1, <1>2, <1>4, <2>1, GoesOn DEF Steps
<1>5. CASE Remove(p, "lock", Read("lock"), "create")
  BY <1>1, <1>2, <1>5, RemovalBegins DEF Remove, Shared, Steps
<1> QED BY <1>3, <1>4, <1>5 DEF ReadCurrent

LEMMA ReleaseTokened ==
    ASSUME Tokened, NEW p \in Procs, Release(p)
    PROVE  Tokened'
<1>1. /\ step[p] = "holding" /\ ~InGate(p)
      /\ UNCHANGED <<dir, blank, alive, attempt, own, history>>
  BY DEF Release, At, Tokened, HasTokens
<1>2. Counted'
  BY <1>1 DEF Tokened, Counted, history
<1>3. own[p]["lock"] \in Contents /\ blank' \subseteq Files
  BY <1>1 DEF Tokened, Shape, Contents, Shared
<1>4. /\ Goto(p, "verify") /\ "lock" \in Shared /\ "idle" \in Steps
      /\ removal' = [removal EXCEPT ![p] = [path |-> "lock", raw |-> own[p]["lock"],
                                            then |-> "idle"]]
  BY DEF Release, Shared, Steps
<1> QED BY <1>1, <1>2, <1>3, <1>4, RemovalBegins

\* After a removal a process has the tokens of where it goes on.
LEMMA ProceedTokened ==
    ASSUME Tokened, NEW p \in Procs, step[p] \in {"verify", "rename", "compare"}, Proceed(p),
           dir' \in [Shared \cup Procs -> Files \cup {NoFile}], blank' \subseteq Files,
           alive' = alive, attempt' = attempt, UNCHANGED history
    PROVE  Tokened'
<1> DEFINE path == removal[p].path
           then == removal[p].then
<1>1. Removes(p)
  BY DEF Tokened, HasTokens
<1>2. /\ Goto(p, then) /\ own' = [own EXCEPT ![p][path] = NoFile]
      /\ removal' = [removal EXCEPT ![p] = NoRemoval]
  BY DEF Proceed
<1>3. /\ path \in Shared /\ then \in {"idle", "sleep", "holding", "create"}
  BY <1>1 DEF Removes, Shared
<1> HIDE DEF path, then
<1>4. /\ own' \in [Procs -> [Shared -> Files \cup {NoFile}]]
      /\ own'[p][path] = NoFile /\ \A x \in Shared : x # path => own'[p][x] = own[p][x]
      /\ \A q \in Procs : q # p => own'[q] = own[q]
  BY <1>2, <1>3 DEF Tokened, Shape
<1>5. NoRemoval \in [path : Shared \cup {"none"}, raw : Contents, then : Steps]
  BY DEF NoRemoval, Contents, Steps
<1>6. /\ removal' \in [Procs -> [path : Shared \cup {"none"}, raw : Contents, then : Steps]]
      /\ \A q \in Procs : q # p => removal'[q] = removal[q]
  BY <1>2, <1>5 DEF Tokened, Shape
<1>7. Shape'
  BY <1>2, <1>3, <1>4, <1>6 DEF Tokened, Shape, Goto, Steps
<1>8. Counted'
  BY DEF Tokened, Counted, history
<1>9. \/ /\ path = "recovery" /\ then \in {"idle", "sleep", "holding"}
         /\ then = "holding" <=> own[p]["lock"] # NoFile
      \/ path = "lock" /\ then = "idle" /\ own[p]["recovery"] = NoFile
      \/ path = "lock" /\ then = "create" /\ own[p]["lock"] = NoFile
  BY <1>1 DEF Removes, InGate, path, then
<1>10. CASE path = "recovery"
  <2>1. /\ own'[p]["recovery"] = NoFile /\ own'[p]["lock"] = own[p]["lock"]
        /\ then \in {"idle", "sleep", "holding"}
        /\ then = "holding" <=> own[p]["lock"] # NoFile
    BY <1>4, <1>9, <1>10 DEF Shared
  <2>2. then \in Steps \ {"verify", "rename", "compare"} /\ step[p] # "idle"
    BY <1>3 DEF Steps
  <2>3. /\ Goto(p, then) /\ \A q \in Procs : q # p => own'[q] = own[q] /\ removal'[q] = removal[q]
        /\ then # "create" /\ then # "write gate" /\ then # "current" /\ then # "write"
        /\ then \in {"idle", "observe", "sleep", "gate", "observe gate"}
             => own'[p]["lock"] = NoFile /\ own'[p]["recovery"] = NoFile
        /\ then = "holding" => own'[p]["lock"] # NoFile /\ own'[p]["recovery"] = NoFile
    BY <1>2, <1>4, <1>6, <2>1
  <2> QED BY ONLY Tokened, <1>7, <1>8, <2>2, <2>3, attempt' = attempt, GoesOn, p \in Procs
<1>11. CASE path = "lock"
  <2>1. /\ own'[p]["lock"] = NoFile /\ then \in {"idle", "create"}
        /\ then = "idle" => own'[p]["recovery"] = NoFile
    BY <1>4, <1>9, <1>11 DEF Shared
  <2>2. then \in Steps \ {"verify", "rename", "compare"}
    BY <1>3 DEF Steps
  <2> QED BY <1>2, <1>4, <1>6, <1>7, <1>8, <2>1, <2>2, GoesOn
<1> QED BY <1>3, <1>10, <1>11 DEF Shared

LEMMA RemovalTokened ==
    ASSUME Tokened, NEW p \in Procs, Verify(p) \/ Rename(p) \/ Compare(p)
    PROVE  Tokened'
<1>1. /\ step[p] \in {"verify", "rename", "compare"} /\ UNCHANGED <<alive, attempt, history>>
      /\ removal[p].path \in Shared
  <2>1. step[p] \in {"verify", "rename", "compare"} /\ UNCHANGED <<alive, attempt, history>>
    BY DEF Verify, Rename, Compare, At
  <2>2. Removes(p)
    BY <2>1 DEF Tokened, HasTokens
  <2> QED BY <2>1, <2>2 DEF Removes, Shared
<1>2. dir' \in [Shared \cup Procs -> Files \cup {NoFile}] /\ blank' \subseteq Files
  BY <1>1 DEF Verify, Rename, Compare, ForgetFiles, Tokened, Shape
<1>3. CASE Proceed(p)
  BY <1>1, <1>2, <1>3, ProceedTokened
<1>4. CASE ~Proceed(p)
  <2>1. PICK s \in {"rename", "compare"} : Goto(p, s) /\ UNCHANGED <<own, removal>>
    BY <1>4 DEF Verify, Rename, Compare
  <2>2. Shape'
    BY <1>1, <1>2, <2>1 DEF Tokened, Shape, Goto, Steps
  <2>3. step'[p] = s /\ \A q \in Procs : q # p => step'[q] = step[q]
    BY <2>1 DEF Tokened, Shape, Goto
  <2>4. HasTokens(p)'
    BY <1>1, <2>1, <2>3 DEF Tokened, HasTokens, Removes, InGate
  <2>5. Counted'
    BY <1>1 DEF Tokened, Counted, history
  <2> QED BY <1>1, <2>1, <2>2, <2>3, <2>4, <2>5, TokensOfOthers
<1> QED BY <1>3, <1>4

LEMMA DieTokened ==
    ASSUME Tokened, NEW p \in Procs, Die(p)
    PROVE  Tokened'
<1>1. /\ alive' = alive \ {p} /\ Goto(p, "idle")
      /\ own' = [own EXCEPT ![p] = [path \in Shared |-> NoFile]]
      /\ removal' = [removal EXCEPT ![p] = NoRemoval]
      /\ dir' = [dir EXCEPT ![p] = NoFile] /\ blank' \subseteq blank
      /\ UNCHANGED <<attempt, alone>>
  BY DEF Die, ForgetFiles
<1>2. /\ own' \in [Procs -> [Shared -> Files \cup {NoFile}]]
      /\ own'[p]["lock"] = NoFile /\ own'[p]["recovery"] = NoFile
      /\ \A q \in Procs : q # p => own'[q] = own[q]
  BY <1>1 DEF Tokened, Shape, Shared
<1>3. NoRemoval \in [path : Shared \cup {"none"}, raw : Contents, then : Steps]
  BY DEF NoRemoval, Contents, Steps
<1>4. /\ removal' \in [Procs -> [path : Shared \cup {"none"}, raw : Contents, then : Steps]]
      /\ \A q \in Procs : q # p => removal'[q] = removal[q]
  BY <1>1, <1>3 DEF Tokened, Shape
<1>5. Shape'
  BY <1>1, <1>2, <1>4 DEF Tokened, Shape, Goto, Steps
<1>6. Counted'
  BY <1>1 DEF Die, Tokened, Counted
<1> QED BY <1>1, <1>2, <1>4, <1>5, <1>6, GoesOn DEF Steps

LEMMA TokenedKept == Tokened /\ [Next]_vars => Tokened'
<1> SUFFICES ASSUME Tokened, [Next]_vars PROVE Tokened'
  OBVIOUS
<1>1. CASE UNCHANGED vars
  BY <1>1 DEF vars, history, Tokened, Shape, Counted, HasTokens, Removes, InGate
<1>2. ASSUME NEW p \in Procs,
             \/ Acquire(p) \/ CreateLock(p) \/ LockExists(p)
             \/ WriteLock(p) \/ WriteLockFails(p)
             \/ Observe(p) \/ Sleep(p)
             \/ CreateGate(p) \/ GateExists(p) \/ WriteGate(p) \/ WriteGateFails(p)
             \/ ObserveGate(p) \/ ReadCurrent(p)
             \/ Release(p) \/ Verify(p) \/ Rename(p) \/ Compare(p)
             \/ Die(p)
      PROVE  Tokened'
  BY <1>2, LookTokened, CreateTokened, LockExistsTokened, WriteTokened, WriteGateTokened,
     ObserveGateTokened, ReadCurrentTokened, ReleaseTokened, RemovalTokened, DieTokened
<1> QED BY <1>1, <1>2 DEF Next

\* The paths and the tokens by which a file is known are fewer than Tokens, so a
\* process can always create one more.
LEMMA FreshExists ==
    ASSUME Shape, NEW p \in Procs
    PROVE  Fresh(p) # {}
<1> DEFINE known(n) == \/ \E path \in DOMAIN dir : dir[path] = <<p, n>>
                       \/ \E q \in Procs : removal[q].raw = <<p, n>>
                       \/ \E path \in Shared : own[p][path] = <<p, n>>
           Paths == {"dir"} \X (Shared \cup Procs)
           Raws == {"removal"} \X Procs
           Owns == {"own"} \X Shared
           Places == Paths \cup Raws \cup Owns
           file(x) == IF x[1] = "dir" THEN dir[x[2]]
                      ELSE IF x[1] = "removal" THEN removal[x[2]].raw ELSE own[p][x[2]]
           U == {n \in 1 .. Tokens : ~known(n)}
<1>1. Tokens \in Nat /\ Tokens > 2 * Cardinality(Procs) + 4 /\ Cardinality(Procs) \in Nat
  BY LockAssumption, FS_CardinalityType
<1>2. IsFiniteSet(Places) /\ Cardinality(Places) <= 2 * Cardinality(Procs) + 4
  <2>1. IsFiniteSet(Procs) /\ Cardinality(Procs) \in Nat
    BY LockAssumption, FS_CardinalityType
  <2>2. IsFiniteSet(Shared) /\ Cardinality(Shared) = 2
    <3>1. IsFiniteSet({"lock"}) /\ Cardinality({"lock"}) = 1
      BY FS_Singleton
    <3>2. IsFiniteSet({"lock"} \cup {"recovery"})
          /\ Cardinality({"lock"} \cup {"recovery"}) = Cardinality({"lock"}) + 1
      BY <3>1, FS_AddElement
    <3>3. Shared = {"lock"} \cup {"recovery"}
      BY DEF Shared
    <3> QED BY <3>1, <3>2, <3>3
  <2>3. ASSUME NEW A, NEW B, IsFiniteSet(A), IsFiniteSet(B)
        PROVE  /\ IsFiniteSet(A \cup B) /\ Cardinality(A \cup B) \in Nat
               /\ Cardinality(A \cup B) <= Cardinality(A) + Cardinality(B)
    <3>1. /\ IsFiniteSet(A \cup B)
          /\ Cardinality(A \cup B) = Cardinality(A) + Cardinality(B) - Cardinality(A \cap B)
      BY <2>3, FS_Union
    <3>2. IsFiniteSet(A \cap B)
      BY <2>3, FS_Intersection
    <3>3. Cardinality(A) \in Nat /\ Cardinality(B) \in Nat /\ Cardinality(A \cap B) \in Nat
          /\ Cardinality(A \cup B) \in Nat
      BY <2>3, <3>1, <3>2, FS_CardinalityType
    <3> QED BY <3>1, <3>3
  <2>4. ASSUME NEW A, NEW s, IsFiniteSet(A)
        PROVE  IsFiniteSet({s} \X A) /\ Cardinality({s} \X A) = Cardinality(A)
    <3>1. IsFiniteSet({s}) /\ Cardinality({s}) = 1
      BY FS_Singleton
    <3>2. /\ IsFiniteSet({s} \X A)
          /\ Cardinality({s} \X A) = Cardinality({s}) * Cardinality(A)
      BY <2>4, <3>1, FS_Product
    <3>3. Cardinality(A) \in Nat
      BY <2>4, FS_CardinalityType
    <3> QED BY <3>1, <3>2, <3>3
  <2>5. /\ IsFiniteSet(Shared \cup Procs) /\ Cardinality(Shared \cup Procs) \in Nat
        /\ Cardinality(Shared \cup Procs) <= 2 + Cardinality(Procs)
    BY <2>1, <2>2, <2>3
  <2>6. /\ IsFiniteSet(Paths) /\ Cardinality(Paths) = Cardinality(Shared \cup Procs)
        /\ IsFiniteSet(Raws) /\ Cardinality(Raws) = Cardinality(Procs)
        /\ IsFiniteSet(Owns) /\ Cardinality(Owns) = 2
    BY <2>1, <2>2, <2>4, <2>5
  <2> HIDE DEF Paths, Raws, Owns
  <2>7. /\ IsFiniteSet(Paths \cup Raws) /\ Cardinality(Paths \cup Raws) \in Nat
        /\ Cardinality(Paths \cup Raws) <= Cardinality(Paths) + Cardinality(Raws)
    BY <2>3, <2>6
  <2>8. /\ IsFiniteSet(Places) /\ Cardinality(Places) \in Nat
        /\ Cardinality(Places) <= Cardinality(Paths \cup Raws) + Cardinality(Owns)
    BY <2>3, <2>6, <2>7
  <2> HIDE DEF Places
  <2> QED BY <2>1, <2>5, <2>6, <2>7, <2>8
<1>3. \A n \in 1 .. Tokens : known(n) => \E x \in Places : file(x) = <<p, n>>
  <2> SUFFICES ASSUME NEW n \in 1 .. Tokens, known(n) PROVE \E x \in Places : file(x) = <<p, n>>
    OBVIOUS
  <2>1. CASE \E path \in DOMAIN dir : dir[path] = <<p, n>>
    <3>1. PICK path \in Shared \cup Procs : dir[path] = <<p, n>>
      BY <2>1 DEF Shape
    <3>2. <<"dir", path>> \in Places /\ file(<<"dir", path>>) = <<p, n>>
      BY <3>1
    <3> QED BY <3>2
  <2>2. CASE \E q \in Procs : removal[q].raw = <<p, n>>
    <3>1. PICK q \in Procs : removal[q].raw = <<p, n>>
      BY <2>2
    <3>2. <<"removal", q>> \in Places /\ file(<<"removal", q>>) = <<p, n>>
      BY <3>1
    <3> QED BY <3>2
  <2>3. CASE \E path \in Shared : own[p][path] = <<p, n>>
    <3>1. PICK path \in Shared : own[p][path] = <<p, n>>
      BY <2>3
    <3>2. <<"own", path>> \in Places /\ file(<<"own", path>>) = <<p, n>>
      BY <3>1
    <3> QED BY <3>2
  <2> QED BY <2>1, <2>2, <2>3
<1> HIDE DEF Places, file
<1>4. U # {}
  <2> SUFFICES ASSUME \A n \in 1 .. Tokens : known(n) PROVE FALSE
    BY DEF U
  <2> DEFINE f == [n \in 1 .. Tokens |-> CHOOSE x \in Places : file(x) = <<p, n>>]
  <2>1. \A n \in 1 .. Tokens : f[n] \in Places /\ file(f[n]) = <<p, n>>
    BY <1>3
  <2>2. f \in [1 .. Tokens -> Places]
    BY <2>1
  <2> HIDE DEF f, known
  <2>3. IsFiniteSet(1 .. Tokens) /\ Cardinality(1 .. Tokens) = Tokens
    BY <1>1, FS_Interval
  <2>4. Cardinality(Places) < Cardinality(1 .. Tokens)
    <3>1. Cardinality(Places) \in Nat
      BY <1>2, FS_CardinalityType
    <3> QED BY <1>1, <1>2, <2>3, <3>1
  <2>5. PICK m \in 1 .. Tokens, n \in 1 .. Tokens : m # n /\ f[m] = f[n]
    BY <1>2, <2>2, <2>3, <2>4, FS_PigeonHole
  <2> QED BY <2>1, <2>5
<1>5. U \in SUBSET Nat
  BY <1>1
<1>6. PICK m \in U : \A n \in U : m <= n
  <2> HIDE DEF U
  <2> QED BY <1>4, <1>5, LeastExists
<1>7. m \in 1 .. Tokens /\ ~known(m) /\ \A l \in 1 .. m - 1 : known(l)
  <2>1. m \in 1 .. Tokens /\ ~known(m)
    OBVIOUS
  <2>2. ASSUME NEW l \in 1 .. m - 1 PROVE known(l)
    <3>1. l \in 1 .. Tokens /\ ~(m <= l)
      BY <1>1, <2>1
    <3> QED BY <1>6, <3>1
  <2> QED BY <2>1, <2>2
<1>8. Fresh(p) = {<<p, n>> : n \in {k \in 1 .. Tokens : ~known(k) /\ \A l \in 1 .. k - 1 : known(l)}}
  BY DEF Fresh
<1> HIDE DEF known
<1> QED BY <1>7, <1>8

\* For any number of processes: every state of the lock is well typed, a process has
\* the tokens its step needs and none of an earlier try, and it always finds another
\* file name to create (acquire's loop and its finally, releaseOwnedPath).
THEOREM TokensRight == Spec => []TypeOK
<1>1. Tokened => TypeOK
  <2> SUFFICES ASSUME Tokened PROVE TypeOK
    OBVIOUS
  <2>1. \A p \in Procs : Fresh(p) # {}
    BY FreshExists DEF Tokened
  <2>2. ASSUME NEW p \in Procs
        PROVE  /\ step[p] \in {"write", "holding"} => own[p]["lock"] # NoFile
               /\ step[p] \in {"idle", "observe", "gate"}
                      => \A path \in Shared : own[p][path] = NoFile
    BY DEF Tokened, HasTokens, InGate, Shared
  <2> QED BY <2>1, <2>2 DEF Tokened, Shape, Counted, TypeOK
<1>2. Init => Tokened
  BY InitTokened
<1>3. Tokened /\ [Next]_vars => Tokened'
  BY TokenedKept
<1> QED BY <1>1, <1>2, <1>3, PTL DEF Spec

-----------------------------------------------------------------------------
(* A process that begins to acquire when nobody else is alive gets the lock.  *)

\* Among the files at the shared paths, only its own have a living holder.
LEMMA NobodyHolds ==
    ASSUME Tokened, NEW p \in Procs, alive = {p}, NEW path \in Shared, Foreign(p, path)
    PROVE  ~HolderAlive(Read(path))
<1> SUFFICES ASSUME HolderAlive(Read(path)) PROVE FALSE
  OBVIOUS
<1>1. Read(path) \in Files /\ Read(path)[1] = p
  BY DEF HolderAlive
<1>2. Read(path) = dir[path]
  BY <1>1, FileFacts DEF Read
<1>3. dir[path] \in FilesOf(p)
  BY <1>1, <1>2 DEF Files, FilesOf
<1> QED BY <1>3 DEF Foreign

LEMMA NoFileForeign == \A p \in Procs : NoFile \notin FilesOf(p)
BY FileFacts DEF FilesOf, Files

\* The steps of the only process alive.
Goes(p) == Tokened /\ alive = {p} /\ GetsThere(p)

LEMMA LoneLooks ==
    ASSUME 2 <= Attempts, NEW p \in Procs, Goes(p),
           Observe(p) \/ Sleep(p) \/ GateExists(p) \/ LockExists(p)
    PROVE  GetsThere(p)' /\ ~Refused(p)
<1> USE DEF Goes
<1>1. UNCHANGED <<dir, blank, own>>
  BY DEF Observe, Sleep, GateExists, LockExists
<1>2. CASE Observe(p)
  <2>1. step[p] = "observe" /\ attempt' = attempt
    BY <1>2 DEF Observe, At
  <2>2. Foreign(p, "lock") /\ Foreign(p, "recovery") /\ attempt[p] <= 1 /\ FirstOrFree(p)
    BY <2>1 DEF GetsThere
  <2>3. step'[p] = "gate"
    BY <1>2, <2>2, NobodyHolds DEF Observe, Goto, Tokened, Shape, Shared
  <2> QED BY <1>1, <2>1, <2>2, <2>3 DEF GetsThere, Refused, Foreign, FirstOrFree
<1>3. CASE Sleep(p)
  <2>1. step[p] = "sleep" /\ attempt' = [attempt EXCEPT ![p] = @ + 1]
    BY <1>3 DEF Sleep, At
  <2>2. Foreign(p, "lock") /\ dir["recovery"] = NoFile /\ attempt[p] = 0
    BY <2>1 DEF GetsThere
  <2>3. attempt'[p] = 1
    <3>1. attempt \in [Procs -> 0 .. Attempts]
      BY DEF Tokened, Counted
    <3>2. attempt'[p] = attempt[p] + 1
      BY <2>1, <3>1
    <3> QED BY ONLY <2>2, <3>2
  <2>4. attempt[p] + 1 < Attempts
    BY <2>2, AttemptsCount
  <2>5. step'[p] = "observe"
    BY <1>3, <2>4 DEF Sleep, Goto, Tokened, Shape
  <2>6. Foreign(p, "recovery")
    BY <2>2, NoFileForeign DEF Foreign
  <2> QED BY <1>1, <2>1, <2>2, <2>3, <2>5, <2>6 DEF GetsThere, Refused, Foreign, FirstOrFree
<1>4. CASE GateExists(p)
  <2>1. step[p] = "gate" /\ dir["recovery"] # NoFile /\ attempt' = attempt
        /\ step'[p] = "observe gate"
    BY <1>4 DEF GateExists, At, Goto, Tokened, Shape
  <2>2. Foreign(p, "lock") /\ Foreign(p, "recovery") /\ attempt[p] = 0
    BY <2>1 DEF GetsThere, FirstOrFree
  <2> QED BY <1>1, <2>1, <2>2 DEF GetsThere, Refused, Foreign
<1>5. CASE LockExists(p)
  <2>1. step[p] = "create" /\ dir["lock"] # NoFile /\ attempt' = attempt
    BY <1>5 DEF LockExists, At
  <2>2. ~InGate(p) /\ Foreign(p, "lock") /\ Foreign(p, "recovery") /\ attempt[p] = 0
    BY <2>1 DEF GetsThere
  <2>3. step'[p] = "observe"
    BY <1>5, <2>2 DEF LockExists, Goto, Tokened, Shape
  <2> QED BY <1>1, <2>1, <2>2, <2>3 DEF GetsThere, Refused, Foreign, FirstOrFree
<1> QED BY <1>2, <1>3, <1>4, <1>5

LEMMA LoneWrites ==
    ASSUME NEW p \in Procs, Goes(p),
           \/ CreateLock(p) \/ WriteLock(p) \/ WriteLockFails(p)
           \/ CreateGate(p) \/ WriteGate(p) \/ WriteGateFails(p) \/ Release(p)
    PROVE  GetsThere(p)' /\ ~Refused(p)
<1> USE DEF Goes
<1>1. CASE CreateLock(p)
  <2>1. step[p] = "create" /\ step'[p] = "write"
    BY <1>1 DEF CreateLock, At, Goto, Tokened, Shape
  <2> QED BY <2>1 DEF GetsThere, Refused
<1>2. CASE WriteLock(p) \/ WriteLockFails(p)
  <2>1. step[p] = "write"
    BY <1>2 DEF WriteLock, WriteLockFails, At
  <2>2. \/ step'[p] \in {"holding", "idle"}
        \/ step'[p] = "verify" /\ removal'[p].then \in {"holding", "idle"}
    BY <1>2 DEF WriteLock, WriteLockFails, LeaveGate, Goto, Tokened, Shape
  <2> QED BY <2>1, <2>2 DEF GetsThere, Refused
<1>3. CASE CreateGate(p)
  <2>1. step[p] = "gate" /\ step'[p] = "write gate"
    BY <1>3 DEF CreateGate, At, Goto, Tokened, Shape
  <2>2. PICK f \in Fresh(p) : /\ dir' = [dir EXCEPT !["recovery"] = f]
                              /\ own' = [own EXCEPT ![p]["recovery"] = f]
    BY <1>3 DEF CreateGate, Create
  <2>3. f # NoFile
    BY FreshFacts, FileFacts
  <2>4. own'[p]["recovery"] = f /\ dir'["lock"] = dir["lock"]
    BY <2>2 DEF Tokened, Shape, Shared
  <2>5. Foreign(p, "lock")
    BY <2>1 DEF GetsThere
  <2> QED BY <2>1, <2>3, <2>4, <2>5 DEF GetsThere, Refused, Foreign, InGate
<1>4. CASE WriteGate(p)
  <2>1. step[p] = "write gate" /\ step'[p] = "current" /\ UNCHANGED <<dir, own>>
    BY <1>4 DEF WriteGate, At, Goto, Tokened, Shape
  <2> QED BY <2>1 DEF GetsThere, Refused, Foreign, InGate
<1>5. CASE WriteGateFails(p)
  <2>1. step[p] = "write gate" /\ step'[p] = "idle"
    BY <1>5 DEF WriteGateFails, At, Goto, Tokened, Shape
  <2> QED BY <2>1 DEF GetsThere, Refused
<1>6. CASE Release(p)
  <2>1. step[p] = "holding" /\ step'[p] = "verify" /\ removal'[p].then = "idle"
    BY <1>6 DEF Release, At, Goto, Tokened, Shape
  <2> QED BY <2>1 DEF GetsThere, Refused
<1> QED BY <1>1, <1>2, <1>3, <1>4, <1>5, <1>6

LEMMA LoneObservesGate ==
    ASSUME NEW p \in Procs, Goes(p), ObserveGate(p)
    PROVE  GetsThere(p)' /\ ~Refused(p)
<1> USE DEF Goes
<1>1. step[p] = "observe gate" /\ UNCHANGED <<dir, blank, attempt, own>>
  BY DEF ObserveGate, At
<1>2. /\ Foreign(p, "lock") /\ Foreign(p, "recovery")
      /\ attempt[p] = 0 /\ dir["recovery"] # NoFile
  BY <1>1 DEF GetsThere
<1>3. Read("recovery") # NoFile /\ ~HolderAlive(Read("recovery"))
  BY <1>2, ReadIs, NobodyHolds DEF Tokened, Shared
<1>4. Remove(p, "recovery", Read("recovery"), "sleep")
  BY <1>3 DEF ObserveGate
<1>5. step'[p] = "rename" /\ removal'[p].path = "recovery" /\ removal'[p].then = "sleep"
      /\ removal'[p].raw = Read("recovery")
  BY <1>4 DEF Remove, Goto, Tokened, Shape
<1> QED BY <1>1, <1>2, <1>5 DEF GetsThere, Refused, Foreign, Clears, Read

LEMMA LoneReadsCurrent ==
    ASSUME NEW p \in Procs, Goes(p), ReadCurrent(p)
    PROVE  GetsThere(p)' /\ ~Refused(p)
<1> USE DEF Goes
<1>1. step[p] = "current" /\ UNCHANGED <<dir, blank, attempt, own>>
  BY DEF ReadCurrent, At
<1>2. Foreign(p, "lock") /\ InGate(p)
  BY <1>1 DEF GetsThere
<1>3. ~HolderAlive(Read("lock")) /\ (Read("lock") = NoFile <=> dir["lock"] = NoFile)
  BY <1>2, ReadIs, NobodyHolds DEF Tokened, Shared
<1>4. CASE Goto(p, "create") /\ Read("lock") = NoFile
  <2>1. step'[p] = "create"
    BY <1>4 DEF Goto, Tokened, Shape
  <2> QED BY <1>1, <1>2, <1>3, <1>4, <2>1 DEF GetsThere, Refused, InGate
<1>5. CASE Remove(p, "lock", Read("lock"), "create") /\ Read("lock") # NoFile
  <2>1. step'[p] = "rename" /\ removal'[p].path = "lock" /\ removal'[p].then = "create"
        /\ removal'[p].raw = Read("lock")
    BY <1>5 DEF Remove, Goto, Tokened, Shape
  <2> QED BY <1>1, <1>2, <1>3, <1>5, <2>1 DEF GetsThere, Refused, InGate, Clears, Read
<1> QED BY <1>3, <1>4, <1>5 DEF ReadCurrent

\* Where a removal that is over leaves the process.
LEMMA ProceedsTo ==
    ASSUME Tokened, NEW p \in Procs, Proceed(p)
    PROVE  /\ step'[p] = removal[p].then
           /\ \A x \in Shared : x # removal[p].path => own'[p][x] = own[p][x]
BY DEF Proceed, Goto, Tokened, Shape

LEMMA LoneRemoves ==
    ASSUME NEW p \in Procs, Goes(p), Verify(p) \/ Rename(p) \/ Compare(p)
    PROVE  GetsThere(p)' /\ ~Refused(p)
<1> USE DEF Goes
<1>1. step[p] \in {"verify", "rename", "compare"} /\ attempt' = attempt
  BY DEF Verify, Rename, Compare, At
<1>2. p \notin Shared /\ p # "lock" /\ p # "recovery"
  BY LockAssumption DEF Shared
<1>3. CASE removal[p].then \in {"idle", "holding"}
  <2>1. CASE Proceed(p)
    BY <1>1, <1>3, <2>1, ProceedsTo DEF GetsThere, Refused
  <2>2. CASE ~Proceed(p)
    <3>1. step'[p] \in {"rename", "compare"} /\ removal' = removal
      BY <2>2 DEF Verify, Rename, Compare, Goto, Tokened, Shape
    <3> QED BY <1>1, <1>3, <3>1 DEF GetsThere, Refused
  <2> QED BY <2>1, <2>2
<1>4. CASE removal[p].then \notin {"idle", "holding"}
  <2>1. PICK path \in Shared, then \in {"sleep", "create"} :
          /\ Clears(p, path, then) /\ step[p] \in {"rename", "compare"}
          /\ \/ path = "recovery" /\ then = "sleep" /\ Foreign(p, "lock") /\ attempt[p] = 0
             \/ path = "lock" /\ then = "create" /\ InGate(p)
    BY <1>1, <1>4 DEF GetsThere, Shared
  <2>2. CASE Rename(p)
    <3>1. step[p] = "rename" /\ Read(path) = removal[p].raw /\ dir[path] # NoFile
          /\ removal[p].path = path /\ removal[p].then = then
      BY <2>1, <2>2 DEF Rename, At, Clears
    <3>2. /\ dir' = [dir EXCEPT ![path] = NoFile, ![p] = dir[path]]
          /\ step'[p] = "compare" /\ UNCHANGED <<own, removal, blank>>
      BY <2>2, <3>1 DEF Rename, Goto, Tokened, Shape
    <3>3. /\ dir'[path] = NoFile /\ dir'[p] = dir[path]
          /\ \A x \in Shared : x # path => dir'[x] = dir[x]
      BY <1>2, <3>2 DEF Tokened, Shape
    <3>4. Read(p)' = removal'[p].raw
      BY <3>1, <3>2, <3>3 DEF Read
    <3>5. Clears(p, path, then)'
      BY <3>1, <3>2, <3>3, <3>4 DEF Clears
    <3>6. path = "recovery" => dir'["lock"] = dir["lock"]
      BY <3>3 DEF Shared
    <3> HIDE <2>2
    <3> QED BY <1>1, <2>1, <3>1, <3>2, <3>5, <3>6 DEF GetsThere, Refused, Foreign, InGate
  <2>3. CASE Compare(p)
    <3>1. step[p] = "compare" /\ Read(p) = removal[p].raw /\ dir[path] = NoFile
          /\ removal[p].path = path /\ removal[p].then = then
      BY <2>1, <2>3 DEF Compare, At, Clears
    <3>2. dir' = [dir EXCEPT ![p] = NoFile] /\ Proceed(p)
      BY <2>3, <3>1 DEF Compare
    <3>3. \A x \in Shared : dir'[x] = dir[x]
      BY <1>2, <3>2 DEF Tokened, Shape
    <3>4. step'[p] = then /\ (path = "lock" => own'[p]["recovery"] = own[p]["recovery"])
      BY <3>1, <3>2, ProceedsTo DEF Shared
    <3>5. dir'["lock"] = dir["lock"] /\ dir'["recovery"] = dir["recovery"]
      BY <3>3 DEF Shared
    <3> QED BY <1>1, <2>1, <3>1, <3>4, <3>5 DEF GetsThere, Refused, Foreign, InGate
  <2>4. ~Verify(p)
    BY <2>1 DEF Verify, At
  <2> QED BY <2>2, <2>3, <2>4
<1> QED BY <1>3, <1>4

LEMMA UndisturbedKept ==
    ASSUME 2 <= Attempts
    PROVE  Tokened /\ Undisturbed /\ [Next]_vars
               => Undisturbed' /\ \A p \in alone \cap alive' : ~Refused(p)
<1> SUFFICES ASSUME Tokened, Undisturbed, [Next]_vars
             PROVE  Undisturbed' /\ \A p \in alone \cap alive' : ~Refused(p)
  OBVIOUS
<1>1. CASE UNCHANGED vars
  <2>1. UNCHANGED <<dir, blank, alive, step, attempt, own, removal, alone>>
    BY <1>1 DEF vars, history
  <2>2. Undisturbed'
    <3> SUFFICES ASSUME NEW p \in alone, p \in alive
                 PROVE  GetsThere(p)'
      BY <2>1 DEF Undisturbed
    <3>1. GetsThere(p)
      BY DEF Undisturbed
    <3>2. \A path, then : Clears(p, path, then) => Clears(p, path, then)'
      BY <2>1 DEF Clears, Read
    <3> QED BY <2>1, <3>1, <3>2 DEF GetsThere, Foreign, FirstOrFree, InGate
  <2>3. ASSUME NEW p PROVE ~Refused(p)
    BY <2>1 DEF Refused
  <2> QED BY <2>2, <2>3
<1>2. ASSUME NEW q \in Procs, Acquire(q)
      PROVE  Undisturbed' /\ \A p \in alone \cap alive' : ~Refused(p)
  <2>1. /\ step[q] = "idle" /\ step'[q] = "create" /\ \A p \in Procs : p # q => step'[p] = step[p]
        /\ attempt'[q] = 0 /\ UNCHANGED <<dir, blank, alive, own, removal>>
        /\ alone' = IF alive = {q} /\ ~HasFile(q) THEN {q} ELSE {}
    BY <1>2 DEF Acquire, At, Goto, Tokened, Shape, Counted
  <2>2. ~InGate(q)
    BY <2>1 DEF Tokened, HasTokens
  <2>3. Undisturbed'
    BY <2>1, <2>2 DEF Undisturbed, GetsThere, Foreign, InGate, HasFile, Shared
  <2>4. \A p \in alone : p \in Procs
    BY DEF Tokened, Counted
  <2>5. ASSUME NEW p \in alone PROVE ~Refused(p)
    BY <2>1, <2>4 DEF Refused
  <2> QED BY <2>3, <2>5
<1>3. ASSUME NEW q \in Procs,
             \/ CreateLock(q) \/ LockExists(q) \/ WriteLock(q) \/ WriteLockFails(q)
             \/ Observe(q) \/ Sleep(q)
             \/ CreateGate(q) \/ GateExists(q) \/ WriteGate(q) \/ WriteGateFails(q)
             \/ ObserveGate(q) \/ ReadCurrent(q)
             \/ Release(q) \/ Verify(q) \/ Rename(q) \/ Compare(q)
      PROVE  Undisturbed' /\ \A p \in alone \cap alive' : ~Refused(p)
  <2>1. q \in alive /\ alive' = alive /\ alone' = alone
    BY <1>3 DEF CreateLock, LockExists, WriteLock, WriteLockFails, Observe, Sleep, CreateGate,
       GateExists, WriteGate, WriteGateFails, ObserveGate, ReadCurrent, Release, Verify, Rename,
       Compare, At, ReadTooEarly, history
  <2>2. ASSUME NEW p \in alone
        PROVE  p = q /\ alive = {p} /\ GetsThere(p)' /\ ~Refused(p)
    <3>1. p = q /\ alive = {p} /\ GetsThere(p)
      BY <2>1 DEF Undisturbed
    <3>2. Goes(q)
      BY <3>1 DEF Goes
    <3> QED BY <1>3, <3>1, <3>2, LoneLooks, LoneWrites, LoneObservesGate, LoneReadsCurrent,
               LoneRemoves
  <2> QED BY <2>1, <2>2 DEF Undisturbed
<1>4. ASSUME NEW q \in Procs, Die(q)
      PROVE  Undisturbed' /\ \A p \in alone \cap alive' : ~Refused(p)
  <2>1. q \in alive /\ alive' = alive \ {q} /\ alone' = alone
    BY <1>4 DEF Die
  <2>2. \A p \in alone : alive' = {}
    BY <2>1 DEF Undisturbed
  <2> QED BY <2>1, <2>2 DEF Undisturbed
<1> QED BY <1>1, <1>2, <1>3, <1>4 DEF Next

\* With two rounds or more (the code has 100), whatever files the dead left and however
\* many processes there were: acquire refuses nobody who starts with no one else alive.
THEOREM LoneAlwaysSucceeds == ASSUME 2 <= Attempts PROVE Spec => LoneSucceeds
<1>1. Init => Undisturbed
  BY DEF Init, Undisturbed
<1>2. Tokened /\ Undisturbed /\ [Next]_vars
        => Undisturbed' /\ [\A p \in alone \cap alive' : ~Refused(p)]_vars
  BY UndisturbedKept
<1> QED BY <1>1, <1>2, InitTokened, TokenedKept, PTL DEF Spec, LoneSucceeds
================================================================================
