----------------------------- MODULE WorkflowReplay -----------------------------
(***************************************************************************)
(* The lives of one workflow run over its journal (dynamic-workflow/src/   *)
(* engine: scheduler.ts, engine-report.ts, replay-order.ts, engine.ts;     *)
(* dynamic-workflow-runtime/src: harness.ts, child-source.ts).             *)
(*                                                                         *)
(* A deterministic script fans out over branches: every branch makes one   *)
(* call at each site in turn and finally one report.  A call gets its      *)
(* site's next ordinal when it arrives, so calls made after an await are   *)
(* numbered in the order in which the answers were delivered.  A life may  *)
(* end at any point; the next one replays the recorded answers through the *)
(* settle-order gate, and every call is compared with the journal row of   *)
(* its ordinal.                                                            *)
(*                                                                         *)
(* Sandbox and host talk over two FIFO pipes; the sandbox runs its         *)
(* continuations from a microtask queue.                                   *)
(***************************************************************************)
EXTENDS WaitingLine, SequencesExt

CONSTANTS
    Branches,
    Script,         \* the order in which the script starts its branches
    Sites,          \* number of ask sites; the report site comes after them
    Hops,           \* microtasks between a branch's answer and its next call
    MaxLives,       \* bound on the number of lives
    Surprises       \* what the environment may do beyond crashing between steps

ASSUME ReplayAssumption ==
    /\ IsFiniteSet(Branches)
    /\ Script \in Seq(Branches) /\ Distinct(Script) /\ Elements(Script) = Branches
    /\ Sites \in Nat \ {0}
    /\ Hops \in [Branches -> Nat]
    /\ MaxLives \in Nat
    /\ Surprises \subseteq {"stop",    \* the run is stopped, which cancels live asks
                            "torn",    \* a crash between a row and its event
                            "fast"}    \* a live answer overtakes the replay

VARIABLES
    asks,           \* journal: by site, who made the call and whether it settled
    reports,        \* journal: who made each report
    log,            \* journal: node-settled events, the first of each instance
    run,            \* "idle" between lives
    lives,
    \* volatile, host
    ordinals,       \* nextOrdinal's counters
    recorded,       \* number of rows of each site when this life began
    order, cursor, parked, due,    \* ReplaySettleOrder: due is its queue
    live,           \* liveNodes, in admission order
    torn,           \* asks whose row is written and whose event is not
    happened,       \* history: the surprises there have been
    \* volatile, sandbox and pipes
    answers,        \* host to sandbox: answered calls
    micro,          \* the sandbox's microtask queue
    calls           \* sandbox to host: calls and reports

journal == <<asks, reports, log>>
gate == <<order, cursor, parked, due>>
sandbox == <<answers, micro, calls>>
vars == <<journal, run, lives, ordinals, recorded, gate, live, torn, happened, sandbox>>

Call(b, i) == [branch |-> b, site |-> i]
ReportSite == Sites + 1
Rows(i) == IF i = ReportSite THEN Len(reports) ELSE Len(asks[i])
ByBranch(inst) == asks[inst[1]][inst[2]].by
Answer(inst) == Call(ByBranch(inst), inst[1])
Answers(insts) == [n \in 1 .. Len(insts) |-> Answer(insts[n])]

Instances == (1 .. Sites) \X (1 .. Cardinality(Branches))

Settled == {inst \in Instances : /\ inst[2] <= Len(asks[inst[1]])
                                 /\ asks[inst[1]][inst[2]].done}

\* Mutants of RecordSettled: the last settlement of an instance counts; all do.
RecordLast(l, insts) == Filtered(l, Elements(l) \ Elements(insts)) \o insts

RecordAll(l, insts) == l \o insts

\* The log after node-settled events for insts: only an instance's first counts.
RecordSettled(l, insts) == l \o Filtered(insts, Elements(insts) \ Elements(l))

(* Mutants: of Claimable, the rows' status is not looked at; of              *)
(* RecoverSettleOrder, the rows' order is taken for the settlements'.        *)
ClaimableAlways(inst) == TRUE

RecoverRowOrder ==
    SetToSortSeq(Settled \cap Elements(log),
                 LAMBDA p, q : p[1] < q[1] \/ (p[1] = q[1] /\ p[2] < q[2]))

(* recoverSettleOrder: of the logged instances, those that are settled now. *)
Claimable(inst) == inst \in Settled
RecoverSettleOrder == Filtered(log, {inst \in Elements(log) : Claimable(inst)})

-----------------------------------------------------------------------------
NoHost ==
    /\ ordinals' = [i \in 1 .. ReportSite |-> 0]
    /\ recorded' = [i \in 1 .. ReportSite |-> 0]
    /\ order' = <<>> /\ cursor' = 0 /\ parked' = {} /\ due' = <<>>
    /\ live' = <<>>
    /\ torn' = {}
    /\ answers' = <<>> /\ micro' = <<>> /\ calls' = <<>>

Init ==
    /\ asks = [i \in 1 .. Sites |-> <<>>]
    /\ reports = <<>> /\ log = <<>>
    /\ run = "idle" /\ lives = 0
    /\ ordinals = [i \in 1 .. ReportSite |-> 0]
    /\ recorded = [i \in 1 .. ReportSite |-> 0]
    /\ order = <<>> /\ cursor = 0 /\ parked = {} /\ due = <<>>
    /\ live = <<>>
    /\ torn = {} /\ happened = {}
    /\ answers = <<>> /\ micro = <<>> /\ calls = <<>>

(* A life begins: the engine recovers the settle order, the sandbox starts   *)
(* the script, which makes its first calls in one go.                        *)
Begin ==
    /\ run = "idle"
    /\ lives < MaxLives
    /\ run' = "running"
    /\ lives' = lives + 1
    /\ recorded' = [i \in 1 .. ReportSite |-> Rows(i)]
    /\ order' = RecoverSettleOrder
    /\ calls' = [n \in 1 .. Len(Script) |-> Call(Script[n], 1)]
    /\ UNCHANGED <<journal, ordinals, cursor, parked, due, live, torn, happened, answers,
                   micro>>

(* hold() and pump(): an instance the table does not know goes at once; the   *)
(* others wait until everything before them has come.                         *)
Pumped(p) ==
    LET ready == {m \in 0 .. Len(order) - cursor :
                    \A n \in 1 .. m : order[cursor + n] \in p}
    IN  CHOOSE m \in ready : \A n \in ready : n <= m

Release(inst) ==
    /\ log' = RecordSettled(log, <<inst>>)
    /\ answers' = Append(answers, Answer(inst))

\* Mutant of Hold: no gate.
HoldNothing(inst) == Release(inst) /\ UNCHANGED gate

Hold(inst) ==
    IF inst \notin Elements(order) \/ IndexOf(order, inst) <= cursor
    THEN Release(inst) /\ UNCHANGED gate
    ELSE LET p == parked \cup {inst}
             m == Pumped(p)
             next == SubSeq(order, cursor + 1, cursor + m)
         IN  /\ cursor' = cursor + m
             /\ parked' = p \ Elements(next)
             /\ due' = due \o next
             /\ UNCHANGED <<order, log, answers>>

(* hashMismatch and failRun: the recorded call is another one. *)
Mismatch ==
    /\ run' = "errored"
    /\ NoHost
    /\ UNCHANGED <<journal, lives, happened>>

(* admitAsk: a recorded answer is replayed, a row left running and a new call *)
(* go live.                                                                   *)
AskArrives ==
    /\ run = "running" /\ torn = {}
    /\ calls # <<>> /\ Head(calls).site # ReportSite
    /\ LET c == Head(calls)
           o == ordinals[c.site] + 1
           inst == <<c.site, o>>
           fresh == o > Len(asks[c.site])
       IN  IF ~fresh /\ asks[c.site][o].by # c.branch
           THEN Mismatch
           ELSE /\ ordinals' = [ordinals EXCEPT ![c.site] = o]
                /\ calls' = Tail(calls)
                /\ IF fresh
                   THEN asks' = [asks EXCEPT ![c.site] =
                                    Append(@, [by |-> c.branch, done |-> FALSE])]
                   ELSE UNCHANGED asks
                /\ IF ~fresh /\ asks[c.site][o].done
                   THEN Hold(inst) /\ UNCHANGED live
                   ELSE live' = Append(live, inst) /\ UNCHANGED <<gate, log, answers>>
                /\ UNCHANGED <<reports, run, lives, recorded, torn, happened, micro>>

(* publishReport. *)
ReportArrives ==
    /\ run = "running" /\ torn = {}
    /\ calls # <<>> /\ Head(calls).site = ReportSite
    /\ LET b == Head(calls).branch
           o == ordinals[ReportSite] + 1
       IN  IF o <= Len(reports) /\ reports[o] # b
           THEN Mismatch
           ELSE /\ ordinals' = [ordinals EXCEPT ![ReportSite] = o]
                /\ calls' = Tail(calls)
                /\ reports' = IF o <= Len(reports) THEN reports ELSE Append(reports, b)
                /\ UNCHANGED <<asks, log, run, lives, recorded, gate, live, torn,
                               happened, answers, micro>>

(* flush(): the microtask that delivers what the gate has let go. *)
Flush ==
    /\ run = "running" /\ torn = {}
    /\ due # <<>>
    /\ due' = <<>>
    /\ log' = RecordSettled(log, due)
    /\ answers' = answers \o Answers(due)
    /\ UNCHANGED <<asks, reports, run, lives, ordinals, recorded, order, cursor, parked,
                   live, torn, happened, micro, calls>>

(* A live ask settles: settleOk and settleFailed write the row and then, in   *)
(* a statement of its own, the event.  Unless it is "fast", a turn takes      *)
(* longer than the replay of what is recorded.                                *)
CaughtUp ==
    /\ parked = {} /\ due = <<>>
    /\ \A i \in 1 .. ReportSite : ordinals[i] >= recorded[i]

SettleRow(inst) ==
    /\ run = "running" /\ torn = {}
    /\ inst \in Elements(live)
    /\ CaughtUp \/ "fast" \in Surprises
    /\ happened' = IF CaughtUp THEN happened ELSE happened \cup {"fast"}
    /\ asks' = [asks EXCEPT ![inst[1]][inst[2]].done = TRUE]
    /\ torn' = {inst}
    /\ live' = Without(live, IndexOf(live, inst))
    /\ UNCHANGED <<reports, log, run, lives, ordinals, recorded, gate, sandbox>>

SettleEvent ==
    /\ run = "running"
    /\ \E inst \in torn : Release(inst)
    /\ torn' = {}
    /\ UNCHANGED <<asks, reports, run, lives, ordinals, recorded, gate, live, happened,
                   micro, calls>>

(* The sandbox reads a chunk of answer lines once its microtasks are done;   *)
(* every answer resolves a promise, whose continuation takes Hops more       *)
(* microtasks to make the branch's next call.                                *)
Deliver(n) ==
    /\ run = "running"
    /\ micro = <<>>
    /\ micro' = [j \in 1 .. n |-> [call |-> answers[j], hops |-> Hops[answers[j].branch]]]
    /\ answers' = SubSeq(answers, n + 1, Len(answers))
    /\ UNCHANGED <<journal, run, lives, ordinals, recorded, gate, live, torn, happened,
                   calls>>

Microtask ==
    /\ run = "running"
    /\ micro # <<>>
    /\ LET t == Head(micro)
       IN  IF t.hops > 0
           THEN /\ micro' = Append(Tail(micro), [t EXCEPT !.hops = @ - 1])
                /\ UNCHANGED calls
           ELSE /\ micro' = Tail(micro)
                /\ calls' = Append(calls, Call(t.call.branch, t.call.site + 1))
    /\ UNCHANGED <<journal, run, lives, ordinals, recorded, gate, live, torn, happened,
                   answers>>

-----------------------------------------------------------------------------
(* The host process dies. *)
Crash ==
    /\ run = "running"
    /\ torn = {} \/ "torn" \in Surprises
    /\ happened' = IF torn = {} THEN happened ELSE happened \cup {"torn"}
    /\ run' = "idle"
    /\ NoHost
    /\ UNCHANGED <<journal, lives>>

(* stop: the gate opens (what it lets go is logged already), and every live   *)
(* ask gets a node-settled event "cancelled" while its row stays running.     *)
Stop ==
    /\ "stop" \in Surprises
    /\ run = "running" /\ torn = {}
    /\ run' = "idle"
    /\ log' = RecordSettled(log, live)
    /\ happened' = happened \cup {"stop"}
    /\ NoHost
    /\ UNCHANGED <<asks, reports, lives>>

(* The script has made its last report and returns. *)
Complete ==
    /\ run = "running" /\ torn = {}
    /\ ordinals[ReportSite] = Len(Script)
    /\ run' = "completed"
    /\ NoHost
    /\ UNCHANGED <<journal, lives, happened>>

Next ==
    \/ Begin
    \/ AskArrives
    \/ ReportArrives
    \/ Flush
    \/ \E i \in 1 .. Sites : \E o \in 1 .. Len(asks[i]) : SettleRow(<<i, o>>)
    \/ SettleEvent
    \/ \E n \in 1 .. Len(answers) : Deliver(n)
    \/ Microtask
    \/ Crash
    \/ Stop
    \/ Complete

Spec == Init /\ [][Next]_vars

(* Host and sandbox work through what is in the pipes and the gate.  No live  *)
(* ask has to settle, and no life has to end.                                 *)
Fairness ==
    /\ WF_vars(AskArrives)
    /\ WF_vars(ReportArrives)
    /\ WF_vars(Flush)
    /\ WF_vars(SettleEvent)
    /\ WF_vars(\E n \in 1 .. Len(answers) : Deliver(n))
    /\ WF_vars(Microtask)

FairSpec == Spec /\ Fairness

-----------------------------------------------------------------------------
Calls == [branch : Branches, site : 1 .. ReportSite]

TypeOK ==
    /\ asks \in [1 .. Sites -> Seq([by : Branches, done : BOOLEAN])]
    /\ reports \in Seq(Branches)
    /\ log \in Seq(Instances) /\ Distinct(log)
    /\ run \in {"idle", "running", "completed", "errored"}
    /\ lives \in 0 .. MaxLives
    /\ ordinals \in [1 .. ReportSite -> Nat]
    /\ recorded \in [1 .. ReportSite -> Nat]
    /\ order \in Seq(Instances) /\ cursor \in 0 .. Len(order)
    /\ parked \subseteq Instances /\ due \in Seq(Instances)
    /\ live \in Seq(Instances)
    /\ torn \subseteq Instances /\ Cardinality(torn) <= 1
    /\ happened \subseteq Surprises
    /\ answers \in Seq(Calls) /\ calls \in Seq(Calls)
    /\ micro \in Seq([call : Calls, hops : Nat])

\* A deterministic script never fails its own replay: whatever was recorded
\* before a life ended, the next life makes the same call at every ordinal.
NeverMismatched == run # "errored"

\* So it is when every life ended by a crash between two steps.
ReplayFaithful == happened = {} => NeverMismatched

\* Why it does: the journal's order of settlements explains the journal's order
\* of calls.  Of two calls recorded at a site, the branch of the earlier one
\* settled earlier at the site before.
CallsOf(i) == IF i = ReportSite THEN reports ELSE [o \in 1 .. Len(asks[i]) |-> asks[i][o].by]

SettledAt(b, i) ==
    LET at == {n \in 1 .. Len(log) : log[n][1] = i /\ ByBranch(log[n]) = b}
    IN  IF at = {} THEN 0 ELSE CHOOSE n \in at : TRUE

CallsFollowSettles ==
    happened = {} =>
    \A i \in 2 .. ReportSite :
        LET c == CallsOf(i) IN
        \A m, n \in 1 .. Len(c) : m < n =>
            /\ SettledAt(c[m], i - 1) > 0
            /\ SettledAt(c[m], i - 1) < SettledAt(c[n], i - 1)

\* A call that was recorded is never forgotten, renumbered or given another
\* branch, and a settled one never runs again.
JournalOnlyGrows ==
    [][/\ IsPrefix(reports, reports')
       /\ IsPrefix(log, log')
       /\ \A i \in 1 .. Sites :
            /\ Len(asks[i]) <= Len(asks'[i])
            /\ \A o \in 1 .. Len(asks[i]) :
                 /\ asks'[i][o].by = asks[i][o].by
                 /\ asks[i][o].done => asks'[i][o].done]_vars

\* The gate locks no run: an answer it holds back is let go, although no live
\* ask need ever settle.
GateNeverSticks == (parked # {}) ~> (parked = {})
===============================================================================
