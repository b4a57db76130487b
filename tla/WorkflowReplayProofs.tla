--------------------------- MODULE WorkflowReplayProofs ---------------------------
(***************************************************************************)
(* Why a deterministic script passes its own replay, for any number of     *)
(* branches, sites and lives: the journal's settlements determine the      *)
(* order in which the calls arrive (Arrivals), every life goes through     *)
(* that order, and the rows of a site are its calls in that order.         *)
(***************************************************************************)
EXTENDS WorkflowReplay, WaitingLineLemmas, FiniteSetTheorems, TLAPS

Asked == [branch : Branches, site : 1 .. Sites]

\* The rows there are.
Made == {inst \in (1 .. Sites) \X (Nat \ {0}) : inst[2] <= Len(asks[inst[1]])}
Done(inst) == asks[inst[1]][inst[2]].done

\* The calls of each site that the journal has, in the order of their ordinals.
Journal == [i \in 1 .. ReportSite |-> CallsOf(i)]

\* The call a branch makes when call c of it is answered.
NextCall(c) == Call(c.branch, c.site + 1)

\* What the journal's settlements say about the order of calls: those the script
\* begins with, and one for every settlement.
Total == Len(Script) + Len(log)

Arrivals ==
    [n \in 1 .. Total |->
        IF n <= Len(Script) THEN Call(Script[n], 1)
                            ELSE NextCall(Answer(log[n - Len(Script)]))]

-----------------------------------------------------------------------------
(* The journal. *)

\* The settled rows are those of the log, each once, and the one being written.
SettlesLogged ==
    /\ Distinct(log)
    /\ \A n \in 1 .. Len(log) : Done(log[n])
    /\ \A t \in torn : Done(t) /\ t \notin Elements(log) /\ torn = {t}
    /\ \A inst \in Made : Done(inst) => inst \in Elements(log) \cup torn

\* The rows J are the first K of the arrivals A, each site's in their order.
Recorded(J, A, K) ==
    /\ \A i \in 1 .. ReportSite : \A o \in 1 .. Len(J[i]) :
           \E n \in 1 .. K : A[n] = Call(J[i][o], i)
    /\ \A n \in 1 .. K : \E o \in 1 .. Len(J[A[n].site]) :
           J[A[n].site][o] = A[n].branch
    /\ \A i \in 1 .. ReportSite : \A o, p \in 1 .. Len(J[i]) : \A m, n \in 1 .. K :
           o < p /\ A[m] = Call(J[i][o], i) /\ A[n] = Call(J[i][p], i) => m < n

\* The ordinals ord are those of the first N arrivals.
Numbered(J, A, K, N, ord) ==
    \A i \in 1 .. ReportSite : \A o \in 1 .. Len(J[i]) : \A n \in 1 .. K :
        A[n] = Call(J[i][o], i) => (n <= N <=> o <= ord[i])

-----------------------------------------------------------------------------
(* A life that has taken N calls. *)
Arrived(inst) == inst[2] <= ordinals[inst[1]]

\* The microtasks ms take turns, so a round is on its way: p of them have had
\* theirs and wait at the end with a hop less, h - 1, to go.
InTurn(A, M, ms, p, h) ==
    /\ p < Len(ms) \/ p = 0
    /\ p > 0 => h > 0
    /\ \A j \in 1 .. Len(ms) : ms[j].hops = IF j <= Len(ms) - p THEN h ELSE h - 1
    /\ \A j \in 1 .. Len(ms) :
           NextCall(ms[IF j <= p THEN Len(ms) - p + j ELSE j - p].call) = A[M + j]

\* They make the arrivals after M.
MicroMakes(A, M, ms) == \E p \in 0 .. Len(ms) : \E h \in Nat : InTurn(A, M, ms, p, h)

\* The answers ans lead to the arrivals after M.
LeadTo(A, M, ans) == \A j \in 1 .. Len(ans) : NextCall(ans[j]) = A[M + j]

\* The calls cs are the arrivals after N, then come those of the microtasks ms, then
\* those the answers ans lead to.
PipesCarry(A, N, cs, ms, ans) ==
    /\ \A j \in 1 .. Len(cs) : cs[j] = A[N + j]
    /\ MicroMakes(A, N + Len(cs), ms)
    /\ LeadTo(A, N + Len(cs) + Len(ms), ans)

\* The calls that are on their way, in whatever form.
Underway == Len(calls) + Len(micro) + Len(answers)

\* The gate when this life has let r settlements of the log go.
CaughtUpWith(r) == due = <<>> /\ cursor = Len(order) /\ r = Len(log)

AtGate(r) ==
    /\ r \in 0 .. Len(log)
    /\ Len(order) <= Len(log) /\ \A j \in 1 .. Len(order) : order[j] = log[j]
    /\ \A j \in 1 .. Len(due) : r + j <= Len(log) /\ due[j] = log[r + j]
    /\ \/ r + Len(due) = cursor /\ Len(order) = Len(log)
       \/ CaughtUpWith(r)
    /\ torn # {} => CaughtUpWith(r)
    /\ \A inst \in parked : \E j \in cursor + 1 .. Len(order) : inst = order[j]
    /\ \A j \in 1 .. Len(log) :
           Arrived(log[j]) <=> j \notin cursor + 1 .. Len(order) \/ log[j] \in parked
    /\ \A inst \in torn : Arrived(inst)
    /\ \A j \in 1 .. Len(order) : order[j][2] <= recorded[order[j][1]]

AtWork ==
    /\ Distinct(live)
    /\ \A inst \in Elements(live) : ~Done(inst) /\ Arrived(inst)

Replaying(K, N, r) ==
    /\ Numbered(Journal, Arrivals, K, N, ordinals)
    /\ PipesCarry(Arrivals, N, calls, micro, answers)
    /\ N + Underway = Len(Script) + r
    /\ AtGate(r)
    /\ AtWork

Reset ==
    /\ ordinals = [i \in 1 .. ReportSite |-> 0]
    /\ order = <<>> /\ cursor = 0 /\ parked = {} /\ due = <<>> /\ live = <<>>
    /\ torn = {} /\ answers = <<>> /\ micro = <<>> /\ calls = <<>>

\* Nothing has happened but crashes between two steps.
Faithful(K) ==
    /\ run # "errored"
    /\ SettlesLogged
    /\ Recorded(Journal, Arrivals, K)
    /\ run = "running" => \E N \in 0 .. K : \E r \in 0 .. Len(log) : Replaying(K, N, r)

Kept == \E K \in 0 .. Total : Faithful(K)

Typed ==
    /\ asks \in [1 .. Sites -> Seq([by : Branches, done : BOOLEAN])]
    /\ reports \in Seq(Branches)
    /\ ordinals \in [1 .. ReportSite -> Nat]
    /\ \A i \in 1 .. ReportSite : ordinals[i] <= Rows(i)
    /\ recorded \in [1 .. ReportSite -> Nat]
    /\ cursor \in 0 .. Len(order)
    /\ log \in Seq(Made) /\ order \in Seq(Made) /\ due \in Seq(Made) /\ live \in Seq(Made)
    /\ parked \subseteq Made /\ torn \subseteq Made
    /\ answers \in Seq(Asked) /\ calls \in Seq(Calls)
    /\ micro \in Seq([call : Asked, hops : Nat])
    /\ run = "idle" => Reset

-----------------------------------------------------------------------------
(* What every life leaves in the journal stays there, whatever happens.      *)

\* Rows are only added, and keep the branch they were made by.
RowsGrow ==
    \A i \in 1 .. Sites :
        /\ Len(asks[i]) <= Len(asks'[i])
        /\ \A o \in 1 .. Len(asks[i]) :
             /\ asks'[i][o].by = asks[i][o].by
             /\ asks[i][o].done => asks'[i][o].done

LEMMA SiteFacts ==
    /\ Sites \in Nat /\ ReportSite \in Nat /\ ReportSite \notin 1 .. Sites
    /\ 1 \in 1 .. Sites
    /\ \A i \in 1 .. ReportSite : i \in Int /\ (i # ReportSite => i \in 1 .. Sites)
    /\ \A i \in 1 .. Sites : i \in 1 .. ReportSite /\ i + 1 \in 1 .. ReportSite
BY ReplayAssumption DEF ReportSite

\* Only an instance's first node-settled event is kept.
LEMMA RecordedFirst ==
    ASSUME NEW S, NEW l \in Seq(S), NEW insts \in Seq(S)
    PROVE  /\ RecordSettled(l, insts) \in Seq(S)
           /\ IsPrefix(l, RecordSettled(l, insts))
           /\ Elements(insts) \subseteq Elements(l) => RecordSettled(l, insts) = l
           /\ Elements(insts) \cap Elements(l) = {} => RecordSettled(l, insts) = l \o insts
<1> DEFINE T == Elements(insts) \ Elements(l)
           f == Filtered(insts, T)
<1>1. f \in Seq(S)
  <2>1. f \in Seq({x \in S : x \in T})
    BY FilteredIsSeq
  <2> HIDE DEF f, T
  <2> QED BY <2>1
<1>2. RecordSettled(l, insts) = l \o f
  BY DEF RecordSettled
<1>3. IsPrefix(l, l \o f)
  <2> HIDE DEF f
  <2>1. /\ l \o f \in Seq(S) /\ Len(l) <= Len(l \o f)
        /\ \A i \in 1 .. Len(l) : (l \o f)[i] = l[i]
    BY <1>1
  <2>2. SubSeq(l, 1, Len(l)) = SubSeq(l \o f, 1, Len(l))
    BY <2>1
  <2> QED BY <2>1, <2>2 DEF IsPrefix
<1>4. ASSUME Elements(insts) \subseteq Elements(l) PROVE RecordSettled(l, insts) = l
  <2>1. Elements(insts) \cap T = {}
    BY <1>4
  <2>2. f = <<>>
    BY <2>1, FilteredNone
  <2> HIDE DEF f
  <2> QED BY <1>2, <2>2
<1>5. ASSUME Elements(insts) \cap Elements(l) = {}
      PROVE  RecordSettled(l, insts) = l \o insts
  <2>1. Elements(insts) \subseteq T
    BY <1>5
  <2>2. f = insts
    BY <2>1, FilteredAll
  <2> HIDE DEF f
  <2> QED BY <1>2, <2>2
<1> HIDE DEF f
<1> QED BY <1>1, <1>2, <1>3, <1>4, <1>5

\* pump() moves the cursor over parked entries only.
LEMMA PumpedParked ==
    ASSUME NEW p, cursor \in 0 .. Len(order), Len(order) \in Nat
    PROVE  /\ Pumped(p) \in 0 .. Len(order) - cursor
           /\ \A n \in 1 .. Pumped(p) : order[cursor + n] \in p
<1> DEFINE ready == {m \in 0 .. Len(order) - cursor :
                        \A n \in 1 .. m : order[cursor + n] \in p}
           left == {Len(order) - cursor - m : m \in ready}
<1>1. 0 \in ready /\ ready \subseteq 0 .. Len(order) - cursor
  OBVIOUS
<1>2. \E m \in ready : \A n \in ready : n <= m
  <2>1. left \in SUBSET Nat /\ left # {}
    <3> HIDE DEF ready
    <3> QED BY <1>1
  <2>2. PICK k \in left : \A j \in left : k <= j
    <3> HIDE DEF left
    <3> QED BY <2>1, LeastExists
  <2>3. PICK m \in ready : k = Len(order) - cursor - m
    BY <2>2
  <2>4. \A n \in ready : Len(order) - cursor - n \in left
    OBVIOUS
  <2> HIDE DEF left
  <2>5. \A n \in ready : k <= Len(order) - cursor - n
    BY <2>2, <2>4
  <2> HIDE DEF ready
  <2> QED BY <1>1, <2>3, <2>5
<1>3. Pumped(p) = CHOOSE m \in ready : \A n \in ready : n <= m
  BY DEF Pumped
<1>4. Pumped(p) \in ready
  <2> HIDE DEF ready
  <2> QED BY <1>2, <1>3
<1> QED BY <1>4

Grows == IsPrefix(reports, reports') /\ IsPrefix(log, log') /\ RowsGrow

LEMMA PrefixOfItself ==
    ASSUME NEW S, NEW s \in Seq(S)
    PROVE  IsPrefix(s, s) /\ \A x \in S : IsPrefix(s, Append(s, x))
<1>1. IsPrefix(s, s)
  BY DEF IsPrefix
<1>2. ASSUME NEW x \in S PROVE IsPrefix(s, Append(s, x))
  <2>1. /\ Append(s, x) \in Seq(S) /\ Len(s) <= Len(Append(s, x))
        /\ \A i \in 1 .. Len(s) : Append(s, x)[i] = s[i]
    OBVIOUS
  <2>2. SubSeq(s, 1, Len(s)) = SubSeq(Append(s, x), 1, Len(s))
    BY <2>1
  <2> QED BY <2>1, <2>2 DEF IsPrefix
<1> QED BY <1>1, <1>2

\* A row that is there stays there.
LEMMA MadeStays ==
    ASSUME asks \in [1 .. Sites -> Seq([by : Branches, done : BOOLEAN])],
           asks' \in [1 .. Sites -> Seq([by : Branches, done : BOOLEAN])],
           \A i \in 1 .. Sites : Len(asks[i]) <= Len(asks'[i])
    PROVE  Made \subseteq Made' /\ Seq(Made) \subseteq Seq(Made')
<1>1. \A i \in 1 .. Sites : Len(asks[i]) \in Nat /\ Len(asks'[i]) \in Nat
  OBVIOUS
<1>2. Made \subseteq Made'
  <2> SUFFICES ASSUME NEW i \in 1 .. Sites, NEW o \in Nat \ {0}, o <= Len(asks[i])
               PROVE  o <= Len(asks'[i])
    BY DEF Made
  <2> QED BY <1>1
<1> QED BY <1>2

\* What a row's answer says.
LEMMA AnswerTyped ==
    ASSUME Typed, NEW inst \in Made
    PROVE  /\ Answer(inst) \in Asked
           /\ inst[1] \in 1 .. Sites /\ inst[2] \in 1 .. Len(asks[inst[1]])
           /\ Answer(inst) = [branch |-> asks[inst[1]][inst[2]].by, site |-> inst[1]]
<1>1. /\ inst[1] \in 1 .. Sites /\ inst[2] \in Nat \ {0} /\ inst[2] <= Len(asks[inst[1]])
      /\ asks[inst[1]] \in Seq([by : Branches, done : BOOLEAN])
  BY DEF Typed, Made
<1>2. inst[2] \in 1 .. Len(asks[inst[1]])
  BY <1>1
<1>3. asks[inst[1]][inst[2]].by \in Branches
  <2>1. asks[inst[1]][inst[2]] \in [by : Branches, done : BOOLEAN]
    BY <1>1, <1>2, ElementOfSeq
  <2> QED BY <2>1
<1> QED BY <1>1, <1>2, <1>3 DEF Answer, ByBranch, Call, Asked

LEMMA HoldTyped ==
    ASSUME Typed, NEW inst \in Made, Hold(inst)
    PROVE  /\ order' \in Seq(Made) /\ cursor' \in 0 .. Len(order')
           /\ parked' \subseteq Made /\ due' \in Seq(Made)
           /\ log' \in Seq(Made) /\ IsPrefix(log, log')
           /\ answers' \in Seq(Asked)
<1> USE DEF Typed
<1>1. CASE Release(inst) /\ UNCHANGED gate
  <2>1. <<inst>> \in Seq(Made)
    OBVIOUS
  <2>2. log' \in Seq(Made) /\ IsPrefix(log, log')
    BY <1>1, <2>1, RecordedFirst DEF Release
  <2>3. answers' = Append(answers, Answer(inst)) /\ Answer(inst) \in Asked
    BY <1>1, AnswerTyped DEF Release
  <2>4. answers' \in Seq(Asked)
    BY <2>3
  <2> QED BY <1>1, <2>2, <2>4 DEF gate
<1>2. CASE ~(inst \notin Elements(order) \/ IndexOf(order, inst) <= cursor)
  <2> DEFINE p == parked \cup {inst}
             m == Pumped(p)
             next == SubSeq(order, cursor + 1, cursor + m)
  <2>1. m \in 0 .. Len(order) - cursor /\ Len(order) \in Nat /\ cursor \in 0 .. Len(order)
    BY PumpedParked
  <2>2. /\ cursor' = cursor + m /\ parked' = p \ Elements(next) /\ due' = due \o next
        /\ UNCHANGED <<order, log, answers>>
    BY <1>2 DEF Hold
  <2> HIDE DEF m
  <2>3. next \in Seq(Made)
    BY <2>1
  <2>4. IsPrefix(log, log)
    BY PrefixOfItself
  <2>5. due' \in Seq(Made)
    <3> HIDE DEF next
    <3> QED BY <2>2, <2>3
  <2>6. cursor' \in 0 .. Len(order')
    BY <2>1, <2>2
  <2> HIDE DEF next
  <2> QED BY <2>2, <2>4, <2>5, <2>6
<1> QED BY <1>1, <1>2 DEF Hold

LEMMA RowsTyped ==
    ASSUME asks \in [1 .. Sites -> Seq([by : Branches, done : BOOLEAN])],
           reports \in Seq(Branches)
    PROVE  \A i \in 1 .. ReportSite : Rows(i) \in Nat
<1>1. Len(reports) \in Nat /\ \A i \in 1 .. Sites : Len(asks[i]) \in Nat
  OBVIOUS
<1> QED BY <1>1, SiteFacts DEF Rows

\* Between lives there is the journal and nothing else.
LEMMA ResetTyped ==
    ASSUME Reset, recorded \in [1 .. ReportSite -> Nat],
           asks \in [1 .. Sites -> Seq([by : Branches, done : BOOLEAN])],
           reports \in Seq(Branches), log \in Seq(Made)
    PROVE  Typed
<1>1. \A S : <<>> \in Seq(S) /\ Len(<<>>) = 0
  OBVIOUS
<1>2. /\ ordinals \in [1 .. ReportSite -> Nat] /\ cursor \in 0 .. Len(order)
      /\ order \in Seq(Made) /\ due \in Seq(Made) /\ live \in Seq(Made)
      /\ parked \subseteq Made /\ torn \subseteq Made
      /\ \A i \in 1 .. ReportSite : ordinals[i] = 0
  BY <1>1 DEF Reset
<1>3. /\ answers \in Seq(Asked) /\ calls \in Seq(Calls)
      /\ micro \in Seq([call : Asked, hops : Nat])
  BY <1>1 DEF Reset
<1>4. \A i \in 1 .. ReportSite : ordinals[i] <= Rows(i)
  <2>1. \A i \in 1 .. ReportSite : Rows(i) \in Nat
    BY RowsTyped
  <2> QED BY <1>2, <2>1
<1> QED BY <1>2, <1>3, <1>4 DEF Typed

LEMMA InitTyped == Init => Typed
<1> SUFFICES ASSUME Init PROVE Typed
  OBVIOUS
<1>1. Reset /\ recorded \in [1 .. ReportSite -> Nat]
  BY DEF Init, Reset
<1>2. \A S : <<>> \in Seq(S)
  OBVIOUS
<1>3. /\ asks \in [1 .. Sites -> Seq([by : Branches, done : BOOLEAN])]
      /\ reports \in Seq(Branches) /\ log \in Seq(Made)
  BY <1>2 DEF Init
<1> QED BY <1>1, <1>3, ResetTyped

\* What a life leaves when it ends: the journal.
LEMMA NoHostTyped ==
    ASSUME NoHost, asks' \in [1 .. Sites -> Seq([by : Branches, done : BOOLEAN])],
           reports' \in Seq(Branches), log' \in Seq(Made')
    PROVE  Typed' /\ Reset'
<1>1. Reset' /\ recorded' \in [1 .. ReportSite -> Nat]
  BY DEF NoHost, Reset
<1>2. Typed'
  <2>1. \A S : <<>> \in Seq(S) /\ Len(<<>>) = 0
    OBVIOUS
  <2>2. /\ ordinals' \in [1 .. ReportSite -> Nat] /\ cursor' \in 0 .. Len(order')
        /\ order' \in Seq(Made') /\ due' \in Seq(Made') /\ live' \in Seq(Made')
        /\ parked' \subseteq Made' /\ torn' \subseteq Made'
        /\ \A i \in 1 .. ReportSite : ordinals'[i] = 0
    BY <1>1, <2>1 DEF Reset
  <2>3. /\ answers' \in Seq(Asked) /\ calls' \in Seq(Calls)
        /\ micro' \in Seq([call : Asked, hops : Nat])
    BY <1>1, <2>1 DEF Reset
  <2>4. \A i \in 1 .. ReportSite : Rows(i)' \in Nat
    <3>1. Len(reports') \in Nat /\ \A i \in 1 .. Sites : Len(asks'[i]) \in Nat
      OBVIOUS
    <3> QED BY <3>1, SiteFacts DEF Rows
  <2>5. \A i \in 1 .. ReportSite : ordinals'[i] <= Rows(i)'
    BY <2>2, <2>4
  <2> QED BY <1>1, <2>2, <2>3, <2>5 DEF Typed
<1> QED BY <1>1, <1>2

LEMMA SameRowsGrow ==
    ASSUME Typed, UNCHANGED asks
    PROVE  Made' = Made /\ RowsGrow
<1>1. \A i \in 1 .. Sites : Len(asks[i]) \in Nat
  BY DEF Typed
<1> QED BY <1>1 DEF Made, RowsGrow

LEMMA BeginTyped ==
    ASSUME Typed, Begin
    PROVE  Typed' /\ Grows
<1>1. Made' = Made /\ RowsGrow /\ IsPrefix(log, log') /\ IsPrefix(reports, reports')
  <2>1. UNCHANGED <<asks, log, reports>>
    BY DEF Begin, journal
  <2> QED BY <2>1, SameRowsGrow, PrefixOfItself DEF Typed
<1>2. order' \in Seq(Made)
  <2> DEFINE T == {inst \in Elements(log) : Claimable(inst)}
  <2>1. order' = Filtered(log, T)
    BY DEF Begin, RecoverSettleOrder
  <2> HIDE DEF T
  <2>2. Filtered(log, T) \in Seq({x \in Made : x \in T})
    BY FilteredIsSeq DEF Typed
  <2> QED BY <2>1, <2>2
<1>3. cursor' \in 0 .. Len(order')
  <2>1. cursor' = 0
    BY DEF Begin, Typed, Reset
  <2> QED BY <1>2, <2>1
<1>4. recorded' \in [1 .. ReportSite -> Nat]
  <2>1. \A i \in 1 .. ReportSite : Rows(i) \in Nat
    BY RowsTyped DEF Typed
  <2> QED BY <2>1 DEF Begin
<1>5. calls' \in Seq(Calls)
  <2>1. Len(Script) \in Nat /\ \A n \in 1 .. Len(Script) : Call(Script[n], 1) \in Calls
    BY ReplayAssumption, SiteFacts DEF Call, Calls
  <2> QED BY <2>1 DEF Begin
<1>6. run' # "idle"
  BY DEF Begin
<1>7. UNCHANGED <<asks, reports, log, ordinals, parked, due, live, torn, answers, micro>>
  BY DEF Begin, journal
<1>8. \A i \in 1 .. ReportSite : Rows(i)' = Rows(i)
  BY <1>7 DEF Rows
<1> QED BY <1>1, <1>2, <1>3, <1>4, <1>5, <1>6, <1>7, <1>8 DEF Typed, Grows

\* A row is added at the end of its site's.
LEMMA RowAdded ==
    ASSUME asks \in [1 .. Sites -> Seq([by : Branches, done : BOOLEAN])],
           NEW i \in 1 .. Sites, NEW b \in Branches,
           asks' = [asks EXCEPT ![i] = Append(@, [by |-> b, done |-> FALSE])]
    PROVE  /\ asks' \in [1 .. Sites -> Seq([by : Branches, done : BOOLEAN])]
           /\ RowsGrow
           /\ Len(asks'[i]) = Len(asks[i]) + 1
           /\ asks'[i][Len(asks[i]) + 1] = [by |-> b, done |-> FALSE]
           /\ \A o \in 1 .. Len(asks[i]) : asks'[i][o] = asks[i][o]
           /\ \A j \in 1 .. Sites : j # i => asks'[j] = asks[j]
<1> DEFINE r == [by |-> b, done |-> FALSE]
<1>1. r \in [by : Branches, done : BOOLEAN] /\ asks[i] \in Seq([by : Branches, done : BOOLEAN])
  OBVIOUS
<1> HIDE DEF r
<1>2. asks' = [asks EXCEPT ![i] = Append(asks[i], r)]
  BY DEF r
<1>3. /\ Append(asks[i], r) \in Seq([by : Branches, done : BOOLEAN])
      /\ Len(Append(asks[i], r)) = Len(asks[i]) + 1
      /\ Append(asks[i], r)[Len(asks[i]) + 1] = r
      /\ \A o \in 1 .. Len(asks[i]) : Append(asks[i], r)[o] = asks[i][o]
      /\ Len(asks[i]) \in Nat
  BY <1>1
<1>4. asks'[i] = Append(asks[i], r) /\ \A j \in 1 .. Sites : j # i => asks'[j] = asks[j]
  BY <1>2
<1>5. asks' \in [1 .. Sites -> Seq([by : Branches, done : BOOLEAN])]
  BY <1>2, <1>3
<1>6. RowsGrow
  <2> SUFFICES ASSUME NEW j \in 1 .. Sites
               PROVE  /\ Len(asks[j]) <= Len(asks'[j])
                      /\ \A o \in 1 .. Len(asks[j]) : asks'[j][o] = asks[j][o]
    BY DEF RowsGrow
  <2>1. Len(asks[j]) \in Nat
    OBVIOUS
  <2> QED BY <1>3, <1>4, <2>1
<1> QED BY <1>3, <1>4, <1>5, <1>6 DEF r

LEMMA AskTyped ==
    ASSUME Typed, AskArrives
    PROVE  Typed' /\ Grows
<1> DEFINE c == Head(calls)
           i == c.site
           o == ordinals[i] + 1
           inst == <<i, o>>
           fresh == o > Len(asks[i])
<1>0. /\ asks \in [1 .. Sites -> Seq([by : Branches, done : BOOLEAN])]
      /\ reports \in Seq(Branches) /\ log \in Seq(Made) /\ calls \in Seq(Calls)
      /\ ordinals \in [1 .. ReportSite -> Nat]
  BY DEF Typed
<1>1. c.site \in 1 .. Sites /\ c.branch \in Branches /\ calls # <<>>
  <2>1. c \in Calls /\ c.site # ReportSite /\ calls # <<>>
    <3>1. calls # <<>> /\ c.site # ReportSite
      BY DEF AskArrives
    <3>2. c \in Calls
      BY <1>0, <3>1
    <3> QED BY <3>1, <3>2
  <2> QED BY <2>1, SiteFacts DEF Calls
<1>2. i \in 1 .. Sites /\ i \in 1 .. ReportSite /\ o \in Nat \ {0} /\ Len(asks[i]) \in Nat
  <2> HIDE DEF c
  <2>1. i \in 1 .. Sites /\ i \in 1 .. ReportSite
    BY <1>1, SiteFacts
  <2>2. ordinals[i] \in Nat /\ Len(asks[i]) \in Nat
    BY <1>0, <2>1
  <2> QED BY <2>1, <2>2
<1>3. CASE ~fresh /\ asks[i][o].by # c.branch
  <2>1. NoHost /\ UNCHANGED <<asks, reports, log>>
    BY <1>3 DEF AskArrives, Mismatch, journal
  <2>2. Made' = Made /\ RowsGrow
    BY <2>1, SameRowsGrow
  <2> HIDE DEF c, i, o
  <2> QED BY <1>0, <2>1, <2>2, NoHostTyped, PrefixOfItself DEF Grows
<1>4. CASE ~(~fresh /\ asks[i][o].by # c.branch)
  <2>1. /\ ordinals' = [ordinals EXCEPT ![i] = o]
        /\ calls' = Tail(calls)
        /\ IF fresh THEN asks' = [asks EXCEPT ![i] =
                                    Append(@, [by |-> c.branch, done |-> FALSE])]
                    ELSE UNCHANGED asks
        /\ IF ~fresh /\ asks[i][o].done
           THEN Hold(inst) /\ UNCHANGED live
           ELSE live' = Append(live, inst) /\ UNCHANGED <<gate, log, answers>>
        /\ UNCHANGED <<reports, run, lives, recorded, torn, happened, micro>>
    BY <1>4 DEF AskArrives
  <2>2. run # "idle"
    BY DEF AskArrives
  <2> HIDE DEF c
  <2>3. /\ asks' \in [1 .. Sites -> Seq([by : Branches, done : BOOLEAN])] /\ RowsGrow
        /\ Made \subseteq Made' /\ Seq(Made) \subseteq Seq(Made') /\ inst \in Made'
        /\ ~fresh => inst \in Made
    <3>1. CASE fresh
      <4>1. /\ asks' \in [1 .. Sites -> Seq([by : Branches, done : BOOLEAN])]
            /\ RowsGrow /\ Len(asks'[i]) = Len(asks[i]) + 1
        BY <1>0, <1>1, <1>2, <2>1, <3>1, RowAdded
      <4>2. Made \subseteq Made' /\ Seq(Made) \subseteq Seq(Made')
        BY <1>0, <4>1, MadeStays DEF RowsGrow
      <4>3. o <= Len(asks'[i])
        <5>1. ordinals[i] <= Len(asks[i])
          BY <1>2, SiteFacts DEF Typed, Rows
        <5> QED BY <1>0, <1>2, <4>1, <5>1
      <4> QED BY <1>2, <3>1, <4>1, <4>2, <4>3 DEF Made
    <3>2. CASE ~fresh
      <4>1. UNCHANGED asks /\ Made' = Made /\ RowsGrow
        BY <2>1, <3>2, SameRowsGrow
      <4>2. inst \in Made
        <5> HIDE DEF i, o
        <5> QED BY <1>2, <3>2 DEF Made
      <4> QED BY <1>0, <3>2, <4>1, <4>2
    <3> QED BY <3>1, <3>2
  <2>4. /\ order' \in Seq(Made') /\ cursor' \in 0 .. Len(order')
        /\ parked' \subseteq Made' /\ due' \in Seq(Made') /\ live' \in Seq(Made')
        /\ log' \in Seq(Made') /\ IsPrefix(log, log') /\ answers' \in Seq(Asked)
    <3>1. CASE ~fresh /\ asks[i][o].done
      <4>1. Hold(inst) /\ UNCHANGED live /\ inst \in Made
        BY <2>1, <2>3, <3>1
      <4>2. /\ order' \in Seq(Made) /\ cursor' \in 0 .. Len(order')
            /\ parked' \subseteq Made /\ due' \in Seq(Made)
            /\ log' \in Seq(Made) /\ IsPrefix(log, log')
            /\ answers' \in Seq(Asked)
        <5> HIDE DEF inst
        <5> QED BY <4>1, HoldTyped
      <4>3. live' \in Seq(Made)
        BY <4>1 DEF Typed
      <4> QED BY <2>3, <4>2, <4>3
    <3>2. CASE ~(~fresh /\ asks[i][o].done)
      <4>1. live' = Append(live, inst) /\ UNCHANGED <<gate, log, answers>>
        BY <2>1, <3>2
      <4>2. live \in Seq(Made')
        BY <2>3 DEF Typed
      <4>3. live' \in Seq(Made')
        <5> HIDE DEF inst
        <5> QED BY <2>3, <4>1, <4>2
      <4>4. IsPrefix(log, log')
        BY <1>0, <4>1, PrefixOfItself
      <4> QED BY <2>3, <4>1, <4>3, <4>4 DEF Typed, gate
    <3> QED BY <3>1, <3>2
  <2>5. calls' \in Seq(Calls)
    BY <1>0, <1>1, <2>1
  <2>6. /\ ordinals' \in [1 .. ReportSite -> Nat]
        /\ \A j \in 1 .. ReportSite : ordinals'[j] <= Rows(j)'
    <3>1. ordinals' \in [1 .. ReportSite -> Nat]
      BY <1>0, <1>2, <2>1
    <3>2. o <= Len(asks'[i])
      BY <2>3 DEF Made
    <3>3. \A j \in 1 .. ReportSite : /\ Rows(j) \in Nat /\ Rows(j)' \in Nat
                                     /\ Rows(j) <= Rows(j)'
      <4>1. /\ Len(reports') = Len(reports) /\ Len(reports) \in Nat
            /\ \A j \in 1 .. Sites : /\ Len(asks[j]) \in Nat /\ Len(asks'[j]) \in Nat
                                     /\ Len(asks[j]) <= Len(asks'[j])
        BY <1>0, <2>1, <2>3 DEF RowsGrow
      <4> QED BY <4>1, SiteFacts DEF Rows
    <3>4. \A j \in 1 .. ReportSite : ordinals[j] <= Rows(j) /\ ordinals[j] \in Nat
      BY <1>0 DEF Typed
    <3> HIDE DEF i, o
    <3>5. ordinals'[i] = o /\ \A j \in 1 .. ReportSite : j # i => ordinals'[j] = ordinals[j]
      BY <1>0, <1>2, <2>1
    <3>7. \A j \in 1 .. Sites : Rows(j)' = Len(asks'[j])
      BY SiteFacts DEF Rows
    <3>8. \A j \in 1 .. ReportSite : ordinals'[j] <= Rows(j)'
      BY <1>2, <3>2, <3>3, <3>4, <3>5, <3>7
    <3> QED BY <3>1, <3>8
  <2>7. /\ reports' \in Seq(Branches) /\ IsPrefix(reports, reports')
        /\ recorded' \in [1 .. ReportSite -> Nat]
        /\ torn' \subseteq Made' /\ micro' \in Seq([call : Asked, hops : Nat])
        /\ run' # "idle"
    <3>1. IsPrefix(reports, reports)
      BY <1>0, PrefixOfItself
    <3> QED BY <2>1, <2>2, <2>3, <3>1 DEF Typed
  <2> HIDE DEF i, o, inst, fresh
  <2> QED BY <2>3, <2>4, <2>5, <2>6, <2>7 DEF Typed, Grows
<1> QED BY <1>3, <1>4

LEMMA ReportTyped ==
    ASSUME Typed, ReportArrives
    PROVE  Typed' /\ Grows
<1> DEFINE b == Head(calls).branch
           o == ordinals[ReportSite] + 1
<1>0. /\ asks \in [1 .. Sites -> Seq([by : Branches, done : BOOLEAN])]
      /\ reports \in Seq(Branches) /\ log \in Seq(Made) /\ calls \in Seq(Calls)
      /\ ordinals \in [1 .. ReportSite -> Nat]
      /\ \A i \in 1 .. ReportSite : ordinals[i] <= Rows(i)
      /\ UNCHANGED <<asks, log>> /\ run # "idle"
  BY DEF Typed, ReportArrives, Mismatch, journal
<1>1. b \in Branches /\ calls # <<>>
  <2>1. Head(calls) \in Calls
    BY <1>0 DEF ReportArrives
  <2> QED BY <2>1 DEF Calls, ReportArrives
<1>2. Made' = Made /\ RowsGrow /\ IsPrefix(log, log') /\ ReportSite \in 1 .. ReportSite
  BY <1>0, SameRowsGrow, PrefixOfItself, SiteFacts DEF ReportSite
<1> HIDE DEF b
<1>3. CASE o <= Len(reports) /\ reports[o] # b
  <2>1. NoHost /\ UNCHANGED reports
    BY <1>3 DEF ReportArrives, Mismatch, journal, b
  <2> QED BY <1>0, <1>2, <2>1, NoHostTyped, PrefixOfItself DEF Grows
<1>4. CASE ~(o <= Len(reports) /\ reports[o] # b)
  <2>1. /\ ordinals' = [ordinals EXCEPT ![ReportSite] = o]
        /\ calls' = Tail(calls)
        /\ reports' = IF o <= Len(reports) THEN reports ELSE Append(reports, b)
        /\ UNCHANGED <<run, recorded, gate, live, torn, answers, micro>>
    BY <1>4 DEF ReportArrives, b
  <2>2. /\ reports' \in Seq(Branches) /\ IsPrefix(reports, reports')
        /\ Len(reports) <= Len(reports') /\ o <= Len(reports')
        /\ Len(reports) \in Nat /\ Len(reports') \in Nat /\ o \in Nat
    <3>1. Len(reports) \in Nat /\ ordinals[ReportSite] \in Nat
          /\ ordinals[ReportSite] <= Len(reports)
      BY <1>0, <1>2 DEF Rows
    <3>2. CASE o <= Len(reports)
      BY <1>0, <2>1, <3>1, <3>2, PrefixOfItself
    <3>3. CASE ~(o <= Len(reports))
      <4>1. reports' = Append(reports, b)
        BY <2>1, <3>3
      <4>2. reports' \in Seq(Branches) /\ Len(reports') = Len(reports) + 1
        BY <1>0, <1>1, <4>1
      <4>3. IsPrefix(reports, reports')
        BY <1>0, <1>1, <4>1, PrefixOfItself
      <4> QED BY <3>1, <4>2, <4>3
    <3> QED BY <3>2, <3>3
  <2>3. /\ ordinals' \in [1 .. ReportSite -> Nat]
        /\ \A i \in 1 .. ReportSite : ordinals'[i] <= Rows(i)'
    <3>1. /\ \A i \in 1 .. ReportSite : i # ReportSite => Rows(i)' = Rows(i)
          /\ Rows(ReportSite)' = Len(reports')
      BY <1>0 DEF Rows
    <3>2. /\ ordinals'[ReportSite] = o
          /\ \A i \in 1 .. ReportSite : i # ReportSite => ordinals'[i] = ordinals[i]
      BY <1>0, <1>2, <2>1
    <3>3. ordinals' \in [1 .. ReportSite -> Nat]
      BY <1>0, <2>1, <2>2
    <3> QED BY <1>0, <2>2, <3>1, <3>2, <3>3
  <2>4. calls' \in Seq(Calls)
    BY <1>0, <1>1, <2>1
  <2>5. /\ recorded' \in [1 .. ReportSite -> Nat] /\ cursor' \in 0 .. Len(order')
        /\ order' \in Seq(Made) /\ due' \in Seq(Made) /\ live' \in Seq(Made)
        /\ parked' \subseteq Made /\ torn' \subseteq Made /\ log' \in Seq(Made)
        /\ answers' \in Seq(Asked) /\ micro' \in Seq([call : Asked, hops : Nat])
    BY <1>0, <2>1 DEF Typed, gate
  <2> HIDE DEF o
  <2> QED BY <1>0, <1>2, <2>1, <2>2, <2>3, <2>4, <2>5 DEF Typed, Grows
<1> QED BY <1>3, <1>4

LEMMA FlushTyped ==
    ASSUME Typed, Flush
    PROVE  Typed' /\ Grows
<1>1. /\ due' = <<>> /\ log' = RecordSettled(log, due)
      /\ answers' = answers \o Answers(due)
      /\ UNCHANGED <<asks, reports, run, ordinals, recorded, order, cursor, parked,
                     live, torn, micro, calls>>
      /\ run # "idle"
  BY DEF Flush
<1>2. Made' = Made /\ RowsGrow /\ IsPrefix(reports, reports')
      /\ \A i \in 1 .. ReportSite : Rows(i)' = Rows(i)
  BY <1>1, SameRowsGrow, PrefixOfItself DEF Typed, Rows
<1>3. log' \in Seq(Made) /\ IsPrefix(log, log')
  BY <1>1, RecordedFirst DEF Typed
<1>4. answers' \in Seq(Asked)
  <2>1. Len(due) \in Nat /\ \A n \in 1 .. Len(due) : due[n] \in Made
    BY DEF Typed
  <2>2. \A n \in 1 .. Len(due) : Answer(due[n]) \in Asked
    BY <2>1, AnswerTyped
  <2>3. Answers(due) \in Seq(Asked)
    BY <2>1, <2>2 DEF Answers
  <2>4. answers \in Seq(Asked)
    BY DEF Typed
  <2> QED BY <1>1, <2>3, <2>4
<1>5. due' \in Seq(Made)
  BY <1>1
<1> QED BY <1>1, <1>2, <1>3, <1>4, <1>5 DEF Typed, Grows

LEMMA SettleRowTyped ==
    ASSUME Typed, NEW i \in 1 .. Sites, NEW o \in 1 .. Len(asks[i]), SettleRow(<<i, o>>)
    PROVE  Typed' /\ Grows
<1> DEFINE inst == <<i, o>>
           R == [by : Branches, done : BOOLEAN]
<1>1. /\ inst \in Elements(live)
      /\ asks' = [asks EXCEPT ![i] = [asks[i] EXCEPT ![o] = [@ EXCEPT !.done = TRUE]]]
      /\ torn' = {inst} /\ live' = Without(live, IndexOf(live, inst))
      /\ UNCHANGED <<reports, log, run, ordinals, recorded, gate, sandbox>>
      /\ run # "idle"
  BY DEF SettleRow
<1>2. /\ asks \in [1 .. Sites -> Seq(R)] /\ asks[i] \in Seq(R) /\ Len(asks[i]) \in Nat
      /\ \A p \in 1 .. Len(asks[i]) : asks[i][p] \in R
  <2>1. asks \in [1 .. Sites -> Seq(R)]
    BY DEF Typed
  <2> HIDE DEF R
  <2> QED BY <2>1
<1> DEFINE row == [asks[i][o] EXCEPT !.done = TRUE]
           new == [asks[i] EXCEPT ![o] = row]
<1>3. row \in R /\ row.by = asks[i][o].by /\ row.done
  BY <1>2
<1>4. asks' = [asks EXCEPT ![i] = new]
  BY <1>1
<1> HIDE DEF row, R
<1>5. /\ new \in Seq(R) /\ Len(new) = Len(asks[i]) /\ new[o] = row
      /\ \A p \in 1 .. Len(asks[i]) : p # o => new[p] = asks[i][p]
  BY <1>2, <1>3
<1> HIDE DEF new
<1>6. /\ asks' \in [1 .. Sites -> Seq(R)]
      /\ asks'[i] = new /\ \A j \in 1 .. Sites : j # i => asks'[j] = asks[j]
      /\ \A j \in 1 .. Sites : Len(asks'[j]) = Len(asks[j]) /\ Len(asks[j]) \in Nat
  BY <1>2, <1>4, <1>5
<1>7. RowsGrow
  BY <1>2, <1>3, <1>5, <1>6 DEF RowsGrow
<1>8. Made' = Made
  BY <1>6 DEF Made
<1>9. \A j \in 1 .. ReportSite : Rows(j)' = Rows(j)
  BY <1>1, <1>6, SiteFacts DEF Rows
<1>10. inst \in Made
  <2>1. i \in 1 .. Sites /\ o \in Nat \ {0} /\ o <= Len(asks[i])
    BY <1>2
  <2> QED BY <2>1 DEF Made
<1>11. live' \in Seq(Made)
  <2>1. live \in Seq(Made)
    BY DEF Typed
  <2>2. IndexOf(live, inst) \in DOMAIN live
    <3> HIDE DEF inst
    <3> QED BY <1>1, <2>1, IndexOfPlace
  <2> HIDE DEF inst
  <2> QED BY <1>1, <2>1, <2>2, WithoutIsSeq
<1>12. IsPrefix(reports, reports') /\ IsPrefix(log, log')
  BY <1>1, PrefixOfItself DEF Typed
<1> HIDE DEF inst
<1>13. torn' \subseteq Made
  BY <1>1, <1>10
<1> QED BY <1>1, <1>6, <1>7, <1>8, <1>9, <1>11, <1>12, <1>13
        DEF Typed, Grows, gate, sandbox, R

LEMMA SettleEventTyped ==
    ASSUME Typed, SettleEvent
    PROVE  Typed' /\ Grows
<1>1. PICK inst \in torn : Release(inst)
  BY DEF SettleEvent
<1>2. /\ torn' = {} /\ run # "idle"
      /\ log' = RecordSettled(log, <<inst>>) /\ answers' = Append(answers, Answer(inst))
      /\ UNCHANGED <<asks, reports, run, ordinals, recorded, gate, live, micro, calls>>
  BY <1>1 DEF SettleEvent, Release
<1>3. inst \in Made /\ log \in Seq(Made) /\ answers \in Seq(Asked)
  BY <1>1 DEF Typed
<1>4. Made' = Made /\ RowsGrow /\ IsPrefix(reports, reports')
      /\ \A i \in 1 .. ReportSite : Rows(i)' = Rows(i)
  BY <1>2, SameRowsGrow, PrefixOfItself DEF Typed, Rows
<1>5. log' \in Seq(Made) /\ IsPrefix(log, log')
  <2>1. <<inst>> \in Seq(Made)
    BY <1>3
  <2> QED BY <1>2, <1>3, <2>1, RecordedFirst
<1>6. answers' \in Seq(Asked)
  <2>1. Answer(inst) \in Asked
    BY <1>3, AnswerTyped
  <2> QED BY <1>2, <1>3, <2>1
<1> QED BY <1>2, <1>4, <1>5, <1>6 DEF Typed, Grows, gate

LEMMA DeliverTyped ==
    ASSUME Typed, NEW n \in 1 .. Len(answers), Deliver(n)
    PROVE  Typed' /\ Grows
<1>1. /\ micro' = [j \in 1 .. n |->
                      [call |-> answers[j], hops |-> Hops[answers[j].branch]]]
      /\ answers' = SubSeq(answers, n + 1, Len(answers))
      /\ UNCHANGED <<asks, reports, log, run, ordinals, recorded, gate, live, torn, calls>>
      /\ run # "idle"
  BY DEF Deliver, journal
<1>2. answers \in Seq(Asked) /\ Len(answers) \in Nat /\ n \in Nat
      /\ \A j \in 1 .. n : answers[j] \in Asked
  <2>1. answers \in Seq(Asked)
    BY DEF Typed
  <2> QED BY <2>1
<1>3. \A j \in 1 .. n : Hops[answers[j].branch] \in Nat
  BY <1>2, ReplayAssumption DEF Asked
<1>4. micro' \in Seq([call : Asked, hops : Nat])
  <2> DEFINE R == [call : Asked, hops : Nat]
             t(j) == [call |-> answers[j], hops |-> Hops[answers[j].branch]]
  <2>1. \A j \in 1 .. n : t(j) \in R
    BY <1>2, <1>3
  <2>2. micro' = [j \in 1 .. n |-> t(j)]
    BY <1>1
  <2> HIDE DEF R, t
  <2>3. micro' \in Seq(R)
    BY <1>2, <2>1, <2>2
  <2> QED BY <2>3 DEF R
<1>5. answers' \in Seq(Asked)
  BY <1>1, <1>2
<1>6. Made' = Made /\ RowsGrow /\ IsPrefix(reports, reports') /\ IsPrefix(log, log')
      /\ \A i \in 1 .. ReportSite : Rows(i)' = Rows(i)
  BY <1>1, SameRowsGrow, PrefixOfItself DEF Typed, Rows
<1> QED BY <1>1, <1>4, <1>5, <1>6 DEF Typed, Grows, gate

LEMMA MicrotaskTyped ==
    ASSUME Typed, Microtask
    PROVE  Typed' /\ Grows
<1> DEFINE R == [call : Asked, hops : Nat]
           t == Head(micro)
<1>1. /\ IF t.hops > 0
         THEN /\ micro' = Append(Tail(micro), [t EXCEPT !.hops = @ - 1])
              /\ UNCHANGED calls
         ELSE /\ micro' = Tail(micro)
              /\ calls' = Append(calls, Call(t.call.branch, t.call.site + 1))
      /\ UNCHANGED <<asks, reports, log, run, ordinals, recorded, gate, live, torn, answers>>
      /\ run # "idle" /\ micro # <<>>
  BY DEF Microtask, journal
<1>2. micro \in Seq(R) /\ calls \in Seq(Calls)
  BY DEF Typed
<1>3. t \in R /\ Tail(micro) \in Seq(R)
  <2> HIDE DEF R
  <2> QED BY <1>1, <1>2
<1> HIDE DEF t
<1>4. t.call \in Asked /\ t.hops \in Nat
  BY <1>3
<1>5. t.hops > 0 => [t EXCEPT !.hops = @ - 1] \in R
  BY <1>3, <1>4, SMTT(30)
<1>6. Call(t.call.branch, t.call.site + 1) \in Calls
  BY <1>4, SiteFacts DEF Asked, Call, Calls
<1>7. micro' \in Seq(R) /\ calls' \in Seq(Calls)
  <2> DEFINE u == [t EXCEPT !.hops = @ - 1]
             d == Call(t.call.branch, t.call.site + 1)
  <2>1. IF t.hops > 0 THEN micro' = Append(Tail(micro), u) /\ calls' = calls
                      ELSE micro' = Tail(micro) /\ calls' = Append(calls, d)
    BY <1>1
  <2>2. t.hops > 0 => u \in R
    BY <1>5
  <2>3. d \in Calls
    BY <1>6
  <2> HIDE DEF R, u, d
  <2>4. CASE t.hops > 0
    BY <1>2, <1>3, <2>1, <2>2, <2>4
  <2>5. CASE ~(t.hops > 0)
    <3>1. micro' = Tail(micro) /\ calls' = Append(calls, d)
      BY <2>1, <2>5
    <3>2. Append(calls, d) \in Seq(Calls)
      BY <1>2, <2>3
    <3> QED BY <1>3, <3>1, <3>2
  <2> QED BY <2>4, <2>5
<1>8. Made' = Made /\ RowsGrow /\ IsPrefix(reports, reports') /\ IsPrefix(log, log')
      /\ \A i \in 1 .. ReportSite : Rows(i)' = Rows(i)
  BY <1>1, SameRowsGrow, PrefixOfItself DEF Typed, Rows
<1> QED BY <1>1, <1>7, <1>8 DEF Typed, Grows, gate

LEMMA LifeEndsTyped ==
    ASSUME Typed, Crash \/ Stop \/ Complete
    PROVE  Typed' /\ Grows
<1>1. /\ NoHost /\ UNCHANGED <<asks, reports>>
      /\ UNCHANGED log \/ log' = RecordSettled(log, live)
  BY DEF Crash, Stop, Complete, journal
<1>2. Made' = Made /\ RowsGrow /\ IsPrefix(reports, reports')
  BY <1>1, SameRowsGrow, PrefixOfItself DEF Typed
<1>3. log' \in Seq(Made) /\ IsPrefix(log, log')
  <2>1. log \in Seq(Made) /\ live \in Seq(Made)
    BY DEF Typed
  <2>2. IsPrefix(log, log)
    BY <2>1, PrefixOfItself
  <2>3. /\ RecordSettled(log, live) \in Seq(Made)
        /\ IsPrefix(log, RecordSettled(log, live))
    BY <2>1, RecordedFirst
  <2> QED BY <1>1, <2>1, <2>2, <2>3
<1>4. /\ asks' \in [1 .. Sites -> Seq([by : Branches, done : BOOLEAN])]
      /\ reports' \in Seq(Branches)
  BY <1>1 DEF Typed
<1> QED BY <1>1, <1>2, <1>3, <1>4, NoHostTyped DEF Grows

LEMMA StutterTyped ==
    ASSUME Typed, UNCHANGED vars
    PROVE  Typed' /\ Grows
<1>1. UNCHANGED <<asks, reports, log, run, ordinals, recorded, order, cursor, parked, due,
                  live, torn, answers, micro, calls>>
  BY DEF vars, journal, gate, sandbox
<1>2. Made' = Made /\ RowsGrow /\ IsPrefix(reports, reports') /\ IsPrefix(log, log')
      /\ \A i \in 1 .. ReportSite : Rows(i)' = Rows(i)
  BY <1>1, SameRowsGrow, PrefixOfItself DEF Typed, Rows
<1>3. Reset' = Reset
  BY <1>1 DEF Reset
<1> QED BY <1>1, <1>2, <1>3 DEF Typed, Grows

LEMMA NextTyped == Typed /\ [Next]_vars => Typed' /\ Grows
<1> SUFFICES ASSUME Typed, [Next]_vars PROVE Typed' /\ Grows
  OBVIOUS
<1>1. CASE UNCHANGED vars
  BY <1>1, StutterTyped
<1>2. CASE Begin
  BY <1>2, BeginTyped
<1>3. CASE AskArrives
  BY <1>3, AskTyped
<1>4. CASE ReportArrives
  BY <1>4, ReportTyped
<1>5. CASE Flush
  BY <1>5, FlushTyped
<1>6. CASE \E i \in 1 .. Sites : \E o \in 1 .. Len(asks[i]) : SettleRow(<<i, o>>)
  BY <1>6, SettleRowTyped
<1>7. CASE SettleEvent
  BY <1>7, SettleEventTyped
<1>8. CASE \E n \in 1 .. Len(answers) : Deliver(n)
  BY <1>8, DeliverTyped
<1>9. CASE Microtask
  BY <1>9, MicrotaskTyped
<1>10. CASE Crash \/ Stop \/ Complete
  BY <1>10, LifeEndsTyped
<1> QED BY <1>1, <1>2, <1>3, <1>4, <1>5, <1>6, <1>7, <1>8, <1>9, <1>10 DEF Next

LEMMA AlwaysTyped == Spec => []Typed
<1>1. Typed /\ [Next]_vars => Typed'
  BY NextTyped
<1> QED BY <1>1, InitTyped, PTL DEF Spec

\* Whatever ends a life, and whatever the script does: a recorded call is never
\* forgotten, renumbered or given another branch, a settled one stays settled, and
\* the log of settlements is only added to (putNode, appendEvent).
THEOREM JournalKept == Spec => JournalOnlyGrows
<1>1. Typed /\ [Next]_vars =>
        [/\ IsPrefix(reports, reports')
         /\ IsPrefix(log, log')
         /\ \A i \in 1 .. Sites :
              /\ Len(asks[i]) <= Len(asks'[i])
              /\ \A o \in 1 .. Len(asks[i]) :
                   /\ asks'[i][o].by = asks[i][o].by
                   /\ asks[i][o].done => asks'[i][o].done]_vars
  BY NextTyped DEF Grows, RowsGrow
<1> QED BY <1>1, AlwaysTyped, PTL DEF Spec, JournalOnlyGrows

-----------------------------------------------------------------------------
(* How rows follow arrivals. *)

\* The rows and the calls of which they are made, no call twice.
RowsAndCalls(J, A, T) ==
    /\ T \in Nat
    /\ J \in [1 .. ReportSite -> Seq(Branches)]
    /\ \A n \in 1 .. T : A[n] \in Calls
    /\ \A m, n \in 1 .. T : A[m] = A[n] => m = n

LEMMA CallParts ==
    \A b, c, i, j : /\ Call(b, i).branch = b /\ Call(b, i).site = i
                    /\ Call(b, i) = Call(c, j) => b = c /\ i = j
BY DEF Call

LEMMA CallIs ==
    ASSUME NEW c \in Calls
    PROVE  c = Call(c.branch, c.site) /\ c.branch \in Branches /\ c.site \in 1 .. ReportSite
BY DEF Calls, Call

\* No branch has two rows at a site.
LEMMA RowsDiffer ==
    ASSUME NEW J \in [1 .. ReportSite -> Seq(Branches)], NEW A, NEW K \in Nat,
           Recorded(J, A, K), NEW i \in 1 .. ReportSite, NEW o \in 1 .. Len(J[i]), NEW p \in 1 .. Len(J[i]),
           J[i][o] = J[i][p]
    PROVE  o = p
<1>1. Len(J[i]) \in Nat
  OBVIOUS
<1>2. PICK n \in 1 .. K : A[n] = Call(J[i][o], i)
  BY DEF Recorded
<1>3. n \in Nat /\ A[n] = Call(J[i][p], i)
  BY <1>2
<1>4. ~(o < p) /\ ~(p < o)
  BY <1>2, <1>3 DEF Recorded
<1> QED BY <1>1, <1>4

\* A call that has a row has the next one of its site.
LEMMA NextIsRecorded ==
    ASSUME NEW J, NEW A, NEW T, RowsAndCalls(J, A, T), NEW K \in 0 .. T, Recorded(J, A, K),
           NEW N \in 0 .. K - 1, NEW ord \in [1 .. ReportSite -> Nat],
           Numbered(J, A, K, N, ord), NEW c \in Calls, A[N + 1] = c
    PROVE  LET o == ord[c.site] + 1
           IN  /\ o \in 1 .. Len(J[c.site])
               /\ J[c.site][o] = c.branch
               /\ Numbered(J, A, K, N + 1, [ord EXCEPT ![c.site] = o])
<1> DEFINE i == c.site
           o == ord[i] + 1
           new == [ord EXCEPT ![i] = o]
<1>1. /\ i \in 1 .. ReportSite /\ c = Call(c.branch, i) /\ N + 1 \in 1 .. K
      /\ ord[i] \in Nat /\ Len(J[i]) \in Nat
  BY CallIs DEF RowsAndCalls
<1>2. PICK q \in 1 .. Len(J[i]) : J[i][q] = c.branch
  BY <1>1 DEF Recorded
<1>3. ~(q <= ord[i])
  <2>1. A[N + 1] = Call(J[i][q], i)
    BY <1>1, <1>2
  <2>2. N + 1 <= N <=> q <= ord[i]
    BY <1>1, <2>1 DEF Numbered
  <2> QED BY <2>2
<1>4. q = o
  <2> SUFFICES ASSUME q # o PROVE FALSE
    OBVIOUS
  <2>1. o \in 1 .. Len(J[i]) /\ o < q
    BY <1>1, <1>3
  <2>2. PICK m \in 1 .. K : A[m] = Call(J[i][o], i)
    BY <1>1, <2>1 DEF Recorded
  <2>3. m < N + 1
    <3>1. A[N + 1] = Call(J[i][q], i)
      BY <1>1, <1>2
    <3> HIDE DEF i, o
    <3> QED BY <1>1, <1>2, <2>1, <2>2, <3>1 DEF Recorded
  <2>4. m <= N <=> o <= ord[i]
    BY <1>1, <2>1, <2>2 DEF Numbered
  <2> QED BY <1>1, <2>2, <2>3, <2>4
<1>5. Numbered(J, A, K, N + 1, new)
  <2> SUFFICES ASSUME NEW j \in 1 .. ReportSite, NEW p \in 1 .. Len(J[j]), NEW n \in 1 .. K,
                      A[n] = Call(J[j][p], j)
               PROVE  n <= N + 1 <=> p <= new[j]
    BY DEF Numbered
  <2>1. n <= N <=> p <= ord[j]
    BY DEF Numbered
  <2>2. /\ ord[j] \in Nat /\ Len(J[j]) \in Nat /\ j \in Nat /\ p \in Nat /\ n \in Nat
        /\ new[j] = IF j = i THEN o ELSE ord[j]
    BY <1>1, SMTT(30) DEF RowsAndCalls
  <2>3. n = N + 1 <=> j = i /\ p = o
    <3>1. ASSUME n = N + 1 PROVE j = i /\ p = o
      <4>1. j = i /\ J[i][p] = J[i][o]
        BY <1>1, <1>2, <1>4, <3>1, CallParts, SMTT(30)
      <4>2. J \in [1 .. ReportSite -> Seq(Branches)] /\ K \in Nat
        BY DEF RowsAndCalls
      <4>3. i \in 1 .. ReportSite /\ o \in 1 .. Len(J[i]) /\ p \in 1 .. Len(J[i])
        BY <1>1, <1>2, <1>4, <4>1
      <4> HIDE DEF i, o
      <4>4. p = o
        BY <4>1, <4>2, <4>3, RowsDiffer
      <4> QED BY <4>1, <4>4
    <3>2. ASSUME j = i, p = o PROVE n = N + 1
      <4>1. A[n] = A[N + 1]
        BY <1>1, <1>2, <1>4, <3>2
      <4>2. n \in 1 .. T /\ N + 1 \in 1 .. T
        BY DEF RowsAndCalls
      <4> QED BY <4>1, <4>2 DEF RowsAndCalls
    <3> QED BY <3>1, <3>2
  <2> HIDE DEF new
  <2> QED BY <1>1, <2>1, <2>2, <2>3
<1> QED BY <1>2, <1>4, <1>5

\* A call that has none makes the next one.
LEMMA NextIsNew ==
    ASSUME NEW J, NEW A, NEW T, RowsAndCalls(J, A, T), NEW K \in 0 .. T - 1, Recorded(J, A, K),
           NEW ord \in [1 .. ReportSite -> Nat], \A i \in 1 .. ReportSite : ord[i] <= Len(J[i]),
           Numbered(J, A, K, K, ord), NEW c \in Calls, A[K + 1] = c
    PROVE  LET o == ord[c.site] + 1
               new == [J EXCEPT ![c.site] = Append(@, c.branch)]
           IN  /\ o = Len(J[c.site]) + 1
               /\ Recorded(new, A, K + 1)
               /\ Numbered(new, A, K + 1, K + 1, [ord EXCEPT ![c.site] = o])
<1> DEFINE i == c.site
           o == ord[i] + 1
           new == [J EXCEPT ![i] = Append(@, c.branch)]
           num == [ord EXCEPT ![i] = o]
<1>1. /\ i \in 1 .. ReportSite /\ c = Call(c.branch, i) /\ c.branch \in Branches
      /\ K + 1 \in 1 .. T /\ K \in 0 .. T /\ T \in Nat
      /\ \A j \in 1 .. ReportSite : ord[j] \in Nat /\ Len(J[j]) \in Nat /\ J[j] \in Seq(Branches)
  BY CallIs DEF RowsAndCalls
<1>2. \A j \in 1 .. ReportSite : ord[j] = Len(J[j])
  <2> SUFFICES ASSUME NEW j \in 1 .. ReportSite, ord[j] < Len(J[j]) PROVE FALSE
    BY <1>1
  <2>1. Len(J[j]) \in 1 .. Len(J[j])
    BY <1>1
  <2>2. PICK n \in 1 .. K : A[n] = Call(J[j][Len(J[j])], j)
    BY <2>1 DEF Recorded
  <2>3. n <= K <=> Len(J[j]) <= ord[j]
    BY <2>1, <2>2 DEF Numbered
  <2> QED BY <1>1, <2>2, <2>3
<1>3. /\ new \in [1 .. ReportSite -> Seq(Branches)]
      /\ \A j \in 1 .. ReportSite : j # i => new[j] = J[j]
      /\ Len(new[i]) = o /\ new[i][o] = c.branch
      /\ \A p \in 1 .. Len(J[i]) : new[i][p] = J[i][p]
      /\ o = Len(J[i]) + 1 /\ o \in 1 .. o
  <2>1. new \in [1 .. ReportSite -> Seq(Branches)] /\ new[i] = Append(J[i], c.branch)
        /\ \A j \in 1 .. ReportSite : j # i => new[j] = J[j]
    <3>1. Append(J[i], c.branch) \in Seq(Branches) /\ J \in [1 .. ReportSite -> Seq(Branches)]
      BY <1>1 DEF RowsAndCalls
    <3> QED BY <1>1, <3>1
  <2>2. o = Len(J[i]) + 1
    BY <1>1, <1>2
  <2> HIDE DEF new, o
  <2> QED BY <1>1, <2>1, <2>2
<1> HIDE DEF new
\* The rows of the calls that came before, and the new one.
<1>4. \A j \in 1 .. ReportSite : \A p \in 1 .. Len(new[j]) :
          \/ p \in 1 .. Len(J[j]) /\ new[j][p] = J[j][p]
          \/ j = i /\ p = o /\ Call(new[j][p], j) = A[K + 1]
  <2> TAKE j \in 1 .. ReportSite
  <2> TAKE p \in 1 .. Len(new[j])
  <2>1. CASE j # i
    BY <1>3, <2>1
  <2>2. CASE j = i /\ p = o
    BY <1>1, <1>3, <2>2
  <2>3. CASE j = i /\ p # o
    <3>1. p \in 1 .. o
      BY <1>3, <2>3
    <3> HIDE DEF o
    <3>2. p \in 1 .. Len(J[i])
      BY <1>1, <1>3, <2>3, <3>1
    <3> QED BY <1>3, <2>3, <3>2
  <2> QED BY <2>1, <2>2, <2>3
<1>5. \A j \in 1 .. ReportSite : \A p \in 1 .. Len(J[j]) :
          p \in 1 .. Len(new[j]) /\ new[j][p] = J[j][p]
  <2> TAKE j \in 1 .. ReportSite
  <2> TAKE p \in 1 .. Len(J[j])
  <2> HIDE DEF o
  <2>1. CASE j # i
    BY <1>3, <2>1
  <2>2. CASE j = i
    BY <1>1, <1>3, <2>2
  <2> QED BY <2>1, <2>2
<1>6. \A j \in 1 .. ReportSite : \A p \in 1 .. Len(J[j]) : \A n \in 1 .. K + 1 :
          A[n] = Call(J[j][p], j) => n \in 1 .. K
  <2> SUFFICES ASSUME NEW j \in 1 .. ReportSite, NEW p \in 1 .. Len(J[j]),
                      A[K + 1] = Call(J[j][p], j)
               PROVE  FALSE
    BY <1>1
  <2>1. PICK m \in 1 .. K : A[m] = Call(J[j][p], j)
    BY DEF Recorded
  <2>2. m \in 1 .. T /\ m # K + 1
    BY <1>1, <2>1
  <2> QED BY <1>1, <2>1, <2>2 DEF RowsAndCalls
<1>7. \A n \in 1 .. K : ~(A[n] = A[K + 1])
  BY <1>1 DEF RowsAndCalls
<1>8. Recorded(new, A, K + 1)
  <2>1. ASSUME NEW j \in 1 .. ReportSite, NEW p \in 1 .. Len(new[j])
        PROVE  \E n \in 1 .. K + 1 : A[n] = Call(new[j][p], j)
    <3>1. CASE p \in 1 .. Len(J[j]) /\ new[j][p] = J[j][p]
      BY <1>1, <3>1 DEF Recorded
    <3>2. CASE Call(new[j][p], j) = A[K + 1]
      BY <1>1, <3>2
    <3> QED BY <1>4, <3>1, <3>2
  <2>2. ASSUME NEW n \in 1 .. K + 1
        PROVE  \E p \in 1 .. Len(new[A[n].site]) : new[A[n].site][p] = A[n].branch
    <3>1. CASE n \in 1 .. K
      <4>1. A[n].site \in 1 .. ReportSite
        <5>1. A[n] \in Calls
          BY <1>1, <3>1 DEF RowsAndCalls
        <5> QED BY <5>1, CallIs
      <4>2. PICK p \in 1 .. Len(J[A[n].site]) : J[A[n].site][p] = A[n].branch
        BY <3>1 DEF Recorded
      <4> QED BY <1>5, <4>1, <4>2
    <3>2. CASE n = K + 1
      BY <1>3, <3>2
    <3> QED BY <1>1, <3>1, <3>2
  <2>3. ASSUME NEW j \in 1 .. ReportSite, NEW p \in 1 .. Len(new[j]), NEW q \in 1 .. Len(new[j]),
               NEW m \in 1 .. K + 1, NEW n \in 1 .. K + 1,
               p < q, A[m] = Call(new[j][p], j), A[n] = Call(new[j][q], j)
        PROVE  m < n
    <3>1. p \in 1 .. Len(J[j]) /\ new[j][p] = J[j][p] /\ m \in 1 .. K
      <4>1. ~(j = i /\ p = o)
        BY <1>1, <1>3, <2>3
      <4> QED BY <1>4, <1>6, <2>3, <4>1
    <3>2. CASE q \in 1 .. Len(J[j]) /\ new[j][q] = J[j][q]
      <4>1. n \in 1 .. K
        BY <1>6, <2>3, <3>2
      <4> QED BY <2>3, <3>1, <3>2, <4>1, SMTT(30) DEF Recorded
    <3>3. CASE Call(new[j][q], j) = A[K + 1]
      <4>1. n = K + 1
        BY <1>1, <1>7, <2>3, <3>3
      <4> QED BY <1>1, <3>1, <4>1
    <3> QED BY <1>4, <3>2, <3>3
  <2> QED BY <2>1, <2>2, <2>3 DEF Recorded
<1>9. Numbered(new, A, K + 1, K + 1, num)
  <2>1. \A j \in 1 .. ReportSite : Len(new[j]) = num[j] /\ num[j] \in Nat
    BY <1>1, <1>2, <1>3
  <2> HIDE DEF num
  <2> QED BY <2>1 DEF Numbered
<1> QED BY <1>3, <1>8, <1>9 DEF new

-----------------------------------------------------------------------------
(* Journal, log and arrivals of a state. *)

LEMMA JournalFacts ==
    ASSUME Typed
    PROVE  /\ Journal \in [1 .. ReportSite -> Seq(Branches)]
           /\ \A i \in 1 .. ReportSite : Len(Journal[i]) = Rows(i) /\ Rows(i) \in Nat
           /\ Journal[ReportSite] = reports
           /\ \A i \in 1 .. Sites : \A o \in 1 .. Len(asks[i]) :
                  Journal[i][o] = asks[i][o].by
<1> DEFINE R == [by : Branches, done : BOOLEAN]
<1>1. asks \in [1 .. Sites -> Seq(R)] /\ reports \in Seq(Branches)
  BY DEF Typed
<1>2. \A i \in 1 .. Sites : Len(asks[i]) \in Nat /\ \A o \in 1 .. Len(asks[i]) : asks[i][o] \in R
  <2> HIDE DEF R
  <2> QED BY <1>1
<1>3. ReportSite \in 1 .. ReportSite /\ CallsOf(ReportSite) = reports
  BY SiteFacts DEF CallsOf, ReportSite
<1>4. ASSUME NEW i \in 1 .. Sites
      PROVE  /\ CallsOf(i) = [o \in 1 .. Len(asks[i]) |-> asks[i][o].by]
             /\ CallsOf(i) \in Seq(Branches) /\ Len(CallsOf(i)) = Len(asks[i])
             /\ \A o \in 1 .. Len(asks[i]) : CallsOf(i)[o] = asks[i][o].by
             /\ i \in 1 .. ReportSite /\ Rows(i) = Len(asks[i])
  <2>1. CallsOf(i) = [o \in 1 .. Len(asks[i]) |-> asks[i][o].by] /\ Rows(i) = Len(asks[i])
    BY SiteFacts DEF CallsOf, Rows
  <2>2. \A o \in 1 .. Len(asks[i]) : asks[i][o].by \in Branches
    BY <1>2
  <2> QED BY <1>2, <2>1, <2>2, SiteFacts
<1>5. Rows(ReportSite) = Len(reports) /\ Len(reports) \in Nat
  BY <1>1 DEF Rows
<1>6. \A i \in 1 .. ReportSite : CallsOf(i) \in Seq(Branches) /\ Len(CallsOf(i)) = Rows(i)
                               /\ Rows(i) \in Nat
  BY <1>1, <1>2, <1>3, <1>4, <1>5, SiteFacts
<1> QED BY <1>3, <1>4, <1>6 DEF Journal

\* The n-th entry of the log and the call it led to.
LEMMA ArrivalFacts ==
    ASSUME Typed
    PROVE  /\ Len(Script) \in Nat /\ Len(log) \in Nat /\ Total \in Nat
           /\ Total = Len(Script) + Len(log)
           /\ \A n \in 1 .. Len(Script) : /\ Arrivals[n] = Call(Script[n], 1)
                                          /\ Script[n] \in Branches /\ n \in 1 .. Total
           /\ \A n \in 1 .. Len(log) :
                /\ Arrivals[Len(Script) + n] = NextCall(Answer(log[n]))
                /\ log[n] \in Made /\ Answer(log[n]) \in Asked
                /\ Answer(log[n]) = Call(Journal[log[n][1]][log[n][2]], log[n][1])
                /\ log[n][1] \in 1 .. Sites /\ log[n][2] \in 1 .. Len(Journal[log[n][1]])
                /\ Len(Script) + n \in 1 .. Total
           /\ \A n \in 1 .. Total : Arrivals[n] \in Calls
<1>1. /\ Len(Script) \in Nat /\ Len(log) \in Nat /\ Total = Len(Script) + Len(log)
      /\ \A n \in 1 .. Len(log) : log[n] \in Made
      /\ \A n \in 1 .. Len(Script) : Script[n] \in Branches
  BY ReplayAssumption DEF Typed, Total
<1>2. ASSUME NEW n \in 1 .. Len(log)
      PROVE  /\ log[n] \in Made /\ Answer(log[n]) \in Asked
             /\ Answer(log[n]) = Call(Journal[log[n][1]][log[n][2]], log[n][1])
             /\ log[n][1] \in 1 .. Sites /\ log[n][2] \in 1 .. Len(Journal[log[n][1]])
  <2> DEFINE inst == log[n]
  <2>1. inst \in Made
    BY <1>1
  <2> HIDE DEF inst
  <2>2. /\ Answer(inst) \in Asked
        /\ inst[1] \in 1 .. Sites /\ inst[2] \in 1 .. Len(asks[inst[1]])
        /\ Answer(inst) = [branch |-> asks[inst[1]][inst[2]].by, site |-> inst[1]]
    BY <2>1, AnswerTyped
  <2>3. /\ Journal[inst[1]][inst[2]] = asks[inst[1]][inst[2]].by
        /\ Len(Journal[inst[1]]) = Len(asks[inst[1]])
    BY <2>2, JournalFacts, SiteFacts DEF Rows
  <2> QED BY <2>1, <2>2, <2>3 DEF inst, Call
<1>3. \A n \in 1 .. Len(log) : /\ Arrivals[Len(Script) + n] = NextCall(Answer(log[n]))
                               /\ Len(Script) + n \in 1 .. Total
  <2> TAKE n \in 1 .. Len(log)
  <2>1. /\ Len(Script) + n \in 1 .. Total /\ ~(Len(Script) + n <= Len(Script))
        /\ Len(Script) + n - Len(Script) = n
    BY <1>1
  <2> QED BY <2>1 DEF Arrivals
<1>4. \A n \in 1 .. Len(Script) : /\ Arrivals[n] = Call(Script[n], 1) /\ n \in 1 .. Total
                                  /\ Script[n] \in Branches
  BY <1>1 DEF Arrivals
<1>5. \A c \in Asked : NextCall(c) \in Calls
  BY SiteFacts DEF NextCall, Call, Asked, Calls
<1>6. \A n \in 1 .. Total : Arrivals[n] \in Calls
  <2> TAKE n \in 1 .. Total
  <2>1. CASE n <= Len(Script)
    <3>1. n \in 1 .. Len(Script) /\ 1 \in 1 .. ReportSite
      BY <1>1, <2>1, SiteFacts
    <3>2. \A b \in Branches : Call(b, 1) \in Calls
      BY <3>1 DEF Call, Calls
    <3> QED BY <1>4, <3>1, <3>2
  <2>2. CASE ~(n <= Len(Script))
    <3>1. n - Len(Script) \in 1 .. Len(log) /\ n = Len(Script) + (n - Len(Script))
      BY <1>1, <2>2
    <3>2. Arrivals[n] = NextCall(Answer(log[n - Len(Script)]))
      BY <1>3, <3>1
    <3> QED BY <1>2, <1>5, <3>1, <3>2
  <2> QED BY <2>1, <2>2
<1>7. Total \in Nat
  BY <1>1
<1> QED BY <1>1, <1>2, <1>3, <1>4, <1>6, <1>7

\* No call is made twice.
LEMMA ArrivalsDiffer ==
    ASSUME Typed, Distinct(log), NEW K \in Nat, Recorded(Journal, Arrivals, K)
    PROVE  RowsAndCalls(Journal, Arrivals, Total)
<1>1. ASSUME NEW m \in 1 .. Total, NEW n \in 1 .. Total, Arrivals[m] = Arrivals[n]
      PROVE  m = n
  <2>1. ASSUME NEW j \in 1 .. Len(Script), NEW k \in 1 .. Len(Script),
               Arrivals[j] = Arrivals[k]
        PROVE  j = k
    <3>1. Script[j] = Script[k] /\ j \in DOMAIN Script /\ k \in DOMAIN Script
      <4>1. Script \in Seq(Branches)
        BY ReplayAssumption
      <4> QED BY <2>1, <4>1, ArrivalFacts, CallParts, SMTT(30)
    <3> QED BY <3>1, ReplayAssumption DEF Distinct
  <2>2. ASSUME NEW j \in 1 .. Len(Script), NEW k \in 1 .. Len(log),
               Arrivals[j] = Arrivals[Len(Script) + k]
        PROVE  FALSE
    <3>1. Arrivals[j].site = 1 /\ Arrivals[Len(Script) + k].site = log[k][1] + 1
          /\ log[k][1] \in 1 .. Sites
      <4>1. Arrivals[j] = Call(Script[j], 1)
        BY ArrivalFacts
      <4>2. /\ Arrivals[Len(Script) + k] = NextCall(Answer(log[k]))
            /\ Answer(log[k]) = Call(Journal[log[k][1]][log[k][2]], log[k][1])
            /\ log[k][1] \in 1 .. Sites
        BY ArrivalFacts
      <4> QED BY <4>1, <4>2, CallParts DEF NextCall
    <3>2. log[k][1] + 1 # 1
      BY <3>1
    <3> QED BY <2>2, <3>1, <3>2
  <2>3. ASSUME NEW j \in 1 .. Len(log), NEW k \in 1 .. Len(log),
               Arrivals[Len(Script) + j] = Arrivals[Len(Script) + k]
        PROVE  j = k
    <3> DEFINE x == log[j]
               y == log[k]
    <3>1. NextCall(Answer(x)) = NextCall(Answer(y))
      BY <2>3, ArrivalFacts
    <3>2. /\ x \in Made /\ y \in Made
          /\ x[1] \in 1 .. Sites /\ x[2] \in 1 .. Len(Journal[x[1]])
          /\ y[1] \in 1 .. Sites /\ y[2] \in 1 .. Len(Journal[y[1]])
          /\ Answer(x) = Call(Journal[x[1]][x[2]], x[1])
          /\ Answer(y) = Call(Journal[y[1]][y[2]], y[1])
      BY ArrivalFacts
    <3> HIDE DEF x, y
    <3>3. Journal[x[1]][x[2]] = Journal[y[1]][y[2]] /\ x[1] + 1 = y[1] + 1
      BY <3>1, <3>2, CallParts, SMTT(30) DEF NextCall
    <3>4. x[1] = y[1] /\ x[1] \in 1 .. ReportSite
      <4>1. x[1] \in Int /\ y[1] \in Int
        BY <3>2, SiteFacts
      <4>2. x[1] = y[1]
        BY <3>3, <4>1
      <4> QED BY <3>2, <4>2, SiteFacts
    <3>5. x[2] = y[2]
      <4>1. Journal \in [1 .. ReportSite -> Seq(Branches)]
        BY JournalFacts
      <4>2. /\ x[1] \in 1 .. ReportSite
            /\ x[2] \in 1 .. Len(Journal[x[1]]) /\ y[2] \in 1 .. Len(Journal[x[1]])
            /\ Journal[x[1]][x[2]] = Journal[x[1]][y[2]]
        BY <3>2, <3>3, <3>4
      <4> QED BY <4>1, <4>2, RowsDiffer
    <3>6. x = y
      BY <3>2, <3>4, <3>5 DEF Made
    <3>7. j \in DOMAIN log /\ k \in DOMAIN log
      BY DEF Typed
    <3> QED BY <3>6, <3>7 DEF Distinct, x, y
  <2>4. \A q \in 1 .. Total : \/ q \in 1 .. Len(Script)
                              \/ \E j \in 1 .. Len(log) : q = Len(Script) + j
    <3> TAKE q \in 1 .. Total
    <3>1. q \in 1 .. Len(Script) \/ q - Len(Script) \in 1 .. Len(log)
      BY ArrivalFacts
    <3>2. q = Len(Script) + (q - Len(Script))
      BY ArrivalFacts
    <3> QED BY <3>1, <3>2
  <2> QED BY <1>1, <2>1, <2>2, <2>3, <2>4
<1> QED BY <1>1, ArrivalFacts, JournalFacts DEF RowsAndCalls

-----------------------------------------------------------------------------
(* What steps do to them. *)

\* The arrivals there are stay.
LEMMA ArrivalsStay ==
    ASSUME Typed, Typed', Grows
    PROVE  /\ \A n \in 1 .. Total : Arrivals'[n] = Arrivals[n]
           /\ Len(log) <= Len(log') /\ Total <= Total'
           /\ Len(log) \in Nat /\ Len(log') \in Nat /\ Total \in Nat /\ Total' \in Nat
           /\ \A n \in 1 .. Len(log) : log'[n] = log[n]
           /\ log' = log => Arrivals' = Arrivals /\ Total' = Total
<1>1. /\ Len(log) \in Nat /\ Len(log') \in Nat /\ Len(Script) \in Nat
      /\ Total = Len(Script) + Len(log) /\ Total' = Len(Script) + Len(log')
      /\ log \in Seq(Made) /\ log' \in Seq(Made')
  <2>1. log \in Seq(Made) /\ log' \in Seq(Made') /\ Script \in Seq(Branches)
    BY ReplayAssumption DEF Typed
  <2> QED BY <2>1 DEF Total
<1>2. Len(log) <= Len(log') /\ \A n \in 1 .. Len(log) : log'[n] = log[n]
  <2>1. Len(log) <= Len(log') /\ SubSeq(log, 1, Len(log)) = SubSeq(log', 1, Len(log))
    BY DEF Grows, IsPrefix
  <2>2. \A n \in 1 .. Len(log) : /\ SubSeq(log, 1, Len(log))[n] = log[n]
                                 /\ SubSeq(log', 1, Len(log))[n] = log'[n]
    BY <1>1, <2>1
  <2> QED BY <2>1, <2>2
<1>3. ASSUME NEW n \in 1 .. Len(log) PROVE Answer(log[n])' = Answer(log[n])
  <2>1. log[n][1] \in 1 .. Sites /\ log[n][2] \in 1 .. Len(asks[log[n][1]])
    <3>1. log[n] \in Made
      BY <1>1
    <3> QED BY <3>1, AnswerTyped
  <2>2. asks'[log[n][1]][log[n][2]].by = asks[log[n][1]][log[n][2]].by
    BY <2>1 DEF Grows, RowsGrow
  <2>3. log'[n] = log[n]
    BY <1>2
  <2> QED BY <2>2, <2>3 DEF Answer, ByBranch
<1>4. \A n \in 1 .. Total : Arrivals'[n] = Arrivals[n]
  <2> TAKE n \in 1 .. Total
  <2>1. n \in 1 .. Total'
    BY <1>1, <1>2
  <2>2. CASE n <= Len(Script)
    BY <2>1, <2>2 DEF Arrivals
  <2>3. CASE ~(n <= Len(Script))
    <3>1. n - Len(Script) \in 1 .. Len(log)
      BY <1>1, <2>3
    <3>2. Answer(log[n - Len(Script)])' = Answer(log[n - Len(Script)])
      BY <1>3, <3>1
    <3> QED BY <2>1, <2>3, <3>2 DEF Arrivals
  <2> QED BY <2>2, <2>3
<1>5. ASSUME log' = log PROVE Arrivals' = Arrivals /\ Total' = Total
  <2>1. Total' = Total
    BY <1>1, <1>5
  <2>2. /\ Arrivals = [n \in 1 .. Total |-> Arrivals[n]]
        /\ Arrivals' = [n \in 1 .. Total' |-> Arrivals'[n]]
    BY DEF Arrivals
  <2> QED BY <1>4, <2>1, <2>2
<1>6. Total \in Nat /\ Total' \in Nat /\ Total <= Total'
  BY <1>1, <1>2
<1> QED BY <1>1, <1>2, <1>4, <1>5, <1>6

LEMMA JournalSame ==
    ASSUME Typed, Typed', reports' = reports,
           \A i \in 1 .. Sites : /\ Len(asks'[i]) = Len(asks[i])
                                 /\ \A o \in 1 .. Len(asks[i]) : asks'[i][o].by = asks[i][o].by
    PROVE  Journal' = Journal
<1>1. ASSUME NEW i \in 1 .. ReportSite PROVE CallsOf(i)' = CallsOf(i)
  <2>1. CASE i = ReportSite
    BY <2>1 DEF CallsOf
  <2>2. CASE i \in 1 .. Sites
    BY <2>2, SiteFacts DEF CallsOf
  <2> QED BY <2>1, <2>2, SiteFacts
<1> QED BY <1>1 DEF Journal

LEMMA JournalAsk ==
    ASSUME Typed, Typed', reports' = reports, NEW i \in 1 .. Sites, NEW b \in Branches,
           asks' = [asks EXCEPT ![i] = Append(@, [by |-> b, done |-> FALSE])]
    PROVE  Journal' = [Journal EXCEPT ![i] = Append(@, b)]
<1>1. /\ Len(asks'[i]) = Len(asks[i]) + 1 /\ Len(asks[i]) \in Nat
      /\ asks'[i][Len(asks[i]) + 1].by = b
      /\ \A o \in 1 .. Len(asks[i]) : asks'[i][o].by = asks[i][o].by
      /\ \A j \in 1 .. Sites : j # i => asks'[j] = asks[j]
  <2>1. asks \in [1 .. Sites -> Seq([by : Branches, done : BOOLEAN])]
    BY DEF Typed
  <2>2. /\ Len(asks'[i]) = Len(asks[i]) + 1
        /\ asks'[i][Len(asks[i]) + 1] = [by |-> b, done |-> FALSE]
        /\ \A o \in 1 .. Len(asks[i]) : asks'[i][o] = asks[i][o]
        /\ \A j \in 1 .. Sites : j # i => asks'[j] = asks[j]
    BY <2>1, RowAdded
  <2>3. Len(asks[i]) \in Nat
    BY <2>1
  <2> QED BY <2>2, <2>3
<1>2. /\ Journal \in [1 .. ReportSite -> Seq(Branches)]
      /\ i \in 1 .. ReportSite
      /\ Len(Journal[i]) = Len(asks[i])
      /\ \A o \in 1 .. Len(asks[i]) : Journal[i][o] = asks[i][o].by
  BY JournalFacts, SiteFacts DEF Rows
<1>3. Journal'[i] = Append(Journal[i], b)
  <2> DEFINE new == [o \in 1 .. Len(asks[i]) + 1 |-> asks'[i][o].by]
  <2>1. CallsOf(i)' = new
    BY <1>1, SiteFacts DEF CallsOf
  <2>2. \A o \in 1 .. Len(asks[i]) + 1 :
            new[o] = IF o <= Len(Journal[i]) THEN Journal[i][o] ELSE b
    BY <1>1, <1>2
  <2>3. new = Append(Journal[i], b)
    <3>1. new = [o \in 1 .. Len(Journal[i]) + 1 |-> new[o]]
      BY <1>2
    <3>2. Journal[i] \in Seq(Branches) /\ Len(Journal[i]) \in Nat
      BY <1>1, <1>2
    <3> HIDE DEF new
    <3>3. /\ Append(Journal[i], b) =
                [o \in 1 .. Len(Journal[i]) + 1 |-> Append(Journal[i], b)[o]]
          /\ \A o \in 1 .. Len(Journal[i]) + 1 : Append(Journal[i], b)[o] =
                IF o <= Len(Journal[i]) THEN Journal[i][o] ELSE b
      BY <3>2
    <3>4. \A o \in 1 .. Len(Journal[i]) + 1 : new[o] = Append(Journal[i], b)[o]
      BY <1>2, <2>2, <3>3
    <3> QED BY <3>1, <3>3, <3>4
  <2>4. Journal'[i] = CallsOf(i)'
    BY <1>2 DEF Journal
  <2> QED BY <2>1, <2>3, <2>4
<1>4. /\ \A j \in 1 .. ReportSite : j # i => Journal'[j] = Journal[j]
      /\ Journal' = [j \in 1 .. ReportSite |-> Journal'[j]]
  <2>1. \A j \in 1 .. ReportSite : j # i => CallsOf(j)' = CallsOf(j)
    BY <1>1, SiteFacts DEF CallsOf
  <2> QED BY <2>1 DEF Journal
<1> QED BY <1>2, <1>3, <1>4

LEMMA JournalReport ==
    ASSUME Typed, Typed', asks' = asks, NEW b \in Branches, reports' = Append(reports, b)
    PROVE  Journal' = [Journal EXCEPT ![ReportSite] = Append(@, b)]
<1>1. /\ Journal \in [1 .. ReportSite -> Seq(Branches)]
      /\ ReportSite \in 1 .. ReportSite /\ Journal[ReportSite] = reports
  BY JournalFacts, SiteFacts DEF ReportSite
<1>2. Journal' \in [1 .. ReportSite -> Seq(Branches)] /\ Journal'[ReportSite] = reports'
  <2>1. CallsOf(ReportSite)' = reports'
    BY DEF CallsOf
  <2>2. Journal'[ReportSite] = CallsOf(ReportSite)'
    BY <1>1 DEF Journal
  <2>3. Journal' = [i \in 1 .. ReportSite |-> CallsOf(i)']
    BY DEF Journal
  <2>4. \A i \in 1 .. ReportSite : CallsOf(i)' \in Seq(Branches)
    <3>1. \A i \in 1 .. ReportSite : i # ReportSite => CallsOf(i)' = CallsOf(i)
      BY DEF CallsOf
    <3>2. \A i \in 1 .. ReportSite : CallsOf(i) \in Seq(Branches)
      BY <1>1 DEF Journal
    <3>3. reports' \in Seq(Branches)
      BY DEF Typed
    <3> QED BY <2>1, <3>1, <3>2, <3>3
  <2> QED BY <2>1, <2>2, <2>3, <2>4
<1>3. \A j \in 1 .. ReportSite : j # ReportSite => Journal'[j] = Journal[j]
  BY DEF Journal, CallsOf
<1> QED BY <1>1, <1>2, <1>3

Agree(A, B, T) == \A n \in 1 .. T : B[n] = A[n]

\* Only the first K arrivals matter to K rows.
LEMMA SameArrivals ==
    ASSUME NEW J, NEW A, NEW B, NEW K \in Nat, Agree(A, B, K)
    PROVE  /\ Recorded(J, A, K) => Recorded(J, B, K)
           /\ \A N, ord : Numbered(J, A, K, N, ord) => Numbered(J, B, K, N, ord)
<1>1. ASSUME Recorded(J, A, K) PROVE Recorded(J, B, K)
  BY <1>1 DEF Recorded, Agree
<1>2. ASSUME NEW N, NEW ord, Numbered(J, A, K, N, ord) PROVE Numbered(J, B, K, N, ord)
  BY <1>2 DEF Numbered, Agree
<1> QED BY <1>1, <1>2

-----------------------------------------------------------------------------
(* How calls go through the pipes and the microtask queue. *)
Micros == [call : Asked, hops : Nat]

LEMMA TakeCall ==
    ASSUME NEW A, NEW N \in Nat, NEW cs \in Seq(Calls), NEW ms \in Seq(Micros),
           NEW ans \in Seq(Asked), PipesCarry(A, N, cs, ms, ans), cs # <<>>
    PROVE  /\ Head(cs) = A[N + 1] /\ Head(cs) \in Calls
           /\ PipesCarry(A, N + 1, Tail(cs), ms, ans)
           /\ Tail(cs) \in Seq(Calls) /\ (N + 1) + Len(Tail(cs)) = N + Len(cs)
<1>1. /\ Len(cs) \in Nat /\ 1 \in 1 .. Len(cs) /\ Head(cs) = cs[1]
      /\ Tail(cs) \in Seq(Calls) /\ Len(Tail(cs)) = Len(cs) - 1
      /\ \A j \in 1 .. Len(cs) - 1 : Tail(cs)[j] = cs[j + 1] /\ j + 1 \in 1 .. Len(cs)
      /\ Head(cs) \in Calls
  OBVIOUS
<1>2. (N + 1) + Len(Tail(cs)) = N + Len(cs)
  BY <1>1
<1>3. \A j \in 1 .. Len(Tail(cs)) : Tail(cs)[j] = A[(N + 1) + j]
  <2> TAKE j \in 1 .. Len(Tail(cs))
  <2>1. j + 1 \in 1 .. Len(cs) /\ Tail(cs)[j] = cs[j + 1] /\ (N + 1) + j = N + (j + 1)
    BY <1>1
  <2> QED BY <2>1 DEF PipesCarry
<1> QED BY <1>1, <1>2, <1>3 DEF PipesCarry

LEMMA PutAnswers ==
    ASSUME NEW A, NEW N \in Nat, NEW cs \in Seq(Calls), NEW ms \in Seq(Micros),
           NEW ans \in Seq(Asked), NEW bs \in Seq(Asked), PipesCarry(A, N, cs, ms, ans),
           LeadTo(A, N + Len(cs) + Len(ms) + Len(ans), bs)
    PROVE  PipesCarry(A, N, cs, ms, ans \o bs)
<1>1. Len(ans) \in Nat /\ Len(bs) \in Nat /\ Len(cs) \in Nat /\ Len(ms) \in Nat
  OBVIOUS
<1>2. /\ Len(ans \o bs) = Len(ans) + Len(bs)
      /\ \A j \in 1 .. Len(ans) : (ans \o bs)[j] = ans[j]
      /\ \A j \in 1 .. Len(bs) : (ans \o bs)[Len(ans) + j] = bs[j]
  OBVIOUS
<1>3. ASSUME NEW j \in 1 .. Len(ans) + Len(bs)
      PROVE  NextCall((ans \o bs)[j]) = A[N + Len(cs) + Len(ms) + j]
  <2>1. CASE j <= Len(ans)
    <3>1. j \in 1 .. Len(ans)
      BY <1>1, <2>1
    <3> QED BY <1>2, <3>1 DEF PipesCarry, LeadTo
  <2>2. CASE ~(j <= Len(ans))
    <3>1. /\ j - Len(ans) \in 1 .. Len(bs) /\ Len(ans) + (j - Len(ans)) = j
          /\ N + Len(cs) + Len(ms) + Len(ans) + (j - Len(ans)) = N + Len(cs) + Len(ms) + j
      BY <1>1, <2>2
    <3>2. (ans \o bs)[j] = bs[j - Len(ans)]
      BY <1>2, <3>1
    <3> QED BY <3>1, <3>2 DEF LeadTo
  <2> QED BY <2>1, <2>2
<1>4. LeadTo(A, N + Len(cs) + Len(ms), ans \o bs)
  BY <1>2, <1>3 DEF LeadTo
<1> QED BY <1>4 DEF PipesCarry

LEMMA SamePipes ==
    ASSUME NEW A, NEW B, NEW T \in Nat, Agree(A, B, T),
           NEW N \in Nat, NEW cs \in Seq(Calls), NEW ms \in Seq(Micros), NEW ans \in Seq(Asked),
           N + Len(cs) + Len(ms) + Len(ans) <= T, PipesCarry(A, N, cs, ms, ans)
    PROVE  PipesCarry(B, N, cs, ms, ans)
<1>1. Len(cs) \in Nat /\ Len(ms) \in Nat /\ Len(ans) \in Nat
  OBVIOUS
<1>2. /\ \A j \in 1 .. Len(cs) : N + j \in 1 .. T
      /\ \A j \in 1 .. Len(ms) : N + Len(cs) + j \in 1 .. T
      /\ \A j \in 1 .. Len(ans) : N + Len(cs) + Len(ms) + j \in 1 .. T
  BY <1>1
<1>3. MicroMakes(B, N + Len(cs), ms)
  BY <1>2 DEF PipesCarry, MicroMakes, InTurn, Agree
<1> QED BY <1>2, <1>3 DEF PipesCarry, LeadTo, Agree

\* The microtasks of answers that have just been read.
Fresh(ms, ans, h) ==
    \A j \in 1 .. Len(ms) : ms[j].call = ans[j] /\ ms[j].hops = h

LEMMA ReadAnswers ==
    ASSUME NEW A, NEW N \in Nat, NEW cs \in Seq(Calls), NEW ans \in Seq(Asked),
           PipesCarry(A, N, cs, <<>>, ans), NEW n \in 1 .. Len(ans), NEW h \in Nat,
           NEW ms \in Seq(Micros), Len(ms) = n,
           Fresh(ms, ans, h)
    PROVE  /\ PipesCarry(A, N, cs, ms, SubSeq(ans, n + 1, Len(ans)))
           /\ Len(ms) + Len(SubSeq(ans, n + 1, Len(ans))) = Len(ans)
<1>1. /\ Len(cs) \in Nat /\ Len(ans) \in Nat /\ n \in Nat
      /\ Len(SubSeq(ans, n + 1, Len(ans))) = Len(ans) - n
      /\ \A j \in 1 .. Len(ans) - n : /\ SubSeq(ans, n + 1, Len(ans))[j] = ans[n + j]
                                     /\ n + j \in 1 .. Len(ans)
  OBVIOUS
<1>2. \A j \in 1 .. Len(ans) : NextCall(ans[j]) = A[N + Len(cs) + j]
  <2>1. Len(<<>>) = 0
    OBVIOUS
  <2>2. LeadTo(A, N + Len(cs) + 0, ans)
    BY <2>1 DEF PipesCarry
  <2> QED BY <1>1, <2>2 DEF LeadTo
<1>3. MicroMakes(A, N + Len(cs), ms)
  <2>1. /\ 0 \in 0 .. Len(ms)
        /\ \A j \in 1 .. Len(ms) : ms[j].hops = IF j <= Len(ms) - 0 THEN h ELSE h - 1
        /\ \A j \in 1 .. Len(ms) : ms[IF j <= 0 THEN Len(ms) - 0 + j ELSE j - 0] = ms[j]
        /\ \A j \in 1 .. Len(ms) : NextCall(ms[j].call) = A[N + Len(cs) + j]
    <3>1. \A j \in 1 .. n : j \in 1 .. Len(ans) /\ ~(j <= 0) /\ j - 0 = j /\ j <= n - 0
      BY <1>1
    <3> QED BY <1>1, <1>2, <3>1 DEF Fresh
  <2>2. \A j \in 1 .. Len(ms) :
            NextCall(ms[IF j <= 0 THEN Len(ms) - 0 + j ELSE j - 0].call) = A[N + Len(cs) + j]
    BY <2>1
  <2>3. 0 < Len(ms)
    BY <1>1
  <2>4. InTurn(A, N + Len(cs), ms, 0, h)
    BY <2>1, <2>2, <2>3 DEF InTurn
  <2> QED BY <2>1, <2>4 DEF MicroMakes
<1>4. \A j \in 1 .. Len(ans) - n :
          NextCall(SubSeq(ans, n + 1, Len(ans))[j]) = A[N + Len(cs) + Len(ms) + j]
  <2> TAKE j \in 1 .. Len(ans) - n
  <2>1. N + Len(cs) + (n + j) = N + Len(cs) + Len(ms) + j
    BY <1>1
  <2> QED BY <1>1, <1>2, <2>1
<1>5. LeadTo(A, N + Len(cs) + Len(ms), SubSeq(ans, n + 1, Len(ans)))
  BY <1>1, <1>4 DEF LeadTo
<1>6. \A j \in 1 .. Len(cs) : cs[j] = A[N + j]
  BY DEF PipesCarry
<1>7. Len(ms) + Len(SubSeq(ans, n + 1, Len(ans))) = Len(ans)
  BY <1>1
<1> QED BY <1>3, <1>5, <1>6, <1>7 DEF PipesCarry

LEMMA TakeTurn ==
    ASSUME NEW A, NEW M \in Nat, NEW ms \in Seq(Micros), ms # <<>>, MicroMakes(A, M, ms),
           Head(ms).hops > 0
    PROVE  LET new == Append(Tail(ms), [Head(ms) EXCEPT !.hops = @ - 1])
           IN  MicroMakes(A, M, new) /\ new \in Seq(Micros) /\ Len(new) = Len(ms)
<1> DEFINE t == [Head(ms) EXCEPT !.hops = @ - 1]
           new == Append(Tail(ms), t)
           n == Len(ms)
<1>0. n \in Nat
  OBVIOUS
<1>1. /\ n \in Nat \ {0} /\ Head(ms) = ms[1] /\ Head(ms) \in Micros
      /\ Tail(ms) \in Seq(Micros) /\ Len(Tail(ms)) = n - 1
      /\ \A j \in 1 .. n - 1 : Tail(ms)[j] = ms[j + 1]
  <2> HIDE DEF Micros
  <2> QED OBVIOUS
<1>2. t \in Micros /\ t.call = ms[1].call /\ t.hops = ms[1].hops - 1
  BY <1>1 DEF Micros
<1> HIDE DEF t
<1>3. /\ new \in Seq(Micros) /\ Len(new) = n
      /\ \A j \in 1 .. n : new[j] = IF j < n THEN ms[j + 1] ELSE t
  <2> DEFINE l == Tail(ms)
  <2> HIDE DEF Micros, n, l
  <2>1. l \in Seq(Micros) /\ t \in Micros /\ Len(l) = n - 1 /\ n - 1 \in Nat
    BY <1>1, <1>2 DEF l
  <2>2. /\ Append(l, t) \in Seq(Micros) /\ Len(Append(l, t)) = n
        /\ \A j \in 1 .. n - 1 : Append(l, t)[j] = l[j]
        /\ Append(l, t)[n] = t
    BY <1>1, <2>1
  <2>3. ASSUME NEW j \in 1 .. n
        PROVE  Append(l, t)[j] = IF j < n THEN ms[j + 1] ELSE t
    <3>1. CASE j < n
      <4>1. j \in 1 .. n - 1
        BY <1>0, <3>1
      <4> QED BY <1>1, <2>2, <3>1, <4>1 DEF l
    <3>2. CASE ~(j < n)
      <4>1. j = n
        BY <1>0, <3>2
      <4> QED BY <2>2, <3>2, <4>1
    <3> QED BY <3>1, <3>2
  <2> QED BY <2>2, <2>3 DEF l
<1> HIDE DEF new
<1>4. PICK p \in 0 .. n : \E h \in Nat : InTurn(A, M, ms, p, h)
  BY DEF MicroMakes
<1>5. PICK h \in Nat : InTurn(A, M, ms, p, h)
  BY <1>4
<1>6. p < n /\ p \in Nat /\ ms[1].hops = h /\ h > 0
  <2>1. p < n /\ 1 \in 1 .. n /\ 1 <= n - p
    BY <1>1, <1>5 DEF InTurn
  <2> QED BY <1>1, <1>5, <2>1 DEF InTurn
\* The one whose turn it was is the last of the round now.
<1>7. \A j \in 1 .. n :
          NextCall(new[IF j <= p + 1 THEN n - (p + 1) + j ELSE j - (p + 1)].call) = A[M + j]
  <2> TAKE j \in 1 .. n
  <2>1. NextCall(ms[IF j <= p THEN n - p + j ELSE j - p].call) = A[M + j]
    BY <1>5 DEF InTurn
  <2>2. CASE j <= p
    <3>1. /\ n - (p + 1) + j \in 1 .. n /\ n - (p + 1) + j < n
          /\ n - (p + 1) + j + 1 = n - p + j
      BY <1>1, <1>6, <2>2
    <3> QED BY <1>3, <2>1, <2>2, <3>1, SMTT(30)
  <2>3. CASE j = p + 1
    <3>1. n - (p + 1) + j = n /\ j - p = 1 /\ ~(j <= p) /\ n \in 1 .. n
      BY <1>1, <1>6, <2>3
    <3>2. new[n].call = ms[1].call
      BY <1>2, <1>3, <3>1
    <3> QED BY <2>1, <2>3, <3>1, <3>2
  <2>4. CASE j > p + 1
    <3>1. /\ j - (p + 1) \in 1 .. n /\ j - (p + 1) < n /\ j - (p + 1) + 1 = j - p
          /\ ~(j <= p) /\ ~(j <= p + 1)
      BY <1>1, <1>6, <2>4
    <3> QED BY <1>3, <2>1, <2>4, <3>1
  <2> QED BY <1>6, <2>2, <2>3, <2>4
<1>8. \A j \in 1 .. n : new[j].hops = IF j <= n - (p + 1) THEN h ELSE h - 1
  <2> TAKE j \in 1 .. n
  <2>1. CASE j < n
    <3>1. j + 1 \in 1 .. n /\ (j + 1 <= n - p <=> j <= n - (p + 1))
      BY <1>1, <1>6, <2>1
    <3>2. ms[j + 1].hops = IF j + 1 <= n - p THEN h ELSE h - 1
      BY <1>5, <3>1 DEF InTurn
    <3> QED BY <1>3, <2>1, <3>1, <3>2
  <2>2. CASE j = n
    <3>1. ~(j <= n - (p + 1))
      BY <1>1, <1>6, <2>2
    <3> QED BY <1>2, <1>3, <1>6, <2>2, <3>1
  <2>3. j < n \/ j = n
    BY <1>0
  <2> QED BY <2>1, <2>2, <2>3
<1>9. CASE p + 1 < n
  <2>1. InTurn(A, M, new, p + 1, h)
    BY <1>3, <1>6, <1>7, <1>8, <1>9 DEF InTurn
  <2>2. p + 1 \in 0 .. Len(new)
    BY <1>3, <1>6, <1>9
  <2>3. MicroMakes(A, M, new)
    BY <2>1, <2>2 DEF MicroMakes
  <2> QED BY <1>3, <2>3 DEF new, t
<1>10. CASE p + 1 = n
  <2>1. \A j \in 1 .. n : new[j].hops = h - 1
    BY <1>6, <1>8, <1>10
  <2>2. \A j \in 1 .. n : NextCall(new[j].call) = A[M + j]
    <3> TAKE j \in 1 .. n
    <3>1. j <= p + 1 /\ n - (p + 1) + j = j
      BY <1>6, <1>10
    <3> QED BY <1>7, <3>1
  <2>3. h - 1 \in Nat
    BY <1>6
  <2>4. InTurn(A, M, new, 0, h - 1)
    <3>1. \A j \in 1 .. n : j <= n - 0 /\ ~(j <= 0) /\ j - 0 = j
      BY <1>1
    <3>2. \A j \in 1 .. n : new[IF j <= 0 THEN n - 0 + j ELSE j - 0] = new[j]
      BY <3>1
    <3> QED BY <1>1, <1>3, <2>1, <2>2, <3>1, <3>2 DEF InTurn
  <2>5. MicroMakes(A, M, new)
    BY <1>1, <1>3, <2>3, <2>4 DEF MicroMakes
  <2> QED BY <1>3, <2>5 DEF new, t
<1>11. p + 1 < n \/ p + 1 = n
  BY <1>0, <1>6
<1> QED BY <1>9, <1>10, <1>11

LEMMA MakeCall ==
    ASSUME NEW A, NEW N \in Nat, NEW cs \in Seq(Calls), NEW ms \in Seq(Micros),
           NEW ans \in Seq(Asked), PipesCarry(A, N, cs, ms, ans), ms # <<>>,
           ~(Head(ms).hops > 0), NEW c \in Calls, c = NextCall(Head(ms).call)
    PROVE  /\ PipesCarry(A, N, Append(cs, c), Tail(ms), ans)
           /\ Len(Append(cs, c)) + Len(Tail(ms)) = Len(cs) + Len(ms)
<1> DEFINE n == Len(ms)
           M == N + Len(cs)
<1>1. /\ n \in Nat \ {0} /\ Head(ms) = ms[1]
      /\ Tail(ms) \in Seq(Micros) /\ Len(Tail(ms)) = n - 1 /\ n - 1 \in Nat
      /\ \A j \in 1 .. n - 1 : Tail(ms)[j] = ms[j + 1]
      /\ ms[1] \in Micros
  <2> HIDE DEF Micros
  <2> QED OBVIOUS
<1>2. Len(cs) \in Nat /\ Len(Append(cs, c)) = Len(cs) + 1 /\ Append(cs, c)[Len(cs) + 1] = c
      /\ \A j \in 1 .. Len(cs) : Append(cs, c)[j] = cs[j]
  OBVIOUS
<1>3. PICK p \in 0 .. n : \E h \in Nat : InTurn(A, M, ms, p, h)
  BY DEF MicroMakes, PipesCarry
<1>4. PICK h \in Nat : InTurn(A, M, ms, p, h)
  BY <1>3
<1>5. p = 0 /\ h = 0
  <2>1. p < n /\ 1 \in 1 .. n /\ 1 <= n - p /\ p \in Nat
    BY <1>1, <1>4 DEF InTurn
  <2>2. ms[1].hops = h
    BY <1>4, <2>1 DEF InTurn
  <2> QED BY <1>1, <1>4, <2>1, <2>2 DEF InTurn
<1>6. \A j \in 1 .. n : ms[j].hops = 0 /\ NextCall(ms[j].call) = A[M + j]
  <2> TAKE j \in 1 .. n
  <2>1. j <= n - 0 /\ ~(j <= 0) /\ j - 0 = j
    BY <1>1
  <2> QED BY <1>4, <1>5, <2>1 DEF InTurn
<1>7. c = A[M + 1]
  BY <1>1, <1>6
<1>8. \A j \in 1 .. n - 1 : /\ Tail(ms)[j].hops = 0
                            /\ NextCall(Tail(ms)[j].call) = A[M + 1 + j]
  <2> TAKE j \in 1 .. n - 1
  <2>1. j + 1 \in 1 .. n /\ M + (j + 1) = M + 1 + j
    BY <1>1, <1>2
  <2> QED BY <1>1, <1>6, <2>1
<1>9. MicroMakes(A, M + 1, Tail(ms))
  <2>1. \A j \in 1 .. n - 1 : j <= n - 1 - 0 /\ ~(j <= 0) /\ j - 0 = j
    BY <1>1
  <2>2. \A j \in 1 .. n - 1 :
            Tail(ms)[IF j <= 0 THEN n - 1 - 0 + j ELSE j - 0] = Tail(ms)[j]
    BY <2>1
  <2>3. InTurn(A, M + 1, Tail(ms), 0, 0)
    BY <1>1, <1>8, <2>1, <2>2 DEF InTurn
  <2> QED BY <1>1, <2>3 DEF MicroMakes
<1>10. \A j \in 1 .. Len(Append(cs, c)) : Append(cs, c)[j] = A[N + j]
  <2> TAKE j \in 1 .. Len(Append(cs, c))
  <2>1. CASE j \in 1 .. Len(cs)
    BY <1>2, <2>1 DEF PipesCarry
  <2>2. CASE j = Len(cs) + 1
    <3>1. N + j = M + 1
      BY <1>2, <2>2
    <3> QED BY <1>2, <1>7, <2>2, <3>1
  <2> QED BY <1>2, <2>1, <2>2
<1>11. /\ N + Len(Append(cs, c)) = M + 1
       /\ N + Len(Append(cs, c)) + Len(Tail(ms)) = N + Len(cs) + Len(ms)
       /\ Len(Append(cs, c)) + Len(Tail(ms)) = Len(cs) + Len(ms)
  BY <1>1, <1>2
<1> QED BY <1>9, <1>10, <1>11 DEF PipesCarry

-----------------------------------------------------------------------------
(* A call arrives. *)

LEMMA CallTaken ==
    ASSUME Typed, Distinct(log), NEW K \in 0 .. Total, Recorded(Journal, Arrivals, K),
           NEW N \in 0 .. K, Numbered(Journal, Arrivals, K, N, ordinals),
           PipesCarry(Arrivals, N, calls, micro, answers), calls # <<>>,
           NEW r \in 0 .. Len(log), N + Underway = Len(Script) + r
    PROVE  LET c == Head(calls)
               o == ordinals[c.site] + 1
               num == [ordinals EXCEPT ![c.site] = o]
               new == [Journal EXCEPT ![c.site] = Append(@, c.branch)]
           IN  /\ c \in Calls
               /\ \/ /\ N < K /\ o \in 1 .. Rows(c.site) /\ Journal[c.site][o] = c.branch
                     /\ Numbered(Journal, Arrivals, K, N + 1, num)
                  \/ /\ N = K /\ K + 1 \in 0 .. Total /\ o = Rows(c.site) + 1
                     /\ Recorded(new, Arrivals, K + 1)
                     /\ Numbered(new, Arrivals, K + 1, K + 1, num)
               /\ PipesCarry(Arrivals, N + 1, Tail(calls), micro, answers)
               /\ (N + 1) + Len(Tail(calls)) = N + Len(calls)
<1> DEFINE c == Head(calls)
<1>1. calls \in Seq(Calls) /\ micro \in Seq(Micros) /\ answers \in Seq(Asked)
      /\ ordinals \in [1 .. ReportSite -> Nat]
  BY DEF Typed, Micros
<1>2. /\ c = Arrivals[N + 1] /\ c \in Calls
      /\ PipesCarry(Arrivals, N + 1, Tail(calls), micro, answers)
      /\ (N + 1) + Len(Tail(calls)) = N + Len(calls)
  <2>1. N \in Nat
    OBVIOUS
  <2> QED BY <1>1, <2>1, TakeCall
<1>3. RowsAndCalls(Journal, Arrivals, Total) /\ Total \in Nat /\ K \in Nat
  BY ArrivalsDiffer, ArrivalFacts
<1>4. N + 1 <= Total
  <2>1. Len(calls) \in Nat /\ Len(calls) > 0 /\ Len(micro) \in Nat /\ Len(answers) \in Nat
    BY <1>1
  <2>2. Len(Script) \in Nat /\ Len(log) \in Nat /\ Total = Len(Script) + Len(log)
    BY ArrivalFacts
  <2> QED BY <2>1, <2>2 DEF Underway
<1>5. c.site \in 1 .. ReportSite /\ Len(Journal[c.site]) = Rows(c.site) /\ Rows(c.site) \in Nat
  BY <1>2, CallIs, JournalFacts
<1> HIDE DEF c
<1>6. CASE N < K
  <2>1. N \in 0 .. K - 1 /\ Arrivals[N + 1] = c
    BY <1>2, <1>6
  <2>2. LET o == ordinals[c.site] + 1
        IN  /\ o \in 1 .. Len(Journal[c.site])
            /\ Journal[c.site][o] = c.branch
            /\ Numbered(Journal, Arrivals, K, N + 1, [ordinals EXCEPT ![c.site] = o])
    BY <1>1, <1>2, <1>3, <2>1, NextIsRecorded
  <2> QED BY <1>2, <1>5, <1>6, <2>2 DEF c
<1>7. CASE N = K
  <2>1. K \in 0 .. Total - 1 /\ K + 1 \in 0 .. Total
    BY <1>3, <1>4, <1>7
  <2>2. \A j \in 1 .. ReportSite : ordinals[j] <= Len(Journal[j])
    BY JournalFacts DEF Typed
  <2>3. Numbered(Journal, Arrivals, K, K, ordinals) /\ Arrivals[K + 1] = c
    BY <1>2, <1>7
  <2>4. LET o == ordinals[c.site] + 1
            new == [Journal EXCEPT ![c.site] = Append(@, c.branch)]
        IN  /\ o = Len(Journal[c.site]) + 1
            /\ Recorded(new, Arrivals, K + 1)
            /\ Numbered(new, Arrivals, K + 1, K + 1, [ordinals EXCEPT ![c.site] = o])
    BY <1>1, <1>2, <1>3, <2>1, <2>2, <2>3, NextIsNew
  <2> QED BY <1>2, <1>5, <1>7, <2>1, <2>4 DEF c
<1> QED BY <1>6, <1>7

\* What has arrived, when the next call of site i has.
LEMMA OneArrived ==
    ASSUME Typed, NEW i \in 1 .. Sites, ordinals' = [ordinals EXCEPT ![i] = ordinals[i] + 1],
           NEW x \in (1 .. Sites) \X (Nat \ {0})
    PROVE  /\ Arrived(x)' <=> Arrived(x) \/ x = <<i, ordinals[i] + 1>>
           /\ x = <<i, ordinals[i] + 1>> => ~Arrived(x)
<1>1. /\ x = <<x[1], x[2]>> /\ x[1] \in 1 .. Sites /\ x[2] \in Nat
      /\ ordinals \in [1 .. ReportSite -> Nat]
  BY DEF Typed
<1>2. /\ x[1] \in 1 .. ReportSite /\ i \in 1 .. ReportSite
      /\ ordinals[x[1]] \in Nat /\ ordinals[i] \in Nat
      /\ ordinals'[x[1]] = IF x[1] = i THEN ordinals[i] + 1 ELSE ordinals[x[1]]
  BY <1>1, SiteFacts
<1>3. x = <<i, ordinals[i] + 1>> <=> x[1] = i /\ x[2] = ordinals[i] + 1
  BY <1>1
<1> QED BY <1>1, <1>2, <1>3 DEF Arrived

\* The recorded answer of a call that has just arrived is parked; those it makes
\* due are the next of the log.
LEMMA HoldParks ==
    ASSUME Typed, Distinct(log), NEW r, AtGate(r), NEW inst \in Elements(log),
           ~Arrived(inst), Hold(inst)
    PROVE  LET m == Pumped(parked \cup {inst})
               next == SubSeq(order, cursor + 1, cursor + m)
           IN  /\ r + Len(due) = cursor /\ Len(order) = Len(log)
               /\ \E j \in cursor + 1 .. Len(order) : log[j] = inst
               /\ inst \notin parked
               /\ m \in 0 .. Len(order) - cursor
               /\ \A n \in 1 .. m : log[cursor + n] \in parked \cup {inst}
               /\ cursor' = cursor + m
               /\ parked' = (parked \cup {inst}) \ Elements(next)
               /\ due' = due \o next
               /\ UNCHANGED <<order, log, answers>>
<1>1. /\ Len(log) \in Nat /\ Len(order) \in Nat /\ cursor \in 0 .. Len(order)
      /\ DOMAIN log = 1 .. Len(log) /\ DOMAIN order = 1 .. Len(order)
  BY DEF Typed
<1>2. PICK j \in 1 .. Len(log) : log[j] = inst
  BY <1>1 DEF Elements
<1>3. j \in cursor + 1 .. Len(order) /\ inst \notin parked
  BY <1>2 DEF AtGate
<1>4. r + Len(due) = cursor /\ Len(order) = Len(log)
  <2>1. cursor # Len(order)
    <3>1. cursor \in Int /\ Len(order) \in Int /\ j \in cursor + 1 .. Len(order)
      BY <1>1, <1>3
    <3> QED BY <3>1
  <2>2. (r + Len(due) = cursor /\ Len(order) = Len(log)) \/ CaughtUpWith(r)
    BY DEF AtGate
  <2> QED BY <2>1, <2>2 DEF CaughtUpWith
<1>5. \A k \in 1 .. Len(order) : order[k] = log[k]
  BY DEF AtGate
<1>6. inst \in Elements(order) /\ IndexOf(order, inst) = j
  <2>1. j \in 1 .. Len(order) /\ order[j] = inst
    BY <1>1, <1>2, <1>3, <1>5
  <2>2. \A k \in DOMAIN order : order[k] = inst => k = j
    BY <1>1, <1>2, <1>4, <1>5 DEF Distinct
  <2>3. inst \in Elements(order)
    BY <1>1, <2>1 DEF Elements
  <2>4. (CHOOSE k \in DOMAIN order : order[k] = inst) = j
    BY <1>1, <2>1, <2>2
  <2> QED BY <2>3, <2>4 DEF IndexOf
<1>7. ~(inst \notin Elements(order) \/ IndexOf(order, inst) <= cursor)
  BY <1>1, <1>3, <1>6
<1> DEFINE p == parked \cup {inst}
           m == Pumped(p)
           next == SubSeq(order, cursor + 1, cursor + m)
<1>8. /\ cursor' = cursor + m /\ parked' = p \ Elements(next) /\ due' = due \o next
      /\ UNCHANGED <<order, log, answers>>
  BY <1>7 DEF Hold
<1>9. m \in 0 .. Len(order) - cursor /\ \A n \in 1 .. m : order[cursor + n] \in p
  BY <1>1, PumpedParked
<1> HIDE DEF m
<1>10. \A n \in 1 .. m : log[cursor + n] \in p
  <2> TAKE n \in 1 .. m
  <2>1. cursor + n \in 1 .. Len(order)
    BY <1>1, <1>9
  <2> QED BY <1>5, <1>9, <2>1
<1> QED BY <1>2, <1>3, <1>4, <1>8, <1>9, <1>10 DEF m

-----------------------------------------------------------------------------
(* Every step but a surprise leaves the journal faithful. *)

LEMMA Continues ==
    ASSUME run' # "errored", SettlesLogged',
           NEW K \in Nat, K <= Total', NEW N \in 0 .. K, NEW r \in 0 .. Len(log'),
           Recorded(Journal', Arrivals', K), Numbered(Journal', Arrivals', K, N, ordinals'),
           PipesCarry(Arrivals', N, calls', micro', answers'),
           N + Len(calls') + Len(micro') + Len(answers') = Len(Script) + r,
           Len(calls') \in Nat, Len(micro') \in Nat, Len(answers') \in Nat, Total' \in Nat,
           AtGate(r)', AtWork'
    PROVE  Kept'
<1>1. N + Underway' = Len(Script) + r
  BY DEF Underway
<1>2. Replaying(K, N, r)'
  BY <1>1 DEF Replaying
<1>3. Faithful(K)'
  BY <1>2 DEF Faithful
<1>4. K \in 0 .. Total'
  OBVIOUS
<1> QED BY <1>3, <1>4 DEF Kept

\* A running life and its journal.
LEMMA Running ==
    ASSUME Typed, NEW K \in 0 .. Total, Faithful(K), run = "running"
    PROVE  /\ SettlesLogged /\ Distinct(log) /\ Recorded(Journal, Arrivals, K)
           /\ Total \in Nat /\ K \in Nat /\ K <= Total /\ Len(Script) \in Nat /\ Len(log) \in Nat
           /\ Total = Len(Script) + Len(log)
           /\ calls \in Seq(Calls) /\ micro \in Seq(Micros) /\ answers \in Seq(Asked)
           /\ Len(calls) \in Nat /\ Len(micro) \in Nat /\ Len(answers) \in Nat
           /\ \E N \in 0 .. K : \E r \in 0 .. Len(log) :
                /\ Numbered(Journal, Arrivals, K, N, ordinals)
                /\ PipesCarry(Arrivals, N, calls, micro, answers)
                /\ N + Len(calls) + Len(micro) + Len(answers) = Len(Script) + r
                /\ AtGate(r) /\ AtWork
<1>1. calls \in Seq(Calls) /\ micro \in Seq(Micros) /\ answers \in Seq(Asked)
  BY DEF Typed, Micros
<1>2. PICK N \in 0 .. K : \E r \in 0 .. Len(log) : Replaying(K, N, r)
  BY DEF Faithful
<1>3. PICK r \in 0 .. Len(log) : Replaying(K, N, r)
  BY <1>2
<1>4. Len(calls) \in Nat /\ Len(micro) \in Nat /\ Len(answers) \in Nat
  BY <1>1
<1>5. N + Len(calls) + Len(micro) + Len(answers) = Len(Script) + r
  BY <1>3, <1>4 DEF Replaying, Underway
<1>6. /\ Numbered(Journal, Arrivals, K, N, ordinals)
      /\ PipesCarry(Arrivals, N, calls, micro, answers)
      /\ AtGate(r) /\ AtWork
  BY <1>3 DEF Replaying
<1>7. SettlesLogged /\ Distinct(log) /\ Recorded(Journal, Arrivals, K)
  BY DEF Faithful, SettlesLogged
<1>8. /\ Total \in Nat /\ Len(Script) \in Nat /\ Len(log) \in Nat
      /\ Total = Len(Script) + Len(log)
  BY ArrivalFacts
<1>9. K \in Nat /\ K <= Total
  BY <1>8
<1> QED BY <1>1, <1>4, <1>5, <1>6, <1>7, <1>8, <1>9

LEMMA Joined ==
    ASSUME NEW S, NEW s \in Seq(S), NEW t \in Seq(S)
    PROVE  /\ s \o t \in Seq(S) /\ Len(s \o t) = Len(s) + Len(t)
           /\ \A i \in 1 .. Len(s) : (s \o t)[i] = s[i]
           /\ \A i \in 1 .. Len(t) : (s \o t)[Len(s) + i] = t[i]
OBVIOUS

LEMMA SettlesSame ==
    ASSUME UNCHANGED <<asks, log, torn>>, SettlesLogged
    PROVE  SettlesLogged'
BY DEF SettlesLogged, Made, Done

LEMMA GateSame ==
    ASSUME UNCHANGED <<log, ordinals, recorded, order, cursor, parked, due, torn>>,
           NEW r, AtGate(r)
    PROVE  AtGate(r)'
<1>1. Len(log)' = Len(log) /\ Len(order)' = Len(order) /\ Len(due)' = Len(due)
  OBVIOUS
<1>2. \A x : Arrived(x)' <=> Arrived(x)
  BY DEF Arrived
<1> QED BY <1>1, <1>2 DEF AtGate, CaughtUpWith

LEMMA WorkSame ==
    ASSUME UNCHANGED <<asks, ordinals, live>>, AtWork
    PROVE  AtWork'
BY DEF AtWork, Done, Arrived

\* The sandbox: reading answers, and its microtasks.
LEMMA DeliverKeeps ==
    ASSUME Typed, Typed', Grows, \A b, c \in Branches : Hops[b] = Hops[c],
           NEW K \in 0 .. Total, Faithful(K), NEW n \in 1 .. Len(answers), Deliver(n)
    PROVE  Kept'
<1>1. /\ run = "running" /\ micro = <<>>
      /\ micro' = [j \in 1 .. n |-> [call |-> answers[j], hops |-> Hops[answers[j].branch]]]
      /\ answers' = SubSeq(answers, n + 1, Len(answers))
      /\ UNCHANGED <<asks, reports, log, run, ordinals, recorded, order, cursor, parked, due,
                     live, torn, calls>>
  BY DEF Deliver, journal, gate
<1>2. PICK N \in 0 .. K : \E r \in 0 .. Len(log) :
        /\ Numbered(Journal, Arrivals, K, N, ordinals)
        /\ PipesCarry(Arrivals, N, calls, micro, answers)
        /\ N + Len(calls) + Len(micro) + Len(answers) = Len(Script) + r
        /\ AtGate(r) /\ AtWork
  BY <1>1, Running
<1>3. PICK r \in 0 .. Len(log) :
        /\ Numbered(Journal, Arrivals, K, N, ordinals)
        /\ PipesCarry(Arrivals, N, calls, micro, answers)
        /\ N + Len(calls) + Len(micro) + Len(answers) = Len(Script) + r
        /\ AtGate(r) /\ AtWork
  BY <1>2
<1>4. Journal' = Journal /\ Arrivals' = Arrivals /\ Total' = Total
  BY <1>1, JournalSame, ArrivalsStay
<1>5. /\ calls \in Seq(Calls) /\ answers \in Seq(Asked) /\ micro' \in Seq(Micros)
      /\ Len(calls) \in Nat /\ Len(answers) \in Nat /\ Len(micro') = n /\ n \in Nat
      /\ Len(answers') \in Nat /\ Len(<<>>) = 0
  <2>1. calls \in Seq(Calls) /\ answers \in Seq(Asked) /\ micro' \in Seq(Micros)
        /\ answers' \in Seq(Asked)
    BY DEF Typed, Micros
  <2> QED BY <1>1, <2>1
<1>6. PICK h \in Nat : Fresh(micro', answers, h)
  <2>1. \A j \in 1 .. n : answers[j] \in Asked
    BY <1>5
  <2> DEFINE h == Hops[answers[1].branch]
  <2>2. h \in Nat /\ \A j \in 1 .. n : Hops[answers[j].branch] = h
    <3>1. \A j \in 1 .. n : answers[j].branch \in Branches
      BY <2>1 DEF Asked
    <3>2. 1 \in 1 .. n
      BY <1>5
    <3> QED BY <3>1, <3>2, ReplayAssumption
  <2> HIDE DEF h
  <2>3. Fresh(micro', answers, h)
    BY <1>1, <1>5, <2>2 DEF Fresh
  <2> QED BY <2>2, <2>3
<1>7. /\ PipesCarry(Arrivals, N, calls, micro', answers')
      /\ Len(micro') + Len(answers') = Len(answers)
  <2>1. N \in Nat /\ PipesCarry(Arrivals, N, calls, <<>>, answers)
    BY <1>1, <1>3
  <2> DEFINE rest == SubSeq(answers, n + 1, Len(answers))
  <2>2. calls \in Seq(Calls) /\ answers \in Seq(Asked) /\ micro' \in Seq(Micros) /\ Len(micro') = n
    BY <1>5
  <2>3. /\ PipesCarry(Arrivals, N, calls, micro', rest)
        /\ Len(micro') + Len(rest) = Len(answers)
    BY <1>6, <2>1, <2>2, ReadAnswers
  <2>4. answers' = rest
    BY <1>1
  <2> QED BY <2>3, <2>4
<1>8. N + Len(calls') + Len(micro') + Len(answers') = Len(Script) + r
  <2>1. Len(calls') = Len(calls) /\ Len(micro) = 0
    BY <1>1, <1>5
  <2>2. /\ Len(calls) \in Nat /\ Len(micro') \in Nat /\ Len(answers') \in Nat
        /\ Len(answers) \in Nat /\ N \in Nat
    BY <1>5
  <2>3. N + Len(calls) + Len(micro) + Len(answers) = Len(Script) + r
    BY <1>3
  <2> QED BY <1>7, <2>1, <2>2, <2>3
<1>9. AtGate(r)' /\ AtWork' /\ SettlesLogged'
  BY <1>1, <1>3, GateSame, WorkSame, SettlesSame, Running
<1> QED BY <1>1, <1>3, <1>4, <1>5, <1>7, <1>8, <1>9, Running, Continues

LEMMA MicrotaskKeeps ==
    ASSUME Typed, Typed', Grows, NEW K \in 0 .. Total, Faithful(K), Microtask
    PROVE  Kept'
<1>1. /\ run = "running" /\ micro # <<>>
      /\ UNCHANGED <<asks, reports, log, run, ordinals, recorded, order, cursor, parked, due,
                     live, torn, answers>>
      /\ \/ /\ Head(micro).hops > 0 /\ calls' = calls
            /\ micro' = Append(Tail(micro), [Head(micro) EXCEPT !.hops = @ - 1])
         \/ /\ ~(Head(micro).hops > 0) /\ micro' = Tail(micro)
            /\ calls' = Append(calls, NextCall(Head(micro).call))
  BY DEF Microtask, journal, gate, NextCall
<1>2. PICK N \in 0 .. K : \E r \in 0 .. Len(log) :
        /\ Numbered(Journal, Arrivals, K, N, ordinals)
        /\ PipesCarry(Arrivals, N, calls, micro, answers)
        /\ N + Len(calls) + Len(micro) + Len(answers) = Len(Script) + r
        /\ AtGate(r) /\ AtWork
  BY <1>1, Running
<1>3. PICK r \in 0 .. Len(log) :
        /\ Numbered(Journal, Arrivals, K, N, ordinals)
        /\ PipesCarry(Arrivals, N, calls, micro, answers)
        /\ N + Len(calls) + Len(micro) + Len(answers) = Len(Script) + r
        /\ AtGate(r) /\ AtWork
  BY <1>2
<1>4. Journal' = Journal /\ Arrivals' = Arrivals /\ Total' = Total
  BY <1>1, JournalSame, ArrivalsStay
<1>5. /\ calls \in Seq(Calls) /\ answers \in Seq(Asked) /\ micro \in Seq(Micros)
      /\ Len(calls) \in Nat /\ Len(answers) \in Nat /\ Len(micro) \in Nat
      /\ Len(calls') \in Nat /\ Len(micro') \in Nat /\ N \in Nat
  <2>1. calls' \in Seq(Calls) /\ micro' \in Seq(Micros)
    BY DEF Typed, Micros
  <2>2. Len(calls') \in Nat /\ Len(micro') \in Nat
    BY <2>1
  <2> QED BY <1>1, <2>2, Running
<1>6. /\ PipesCarry(Arrivals, N, calls', micro', answers)
      /\ Len(calls') + Len(micro') = Len(calls) + Len(micro)
  <2>1. CASE Head(micro).hops > 0
    <3>1. micro' = Append(Tail(micro), [Head(micro) EXCEPT !.hops = @ - 1]) /\ calls' = calls
      BY <1>1, <2>1
    <3>2. MicroMakes(Arrivals, N + Len(calls), micro) /\ N + Len(calls) \in Nat
      BY <1>3, <1>5 DEF PipesCarry
    <3>3. MicroMakes(Arrivals, N + Len(calls), micro') /\ Len(micro') = Len(micro)
      BY <1>1, <1>5, <2>1, <3>1, <3>2, TakeTurn
    <3> QED BY <1>3, <3>1, <3>3 DEF PipesCarry
  <2>2. CASE ~(Head(micro).hops > 0)
    <3> DEFINE c == NextCall(Head(micro).call)
    <3>1. micro' = Tail(micro) /\ calls' = Append(calls, c)
      BY <1>1, <2>2
    <3>2. c \in Calls
      <4>1. Head(micro).call \in Asked
        <5>1. Head(micro) \in Micros
          <6> HIDE DEF Micros
          <6> QED BY <1>1, <1>5
        <5> QED BY <5>1 DEF Micros
      <4> QED BY <4>1, SiteFacts DEF Asked, NextCall, Call, Calls
    <3> HIDE DEF c
    <3>3. /\ PipesCarry(Arrivals, N, Append(calls, c), Tail(micro), answers)
          /\ Len(Append(calls, c)) + Len(Tail(micro)) = Len(calls) + Len(micro)
      BY <1>1, <1>3, <1>5, <2>2, <3>2, MakeCall, SMTT(30) DEF c
    <3> QED BY <3>1, <3>3
  <2> QED BY <2>1, <2>2
<1>7. N + Len(calls') + Len(micro') + Len(answers') = Len(Script) + r
  BY <1>1, <1>3, <1>5, <1>6, SMTT(30)
<1>8. AtGate(r)' /\ AtWork' /\ SettlesLogged'
  BY <1>1, <1>3, GateSame, WorkSame, SettlesSame, Running
<1> QED BY <1>1, <1>3, <1>4, <1>5, <1>6, <1>7, <1>8, Running, Continues

\* The gate delivers what it has let go.
LEMMA FlushKeeps ==
    ASSUME Typed, Typed', Grows, NEW K \in 0 .. Total, Faithful(K), Flush
    PROVE  Kept'
<1>1. /\ run = "running" /\ torn = {} /\ due # <<>> /\ due' = <<>>
      /\ log' = RecordSettled(log, due) /\ answers' = answers \o Answers(due)
      /\ UNCHANGED <<asks, reports, run, ordinals, recorded, order, cursor, parked, live,
                     torn, micro, calls>>
  BY DEF Flush
<1>2. PICK N \in 0 .. K : \E r \in 0 .. Len(log) :
        /\ Numbered(Journal, Arrivals, K, N, ordinals)
        /\ PipesCarry(Arrivals, N, calls, micro, answers)
        /\ N + Len(calls) + Len(micro) + Len(answers) = Len(Script) + r
        /\ AtGate(r) /\ AtWork
  BY <1>1, Running
<1>3. PICK r \in 0 .. Len(log) :
        /\ Numbered(Journal, Arrivals, K, N, ordinals)
        /\ PipesCarry(Arrivals, N, calls, micro, answers)
        /\ N + Len(calls) + Len(micro) + Len(answers) = Len(Script) + r
        /\ AtGate(r) /\ AtWork
  BY <1>2
<1>4. log \in Seq(Made) /\ due \in Seq(Made) /\ Len(due) \in Nat \ {0} /\ Len(log) \in Nat
      /\ DOMAIN log = 1 .. Len(log) /\ DOMAIN due = 1 .. Len(due)
      /\ Len(order) \in Nat /\ cursor \in Nat
  <2>1. log \in Seq(Made) /\ due \in Seq(Made) /\ order \in Seq(Made) /\ cursor \in 0 .. Len(order)
    BY DEF Typed
  <2> QED BY <1>1, <2>1
<1>5. /\ \A j \in 1 .. Len(due) : r + j \in 1 .. Len(log) /\ due[j] = log[r + j]
      /\ r + Len(due) = cursor /\ Len(order) = Len(log)
      /\ r + Len(due) \in 0 .. Len(log)
  <2>1. \A j \in 1 .. Len(due) : r + j <= Len(log) /\ due[j] = log[r + j]
    BY <1>3 DEF AtGate
  <2>2. r + Len(due) = cursor /\ Len(order) = Len(log)
    BY <1>1, <1>3 DEF AtGate, CaughtUpWith
  <2>3. r \in Nat /\ Len(due) \in Nat /\ Len(due) \in 1 .. Len(due) /\ Len(log) \in Nat
    BY <1>4
  <2> QED BY <2>1, <2>2, <2>3
<1>6. log' = log
  <2>1. Elements(due) \subseteq Elements(log)
    BY <1>4, <1>5 DEF Elements
  <2> QED BY <1>1, <1>4, <2>1, RecordedFirst
<1>7. Journal' = Journal /\ Arrivals' = Arrivals /\ Total' = Total
  BY <1>1, <1>6, JournalSame, ArrivalsStay
<1>8. /\ Answers(due) \in Seq(Asked) /\ Len(Answers(due)) = Len(due)
      /\ \A j \in 1 .. Len(due) : Answers(due)[j] = Answer(due[j])
  <2>1. \A j \in 1 .. Len(due) : Answer(due[j]) \in Asked
    BY <1>4, AnswerTyped
  <2> QED BY <1>4, <2>1 DEF Answers
<1>9. PipesCarry(Arrivals, N, calls, micro, answers')
  <2>1. LeadTo(Arrivals, Len(Script) + r, Answers(due))
    <3> SUFFICES ASSUME NEW j \in 1 .. Len(due)
                 PROVE  NextCall(Answers(due)[j]) = Arrivals[Len(Script) + r + j]
      BY <1>8 DEF LeadTo
    <3>1. Arrivals[Len(Script) + (r + j)] = NextCall(Answer(log[r + j]))
      BY <1>5, ArrivalFacts
    <3>2. Len(Script) + (r + j) = Len(Script) + r + j
      BY <1>4, ArrivalFacts
    <3> QED BY <1>5, <1>8, <3>1, <3>2
  <2>2. N \in Nat
    BY <1>1, Running
  <2> QED BY <1>1, <1>3, <1>8, <2>1, <2>2, Running, PutAnswers
<1>10. /\ N + Len(calls') + Len(micro') + Len(answers') = Len(Script) + (r + Len(due))
       /\ Len(answers') \in Nat
  <2>1. /\ Len(calls) \in Nat /\ Len(micro) \in Nat /\ Len(answers) \in Nat /\ N \in Nat
        /\ answers \in Seq(Asked) /\ Len(Script) \in Nat
    BY <1>1, Running
  <2>2. Len(answers') = Len(answers) + Len(due)
    <3> DEFINE bs == Answers(due)
    <3>1. bs \in Seq(Asked) /\ Len(bs) = Len(due) /\ answers' = answers \o bs
      BY <1>1, <1>8
    <3> HIDE DEF bs
    <3>2. answers \in Seq(Asked)
      BY <2>1
    <3>3. Len(answers \o bs) = Len(answers) + Len(bs)
      BY <3>1, <3>2, Joined
    <3> QED BY <3>1, <3>3
  <2>3. N + Len(calls) + Len(micro) + Len(answers) = Len(Script) + r
    BY <1>3
  <2>4. Len(due) \in Nat /\ r \in Nat /\ Len(calls') = Len(calls) /\ Len(micro') = Len(micro)
    BY <1>1, <1>4
  <2> QED BY <2>1, <2>2, <2>3, <2>4
<1>11. PICK s \in 0 .. Len(log) : s = r + Len(due)
  BY <1>5
<1>12. AtGate(s)'
  <2>1. s \in 0 .. Len(log') /\ s + Len(due') = cursor' /\ Len(order') = Len(log')
    BY <1>1, <1>4, <1>5, <1>6, <1>11
  <2>2. /\ Len(order') <= Len(log') /\ \A j \in 1 .. Len(order') : order'[j] = log'[j]
        /\ \A inst \in parked' : \E j \in cursor' + 1 .. Len(order') : inst = order'[j]
        /\ \A j \in 1 .. Len(order') : order'[j][2] <= recorded'[order'[j][1]]
    BY <1>1, <1>3, <1>6 DEF AtGate
  <2>3. \A j \in 1 .. Len(log') :
            Arrived(log[j])' <=> j \notin cursor' + 1 .. Len(order') \/ log'[j] \in parked'
    BY <1>1, <1>3, <1>6 DEF AtGate, Arrived
  <2>4. \A j \in 1 .. Len(due') : s + j <= Len(log') /\ due'[j] = log'[s + j]
    BY <1>1
  <2>5. torn' = {}
    BY <1>1
  <2> QED BY <2>1, <2>2, <2>3, <2>4, <2>5 DEF AtGate
<1>13. AtWork' /\ SettlesLogged'
  BY <1>1, <1>3, <1>6, WorkSame, SettlesSame, Running
<1>14. /\ N + Len(calls') + Len(micro') + Len(answers') = Len(Script) + s
       /\ s \in 0 .. Len(log')
  BY <1>6, <1>10, <1>11
<1>15. /\ run' # "errored" /\ K \in Nat /\ K <= Total' /\ Total' \in Nat
       /\ Len(calls') \in Nat /\ Len(micro') \in Nat
       /\ Recorded(Journal', Arrivals', K) /\ Numbered(Journal', Arrivals', K, N, ordinals')
       /\ PipesCarry(Arrivals', N, calls', micro', answers')
  BY <1>1, <1>3, <1>7, <1>9, Running
<1> QED BY <1>10, <1>12, <1>13, <1>14, <1>15, Continues

\* A live ask settles: its row is written, then its event.
LEMMA SettleRowKeeps ==
    ASSUME Typed, Typed', Grows, NEW K \in 0 .. Total, Faithful(K),
           NEW i \in 1 .. Sites, NEW o \in 1 .. Len(asks[i]), SettleRow(<<i, o>>),
           happened' = {}
    PROVE  Kept'
<1> DEFINE inst == <<i, o>>
<1>1. /\ run = "running" /\ torn = {} /\ inst \in Elements(live)
      /\ parked = {} /\ due = <<>> /\ \A j \in 1 .. ReportSite : ordinals[j] >= recorded[j]
      /\ asks' = [asks EXCEPT ![i][o].done = TRUE]
      /\ torn' = {inst} /\ live' = Without(live, IndexOf(live, inst))
      /\ UNCHANGED <<reports, log, run, ordinals, recorded, order, cursor, parked, due,
                     answers, micro, calls>>
  BY DEF SettleRow, CaughtUp, gate, sandbox
<1>2. PICK N \in 0 .. K : \E r \in 0 .. Len(log) :
        /\ Numbered(Journal, Arrivals, K, N, ordinals)
        /\ PipesCarry(Arrivals, N, calls, micro, answers)
        /\ N + Len(calls) + Len(micro) + Len(answers) = Len(Script) + r
        /\ AtGate(r) /\ AtWork
  BY <1>1, Running
<1>3. PICK r \in 0 .. Len(log) :
        /\ Numbered(Journal, Arrivals, K, N, ordinals)
        /\ PipesCarry(Arrivals, N, calls, micro, answers)
        /\ N + Len(calls) + Len(micro) + Len(answers) = Len(Script) + r
        /\ AtGate(r) /\ AtWork
  BY <1>2
<1>4. /\ asks \in [1 .. Sites -> Seq([by : Branches, done : BOOLEAN])]
      /\ log \in Seq(Made) /\ order \in Seq(Made) /\ live \in Seq(Made)
      /\ Len(log) \in Nat /\ Len(order) \in Nat /\ cursor \in 0 .. Len(order)
      /\ ordinals \in [1 .. ReportSite -> Nat] /\ recorded \in [1 .. ReportSite -> Nat]
  <2>1. log \in Seq(Made) /\ order \in Seq(Made)
    BY DEF Typed
  <2>2. Len(log) \in Nat /\ Len(order) \in Nat
    BY <2>1
  <2> QED BY <2>1, <2>2 DEF Typed
\* The rows.
<1>5. /\ \A j \in 1 .. Sites : /\ Len(asks'[j]) = Len(asks[j])
                               /\ \A p \in 1 .. Len(asks[j]) : asks'[j][p].by = asks[j][p].by
      /\ \A x \in Made : Done(x)' <=> Done(x) \/ x = inst
      /\ Made' = Made
  <2> DEFINE R == [by : Branches, done : BOOLEAN]
             row == [asks[i][o] EXCEPT !.done = TRUE]
             new == [asks[i] EXCEPT ![o] = row]
  <2>1. asks[i] \in Seq(R) /\ asks[i][o] \in R /\ \A j \in 1 .. Sites : Len(asks[j]) \in Nat
    <3>1. asks \in [1 .. Sites -> Seq(R)]
      BY <1>4
    <3> HIDE DEF R
    <3> QED BY <3>1
  <2>2. row.by = asks[i][o].by /\ row.done /\ row \in R
    BY <2>1
  <2>3. asks' = [asks EXCEPT ![i] = new]
    BY <1>1
  <2> HIDE DEF row, R
  <2>4. /\ Len(new) = Len(asks[i]) /\ new[o] = row
        /\ \A p \in 1 .. Len(asks[i]) : p # o => new[p] = asks[i][p]
    BY <2>1, <2>2
  <2> HIDE DEF new
  <2>5. asks'[i] = new /\ \A j \in 1 .. Sites : j # i => asks'[j] = asks[j]
    BY <1>4, <2>3
  <2>6. \A j \in 1 .. Sites : /\ Len(asks'[j]) = Len(asks[j])
                              /\ \A p \in 1 .. Len(asks[j]) : asks'[j][p].by = asks[j][p].by
    BY <2>2, <2>4, <2>5
  <2>7. Made' = Made
    BY <2>6 DEF Made
  <2>8. ASSUME NEW x \in Made PROVE Done(x)' <=> Done(x) \/ x = inst
    <3>1. /\ x = <<x[1], x[2]>> /\ x[1] \in 1 .. Sites /\ x[2] \in 1 .. Len(asks[x[1]])
      <4>1. x[1] \in 1 .. Sites /\ x[2] \in 1 .. Len(asks[x[1]])
        BY AnswerTyped
      <4> QED BY <4>1 DEF Made
    <3>2. x = inst <=> x[1] = i /\ x[2] = o
      BY <3>1
    <3> HIDE DEF inst
    <3> QED BY <2>2, <2>4, <2>5, <3>1, <3>2 DEF Done
  <2> QED BY <2>6, <2>7, <2>8
<1>6. inst \in Made
  BY <1>4 DEF Made
<1>7. Journal' = Journal /\ Arrivals' = Arrivals /\ Total' = Total
  BY <1>1, <1>5, JournalSame, ArrivalsStay
<1>8. ~Done(inst) /\ Arrived(inst) /\ inst \notin Elements(log)
  <2>1. ~Done(inst) /\ Arrived(inst)
    BY <1>1, <1>3 DEF AtWork
  <2>2. \A n \in 1 .. Len(log) : Done(log[n])
    BY <1>1, Running DEF SettlesLogged
  <2> HIDE DEF inst
  <2>3. DOMAIN log = 1 .. Len(log)
    BY <1>4
  <2> QED BY <2>1, <2>2, <2>3 DEF Elements
\* Nothing recorded is left to replay.
<1>9. CaughtUpWith(r)
  <2>1. (r + Len(due) = cursor /\ Len(order) = Len(log)) \/ CaughtUpWith(r)
    BY <1>3 DEF AtGate
  <2>2. CASE r + Len(due) = cursor /\ Len(order) = Len(log)
    <3>1. cursor = Len(order)
      <4> SUFFICES ASSUME cursor # Len(order) PROVE FALSE
        OBVIOUS
      <4> DEFINE j == cursor + 1
      <4>1. j \in cursor + 1 .. Len(order) /\ j \in 1 .. Len(log) /\ j \in 1 .. Len(order)
        BY <1>4, <2>2
      <4> HIDE DEF j
      <4>2. ~Arrived(log[j]) /\ order[j] = log[j]
        BY <1>1, <1>3, <4>1 DEF AtGate
      <4>3. order[j][2] <= recorded[order[j][1]]
        BY <1>3, <4>1 DEF AtGate
      <4>4. order[j][1] \in 1 .. ReportSite /\ order[j][2] \in Nat
        <5>1. order[j] \in Made
          BY <1>4, <4>1
        <5> QED BY <5>1, SiteFacts DEF Made
      <4>5. /\ ordinals[order[j][1]] >= recorded[order[j][1]]
            /\ ordinals[order[j][1]] \in Nat /\ recorded[order[j][1]] \in Nat
        BY <1>1, <1>4, <4>4
      <4> DEFINE x == order[j]
      <4>6. ~Arrived(x)
        BY <4>2
      <4>7. /\ x[2] <= recorded[x[1]] /\ x[2] \in Nat /\ ordinals[x[1]] >= recorded[x[1]]
            /\ ordinals[x[1]] \in Nat /\ recorded[x[1]] \in Nat
        BY <4>3, <4>4, <4>5
      <4> HIDE DEF x
      <4> QED BY <4>6, <4>7, SMTT(30) DEF Arrived
    <3>2. Len(due) = 0 /\ r \in Nat
      BY <1>1
    <3> QED BY <1>1, <2>2, <3>1, <3>2 DEF CaughtUpWith
  <2> QED BY <2>1, <2>2
<1>10. AtGate(r)'
  <2>1. /\ r \in 0 .. Len(log') /\ Len(order') <= Len(log')
        /\ \A j \in 1 .. Len(order') : order'[j] = log'[j]
        /\ \A x \in parked' : \E j \in cursor' + 1 .. Len(order') : x = order'[j]
        /\ \A j \in 1 .. Len(order') : order'[j][2] <= recorded'[order'[j][1]]
        /\ \A j \in 1 .. Len(due') : r + j <= Len(log') /\ due'[j] = log'[r + j]
    BY <1>1, <1>3 DEF AtGate
  <2>2. \A j \in 1 .. Len(log') :
            Arrived(log[j])' <=> j \notin cursor' + 1 .. Len(order') \/ log'[j] \in parked'
    BY <1>1, <1>3 DEF AtGate, Arrived
  <2>3. CaughtUpWith(r)'
    BY <1>1, <1>9 DEF CaughtUpWith
  <2>4. \A x \in torn' : Arrived(x)'
    BY <1>1, <1>8 DEF Arrived
  <2> QED BY <2>1, <2>2, <2>3, <2>4 DEF AtGate
<1>11. SettlesLogged'
  <2>1. Distinct(log') /\ log' = log
    BY <1>1, Running
  <2>2. \A n \in 1 .. Len(log') : Done(log[n])'
    <3>1. \A n \in 1 .. Len(log) : Done(log[n]) /\ log[n] \in Made
      <4>1. SettlesLogged
        BY <1>1, Running
      <4>2. \A n \in 1 .. Len(log) : Done(log[n])
        BY <4>1 DEF SettlesLogged
      <4>3. \A n \in 1 .. Len(log) : log[n] \in Made
        BY <1>4
      <4> QED BY <4>2, <4>3
    <3>2. \A n \in 1 .. Len(log) : Done(log[n])'
      <4> TAKE n \in 1 .. Len(log)
      <4> DEFINE x == log[n]
      <4>1. x' = x
        BY <1>1
      <4>2. x \in Made /\ Done(x)
        BY <3>1
      <4> HIDE DEF inst
      <4> QED BY <1>5, <4>1, <4>2 DEF Done
    <3> QED BY <1>1, <3>2
  <2>3. \A t \in torn' : Done(t)' /\ t \notin Elements(log') /\ torn' = {t}
    BY <1>1, <1>5, <1>6, <1>8
  <2>4. \A x \in Made' : Done(x)' => x \in Elements(log') \cup torn'
    <3> HIDE DEF inst
    <3>1. \A x \in Made : Done(x) => x \in Elements(log) \cup torn
      BY <1>1, Running DEF SettlesLogged
    <3> QED BY <1>1, <1>5, <3>1
  <2> QED BY <2>1, <2>2, <2>3, <2>4 DEF SettlesLogged
<1>12. AtWork'
  <2> HIDE DEF inst
  <2>1. Distinct(live) /\ \A x \in Elements(live) : ~Done(x) /\ Arrived(x)
    BY <1>3 DEF AtWork
  <2>2. IndexOf(live, inst) \in DOMAIN live /\ live[IndexOf(live, inst)] = inst
    BY <1>1, <1>4, IndexOfPlace
  <2>3. Distinct(live') /\ Elements(live') = Elements(live) \ {inst}
    BY <1>1, <1>4, <2>1, <2>2, WithoutElements
  <2>4. Elements(live) \subseteq Made
    BY <1>4 DEF Elements
  <2>5. \A x \in Elements(live') : ~(Done(x)') /\ Arrived(x)'
    BY <1>1, <1>5, <2>1, <2>3, <2>4 DEF Arrived
  <2> QED BY <2>3, <2>5 DEF AtWork
<1> QED BY <1>1, <1>3, <1>7, <1>10, <1>11, <1>12, Running, Continues

LEMMA SettleEventKeeps ==
    ASSUME Typed, Typed', Grows, NEW K \in 0 .. Total, Faithful(K), SettleEvent
    PROVE  Kept'
<1>1. PICK inst \in torn : Release(inst)
  BY DEF SettleEvent
<1>2. /\ run = "running" /\ torn' = {}
      /\ log' = RecordSettled(log, <<inst>>) /\ answers' = Append(answers, Answer(inst))
      /\ UNCHANGED <<asks, reports, run, ordinals, recorded, order, cursor, parked, due,
                     live, micro, calls>>
  BY <1>1 DEF SettleEvent, Release, gate
<1>3. PICK N \in 0 .. K : \E r \in 0 .. Len(log) :
        /\ Numbered(Journal, Arrivals, K, N, ordinals)
        /\ PipesCarry(Arrivals, N, calls, micro, answers)
        /\ N + Len(calls) + Len(micro) + Len(answers) = Len(Script) + r
        /\ AtGate(r) /\ AtWork
  BY <1>2, Running
<1>4. PICK r \in 0 .. Len(log) :
        /\ Numbered(Journal, Arrivals, K, N, ordinals)
        /\ PipesCarry(Arrivals, N, calls, micro, answers)
        /\ N + Len(calls) + Len(micro) + Len(answers) = Len(Script) + r
        /\ AtGate(r) /\ AtWork
  BY <1>3
<1>5. inst \in Made /\ log \in Seq(Made)
  BY DEF Typed
<1>6. Done(inst) /\ inst \notin Elements(log) /\ torn = {inst} /\ Distinct(log)
  BY <1>2, Running DEF SettlesLogged
\* Everything recorded has been replayed.
<1>7. /\ due = <<>> /\ cursor = Len(order) /\ r = Len(log) /\ Arrived(inst)
  <2>1. torn # {} => CaughtUpWith(r)
    BY <1>4 DEF AtGate
  <2>2. \A x \in torn : Arrived(x)
    BY <1>4 DEF AtGate
  <2> QED BY <2>1, <2>2 DEF CaughtUpWith
<1>8. log' = Append(log, inst)
  <2>1. <<inst>> \in Seq(Made) /\ Elements(<<inst>>) = {inst}
    BY <1>5 DEF Elements
  <2>2. RecordSettled(log, <<inst>>) = log \o <<inst>>
    BY <1>5, <1>6, <2>1, RecordedFirst
  <2>3. log \o <<inst>> = Append(log, inst)
    BY <1>5
  <2> QED BY <1>2, <2>2, <2>3
<1>9. /\ Len(log') = Len(log) + 1 /\ log'[Len(log) + 1] = inst /\ Len(log) \in Nat
      /\ \A n \in 1 .. Len(log) : log'[n] = log[n]
  BY <1>5, <1>8
<1>10. PICK L \in Nat : L = Len(log)
  BY <1>9
<1>10a. /\ Journal' = Journal
       /\ Agree(Arrivals, Arrivals', Total) /\ Total' = Total + 1
       /\ Arrivals'[Total + 1] = NextCall(Answer(inst))
  <2>1. Journal' = Journal
    BY <1>2, JournalSame
  <2>2. Agree(Arrivals, Arrivals', Total)
    BY ArrivalsStay DEF Agree
  <2>3. /\ Len(Script) \in Nat /\ Total = Len(Script) + L
        /\ Total' = Len(Script) + (L + 1)
    BY <1>9, <1>10, ArrivalFacts DEF Total
  <2>4. PICK T \in Nat : T = Len(Script) + (L + 1)
    BY <2>3
  <2>5. T \in 1 .. Total' /\ ~(T <= Len(Script)) /\ T - Len(Script) = L + 1
    BY <2>3, <2>4
  <2>6. Arrivals'[T] = NextCall(Answer(log[T - Len(Script)])')
    BY <2>5 DEF Arrivals, NextCall, Call
  <2>7. Answer(log[L + 1])' = Answer(inst)
    BY <1>2, <1>9, <1>10 DEF Answer, ByBranch, Call
  <2>8. Arrivals'[T] = NextCall(Answer(inst))
    BY <2>5, <2>6, <2>7
  <2>9. T = Total + 1 /\ Total' = Total + 1
    BY <2>3, <2>4
  <2> QED BY <2>1, <2>2, <2>8, <2>9
<1>11. Recorded(Journal', Arrivals', K) /\ Numbered(Journal', Arrivals', K, N, ordinals')
  <2>1. Agree(Arrivals, Arrivals', K) /\ K \in Nat
    BY <1>2, <1>10a, Running DEF Agree
  <2> QED BY <1>2, <1>4, <1>10a, <2>1, Running, SameArrivals
<1>12. Answer(inst) \in Asked
  BY <1>5, AnswerTyped
<1>13. /\ Len(answers') = Len(answers) + 1 /\ answers' = answers \o <<Answer(inst)>>
       /\ <<Answer(inst)>> \in Seq(Asked) /\ Len(<<Answer(inst)>>) = 1
       /\ <<Answer(inst)>>[1] = Answer(inst)
  <2>1. answers \in Seq(Asked)
    BY <1>2, Running
  <2> DEFINE x == Answer(inst)
  <2>2. x \in Asked /\ answers' = Append(answers, x)
    BY <1>2, <1>12
  <2> HIDE DEF x
  <2>3. /\ Len(Append(answers, x)) = Len(answers) + 1 /\ Append(answers, x) = answers \o <<x>>
        /\ <<x>> \in Seq(Asked) /\ Len(<<x>>) = 1 /\ <<x>>[1] = x
    BY <2>1, <2>2
  <2> QED BY <2>2, <2>3 DEF x
<1>14. N + Len(calls) + Len(micro) + Len(answers) = Total
  BY <1>2, <1>4, <1>7, Running
<1>15. PipesCarry(Arrivals', N, calls', micro', answers')
  <2>1. N \in Nat /\ calls \in Seq(Calls) /\ micro \in Seq(Micros) /\ answers \in Seq(Asked)
        /\ Total \in Nat /\ Total <= Total
    BY <1>2, Running
  <2>2. PipesCarry(Arrivals', N, calls, micro, answers)
    BY <1>4, <1>10a, <1>14, <2>1, SamePipes
  <2>3. LeadTo(Arrivals', N + Len(calls) + Len(micro) + Len(answers), <<Answer(inst)>>)
    <3> DEFINE bs == <<Answer(inst)>>
    <3>1. Len(bs) = 1 /\ NextCall(bs[1]) = Arrivals'[Total + 1]
      BY <1>10a, <1>13
    <3> HIDE DEF bs
    <3>2. \A j \in 1 .. Len(bs) : NextCall(bs[j]) = Arrivals'[Total + j]
      BY <3>1
    <3>3. LeadTo(Arrivals', Total, bs)
      BY <3>2 DEF LeadTo
    <3> QED BY <1>14, <3>3 DEF bs
  <2>4. PipesCarry(Arrivals', N, calls, micro, answers \o <<Answer(inst)>>)
    BY <1>13, <2>1, <2>2, <2>3, PutAnswers
  <2> QED BY <1>2, <1>13, <2>4
<1>16. PICK s \in 0 .. Len(log') : s = r + 1
  BY <1>7, <1>9
<1>17. AtGate(s)'
  <2>1. /\ s \in 0 .. Len(log') /\ Len(order') <= Len(log')
        /\ \A j \in 1 .. Len(order') : order'[j] = log'[j]
        /\ Len(order') \in Nat
    <3>1. Len(order) <= Len(log) /\ \A j \in 1 .. Len(order) : order[j] = log[j]
      BY <1>4 DEF AtGate
    <3>2. order' = order /\ Len(order) \in Nat
      BY <1>2 DEF Typed
    <3> QED BY <1>9, <3>1, <3>2
  <2>2. CaughtUpWith(s)'
    BY <1>2, <1>7, <1>9, <1>16 DEF CaughtUpWith
  <2>3. \A j \in 1 .. Len(order') : order'[j][2] <= recorded'[order'[j][1]]
    BY <1>2, <1>4 DEF AtGate
  <2>4. cursor' + 1 .. Len(order') = {} /\ parked' = {}
    <3>1. cursor + 1 .. Len(order) = {}
      BY <1>2, <1>7, <2>1
    <3>2. parked = {}
      BY <1>4, <3>1 DEF AtGate
    <3> QED BY <1>2, <3>1, <3>2
  <2>5. \A j \in 1 .. Len(log') : Arrived(log[j])'
    <3>1. \A j \in 1 .. Len(log) : Arrived(log[j])
      <4>1. \A j \in 1 .. Len(log) :
                Arrived(log[j]) <=> j \notin cursor + 1 .. Len(order) \/ log[j] \in parked
        BY <1>4 DEF AtGate
      <4> QED BY <1>2, <2>4, <4>1
    <3>2. \A j \in 1 .. Len(log) : Arrived(log[j])'
      BY <1>2, <1>9, <3>1 DEF Arrived
    <3>3. Arrived(log[L + 1])'
      <4>1. inst[2] <= ordinals'[inst[1]]
        BY <1>2, <1>7 DEF Arrived
      <4>2. log'[L + 1] = inst
        BY <1>9, <1>10
      <4> QED BY <4>1, <4>2 DEF Arrived
    <3>4. \A j \in 1 .. Len(log') : j \in 1 .. Len(log) \/ j = L + 1
      BY <1>9, <1>10
    <3> QED BY <3>2, <3>3, <3>4
  <2>6. Len(due') = 0
    BY <1>2, <1>7
  <2>7. torn' = {} /\ \A j \in 1 .. Len(due') : FALSE
    BY <1>2, <2>6
  <2>8. \A j \in 1 .. Len(log') :
            Arrived(log[j])' <=> j \notin cursor' + 1 .. Len(order') \/ log'[j] \in parked'
    BY <2>4, <2>5
  <2> QED BY <2>1, <2>2, <2>3, <2>4, <2>7, <2>8 DEF AtGate
<1>18. SettlesLogged'
  <2>1. Distinct(log') /\ Elements(log') = Elements(log) \cup {inst}
    BY <1>5, <1>6, <1>8, AppendElements
  <2>2. SettlesLogged /\ Made' = Made /\ \A x : Done(x)' <=> Done(x)
    BY <1>2, Running DEF Made, Done
  <2>3. \A n \in 1 .. Len(log') : Done(log'[n])
    BY <1>6, <1>9, <2>2 DEF SettlesLogged
  <2>4. \A n \in 1 .. Len(log') : Done(log[n])'
    BY <1>2, <2>3 DEF Done
  <2>5. \A x \in Made' : Done(x)' => x \in Elements(log') \cup torn'
    <3>1. \A x \in Made : Done(x) => x \in Elements(log) \cup torn
      BY <2>2 DEF SettlesLogged
    <3> QED BY <1>6, <2>1, <2>2, <3>1
  <2> QED BY <1>2, <2>1, <2>4, <2>5 DEF SettlesLogged
<1>19. AtWork'
  BY <1>2, <1>4, WorkSame
<1>20. /\ N \in Nat /\ Len(calls) \in Nat /\ Len(micro) \in Nat /\ Len(answers) \in Nat
       /\ Len(Script) \in Nat /\ K \in Nat /\ K <= Total /\ Total \in Nat
       /\ Len(calls') = Len(calls) /\ Len(micro') = Len(micro)
       /\ Len(answers') = Len(answers) + 1 /\ Total' = Total + 1 /\ s = r + 1 /\ r \in Nat
  BY <1>2, <1>13, <1>16, <1>10a, Running
<1>21. N + Len(calls) + Len(micro) + Len(answers) = Len(Script) + r
  BY <1>4
<1>22. /\ N + Len(calls') + Len(micro') + Len(answers') = Len(Script) + s
       /\ Len(calls') \in Nat /\ Len(micro') \in Nat /\ Len(answers') \in Nat
       /\ K <= Total' /\ Total' \in Nat
  BY <1>20, <1>21
<1> QED BY <1>11, <1>15, <1>17, <1>18, <1>19, <1>2, <1>20, <1>22, Continues

\* The calls that arrive: reports.
LoggedArrivedSame == \A x \in Elements(log) \cup torn : Arrived(x)' <=> Arrived(x)

LEMMA GateKept ==
    ASSUME UNCHANGED <<log, recorded, order, cursor, parked, due, torn>>, log \in Seq(Made),
           LoggedArrivedSame, NEW r, AtGate(r)
    PROVE  AtGate(r)'
<1>1. Len(log)' = Len(log) /\ Len(order)' = Len(order) /\ Len(due)' = Len(due)
  OBVIOUS
<1>2. /\ r \in 0 .. Len(log') /\ Len(order') <= Len(log')
      /\ \A j \in 1 .. Len(order') : order'[j] = log'[j]
      /\ \A j \in 1 .. Len(due') : r + j <= Len(log') /\ due'[j] = log'[r + j]
      /\ \/ r + Len(due') = cursor' /\ Len(order') = Len(log')
         \/ CaughtUpWith(r)'
      /\ torn' # {} => CaughtUpWith(r)'
      /\ \A x \in parked' : \E j \in cursor' + 1 .. Len(order') : x = order'[j]
      /\ \A j \in 1 .. Len(order') : order'[j][2] <= recorded'[order'[j][1]]
  BY DEF AtGate, CaughtUpWith
<1>3. \A j \in 1 .. Len(log') :
          Arrived(log[j])' <=> j \notin cursor' + 1 .. Len(order') \/ log'[j] \in parked'
  <2>1. \A j \in 1 .. Len(log) :
            Arrived(log[j]) <=> j \notin cursor + 1 .. Len(order) \/ log[j] \in parked
    BY DEF AtGate
  <2>2. \A j \in 1 .. Len(log) : log[j] \in Elements(log) \cup torn
    BY DEF Elements
  <2>3. \A j \in 1 .. Len(log) : Arrived(log[j])' <=> Arrived(log[j])
    BY <2>2 DEF LoggedArrivedSame, Arrived
  <2> QED BY <1>1, <2>1, <2>3
<1>4. \A x \in torn' : Arrived(x)'
  <2>1. \A x \in torn : Arrived(x)
    BY DEF AtGate
  <2> QED BY <2>1 DEF LoggedArrivedSame
<1> QED BY <1>2, <1>3, <1>4 DEF AtGate

LEMMA ReportKeeps ==
    ASSUME Typed, Typed', Grows, NEW K \in 0 .. Total, Faithful(K), ReportArrives
    PROVE  Kept'
<1> DEFINE c == Head(calls)
           o == ordinals[c.site] + 1
<1>1. /\ run = "running" /\ torn = {} /\ calls # <<>> /\ c.site = ReportSite
      /\ IF o <= Len(reports) /\ reports[o] # c.branch
         THEN Mismatch
         ELSE /\ ordinals' = [ordinals EXCEPT ![ReportSite] = o]
              /\ calls' = Tail(calls)
              /\ reports' = IF o <= Len(reports) THEN reports ELSE Append(reports, c.branch)
              /\ UNCHANGED <<asks, log, run, recorded, order, cursor, parked, due, live, torn,
                             answers, micro>>
  BY DEF ReportArrives, gate
<1>2. PICK N \in 0 .. K : \E r \in 0 .. Len(log) :
        /\ Numbered(Journal, Arrivals, K, N, ordinals)
        /\ PipesCarry(Arrivals, N, calls, micro, answers)
        /\ N + Len(calls) + Len(micro) + Len(answers) = Len(Script) + r
        /\ AtGate(r) /\ AtWork
  BY <1>1, Running
<1>3. PICK r \in 0 .. Len(log) :
        /\ Numbered(Journal, Arrivals, K, N, ordinals)
        /\ PipesCarry(Arrivals, N, calls, micro, answers)
        /\ N + Len(calls) + Len(micro) + Len(answers) = Len(Script) + r
        /\ AtGate(r) /\ AtWork
  BY <1>2
<1> DEFINE num == [ordinals EXCEPT ![c.site] = o]
           new == [Journal EXCEPT ![c.site] = Append(@, c.branch)]
<1>4. /\ c \in Calls
      /\ \/ /\ N < K /\ o \in 1 .. Rows(c.site) /\ Journal[c.site][o] = c.branch
            /\ Numbered(Journal, Arrivals, K, N + 1, num)
         \/ /\ N = K /\ K + 1 \in 0 .. Total /\ o = Rows(c.site) + 1
            /\ Recorded(new, Arrivals, K + 1)
            /\ Numbered(new, Arrivals, K + 1, K + 1, num)
      /\ PipesCarry(Arrivals, N + 1, Tail(calls), micro, answers)
      /\ (N + 1) + Len(Tail(calls)) = N + Len(calls)
  <2>1. N + Underway = Len(Script) + r
    <3>1. /\ Len(calls) \in Nat /\ Len(micro) \in Nat /\ Len(answers) \in Nat
      BY <1>1, Running
    <3> QED BY <1>3, <3>1 DEF Underway
  <2>2. Distinct(log) /\ Recorded(Journal, Arrivals, K)
    BY <1>1, Running
  <2> HIDE DEF c, o, num, new
  <2> QED BY <1>1, <1>3, <2>1, <2>2, CallTaken DEF c, o, num, new
<1>5. /\ Rows(ReportSite) = Len(reports) /\ Len(reports) \in Nat
      /\ Journal[ReportSite] = reports /\ o \in Nat /\ c.branch \in Branches
  <2>1. reports \in Seq(Branches) /\ ordinals[ReportSite] \in Nat
    BY SiteFacts DEF Typed, ReportSite
  <2> QED BY <1>1, <1>4, <2>1, JournalFacts DEF Rows, Calls
<1>6. \/ N < K /\ o <= Len(reports) /\ reports[o] = c.branch
      \/ N = K /\ o = Len(reports) + 1
  BY <1>1, <1>4, <1>5, SMTT(30)
<1>7. /\ ordinals' = num /\ calls' = Tail(calls)
      /\ reports' = IF o <= Len(reports) THEN reports ELSE Append(reports, c.branch)
      /\ UNCHANGED <<asks, log, run, recorded, order, cursor, parked, due, live, torn,
                     answers, micro>>
  BY <1>1, <1>5, <1>6
<1> HIDE DEF c, o, num, new
<1>8. Arrivals' = Arrivals /\ Total' = Total
  BY <1>7, ArrivalsStay
<1>9. /\ N + 1 \in Nat /\ Len(calls') \in Nat /\ Len(micro') \in Nat /\ Len(answers') \in Nat
      /\ (N + 1) + Len(calls') + Len(micro') + Len(answers') = Len(Script) + r
      /\ r \in 0 .. Len(log') /\ Total \in Nat /\ K \in Nat /\ K <= Total
  <2>1. /\ calls \in Seq(Calls) /\ Len(calls) \in Nat /\ Len(micro) \in Nat
        /\ Len(answers) \in Nat /\ N \in Nat /\ Len(Script) \in Nat /\ K \in Nat /\ Total \in Nat
        /\ K <= Total
    BY <1>1, Running
  <2>2. Len(Tail(calls)) \in Nat
    BY <1>1, <2>1
  <2>3. N + Len(calls) + Len(micro) + Len(answers) = Len(Script) + r
    BY <1>3
  <2>4. (N + 1) + Len(calls') = N + Len(calls)
    BY <1>4, <1>7
  <2>5. Len(calls') \in Nat /\ Len(micro') = Len(micro) /\ Len(answers') = Len(answers)
        /\ Len(log') = Len(log) /\ r \in Nat
    BY <1>7, <2>2
  <2> QED BY <2>1, <2>3, <2>4, <2>5
<1>10. PipesCarry(Arrivals', N + 1, calls', micro', answers')
  BY <1>4, <1>7, <1>8
\* The ordinals of the asks are as before.
<1>11. \A x \in Made : Arrived(x)' <=> Arrived(x)
  <2> TAKE x \in Made
  <2>1. x[1] \in 1 .. Sites /\ x[1] # ReportSite /\ x[1] \in 1 .. ReportSite
    BY SiteFacts DEF Made
  <2>2. ordinals'[x[1]] = ordinals[x[1]]
    BY <1>1, <1>7, <2>1 DEF num, Typed
  <2> QED BY <2>2 DEF Arrived
<1>12. AtGate(r)'
  <2>1. log \in Seq(Made)
    BY DEF Typed
  <2>2. LoggedArrivedSame
    <3>1. Elements(log) \cup torn \subseteq Made
      BY <1>1, <2>1 DEF Elements
    <3> QED BY <1>11, <3>1 DEF LoggedArrivedSame
  <2> QED BY <1>3, <1>7, <2>1, <2>2, GateKept
<1>13. AtWork'
  <2>1. Elements(live) \subseteq Made
    <3>1. live \in Seq(Made)
      BY DEF Typed
    <3> QED BY <3>1 DEF Elements
  <2>2. Distinct(live')
    BY <1>3, <1>7 DEF AtWork
  <2>3. ASSUME NEW inst \in Elements(live') PROVE ~Done(inst)' /\ Arrived(inst)'
    <3>1. inst \in Elements(live) /\ inst \in Made
      BY <1>7, <2>1
    <3>2. ~Done(inst) /\ Arrived(inst)
      BY <1>3, <3>1 DEF AtWork
    <3>3. ~Done(inst)'
      BY <1>7, <3>2 DEF Done
    <3> QED BY <1>11, <3>1, <3>2, <3>3
  <2> QED BY <2>2, <2>3 DEF AtWork
<1>14. SettlesLogged' /\ run' # "errored" /\ Recorded(Journal, Arrivals, K)
  BY <1>1, <1>7, SettlesSame, Running
<1>15. CASE N < K /\ o <= Len(reports) /\ reports[o] = c.branch
  <2>1. Journal' = Journal
    BY <1>7, <1>15, JournalSame
  <2>2. N + 1 \in 0 .. K
    BY <1>9, <1>15
  <2>3. Numbered(Journal, Arrivals, K, N + 1, num)
    BY <1>4, <1>15
  <2>4. PICK M \in 0 .. K : M = N + 1
    BY <2>2
  <2> QED BY <1>7, <1>8, <1>9, <1>10, <1>12, <1>13, <1>14, <2>1, <2>3, <2>4, Continues
<1>16. CASE N = K /\ o = Len(reports) + 1
  <2>1. reports' = Append(reports, c.branch)
    BY <1>5, <1>7, <1>16
  <2>2. Journal' = new
    BY <1>1, <1>5, <1>7, <2>1, JournalReport DEF new
  <2>3. /\ K + 1 \in 0 .. Total /\ Recorded(new, Arrivals, K + 1)
        /\ Numbered(new, Arrivals, K + 1, K + 1, num)
    <3>1. ~(N < K)
      BY <1>9, <1>16
    <3> QED BY <1>4, <3>1
  <2>4. PICK M \in Nat : M = K + 1
    BY <1>9
  <2>5. M <= Total' /\ M \in 0 .. M /\ Total' \in Nat /\ M = N + 1
    BY <1>8, <1>9, <1>16, <2>3, <2>4
  <2> QED BY <1>7, <1>8, <1>9, <1>10, <1>12, <1>13, <1>14, <2>2, <2>3, <2>4, <2>5, Continues
<1> QED BY <1>6, <1>15, <1>16

\* The calls that arrive: asks that have been answered before.
LEMMA HoldKeepsGate ==
    ASSUME Typed, Distinct(log), NEW r \in Nat, AtGate(r), torn = {}, UNCHANGED <<recorded, torn>>,
           NEW i \in 1 .. Sites, ordinals' = [ordinals EXCEPT ![i] = ordinals[i] + 1],
           NEW inst \in Elements(log), inst = <<i, ordinals[i] + 1>>, Hold(inst)
    PROVE  AtGate(r)' /\ UNCHANGED <<log, answers>>
<1>1. /\ log \in Seq(Made) /\ order \in Seq(Made) /\ due \in Seq(Made)
      /\ Len(log) \in Nat /\ Len(order) \in Nat /\ Len(due) \in Nat
      /\ cursor \in 0 .. Len(order) /\ cursor \in Nat
      /\ DOMAIN log = 1 .. Len(log) /\ inst \in Made
  <2>1. log \in Seq(Made) /\ order \in Seq(Made) /\ due \in Seq(Made)
        /\ cursor \in 0 .. Len(order)
    BY DEF Typed
  <2>2. Len(log) \in Nat /\ Len(order) \in Nat /\ Len(due) \in Nat /\ DOMAIN log = 1 .. Len(log)
    BY <2>1
  <2>3. inst \in Made
    <3>1. \A j \in 1 .. Len(log) : log[j] \in Made
      BY <2>1
    <3> QED BY <2>2, <3>1 DEF Elements
  <2> QED BY <2>1, <2>2, <2>3
<1>2. /\ \A x \in Made : Arrived(x)' <=> Arrived(x) \/ x = inst
      /\ ~Arrived(inst)
  <2>1. \A x \in Made : x \in (1 .. Sites) \X (Nat \ {0})
    BY DEF Made
  <2> QED BY <1>1, <2>1, OneArrived
<1> DEFINE m == Pumped(parked \cup {inst})
           next == SubSeq(order, cursor + 1, cursor + m)
<1>3. /\ r + Len(due) = cursor /\ Len(order) = Len(log)
      /\ \E j \in cursor + 1 .. Len(order) : log[j] = inst
      /\ m \in 0 .. Len(order) - cursor
      /\ \A n \in 1 .. m : log[cursor + n] \in parked \cup {inst}
      /\ cursor' = cursor + m
      /\ parked' = (parked \cup {inst}) \ Elements(next)
      /\ due' = due \o next
      /\ UNCHANGED <<order, log, answers>>
  BY <1>2, HoldParks
<1> HIDE DEF m
<1>4. \A j \in 1 .. Len(order) : order[j] = log[j]
  BY DEF AtGate
<1>5. /\ next \in Seq(Made) /\ Len(next) = m /\ m \in Nat
      /\ \A k \in 1 .. m : next[k] = log[cursor + k] /\ cursor + k \in 1 .. Len(log)
      /\ \A j \in cursor + 1 .. cursor + m : j \in 1 .. Len(log) /\ log[j] \in Elements(next)
      /\ \A j \in cursor + m + 1 .. Len(log) : log[j] \notin Elements(next)
  <2>1. /\ next \in Seq(Made) /\ Len(next) = m /\ m \in Nat /\ DOMAIN next = 1 .. m
        /\ \A k \in 1 .. m : next[k] = order[cursor + k] /\ cursor + k \in 1 .. Len(order)
    BY <1>1, <1>3
  <2> HIDE DEF next
  <2>2. \A k \in 1 .. m : next[k] = log[cursor + k] /\ cursor + k \in 1 .. Len(log)
    BY <1>3, <1>4, <2>1
  <2>3. ASSUME NEW j \in cursor + 1 .. cursor + m
        PROVE  j \in 1 .. Len(log) /\ log[j] \in Elements(next)
    <3>1. j - cursor \in 1 .. m /\ cursor + (j - cursor) = j
      BY <1>1, <2>1
    <3> QED BY <2>1, <2>2, <3>1 DEF Elements
  <2>4. ASSUME NEW j \in cursor + m + 1 .. Len(log), log[j] \in Elements(next) PROVE FALSE
    <3>1. PICK k \in 1 .. m : log[j] = log[cursor + k]
      BY <2>1, <2>2, <2>4 DEF Elements
    <3>2. cursor + k \in 1 .. Len(log) /\ j \in 1 .. Len(log) /\ j # cursor + k
      BY <1>1, <2>1, <2>2
    <3> QED BY <1>1, <3>1, <3>2 DEF Distinct
  <2> QED BY <2>1, <2>2, <2>3, <2>4
<1> HIDE DEF next
<1>6. /\ Len(due') = Len(due) + m /\ r + Len(due') = cursor' /\ Len(order') = Len(log')
  <2>1. Len(due') = Len(due) + m
    BY <1>1, <1>3, <1>5, Joined
  <2>2. Len(due) \in Nat /\ m \in Nat /\ cursor \in Nat
    BY <1>1, <1>5
  <2>3. r + Len(due) = cursor /\ cursor' = cursor + m /\ order' = order /\ log' = log
        /\ Len(order) = Len(log)
    BY <1>3
  <2> QED BY <2>1, <2>2, <2>3
<1>7. \A j \in 1 .. Len(due') : r + j <= Len(log') /\ due'[j] = log'[r + j]
  <2> TAKE j \in 1 .. Len(due')
  <2>1. CASE j \in 1 .. Len(due)
    <3>1. r + j <= Len(log) /\ due[j] = log[r + j]
      BY <2>1 DEF AtGate
    <3>2. due'[j] = due[j]
      BY <1>1, <1>3, <1>5, <2>1, Joined
    <3> QED BY <1>3, <3>1, <3>2
  <2>2. CASE j - Len(due) \in 1 .. m
    <3> DEFINE k == j - Len(due)
    <3>1. k \in 1 .. m /\ j = Len(due) + k /\ r + j = cursor + k
      <4>1. j \in Int /\ Len(due) \in Nat /\ r + Len(due) = cursor
        BY <1>1, <1>3
      <4> QED BY <2>2, <4>1
    <3> HIDE DEF k
    <3>2. due'[Len(due) + k] = next[k]
      <4>1. k \in 1 .. Len(next)
        BY <1>5, <3>1
      <4>2. \A n \in 1 .. Len(next) : (due \o next)[Len(due) + n] = next[n]
        BY <1>1, <1>5, Joined
      <4> QED BY <1>3, <4>1, <4>2
    <3>3. next[k] = log[cursor + k] /\ cursor + k <= Len(log)
      BY <1>5, <3>1
    <3> QED BY <1>3, <3>1, <3>2, <3>3
  <2>3. j \in 1 .. Len(due) \/ j - Len(due) \in 1 .. m
    BY <1>1, <1>5, <1>6
  <2> QED BY <2>1, <2>2, <2>3
<1>8. \A x \in parked' : \E j \in cursor' + 1 .. Len(order') : x = order'[j]
  <2> TAKE x \in parked'
  <2>1. PICK j \in cursor + 1 .. Len(order) : x = order[j] /\ x = log[j]
    <3>1. \A y \in parked : \E j \in cursor + 1 .. Len(order) : y = order[j]
      BY DEF AtGate
    <3>2. \A j \in cursor + 1 .. Len(order) : order[j] = log[j]
      BY <1>1, <1>4
    <3> QED BY <1>3, <3>1, <3>2, ZenonT(30)
  <2>2. j \notin cursor + 1 .. cursor + m
    BY <1>3, <1>5, <2>1
  <2>3. j \in cursor' + 1 .. Len(order')
    BY <1>1, <1>3, <1>5, <2>2
  <2> QED BY <1>3, <2>1, <2>3
<1>9. \A j \in 1 .. Len(log') :
          Arrived(log[j])' <=> j \notin cursor' + 1 .. Len(order') \/ log'[j] \in parked'
  <2> SUFFICES ASSUME NEW j \in 1 .. Len(log)
               PROVE  Arrived(log[j])' <=> j \notin cursor + m + 1 .. Len(log) \/ log[j] \in parked'
    BY <1>3
  <2>1. Arrived(log[j]) <=> j \notin cursor + 1 .. Len(log) \/ log[j] \in parked
    BY <1>3 DEF AtGate
  <2>2. Arrived(log[j])' <=> Arrived(log[j]) \/ log[j] = inst
    <3>1. PICK x \in Made : x = log[j]
      BY <1>1
    <3>2. Arrived(x)' <=> Arrived(x) \/ x = inst
      BY <1>2
    <3>3. log'[j] = x
      BY <1>3, <3>1
    <3> QED BY <3>1, <3>2, <3>3 DEF Arrived
  <2>3. CASE j \notin cursor + 1 .. Len(log)
    <3>1. j \notin cursor + m + 1 .. Len(log)
      BY <1>1, <1>5, <2>3
    <3> QED BY <2>1, <2>2, <2>3, <3>1
  <2>4. CASE j \in cursor + 1 .. cursor + m
    <3>1. j - cursor \in 1 .. m /\ cursor + (j - cursor) = j
      BY <1>1, <1>5, <2>4
    <3>2. log[j] \in parked \cup {inst}
      BY <1>3, <3>1
    <3>3. j \notin cursor + m + 1 .. Len(log)
      BY <1>1, <1>5, <2>4
    <3> QED BY <2>1, <2>2, <3>2, <3>3
  <2>5. CASE j \in cursor + m + 1 .. Len(log)
    <3>1. j \in cursor + 1 .. Len(log)
      BY <1>1, <1>5, <2>5
    <3>2. log[j] \notin Elements(next)
      BY <1>5, <2>5
    <3> QED BY <1>3, <2>1, <2>2, <2>5, <3>1, <3>2
  <2>6. \/ j \notin cursor + 1 .. Len(log) \/ j \in cursor + 1 .. cursor + m
        \/ j \in cursor + m + 1 .. Len(log)
    BY <1>1, <1>5
  <2> QED BY <2>3, <2>4, <2>5, <2>6
<1>10. /\ r \in 0 .. Len(log') /\ Len(order') <= Len(log')
       /\ \A j \in 1 .. Len(order') : order'[j] = log'[j]
       /\ \A j \in 1 .. Len(order') : order'[j][2] <= recorded'[order'[j][1]]
       /\ torn' = {}
  BY <1>3 DEF AtGate
<1>11. AtGate(r)'
  BY <1>6, <1>7, <1>8, <1>9, <1>10 DEF AtGate
<1> QED BY <1>3, <1>11

\* An ask is recorded already, or it is the next one to be recorded.
LEMMA AskTaken ==
    ASSUME Typed, NEW K \in 0 .. Total, Faithful(K), AskArrives,
           NEW N \in 0 .. K, Numbered(Journal, Arrivals, K, N, ordinals),
           PipesCarry(Arrivals, N, calls, micro, answers),
           NEW r \in 0 .. Len(log), N + Len(calls) + Len(micro) + Len(answers) = Len(Script) + r
    PROVE  \E b \in Branches : \E i \in 1 .. Sites : \E o \in Nat \ {0} :
             /\ o = ordinals[i] + 1 /\ ordinals' = [ordinals EXCEPT ![i] = o]
             /\ \/ /\ N < K /\ o \in 1 .. Len(asks[i]) /\ asks' = asks
                   /\ Numbered(Journal, Arrivals, K, N + 1, ordinals')
                \/ /\ N = K /\ K + 1 \in 0 .. Total /\ o = Len(asks[i]) + 1
                   /\ asks' = [asks EXCEPT ![i] = Append(@, [by |-> b, done |-> FALSE])]
                   /\ LET new == [Journal EXCEPT ![i] = Append(@, b)]
                      IN  /\ Recorded(new, Arrivals, K + 1)
                          /\ Numbered(new, Arrivals, K + 1, K + 1, ordinals')
             /\ PipesCarry(Arrivals, N + 1, calls', micro, answers)
             /\ (N + 1) + Len(calls') = N + Len(calls)
             /\ IF o <= Len(asks[i]) /\ Done(<<i, o>>)
                THEN Hold(<<i, o>>) /\ UNCHANGED live
                ELSE /\ live' = Append(live, <<i, o>>)
                     /\ UNCHANGED <<order, cursor, parked, due, log, answers>>
             /\ UNCHANGED <<reports, run, recorded, torn, micro>>
<1> DEFINE c == Head(calls)
           i == c.site
           o == ordinals[i] + 1
           num == [ordinals EXCEPT ![i] = o]
           new == [Journal EXCEPT ![i] = Append(@, c.branch)]
<1>1. /\ run = "running" /\ torn = {} /\ calls # <<>> /\ i # ReportSite
      /\ \/ ~(o > Len(asks[i])) /\ asks[i][o].by # c.branch
         \/ /\ ordinals' = num /\ calls' = Tail(calls)
            /\ asks' = IF o > Len(asks[i])
                       THEN [asks EXCEPT ![i] = Append(@, [by |-> c.branch, done |-> FALSE])]
                       ELSE asks
            /\ IF ~(o > Len(asks[i])) /\ Done(<<i, o>>)
               THEN Hold(<<i, o>>) /\ UNCHANGED live
               ELSE /\ live' = Append(live, <<i, o>>)
                    /\ UNCHANGED <<order, cursor, parked, due, log, answers>>
            /\ UNCHANGED <<reports, run, recorded, torn, micro>>
  BY DEF AskArrives, gate, Done
<1>2. /\ c \in Calls
      /\ \/ /\ N < K /\ o \in 1 .. Rows(i) /\ Journal[i][o] = c.branch
            /\ Numbered(Journal, Arrivals, K, N + 1, num)
         \/ /\ N = K /\ K + 1 \in 0 .. Total /\ o = Rows(i) + 1
            /\ Recorded(new, Arrivals, K + 1)
            /\ Numbered(new, Arrivals, K + 1, K + 1, num)
      /\ PipesCarry(Arrivals, N + 1, Tail(calls), micro, answers)
      /\ (N + 1) + Len(Tail(calls)) = N + Len(calls)
  <2>1. N + Underway = Len(Script) + r
    <3>1. Len(calls) \in Nat /\ Len(micro) \in Nat /\ Len(answers) \in Nat
      BY <1>1, Running
    <3> QED BY <3>1 DEF Underway
  <2>2. Distinct(log) /\ Recorded(Journal, Arrivals, K)
    BY <1>1, Running
  <2> HIDE DEF c, i, o, num, new
  <2> QED BY <1>1, <2>1, <2>2, CallTaken DEF c, i, o, num, new
<1>3. /\ c.branch \in Branches /\ i \in 1 .. Sites /\ i \in 1 .. ReportSite
      /\ Rows(i) = Len(asks[i]) /\ Len(asks[i]) \in Nat /\ o \in Nat \ {0}
      /\ \A p \in 1 .. Len(asks[i]) : Journal[i][p] = asks[i][p].by
  <2>1. c.branch \in Branches /\ i \in 1 .. Sites /\ i \in 1 .. ReportSite
    BY <1>1, <1>2, SiteFacts DEF Calls
  <2> HIDE DEF c, i, o
  <2>2. Rows(i) = Len(asks[i]) /\ Rows(i) \in Nat
    BY <2>1, JournalFacts, SiteFacts DEF Rows
  <2>3. \A p \in 1 .. Len(asks[i]) : Journal[i][p] = asks[i][p].by
    BY <2>1, JournalFacts
  <2>4. ordinals[i] \in Nat
    BY <2>1 DEF Typed
  <2>5. o \in Nat \ {0}
    BY <2>4 DEF o
  <2> QED BY <2>1, <2>2, <2>3, <2>5
<1>4. K \in Nat /\ N \in Nat
  BY <1>1, Running
<1> HIDE DEF c, i, o, num, new
<1>5. /\ ordinals' = num /\ calls' = Tail(calls)
      /\ asks' = IF o > Len(asks[i])
                 THEN [asks EXCEPT ![i] = Append(@, [by |-> c.branch, done |-> FALSE])]
                 ELSE asks
      /\ IF ~(o > Len(asks[i])) /\ Done(<<i, o>>)
         THEN Hold(<<i, o>>) /\ UNCHANGED live
         ELSE /\ live' = Append(live, <<i, o>>)
              /\ UNCHANGED <<order, cursor, parked, due, log, answers>>
      /\ UNCHANGED <<reports, run, recorded, torn, micro>>
  <2>1. ~(o > Len(asks[i])) => asks[i][o].by = c.branch
    <3>1. CASE o \in 1 .. Rows(i) /\ Journal[i][o] = c.branch
      BY <1>3, <3>1
    <3>2. CASE o = Rows(i) + 1
      BY <1>3, <3>2
    <3> QED BY <1>2, <3>1, <3>2
  <2> QED BY <1>1, <2>1
<1>6. \/ /\ N < K /\ o \in 1 .. Len(asks[i]) /\ asks' = asks
         /\ Numbered(Journal, Arrivals, K, N + 1, ordinals')
      \/ /\ N = K /\ K + 1 \in 0 .. Total /\ o = Len(asks[i]) + 1
         /\ asks' = [asks EXCEPT ![i] = Append(@, [by |-> c.branch, done |-> FALSE])]
         /\ Recorded(new, Arrivals, K + 1)
         /\ Numbered(new, Arrivals, K + 1, K + 1, ordinals')
  <2>1. CASE o \in 1 .. Rows(i)
    <3>1. ~(o > Len(asks[i])) /\ ~(o = Rows(i) + 1) /\ o \in 1 .. Len(asks[i])
      BY <1>3, <2>1
    <3> QED BY <1>2, <1>5, <3>1
  <2>2. CASE ~(o \in 1 .. Rows(i))
    <3>1. o = Rows(i) + 1
      BY <1>2, <2>2
    <3>2. o > Len(asks[i]) /\ o = Len(asks[i]) + 1
      BY <1>3, <3>1
    <3> QED BY <1>2, <1>5, <2>2, <3>2
  <2> QED BY <2>1, <2>2
<1>7. o = ordinals[i] + 1 /\ (o <= Len(asks[i]) <=> ~(o > Len(asks[i])))
  BY <1>3 DEF o
<1>8. /\ PipesCarry(Arrivals, N + 1, calls', micro, answers)
      /\ (N + 1) + Len(calls') = N + Len(calls)
  BY <1>2, <1>5
<1> QED BY <1>3, <1>5, <1>6, <1>7, <1>8 DEF num, new

LEMMA AskKeeps ==
    ASSUME Typed, Typed', Grows, NEW K \in 0 .. Total, Faithful(K), AskArrives
    PROVE  Kept'
<1>1. run = "running" /\ torn = {}
  BY DEF AskArrives
<1>2. PICK N \in 0 .. K : \E r \in 0 .. Len(log) :
        /\ Numbered(Journal, Arrivals, K, N, ordinals)
        /\ PipesCarry(Arrivals, N, calls, micro, answers)
        /\ N + Len(calls) + Len(micro) + Len(answers) = Len(Script) + r
        /\ AtGate(r) /\ AtWork
  BY <1>1, Running
<1>3. PICK r \in 0 .. Len(log) :
        /\ Numbered(Journal, Arrivals, K, N, ordinals)
        /\ PipesCarry(Arrivals, N, calls, micro, answers)
        /\ N + Len(calls) + Len(micro) + Len(answers) = Len(Script) + r
        /\ AtGate(r) /\ AtWork
  BY <1>2
<1>4. PICK b \in Branches, i \in 1 .. Sites, o \in Nat \ {0} :
        /\ o = ordinals[i] + 1 /\ ordinals' = [ordinals EXCEPT ![i] = o]
        /\ \/ /\ N < K /\ o \in 1 .. Len(asks[i]) /\ asks' = asks
              /\ Numbered(Journal, Arrivals, K, N + 1, ordinals')
           \/ /\ N = K /\ K + 1 \in 0 .. Total /\ o = Len(asks[i]) + 1
              /\ asks' = [asks EXCEPT ![i] = Append(@, [by |-> b, done |-> FALSE])]
              /\ LET new == [Journal EXCEPT ![i] = Append(@, b)]
                 IN  /\ Recorded(new, Arrivals, K + 1)
                     /\ Numbered(new, Arrivals, K + 1, K + 1, ordinals')
        /\ PipesCarry(Arrivals, N + 1, calls', micro, answers)
        /\ (N + 1) + Len(calls') = N + Len(calls)
        /\ IF o <= Len(asks[i]) /\ Done(<<i, o>>)
           THEN Hold(<<i, o>>) /\ UNCHANGED live
           ELSE /\ live' = Append(live, <<i, o>>)
                /\ UNCHANGED <<order, cursor, parked, due, log, answers>>
        /\ UNCHANGED <<reports, run, recorded, torn, micro>>
  BY <1>3, AskTaken, ZenonT(30)
<1>5. PICK inst \in (1 .. Sites) \X (Nat \ {0}) : inst = <<i, o>> /\ inst[1] = i /\ inst[2] = o
  <2> WITNESS <<i, o>> \in (1 .. Sites) \X (Nat \ {0})
  <2> QED OBVIOUS
<1>6. /\ asks \in [1 .. Sites -> Seq([by : Branches, done : BOOLEAN])]
      /\ log \in Seq(Made) /\ live \in Seq(Made) /\ DOMAIN log = 1 .. Len(log)
      /\ Len(asks[i]) \in Nat /\ Elements(log) \subseteq Made /\ Elements(live) \subseteq Made
  <2>1. asks \in [1 .. Sites -> Seq([by : Branches, done : BOOLEAN])]
        /\ log \in Seq(Made) /\ live \in Seq(Made)
    BY DEF Typed
  <2>2. Len(asks[i]) \in Nat /\ DOMAIN log = 1 .. Len(log)
    BY <2>1
  <2>3. Elements(log) \subseteq Made /\ Elements(live) \subseteq Made
    BY <2>1 DEF Elements
  <2> QED BY <2>1, <2>2, <2>3
<1>7. /\ \A x \in Made : Arrived(x)' <=> Arrived(x) \/ x = inst
      /\ ~Arrived(inst) /\ Arrived(inst)'
  <2>1. \A x \in Made : x \in (1 .. Sites) \X (Nat \ {0})
    BY DEF Made
  <2>2. ordinals' = [ordinals EXCEPT ![i] = ordinals[i] + 1] /\ inst = <<i, ordinals[i] + 1>>
    BY <1>4, <1>5
  <2> QED BY <1>5, <2>1, <2>2, OneArrived
\* The rows.
<1>8. /\ \A x \in Made : Done(x)' <=> Done(x)
      /\ \A x \in Made' : Done(x)' => x \in Made
      /\ ~(o <= Len(asks[i])) => inst \notin Made /\ ~(Done(inst)')
      /\ o <= Len(asks[i]) => inst \in Made
  <2>1. CASE o \in 1 .. Len(asks[i]) /\ asks' = asks
    <3>1. Made' = Made /\ \A x : Done(x)' <=> Done(x)
      BY <2>1 DEF Made, Done
    <3>2. inst \in Made /\ o <= Len(asks[i])
      BY <1>5, <1>6, <2>1 DEF Made
    <3> QED BY <3>1, <3>2
  <2>2. CASE /\ o = Len(asks[i]) + 1
             /\ asks' = [asks EXCEPT ![i] = Append(@, [by |-> b, done |-> FALSE])]
    <3>1. /\ Len(asks'[i]) = Len(asks[i]) + 1
          /\ asks'[i][Len(asks[i]) + 1] = [by |-> b, done |-> FALSE]
          /\ \A p \in 1 .. Len(asks[i]) : asks'[i][p] = asks[i][p]
          /\ \A j \in 1 .. Sites : j # i => asks'[j] = asks[j]
      BY <1>6, <2>2, RowAdded
    <3>2. ASSUME NEW x \in Made PROVE Done(x)' <=> Done(x)
      <4>1. x[1] \in 1 .. Sites /\ x[2] \in 1 .. Len(asks[x[1]])
        BY AnswerTyped
      <4>2. CASE x[1] = i
        BY <3>1, <4>1, <4>2 DEF Done
      <4>3. CASE x[1] # i
        <5>1. asks'[x[1]] = asks[x[1]]
          BY <3>1, <4>1, <4>3
        <5> QED BY <5>1 DEF Done
      <4> QED BY <4>2, <4>3
    <3>3. ~(Done(inst)') /\ inst \notin Made /\ ~(o <= Len(asks[i]))
      BY <1>5, <1>6, <2>2, <3>1 DEF Done, Made
    <3>4. ASSUME NEW x \in Made', x \notin Made PROVE ~(Done(x)')
      <4>1. x[1] \in 1 .. Sites /\ x[2] \in Nat \ {0} /\ x = <<x[1], x[2]>>
            /\ x[2] <= Len(asks'[x[1]]) /\ ~(x[2] <= Len(asks[x[1]]))
        BY <3>4 DEF Made
      <4>2. x[1] = i /\ x[2] = o
        BY <1>6, <2>2, <3>1, <4>1
      <4> QED BY <1>5, <3>3, <4>1, <4>2
    <3> QED BY <3>2, <3>3, <3>4
  <2> QED BY <1>4, <2>1, <2>2
<1>9. SettlesLogged
  BY <1>1, Running
<1>10. log' = log /\ answers' = answers /\ AtGate(r)' /\ AtWork'
  <2>1. CASE o <= Len(asks[i]) /\ Done(inst)
    <3>1. Hold(inst) /\ live' = live
      BY <1>4, <1>5, <2>1
    <3>2. inst \in Elements(log)
      <4>1. inst \in Made
        BY <1>8, <2>1
      <4> QED BY <1>1, <1>9, <2>1, <4>1 DEF SettlesLogged
    <3>3. AtGate(r)' /\ log' = log /\ answers' = answers
      <4>1. Distinct(log) /\ r \in Nat
        BY <1>9 DEF SettlesLogged
      <4>2. ordinals' = [ordinals EXCEPT ![i] = ordinals[i] + 1] /\ inst = <<i, ordinals[i] + 1>>
            /\ UNCHANGED <<recorded, torn>>
        BY <1>4, <1>5
      <4> QED BY <1>1, <1>3, <3>1, <3>2, <4>1, <4>2, HoldKeepsGate
    <3>4. AtWork'
      <4>1. Distinct(live) /\ \A x \in Elements(live) : ~Done(x) /\ Arrived(x)
        BY <1>3 DEF AtWork
      <4>2. \A x \in Elements(live) : ~(Done(x)') /\ Arrived(x)'
        BY <1>6, <1>7, <1>8, <4>1
      <4> QED BY <3>1, <4>1, <4>2 DEF AtWork
    <3> QED BY <3>3, <3>4
  <2>2. CASE ~(o <= Len(asks[i]) /\ Done(inst))
    <3>1. /\ live' = Append(live, inst)
          /\ UNCHANGED <<order, cursor, parked, due, log, answers, recorded, torn>>
      BY <1>4, <1>5, <2>2
    <3>2. inst \notin Elements(log)
      <4> SUFFICES ASSUME inst \in Elements(log) PROVE FALSE
        OBVIOUS
      <4>1. inst \in Made
        BY <1>6
      <4>2. PICK n \in 1 .. Len(log) : inst = log[n]
        BY <1>6 DEF Elements
      <4>3. Done(inst)
        BY <1>9, <4>2 DEF SettlesLogged
      <4> QED BY <1>8, <2>2, <4>1, <4>3
    <3>3. AtGate(r)'
      <4>1. LoggedArrivedSame
        BY <1>1, <1>6, <1>7, <3>2 DEF LoggedArrivedSame
      <4> QED BY <1>3, <1>6, <3>1, <4>1, GateKept
    <3>4. AtWork'
      <4>1. Distinct(live) /\ \A x \in Elements(live) : ~Done(x) /\ Arrived(x)
        BY <1>3 DEF AtWork
      <4>2. inst \notin Elements(live)
        BY <1>7, <4>1
      <4>3. Distinct(live') /\ Elements(live') = Elements(live) \cup {inst}
        <5>1. live \in Seq((1 .. Sites) \X (Nat \ {0}))
          BY <1>6 DEF Made
        <5> QED BY <3>1, <4>1, <4>2, <5>1, AppendElements
      <4>4. ~(Done(inst)')
        <5>1. CASE o <= Len(asks[i])
          BY <1>8, <2>2, <5>1
        <5>2. CASE ~(o <= Len(asks[i]))
          BY <1>8, <5>2
        <5> QED BY <5>1, <5>2
      <4>5. \A x \in Elements(live') : ~(Done(x)') /\ Arrived(x)'
        BY <1>6, <1>7, <1>8, <4>1, <4>3, <4>4
      <4> QED BY <4>3, <4>5 DEF AtWork
    <3> QED BY <3>1, <3>3, <3>4
  <2> QED BY <2>1, <2>2
<1>11. SettlesLogged'
  <2>1. \A n \in 1 .. Len(log') : Done(log[n])'
    <3>1. \A n \in 1 .. Len(log) : Done(log[n]) /\ log[n] \in Made
      <4>1. \A n \in 1 .. Len(log) : Done(log[n])
        BY <1>9 DEF SettlesLogged
      <4> QED BY <1>6, <4>1 DEF Elements
    <3>2. \A x \in Made : Done(x) => asks'[x[1]][x[2]].done
      BY <1>8 DEF Done
    <3> QED BY <1>10, <3>1, <3>2 DEF Done
  <2>2. \A x \in Made' : Done(x)' => x \in Elements(log') \cup torn'
    <3>1. \A x \in Made : Done(x) => x \in Elements(log) \cup torn
      BY <1>9 DEF SettlesLogged
    <3> QED BY <1>4, <1>8, <1>10, <3>1
  <2>3. Distinct(log') /\ torn' = {}
    BY <1>1, <1>4, <1>9, <1>10 DEF SettlesLogged
  <2> QED BY <2>1, <2>2, <2>3 DEF SettlesLogged
<1>12. Arrivals' = Arrivals /\ Total' = Total
  BY <1>10, ArrivalsStay
<1>13. /\ N + 1 \in Nat /\ Len(calls') \in Nat /\ Len(micro') \in Nat /\ Len(answers') \in Nat
       /\ (N + 1) + Len(calls') + Len(micro') + Len(answers') = Len(Script) + r
       /\ r \in 0 .. Len(log') /\ Total \in Nat /\ K \in Nat /\ K <= Total
  <2>1. /\ Len(calls) \in Nat /\ Len(micro) \in Nat
        /\ Len(answers) \in Nat /\ N \in Nat /\ Len(Script) \in Nat /\ K \in Nat /\ Total \in Nat
        /\ K <= Total
    BY <1>1, Running
  <2>2. Len(calls') \in Nat
    <3>1. calls' \in Seq(Calls)
      BY DEF Typed
    <3> QED BY <3>1
  <2>3. N + Len(calls) + Len(micro) + Len(answers) = Len(Script) + r
    BY <1>3
  <2>4. (N + 1) + Len(calls') = N + Len(calls)
    BY <1>4
  <2>5. Len(micro') = Len(micro) /\ Len(answers') = Len(answers)
        /\ Len(log') = Len(log) /\ r \in Nat
    BY <1>4, <1>10
  <2>6. (N + 1) + Len(calls') + Len(micro) + Len(answers) = Len(Script) + r
    BY <2>1, <2>2, <2>3, <2>4
  <2>7. N + 1 \in Nat /\ r \in 0 .. Len(log')
    BY <2>1, <2>5
  <2> QED BY <2>1, <2>2, <2>5, <2>6, <2>7
<1>14. PipesCarry(Arrivals', N + 1, calls', micro', answers') /\ run' # "errored"
  BY <1>1, <1>4, <1>10, <1>12
<1>15. CASE N < K /\ asks' = asks /\ Numbered(Journal, Arrivals, K, N + 1, ordinals')
  <2>1. Journal' = Journal
    BY <1>4, <1>15, JournalSame
  <2>2. Recorded(Journal, Arrivals, K)
    BY <1>1, Running
  <2>3. N + 1 \in 0 .. K
    BY <1>13, <1>15
  <2>4. PICK M \in 0 .. K : M = N + 1
    BY <2>3
  <2> QED BY <1>10, <1>11, <1>12, <1>13, <1>14, <1>15, <2>1, <2>2, <2>4, Continues
<1>16. CASE /\ N = K /\ K + 1 \in 0 .. Total
            /\ asks' = [asks EXCEPT ![i] = Append(@, [by |-> b, done |-> FALSE])]
            /\ LET new == [Journal EXCEPT ![i] = Append(@, b)]
               IN  /\ Recorded(new, Arrivals, K + 1)
                   /\ Numbered(new, Arrivals, K + 1, K + 1, ordinals')
  <2>1. Journal' = [Journal EXCEPT ![i] = Append(@, b)]
    BY <1>4, <1>16, JournalAsk
  <2>2. PICK M \in Nat : M = K + 1
    BY <1>13
  <2>3. M <= Total' /\ M \in 0 .. M /\ Total' \in Nat /\ M = N + 1
    BY <1>12, <1>13, <1>16, <2>2
  <2>4. Recorded(Journal', Arrivals', M) /\ Numbered(Journal', Arrivals', M, M, ordinals')
    BY <1>12, <1>16, <2>1, <2>2
  <2> QED BY <1>10, <1>11, <1>13, <1>14, <2>2, <2>3, <2>4, Continues
<1> QED BY <1>4, <1>15, <1>16

\* The next life is given the whole log to replay.
LEMMA WholeLogRecovered ==
    ASSUME Typed, NEW K \in 0 .. Total, Faithful(K)
    PROVE  RecoverSettleOrder = log
<1>1. SettlesLogged /\ Distinct(log) /\ Recorded(Journal, Arrivals, K) /\ K \in Nat
  BY ArrivalFacts DEF Faithful, SettlesLogged
<1>2. log \in Seq(Made) /\ DOMAIN log = 1 .. Len(log) /\ \A n \in 1 .. Len(log) : log[n] \in Made
  <2>1. log \in Seq(Made)
    BY DEF Typed
  <2> QED BY <2>1
<1>3. ASSUME NEW i \in 1 .. Sites PROVE Len(asks[i]) <= Cardinality(Branches)
  <2> DEFINE s == Journal[i]
  <2>1. s \in Seq(Branches) /\ Len(s) = Len(asks[i]) /\ Len(s) \in Nat /\ i \in 1 .. ReportSite
    BY JournalFacts, SiteFacts DEF Rows
  <2>2. Distinct(s)
    <3> SUFFICES ASSUME NEW o \in 1 .. Len(s), NEW p \in 1 .. Len(s), s[o] = s[p]
                 PROVE  o = p
      BY <2>1 DEF Distinct
    <3> QED BY <1>1, <2>1, JournalFacts, RowsDiffer
  <2> HIDE DEF s
  <2> DEFINE T == {s[j] : j \in 1 .. Len(s)}
  <2>3. Cardinality(T) = Len(s) /\ T \subseteq Branches
    <3>1. Len(s) \in 0 .. Len(s)
      BY <2>1
    <3>2. T \subseteq Branches
      BY <2>1
    <3>3. Cardinality(T) = Len(s)
      BY <2>1, <2>2, <3>1, FirstAreThatMany
    <3> QED BY <3>2, <3>3
  <2> HIDE DEF T
  <2>4. Cardinality(T) <= Cardinality(Branches)
    BY <2>3, ReplayAssumption, FS_Subset
  <2> QED BY <2>1, <2>3, <2>4
<1>4. ASSUME NEW n \in 1 .. Len(log) PROVE log[n] \in Settled
  <2>1. log[n] \in Made /\ Done(log[n])
    BY <1>1, <1>2 DEF SettlesLogged
  <2> DEFINE x == log[n]
  <2>2. x \in Made /\ Done(x)
    BY <2>1
  <2> HIDE DEF x
  <2>3. /\ x = <<x[1], x[2]>> /\ x[1] \in 1 .. Sites /\ x[2] \in Nat \ {0}
        /\ x[2] <= Len(asks[x[1]])
    BY <2>2 DEF Made
  <2>4. Len(asks[x[1]]) <= Cardinality(Branches) /\ Len(asks[x[1]]) \in Nat
        /\ Cardinality(Branches) \in Nat
    BY <1>3, <2>3, ReplayAssumption, FS_CardinalityType DEF Typed
  <2>5. x[2] \in 1 .. Cardinality(Branches)
    BY <2>3, <2>4
  <2>6. x \in Instances
    BY <2>3, <2>5 DEF Instances
  <2> QED BY <2>2, <2>3, <2>6 DEF Settled, Done, x
<1>5. Elements(log) \subseteq {inst \in Elements(log) : Claimable(inst)}
  BY <1>2, <1>4 DEF Elements, Claimable
<1> QED BY <1>2, <1>5, FilteredAll DEF RecoverSettleOrder

LEMMA BeginKeeps ==
    ASSUME Typed, Typed', Grows, NEW K \in 0 .. Total, Faithful(K), Begin
    PROVE  Kept'
<1>1. /\ run = "idle" /\ run' = "running"
      /\ recorded' = [i \in 1 .. ReportSite |-> Rows(i)]
      /\ order' = RecoverSettleOrder
      /\ calls' = [n \in 1 .. Len(Script) |-> Call(Script[n], 1)]
      /\ UNCHANGED <<asks, reports, log, ordinals, cursor, parked, due, live, torn, answers,
                     micro>>
  BY DEF Begin, journal
<1>2. /\ ordinals = [i \in 1 .. ReportSite |-> 0]
      /\ cursor = 0 /\ parked = {} /\ due = <<>> /\ live = <<>>
      /\ torn = {} /\ answers = <<>> /\ micro = <<>>
  BY <1>1 DEF Typed, Reset
<1>3. order' = log
  BY <1>1, WholeLogRecovered
<1>4. Journal' = Journal /\ Arrivals' = Arrivals /\ Total' = Total
  BY <1>1, JournalSame, ArrivalsStay
<1>5. SettlesLogged' /\ Recorded(Journal, Arrivals, K)
  BY <1>1, SettlesSame DEF Faithful
<1>6. /\ Len(Script) \in Nat /\ Total \in Nat /\ K \in Nat /\ K <= Total /\ Len(log) \in Nat
      /\ Len(<<>>) = 0
  BY ArrivalFacts
<1>7. Numbered(Journal', Arrivals', K, 0, ordinals')
  <2> SUFFICES ASSUME NEW i \in 1 .. ReportSite, NEW o \in 1 .. Len(Journal[i]), NEW n \in 1 .. K
               PROVE  n <= 0 <=> o <= ordinals[i]
    BY <1>1, <1>4 DEF Numbered
  <2>1. ordinals[i] = 0 /\ Len(Journal[i]) \in Nat
    BY <1>2, JournalFacts
  <2> QED BY <1>6, <2>1
<1>8. /\ Len(calls') = Len(Script) /\ Len(micro') = 0 /\ Len(answers') = 0
      /\ calls' \in Seq(Calls)
  BY <1>1, <1>2, <1>6 DEF Typed
<1>9. PipesCarry(Arrivals', 0, calls', micro', answers')
  <2>1. \A j \in 1 .. Len(calls') : calls'[j] = Arrivals'[0 + j]
    <3> TAKE j \in 1 .. Len(calls')
    <3>1. j \in 1 .. Len(Script) /\ 0 + j = j
      BY <1>6, <1>8
    <3> QED BY <1>1, <1>4, <3>1, ArrivalFacts
  <2>2. MicroMakes(Arrivals', 0 + Len(calls'), micro')
    <3>1. InTurn(Arrivals', 0 + Len(calls'), micro', 0, 0)
      BY <1>8 DEF InTurn
    <3> QED BY <1>8, <3>1 DEF MicroMakes
  <2>3. LeadTo(Arrivals', 0 + Len(calls') + Len(micro'), answers')
    BY <1>8 DEF LeadTo
  <2> QED BY <2>1, <2>2, <2>3 DEF PipesCarry
<1>10. AtGate(0)'
  <2>1. /\ 0 \in 0 .. Len(log') /\ Len(order') <= Len(log')
        /\ \A j \in 1 .. Len(order') : order'[j] = log'[j]
        /\ \A j \in 1 .. Len(due') : 0 + j <= Len(log') /\ due'[j] = log'[0 + j]
        /\ 0 + Len(due') = cursor' /\ Len(order') = Len(log')
        /\ torn' = {} /\ parked' = {} /\ cursor' = 0 /\ log' = log
    BY <1>1, <1>2, <1>3, <1>6
  <2>2. ASSUME NEW j \in 1 .. Len(log)
        PROVE  ~(Arrived(log[j])') /\ log[j][2] <= recorded'[log[j][1]]
    <3>1. /\ log[j][1] \in 1 .. ReportSite /\ log[j][2] \in Nat \ {0}
          /\ log[j][2] <= Rows(log[j][1])
      <4>1. log[j] \in Made /\ log[j][1] \in 1 .. Sites /\ log[j][1] \in 1 .. ReportSite
        BY ArrivalFacts, SiteFacts
      <4>2. log[j][2] \in Nat \ {0} /\ log[j][2] <= Len(asks[log[j][1]])
        BY <4>1 DEF Made
      <4> QED BY <4>1, <4>2, SiteFacts DEF Rows
    <3>2. ordinals'[log'[j][1]] = 0 /\ log'[j][2] \in Nat \ {0}
      BY <1>1, <1>2, <3>1
    <3> QED BY <1>1, <3>1, <3>2 DEF Arrived
  <2>3. \A j \in 1 .. Len(log') :
            Arrived(log[j])' <=> j \notin cursor' + 1 .. Len(order') \/ log'[j] \in parked'
    BY <1>6, <2>1, <2>2
  <2>4. \A j \in 1 .. Len(order') : order'[j][2] <= recorded'[order'[j][1]]
    BY <1>3, <2>2
  <2> QED BY <2>1, <2>3, <2>4 DEF AtGate
<1>11. AtWork'
  <2>1. live' = <<>>
    BY <1>1, <1>2
  <2>2. Elements(live') = {} /\ Distinct(live')
    BY <2>1 DEF Elements, Distinct
  <2> QED BY <2>2 DEF AtWork
<1>12. /\ 0 + Len(calls') + Len(micro') + Len(answers') = Len(Script) + 0
       /\ Len(calls') \in Nat /\ Len(micro') \in Nat /\ Len(answers') \in Nat
       /\ 0 \in 0 .. K /\ 0 \in 0 .. Len(log')
  BY <1>1, <1>6, <1>8
<1> QED BY <1>1, <1>4, <1>5, <1>6, <1>7, <1>9, <1>10, <1>11, <1>12, Continues

\* A life ends between two steps.
LEMMA LifeEndKeeps ==
    ASSUME Typed, Typed', Grows, NEW K \in 0 .. Total, Faithful(K), Crash \/ Complete,
           happened' = {}
    PROVE  Kept'
<1>1. /\ run = "running" /\ run' # "running" /\ run' # "errored" /\ torn = {} /\ torn' = {}
      /\ UNCHANGED <<asks, reports, log>>
  BY DEF Crash, Complete, NoHost, journal
<1>2. Journal' = Journal /\ Arrivals' = Arrivals /\ Total' = Total
  BY <1>1, JournalSame, ArrivalsStay
<1>3. SettlesLogged' /\ Recorded(Journal', Arrivals', K)
  BY <1>1, <1>2, SettlesSame, Running
<1>4. Faithful(K)'
  BY <1>1, <1>3 DEF Faithful
<1>5. K \in 0 .. Total'
  BY <1>2
<1> QED BY <1>4, <1>5 DEF Kept

LEMMA StutterKeeps ==
    ASSUME Typed, Typed', Grows, NEW K \in 0 .. Total, Faithful(K), UNCHANGED vars
    PROVE  Kept'
<1>1. UNCHANGED <<asks, reports, log, run, ordinals, recorded, order, cursor, parked, due, live,
                  torn, answers, micro, calls>>
  BY DEF vars, journal, gate, sandbox
<1>2. Journal' = Journal /\ Arrivals' = Arrivals /\ Total' = Total
  BY <1>1, JournalSame, ArrivalsStay
<1>3. SettlesLogged' /\ Recorded(Journal', Arrivals', K) /\ run' # "errored"
  BY <1>1, <1>2, SettlesSame DEF Faithful
<1>4. CASE run = "running"
  <2>1. PICK N \in 0 .. K : \E r \in 0 .. Len(log) :
          /\ Numbered(Journal, Arrivals, K, N, ordinals)
          /\ PipesCarry(Arrivals, N, calls, micro, answers)
          /\ N + Len(calls) + Len(micro) + Len(answers) = Len(Script) + r
          /\ AtGate(r) /\ AtWork
    BY <1>4, Running
  <2>2. PICK r \in 0 .. Len(log) :
          /\ Numbered(Journal, Arrivals, K, N, ordinals)
          /\ PipesCarry(Arrivals, N, calls, micro, answers)
          /\ N + Len(calls) + Len(micro) + Len(answers) = Len(Script) + r
          /\ AtGate(r) /\ AtWork
    BY <2>1
  <2>3. AtGate(r)' /\ AtWork'
    BY <1>1, <2>2, GateSame, WorkSame
  <2>4. /\ Numbered(Journal', Arrivals', K, N, ordinals')
        /\ PipesCarry(Arrivals', N, calls', micro', answers')
        /\ N + Len(calls') + Len(micro') + Len(answers') = Len(Script) + r
        /\ Len(calls') \in Nat /\ Len(micro') \in Nat /\ Len(answers') \in Nat
        /\ r \in 0 .. Len(log')
    BY <1>1, <1>2, <1>4, <2>2, Running
  <2>5. K \in Nat /\ K <= Total' /\ Total' \in Nat
    BY <1>2, <1>4, Running
  <2> QED BY <1>3, <2>3, <2>4, <2>5, Continues
<1>5. CASE run # "running"
  <2>1. Faithful(K)'
    BY <1>1, <1>3, <1>5 DEF Faithful
  <2>2. K \in 0 .. Total'
    BY <1>2
  <2> QED BY <2>1, <2>2 DEF Kept
<1> QED BY <1>4, <1>5

LEMMA InitKept == Init => Kept
<1> SUFFICES ASSUME Init PROVE Kept
  OBVIOUS
<1>1. Typed
  BY InitTyped
<1>2. /\ asks = [i \in 1 .. Sites |-> <<>>] /\ reports = <<>> /\ log = <<>> /\ run = "idle"
      /\ torn = {} /\ Len(<<>>) = 0
  BY DEF Init
<1>3. \A i \in 1 .. ReportSite : Len(Journal[i]) = 0
  <2>1. \A i \in 1 .. ReportSite : Len(Journal[i]) = Rows(i)
    BY <1>1, JournalFacts
  <2>2. \A i \in 1 .. ReportSite : Rows(i) = 0
    BY <1>2, SiteFacts DEF Rows
  <2> QED BY <2>1, <2>2
<1>4. Recorded(Journal, Arrivals, 0)
  <2>1. 1 .. 0 = {} /\ \A i \in 1 .. ReportSite : 1 .. Len(Journal[i]) = {}
    BY <1>3
  <2> QED BY <2>1 DEF Recorded
<1>5. SettlesLogged
  <2>1. Made = {}
    BY <1>2 DEF Made
  <2>2. Distinct(log) /\ 1 .. Len(log) = {}
    BY <1>2 DEF Distinct
  <2> QED BY <1>2, <2>1, <2>2 DEF SettlesLogged
<1>6. Faithful(0)
  BY <1>2, <1>4, <1>5 DEF Faithful
<1>7. 0 \in 0 .. Total
  BY <1>1, ArrivalFacts
<1> QED BY <1>6, <1>7 DEF Kept

\* The script's continuations are all of one length.
HopsAlike == \A b, c \in Branches : Hops[b] = Hops[c]

FaithfulSoFar == happened = {} => Kept

LEMMA NextKeeps == HopsAlike /\ Typed /\ FaithfulSoFar /\ [Next]_vars => FaithfulSoFar'
<1> SUFFICES ASSUME HopsAlike, Typed, FaithfulSoFar, [Next]_vars, happened' = {}
             PROVE  Kept'
  BY DEF FaithfulSoFar
<1>1. Typed' /\ Grows
  BY NextTyped
<1>2. happened = {}
  BY DEF Next, vars, Begin, AskArrives, Mismatch, ReportArrives, Flush, SettleRow, SettleEvent,
         Deliver, Microtask, Crash, Stop, Complete
<1>3. PICK K \in 0 .. Total : Faithful(K)
  BY <1>2 DEF FaithfulSoFar, Kept
<1>4. CASE UNCHANGED vars
  BY <1>1, <1>3, <1>4, StutterKeeps
<1>5. CASE Begin
  BY <1>1, <1>3, <1>5, BeginKeeps
<1>6. CASE AskArrives
  BY <1>1, <1>3, <1>6, AskKeeps
<1>7. CASE ReportArrives
  BY <1>1, <1>3, <1>7, ReportKeeps
<1>8. CASE Flush
  BY <1>1, <1>3, <1>8, FlushKeeps
<1>9. CASE \E i \in 1 .. Sites : \E o \in 1 .. Len(asks[i]) : SettleRow(<<i, o>>)
  BY <1>1, <1>3, <1>9, SettleRowKeeps
<1>10. CASE SettleEvent
  BY <1>1, <1>3, <1>10, SettleEventKeeps
<1>11. CASE \E n \in 1 .. Len(answers) : Deliver(n)
  BY <1>1, <1>3, <1>11, DeliverKeeps DEF HopsAlike
<1>12. CASE Microtask
  BY <1>1, <1>3, <1>12, MicrotaskKeeps
<1>13. CASE Crash \/ Complete
  BY <1>1, <1>3, <1>13, LifeEndKeeps
<1>14. CASE Stop
  BY <1>14 DEF Stop
<1> QED BY <1>4, <1>5, <1>6, <1>7, <1>8, <1>9, <1>10, <1>11, <1>12, <1>13, <1>14 DEF Next

LEMMA AlwaysFaithful ==
    ASSUME HopsAlike
    PROVE  Spec => [](Typed /\ FaithfulSoFar)
<1>1. Init => Typed /\ FaithfulSoFar
  BY InitTyped, InitKept DEF FaithfulSoFar
<1>2. Typed /\ FaithfulSoFar /\ [Next]_vars => (Typed /\ FaithfulSoFar)'
  BY NextTyped, NextKeeps
<1> QED BY <1>1, <1>2, PTL DEF Spec

\* A script whose branches take equally long from an answer to the next call never
\* fails its replay, whatever lives ended by a crash between two steps: the next life
\* makes, at every ordinal, the call that is recorded there (hashMismatch).
THEOREM DeterministicReplay ==
    ASSUME HopsAlike
    PROVE  Spec => []ReplayFaithful
<1>1. Typed /\ FaithfulSoFar => ReplayFaithful
  BY DEF FaithfulSoFar, Kept, Faithful, ReplayFaithful, NeverMismatched
<1> QED BY <1>1, AlwaysFaithful, PTL

\* The call of branch b at site i comes of b's settlement at the site before.
LEMMA SettledWhere ==
    ASSUME Typed, RowsAndCalls(Journal, Arrivals, Total), NEW i \in 2 .. ReportSite, NEW b,
           NEW p \in 1 .. Total, Arrivals[p] = Call(b, i)
    PROVE  p - Len(Script) \in 1 .. Len(log) /\ SettledAt(b, i - 1) = p - Len(Script)
<1>1. Len(Script) \in Nat /\ Len(log) \in Nat /\ Total = Len(Script) + Len(log)
  BY ArrivalFacts
<1>2. i \in Int /\ i - 1 \in 1 .. Sites /\ i - 1 # ReportSite /\ i # 1
  BY ReplayAssumption DEF ReportSite
<1>3. \A n \in 1 .. Len(log) :
        /\ Arrivals[Len(Script) + n] = Call(ByBranch(log[n]), log[n][1] + 1)
        /\ log[n][1] \in Int
  <2> TAKE n \in 1 .. Len(log)
  <2>1. Arrivals[Len(Script) + n] = NextCall(Answer(log[n])) /\ log[n][1] \in 1 .. Sites
    BY ArrivalFacts
  <2>2. Answer(log[n]) = Call(ByBranch(log[n]), log[n][1])
    BY DEF Answer
  <2> QED BY <2>1, <2>2, CallParts, SiteFacts DEF NextCall
<1>4. p - Len(Script) \in 1 .. Len(log) /\ p = Len(Script) + (p - Len(Script))
  <2>1. ~(p <= Len(Script))
    <3> SUFFICES ASSUME p <= Len(Script) PROVE FALSE
      OBVIOUS
    <3>1. p \in 1 .. Len(Script)
      BY <1>1
    <3>2. Arrivals[p] = Call(Script[p], 1)
      BY <3>1, ArrivalFacts
    <3>3. Call(b, i).site = i /\ Call(Script[p], 1).site = 1
      BY CallParts
    <3> QED BY <1>2, <3>2, <3>3
  <2> QED BY <1>1, <2>1
<1>5. ASSUME NEW n \in 1 .. Len(log)
      PROVE  log[n][1] = i - 1 /\ ByBranch(log[n]) = b <=> n = p - Len(Script)
  <2>1. log[n][1] = i - 1 /\ ByBranch(log[n]) = b <=> Arrivals[Len(Script) + n] = Call(b, i)
    <3>1. log[n][1] + 1 = i <=> log[n][1] = i - 1
      BY <1>2, <1>3
    <3> QED BY <1>3, <3>1, CallParts
  <2>2. Arrivals[Len(Script) + n] = Arrivals[p] <=> Len(Script) + n = p
    <3>1. Len(Script) + n \in 1 .. Total
      BY <1>1
    <3> QED BY <3>1 DEF RowsAndCalls
  <2>3. Len(Script) + n = p <=> n = p - Len(Script)
    BY <1>1
  <2> QED BY <2>1, <2>2, <2>3
<1> DEFINE at == {n \in 1 .. Len(log) : log[n][1] = i - 1 /\ ByBranch(log[n]) = b}
<1>6. at = {p - Len(Script)}
  BY <1>4, <1>5
<1>7. SettledAt(b, i - 1) = IF at = {} THEN 0 ELSE CHOOSE n \in at : TRUE
  BY DEF SettledAt
<1> HIDE DEF at
<1> QED BY <1>4, <1>6, <1>7

\* Such a script leaves a journal that explains itself: of two calls recorded at a
\* site, the branch of the earlier one settled earlier at the site before, by the order
\* of the node-settled events (recoverSettleOrder).
THEOREM CallsFollow ==
    ASSUME HopsAlike
    PROVE  Spec => []CallsFollowSettles
<1>1. ASSUME Typed, FaithfulSoFar PROVE CallsFollowSettles
  <2> SUFFICES ASSUME happened = {}, NEW i \in 2 .. ReportSite,
                      NEW m \in 1 .. Len(CallsOf(i)), NEW n \in 1 .. Len(CallsOf(i)), m < n
               PROVE  /\ SettledAt(CallsOf(i)[m], i - 1) > 0
                      /\ SettledAt(CallsOf(i)[m], i - 1) < SettledAt(CallsOf(i)[n], i - 1)
    BY DEF CallsFollowSettles
  <2>1. PICK K \in 0 .. Total : Faithful(K)
    BY <1>1 DEF FaithfulSoFar, Kept
  <2>2. /\ Recorded(Journal, Arrivals, K) /\ Distinct(log) /\ K \in Nat /\ K <= Total
        /\ Total \in Nat /\ Len(Script) \in Nat
    BY <1>1, <2>1, ArrivalFacts DEF Faithful, SettlesLogged
  <2>3. RowsAndCalls(Journal, Arrivals, Total)
    BY <1>1, <2>2, ArrivalsDiffer
  <2>4. i \in 1 .. ReportSite /\ Journal[i] = CallsOf(i)
    BY SiteFacts DEF Journal
  <2>5. PICK p \in 1 .. K : Arrivals[p] = Call(CallsOf(i)[m], i)
    BY <2>2, <2>4 DEF Recorded
  <2>6. PICK q \in 1 .. K : Arrivals[q] = Call(CallsOf(i)[n], i)
    BY <2>2, <2>4 DEF Recorded
  <2>7. p < q
    BY <2>2, <2>4, <2>5, <2>6 DEF Recorded
  <2>8. p \in 1 .. Total /\ q \in 1 .. Total
    BY <2>2
  <2>9. /\ p - Len(Script) \in 1 .. Len(log)
        /\ SettledAt(CallsOf(i)[m], i - 1) = p - Len(Script)
        /\ SettledAt(CallsOf(i)[n], i - 1) = q - Len(Script)
    BY <1>1, <2>3, <2>5, <2>6, <2>8, SettledWhere
  <2>10. p - Len(Script) > 0 /\ p - Len(Script) < q - Len(Script)
    BY <2>2, <2>7, <2>9
  <2> QED BY <2>9, <2>10
<1> QED BY <1>1, AlwaysFaithful, PTL

-----------------------------------------------------------------------------
(* A branch is in one place at a time, so a site has no more rows than there  *)
(* are branches, whatever ends a life.                                         *)

\* Where a branch may be: its call on its way to the host, its answer on the way
\* back, in the gate or not there yet.
Kinds == {"call", "micro", "answer", "due", "live", "parked", "torn"}

\* The call each thing at a place leads to next.
Way(k) ==
    CASE k = "call" -> [j \in DOMAIN calls |-> calls[j]]
      [] k = "micro" -> [j \in DOMAIN micro |-> NextCall(micro[j].call)]
      [] k = "answer" -> [j \in DOMAIN answers |-> NextCall(answers[j])]
      [] k = "due" -> [j \in DOMAIN due |-> NextCall(Answer(due[j]))]
      [] k = "live" -> [j \in DOMAIN live |-> NextCall(Answer(live[j]))]
      [] k = "parked" -> [inst \in parked |-> NextCall(Answer(inst))]
      [] k = "torn" -> [inst \in torn |-> NextCall(Answer(inst))]

\* A branch leads to one call.
OnePlace ==
    \A k, l \in Kinds : \A x \in DOMAIN Way(k), y \in DOMAIN Way(l) :
        Way(k)[x].branch = Way(l)[y].branch => k = l /\ x = y

\* It has not arrived at that call's site in this life, nor at a later one.
NotThereYet ==
    \A k \in Kinds : \A x \in DOMAIN Way(k) : \A i \in 1 .. Sites :
        Way(k)[x].site <= i =>
            \A o \in 1 .. ordinals[i] : asks[i][o].by # Way(k)[x].branch

\* No branch has made two calls at a site.
OncePerSite ==
    \A i \in 1 .. Sites : \A o, p \in 1 .. Len(asks[i]) :
        asks[i][o].by = asks[i][p].by => o = p

Ranged ==
    /\ Distinct(log) /\ Distinct(order)
    /\ run \in {"idle", "running", "completed", "errored"}
    /\ lives \in 0 .. MaxLives
    /\ Cardinality(torn) <= 1
    /\ happened \subseteq Surprises

Bounded == OnePlace /\ NotThereYet /\ OncePerSite /\ Ranged

LEMMA ConcatIs ==
    ASSUME NEW S, NEW l \in Seq(S), NEW f \in Seq(S)
    PROVE  /\ l \o f \in Seq(S) /\ Len(l \o f) = Len(l) + Len(f)
           /\ DOMAIN (l \o f) = 1 .. Len(l) + Len(f)
           /\ \A i \in 1 .. Len(l) : (l \o f)[i] = l[i]
           /\ \A i \in 1 .. Len(l) + Len(f) : i > Len(l) =>
                 i - Len(l) \in 1 .. Len(f) /\ (l \o f)[i] = f[i - Len(l)]
OBVIOUS

LEMMA RecordedDistinct ==
    ASSUME NEW S, NEW l \in Seq(S), NEW insts \in Seq(S), Distinct(l), Distinct(insts)
    PROVE  Distinct(RecordSettled(l, insts))
<1> DEFINE T == Elements(insts) \ Elements(l)
           f == Filtered(insts, T)
           m == l \o f
<1>1. f \in Seq({x \in S : x \in T}) /\ Distinct(f)
  <2> HIDE DEF T
  <2> QED BY FilteredIsSeq, FilteredDistinct
<1>2. RecordSettled(l, insts) = m
  BY DEF RecordSettled
<1> HIDE DEF f
<1>3. /\ f \in Seq(S) /\ Len(f) \in Nat /\ DOMAIN f = 1 .. Len(f)
      /\ \A j \in 1 .. Len(f) : f[j] \notin Elements(l)
  BY <1>1
<1>4. /\ Len(l) \in Nat /\ Len(m) = Len(l) + Len(f) /\ DOMAIN m = 1 .. Len(l) + Len(f)
      /\ \A i \in 1 .. Len(l) : m[i] = l[i] /\ l[i] \in Elements(l)
      /\ \A i \in 1 .. Len(l) + Len(f) : i > Len(l) =>
            i - Len(l) \in 1 .. Len(f) /\ m[i] = f[i - Len(l)]
  BY <1>3 DEF Elements
<1> HIDE DEF m
<1>5. ASSUME NEW i \in DOMAIN m, NEW j \in DOMAIN m, m[i] = m[j]
      PROVE  i = j
  <2>1. CASE i <= Len(l) /\ j <= Len(l)
    <3>1. i \in DOMAIN l /\ j \in DOMAIN l /\ l[i] = l[j]
      BY <1>4, <1>5, <2>1
    <3> QED BY <3>1 DEF Distinct
  <2>2. CASE i > Len(l) /\ j > Len(l)
    <3>1. /\ i - Len(l) \in DOMAIN f /\ j - Len(l) \in DOMAIN f
          /\ f[i - Len(l)] = f[j - Len(l)]
      BY <1>3, <1>4, <1>5, <2>2
    <3>2. i - Len(l) = j - Len(l)
      BY <1>1, <3>1 DEF Distinct
    <3> QED BY <1>4, <3>2
  <2>3. CASE i <= Len(l) /\ j > Len(l)
    BY <1>3, <1>4, <1>5, <2>3
  <2>4. CASE i > Len(l) /\ j <= Len(l)
    BY <1>3, <1>4, <1>5, <2>4
  <2> QED BY <1>4, <2>1, <2>2, <2>3, <2>4
<1>6. Distinct(m)
  BY <1>5 DEF Distinct
<1> QED BY <1>2, <1>6

LEMMA WayIs ==
    /\ Way("call") = [j \in DOMAIN calls |-> calls[j]]
    /\ Way("micro") = [j \in DOMAIN micro |-> NextCall(micro[j].call)]
    /\ Way("answer") = [j \in DOMAIN answers |-> NextCall(answers[j])]
    /\ Way("due") = [j \in DOMAIN due |-> NextCall(Answer(due[j]))]
    /\ Way("live") = [j \in DOMAIN live |-> NextCall(Answer(live[j]))]
    /\ Way("parked") = [inst \in parked |-> NextCall(Answer(inst))]
    /\ Way("torn") = [inst \in torn |-> NextCall(Answer(inst))]
BY DEF Way

\* The answer of a row after a step.
AnswerThen(inst) == Call(asks'[inst[1]][inst[2]].by, inst[1])

LEMMA WayIsThen ==
    /\ Way("call")' = [j \in DOMAIN calls' |-> calls'[j]]
    /\ Way("micro")' = [j \in DOMAIN micro' |-> NextCall(micro'[j].call)]
    /\ Way("answer")' = [j \in DOMAIN answers' |-> NextCall(answers'[j])]
    /\ Way("due")' = [j \in DOMAIN due' |-> NextCall(AnswerThen(due'[j]))]
    /\ Way("live")' = [j \in DOMAIN live' |-> NextCall(AnswerThen(live'[j]))]
    /\ Way("parked")' = [inst \in parked' |-> NextCall(AnswerThen(inst))]
    /\ Way("torn")' = [inst \in torn' |-> NextCall(AnswerThen(inst))]
BY DEF Way, NextCall, Answer, ByBranch, AnswerThen, Call

\* The same, place by place.
LEMMA WayAt ==
    /\ DOMAIN Way("call") = DOMAIN calls
    /\ DOMAIN Way("micro") = DOMAIN micro
    /\ DOMAIN Way("answer") = DOMAIN answers
    /\ DOMAIN Way("due") = DOMAIN due
    /\ DOMAIN Way("live") = DOMAIN live
    /\ DOMAIN Way("parked") = parked
    /\ DOMAIN Way("torn") = torn
    /\ \A j \in DOMAIN calls : Way("call")[j] = calls[j]
    /\ \A j \in DOMAIN micro : Way("micro")[j] = NextCall(micro[j].call)
    /\ \A j \in DOMAIN answers : Way("answer")[j] = NextCall(answers[j])
    /\ \A j \in DOMAIN due : Way("due")[j] = NextCall(Answer(due[j]))
    /\ \A j \in DOMAIN live : Way("live")[j] = NextCall(Answer(live[j]))
    /\ \A x \in parked : Way("parked")[x] = NextCall(Answer(x))
    /\ \A x \in torn : Way("torn")[x] = NextCall(Answer(x))
BY WayIs

LEMMA WayAtThen ==
    /\ DOMAIN Way("call")' = DOMAIN calls'
    /\ DOMAIN Way("micro")' = DOMAIN micro'
    /\ DOMAIN Way("answer")' = DOMAIN answers'
    /\ DOMAIN Way("due")' = DOMAIN due'
    /\ DOMAIN Way("live")' = DOMAIN live'
    /\ DOMAIN Way("parked")' = parked'
    /\ DOMAIN Way("torn")' = torn'
    /\ \A j \in DOMAIN calls' : Way("call")'[j] = calls'[j]
    /\ \A j \in DOMAIN micro' : Way("micro")'[j] = NextCall(micro'[j].call)
    /\ \A j \in DOMAIN answers' : Way("answer")'[j] = NextCall(answers'[j])
    /\ \A j \in DOMAIN due' : Way("due")'[j] = NextCall(AnswerThen(due'[j]))
    /\ \A j \in DOMAIN live' : Way("live")'[j] = NextCall(AnswerThen(live'[j]))
    /\ \A x \in parked' : Way("parked")'[x] = NextCall(AnswerThen(x))
    /\ \A x \in torn' : Way("torn")'[x] = NextCall(AnswerThen(x))
BY WayIsThen

\* What a row answers, and what that leads to, stays.
LEMMA AnswerStays ==
    ASSUME Typed, RowsGrow
    PROVE  \A inst \in Made : AnswerThen(inst) = Answer(inst)
<1> SUFFICES ASSUME NEW inst \in Made PROVE AnswerThen(inst) = Answer(inst)
  OBVIOUS
<1>1. inst[1] \in 1 .. Sites /\ inst[2] \in 1 .. Len(asks[inst[1]])
  BY AnswerTyped
<1>2. asks'[inst[1]][inst[2]].by = asks[inst[1]][inst[2]].by
  BY <1>1 DEF RowsGrow
<1> QED BY <1>2 DEF Answer, AnswerThen, ByBranch

LEMMA NextCallIs ==
    \A c : NextCall(c).branch = c.branch /\ NextCall(c).site = c.site + 1
BY DEF NextCall, Call

WaysTyped ==
    \A k \in Kinds : \A x \in DOMAIN Way(k) :
        Way(k)[x].branch \in Branches /\ Way(k)[x].site \in Nat

LEMMA WayTyped == Typed => WaysTyped
<1> SUFFICES ASSUME Typed PROVE WaysTyped
  OBVIOUS
<1>1. \A c \in Asked : NextCall(c).branch \in Branches /\ NextCall(c).site \in Nat
  BY NextCallIs, SiteFacts DEF Asked
<1>2. \A c \in Calls : c.branch \in Branches /\ c.site \in Nat
  BY SiteFacts DEF Calls
<1>3. \A j \in DOMAIN calls : calls[j] \in Calls
  BY DEF Typed
<1>4. \A j \in DOMAIN answers : answers[j] \in Asked
  BY DEF Typed
<1>5. \A j \in DOMAIN micro : micro[j].call \in Asked
  <2> DEFINE R == [call : Asked, hops : Nat]
  <2>1. micro \in Seq(R)
    BY DEF Typed
  <2>2. \A r \in R : r.call \in Asked
    OBVIOUS
  <2> HIDE DEF R
  <2> QED BY <2>1, <2>2
<1>6. /\ \A j \in DOMAIN due : due[j] \in Made
      /\ \A j \in DOMAIN live : live[j] \in Made
      /\ parked \subseteq Made /\ torn \subseteq Made
  BY DEF Typed
<1>7. \A inst \in Made : Answer(inst) \in Asked
  BY AnswerTyped
<1> QED BY <1>1, <1>2, <1>3, <1>4, <1>5, <1>6, <1>7, WayIs DEF Kinds, WaysTyped

LEMMA WayTypedThen == Typed' => WaysTyped'
BY WayTyped, PTL

\* A place nothing is put in or taken from.
LEMMA SameWay ==
    ASSUME Typed, RowsGrow
    PROVE  /\ calls' = calls => Way("call")' = Way("call")
           /\ micro' = micro => Way("micro")' = Way("micro")
           /\ answers' = answers => Way("answer")' = Way("answer")
           /\ due' = due => Way("due")' = Way("due")
           /\ live' = live => Way("live")' = Way("live")
           /\ parked' = parked => Way("parked")' = Way("parked")
           /\ torn' = torn => Way("torn")' = Way("torn")
<1>1. /\ \A j \in DOMAIN due : due[j] \in Made
      /\ \A j \in DOMAIN live : live[j] \in Made
      /\ parked \subseteq Made /\ torn \subseteq Made
  BY DEF Typed
<1>2. /\ \A j \in DOMAIN due : AnswerThen(due[j]) = Answer(due[j])
      /\ \A j \in DOMAIN live : AnswerThen(live[j]) = Answer(live[j])
      /\ \A x \in parked : AnswerThen(x) = Answer(x)
      /\ \A x \in torn : AnswerThen(x) = Answer(x)
  BY <1>1, AnswerStays
<1> QED BY <1>2, WayIs, WayIsThen

\* Everything comes from a place of its own, with the branch it has there, and
\* does not lead back.
Comes(from, at) ==
    \A k \in Kinds : \A x \in DOMAIN Way(k)' :
        /\ from[k][x] \in Kinds /\ at[k][x] \in DOMAIN Way(from[k][x])
        /\ Way(k)'[x].branch = Way(from[k][x])[at[k][x]].branch
        /\ Way(k)'[x].site >= Way(from[k][x])[at[k][x]].site

\* Indeed it leads to the same call.
Stays(from, at) ==
    \A k \in Kinds : \A x \in DOMAIN Way(k)' :
        /\ from[k][x] \in Kinds /\ at[k][x] \in DOMAIN Way(from[k][x])
        /\ Way(k)'[x] = Way(from[k][x])[at[k][x]]

Apart(from, at) ==
    \A k, l \in Kinds : \A x \in DOMAIN Way(k)', y \in DOMAIN Way(l)' :
        from[k][x] = from[l][y] /\ at[k][x] = at[l][y] => k = l /\ x = y

\* A call that has newly arrived is not one that anything leads to.
NotBack ==
    \A k \in Kinds : \A x \in DOMAIN Way(k)' : \A i \in 1 .. Sites :
        Way(k)'[x].site <= i =>
            \A o \in 1 .. ordinals'[i] :
                asks'[i][o].by = Way(k)'[x].branch => o <= ordinals[i]

LEMMA Moves ==
    ASSUME Typed, Typed', RowsGrow, OnePlace, NotThereYet, NEW from, NEW at,
           Comes(from, at), Apart(from, at), NotBack
    PROVE  OnePlace' /\ NotThereYet'
<1>1. OnePlace'
  <2> SUFFICES ASSUME NEW k \in Kinds, NEW l \in Kinds, NEW x \in DOMAIN Way(k)',
                      NEW y \in DOMAIN Way(l)', Way(k)'[x].branch = Way(l)'[y].branch
               PROVE  k = l /\ x = y
    BY DEF OnePlace, Kinds
  <2>1. from[k][x] = from[l][y] /\ at[k][x] = at[l][y]
    BY DEF OnePlace, Comes
  <2> QED BY <2>1 DEF Apart
<1>2. NotThereYet'
  <2> SUFFICES ASSUME NEW k \in Kinds, NEW x \in DOMAIN Way(k)', NEW i \in 1 .. Sites,
                      Way(k)'[x].site <= i, NEW o \in 1 .. ordinals'[i],
                      asks'[i][o].by = Way(k)'[x].branch
               PROVE  FALSE
    BY DEF NotThereYet, Kinds
  <2> DEFINE l == from[k][x]
             y == at[k][x]
  <2>1. /\ l \in Kinds /\ y \in DOMAIN Way(l)
        /\ Way(k)'[x].branch = Way(l)[y].branch /\ Way(k)'[x].site >= Way(l)[y].site
    BY DEF Comes
  <2>2. o <= ordinals[i]
    BY DEF NotBack
  <2> HIDE DEF l, y
  <2>3. Way(k)'[x].site \in Nat /\ Way(l)[y].site \in Nat /\ i \in Nat
    BY <2>1, WayTyped, WayTypedThen DEF WaysTyped, Kinds
  <2>4. o \in 1 .. ordinals[i] /\ o \in 1 .. Len(asks[i])
    <3>1. ordinals[i] \in Nat /\ ordinals'[i] \in Nat /\ ordinals[i] <= Rows(i)
      BY SiteFacts DEF Typed
    <3>2. Rows(i) = Len(asks[i])
      BY SiteFacts DEF Rows
    <3>3. Len(asks[i]) \in Nat
      BY DEF Typed
    <3> QED BY <2>2, <3>1, <3>2, <3>3
  <2>5. asks'[i][o].by = asks[i][o].by
    BY <2>4 DEF RowsGrow
  <2>6. Way(l)[y].site <= i
    BY <2>1, <2>3
  <2> QED BY <2>1, <2>4, <2>5, <2>6 DEF NotThereYet
<1> QED BY <1>1, <1>2

\* Nothing has arrived.
LEMMA StayingMoves ==
    ASSUME Typed, Typed', RowsGrow, OnePlace, NotThereYet, NEW from, NEW at,
           Stays(from, at), Apart(from, at), ordinals' = ordinals
    PROVE  OnePlace' /\ NotThereYet'
<1>1. Comes(from, at)
  <2> SUFFICES ASSUME NEW k \in Kinds, NEW x \in DOMAIN Way(k)'
               PROVE  /\ from[k][x] \in Kinds /\ at[k][x] \in DOMAIN Way(from[k][x])
                      /\ Way(k)'[x].branch = Way(from[k][x])[at[k][x]].branch
                      /\ Way(k)'[x].site >= Way(from[k][x])[at[k][x]].site
    BY DEF Comes
  <2>1. Way(k)'[x].site \in Nat
    BY WayTypedThen DEF WaysTyped, Kinds
  <2>2. /\ from[k][x] \in Kinds /\ at[k][x] \in DOMAIN Way(from[k][x])
        /\ Way(k)'[x] = Way(from[k][x])[at[k][x]]
    BY DEF Stays
  <2>3. \A s \in Nat : s >= s
    OBVIOUS
  <2>4. Way(k)'[x].site >= Way(from[k][x])[at[k][x]].site
    BY <2>1, <2>2, <2>3
  <2> QED BY <2>2, <2>4
<1>2. NotBack
  <2> SUFFICES ASSUME NEW i \in 1 .. Sites, NEW o \in 1 .. ordinals'[i] PROVE o <= ordinals[i]
    BY DEF NotBack
  <2>1. ordinals[i] \in Nat /\ ordinals'[i] = ordinals[i]
    BY SiteFacts DEF Typed
  <2> QED BY <2>1
<1> QED BY <1>1, <1>2, Moves

\* No place holds anything between lives.
LEMMA NobodyOut ==
    ASSUME Reset
    PROVE  OnePlace /\ NotThereYet /\ Distinct(order) /\ Cardinality(torn) <= 1
<1>1. \A k \in Kinds : DOMAIN Way(k) = {}
  BY WayIs DEF Reset, Kinds
<1>2. Cardinality({}) = 0
  BY FS_EmptySet
<1> QED BY <1>1, <1>2 DEF OnePlace, NotThereYet, Distinct, Reset

LEMMA NobodyOutThen == Reset' => OnePlace' /\ NotThereYet'
<1>1. Reset => OnePlace /\ NotThereYet
  BY NobodyOut
<1> QED BY <1>1, PTL

LEMMA BeginMoves ==
    ASSUME Typed, Begin
    PROVE  OnePlace' /\ NotThereYet'
<1>1. Reset /\ calls' = [n \in 1 .. Len(Script) |-> Call(Script[n], 1)]
      /\ UNCHANGED <<ordinals, parked, due, live, torn, answers, micro>>
  BY DEF Begin, Typed
<1>2. /\ DOMAIN Way("call")' = 1 .. Len(Script)
      /\ \A j \in 1 .. Len(Script) : Way("call")'[j].branch = Script[j]
      /\ \A k \in Kinds : k # "call" => DOMAIN Way(k)' = {}
  BY <1>1, WayIsThen DEF Reset, Kinds, Call
<1>3. \A i \in 1 .. Sites : ordinals'[i] = 0
  BY <1>1, SiteFacts DEF Reset
<1>4. \A i, j \in 1 .. Len(Script) : Script[i] = Script[j] => i = j
  <2>1. DOMAIN Script = 1 .. Len(Script)
    BY ReplayAssumption
  <2> QED BY <2>1, ReplayAssumption DEF Distinct
<1>5. OnePlace'
  <2> SUFFICES ASSUME NEW k \in Kinds, NEW l \in Kinds, NEW x \in DOMAIN Way(k)',
                      NEW y \in DOMAIN Way(l)', Way(k)'[x].branch = Way(l)'[y].branch
               PROVE  k = l /\ x = y
    BY DEF OnePlace, Kinds
  <2>1. k = "call" /\ l = "call"
    BY <1>2
  <2> QED BY <1>2, <1>4, <2>1
<1>6. NotThereYet'
  <2> SUFFICES ASSUME NEW i \in 1 .. Sites, NEW o \in 1 .. ordinals'[i] PROVE FALSE
    BY DEF NotThereYet, Kinds
  <2> QED BY <1>3
<1> QED BY <1>5, <1>6

LEMMA FlushMoves ==
    ASSUME Typed, Typed', RowsGrow, OnePlace, NotThereYet, Flush
    PROVE  OnePlace' /\ NotThereYet'
<1> DEFINE n == Len(answers)
           Was(k, x) == k = "answer" /\ x > n
           from == [k \in Kinds |-> [x \in DOMAIN Way(k)' |-> IF Was(k, x) THEN "due" ELSE k]]
           at == [k \in Kinds |-> [x \in DOMAIN Way(k)' |-> IF Was(k, x) THEN x - n ELSE x]]
<1>1. /\ due' = <<>> /\ answers' = answers \o Answers(due)
      /\ UNCHANGED <<ordinals, parked, live, torn, micro, calls>>
  BY DEF Flush
<1>2. \A k \in Kinds : k # "answer" /\ k # "due" => Way(k)' = Way(k)
  BY <1>1, SameWay DEF Kinds
<1>3. DOMAIN Way("due")' = {}
  BY <1>1, WayAtThen
<1>4. /\ n \in Nat /\ Len(due) \in Nat
      /\ DOMAIN Way("answer")' = 1 .. n + Len(due) /\ DOMAIN Way("due") = 1 .. Len(due)
      /\ DOMAIN Way("answer") = 1 .. n
      /\ \A x \in 1 .. n : Way("answer")'[x] = Way("answer")[x]
      /\ \A x \in 1 .. n + Len(due) : x > n => /\ x - n \in 1 .. Len(due)
                                              /\ Way("answer")'[x] = Way("due")[x - n]
  <2>1. /\ answers \in Seq(Asked) /\ due \in Seq(Made)
        /\ n \in Nat /\ Len(due) \in Nat
    <3>1. answers \in Seq(Asked) /\ due \in Seq(Made)
      BY DEF Typed
    <3> QED BY <3>1
  <2>2. /\ Answers(due) \in Seq(Asked) /\ Len(Answers(due)) = Len(due)
        /\ \A j \in 1 .. Len(due) : Answers(due)[j] = Answer(due[j])
    <3>1. \A j \in 1 .. Len(due) : Answer(due[j]) \in Asked
      BY <2>1, AnswerTyped
    <3> QED BY <2>1, <3>1 DEF Answers
  <2>3. /\ Len(answers') = n + Len(due) /\ DOMAIN answers' = 1 .. n + Len(due)
        /\ \A x \in 1 .. n : answers'[x] = answers[x]
        /\ \A x \in 1 .. n + Len(due) : x > n => /\ x - n \in 1 .. Len(due)
                                                /\ answers'[x] = Answer(due[x - n])
    <3> DEFINE more == Answers(due)
    <3>1. /\ answers' = answers \o more /\ more \in Seq(Asked) /\ Len(more) = Len(due)
          /\ \A j \in 1 .. Len(due) : more[j] = Answer(due[j])
      BY <1>1, <2>2
    <3> HIDE DEF more
    <3>2. /\ Len(answers \o more) = n + Len(more) /\ DOMAIN (answers \o more) = 1 .. n + Len(more)
          /\ \A x \in 1 .. n : (answers \o more)[x] = answers[x]
          /\ \A x \in 1 .. n + Len(more) : x > n =>
                x - n \in 1 .. Len(more) /\ (answers \o more)[x] = more[x - n]
      <4>1. answers \in Seq(Asked) /\ more \in Seq(Asked)
        BY <2>1, <3>1
      <4> HIDE DEF n
      <4>2. /\ Len(answers \o more) = Len(answers) + Len(more)
            /\ DOMAIN (answers \o more) = 1 .. Len(answers) + Len(more)
            /\ \A x \in 1 .. Len(answers) : (answers \o more)[x] = answers[x]
            /\ \A x \in 1 .. Len(answers) + Len(more) : x > Len(answers) =>
                  /\ x - Len(answers) \in 1 .. Len(more)
                  /\ (answers \o more)[x] = more[x - Len(answers)]
        BY ONLY <4>1, ConcatIs
      <4> QED BY <4>2 DEF n
    <3> HIDE DEF n
    <3> QED BY <3>1, <3>2
  <2>4. DOMAIN answers = 1 .. n /\ DOMAIN due = 1 .. Len(due)
    BY <2>1
  <2> HIDE DEF n
  <2>5. \A x \in 1 .. n : x \in 1 .. n + Len(due)
    BY <2>1
  <2>6. DOMAIN Way("answer")' = 1 .. n + Len(due) /\ DOMAIN Way("due") = 1 .. Len(due)
        /\ DOMAIN Way("answer") = 1 .. n
    BY <2>3, <2>4, WayAt, WayAtThen
  <2>7. \A x \in 1 .. n : Way("answer")'[x] = Way("answer")[x]
    BY <2>3, <2>4, <2>5, WayAt, WayAtThen
  <2>8. \A x \in 1 .. n + Len(due) : x > n => /\ x - n \in 1 .. Len(due)
                                              /\ Way("answer")'[x] = Way("due")[x - n]
    <3> SUFFICES ASSUME NEW x \in 1 .. n + Len(due), x > n
                 PROVE  x - n \in 1 .. Len(due) /\ Way("answer")'[x] = Way("due")[x - n]
      OBVIOUS
    <3>1. x - n \in DOMAIN due /\ answers'[x] = Answer(due[x - n])
      BY <2>3, <2>4
    <3>2. Way("due")[x - n] = NextCall(Answer(due[x - n]))
      BY <3>1, WayAt
    <3>3. Way("answer")'[x] = NextCall(answers'[x])
      BY <2>3, WayAtThen
    <3> QED BY <2>4, <3>1, <3>2, <3>3
  <2> QED BY <2>1, <2>6, <2>7, <2>8
<1>5. Stays(from, at)
  <2> HIDE DEF n
  <2> QED BY <1>2, <1>3, <1>4 DEF Kinds, Stays
<1>6. Apart(from, at)
  <2> HIDE DEF n
  <2> QED BY <1>2, <1>3, <1>4 DEF Kinds, Apart
<1> HIDE DEF from, at, n
<1> QED BY <1>1, <1>5, <1>6, StayingMoves

LEMMA SettleRowMoves ==
    ASSUME Typed, Typed', RowsGrow, OnePlace, NotThereYet,
           NEW inst \in Made, SettleRow(inst)
    PROVE  OnePlace' /\ NotThereYet'
<1> DEFINE p == IndexOf(live, inst)
           from == [k \in Kinds |-> [x \in DOMAIN Way(k)' |->
                        IF k = "torn" THEN "live" ELSE k]]
           at == [k \in Kinds |-> [x \in DOMAIN Way(k)' |->
                      IF k = "torn" THEN p ELSE IF k = "live" /\ x >= p THEN x + 1 ELSE x]]
<1>1. /\ torn' = {inst} /\ live' = Without(live, p) /\ inst \in Elements(live)
      /\ UNCHANGED <<ordinals, parked, due, answers, micro, calls>>
  BY DEF SettleRow, gate, sandbox
<1>2. /\ live \in Seq(Made) /\ p \in DOMAIN live /\ live[p] = inst
      /\ Len(live) \in Nat /\ DOMAIN live = 1 .. Len(live)
  <2>1. live \in Seq(Made)
    BY DEF Typed
  <2> QED BY <1>1, <2>1, IndexOfPlace
<1> HIDE DEF p
<1>3. \A k \in Kinds : k # "torn" /\ k # "live" => Way(k)' = Way(k)
  BY <1>1, SameWay DEF Kinds
<1>4. /\ DOMAIN live' = 1 .. Len(live) - 1
      /\ \A x \in 1 .. Len(live) - 1 : live'[x] = IF x < p THEN live[x] ELSE live[x + 1]
  BY <1>1, <1>2 DEF Without
<1>5. \A x \in Made : AnswerThen(x) = Answer(x)
  BY AnswerStays
<1>6. /\ DOMAIN Way("live") = 1 .. Len(live) /\ DOMAIN Way("live")' = 1 .. Len(live) - 1
      /\ \A x \in 1 .. Len(live) - 1 :
            Way("live")'[x] = Way("live")[IF x >= p THEN x + 1 ELSE x]
      /\ DOMAIN Way("torn")' = {inst} /\ Way("torn")'[inst] = Way("live")[p]
  <2>1. \A x \in 1 .. Len(live) : live[x] \in Made
    BY <1>2
  <2>2. /\ DOMAIN Way("live") = 1 .. Len(live)
        /\ \A x \in 1 .. Len(live) : Way("live")[x] = NextCall(Answer(live[x]))
    BY <1>2, WayAt
  <2>3. ASSUME NEW x \in 1 .. Len(live) - 1
        PROVE  Way("live")'[x] = Way("live")[IF x >= p THEN x + 1 ELSE x]
    <3> DEFINE z == IF x >= p THEN x + 1 ELSE x
    <3>1. z \in 1 .. Len(live) /\ live'[x] = live[z]
      BY <1>2, <1>4
    <3> HIDE DEF z
    <3>2. Way("live")'[x] = NextCall(AnswerThen(live'[x]))
      BY <1>4, WayAtThen
    <3>3. Way("live")'[x] = Way("live")[z]
      BY <1>5, <2>1, <2>2, <3>1, <3>2
    <3> QED BY <3>3 DEF z
  <2>4. DOMAIN Way("live")' = 1 .. Len(live) - 1
    BY <1>4, WayAtThen
  <2>5. DOMAIN Way("torn")' = {inst} /\ Way("torn")'[inst] = NextCall(AnswerThen(inst))
    BY <1>1, WayAtThen
  <2> QED BY <1>2, <1>5, <2>2, <2>3, <2>4, <2>5
<1>7. Stays(from, at)
  <2> SUFFICES ASSUME NEW k \in Kinds, NEW x \in DOMAIN Way(k)'
               PROVE  /\ from[k][x] \in Kinds /\ at[k][x] \in DOMAIN Way(from[k][x])
                      /\ Way(k)'[x] = Way(from[k][x])[at[k][x]]
    BY DEF Stays
  <2>1. CASE k = "torn"
    BY <1>2, <1>6, <2>1 DEF Kinds
  <2>2. CASE k = "live"
    <3>1. x \in 1 .. Len(live) - 1 /\ (IF x >= p THEN x + 1 ELSE x) \in 1 .. Len(live)
      BY <1>2, <1>6, <2>2
    <3> QED BY <1>6, <2>2, <3>1 DEF Kinds
  <2>3. CASE k # "torn" /\ k # "live"
    BY <1>3, <2>3
  <2> QED BY <2>1, <2>2, <2>3
<1>8. Apart(from, at)
  BY <1>2, <1>3, <1>6 DEF Kinds, Apart
<1> HIDE DEF from, at
<1> QED BY <1>1, <1>7, <1>8, StayingMoves

LEMMA SettleEventMoves ==
    ASSUME Typed, Typed', RowsGrow, OnePlace, NotThereYet, SettleEvent
    PROVE  OnePlace' /\ NotThereYet'
<1>1. PICK inst \in torn : Release(inst)
  BY DEF SettleEvent
<1> DEFINE n == Len(answers)
           from == [k \in Kinds |-> [x \in DOMAIN Way(k)' |->
                        IF k = "answer" /\ x = n + 1 THEN "torn" ELSE k]]
           at == [k \in Kinds |-> [x \in DOMAIN Way(k)' |->
                      IF k = "answer" /\ x = n + 1 THEN inst ELSE x]]
<1>2. /\ torn' = {} /\ answers' = Append(answers, Answer(inst))
      /\ UNCHANGED <<ordinals, parked, due, live, micro, calls>>
  BY <1>1 DEF SettleEvent, Release, gate
<1>3. \A k \in Kinds : k # "torn" /\ k # "answer" => Way(k)' = Way(k)
  BY <1>2, SameWay DEF Kinds
<1>4. answers \in Seq(Asked) /\ n \in Nat /\ inst \in Made
  BY DEF Typed
<1>5. /\ DOMAIN Way("torn")' = {} /\ inst \in DOMAIN Way("torn")
      /\ DOMAIN Way("answer") = 1 .. n /\ DOMAIN Way("answer")' = 1 .. n + 1
      /\ \A x \in 1 .. n : Way("answer")'[x] = Way("answer")[x]
      /\ Way("answer")'[n + 1] = Way("torn")[inst]
  <2>1. Answer(inst) \in Asked
    BY <1>4, AnswerTyped
  <2>2. /\ DOMAIN answers' = 1 .. n + 1 /\ answers'[n + 1] = Answer(inst)
        /\ \A x \in 1 .. n : answers'[x] = answers[x] /\ x \in 1 .. n + 1
        /\ DOMAIN answers = 1 .. n
    BY <1>2, <1>4, <2>1
  <2> QED BY <1>2, <1>4, <2>2, WayAt, WayAtThen
<1> HIDE DEF n
<1>6. Stays(from, at)
  BY <1>3, <1>4, <1>5 DEF Kinds, Stays
<1>7. Apart(from, at)
  BY <1>3, <1>4, <1>5 DEF Kinds, Apart
<1> HIDE DEF from, at
<1> QED BY <1>2, <1>6, <1>7, StayingMoves

LEMMA DeliverMoves ==
    ASSUME Typed, Typed', RowsGrow, OnePlace, NotThereYet,
           NEW n \in 1 .. Len(answers), Deliver(n)
    PROVE  OnePlace' /\ NotThereYet'
<1> DEFINE from == [k \in Kinds |-> [x \in DOMAIN Way(k)' |->
                        IF k = "micro" THEN "answer" ELSE k]]
           at == [k \in Kinds |-> [x \in DOMAIN Way(k)' |->
                      IF k = "answer" THEN x + n ELSE x]]
<1>1. /\ micro' = [j \in 1 .. n |->
                      [call |-> answers[j], hops |-> Hops[answers[j].branch]]]
      /\ answers' = SubSeq(answers, n + 1, Len(answers))
      /\ UNCHANGED <<ordinals, parked, due, live, torn, calls>>
  BY DEF Deliver, gate
<1>2. \A k \in Kinds : k # "micro" /\ k # "answer" => Way(k)' = Way(k)
  BY <1>1, SameWay DEF Kinds
<1>3. answers \in Seq(Asked) /\ Len(answers) \in Nat /\ n \in Nat /\ n <= Len(answers)
  BY DEF Typed
<1>4. /\ DOMAIN Way("answer") = 1 .. Len(answers)
      /\ DOMAIN Way("answer")' = 1 .. Len(answers) - n /\ DOMAIN Way("micro")' = 1 .. n
      /\ \A x \in 1 .. Len(answers) - n : Way("answer")'[x] = Way("answer")[x + n]
      /\ \A x \in 1 .. n : Way("micro")'[x] = Way("answer")[x]
  <2>1. /\ DOMAIN answers' = 1 .. Len(answers) - n
        /\ \A x \in 1 .. Len(answers) - n : /\ answers'[x] = answers[x + n]
                                            /\ x + n \in 1 .. Len(answers)
    <3>1. answers' = [x \in 1 .. Len(answers) - n |-> answers[x + n]]
      BY <1>1, <1>3
    <3> QED BY <1>3, <3>1
  <2>2. \A x \in 1 .. n : x \in 1 .. Len(answers) /\ micro'[x].call = answers[x]
    BY <1>1, <1>3
  <2>3. DOMAIN micro' = 1 .. n /\ DOMAIN answers = 1 .. Len(answers)
    BY <1>1, <1>3
  <2>4. /\ DOMAIN Way("answer") = 1 .. Len(answers)
        /\ DOMAIN Way("answer")' = 1 .. Len(answers) - n /\ DOMAIN Way("micro")' = 1 .. n
    BY <2>1, <2>3, WayAt, WayAtThen
  <2>5. \A x \in 1 .. Len(answers) - n : Way("answer")'[x] = Way("answer")[x + n]
    <3> SUFFICES ASSUME NEW x \in 1 .. Len(answers) - n
                 PROVE  Way("answer")'[x] = Way("answer")[x + n]
      OBVIOUS
    <3>1. x + n \in DOMAIN answers /\ answers'[x] = answers[x + n]
      BY <2>1, <2>3
    <3>2. Way("answer")[x + n] = NextCall(answers[x + n])
      BY <3>1, WayAt
    <3>3. Way("answer")'[x] = NextCall(answers'[x])
      BY <2>1, WayAtThen
    <3> QED BY <3>1, <3>2, <3>3
  <2>6. \A x \in 1 .. n : Way("micro")'[x] = Way("answer")[x]
    BY <2>2, <2>3, WayAt, WayAtThen
  <2> QED BY <2>4, <2>5, <2>6
<1>5. Stays(from, at)
  <2> SUFFICES ASSUME NEW k \in Kinds, NEW x \in DOMAIN Way(k)'
               PROVE  /\ from[k][x] \in Kinds /\ at[k][x] \in DOMAIN Way(from[k][x])
                      /\ Way(k)'[x] = Way(from[k][x])[at[k][x]]
    BY DEF Stays
  <2>1. CASE k = "micro"
    <3>1. x \in 1 .. n /\ x \in 1 .. Len(answers)
      BY <1>3, <1>4, <2>1
    <3> QED BY <1>4, <2>1, <3>1 DEF Kinds
  <2>2. CASE k = "answer"
    <3>1. x \in 1 .. Len(answers) - n /\ x + n \in 1 .. Len(answers)
      BY <1>3, <1>4, <2>2
    <3> QED BY <1>4, <2>2, <3>1 DEF Kinds
  <2>3. CASE k # "micro" /\ k # "answer"
    BY <1>2, <2>3
  <2> QED BY <2>1, <2>2, <2>3
<1>6. Apart(from, at)
  BY <1>2, <1>3, <1>4 DEF Kinds, Apart
<1> HIDE DEF from, at
<1> QED BY <1>1, <1>5, <1>6, StayingMoves

LEMMA MicrotaskMoves ==
    ASSUME Typed, Typed', RowsGrow, OnePlace, NotThereYet, Microtask
    PROVE  OnePlace' /\ NotThereYet'
<1> DEFINE R == [call : Asked, hops : Nat]
           t == Head(micro)
           m == Len(micro)
           n == Len(calls)
           new == [t EXCEPT !.hops = @ - 1]
<1>1. /\ UNCHANGED <<ordinals, parked, due, live, torn, answers>>
      /\ IF t.hops > 0
         THEN micro' = Append(Tail(micro), new) /\ calls' = calls
         ELSE micro' = Tail(micro) /\ calls' = Append(calls, NextCall(t.call))
  BY DEF Microtask, gate, NextCall
<1>2. micro \in Seq(R) /\ micro # <<>> /\ calls \in Seq(Calls) /\ n \in Nat
  BY DEF Microtask, Typed
<1>r. \A r \in R : r.hops > 0 => [r EXCEPT !.hops = @ - 1].call = r.call
  OBVIOUS
<1> HIDE DEF R
<1>3. /\ m \in Nat /\ m > 0 /\ t = micro[1] /\ t \in R /\ DOMAIN micro = 1 .. m
      /\ Tail(micro) \in Seq(R) /\ Len(Tail(micro)) = m - 1
      /\ \A x \in 1 .. m - 1 : Tail(micro)[x] = micro[x + 1] /\ x + 1 \in 1 .. m
  BY <1>2
<1>4. \A k \in Kinds : k # "micro" /\ k # "call" => Way(k)' = Way(k)
  BY <1>1, SameWay DEF Kinds
<1>5. /\ DOMAIN Way("micro") = 1 .. m /\ DOMAIN Way("call") = 1 .. n
      /\ \A x \in 1 .. m : Way("micro")[x] = NextCall(micro[x].call)
      /\ \A x \in 1 .. n : Way("call")[x] = calls[x]
  BY <1>2, <1>3, WayAt
<1>6. CASE t.hops > 0
  <2> DEFINE from == [k \in Kinds |-> [x \in DOMAIN Way(k)' |-> k]]
             at == [k \in Kinds |-> [x \in DOMAIN Way(k)' |->
                        IF k = "micro" THEN IF x = m THEN 1 ELSE x + 1 ELSE x]]
  <2>1. micro' = Append(Tail(micro), new) /\ Way("call")' = Way("call")
    BY <1>1, <1>6, SameWay
  <2>2. new.call = micro[1].call
    BY <1>3, <1>6, <1>r
  <2> HIDE DEF new
  <2>3. /\ DOMAIN micro' = 1 .. m /\ micro'[m] = new
        /\ \A x \in 1 .. m : x # m => micro'[x] = micro[x + 1] /\ x + 1 \in 1 .. m
    <3>1. DOMAIN micro' = 1 .. (m - 1) + 1 /\ micro'[(m - 1) + 1] = new
      BY <1>3, <2>1
    <3>2. \A x \in 1 .. m - 1 : micro'[x] = Tail(micro)[x]
      BY <1>3, <2>1
    <3> HIDE DEF m
    <3> QED BY <1>3, <3>1, <3>2
  <2>4. /\ DOMAIN Way("micro")' = 1 .. m
        /\ \A x \in 1 .. m : Way("micro")'[x] = NextCall(micro'[x].call)
    BY <2>3, WayAtThen
  <2> HIDE DEF m
  <2>5. /\ Way("micro")'[m] = Way("micro")[1]
        /\ \A x \in 1 .. m : x # m => Way("micro")'[x] = Way("micro")[x + 1]
    BY <1>3, <1>5, <2>2, <2>3, <2>4
  <2>6. Stays(from, at)
    BY <1>3, <1>4, <1>5, <2>1, <2>4, <2>5 DEF Kinds, Stays
  <2>7. Apart(from, at)
    BY <1>3, <1>4, <2>1, <2>4 DEF Kinds, Apart
  <2> HIDE DEF from, at
  <2> QED BY <1>1, <2>6, <2>7, StayingMoves
<1>7. CASE ~(t.hops > 0)
  <2> DEFINE from == [k \in Kinds |-> [x \in DOMAIN Way(k)' |->
                          IF k = "call" /\ x = n + 1 THEN "micro" ELSE k]]
             at == [k \in Kinds |-> [x \in DOMAIN Way(k)' |->
                        IF k = "call" /\ x = n + 1 THEN 1 ELSE
                        IF k = "micro" THEN x + 1 ELSE x]]
  <2>1. micro' = Tail(micro) /\ calls' = Append(calls, NextCall(t.call))
    BY <1>1, <1>7
  <2>2. NextCall(t.call) \in Calls
    <3>1. t.call \in Asked
      BY <1>3 DEF R
    <3> QED BY <3>1, SiteFacts DEF Asked, NextCall, Call, Calls
  <2>3. /\ DOMAIN Way("micro")' = 1 .. m - 1
        /\ \A x \in 1 .. m - 1 : Way("micro")'[x] = Way("micro")[x + 1]
    <3>1. DOMAIN micro' = 1 .. m - 1 /\ \A x \in 1 .. m - 1 : micro'[x] = micro[x + 1]
      BY <1>3, <2>1
    <3> HIDE DEF m
    <3>2. DOMAIN Way("micro")' = 1 .. m - 1
      BY <3>1, WayAtThen
    <3>3. \A x \in 1 .. m - 1 : Way("micro")'[x] = NextCall(micro[x + 1].call)
      BY <3>1, WayAtThen
    <3>4. \A x \in 1 .. m - 1 : Way("micro")[x + 1] = NextCall(micro[x + 1].call)
      BY <1>3, <1>5
    <3> QED BY <3>2, <3>3, <3>4
  <2>4. /\ DOMAIN Way("call")' = 1 .. n + 1 /\ Way("call")'[n + 1] = Way("micro")[1]
        /\ \A x \in 1 .. n : Way("call")'[x] = Way("call")[x]
    <3> DEFINE c == NextCall(t.call)
    <3>1. c = Way("micro")[1]
      BY <1>3, <1>5
    <3>2. c \in Calls /\ calls' = Append(calls, c)
      BY <2>1, <2>2
    <3> HIDE DEF c
    <3>3. /\ DOMAIN calls' = 1 .. n + 1 /\ calls'[n + 1] = c
          /\ \A x \in 1 .. n : calls'[x] = calls[x] /\ x \in 1 .. n + 1
          /\ n + 1 \in 1 .. n + 1
      BY <1>2, <3>2
    <3> HIDE DEF n
    <3> QED BY <1>5, <3>1, <3>3, WayAtThen
  <2> HIDE DEF m, n, t
  <2>6. Stays(from, at)
    BY <1>2, <1>3, <1>4, <1>5, <2>3, <2>4 DEF Kinds, Stays
  <2>7. Apart(from, at)
    BY <1>2, <1>3, <1>4, <2>3, <2>4 DEF Kinds, Apart
  <2> HIDE DEF from, at
  <2> QED BY <1>1, <2>6, <2>7, StayingMoves
<1> QED BY <1>6, <1>7

\* The first call arrives, as its site's next one: what comes of it leads past the
\* site, and nothing else leads to a call of its branch.
Onward(from, at, i) ==
    \A k \in Kinds : \A x \in DOMAIN Way(k)' :
        from[k][x] = "call" /\ at[k][x] = 1 => Way(k)'[x].site > i

LEMMA ArrivalMoves ==
    ASSUME Typed, Typed', RowsGrow, OnePlace, NotThereYet, NEW from, NEW at,
           NEW i \in 1 .. ReportSite, 1 \in DOMAIN Way("call"), NEW b,
           Way("call")[1].branch = b,
           Comes(from, at), Apart(from, at), Onward(from, at, i),
           \A j \in 1 .. ReportSite : j # i => ordinals'[j] = ordinals[j],
           ordinals'[i] = ordinals[i] + 1,
           i # ReportSite => asks'[i][ordinals[i] + 1].by = b
    PROVE  OnePlace' /\ NotThereYet'
<1>1. NotBack
  <2> SUFFICES ASSUME NEW k \in Kinds, NEW x \in DOMAIN Way(k)', NEW j \in 1 .. Sites,
                      Way(k)'[x].site <= j, NEW o \in 1 .. ordinals'[j],
                      asks'[j][o].by = Way(k)'[x].branch, ~(o <= ordinals[j])
               PROVE  FALSE
    BY DEF NotBack
  <2>1. /\ j \in 1 .. ReportSite /\ j # ReportSite
        /\ ordinals[j] \in Nat /\ ordinals'[j] \in Nat /\ o \in Nat
    <3>1. j \in 1 .. ReportSite /\ j # ReportSite
      BY SiteFacts
    <3>2. ordinals[j] \in Nat
      BY <3>1 DEF Typed
    <3>3. ordinals'[j] \in Nat
      BY <3>1 DEF Typed
    <3> QED BY <3>1, <3>2, <3>3
  <2>2. j = i
    BY <2>1
  <2>3. o = ordinals[i] + 1
    BY <2>1, <2>2
  <2>4. Way(k)'[x].branch = b
    BY <2>1, <2>2, <2>3
  <2> DEFINE l == from[k][x]
             y == at[k][x]
  <2>5. l \in Kinds /\ y \in DOMAIN Way(l) /\ Way(l)[y].branch = b
    BY <2>4 DEF Comes
  <2> HIDE DEF l, y
  <2>6. l = "call" /\ y = 1
    BY <2>5 DEF OnePlace, Kinds
  <2>7. Way(k)'[x].site > i
    BY <2>6 DEF Onward, l, y
  <2>8. Way(k)'[x].site \in Nat /\ i \in Nat
    BY WayTypedThen DEF WaysTyped, Kinds
  <2> QED BY <2>2, <2>7, <2>8
<1> QED BY <1>1, Moves

\* What AskArrives makes of the call: all but the place it goes to.
LEMMA FirstCallGoes ==
    ASSUME Typed, calls # <<>>, calls' = Tail(calls)
    PROVE  /\ Len(calls) \in Nat /\ Len(calls) >= 1
           /\ Head(calls) \in Calls /\ Way("call")[1] = Head(calls)
           /\ DOMAIN Way("call") = 1 .. Len(calls)
           /\ DOMAIN Way("call")' = 1 .. Len(calls) - 1
           /\ \A x \in 1 .. Len(calls) - 1 : Way("call")'[x] = Way("call")[x + 1]
<1>1. /\ calls \in Seq(Calls) /\ Len(calls) \in Nat /\ Len(calls) >= 1
      /\ Head(calls) = calls[1] /\ calls[1] \in Calls /\ DOMAIN calls = 1 .. Len(calls)
  <2>1. calls \in Seq(Calls)
    BY DEF Typed
  <2>2. Len(calls) \in Nat /\ Len(calls) >= 1 /\ DOMAIN calls = 1 .. Len(calls)
    BY <2>1
  <2>3. calls[1] \in Calls /\ Head(calls) = calls[1]
    BY <2>1, <2>2
  <2> QED BY <2>1, <2>2, <2>3
<1>2. /\ DOMAIN calls' = 1 .. Len(calls) - 1
      /\ \A x \in 1 .. Len(calls) - 1 : calls'[x] = calls[x + 1] /\ x + 1 \in 1 .. Len(calls)
  BY <1>1
<1>3. DOMAIN Way("call")' = 1 .. Len(calls) - 1
  BY <1>2, WayAtThen
<1>4. ASSUME NEW x \in 1 .. Len(calls) - 1 PROVE Way("call")'[x] = Way("call")[x + 1]
  <2>1. x + 1 \in DOMAIN calls /\ calls'[x] = calls[x + 1]
    BY <1>1, <1>2
  <2> QED BY <1>2, <2>1, WayAt, WayAtThen
<1>5. Way("call")[1] = Head(calls) /\ DOMAIN Way("call") = 1 .. Len(calls)
  <2>1. 1 \in DOMAIN calls
    BY <1>1
  <2> QED BY <1>1, <2>1, WayAt
<1> QED BY <1>1, <1>3, <1>4, <1>5

\* Something that leads to call d goes to the end of line K, which has n entries.
Joins(K, n, d) ==
    /\ K \in Kinds \ {"call"} /\ n \in Nat
    /\ \A k \in Kinds : k # "call" /\ k # K => Way(k)' = Way(k)
    /\ DOMAIN Way(K) = 1 .. n /\ DOMAIN Way(K)' = 1 .. n + 1
    /\ \A x \in 1 .. n : Way(K)'[x] = Way(K)[x]
    /\ Way(K)'[n + 1] = d

\* The call goes to the end of a line, as a live ask's or with its answer.
LEMMA JoinsLine ==
    ASSUME Typed, Typed', RowsGrow, OnePlace, NotThereYet,
           calls # <<>>, calls' = Tail(calls), NEW i \in 1 .. ReportSite, NEW b,
           Head(calls).branch = b, Head(calls).site = i,
           \A j \in 1 .. ReportSite : j # i => ordinals'[j] = ordinals[j],
           ordinals'[i] = ordinals[i] + 1,
           i # ReportSite => asks'[i][ordinals[i] + 1].by = b,
           NEW K, NEW n, Joins(K, n, Call(b, i + 1))
    PROVE  OnePlace' /\ NotThereYet'
<1> DEFINE m == Len(calls)
<1>1. /\ m \in Nat /\ m >= 1 /\ Way("call")[1] = Head(calls)
      /\ DOMAIN Way("call") = 1 .. m /\ DOMAIN Way("call")' = 1 .. m - 1
      /\ \A x \in 1 .. m - 1 : Way("call")'[x] = Way("call")[x + 1]
  <2> HIDE DEF m
  <2>1. m = Len(calls)
    BY DEF m
  <2> QED BY ONLY <2>1, FirstCallGoes, Typed, calls # <<>>, calls' = Tail(calls)
<1> HIDE DEF m
<1>j. /\ K \in Kinds /\ K # "call" /\ n \in Nat
      /\ \A k \in Kinds : k # "call" /\ k # K => Way(k)' = Way(k)
      /\ DOMAIN Way(K) = 1 .. n /\ DOMAIN Way(K)' = 1 .. n + 1
      /\ \A x \in 1 .. n : Way(K)'[x] = Way(K)[x]
      /\ Way(K)'[n + 1] = Call(b, i + 1)
  BY DEF Joins
<1> DEFINE from == [k \in Kinds |-> [x \in DOMAIN Way(k)' |->
                        IF k = K /\ x = n + 1 THEN "call" ELSE k]]
           at == [k \in Kinds |-> [x \in DOMAIN Way(k)' |->
                      IF k = K /\ x = n + 1 THEN 1 ELSE IF k = "call" THEN x + 1 ELSE x]]
<1>2. ASSUME NEW k \in Kinds, NEW x \in DOMAIN Way(k)'
      PROVE  /\ from[k][x] \in Kinds /\ at[k][x] \in DOMAIN Way(from[k][x])
             /\ Way(k)'[x].branch = Way(from[k][x])[at[k][x]].branch
             /\ Way(k)'[x].site >= Way(from[k][x])[at[k][x]].site
             /\ from[k][x] = "call" /\ at[k][x] = 1 => Way(k)'[x].site > i
  <2>1. Way(k)'[x].site \in Nat
    BY WayTypedThen DEF WaysTyped, Kinds
  <2>2. CASE k = K /\ x = n + 1
    <3>1. from[k][x] = "call" /\ at[k][x] = 1
      BY <1>j, <2>2
    <3> HIDE DEF from, at
    <3>2. Way(k)'[x].branch = b /\ Way(k)'[x].site = i + 1
      BY <1>j, <2>2 DEF Call
    <3>3. i \in Nat /\ 1 \in DOMAIN Way("call")
      BY <1>1
    <3> QED BY <1>1, <3>1, <3>2, <3>3 DEF Kinds
  <2>3. CASE k = "call"
    <3>1. x \in 1 .. m - 1 /\ from[k][x] = "call" /\ at[k][x] = x + 1
      BY <1>1, <1>j, <2>3
    <3> HIDE DEF from, at
    <3>2. x + 1 \in 1 .. m /\ x + 1 # 1 /\ Way(k)'[x] = Way("call")[x + 1]
      BY <1>1, <2>3, <3>1
    <3> QED BY <1>1, <2>1, <2>3, <3>1, <3>2 DEF Kinds
  <2>4. CASE k # "call" /\ ~(k = K /\ x = n + 1)
    <3>1. from[k][x] = k /\ at[k][x] = x
      BY <2>4
    <3> HIDE DEF from, at
    <3>2. x \in DOMAIN Way(k) /\ Way(k)'[x] = Way(k)[x]
      <4>1. CASE k = K
        <5>1. x \in 1 .. n + 1 /\ x # n + 1
          BY <1>j, <2>4, <4>1
        <5>2. x \in 1 .. n
          BY <1>j, <5>1
        <5> QED BY <1>j, <4>1, <5>2
      <4>2. CASE k # K
        BY <1>j, <2>4, <4>2
      <4> QED BY <4>1, <4>2
    <3> QED BY <2>1, <2>4, <3>1, <3>2
  <2> QED BY <2>2, <2>3, <2>4
<1>3. Apart(from, at)
  <2> SUFFICES ASSUME NEW k \in Kinds, NEW l \in Kinds, NEW x \in DOMAIN Way(k)',
                      NEW y \in DOMAIN Way(l)', from[k][x] = from[l][y],
                      at[k][x] = at[l][y]
               PROVE  k = l /\ x = y
    BY DEF Apart
  <2>1. ASSUME NEW z \in DOMAIN Way("call")' PROVE z \in Int /\ z + 1 # 1
    <3>1. z \in 1 .. m - 1
      BY <1>1
    <3> QED BY <1>1, <3>1
  <2>2. \A z, w \in DOMAIN Way("call")' : z + 1 = w + 1 => z = w
    BY <2>1
  <2> QED BY <1>j, <2>1, <2>2
<1> HIDE DEF from, at
<1>4. Comes(from, at)
  BY <1>2 DEF Comes
<1>5. Onward(from, at, i)
  BY <1>2 DEF Onward
<1>6. 1 \in DOMAIN Way("call") /\ Way("call")[1].branch = b
  BY <1>1
<1> QED BY <1>3, <1>4, <1>5, <1>6, ArrivalMoves

\* A recorded answer is held back, and what it lets go goes with it.
LEMMA HoldMoves ==
    ASSUME Typed, Typed', RowsGrow, OnePlace, NotThereYet, Distinct(order),
           calls # <<>>, calls' = Tail(calls), NEW i \in 1 .. ReportSite, NEW b,
           Head(calls).branch = b, Head(calls).site = i,
           \A j \in 1 .. ReportSite : j # i => ordinals'[j] = ordinals[j],
           ordinals'[i] = ordinals[i] + 1,
           i # ReportSite => asks'[i][ordinals[i] + 1].by = b,
           NEW inst \in Made, Answer(inst) = Call(b, i), asks' = asks, Hold(inst),
           ~(inst \notin Elements(order) \/ IndexOf(order, inst) <= cursor),
           UNCHANGED <<live, torn, micro>>
    PROVE  OnePlace' /\ NotThereYet'
<1> DEFINE n == Len(calls)
           q == Len(due)
           p == parked \cup {inst}
           m == Pumped(p)
           next == SubSeq(order, cursor + 1, cursor + m)
<1>1. /\ n \in Nat /\ n >= 1 /\ Way("call")[1] = Head(calls)
      /\ DOMAIN Way("call") = 1 .. n /\ DOMAIN Way("call")' = 1 .. n - 1
      /\ \A x \in 1 .. n - 1 : Way("call")'[x] = Way("call")[x + 1]
  BY FirstCallGoes
<1>2. /\ cursor' = cursor + m /\ parked' = p \ Elements(next) /\ due' = due \o next
      /\ UNCHANGED <<order, log, answers>>
  BY DEF Hold
<1>3. /\ order \in Seq(Made) /\ due \in Seq(Made) /\ parked \subseteq Made
      /\ q \in Nat /\ cursor \in 0 .. Len(order) /\ Len(order) \in Nat
  <2>1. /\ order \in Seq(Made) /\ due \in Seq(Made) /\ parked \subseteq Made
        /\ cursor \in 0 .. Len(order)
    BY DEF Typed
  <2>2. q \in Nat /\ Len(order) \in Nat
    BY <2>1
  <2> QED BY <2>1, <2>2
<1>4. m \in 0 .. Len(order) - cursor /\ \A j \in 1 .. m : order[cursor + j] \in p
  BY <1>3, PumpedParked
<1> HIDE DEF m, n, q
<1>5. /\ next \in Seq(Made) /\ Len(next) = m /\ DOMAIN next = 1 .. m
      /\ \A j \in 1 .. m : next[j] = order[cursor + j] /\ next[j] \in p
  <2>1. next = [j \in 1 .. m |-> order[cursor + j]]
    BY <1>3, <1>4
  <2>2. \A j \in 1 .. m : cursor + j \in 1 .. Len(order)
    BY <1>3, <1>4
  <2>3. \A j \in 1 .. m : order[cursor + j] \in Made
    BY <1>3, <2>2
  <2> HIDE DEF next
  <2> QED BY <1>4, <2>1, <2>3
<1>6. \A j, k \in 1 .. m : next[j] = next[k] => j = k
  <2> SUFFICES ASSUME NEW j \in 1 .. m, NEW k \in 1 .. m, next[j] = next[k] PROVE j = k
    OBVIOUS
  <2>1. /\ cursor + j \in DOMAIN order /\ cursor + k \in DOMAIN order
        /\ order[cursor + j] = order[cursor + k]
    <3> HIDE DEF next
    <3> QED BY <1>3, <1>4, <1>5
  <2>2. cursor + j = cursor + k
    BY <2>1 DEF Distinct
  <2> QED BY <1>3, <2>2
<1> HIDE DEF next
<1>7. /\ DOMAIN due' = 1 .. q + m /\ DOMAIN due = 1 .. q
      /\ \A x \in 1 .. q : due'[x] = due[x]
      /\ \A x \in 1 .. q + m : x > q => x - q \in 1 .. m /\ due'[x] = next[x - q]
  <2>1. q = Len(due) /\ due \in Seq(Made)
    BY <1>3 DEF q
  <2>2. /\ DOMAIN (due \o next) = 1 .. Len(due) + Len(next)
        /\ \A x \in 1 .. Len(due) : (due \o next)[x] = due[x]
        /\ \A x \in 1 .. Len(due) + Len(next) : x > Len(due) =>
              x - Len(due) \in 1 .. Len(next) /\ (due \o next)[x] = next[x - Len(due)]
    <3>1. next \in Seq(Made)
      BY <1>5
    <3> QED BY ONLY <2>1, <3>1, ConcatIs
  <2>3. DOMAIN due = 1 .. q
    BY <2>1
  <2>4. Len(due) = q /\ Len(next) = m
    BY <1>5, <2>1
  <2> QED BY <1>2, <2>2, <2>3, <2>4
<1>8. \A x \in parked' : x \in p /\ \A j \in 1 .. m : x # next[j]
  BY <1>2, <1>5 DEF Elements
\* The places of the gate's entries that have come or moved, and their instances.
<1> DEFINE Moved(k, x) == k = "parked" \/ (k = "due" /\ x > q)
           E(k, x) == IF k = "parked" THEN x ELSE next[x - q]
           from == [k \in Kinds |-> [x \in DOMAIN Way(k)' |->
                        IF Moved(k, x) THEN IF E(k, x) = inst THEN "call" ELSE "parked"
                                       ELSE k]]
           at == [k \in Kinds |-> [x \in DOMAIN Way(k)' |->
                      IF Moved(k, x) THEN IF E(k, x) = inst THEN 1 ELSE E(k, x)
                                     ELSE IF k = "call" THEN x + 1 ELSE x]]
<1>9. /\ \A k \in Kinds : k # "call" /\ k # "due" /\ k # "parked" => Way(k)' = Way(k)
      /\ \A x \in Made : AnswerThen(x) = Answer(x)
  BY <1>2, SameWay, AnswerStays DEF Kinds
<1>10. /\ DOMAIN Way("parked") = parked /\ DOMAIN Way("parked")' = parked'
       /\ DOMAIN Way("due") = 1 .. q /\ DOMAIN Way("due")' = 1 .. q + m
       /\ \A x \in 1 .. q : Way("due")'[x] = Way("due")[x]
  <2>1. \A x \in 1 .. q : due[x] \in Made /\ x \in 1 .. q + m
    BY <1>3, <1>4, <1>7
  <2> QED BY <1>7, <1>9, <2>1, WayAt, WayAtThen
<1>11. ASSUME NEW k \in Kinds, NEW x \in DOMAIN Way(k)', Moved(k, x)
       PROVE  /\ E(k, x) \in p
              /\ Way(k)'[x] = NextCall(Answer(E(k, x)))
              /\ k = "parked" => \A j \in 1 .. m : E(k, x) # next[j]
              /\ k = "due" => x - q \in 1 .. m /\ E(k, x) = next[x - q] /\ x \in Int
  <2>1. CASE k = "parked"
    <3>1. x \in parked' /\ x \in p
      BY <1>8, <1>10, <2>1
    <3>2. Way(k)'[x] = NextCall(AnswerThen(x)) /\ x \in Made
      BY <1>3, <2>1, <3>1, WayAtThen
    <3> QED BY <1>8, <1>9, <2>1, <3>1, <3>2
  <2>2. CASE k = "due" /\ x > q
    <3>1. x \in 1 .. q + m /\ x - q \in 1 .. m /\ due'[x] = next[x - q] /\ x \in DOMAIN due'
      BY <1>7, <1>10, <2>2
    <3>2. Way(k)'[x] = NextCall(AnswerThen(next[x - q])) /\ next[x - q] \in p
      BY <1>5, <2>2, <3>1, WayAtThen
    <3>3. next[x - q] \in Made
      BY <1>3, <3>2
    <3> QED BY <1>9, <2>2, <3>1, <3>2, <3>3
  <2> QED BY <1>11, <2>1, <2>2
<1> HIDE DEF p
<1>12. ASSUME NEW x \in p, x # inst
       PROVE  x \in DOMAIN Way("parked") /\ Way("parked")[x] = NextCall(Answer(x))
  BY <1>10, <1>12, WayAt DEF p
<1> HIDE DEF E
<1>13. ASSUME NEW k \in Kinds, NEW x \in DOMAIN Way(k)'
       PROVE  /\ from[k][x] \in Kinds /\ at[k][x] \in DOMAIN Way(from[k][x])
              /\ Way(k)'[x].branch = Way(from[k][x])[at[k][x]].branch
              /\ Way(k)'[x].site >= Way(from[k][x])[at[k][x]].site
              /\ from[k][x] = "call" /\ at[k][x] = 1 => Way(k)'[x].site > i
  <2>1. Way(k)'[x].site \in Nat
    BY WayTypedThen DEF WaysTyped, Kinds
  <2>2. CASE Moved(k, x) /\ E(k, x) = inst
    <3>1. from[k][x] = "call" /\ at[k][x] = 1
      BY <2>2
    <3>2. Way(k)'[x] = NextCall(Call(b, i))
      BY <1>11, <2>2
    <3> HIDE DEF from, at, Moved
    <3>3. Way(k)'[x].branch = b /\ Way(k)'[x].site = i + 1
      BY <3>2 DEF Call, NextCall
    <3>4. i \in Nat /\ 1 \in DOMAIN Way("call")
      BY <1>1
    <3> QED BY <1>1, <3>1, <3>3, <3>4 DEF Kinds
  <2>3. CASE Moved(k, x) /\ E(k, x) # inst
    <3>1. from[k][x] = "parked" /\ at[k][x] = E(k, x)
      BY <2>3
    <3>2. /\ E(k, x) \in DOMAIN Way("parked") /\ Way(k)'[x] = Way("parked")[E(k, x)]
      BY <1>11, <1>12, <2>3
    <3> HIDE DEF from, at, Moved
    <3> QED BY <2>1, <3>1, <3>2 DEF Kinds
  <2>4. CASE k = "call"
    <3>1. x \in 1 .. n - 1 /\ from[k][x] = "call" /\ at[k][x] = x + 1
      BY <1>1, <2>4
    <3> HIDE DEF from, at, Moved
    <3>2. x + 1 \in 1 .. n /\ x + 1 # 1 /\ Way(k)'[x] = Way("call")[x + 1]
      BY <1>1, <2>4, <3>1
    <3> QED BY <1>1, <2>1, <2>4, <3>1, <3>2 DEF Kinds
  <2>5. CASE k # "call" /\ ~Moved(k, x)
    <3>1. from[k][x] = k /\ at[k][x] = x
      BY <2>5
    <3>2. x \in DOMAIN Way(k) /\ Way(k)'[x] = Way(k)[x]
      <4>1. CASE k = "due"
        <5>1. x \in 1 .. q + m /\ ~(x > q)
          BY <1>10, <2>5, <4>1
        <5>2. x \in 1 .. q
          BY <1>3, <1>4, <5>1
        <5> QED BY <1>10, <4>1, <5>2
      <4>2. CASE k # "due"
        BY <1>9, <2>5, <4>2
      <4> QED BY <4>1, <4>2
    <3> HIDE DEF from, at, Moved
    <3> QED BY <2>1, <2>5, <3>1, <3>2
  <2> QED BY <2>2, <2>3, <2>4, <2>5
<1>14. ASSUME NEW k \in Kinds, NEW x \in DOMAIN Way(k)', Moved(k, x),
              NEW l \in Kinds, NEW y \in DOMAIN Way(l)', Moved(l, y), E(k, x) = E(l, y)
       PROVE  k = l /\ x = y
  <2>1. CASE k = "parked" /\ l = "parked"
    BY <1>14, <2>1 DEF E
  <2>2. CASE k = "due" /\ l = "due"
    <3>1. /\ x - q \in 1 .. m /\ y - q \in 1 .. m /\ next[x - q] = next[y - q]
          /\ x \in Int /\ y \in Int
      BY <1>11, <1>14, <2>2
    <3>2. x - q = y - q
      BY <1>6, <3>1
    <3> QED BY <1>3, <2>2, <3>1, <3>2
  <2>3. CASE k # l
    BY <1>11, <1>14, <2>3
  <2> QED BY <1>14, <2>1, <2>2, <2>3
<1>15. Apart(from, at)
  <2> SUFFICES ASSUME NEW k \in Kinds, NEW l \in Kinds, NEW x \in DOMAIN Way(k)',
                      NEW y \in DOMAIN Way(l)', from[k][x] = from[l][y],
                      at[k][x] = at[l][y]
               PROVE  k = l /\ x = y
    BY DEF Apart
  <2>1. ASSUME NEW z \in DOMAIN Way("call")' PROVE z \in Int /\ z + 1 # 1
    <3>1. z \in 1 .. n - 1
      BY <1>1
    <3> QED BY <1>1, <3>1
  <2>2. \A z, w \in DOMAIN Way("call")' : z + 1 = w + 1 => z = w
    BY <2>1
  <2>3. Moved(k, x) <=> Moved(l, y)
    BY <2>1
  <2>4. CASE Moved(k, x) /\ Moved(l, y)
    <3>1. E(k, x) = E(l, y)
      BY <2>4
    <3> QED BY <1>14, <2>4, <3>1
  <2>5. CASE ~Moved(k, x) /\ ~Moved(l, y)
    BY <2>1, <2>2, <2>5
  <2> QED BY <2>3, <2>4, <2>5
<1> HIDE DEF from, at, Moved
<1>16. Comes(from, at)
  BY <1>13 DEF Comes
<1>17. Onward(from, at, i)
  BY <1>13 DEF Onward
<1>18. 1 \in DOMAIN Way("call") /\ Way("call")[1].branch = b
  BY <1>1
<1> QED BY <1>15, <1>16, <1>17, <1>18, ArrivalMoves

\* The host's places of a life that has ended are empty.
LEMMA EndMoves ==
    ASSUME Typed, Typed', NoHost, UNCHANGED asks, reports' \in Seq(Branches),
           log' \in Seq(Made')
    PROVE  OnePlace' /\ NotThereYet'
<1>1. asks' \in [1 .. Sites -> Seq([by : Branches, done : BOOLEAN])]
  BY DEF Typed
<1> QED BY <1>1, NoHostTyped, NobodyOutThen

LEMMA AskMoves ==
    ASSUME Typed, Typed', RowsGrow, OnePlace, NotThereYet, Distinct(order), AskArrives
    PROVE  OnePlace' /\ NotThereYet'
<1> DEFINE c == Head(calls)
           b == c.branch
           i == c.site
           o == ordinals[i] + 1
           inst == <<i, o>>
           fresh == o > Len(asks[i])
<1>1. calls # <<>> /\ i # ReportSite
  BY DEF AskArrives
<1>2. c \in Calls
  <2>1. calls \in Seq(Calls)
    BY DEF Typed
  <2> QED BY <1>1, <2>1
<1>3. /\ i \in 1 .. Sites /\ i \in 1 .. ReportSite /\ b \in Branches
  <2>1. b \in Branches /\ i \in 1 .. ReportSite
    BY <1>2 DEF Calls
  <2> HIDE DEF i, b
  <2> QED BY <1>1, <2>1, SiteFacts
<1>4. CASE ~fresh /\ asks[i][o].by # c.branch
  <2>1. NoHost /\ UNCHANGED <<asks, reports, log>>
    BY <1>4 DEF AskArrives, Mismatch, journal
  <2>2. reports' \in Seq(Branches) /\ log' \in Seq(Made')
    BY DEF Typed
  <2> QED BY <2>1, <2>2, EndMoves
<1>5. CASE ~(~fresh /\ asks[i][o].by # c.branch)
  <2>1. /\ ordinals' = [ordinals EXCEPT ![i] = o]
        /\ calls' = Tail(calls)
        /\ IF fresh THEN asks' = [asks EXCEPT ![i] =
                                    Append(@, [by |-> b, done |-> FALSE])]
                    ELSE UNCHANGED asks
        /\ IF ~fresh /\ asks[i][o].done
           THEN Hold(inst) /\ UNCHANGED live
           ELSE live' = Append(live, inst) /\ UNCHANGED <<gate, log, answers>>
        /\ UNCHANGED <<torn, micro>>
    BY <1>5 DEF AskArrives
  <2> HIDE DEF c
  <2>2. ordinals[i] \in Nat /\ Len(asks[i]) \in Nat /\ ordinals[i] <= Len(asks[i])
    <3> HIDE DEF i
    <3>1. ordinals[i] \in Nat /\ ordinals[i] <= Rows(i) /\ Len(asks[i]) \in Nat
      <4>1. asks \in [1 .. Sites -> Seq([by : Branches, done : BOOLEAN])]
        BY DEF Typed
      <4>2. ordinals \in [1 .. ReportSite -> Nat] /\ \A j \in 1 .. ReportSite : ordinals[j] <= Rows(j)
        BY DEF Typed
      <4> QED BY <1>3, <4>1, <4>2
    <3> QED BY <1>3, <3>1, SiteFacts DEF Rows
  <2> HIDE DEF i, b
  <2>3. /\ ordinals'[i] = ordinals[i] + 1
        /\ \A j \in 1 .. ReportSite : j # i => ordinals'[j] = ordinals[j]
    BY <1>3, <2>1 DEF Typed
  <2>4. asks'[i][o].by = b
    <3>1. CASE fresh
      <4>1. o = Len(asks[i]) + 1
        BY <2>2, <3>1
      <4>2. asks'[i][Len(asks[i]) + 1] = [by |-> b, done |-> FALSE]
        BY <1>3, <2>1, <3>1, RowAdded DEF Typed
      <4> QED BY <4>1, <4>2
    <3>2. CASE ~fresh
      BY <1>5, <2>1, <3>2 DEF b
    <3> QED BY <3>1, <3>2
  <2>5. AnswerThen(inst) = Call(b, i)
    BY <2>4 DEF AnswerThen
  <2>6. c = Head(calls) /\ Head(calls).branch = b /\ Head(calls).site = i
    BY DEF c, b, i
  <2> HIDE DEF o, inst
  <2>7. o = ordinals[i] + 1
    BY DEF o
  <2>8. asks'[i][ordinals[i] + 1].by = b
    BY <2>4, <2>7
  <2>9. CASE ~fresh /\ asks[i][o].done
    <3>1. Hold(inst) /\ UNCHANGED <<live, torn, micro>> /\ asks' = asks
      BY <2>1, <2>9
    <3>2. inst \in Made
      BY <1>3, <2>2, <2>7, <2>9 DEF Made, inst
    <3>3. Answer(inst) = Call(b, i)
      BY <2>5, <3>2, AnswerStays
    <3>4. CASE ~(inst \notin Elements(order) \/ IndexOf(order, inst) <= cursor)
      BY <1>1, <1>3, <2>1, <2>3, <2>6, <2>8, <3>1, <3>2, <3>3, <3>4, HoldMoves
    <3>5. CASE inst \notin Elements(order) \/ IndexOf(order, inst) <= cursor
      <4>1. answers' = Append(answers, Answer(inst)) /\ UNCHANGED <<parked, due>>
        BY <3>1, <3>5 DEF Hold, Release, gate
      <4> DEFINE n == Len(answers)
      <4>2. \A k \in Kinds : k # "call" /\ k # "answer" => Way(k)' = Way(k)
        BY <3>1, <4>1, SameWay DEF Kinds
      <4>3. answers \in Seq(Asked) /\ Answer(inst) \in Asked
        BY <3>2, AnswerTyped DEF Typed
      <4>4. /\ n \in Nat /\ DOMAIN answers = 1 .. n /\ DOMAIN answers' = 1 .. n + 1
            /\ answers'[n + 1] = Answer(inst)
            /\ \A x \in 1 .. n : answers'[x] = answers[x] /\ x \in 1 .. n + 1
            /\ n + 1 \in 1 .. n + 1
        BY <4>1, <4>3
      <4> HIDE DEF n
      <4>5. /\ DOMAIN Way("answer") = 1 .. n /\ DOMAIN Way("answer")' = 1 .. n + 1
            /\ \A x \in 1 .. n : Way("answer")'[x] = Way("answer")[x]
            /\ Way("answer")'[n + 1] = NextCall(Call(b, i))
        <5>1. DOMAIN Way("answer") = 1 .. n /\ DOMAIN Way("answer")' = 1 .. n + 1
          BY <4>4, WayAt, WayAtThen
        <5>2. \A x \in 1 .. n : Way("answer")'[x] = Way("answer")[x]
          BY <4>4, WayAt, WayAtThen
        <5>3. Way("answer")'[n + 1] = NextCall(Answer(inst))
          BY <4>4, WayAtThen
        <5> QED BY <3>3, <5>1, <5>2, <5>3
      <4>6. NextCall(Call(b, i)) = Call(b, i + 1) /\ "answer" \in Kinds \ {"call"}
        BY DEF NextCall, Call, Kinds
      <4>7. Joins("answer", n, Call(b, i + 1))
        BY <4>2, <4>4, <4>5, <4>6 DEF Joins
      <4> QED BY <1>1, <1>3, <2>1, <2>3, <2>6, <2>8, <4>7, JoinsLine
    <3> QED BY <3>4, <3>5
  <2>10. CASE ~(~fresh /\ asks[i][o].done)
    <3>1. live' = Append(live, inst) /\ UNCHANGED <<parked, due, answers, torn, micro>>
      BY <2>1, <2>10 DEF gate
    <3> DEFINE n == Len(live)
    <3>2. \A k \in Kinds : k # "call" /\ k # "live" => Way(k)' = Way(k)
      BY <3>1, SameWay DEF Kinds
    <3>3. live \in Seq(Made) /\ \A x \in 1 .. n : live[x] \in Made
      <4>1. live \in Seq(Made)
        BY DEF Typed
      <4> QED BY <4>1
    <3>4. /\ n \in Nat /\ DOMAIN live = 1 .. n /\ DOMAIN live' = 1 .. n + 1
          /\ live'[n + 1] = inst
          /\ \A x \in 1 .. n : live'[x] = live[x] /\ x \in 1 .. n + 1
          /\ n + 1 \in 1 .. n + 1
      BY <3>1, <3>3
    <3> HIDE DEF n
    <3>5. \A x \in 1 .. n : AnswerThen(live[x]) = Answer(live[x])
      BY <3>3, AnswerStays
    <3>6. /\ DOMAIN Way("live") = 1 .. n /\ DOMAIN Way("live")' = 1 .. n + 1
          /\ \A x \in 1 .. n : Way("live")'[x] = Way("live")[x]
          /\ Way("live")'[n + 1] = NextCall(Call(b, i))
      <4>1. DOMAIN Way("live") = 1 .. n /\ DOMAIN Way("live")' = 1 .. n + 1
        BY <3>4, WayAt, WayAtThen
      <4>2. \A x \in 1 .. n : Way("live")'[x] = Way("live")[x]
        BY <3>4, <3>5, WayAt, WayAtThen
      <4>3. Way("live")'[n + 1] = NextCall(AnswerThen(inst))
        BY <3>4, WayAtThen
      <4> QED BY <2>5, <4>1, <4>2, <4>3
    <3>7. NextCall(Call(b, i)) = Call(b, i + 1) /\ "live" \in Kinds \ {"call"}
      BY DEF NextCall, Call, Kinds
    <3>8. Joins("live", n, Call(b, i + 1))
      BY <3>2, <3>4, <3>6, <3>7 DEF Joins
    <3> QED BY <1>1, <1>3, <2>1, <2>3, <2>6, <2>8, <3>8, JoinsLine
  <2> QED BY <2>9, <2>10
<1> QED BY <1>4, <1>5

LEMMA ReportMoves ==
    ASSUME Typed, Typed', RowsGrow, OnePlace, NotThereYet, ReportArrives
    PROVE  OnePlace' /\ NotThereYet'
<1> DEFINE b == Head(calls).branch
           o == ordinals[ReportSite] + 1
           n == Len(calls)
           from == [k \in Kinds |-> [x \in DOMAIN Way(k)' |-> k]]
           at == [k \in Kinds |-> [x \in DOMAIN Way(k)' |->
                      IF k = "call" THEN x + 1 ELSE x]]
<1>1. calls # <<>> /\ Head(calls).site = ReportSite /\ UNCHANGED <<asks, log>>
  BY DEF ReportArrives, Mismatch, journal
<1>2. ReportSite \in 1 .. ReportSite /\ ReportSite \in Nat
  BY SiteFacts
<1>3. CASE o <= Len(reports) /\ reports[o] # b
  <2>1. NoHost /\ UNCHANGED reports
    BY <1>3 DEF ReportArrives, Mismatch, journal
  <2>2. reports' \in Seq(Branches) /\ log' \in Seq(Made')
    BY DEF Typed
  <2> QED BY <1>1, <2>1, <2>2, EndMoves
<1>4. CASE ~(o <= Len(reports) /\ reports[o] # b)
  <2>1. /\ ordinals' = [ordinals EXCEPT ![ReportSite] = o] /\ calls' = Tail(calls)
        /\ UNCHANGED <<parked, due, live, torn, answers, micro>>
    BY <1>4 DEF ReportArrives, gate
  <2>2. /\ ordinals'[ReportSite] = ordinals[ReportSite] + 1
        /\ \A j \in 1 .. ReportSite : j # ReportSite => ordinals'[j] = ordinals[j]
    BY <1>2, <2>1 DEF Typed
  <2>3. \A k \in Kinds : k # "call" => Way(k)' = Way(k)
    BY <2>1, SameWay DEF Kinds
  <2>4. /\ n \in Nat /\ n >= 1 /\ Way("call")[1] = Head(calls)
        /\ DOMAIN Way("call") = 1 .. n /\ DOMAIN Way("call")' = 1 .. n - 1
        /\ \A x \in 1 .. n - 1 : Way("call")'[x] = Way("call")[x + 1]
    <3> HIDE DEF n, from, at, b, o
    <3>1. n = Len(calls)
      BY DEF n
    <3> QED BY <1>1, <2>1, <3>1, FirstCallGoes
  <2> HIDE DEF n
  <2>5. ASSUME NEW k \in Kinds, NEW x \in DOMAIN Way(k)'
        PROVE  /\ from[k][x] \in Kinds /\ at[k][x] \in DOMAIN Way(from[k][x])
               /\ Way(k)'[x].branch = Way(from[k][x])[at[k][x]].branch
               /\ Way(k)'[x].site >= Way(from[k][x])[at[k][x]].site
               /\ ~(from[k][x] = "call" /\ at[k][x] = 1)
    <3>1. Way(k)'[x].site \in Nat
      BY WayTypedThen DEF WaysTyped, Kinds
    <3>2. CASE k = "call"
      <4>1. x \in 1 .. n - 1 /\ from[k][x] = "call" /\ at[k][x] = x + 1
        BY <2>4, <3>2
      <4> HIDE DEF from, at
      <4>2. x + 1 \in 1 .. n /\ x + 1 # 1 /\ Way(k)'[x] = Way("call")[x + 1]
        BY <2>4, <3>2, <4>1
      <4> QED BY <2>4, <3>1, <3>2, <4>1, <4>2 DEF Kinds
    <3>3. CASE k # "call"
      <4>1. from[k][x] = k /\ at[k][x] = x
        BY <3>3
      <4> HIDE DEF from, at
      <4> QED BY <2>3, <3>1, <3>3, <4>1
    <3> QED BY <3>2, <3>3
  <2>6. Apart(from, at)
    <3> SUFFICES ASSUME NEW k \in Kinds, NEW l \in Kinds, NEW x \in DOMAIN Way(k)',
                        NEW y \in DOMAIN Way(l)', from[k][x] = from[l][y],
                        at[k][x] = at[l][y]
                 PROVE  k = l /\ x = y
      BY DEF Apart
    <3>1. ASSUME NEW z \in DOMAIN Way("call")' PROVE z \in Int
      <4>1. z \in 1 .. n - 1
        BY <2>4
      <4> QED BY <4>1
    <3>2. \A z, w \in DOMAIN Way("call")' : z + 1 = w + 1 => z = w
      BY <3>1
    <3> QED BY <3>2
  <2> HIDE DEF from, at
  <2>7. Comes(from, at)
    BY <2>5 DEF Comes
  <2>8. Onward(from, at, ReportSite)
    BY <2>5 DEF Onward
  <2>9. 1 \in DOMAIN Way("call")
    BY <2>4
  <2> QED BY <1>2, <2>2, <2>6, <2>7, <2>8, <2>9, ArrivalMoves
<1> QED BY <1>3, <1>4

LEMMA OnceKept ==
    ASSUME Typed, OncePerSite, RowsGrow,
           \A i \in 1 .. Sites : Len(asks'[i]) = Len(asks[i])
    PROVE  OncePerSite'
<1> SUFFICES ASSUME NEW i \in 1 .. Sites, NEW o \in 1 .. Len(asks'[i]),
                    NEW p \in 1 .. Len(asks'[i]), asks'[i][o].by = asks'[i][p].by
             PROVE  o = p
  BY DEF OncePerSite
<1>1. o \in 1 .. Len(asks[i]) /\ p \in 1 .. Len(asks[i])
  OBVIOUS
<1>2. asks'[i][o].by = asks[i][o].by /\ asks'[i][p].by = asks[i][p].by
  BY <1>1 DEF RowsGrow
<1> QED BY <1>1, <1>2 DEF OncePerSite

\* A branch that has a row at a site does not call there again.
LEMMA AskOnce ==
    ASSUME Typed, NotThereYet, OncePerSite, RowsGrow, AskArrives
    PROVE  OncePerSite'
<1> DEFINE c == Head(calls)
           b == c.branch
           i == c.site
           o == ordinals[i] + 1
           fresh == o > Len(asks[i])
<1>1. calls # <<>> /\ i # ReportSite
  BY DEF AskArrives
<1>2. c \in Calls /\ 1 \in DOMAIN Way("call") /\ Way("call")[1] = c
  <2>1. calls \in Seq(Calls)
    BY DEF Typed
  <2>2. c \in Calls /\ 1 \in DOMAIN calls /\ calls[1] = c
    BY <1>1, <2>1
  <2> QED BY <2>2, WayAt
<1>3. /\ i \in 1 .. Sites /\ b \in Branches
      /\ ordinals[i] \in Nat /\ Len(asks[i]) \in Nat /\ ordinals[i] <= Len(asks[i])
  <2>1. b \in Branches /\ i \in 1 .. ReportSite
    BY <1>2 DEF Calls
  <2> HIDE DEF i, b
  <2>2. i \in 1 .. Sites
    BY <1>1, <2>1, SiteFacts
  <2>3. asks \in [1 .. Sites -> Seq([by : Branches, done : BOOLEAN])]
    BY DEF Typed
  <2>4. ordinals \in [1 .. ReportSite -> Nat] /\ \A j \in 1 .. ReportSite : ordinals[j] <= Rows(j)
    BY DEF Typed
  <2>5. Rows(i) = Len(asks[i])
    BY <1>1 DEF Rows
  <2> QED BY <2>1, <2>2, <2>3, <2>4, <2>5
<1>4. CASE UNCHANGED asks
  BY <1>4, OnceKept
<1>5. CASE fresh /\ asks' = [asks EXCEPT ![i] = Append(@, [by |-> b, done |-> FALSE])]
  <2> HIDE DEF c
  <2> HIDE DEF i, b
  <2>1. /\ Len(asks'[i]) = Len(asks[i]) + 1
        /\ asks'[i][Len(asks[i]) + 1] = [by |-> b, done |-> FALSE]
        /\ \A p \in 1 .. Len(asks[i]) : asks'[i][p] = asks[i][p]
        /\ \A j \in 1 .. Sites : j # i => asks'[j] = asks[j]
    BY <1>3, <1>5, RowAdded DEF Typed
  <2>2. \A p \in 1 .. Len(asks[i]) : asks[i][p].by # b
    <3>1. ordinals[i] = Len(asks[i])
      BY <1>3, <1>5
    <3>2. Way("call")[1].branch = b /\ Way("call")[1].site = i /\ i <= i
      BY <1>2, <1>3 DEF b, i
    <3>3. "call" \in Kinds
      BY DEF Kinds
    <3> QED BY <1>2, <1>3, <3>1, <3>2, <3>3 DEF NotThereYet
  <2> SUFFICES ASSUME NEW j \in 1 .. Sites, NEW p \in 1 .. Len(asks'[j]),
                      NEW q \in 1 .. Len(asks'[j]), asks'[j][p].by = asks'[j][q].by
               PROVE  p = q
    BY DEF OncePerSite
  <2>3. CASE j # i
    BY <2>1, <2>3 DEF OncePerSite
  <2>4. CASE j = i
    <3> DEFINE n == Len(asks[i])
    <3>1. n \in Nat /\ p \in 1 .. n + 1 /\ q \in 1 .. n + 1
      BY <1>3, <2>1, <2>4
    <3>2. asks'[i][n + 1].by = b
      BY <2>1
    <3> HIDE DEF n
    <3>3. \A r \in 1 .. n : asks'[i][r].by = asks[i][r].by /\ asks[i][r].by # b
      BY <2>1, <2>2 DEF n
    <3>4. CASE p \in 1 .. n /\ q \in 1 .. n
      <4>1. asks[i][p].by = asks[i][q].by
        BY <2>4, <3>3, <3>4
      <4> QED BY <1>3, <3>4, <4>1 DEF OncePerSite, n
    <3>5. CASE p = n + 1 /\ q \in 1 .. n
      BY <2>4, <3>2, <3>3, <3>5
    <3>6. CASE p \in 1 .. n /\ q = n + 1
      BY <2>4, <3>2, <3>3, <3>6
    <3> QED BY <3>1, <3>4, <3>5, <3>6
  <2> QED BY <2>3, <2>4
<1> HIDE DEF fresh
<1>6. UNCHANGED asks \/ (fresh /\ asks' = [asks EXCEPT ![i] =
                                             Append(@, [by |-> b, done |-> FALSE])])
  BY DEF AskArrives, Mismatch, journal, fresh
<1> QED BY <1>4, <1>5, <1>6

\* What waits in the gate and what runs are different rows.
LEMMA LinesDistinct ==
    ASSUME Typed, OnePlace
    PROVE  Distinct(due) /\ Distinct(live)
<1>1. ASSUME NEW j \in DOMAIN due, NEW k \in DOMAIN due, due[j] = due[k] PROVE j = k
  <2>1. /\ j \in DOMAIN Way("due") /\ k \in DOMAIN Way("due")
        /\ Way("due")[j] = Way("due")[k]
    BY <1>1, WayAt
  <2> QED BY <2>1 DEF OnePlace, Kinds
<1>2. ASSUME NEW j \in DOMAIN live, NEW k \in DOMAIN live, live[j] = live[k] PROVE j = k
  <2>1. /\ j \in DOMAIN Way("live") /\ k \in DOMAIN Way("live")
        /\ Way("live")[j] = Way("live")[k]
    BY <1>2, WayAt
  <2> QED BY <2>1 DEF OnePlace, Kinds
<1> QED BY <1>1, <1>2 DEF Distinct

LEMMA LogDistinct ==
    ASSUME Typed, OnePlace, Distinct(log), [Next]_vars
    PROVE  Distinct(log')
<1>1. Distinct(due) /\ Distinct(live)
  BY LinesDistinct
<1>2. \A inst : Distinct(<<inst>>)
  BY DEF Distinct
<1>3. log \in Seq(Made) /\ due \in Seq(Made) /\ live \in Seq(Made)
  BY DEF Typed
<1>4. ASSUME NEW inst \in Made PROVE Distinct(RecordSettled(log, <<inst>>))
  <2>1. <<inst>> \in Seq(Made) /\ Distinct(<<inst>>)
    BY <1>2
  <2> QED BY <1>3, <2>1, RecordedDistinct
<1>5. Distinct(RecordSettled(log, due)) /\ Distinct(RecordSettled(log, live))
  BY <1>1, <1>3, RecordedDistinct
<1>6. CASE log' = log
  BY <1>6
<1>7. CASE AskArrives
  <2> DEFINE c == Head(calls)
             inst == <<c.site, ordinals[c.site] + 1>>
  <2>1. log' = log \/ (inst \in Made /\ Hold(inst))
    <3>1. calls \in Seq(Calls) /\ calls # <<>> /\ c.site # ReportSite
      BY <1>7 DEF Typed, AskArrives
    <3>2. c \in Calls
      BY <3>1
    <3>3. c.site \in 1 .. Sites /\ c.site \in 1 .. ReportSite
      BY <3>1, <3>2, SiteFacts DEF Calls
    <3>4. CASE ~(ordinals[c.site] + 1 > Len(asks[c.site]))
      <4> DEFINE i == c.site
      <4>1. ordinals[i] \in Nat /\ Len(asks[i]) \in Nat
        BY <3>3 DEF Typed
      <4>2. log' = log \/ Hold(inst)
        BY <1>7, <3>4 DEF AskArrives, Mismatch, journal
      <4>3. i \in 1 .. Sites /\ ~(ordinals[i] + 1 > Len(asks[i]))
        BY <3>3, <3>4
      <4>4. inst = <<i, ordinals[i] + 1>>
        OBVIOUS
      <4> HIDE DEF c, i, inst
      <4>5. inst \in Made
        BY <4>1, <4>3, <4>4 DEF Made
      <4> QED BY <4>2, <4>5
    <3>5. CASE ordinals[c.site] + 1 > Len(asks[c.site])
      BY <1>7, <3>5 DEF AskArrives, Mismatch, journal
    <3> QED BY <3>4, <3>5
  <2> HIDE DEF c, inst
  <2>2. Hold(inst) => log' = log \/ log' = RecordSettled(log, <<inst>>)
    BY DEF Hold, Release
  <2> QED BY <1>4, <1>6, <2>1, <2>2
<1>8. CASE SettleEvent
  BY <1>4, <1>8 DEF SettleEvent, Release, Typed
<1>9. CASE Flush \/ Stop
  BY <1>5, <1>9 DEF Flush, Stop
<1>10. log' = log \/ AskArrives \/ SettleEvent \/ Flush \/ Stop
  BY DEF Next, Begin, ReportArrives, Mismatch, SettleRow, Deliver, Microtask, Crash,
         Complete, journal, vars
<1> QED BY <1>6, <1>7, <1>8, <1>9, <1>10

LEMMA OrderDistinct ==
    ASSUME Typed, Distinct(log), Distinct(order), [Next]_vars
    PROVE  Distinct(order')
<1>1. Distinct(<<>>)
  BY DEF Distinct
<1>2. CASE Begin
  <2> DEFINE T == {inst \in Elements(log) : Claimable(inst)}
  <2>1. order' = Filtered(log, T)
    BY <1>2 DEF Begin, RecoverSettleOrder
  <2>2. log \in Seq(Made)
    BY DEF Typed
  <2> HIDE DEF T
  <2> QED BY <2>1, <2>2, FilteredDistinct
<1>3. Begin \/ order' = order \/ order' = <<>>
  BY DEF Next, AskArrives, Hold, Release, ReportArrives, Mismatch, NoHost, Flush, SettleRow,
         SettleEvent, Deliver, Microtask, Crash, Stop, Complete, gate, vars
<1> QED BY <1>1, <1>2, <1>3

LEMMA RangedKept ==
    ASSUME Typed, OnePlace, Ranged, [Next]_vars
    PROVE  Ranged'
<1>1. Distinct(log') /\ Distinct(order')
  BY LogDistinct, OrderDistinct DEF Ranged
<1>2. run' \in {"idle", "running", "completed", "errored"}
  BY DEF Ranged, Next, Begin, AskArrives, ReportArrives, Mismatch, Flush, SettleRow,
         SettleEvent, Deliver, Microtask, Crash, Stop, Complete, vars
<1>3. lives' \in 0 .. MaxLives
  <2>1. MaxLives \in Nat /\ lives \in 0 .. MaxLives
    BY ReplayAssumption DEF Ranged
  <2>2. CASE Begin
    BY <2>1, <2>2 DEF Begin
  <2>3. Begin \/ lives' = lives
    BY DEF Next, AskArrives, ReportArrives, Mismatch, Flush, SettleRow, SettleEvent,
           Deliver, Microtask, Crash, Stop, Complete, vars
  <2> QED BY <2>1, <2>2, <2>3
<1>4. Cardinality(torn') <= 1
  <2>1. torn' = torn \/ torn' = {} \/ \E inst : torn' = {inst}
    BY DEF Next, Begin, AskArrives, ReportArrives, Mismatch, NoHost, Flush, SettleRow,
           SettleEvent, Deliver, Microtask, Crash, Stop, Complete, vars
  <2>2. Cardinality({}) = 0 /\ \A inst : Cardinality({inst}) = 1
    BY FS_EmptySet, FS_Singleton
  <2>3. CASE torn' = torn
    BY <2>3 DEF Ranged
  <2>4. CASE torn' = {}
    BY <2>2, <2>4
  <2>5. ASSUME NEW inst, torn' = {inst} PROVE Cardinality(torn') <= 1
    <3>1. Cardinality(torn') = 1
      BY <2>2, <2>5
    <3> QED BY <3>1
  <2> QED BY <2>1, <2>3, <2>4, <2>5
<1>5. happened' \subseteq Surprises
  BY DEF Ranged, Next, Begin, AskArrives, ReportArrives, Mismatch, Flush, SettleRow,
         SettleEvent, Deliver, Microtask, Crash, Stop, Complete, vars
<1> QED BY <1>1, <1>2, <1>3, <1>4, <1>5 DEF Ranged

LEMMA BoundedKept == Typed /\ Bounded /\ [Next]_vars => Bounded'
<1> SUFFICES ASSUME Typed, Bounded, [Next]_vars PROVE Bounded'
  OBVIOUS
<1>1. Typed' /\ RowsGrow
  BY NextTyped DEF Grows
<1>2. OnePlace /\ NotThereYet /\ OncePerSite /\ Ranged /\ Distinct(order)
  BY DEF Bounded, Ranged
<1>3. Ranged'
  BY <1>2, RangedKept
<1>4. OnePlace' /\ NotThereYet'
  <2>1. CASE UNCHANGED vars
    <3>1. \A k \in Kinds : Way(k)' = Way(k)
      BY <1>1, <2>1, SameWay DEF vars, sandbox, gate, Kinds
    <3>2. UNCHANGED <<asks, ordinals>>
      BY <2>1 DEF vars, journal
    <3>3. OnePlace'
      BY <1>2, <3>1 DEF OnePlace
    <3>4. NotThereYet'
      BY <1>2, <3>1, <3>2 DEF NotThereYet
    <3> QED BY <3>3, <3>4
  <2>2. CASE Begin
    BY <2>2, BeginMoves
  <2>3. CASE AskArrives
    BY <1>1, <1>2, <2>3, AskMoves
  <2>4. CASE ReportArrives
    BY <1>1, <1>2, <2>4, ReportMoves
  <2>5. CASE Flush
    BY <1>1, <1>2, <2>5, FlushMoves
  <2>6. CASE \E i \in 1 .. Sites : \E o \in 1 .. Len(asks[i]) : SettleRow(<<i, o>>)
    <3>0. PICK i \in 1 .. Sites : \E o \in 1 .. Len(asks[i]) : SettleRow(<<i, o>>)
      BY <2>6
    <3>1. PICK o \in 1 .. Len(asks[i]) : SettleRow(<<i, o>>)
      BY <3>0
    <3>2. <<i, o>> \in Made
      <4>1. Len(asks[i]) \in Nat
        BY DEF Typed
      <4> QED BY <4>1 DEF Made
    <3> QED BY <1>1, <1>2, <3>1, <3>2, SettleRowMoves
  <2>7. CASE SettleEvent
    BY <1>1, <1>2, <2>7, SettleEventMoves
  <2>8. CASE \E n \in 1 .. Len(answers) : Deliver(n)
    BY <1>1, <1>2, <2>8, DeliverMoves
  <2>9. CASE Microtask
    BY <1>1, <1>2, <2>9, MicrotaskMoves
  <2>10. CASE Crash \/ Stop \/ Complete
    <3>1. NoHost /\ UNCHANGED <<asks, reports>>
      BY <2>10 DEF Crash, Stop, Complete, journal
    <3>2. reports' \in Seq(Branches) /\ log' \in Seq(Made')
      BY <1>1 DEF Typed
    <3> QED BY <1>1, <3>1, <3>2, EndMoves
  <2> QED BY <2>1, <2>2, <2>3, <2>4, <2>5, <2>6, <2>7, <2>8, <2>9, <2>10 DEF Next
<1>5. OncePerSite'
  <2>1. CASE AskArrives
    BY <1>1, <1>2, <2>1, AskOnce
  <2>2. CASE UNCHANGED asks
    BY <1>1, <1>2, <2>2, OnceKept
  <2>3. CASE \E i \in 1 .. Sites : \E o \in 1 .. Len(asks[i]) : SettleRow(<<i, o>>)
    <3>0. PICK i \in 1 .. Sites : \E o \in 1 .. Len(asks[i]) : SettleRow(<<i, o>>)
      BY <2>3
    <3>1. PICK o \in 1 .. Len(asks[i]) : SettleRow(<<i, o>>)
      BY <3>0
    <3>2. asks' = [asks EXCEPT ![i] = [asks[i] EXCEPT ![o] = [@ EXCEPT !.done = TRUE]]]
      BY <3>1 DEF SettleRow
    <3>3. asks \in [1 .. Sites -> Seq([by : Branches, done : BOOLEAN])]
      BY DEF Typed
    <3> DEFINE row == [asks[i][o] EXCEPT !.done = TRUE]
    <3> HIDE DEF row
    <3>4. asks' = [asks EXCEPT ![i] = [asks[i] EXCEPT ![o] = row]]
      BY <3>2 DEF row
    <3>5. \A j \in 1 .. Sites : Len(asks'[j]) = Len(asks[j])
      BY <3>3, <3>4
    <3> QED BY <1>1, <1>2, <3>5, OnceKept
  <2>4. \/ AskArrives \/ UNCHANGED asks
        \/ \E i \in 1 .. Sites : \E o \in 1 .. Len(asks[i]) : SettleRow(<<i, o>>)
    BY DEF Next, Begin, ReportArrives, Mismatch, Flush, SettleEvent, Deliver, Microtask,
           Crash, Stop, Complete, journal, vars
  <2> QED BY <2>1, <2>2, <2>3, <2>4
<1> QED BY <1>3, <1>4, <1>5 DEF Bounded

LEMMA InitBounded == Init => Bounded
<1> SUFFICES ASSUME Init PROVE Bounded
  OBVIOUS
<1>1. Reset
  BY DEF Init, Reset
<1>2. OnePlace /\ NotThereYet /\ Distinct(order) /\ Cardinality(torn) <= 1
  BY <1>1, NobodyOut
<1>3. OncePerSite
  <2>1. \A i \in 1 .. Sites : asks[i] = <<>>
    BY DEF Init
  <2> QED BY <2>1 DEF OncePerSite
<1>4. Distinct(log)
  BY DEF Init, Distinct
<1> QED BY <1>2, <1>3, <1>4, ReplayAssumption DEF Init, Bounded, Ranged

\* There are no more rows than Instances has room for.
LEMMA RowsBounded ==
    ASSUME Typed, OncePerSite
    PROVE  Made \subseteq Instances
<1>1. IsFiniteSet(Branches) /\ Cardinality(Branches) \in Nat
  BY ReplayAssumption, FS_CardinalityType
<1>2. ASSUME NEW i \in 1 .. Sites PROVE Len(asks[i]) \in Nat /\ Len(asks[i]) <= Cardinality(Branches)
  <2> DEFINE n == Len(asks[i])
             s == [o \in 1 .. n |-> asks[i][o].by]
             F == {s[j] : j \in 1 .. n}
  <2>1. asks[i] \in Seq([by : Branches, done : BOOLEAN])
    BY DEF Typed
  <2>2. n \in Nat /\ \A o \in 1 .. n : asks[i][o].by \in Branches
    <3> DEFINE R == [by : Branches, done : BOOLEAN]
    <3>1. asks[i] \in Seq(R)
      BY <2>1
    <3>2. \A r \in R : r.by \in Branches
      OBVIOUS
    <3> HIDE DEF R
    <3> QED BY <3>1, <3>2
  <2>3. Distinct(s)
    BY DEF OncePerSite, Distinct
  <2> HIDE DEF n
  <2>4. s \in Seq(Branches) /\ Len(s) = n /\ n \in 0 .. Len(s)
    BY <2>2
  <2>5. \A j \in 1 .. n : s[j] \in Branches
    BY <2>2
  <2> HIDE DEF s
  <2>6. Cardinality(F) = n
    BY <2>3, <2>4, FirstAreThatMany
  <2>7. F \subseteq Branches
    BY <2>5
  <2> HIDE DEF F
  <2>8. Cardinality(F) <= Cardinality(Branches)
    BY <1>1, <2>7, FS_Subset
  <2> QED BY <2>2, <2>6, <2>8 DEF n
<1> SUFFICES ASSUME NEW i \in 1 .. Sites, NEW o \in Nat \ {0}, o <= Len(asks[i])
             PROVE  o \in 1 .. Cardinality(Branches)
  BY DEF Made, Instances
<1> QED BY <1>1, <1>2

LEMMA TypedTypeOK == Typed /\ Bounded => TypeOK
<1> SUFFICES ASSUME Typed, Bounded PROVE TypeOK
  OBVIOUS
<1>1. Made \subseteq Instances /\ Seq(Made) \subseteq Seq(Instances)
  <2>1. Made \subseteq Instances
    BY RowsBounded DEF Bounded
  <2> QED BY <2>1
<1>2. Asked \subseteq Calls /\ Seq(Asked) \subseteq Seq(Calls)
  <2>1. Asked \subseteq Calls
    BY SiteFacts DEF Asked, Calls
  <2> QED BY <2>1
<1>3. Seq([call : Asked, hops : Nat]) \subseteq Seq([call : Calls, hops : Nat])
  <2> DEFINE R == [call : Asked, hops : Nat]
             S == [call : Calls, hops : Nat]
  <2>1. R \subseteq S
    BY <1>2
  <2> HIDE DEF R, S
  <2>2. Seq(R) \subseteq Seq(S)
    BY <2>1
  <2> QED BY <2>2 DEF R, S
<1>4. /\ asks \in [1 .. Sites -> Seq([by : Branches, done : BOOLEAN])]
      /\ reports \in Seq(Branches)
      /\ ordinals \in [1 .. ReportSite -> Nat] /\ recorded \in [1 .. ReportSite -> Nat]
      /\ cursor \in 0 .. Len(order)
  BY DEF Typed
<1>5. /\ log \in Seq(Instances) /\ order \in Seq(Instances) /\ due \in Seq(Instances)
      /\ live \in Seq(Instances) /\ parked \subseteq Instances /\ torn \subseteq Instances
  BY <1>1 DEF Typed
<1>6. /\ answers \in Seq(Calls) /\ calls \in Seq(Calls)
      /\ micro \in Seq([call : Calls, hops : Nat])
  BY <1>2, <1>3 DEF Typed
<1>7. Ranged
  BY DEF Bounded
<1> QED BY <1>4, <1>5, <1>6, <1>7 DEF TypeOK, Ranged

\* Whatever ends the lives of a run and whatever its branches do, the journal and the
\* host stay within what the script can make: a site never has more rows than the
\* script has branches, and no instance is in the log twice (admitAsk, nextOrdinal,
\* recoverSettleOrder).
THEOREM JournalBounded == Spec => []TypeOK
<1>1. Typed /\ Bounded /\ [Next]_vars => Typed' /\ Bounded'
  BY NextTyped, BoundedKept
<1>2. Init => Typed /\ Bounded
  BY InitTyped, InitBounded
<1>3. Typed /\ Bounded => TypeOK
  BY TypedTypeOK
<1> QED BY <1>1, <1>2, <1>3, PTL DEF Spec
===============================================================================
