------------------------ MODULE PersistentProtocolProofs ------------------------
(***************************************************************************)
(* Each direction of a persistent protocol is a reliable pipe, as far as   *)
(* safety goes: no frame is lost and none is handed over before the ones   *)
(* sent before it, whatever sockets break, are replaced or are replayed    *)
(* over.                                                                   *)
(*                                                                         *)
(* What makes it work is that the frames kept are the last ones sent, in a *)
(* row (Rows), that no frame acknowledges more than was received           *)
(* (AcksSound), and that the socket an end writes to still holds what is   *)
(* kept and not yet received (OnItsWay).                                   *)
(***************************************************************************)
EXTENDS PersistentProtocol, SequenceTheorems, FiniteSetTheorems, TLAPS

IsRegular(f) == f.type = "Regular"

Rows ==
    \A p \in Ends :
        /\ Len(unack[p]) <= outId[p]
        /\ \A i \in 1 .. Len(unack[p]) : /\ unack[p][i].id = outId[p] - Len(unack[p]) + i
                                         /\ IsRegular(unack[p][i])

AcksSound ==
    \A p \in Ends :
        /\ inAck[p] <= top[p]
        /\ \A i \in 1 .. Len(unack[p]) : unack[p][i].ack <= top[p]
        /\ \A s \in Sockets : \A i \in 1 .. Len(wire[s][p]) :
              /\ wire[s][p][i].ack <= top[Other(p)]
              /\ wire[s][p][i].id <= outId[Other(p)]

OnItsWay ==
    \A p \in Ends : Carries(socket[p], p) =>
        \A id \in Nat : outId[p] - Len(unack[p]) < id /\ id <= outId[p] =>
            \/ id <= top[Other(p)]
            \/ \E j \in 1 .. Len(wire[socket[p]][Other(p)]) :
                  /\ IsRegular(wire[socket[p]][Other(p)][j])
                  /\ wire[socket[p]][Other(p)][j].id = id

Unused ==
    \A p \in Ends, s \in Sockets : s > socket[p] => wire[s][Other(p)] = <<>>

InOrder ==
    \A p \in Ends, s \in Sockets : \A i \in 1 .. Len(wire[s][p]) :
        IsRegular(wire[s][p][i]) =>
            \/ wire[s][p][i].id <= top[p] + 1
            \/ \E j \in 1 .. i - 1 : /\ IsRegular(wire[s][p][j])
                                     /\ wire[s][p][j].id = wire[s][p][i].id - 1

IInv ==
    /\ TypeOK /\ MarksAgree
    /\ Rows /\ AcksSound /\ NothingLost /\ OnItsWay /\ Unused /\ InOrder

LEMMA EndsFacts ==
    \A p \in Ends : Other(p) \in Ends /\ Other(p) # p /\ Other(Other(p)) = p
BY DEF Ends, Other

LEMMA TypeFacts ==
    ASSUME TypeOK, NEW p \in Ends
    PROVE  /\ socket[p] \in Sockets /\ socket[p] \in Nat
           /\ outId[p] \in Nat /\ inAck[p] \in Nat /\ top[p] \in Nat
           /\ unack[p] \in Seq(Frames) /\ Len(unack[p]) \in Nat
           /\ \A s \in Sockets : wire[s][p] \in Seq(Frames) /\ Len(wire[s][p]) \in Nat
<1>1. /\ socket \in [Ends -> Sockets] /\ wire \in [Sockets -> [Ends -> Seq(Frames)]]
      /\ outId \in [Ends -> Nat] /\ inAck \in [Ends -> Nat] /\ top \in [Ends -> Nat]
      /\ unack \in [Ends -> Seq(Frames)]
  BY DEF TypeOK
<1>2. socket[p] \in Sockets /\ socket[p] \in Nat
  BY <1>1 DEF Sockets
<1>3. unack[p] \in Seq(Frames) /\ \A s \in Sockets : wire[s][p] \in Seq(Frames)
  BY <1>1
<1>4. outId[p] \in Nat /\ inAck[p] \in Nat /\ top[p] \in Nat
  BY <1>1
<1>5. Len(unack[p]) \in Nat /\ \A s \in Sockets : Len(wire[s][p]) \in Nat
  BY <1>3
<1> QED
  BY <1>2, <1>3, <1>4, <1>5

LEMMA TheEnds ==
    \A p \in Ends : \A r \in Ends : r = p \/ r = Other(p)
BY DEF Ends, Other

(* An acknowledgement takes a beginning of the queue away, the entries up to  *)
(* the number acknowledged.                                                    *)
LEMMA AfterAckFacts ==
    ASSUME NEW u \in Seq(Frames), NEW out \in Nat, NEW ack \in Nat,
           Len(u) <= out, \A i \in 1 .. Len(u) : u[i].id = out - Len(u) + i
    PROVE  \E n \in 0 .. Len(u) :
              /\ AfterAck(u, ack) = SubSeq(u, n + 1, Len(u))
              /\ n = 0 \/ out - Len(u) + n <= ack
<1> DEFINE P(n) == /\ \A i \in 1 .. n : u[i].id <= ack
                   /\ n < Len(u) => u[n + 1].id > ack
           first == out - Len(u)
           c == IF ack < first THEN 0 ELSE IF ack >= out THEN Len(u) ELSE ack - first
<1>1. Len(u) \in Nat /\ first \in Nat
  OBVIOUS
<1>2. c \in 0 .. Len(u) /\ P(c)
  <2>1. CASE ack < first
    <3>1. c = 0 /\ (0 < Len(u) => u[0 + 1].id = first + 1)
      BY <1>1, <2>1
    <3> QED
      BY <1>1, <2>1, <3>1
  <2>2. CASE ack >= out
    <3>1. c = Len(u)
      BY <1>1, <2>2
    <3>2. \A i \in 1 .. Len(u) : u[i].id <= ack
      BY <1>1, <2>2
    <3> QED
      BY <1>1, <3>1, <3>2
  <2>3. CASE first <= ack /\ ack < out
    <3>1. c = ack - first /\ c \in 0 .. Len(u) /\ c < Len(u)
      BY <1>1, <2>3
    <3>2. c + 1 \in 1 .. Len(u)
      BY <1>1, <3>1
    <3>3. u[c + 1].id = first + (c + 1)
      BY <3>2
    <3>4. \A i \in 1 .. c : u[i].id <= ack
      BY <1>1, <3>1
    <3>5. u[c + 1].id > ack
      BY <1>1, <3>1, <3>3
    <3> QED
      BY <3>1, <3>4, <3>5
  <2> QED
    BY <1>1, <2>1, <2>2, <2>3
<1>3. PICK n \in 0 .. Len(u) : P(n) /\ AfterAck(u, ack) = SubSeq(u, n + 1, Len(u))
  <2>1. LET g == CHOOSE n \in 0 .. Len(u) : P(n) IN g \in 0 .. Len(u) /\ P(g)
    BY <1>2
  <2> QED
    BY <2>1 DEF AfterAck
<1>4. n = 0 \/ u[n].id <= ack
  BY <1>3, <1>1
<1>5. n # 0 => u[n].id = first + n
  BY <1>1, <1>3
<1> QED
  BY <1>3, <1>4, <1>5, <1>1

(* What a socket carries after a write.                                        *)
LEMMA WrittenFacts ==
    ASSUME TypeOK, NEW s \in Sockets, NEW p \in Ends, NEW F \in Seq(Frames)
    PROVE  /\ Written(s, p, F) \in [Sockets -> [Ends -> Seq(Frames)]]
           /\ \A t \in Sockets, r \in Ends :
                Written(s, p, F)[t][r] = IF Carries(s, p) /\ t = s /\ r = Other(p)
                                         THEN wire[s][Other(p)] \o F ELSE wire[t][r]
<1>1. Other(p) \in Ends
  BY EndsFacts
<1>2. wire[s][Other(p)] \o F \in Seq(Frames)
  BY <1>1 DEF TypeOK
<1> QED
  BY <1>1, <1>2 DEF Written, TypeOK

LEMMA FrameFacts ==
    /\ \A id, ack, size \in Nat : Regular(id, ack, size) \in Frames
    /\ \A ack \in Nat, type \in {"KeepAlive", "Disconnect"} : Control(type, ack) \in Frames
BY DEF Regular, Control, Frames

LEMMA GoodbyeFacts ==
    ASSUME TypeOK, NEW p \in Ends
    PROVE  /\ Goodbye(p) \in Seq(Frames)
           /\ \A i \in 1 .. Len(Goodbye(p)) : /\ ~IsRegular(Goodbye(p)[i])
                                            /\ Goodbye(p)[i].ack = inAck[p]
                                            /\ Goodbye(p)[i].id = 0
<1>1. Control("Disconnect", inAck[p]) \in Frames
  BY FrameFacts DEF TypeOK
<1> QED
  BY <1>1 DEF Goodbye, IsRegular, Control
--------------------------------------------------------------------------------
(* Writing frames disturbs nothing, as long as none is regular but the next one *)
(* of the sender, first of them and kept by it.                                   *)
Nothing(F) == UNCHANGED <<outId, unack>> /\ \A i \in 1 .. Len(F) : ~IsRegular(F[i])
TheNext(p, F) ==
    /\ Len(F) > 0 /\ IsRegular(F[1]) /\ F[1].id = outId[p] + 1
    /\ \A i \in 2 .. Len(F) : ~IsRegular(F[i])
    /\ outId' = [outId EXCEPT ![p] = outId[p] + 1]
    /\ unack' = [unack EXCEPT ![p] = Append(unack[p], F[1])]

LEMMA WriteKeeps ==
    ASSUME IInv, NEW p \in Ends, NEW F \in Seq(Frames),
           Nothing(F) \/ TheNext(p, F),
           \A i \in 1 .. Len(F) : F[i].ack = inAck[p] /\ F[i].id <= outId'[p],
           wire' = Written(socket[p], p, F),
           UNCHANGED <<socket, up, inAck, top>>
    PROVE  /\ wire' \in [Sockets -> [Ends -> Seq(Frames)]]
           /\ outId' \in [Ends -> Nat] /\ unack' \in [Ends -> Seq(Frames)]
           /\ Rows' /\ AcksSound' /\ NothingLost' /\ OnItsWay' /\ Unused' /\ InOrder'
<1> DEFINE q == Other(p)
           s == socket[p]
           W == wire[s][q]
           V == W \o F
           n == Len(unack[p])
<1>1. TypeOK /\ Rows /\ AcksSound /\ NothingLost /\ OnItsWay /\ Unused /\ InOrder
  BY DEF IInv
<1>2. /\ s \in Sockets /\ q \in Ends /\ q # p /\ Other(q) = p /\ W \in Seq(Frames)
      /\ n \in Nat /\ outId[p] \in Nat /\ unack[p] \in Seq(Frames) /\ n <= outId[p]
      /\ \A r \in Ends : r = p \/ r = q
  <2>1. Other(p) \in Ends /\ Other(p) # p /\ Other(Other(p)) = p
    BY EndsFacts
  <2>2. Len(unack[p]) <= outId[p]
    BY <1>1 DEF Rows
  <2>3. /\ socket[p] \in Sockets /\ outId[p] \in Nat
        /\ unack[p] \in Seq(Frames) /\ Len(unack[p]) \in Nat
        /\ wire[socket[p]][Other(p)] \in Seq(Frames)
    BY <1>1, <2>1, TypeFacts
  <2> QED
    BY <2>1, <2>2, <2>3, TheEnds
<1>3. /\ wire' \in [Sockets -> [Ends -> Seq(Frames)]]
      /\ \A t \in Sockets, r \in Ends :
            wire'[t][r] = IF Carries(s, p) /\ t = s /\ r = q THEN V ELSE wire[t][r]
  <2>1. /\ Written(s, p, F) \in [Sockets -> [Ends -> Seq(Frames)]]
        /\ \A t \in Sockets, r \in Ends :
              Written(s, p, F)[t][r] = IF Carries(s, p) /\ t = s /\ r = Other(p)
                                       THEN wire[s][Other(p)] \o F ELSE wire[t][r]
    <3>1. TypeOK /\ s \in Sockets
      BY <1>1, <1>2
    <3> HIDE DEF s
    <3> QED
      BY <3>1, WrittenFacts
  <2> QED
    BY <2>1
<1>4. /\ V \in Seq(Frames) /\ Len(V) = Len(W) + Len(F)
      /\ \A i \in 1 .. Len(W) : V[i] = W[i]
      /\ \A i \in Len(W) + 1 .. Len(W) + Len(F) : V[i] = F[i - Len(W)]
  BY <1>2
<1>w. W = wire[s][q] /\ s = socket[p] /\ q = Other(p) /\ n = Len(unack[p])
  OBVIOUS
<1> HIDE DEF V, W, s, q, n
<1>n. ASSUME TheNext(p, F)
      PROVE  /\ F[1] \in Frames /\ Append(unack[p], F[1]) \in Seq(Frames)
             /\ unack'[p] = Append(unack[p], F[1]) /\ Len(unack'[p]) = n + 1
             /\ outId'[p] = outId[p] + 1
             /\ unack' \in [Ends -> Seq(Frames)] /\ outId' \in [Ends -> Nat]
             /\ unack'[q] = unack[q] /\ outId'[q] = outId[q]
             /\ 1 \in 1 .. Len(F)
  <2>1. F[1] \in Frames /\ 1 \in 1 .. Len(F)
    BY <1>n DEF TheNext
  <2>2. Append(unack[p], F[1]) \in Seq(Frames) /\ Len(Append(unack[p], F[1])) = n + 1
    BY <1>2, <1>w, <2>1
  <2>3. unack' = [unack EXCEPT ![p] = Append(unack[p], F[1])]
        /\ outId' = [outId EXCEPT ![p] = outId[p] + 1]
    BY <1>n DEF TheNext
  <2>4. unack \in [Ends -> Seq(Frames)] /\ outId \in [Ends -> Nat] /\ outId[p] + 1 \in Nat
    <3>1. unack \in [Ends -> Seq(Frames)] /\ outId \in [Ends -> Nat]
      BY <1>1 DEF TypeOK
    <3> QED
      BY <3>1
  <2> QED
    BY <1>2, <2>1, <2>2, <2>3, <2>4
<1>g. /\ outId' \in [Ends -> Nat] /\ unack' \in [Ends -> Seq(Frames)]
      /\ outId'[q] = outId[q] /\ unack'[q] = unack[q]
      /\ outId'[p] \in {outId[p], outId[p] + 1}
      /\ outId'[p] - Len(unack'[p]) = outId[p] - n /\ Len(unack'[p]) \in Nat
  <2>1. CASE Nothing(F)
    BY <1>1, <1>2, <1>w, <2>1 DEF Nothing, TypeOK
  <2>2. CASE TheNext(p, F)
    <3>1. outId'[p] = outId[p] + 1 /\ Len(unack'[p]) = n + 1
      BY <1>n, <2>2
    <3>2. outId'[p] - Len(unack'[p]) = outId[p] - n /\ Len(unack'[p]) \in Nat
      <4>1. \A a, m \in Nat : (a + 1) - (m + 1) = a - m /\ m + 1 \in Nat
        OBVIOUS
      <4>2. outId[p] \in Nat /\ n \in Nat
        BY <1>2
      <4> QED
        BY <3>1, <4>1, <4>2
    <3> QED
      BY <1>n, <2>2, <3>1, <3>2
  <2> QED
    BY <2>1, <2>2
<1>5. Rows' /\ NothingLost'
  <2>1. CASE Nothing(F)
    BY <1>1, <2>1 DEF Rows, NothingLost, Nothing
  <2>2. CASE TheNext(p, F)
    <3>1. /\ unack'[p] = Append(unack[p], F[1]) /\ outId'[p] = outId[p] + 1
          /\ Len(unack'[p]) = n + 1 /\ F[1] \in Frames
      BY <1>n, <2>2
    <3>2. ASSUME NEW i \in 1 .. Len(unack'[p])
          PROVE  unack'[p][i].id = outId'[p] - Len(unack'[p]) + i /\ IsRegular(unack'[p][i])
      <4>1. CASE i = n + 1
        <5>1. unack'[p][i] = F[1]
          BY <1>2, <1>w, <3>1, <4>1
        <5> QED
          BY <1>2, <2>2, <3>1, <4>1, <5>1 DEF TheNext
      <4>2. CASE i # n + 1
        <5>1. i \in 1 .. n /\ unack'[p][i] = unack[p][i]
          BY <1>2, <1>w, <3>1, <4>2
        <5> QED
          BY <1>1, <1>2, <1>w, <3>1, <5>1 DEF Rows
      <4> QED
        BY <4>1, <4>2
    <3>3. Rows'
      <4>1. Len(unack'[p]) <= outId'[p]
        BY <1>2, <3>1
      <4>2. /\ Len(unack'[q]) <= outId'[q]
            /\ \A i \in 1 .. Len(unack'[q]) : /\ unack'[q][i].id = outId'[q] - Len(unack'[q]) + i
                                              /\ IsRegular(unack'[q][i])
        BY <1>1, <1>2, <1>g DEF Rows
      <4> QED
        BY <1>2, <3>2, <4>1, <4>2 DEF Rows
    <3>4. NothingLost'
      BY <1>1, <1>2, <1>g, <1>w DEF NothingLost
    <3> QED
      BY <3>3, <3>4
  <2> QED
    BY <2>1, <2>2
<1>6. AcksSound'
  <2>0. inAck[p] <= top[p] /\ inAck[p] \in Nat /\ top[p] \in Nat
    BY <1>1 DEF AcksSound, TypeOK
  <2>1. ASSUME NEW r \in Ends, NEW i \in 1 .. Len(unack'[r])
        PROVE  unack'[r][i].ack <= top[r]
    <3>1. CASE r = q \/ Nothing(F)
      BY <1>1, <1>2, <1>g, <2>1, <3>1 DEF AcksSound, Nothing
    <3>2. CASE r = p /\ TheNext(p, F)
      <4>1. unack'[p] = Append(unack[p], F[1]) /\ Len(unack'[p]) = n + 1 /\ F[1] \in Frames
        BY <1>n, <3>2
      <4>2. F[1].ack = inAck[p]
        BY <1>2, <3>2 DEF TheNext
      <4>3. CASE i = n + 1
        BY <1>2, <1>w, <2>0, <3>2, <4>1, <4>2, <4>3
      <4>4. CASE i # n + 1
        <5>1. i \in 1 .. n /\ unack'[p][i] = unack[p][i]
          BY <1>2, <1>w, <3>2, <4>1, <4>4
        <5> QED
          BY <1>1, <1>w, <3>2, <5>1 DEF AcksSound
      <4> QED
        BY <4>3, <4>4
    <3> QED
      BY <1>2, <3>1, <3>2
  <2>2. ASSUME NEW r \in Ends, NEW t \in Sockets, NEW i \in 1 .. Len(wire'[t][r])
        PROVE  /\ wire'[t][r][i].ack <= top[Other(r)]
               /\ wire'[t][r][i].id <= outId'[Other(r)]
    <3>0. /\ wire[t][r] \in Seq(Frames) /\ outId[Other(r)] \in Nat /\ top[Other(r)] \in Nat
          /\ outId'[Other(r)] \in Nat /\ outId[Other(r)] <= outId'[Other(r)]
      <4>1. Other(r) = p \/ Other(r) = q
        BY <1>2, EndsFacts
      <4>2. wire[t][r] \in Seq(Frames) /\ outId[Other(r)] \in Nat /\ top[Other(r)] \in Nat
        BY <1>1, EndsFacts DEF TypeOK
      <4>3. outId'[Other(r)] \in Nat
        BY <1>g, EndsFacts
      <4> QED
        BY <1>g, <4>1, <4>2, <4>3
    <3>1. CASE i \in 1 .. Len(wire[t][r]) /\ wire'[t][r][i] = wire[t][r][i]
      <4>1. wire[t][r][i] \in Frames /\ wire[t][r][i].id \in Nat
        <5>1. wire[t][r][i] \in Frames
          BY <3>0, <3>1
        <5> QED
          BY <5>1 DEF Frames
      <4>2. /\ wire[t][r][i].ack <= top[Other(r)]
            /\ wire[t][r][i].id <= outId[Other(r)]
        BY <1>1, <3>1 DEF AcksSound
      <4> QED
        BY <3>0, <3>1, <4>1, <4>2
    <3>2. CASE ~(i \in 1 .. Len(wire[t][r]) /\ wire'[t][r][i] = wire[t][r][i])
      <4>1. Carries(s, p) /\ t = s /\ r = q
        BY <1>3, <2>2, <3>2
      <4>2. wire'[t][r] = V /\ wire[t][r] = W
        BY <1>2, <1>3, <1>w, <4>1
      <4>3. i \in Len(W) + 1 .. Len(W) + Len(F)
        BY <1>2, <1>4, <2>2, <3>2, <4>2
      <4>4. i - Len(W) \in 1 .. Len(F) /\ wire'[t][r][i] = F[i - Len(W)]
        BY <1>2, <1>4, <4>2, <4>3
      <4> QED
        BY <1>2, <2>0, <4>1, <4>4
    <3> QED
      BY <3>1, <3>2
  <2> QED
    BY <1>1, <2>1, <2>2 DEF AcksSound
<1>7. OnItsWay'
  <2> SUFFICES ASSUME NEW r \in Ends, Carries(socket[r], r), NEW id \in Nat,
                      outId'[r] - Len(unack'[r]) < id, id <= outId'[r],
                      ~(id <= top[Other(r)])
               PROVE  \E j \in 1 .. Len(wire'[socket[r]][Other(r)]) :
                         /\ IsRegular(wire'[socket[r]][Other(r)][j])
                         /\ wire'[socket[r]][Other(r)][j].id = id
    BY DEF OnItsWay, Carries
  <2>0. socket[r] \in Sockets /\ Other(r) \in Ends
    BY <1>1, <1>w, EndsFacts DEF TypeOK
  <2>1. CASE outId[r] - Len(unack[r]) < id /\ id <= outId[r]
    <3>1. PICK j \in 1 .. Len(wire[socket[r]][Other(r)]) :
               /\ IsRegular(wire[socket[r]][Other(r)][j])
               /\ wire[socket[r]][Other(r)][j].id = id
      BY <1>1, <2>1 DEF OnItsWay
    <3>2. CASE Other(r) = q /\ socket[r] = s /\ Carries(s, p)
      <4>1. wire'[socket[r]][Other(r)] = V
        BY <1>3, <2>0, <3>2
      <4>2. j \in 1 .. Len(V) /\ V[j] = wire[socket[r]][Other(r)][j]
        <5>1. wire[socket[r]][Other(r)] = W /\ j \in 1 .. Len(W)
          BY <1>w, <3>1, <3>2
        <5>2. Len(W) \in Nat /\ Len(F) \in Nat
          BY <1>2
        <5>3. j \in 1 .. Len(V)
          BY <1>4, <5>1, <5>2
        <5> QED
          BY <1>4, <5>1, <5>3
      <4> QED
        BY <3>1, <4>1, <4>2
    <3>3. CASE ~(Other(r) = q /\ socket[r] = s /\ Carries(s, p))
      BY <1>3, <2>0, <3>1, <3>3
    <3> QED
      BY <3>2, <3>3
  <2>2. CASE ~(outId[r] - Len(unack[r]) < id /\ id <= outId[r])
    <3>1. r = p /\ TheNext(p, F) /\ id = outId[p] + 1
      <4>1. r # q
        BY <1>g, <2>2
      <4>2. r = p
        BY <1>2, <4>1
      <4>3. ~Nothing(F)
        BY <2>2 DEF Nothing
      <4>4. outId[p] - n < id /\ id <= outId'[p]
        BY <1>g, <4>2
      <4>5. ~(id <= outId[p])
        BY <1>w, <2>2, <4>2, <4>4
      <4> QED
        BY <1>2, <1>g, <4>2, <4>3, <4>4, <4>5
    <3>2. wire'[socket[r]][Other(r)] = V
      BY <1>3, <1>w, <2>0, <3>1
    <3>3. Len(F) > 0 /\ IsRegular(F[1]) /\ F[1].id = id
      BY <3>1 DEF TheNext
    <3>4. Len(W) + 1 \in 1 .. Len(V) /\ V[Len(W) + 1] = F[1]
      <4>1. Len(W) + 1 \in Len(W) + 1 .. Len(W) + Len(F)
        BY <1>2, <3>3
      <4>2. V[Len(W) + 1] = F[Len(W) + 1 - Len(W)]
        BY <1>4, <4>1
      <4>3. Len(W) + 1 - Len(W) = 1
        BY <1>2
      <4> QED
        BY <1>2, <1>4, <4>1, <4>2, <4>3
    <3> QED
      BY <3>2, <3>3, <3>4
  <2> QED
    BY <2>1, <2>2
<1>8. Unused'
  <2> SUFFICES ASSUME NEW r \in Ends, NEW t \in Sockets, t > socket[r]
               PROVE  wire'[t][Other(r)] = <<>>
    BY DEF Unused
  <2>1. ~(Carries(s, p) /\ t = s /\ Other(r) = q)
    <3>1. Other(r) = q => r = p
      BY <1>w, <1>2, EndsFacts
    <3> QED
      BY <1>1, <1>2, <1>w, <3>1 DEF Sockets
  <2> QED
    BY <1>1, <1>3, <2>1, EndsFacts DEF Unused
<1>9. InOrder'
  <2> SUFFICES ASSUME NEW r \in Ends, NEW t \in Sockets, NEW i \in 1 .. Len(wire'[t][r]),
                      IsRegular(wire'[t][r][i]), ~(wire'[t][r][i].id <= top[r] + 1)
               PROVE  \E j \in 1 .. i - 1 : /\ IsRegular(wire'[t][r][j])
                                           /\ wire'[t][r][j].id = wire'[t][r][i].id - 1
    BY DEF InOrder
  <2>1. CASE Carries(s, p) /\ t = s /\ r = q
    <3>1. wire'[t][r] = V
      BY <1>3, <2>1
    <3>2. CASE i \in 1 .. Len(W)
      <4>1. wire'[t][r][i] = W[i] /\ \A j \in 1 .. i - 1 : wire'[t][r][j] = W[j]
        BY <1>2, <1>4, <3>1, <3>2
      <4>2. PICK j \in 1 .. i - 1 : IsRegular(W[j]) /\ W[j].id = W[i].id - 1
        <5>1. i \in 1 .. Len(wire[t][r]) /\ wire[t][r] = W
          BY <1>w, <2>1, <3>2
        <5>2. IsRegular(wire[t][r][i]) /\ ~(wire[t][r][i].id <= top[r] + 1)
          BY <4>1, <5>1
        <5>3. \E j \in 1 .. i - 1 : /\ IsRegular(wire[t][r][j])
                                    /\ wire[t][r][j].id = wire[t][r][i].id - 1
          BY <1>1, <5>1, <5>2 DEF InOrder
        <5> QED
          BY <5>1, <5>3
      <4> QED
        BY <4>1, <4>2
    <3>3. CASE ~(i \in 1 .. Len(W))
      <4>1. i \in Len(W) + 1 .. Len(W) + Len(F) /\ i - Len(W) \in 1 .. Len(F)
            /\ V[i] = F[i - Len(W)]
        BY <1>2, <1>4, <3>1, <3>3
      <4>2. TheNext(p, F) /\ i - Len(W) = 1
        BY <3>1, <4>1 DEF TheNext, Nothing
      <4>3. wire'[t][r][i].id = outId[p] + 1 /\ i = Len(W) + 1
        BY <1>2, <3>1, <4>1, <4>2 DEF TheNext
      <4>4. ~(outId[p] <= top[q]) /\ top[q] \in Nat
        BY <1>1, <1>2, <2>1, <4>3 DEF TypeOK
      <4>5. outId[p] - n < outId[p]
        <5>1. outId[p] - n <= top[q]
          BY <1>1, <1>w DEF NothingLost
        <5> QED
          BY <1>2, <4>4, <5>1
      <4>6. PICK j \in 1 .. Len(W) : IsRegular(W[j]) /\ W[j].id = outId[p]
        <5>1. /\ Carries(socket[p], p) /\ outId[p] - Len(unack[p]) < outId[p]
              /\ outId[p] <= outId[p] /\ ~(outId[p] <= top[Other(p)])
          BY <1>2, <1>w, <2>1, <4>4, <4>5
        <5>2. \E j \in 1 .. Len(wire[socket[p]][Other(p)]) :
                 /\ IsRegular(wire[socket[p]][Other(p)][j])
                 /\ wire[socket[p]][Other(p)][j].id = outId[p]
          BY <1>1, <1>2, <5>1 DEF OnItsWay
        <5> QED
          BY <1>w, <5>2
      <4>7. j \in 1 .. i - 1 /\ wire'[t][r][j] = W[j]
        BY <1>2, <1>4, <3>1, <4>3, <4>6
      <4> QED
        <5>1. wire'[t][r][i].id - 1 = outId[p]
          BY <1>2, <4>3
        <5> QED
          BY <4>6, <4>7, <5>1
    <3> QED
      BY <3>2, <3>3
  <2>2. CASE ~(Carries(s, p) /\ t = s /\ r = q)
    <3>1. wire'[t][r] = wire[t][r]
      BY <1>3, <2>2
    <3>2. top'[r] = top[r]
      OBVIOUS
    <3> QED
      BY <1>1, <3>1 DEF InOrder
  <2> QED
    BY <2>1, <2>2
<1> QED
  BY <1>3, <1>5, <1>6, <1>7, <1>8, <1>9, <1>g

(* A new socket is used from the number after the last one received, or before:*)
(* nothing was on its way in it.                                                 *)
LEMMA ReplaceKeeps ==
    ASSUME IInv, NEW p \in Ends, NEW s \in Sockets, s > socket[p], Replace(p, s), UNCHANGED up
    PROVE  /\ wire' \in [Sockets -> [Ends -> Seq(Frames)]]
           /\ socket' \in [Ends -> Sockets]
           /\ Rows' /\ AcksSound' /\ NothingLost' /\ OnItsWay' /\ Unused' /\ InOrder'
<1> DEFINE q == Other(p)
           s0 == socket[p]
           U == unack[p]
<1>1. TypeOK /\ Rows /\ AcksSound /\ NothingLost /\ OnItsWay /\ Unused /\ InOrder
  BY DEF IInv
<1>2. /\ s0 \in Sockets /\ q \in Ends /\ q # p /\ Other(q) = p /\ U \in Seq(Frames)
      /\ s \in Nat /\ s0 \in Nat /\ s > s0 /\ socket[q] \in Nat /\ socket[q] \in Sockets
      /\ \A r \in Ends : r = p \/ r = q
  <2>1. Other(p) \in Ends /\ Other(p) # p /\ Other(Other(p)) = p
    BY EndsFacts
  <2>2. /\ socket[p] \in Sockets /\ socket[p] \in Nat /\ unack[p] \in Seq(Frames)
        /\ socket[Other(p)] \in Sockets /\ socket[Other(p)] \in Nat
    BY <1>1, <2>1, TypeFacts
  <2>3. s \in Nat
    BY DEF Sockets
  <2> QED
    BY <2>1, <2>2, <2>3, TheEnds
<1>3. UNCHANGED <<outId, unack, inAck, top, up>>
      /\ socket'[p] = s /\ socket'[q] = socket[q] /\ socket' \in [Ends -> Sockets]
  BY <1>1, <1>2 DEF Replace, TypeOK
<1>4. /\ wire' \in [Sockets -> [Ends -> Seq(Frames)]]
      /\ \A t \in Sockets, r \in Ends :
            wire'[t][r] = IF t = s0 /\ r = p THEN <<>>
                          ELSE IF Carries(s, p) /\ t = s /\ r = q THEN U ELSE wire[t][r]
  <2>1. wire[s][q] = <<>>
    BY <1>1, <1>2 DEF Unused
  <2>2. <<>> \o U = U
    BY <1>2
  <2> DEFINE M == Written(s, p, U)
  <2>3. /\ M \in [Sockets -> [Ends -> Seq(Frames)]]
        /\ \A t \in Sockets, r \in Ends :
              M[t][r] = IF Carries(s, p) /\ t = s /\ r = Other(p)
                        THEN wire[s][Other(p)] \o U ELSE wire[t][r]
    <3>1. TypeOK /\ U \in Seq(Frames)
      BY <1>1, <1>2
    <3> HIDE DEF U
    <3> QED
      BY <3>1, WrittenFacts
  <2>4. wire' = [M EXCEPT ![s0][p] = <<>>]
    BY DEF Replace, ReplayAll
  <2> HIDE DEF M
  <2>5. wire' \in [Sockets -> [Ends -> Seq(Frames)]]
    <3>1. [M[s0] EXCEPT ![p] = <<>>] \in [Ends -> Seq(Frames)]
      BY <1>2, <2>3
    <3> QED
      BY <2>3, <2>4, <3>1
  <2>6. \A t \in Sockets, r \in Ends :
            wire'[t][r] = IF t = s0 /\ r = p THEN <<>> ELSE M[t][r]
    BY <1>2, <2>3, <2>4
  <2> QED
    BY <2>1, <2>2, <2>3, <2>5, <2>6
<1>w. q = Other(p) /\ U = unack[p] /\ s0 = socket[p]
  OBVIOUS
<1> HIDE DEF q, U, s0
<1>5. Rows' /\ NothingLost'
  BY <1>1, <1>3 DEF Rows, NothingLost
<1>6. AcksSound'
  <2>1. ASSUME NEW r \in Ends, NEW t \in Sockets, NEW i \in 1 .. Len(wire'[t][r])
        PROVE  /\ wire'[t][r][i].ack <= top[Other(r)]
               /\ wire'[t][r][i].id <= outId[Other(r)]
    <3>1. CASE wire'[t][r] = <<>>
      BY <2>1, <3>1
    <3>2. CASE wire'[t][r] = wire[t][r]
      BY <1>1, <2>1, <3>2 DEF AcksSound
    <3>3. CASE r = q /\ wire'[t][r] = U
      <4>1. U[i].ack <= top[p] /\ U[i].id = outId[p] - Len(U) + i
        BY <1>1, <1>w, <2>1, <3>3 DEF AcksSound, Rows
      <4>2. outId[p] \in Nat /\ Len(U) \in Nat /\ i <= Len(U) /\ i \in Nat
        BY <1>1, <1>2, <2>1, <3>3 DEF TypeOK
      <4> QED
        BY <1>2, <3>3, <4>1, <4>2
    <3> QED
      BY <1>4, <3>1, <3>2, <3>3
  <2> QED
    BY <1>1, <1>3, <2>1 DEF AcksSound
<1>7. OnItsWay'
  <2> SUFFICES ASSUME NEW r \in Ends, Carries(socket[r], r)', NEW id \in Nat,
                      outId[r] - Len(unack[r]) < id, id <= outId[r],
                      ~(id <= top[Other(r)])
               PROVE  \E j \in 1 .. Len(wire'[socket'[r]][Other(r)]) :
                         /\ IsRegular(wire'[socket'[r]][Other(r)][j])
                         /\ wire'[socket'[r]][Other(r)][j].id = id
    BY <1>3 DEF OnItsWay
  <2>1. CASE r = p
    <3>1. Carries(s, p)
      BY <1>2, <1>3, <1>w, <2>1 DEF Carries
    <3>2. wire'[socket'[r]][Other(r)] = U
      BY <1>2, <1>3, <1>4, <1>w, <2>1, <3>1
    <3>a. \A o, n \in Nat : o - n < id /\ id <= o =>
             id - (o - n) \in 1 .. n /\ o - n + (id - (o - n)) = id
      OBVIOUS
    <3>b. outId[p] \in Nat /\ Len(U) \in Nat
      BY <1>1, <1>2 DEF TypeOK
    <3>3. id - (outId[p] - Len(U)) \in 1 .. Len(U)
      BY <1>w, <2>1, <3>a, <3>b
    <3>4. /\ U[id - (outId[p] - Len(U))].id = outId[p] - Len(U) + (id - (outId[p] - Len(U)))
          /\ IsRegular(U[id - (outId[p] - Len(U))])
      BY <1>1, <1>w, <3>3 DEF Rows
    <3>5. outId[p] - Len(U) + (id - (outId[p] - Len(U))) = id
      BY <1>w, <2>1, <3>a, <3>b
    <3> QED
      BY <3>2, <3>3, <3>4, <3>5
  <2>2. CASE r = q
    <3>1. s <= socket[q] /\ Carries(socket[q], q)
      BY <1>2, <1>3, <1>w, <2>2 DEF Carries
    <3>2. wire'[socket'[r]][Other(r)] = wire[socket[q]][p]
      BY <1>2, <1>3, <1>4, <2>2, <3>1
    <3>3. \E j \in 1 .. Len(wire[socket[q]][Other(q)]) :
             /\ IsRegular(wire[socket[q]][Other(q)][j])
             /\ wire[socket[q]][Other(q)][j].id = id
      BY <1>1, <2>2, <3>1 DEF OnItsWay
    <3> QED
      BY <1>2, <3>2, <3>3
  <2> QED
    BY <1>2, <2>1, <2>2
<1>8. Unused'
  <2> SUFFICES ASSUME NEW r \in Ends, NEW t \in Sockets, t > socket'[r]
               PROVE  wire'[t][Other(r)] = <<>>
    BY DEF Unused
  <2>1. t \in Nat
    BY DEF Sockets
  <2>2. CASE r = p
    <3>1. t > s0 /\ t # s
      BY <1>2, <1>3, <2>1, <2>2
    <3>2. wire[t][q] = <<>>
      BY <1>1, <1>w, <3>1 DEF Unused
    <3>3. wire'[t][q] = wire[t][q]
      BY <1>2, <1>4, <3>1
    <3> QED
      BY <1>w, <2>2, <3>2, <3>3
  <2>3. CASE r = q
    BY <1>1, <1>2, <1>3, <1>4, <1>w, <2>1, <2>3 DEF Unused
  <2> QED
    BY <1>2, <2>2, <2>3
<1>9. InOrder'
  <2> SUFFICES ASSUME NEW r \in Ends, NEW t \in Sockets, NEW i \in 1 .. Len(wire'[t][r]),
                      IsRegular(wire'[t][r][i]), ~(wire'[t][r][i].id <= top[r] + 1)
               PROVE  \E j \in 1 .. i - 1 : /\ IsRegular(wire'[t][r][j])
                                           /\ wire'[t][r][j].id = wire'[t][r][i].id - 1
    BY <1>3 DEF InOrder
  <2>1. CASE wire'[t][r] = <<>>
    BY <2>1
  <2>2. CASE wire'[t][r] = wire[t][r]
    BY <1>1, <2>2 DEF InOrder
  <2>3. CASE r = q /\ wire'[t][r] = U
    <3>1. /\ U[i].id = outId[p] - Len(U) + i /\ i \in 1 .. Len(U)
          /\ \A j \in 1 .. Len(U) : U[j].id = outId[p] - Len(U) + j /\ IsRegular(U[j])
      BY <1>1, <1>w, <2>3 DEF Rows
    <3>2. outId[p] - Len(U) <= top[q] /\ outId[p] \in Nat /\ top[q] \in Nat /\ Len(U) \in Nat
      BY <1>1, <1>2, <1>w DEF NothingLost, TypeOK
    <3>3. i # 1
      BY <2>3, <3>1, <3>2
    <3>4. i - 1 \in 1 .. Len(U) /\ i - 1 \in 1 .. i - 1
      BY <3>1, <3>2, <3>3
    <3>5. U[i - 1].id = U[i].id - 1 /\ IsRegular(U[i - 1])
      <4>1. \A o, n, k \in Nat : o - n + (k - 1) = (o - n + k) - 1
        OBVIOUS
      <4>2. U[i - 1].id = outId[p] - Len(U) + (i - 1) /\ IsRegular(U[i - 1])
        BY <3>1, <3>4
      <4>3. i \in Nat
        BY <3>1
      <4> QED
        BY <3>1, <3>2, <4>1, <4>2, <4>3
    <3> QED
      BY <2>3, <3>4, <3>5
  <2> QED
    BY <1>4, <2>1, <2>2, <2>3
<1> QED
  BY <1>3, <1>4, <1>5, <1>6, <1>7, <1>8, <1>9

(* The beginning of what was on its way is in order too. *)
LEMMA BreakKeeps ==
    ASSUME IInv, NEW s \in Sockets, Break(s)
    PROVE  /\ wire' \in [Sockets -> [Ends -> Seq(Frames)]] /\ up' \subseteq Sockets
           /\ Rows' /\ AcksSound' /\ NothingLost' /\ OnItsWay' /\ Unused' /\ InOrder'
<1>1. TypeOK /\ Rows /\ AcksSound /\ NothingLost /\ OnItsWay /\ Unused /\ InOrder
  BY DEF IInv
<1>2. UNCHANGED <<socket, outId, unack, inAck, top>> /\ up' = up \ {s} /\ up' \subseteq Sockets
  BY <1>1 DEF Break, TypeOK
<1>3. PICK kept \in [Ends -> Nat] :
            /\ \A p \in Ends : kept[p] <= Len(wire[s][p])
            /\ wire' = [wire EXCEPT ![s] = [p \in Ends |-> SubSeq(wire[s][p], 1, kept[p])]]
  <2>1. PICK kept \in [Ends -> 0 .. MaxSent["client"] + MaxSent["server"]] :
            /\ \A p \in Ends : kept[p] <= Len(wire[s][p])
            /\ wire' = [wire EXCEPT ![s] = [p \in Ends |-> SubSeq(wire[s][p], 1, kept[p])]]
    BY DEF Break
  <2>2. kept \in [Ends -> Nat]
    OBVIOUS
  <2> QED
    BY <2>1, <2>2
<1>4. ASSUME NEW p \in Ends
      PROVE  /\ wire[s][p] \in Seq(Frames) /\ SubSeq(wire[s][p], 1, kept[p]) \in Seq(Frames)
             /\ Len(SubSeq(wire[s][p], 1, kept[p])) = kept[p]
             /\ kept[p] \in Nat /\ kept[p] <= Len(wire[s][p])
             /\ \A i \in 1 .. kept[p] : SubSeq(wire[s][p], 1, kept[p])[i] = wire[s][p][i]
  <2>1. wire[s][p] \in Seq(Frames) /\ kept[p] \in Nat /\ kept[p] <= Len(wire[s][p])
    BY <1>1, <1>3 DEF TypeOK
  <2> QED
    BY <2>1
<1>5. /\ wire' \in [Sockets -> [Ends -> Seq(Frames)]]
      /\ \A t \in Sockets, p \in Ends :
            wire'[t][p] = IF t = s THEN SubSeq(wire[s][p], 1, kept[p]) ELSE wire[t][p]
  <2>1. wire \in [Sockets -> [Ends -> Seq(Frames)]]
    BY <1>1 DEF TypeOK
  <2>2. [p \in Ends |-> SubSeq(wire[s][p], 1, kept[p])] \in [Ends -> Seq(Frames)]
    BY <1>4
  <2> QED
    BY <1>3, <2>1, <2>2
<1>6. ASSUME NEW t \in Sockets, NEW p \in Ends
      PROVE  /\ Len(wire'[t][p]) <= Len(wire[t][p])
             /\ Len(wire'[t][p]) \in Nat /\ Len(wire[t][p]) \in Nat
             /\ \A i \in 1 .. Len(wire'[t][p]) : wire'[t][p][i] = wire[t][p][i]
  <2>1. wire[t][p] \in Seq(Frames)
    BY <1>1 DEF TypeOK
  <2> QED
    <3>1. CASE t = s
      <4>1. wire'[t][p] = SubSeq(wire[t][p], 1, kept[p])
        BY <1>5, <3>1
      <4>2. /\ Len(SubSeq(wire[t][p], 1, kept[p])) = kept[p]
            /\ kept[p] \in Nat /\ kept[p] <= Len(wire[t][p])
            /\ \A i \in 1 .. kept[p] : SubSeq(wire[t][p], 1, kept[p])[i] = wire[t][p][i]
        BY <1>4, <3>1
      <4> HIDE <3>1
      <4> QED
        BY <2>1, <4>1, <4>2
    <3>2. CASE t # s
      BY <1>5, <2>1, <3>2
    <3> QED
      BY <3>1, <3>2
<1>7. ASSUME NEW t \in Sockets, NEW p \in Ends, NEW i \in 1 .. Len(wire'[t][p])
      PROVE  i \in 1 .. Len(wire[t][p])
  BY <1>6
<1>8. Rows' /\ NothingLost' /\ AcksSound'
  BY <1>1, <1>2, <1>6, <1>7 DEF Rows, NothingLost, AcksSound
<1>9. OnItsWay'
  <2> SUFFICES ASSUME NEW r \in Ends, Carries(socket[r], r)', NEW id \in Nat,
                      outId[r] - Len(unack[r]) < id, id <= outId[r],
                      ~(id <= top[Other(r)])
               PROVE  \E j \in 1 .. Len(wire'[socket[r]][Other(r)]) :
                         /\ IsRegular(wire'[socket[r]][Other(r)][j])
                         /\ wire'[socket[r]][Other(r)][j].id = id
    BY <1>2 DEF OnItsWay
  <2>1. socket[r] # s /\ Carries(socket[r], r)
    BY <1>2 DEF Carries
  <2>2. wire'[socket[r]][Other(r)] = wire[socket[r]][Other(r)]
    BY <1>1, <1>5, <2>1, EndsFacts DEF TypeOK
  <2> QED
    BY <1>1, <2>1, <2>2 DEF OnItsWay
<1>10. Unused'
  <2> SUFFICES ASSUME NEW r \in Ends, NEW t \in Sockets, t > socket[r]
               PROVE  wire'[t][Other(r)] = <<>>
    BY <1>2 DEF Unused
  <2>1. wire[t][Other(r)] = <<>>
    BY <1>1 DEF Unused
  <2>2. wire'[t][Other(r)] \in Seq(Frames) /\ Len(wire'[t][Other(r)]) = 0
    BY <1>5, <1>6, <2>1, EndsFacts
  <2> QED
    BY <2>2
<1>11. InOrder'
  <2> SUFFICES ASSUME NEW r \in Ends, NEW t \in Sockets, NEW i \in 1 .. Len(wire'[t][r]),
                      IsRegular(wire'[t][r][i]), ~(wire'[t][r][i].id <= top[r] + 1)
               PROVE  \E j \in 1 .. i - 1 : /\ IsRegular(wire'[t][r][j])
                                           /\ wire'[t][r][j].id = wire'[t][r][i].id - 1
    BY <1>2 DEF InOrder
  <2>1. i \in 1 .. Len(wire[t][r]) /\ wire'[t][r][i] = wire[t][r][i]
    BY <1>6, <1>7
  <2>2. PICK j \in 1 .. i - 1 : IsRegular(wire[t][r][j]) /\ wire[t][r][j].id = wire[t][r][i].id - 1
    BY <1>1, <2>1 DEF InOrder
  <2>3. j \in 1 .. Len(wire'[t][r])
    BY <1>6
  <2>4. wire'[t][r][j] = wire[t][r][j]
    BY <1>6, <2>3
  <2> QED
    BY <2>1, <2>2, <2>4
<1> QED
  BY <1>2, <1>5, <1>8, <1>9, <1>10, <1>11

(* What leaves the queue was received, and what is received is the next frame *)
(* or an earlier one.                                                           *)
LEMMA ReceiveKeeps ==
    ASSUME IInv, NEW p \in Ends, Receive(p)
    PROVE  /\ wire' \in [Sockets -> [Ends -> Seq(Frames)]]
           /\ unack' \in [Ends -> Seq(Frames)]
           /\ inAck' \in [Ends -> Nat] /\ top' \in [Ends -> Nat]
           /\ top'[p] \in {top[p], top[p] + 1} /\ top'[Other(p)] = top[Other(p)]
           /\ Rows' /\ AcksSound' /\ NothingLost' /\ OnItsWay' /\ Unused' /\ InOrder'
<1> DEFINE q == Other(p)
           s == socket[p]
           W == wire[s][p]
           f == W[1]
           u == unack[p]
           n == Len(u)
<1>1. TypeOK /\ Rows /\ AcksSound /\ NothingLost /\ OnItsWay /\ Unused /\ InOrder
  BY DEF IInv
<1>2. /\ s \in Sockets /\ s \in Nat /\ q \in Ends /\ q # p /\ Other(q) = p
      /\ W \in Seq(Frames) /\ u \in Seq(Frames) /\ n \in Nat
      /\ outId[p] \in Nat /\ top[p] \in Nat /\ inAck[p] \in Nat /\ top[q] \in Nat
      /\ outId[q] \in Nat /\ n <= outId[p]
      /\ \A r \in Ends : r = p \/ r = q
  <2>1. Other(p) \in Ends /\ Other(p) # p /\ Other(Other(p)) = p
    BY EndsFacts
  <2>2. Len(unack[p]) <= outId[p]
    BY <1>1 DEF Rows
  <2>3. /\ socket[p] \in Sockets /\ socket[p] \in Nat
        /\ outId[p] \in Nat /\ inAck[p] \in Nat /\ top[p] \in Nat
        /\ unack[p] \in Seq(Frames) /\ Len(unack[p]) \in Nat
        /\ wire[socket[p]][p] \in Seq(Frames)
        /\ outId[Other(p)] \in Nat /\ top[Other(p)] \in Nat
    BY <1>1, <2>1, TypeFacts
  <2> QED
    BY <2>1, <2>2, <2>3, TheEnds
<1>3. W # <<>> /\ UNCHANGED <<socket, up, outId>>
  BY DEF Receive, links
<1>4. /\ Len(W) \in Nat /\ Len(W) > 0 /\ f \in Frames /\ Head(W) = f
      /\ Tail(W) \in Seq(Frames) /\ Len(Tail(W)) = Len(W) - 1
      /\ \A i \in 1 .. Len(W) - 1 : Tail(W)[i] = W[i + 1]
  BY <1>2, <1>3
<1>5. f.id \in Nat /\ f.ack \in Nat /\ f.ack <= top[q] /\ f.id <= outId[q]
  <2>1. f.id \in Nat /\ f.ack \in Nat
    BY <1>4 DEF Frames
  <2>2. 1 \in 1 .. Len(W)
    BY <1>4
  <2> QED
    BY <1>1, <1>2, <2>1, <2>2 DEF AcksSound
<1>6. IsRegular(f) => f.id <= top[p] + 1
  <2>1. 1 \in 1 .. Len(W) /\ ~(\E j \in 1 .. 1 - 1 : IsRegular(W[j]))
    BY <1>4
  <2> QED
    BY <1>1, <1>2, <2>1 DEF InOrder
<1>7. /\ top' = [top EXCEPT ![p] = IF IsRegular(f) /\ f.id > @ THEN f.id ELSE @]
      /\ inAck' = [inAck EXCEPT ![p] = IF IsRegular(f) THEN f.id ELSE @]
      /\ unack' = [unack EXCEPT ![p] = AfterAck(u, f.ack)]
      /\ wire' = [wire EXCEPT ![s][p] = Tail(W)]
  BY <1>1, <1>4 DEF Receive, IsRegular, TypeOK
<1>8. /\ top' \in [Ends -> Nat] /\ inAck' \in [Ends -> Nat]
      /\ top'[q] = top[q] /\ inAck'[q] = inAck[q]
      /\ top'[p] = IF IsRegular(f) /\ f.id > top[p] THEN f.id ELSE top[p]
      /\ inAck'[p] = IF IsRegular(f) THEN f.id ELSE inAck[p]
  BY <1>1, <1>2, <1>5, <1>7 DEF TypeOK
<1>9. /\ top'[p] \in {top[p], top[p] + 1} /\ top'[p] \in Nat /\ top[p] <= top'[p]
      /\ (IsRegular(f) => f.id <= top'[p])
      /\ \A r \in Ends : top[r] \in Nat /\ top'[r] \in Nat /\ top[r] <= top'[r]
  <2>1. top'[p] \in {top[p], top[p] + 1} /\ (IsRegular(f) => f.id <= top'[p])
    <3> HIDE DEF f, q, W, s, u, n
    <3>1. CASE IsRegular(f) /\ f.id > top[p]
      <4>1. top'[p] = f.id /\ f.id <= top[p] + 1
        BY <1>6, <1>8, <3>1
      <4> QED
        BY <1>2, <1>5, <3>1, <4>1
    <3>2. CASE ~(IsRegular(f) /\ f.id > top[p])
      <4>1. top'[p] = top[p]
        BY <1>8, <3>2
      <4> QED
        BY <1>2, <1>5, <3>2, <4>1
    <3> QED
      BY <3>1, <3>2
  <2>2. top'[p] \in Nat /\ top[p] <= top'[p]
    BY <1>2, <2>1
  <2> QED
    <3>1. ASSUME NEW r \in Ends
          PROVE  top[r] \in Nat /\ top'[r] \in Nat /\ top[r] <= top'[r]
      <4>1. CASE r = p
        BY <1>2, <2>2, <4>1
      <4>2. CASE r = q
        BY <1>2, <1>8, <4>2
      <4> QED
        BY <1>2, <4>1, <4>2
    <3> QED
      BY <2>1, <2>2, <3>1
<1>10. PICK m \in 0 .. n : /\ AfterAck(u, f.ack) = SubSeq(u, m + 1, n)
                           /\ m = 0 \/ outId[p] - n + m <= f.ack
  <2>1. \A i \in 1 .. n : u[i].id = outId[p] - n + i
    BY <1>1 DEF Rows
  <2> HIDE DEF u
  <2> QED
    BY <1>2, <1>5, <2>1, AfterAckFacts
<1>11. /\ unack' \in [Ends -> Seq(Frames)]
       /\ unack'[q] = unack[q] /\ Len(unack'[p]) = n - m
       /\ m \in Nat /\ n - m \in Nat
       /\ \A i \in 1 .. n - m : i + m \in 1 .. n /\ unack'[p][i] = u[i + m]
  <2>1. m \in Nat /\ n - m \in Nat
    BY <1>2
  <2>2. /\ SubSeq(u, m + 1, n) \in Seq(Frames) /\ Len(SubSeq(u, m + 1, n)) = n - m
        /\ \A i \in 1 .. n - m : SubSeq(u, m + 1, n)[i] = u[i + m] /\ i + m \in 1 .. n
    <3>1. n - m \in Nat /\ m + 1 \in Nat /\ \A i \in 1 .. n - m : i + m \in 1 .. n
      BY <1>2, <2>1
    <3>2. \A i \in m + 1 .. n : u[i] \in Frames
      BY <1>2, <2>1
    <3> HIDE DEF u, n
    <3>3. IF m + 1 <= n + 1 THEN n - (m + 1) + 1 = n - m ELSE FALSE
      BY <1>2, <2>1
    <3>4. /\ SubSeq(u, m + 1, n) = [i \in 1 .. n - m |-> u[i + m]]
      BY <1>2, <2>1, <3>1, <3>3
    <3> QED
      BY <3>1, <3>2, <3>4, <2>1, <1>2
  <2>3. unack \in [Ends -> Seq(Frames)]
    BY <1>1 DEF TypeOK
  <2> QED
    BY <1>2, <1>7, <1>10, <2>1, <2>2, <2>3
<1>12. /\ wire' \in [Sockets -> [Ends -> Seq(Frames)]]
       /\ \A t \in Sockets, r \in Ends :
             wire'[t][r] = IF t = s /\ r = p THEN Tail(W) ELSE wire[t][r]
  <2>1. wire \in [Sockets -> [Ends -> Seq(Frames)]]
    BY <1>1 DEF TypeOK
  <2>2. [wire[s] EXCEPT ![p] = Tail(W)] \in [Ends -> Seq(Frames)]
    BY <1>2, <1>4, <2>1
  <2> QED
    BY <1>2, <1>4, <1>7, <2>1, <2>2
<1>w. /\ q = Other(p) /\ s = socket[p] /\ W = wire[s][p] /\ f = W[1] /\ u = unack[p]
      /\ n = Len(unack[p])
  OBVIOUS
<1> HIDE DEF q, s, W, f, u, n
<1>13. Rows'
  <2>1. \A o, k, i, j \in Nat : o - k + (i + j) = o - (k - j) + i
    OBVIOUS
  <2>2. ASSUME NEW i \in 1 .. n - m
        PROVE  unack'[p][i].id = outId[p] - (n - m) + i /\ IsRegular(unack'[p][i])
    <3>1. u[i + m].id = outId[p] - n + (i + m) /\ IsRegular(u[i + m])
      BY <1>1, <1>11, <1>w DEF Rows
    <3>2. i \in Nat
      BY <1>11
    <3> QED
      <4>1. outId[p] - n + (i + m) = outId[p] - (n - m) + i
        BY <1>2, <1>11, <2>1, <3>2
      <4> QED
        BY <1>11, <3>1, <4>1
  <2>3. n - m <= outId[p]
    BY <1>2, <1>11
  <2>4. /\ Len(unack[q]) <= outId[q]
        /\ \A i \in 1 .. Len(unack[q]) : /\ unack[q][i].id = outId[q] - Len(unack[q]) + i
                                         /\ IsRegular(unack[q][i])
    BY <1>1, <1>2 DEF Rows
  <2>5. ASSUME NEW r \in Ends
        PROVE  /\ Len(unack'[r]) <= outId[r]
               /\ \A i \in 1 .. Len(unack'[r]) :
                     /\ unack'[r][i].id = outId[r] - Len(unack'[r]) + i
                     /\ IsRegular(unack'[r][i])
    <3>1. CASE r = p
      BY <1>11, <2>2, <2>3, <3>1
    <3>2. CASE r = q
      BY <1>11, <2>4, <3>2
    <3> QED
      BY <1>2, <3>1, <3>2
  <2> QED
    BY <1>3, <2>5 DEF Rows
<1>14. NothingLost'
  <2>1. outId[p] - (n - m) <= top[q]
    <3>1. outId[p] - n <= top[q]
      BY <1>1, <1>2, <1>w DEF NothingLost
    <3>2. m # 0 => outId[p] - n + m <= top[q]
      BY <1>2, <1>5, <1>10
    <3> QED
      BY <1>2, <1>11, <3>1, <3>2
  <2>2. outId[q] - Len(unack[q]) <= top'[p]
    <3>1. outId[q] - Len(unack[q]) <= top[p] /\ Len(unack[q]) \in Nat
      <4>1. outId[q] - Len(unack[q]) <= top[Other(q)]
        BY <1>1, <1>2 DEF NothingLost
      <4>2. Len(unack[q]) \in Nat
        BY <1>1, <1>2, TypeFacts
      <4> QED
        BY <1>2, <4>1, <4>2
    <3> QED
      BY <1>2, <1>9, <3>1
  <2>3. ASSUME NEW r \in Ends
        PROVE  outId[r] - Len(unack'[r]) <= top'[Other(r)]
    <3>1. CASE r = p
      BY <1>8, <1>11, <1>w, <2>1, <3>1
    <3>2. CASE r = q
      BY <1>2, <1>11, <2>2, <3>2
    <3> QED
      BY <1>2, <3>1, <3>2
  <2> QED
    BY <1>3, <2>3 DEF NothingLost
<1>15. ASSUME NEW t \in Sockets, NEW r \in Ends, NEW i \in 1 .. Len(wire'[t][r])
       PROVE  \/ i \in 1 .. Len(wire[t][r]) /\ wire'[t][r] = wire[t][r]
              \/ /\ t = s /\ r = p /\ i + 1 \in 1 .. Len(W) /\ i \in Nat
                 /\ wire'[t][r] = Tail(W) /\ wire'[t][r][i] = W[i + 1]
  <2>1. CASE t = s /\ r = p
    <3>1. wire'[t][r] = Tail(W)
      BY <1>12, <2>1
    <3>2. i \in 1 .. Len(W) - 1
      BY <1>4, <1>15, <3>1
    <3> QED
      BY <1>4, <2>1, <3>1, <3>2
  <2>2. CASE ~(t = s /\ r = p)
    BY <1>12, <1>15, <2>2
  <2> QED
    BY <2>1, <2>2
<1>16. AcksSound'
  <2>1. ASSUME NEW r \in Ends PROVE inAck'[r] <= top'[r]
    BY <1>1, <1>2, <1>8, <1>9 DEF AcksSound
  <2>2. ASSUME NEW r \in Ends, NEW i \in 1 .. Len(unack'[r])
        PROVE  unack'[r][i].ack <= top'[r]
    <3>1. PICK k \in 1 .. Len(unack[r]) : unack'[r][i] = unack[r][k]
      <4>1. CASE r = p
        BY <1>11, <1>w, <2>2, <4>1
      <4>2. CASE r = q
        BY <1>11, <2>2, <4>2
      <4> QED
        BY <1>2, <4>1, <4>2
    <3>2. unack[r][k] \in Frames
      BY <1>1, <3>1 DEF TypeOK
    <3>3. unack[r][k].ack \in Nat /\ unack[r][k].ack <= top[r]
      BY <1>1, <3>2 DEF AcksSound, Frames
    <3> QED
      BY <1>9, <3>1, <3>3
  <2>3. ASSUME NEW r \in Ends, NEW t \in Sockets, NEW i \in 1 .. Len(wire'[t][r])
        PROVE  /\ wire'[t][r][i].ack <= top'[Other(r)]
               /\ wire'[t][r][i].id <= outId[Other(r)]
    <3>1. PICK k \in 1 .. Len(wire[t][r]) : wire'[t][r][i] = wire[t][r][k]
      <4>1. CASE i \in 1 .. Len(wire[t][r]) /\ wire'[t][r] = wire[t][r]
        BY <4>1
      <4>2. CASE /\ t = s /\ r = p /\ i + 1 \in 1 .. Len(W) /\ i \in Nat
                 /\ wire'[t][r] = Tail(W) /\ wire'[t][r][i] = W[i + 1]
        <5>1. W = wire[t][r]
          BY <1>w, <4>2
        <5> QED
          BY <4>2, <5>1
      <4> QED
        BY <1>15, <2>3, <4>1, <4>2
    <3>2. wire[t][r][k] \in Frames
      <4>1. wire[t][r] \in Seq(Frames)
        BY <1>1 DEF TypeOK
      <4> QED
        BY <3>1, <4>1
    <3>3. /\ wire[t][r][k].ack \in Nat /\ wire[t][r][k].ack <= top[Other(r)]
          /\ wire[t][r][k].id <= outId[Other(r)]
      BY <1>1, <3>2 DEF AcksSound, Frames
    <3> QED
      BY <1>9, <3>1, <3>3, EndsFacts
  <2> QED
    BY <1>3, <2>1, <2>2, <2>3 DEF AcksSound
<1>17. OnItsWay'
  <2> SUFFICES ASSUME NEW r \in Ends, Carries(socket[r], r), NEW id \in Nat,
                      outId[r] - Len(unack'[r]) < id, id <= outId[r],
                      ~(id <= top'[Other(r)])
               PROVE  \E j \in 1 .. Len(wire'[socket[r]][Other(r)]) :
                         /\ IsRegular(wire'[socket[r]][Other(r)][j])
                         /\ wire'[socket[r]][Other(r)][j].id = id
    BY <1>3 DEF OnItsWay, Carries
  <2>1. outId[r] - Len(unack[r]) < id
    <3>1. CASE r = p
      BY <1>2, <1>11, <1>w, <3>1
    <3>2. CASE r = q
      BY <1>11, <3>2
    <3> QED
      BY <1>2, <3>1, <3>2
  <2>2. ~(id <= top[Other(r)])
    BY <1>9, EndsFacts
  <2>3. PICK j \in 1 .. Len(wire[socket[r]][Other(r)]) :
               /\ IsRegular(wire[socket[r]][Other(r)][j])
               /\ wire[socket[r]][Other(r)][j].id = id
    BY <1>1, <2>1, <2>2 DEF OnItsWay
  <2>4. socket[r] \in Sockets /\ Other(r) \in Ends
    BY <1>1, EndsFacts DEF TypeOK
  <2>5. CASE Other(r) = p /\ socket[r] = s
    <3>1. j # 1
      BY <1>9, <1>w, <2>3, <2>5
    <3>2. j - 1 \in 1 .. Len(W) - 1 /\ (j - 1) + 1 = j
      BY <1>4, <1>w, <2>3, <2>5, <3>1
    <3>3. Tail(W)[j - 1] = W[j]
      BY <1>4, <3>2
    <3>4. wire'[socket[r]][Other(r)] = Tail(W)
      BY <1>12, <2>4, <2>5
    <3> QED
      BY <1>4, <1>w, <2>3, <2>5, <3>2, <3>3, <3>4
  <2>6. CASE ~(Other(r) = p /\ socket[r] = s)
    BY <1>12, <2>3, <2>4, <2>6
  <2> QED
    BY <2>5, <2>6
<1>18. Unused'
  <2> SUFFICES ASSUME NEW r \in Ends, NEW t \in Sockets, t > socket[r]
               PROVE  wire'[t][Other(r)] = <<>>
    BY <1>3 DEF Unused
  <2>1. wire[t][Other(r)] = <<>>
    BY <1>1 DEF Unused
  <2>2. ~(t = s /\ Other(r) = p)
    BY <1>3, <1>w, <2>1
  <2> QED
    BY <1>12, <2>1, <2>2, EndsFacts
<1>19. InOrder'
  <2> SUFFICES ASSUME NEW r \in Ends, NEW t \in Sockets, NEW i \in 1 .. Len(wire'[t][r]),
                      IsRegular(wire'[t][r][i]), ~(wire'[t][r][i].id <= top'[r] + 1)
               PROVE  \E j \in 1 .. i - 1 : /\ IsRegular(wire'[t][r][j])
                                           /\ wire'[t][r][j].id = wire'[t][r][i].id - 1
    BY DEF InOrder
  <2>1. CASE i \in 1 .. Len(wire[t][r]) /\ wire'[t][r] = wire[t][r]
    <3>1. wire[t][r][i] \in Frames
      <4>1. wire[t][r] \in Seq(Frames)
        BY <1>1 DEF TypeOK
      <4> QED
        BY <2>1, <4>1
    <3>2. wire[t][r][i].id \in Nat /\ ~(wire[t][r][i].id <= top[r] + 1)
      <4>1. wire[t][r][i].id \in Nat
        BY <3>1 DEF Frames
      <4>2. ~(wire[t][r][i].id <= top'[r] + 1)
        BY <2>1
      <4>3. top[r] \in Nat /\ top'[r] \in Nat /\ top[r] <= top'[r]
        BY <1>9
      <4> QED
        BY <4>1, <4>2, <4>3
    <3> QED
      BY <1>1, <2>1, <3>2 DEF InOrder
  <2>2. CASE /\ t = s /\ r = p /\ i + 1 \in 1 .. Len(W) /\ i \in Nat
             /\ wire'[t][r] = Tail(W) /\ wire'[t][r][i] = W[i + 1]
    <3>0. W[i + 1].id \in Nat
      <4>1. W[i + 1] \in Frames
        BY <1>2, <2>2
      <4> QED
        BY <4>1 DEF Frames
    <3>1. IsRegular(W[i + 1]) /\ ~(W[i + 1].id <= top[p] + 1) /\ ~(W[i + 1].id <= top'[p] + 1)
      BY <1>9, <2>2, <3>0
    <3>2. PICK j \in 1 .. (i + 1) - 1 : IsRegular(W[j]) /\ W[j].id = W[i + 1].id - 1
      <4>1. /\ wire[s][p][i + 1].id = W[i + 1].id /\ i + 1 \in 1 .. Len(wire[s][p])
            /\ IsRegular(wire[s][p][i + 1]) /\ ~(wire[s][p][i + 1].id <= top[p] + 1)
        BY <1>w, <2>2, <3>1
      <4> QED
        BY <1>1, <1>2, <1>w, <4>1 DEF InOrder
    <3>3. j # 1
      <4>1. CASE j = 1
        <5>1. IsRegular(f) /\ f.id = W[i + 1].id - 1
          BY <1>w, <3>2, <4>1
        <5>2. f.id <= top'[p]
          BY <1>9, <5>1
        <5> QED
          BY <1>5, <1>9, <3>0, <3>1, <5>1, <5>2
      <4> QED
        BY <4>1
    <3>4. j - 1 \in 1 .. i - 1 /\ j - 1 \in 1 .. Len(W) - 1 /\ (j - 1) + 1 = j
      BY <1>4, <2>2, <3>2, <3>3
    <3>5. Tail(W)[j - 1] = W[j]
      BY <1>4, <3>4
    <3> QED
      BY <2>2, <3>2, <3>4, <3>5
  <2> QED
    BY <1>15, <2>1, <2>2
<1> QED
  BY <1>8, <1>9, <1>11, <1>12, <1>13, <1>14, <1>16, <1>17, <1>18, <1>19, <1>w
--------------------------------------------------------------------------------
(* The bytes of the payloads kept, one by one, and how they are counted when the *)
(* queue is cut in two or grows at its end.                                        *)
Cells(u) == UNION {{i} \X (1 .. u[i].size) : i \in DOMAIN u}

LEMMA UpTo ==
    ASSUME NEW k \in Nat
    PROVE  IsFiniteSet(1 .. k) /\ Cardinality(1 .. k) = k
<1>1. 1 \in Int /\ k \in Int
  OBVIOUS
<1>2. IsFiniteSet(1 .. k) /\ Cardinality(1 .. k) = IF 1 > k THEN 0 ELSE k - 1 + 1
  BY <1>1, FS_Interval
<1> QED
  BY <1>2

LEMMA CellsAre ==
    ASSUME NEW u \in Seq(Frames)
    PROVE  /\ \A x : x \in Cells(u) <=>
                 \E i \in 1 .. Len(u) : \E b \in 1 .. u[i].size : x = <<i, b>>
           /\ \A i \in 1 .. Len(u) : u[i].size \in Nat
<1>1. DOMAIN u = 1 .. Len(u)
  OBVIOUS
<1>2. \A i \in 1 .. Len(u) : u[i] \in Frames
  OBVIOUS
<1>3. \A i \in 1 .. Len(u) : u[i].size \in Nat
  BY <1>2 DEF Frames
<1> QED
  BY <1>1, <1>3 DEF Cells

LEMMA BytesCounted ==
    ASSUME NEW u \in Seq(Frames)
    PROVE  IsFiniteSet(Cells(u)) /\ Bytes(u) = Cardinality(Cells(u)) /\ Bytes(u) \in Nat
<1>1. DOMAIN u = 1 .. Len(u) /\ Len(u) \in Nat
  OBVIOUS
<1> DEFINE row(i) == {i} \X (1 .. u[i].size)
           rows == {row(i) : i \in DOMAIN u}
           g == [i \in 1 .. Len(u) |-> row(i)]
<1>2. IsFiniteSet(1 .. Len(u))
  BY <1>1, UpTo
<1>3. IsFiniteSet(rows)
  <2>1. g \in Surjection(1 .. Len(u), rows)
    <3>1. g \in [1 .. Len(u) -> rows]
      BY <1>1
    <3>2. \A t \in rows : \E i \in 1 .. Len(u) : g[i] = t
      BY <1>1
    <3> QED
      BY <3>1, <3>2 DEF Surjection
  <2> HIDE DEF g, rows
  <2> QED
    BY <1>2, <2>1, FS_Surjection
<1>4. \A t \in rows : IsFiniteSet(t)
  <2> SUFFICES ASSUME NEW i \in 1 .. Len(u) PROVE IsFiniteSet(row(i))
    BY <1>1
  <2>1. u[i].size \in Nat
    BY CellsAre
  <2>2. IsFiniteSet({i}) /\ IsFiniteSet(1 .. u[i].size)
    BY <2>1, UpTo, FS_Singleton
  <2> QED
    BY <2>2, FS_Product
<1>5. IsFiniteSet(UNION rows)
  <2> HIDE DEF rows
  <2> QED
    BY <1>3, <1>4, FS_UNION
<1>6. Cells(u) = UNION rows /\ Bytes(u) = Cardinality(Cells(u))
  BY DEF Cells, Bytes
<1> HIDE DEF rows
<1> QED
  BY <1>5, <1>6, FS_CardinalityType

LEMMA BytesSplit ==
    ASSUME NEW u \in Seq(Frames), NEW n \in 0 .. Len(u)
    PROVE  /\ SubSeq(u, 1, n) \in Seq(Frames) /\ SubSeq(u, n + 1, Len(u)) \in Seq(Frames)
           /\ Bytes(u) = Bytes(SubSeq(u, 1, n)) + Bytes(SubSeq(u, n + 1, Len(u)))
<1> DEFINE v == SubSeq(u, 1, n)
           w == SubSeq(u, n + 1, Len(u))
           k == Len(u) - n
           last == {x \in Cells(u) : x[1] > n}
           h == [x \in Cells(w) |-> <<x[1] + n, x[2]>>]
<1>1. /\ Len(u) \in Nat /\ n \in Nat /\ n <= Len(u) /\ k \in Nat
      /\ \A i \in 1 .. n : i \in 1 .. Len(u)
      /\ \A i \in 1 .. k : i + n \in 1 .. Len(u)
  OBVIOUS
<1>2. v \in Seq(Frames) /\ Len(v) = n /\ \A i \in 1 .. n : v[i] = u[i]
  BY <1>1
<1>3. w \in Seq(Frames) /\ Len(w) = k /\ \A i \in 1 .. k : w[i] = u[i + n]
  <2>1. w = [i \in 1 .. k |-> u[i + n]]
    BY <1>1
  <2>2. \A i \in 1 .. k : u[i + n] \in Frames
    BY <1>1
  <2> HIDE DEF w
  <2> QED
    BY <1>1, <2>1, <2>2
<1> HIDE DEF v, w, k
<1>4. /\ IsFiniteSet(Cells(u)) /\ IsFiniteSet(Cells(v)) /\ IsFiniteSet(Cells(w))
      /\ Bytes(u) = Cardinality(Cells(u)) /\ Bytes(v) = Cardinality(Cells(v))
      /\ Bytes(w) = Cardinality(Cells(w))
  BY <1>2, <1>3, BytesCounted
<1>5. Cells(u) = Cells(v) \cup last /\ Cells(v) \cap last = {}
  <2>1. ASSUME NEW x PROVE x \in Cells(v) <=> x \in Cells(u) /\ ~(x \in last)
    <3>1. x \in Cells(v) <=> \E i \in 1 .. n : \E b \in 1 .. u[i].size : x = <<i, b>>
      BY <1>2, CellsAre
    <3>2. x \in Cells(u) <=> \E i \in 1 .. Len(u) : \E b \in 1 .. u[i].size : x = <<i, b>>
      BY CellsAre
    <3>3. \A i \in 1 .. Len(u) : i > n <=> ~(i \in 1 .. n)
      BY <1>1
    <3> QED
      BY <1>1, <3>1, <3>2, <3>3
  <2> QED
    BY <2>1
<1>6. h \in Bijection(Cells(w), last)
  <2>1. ASSUME NEW x
        PROVE  x \in Cells(w) <=> \E i \in 1 .. k : \E b \in 1 .. u[i + n].size : x = <<i, b>>
    <3>1. x \in Cells(w) <=> \E i \in 1 .. k : \E b \in 1 .. w[i].size : x = <<i, b>>
      BY <1>3, CellsAre
    <3> QED
      BY <1>3, <3>1
  <2>2. ASSUME NEW x
        PROVE  x \in last <=> \E i \in 1 .. k : \E b \in 1 .. u[i + n].size : x = <<i + n, b>>
    <3>1. x \in Cells(u) <=> \E i \in 1 .. Len(u) : \E b \in 1 .. u[i].size : x = <<i, b>>
      BY CellsAre
    <3>2. \A i \in 1 .. Len(u) : i > n => i - n \in 1 .. k /\ (i - n) + n = i
      BY <1>1 DEF k
    <3>3. \A i \in 1 .. k : i + n \in 1 .. Len(u) /\ i + n > n
      BY <1>1
    <3>4. ASSUME x \in last
          PROVE  \E i \in 1 .. k : \E b \in 1 .. u[i + n].size : x = <<i + n, b>>
      <4>1. PICK i \in 1 .. Len(u) : \E b \in 1 .. u[i].size : x = <<i, b>>
        BY <3>1, <3>4
      <4>2. i > n
        BY <3>4, <4>1
      <4>3. i - n \in 1 .. k /\ (i - n) + n = i
        BY <3>2, <4>2
      <4> QED
        BY <4>1, <4>3
    <3>5. ASSUME NEW i \in 1 .. k, NEW b \in 1 .. u[i + n].size, x = <<i + n, b>>
          PROVE  x \in last
      BY <3>1, <3>3, <3>5
    <3> QED
      BY <3>4, <3>5
  <2>3. h \in [Cells(w) -> last]
    <3> SUFFICES ASSUME NEW x \in Cells(w) PROVE <<x[1] + n, x[2]>> \in last
      OBVIOUS
    <3>1. PICK i \in 1 .. k : \E b \in 1 .. u[i + n].size : x = <<i, b>>
      BY <2>1
    <3>2. \E b \in 1 .. u[i + n].size : <<x[1] + n, x[2]>> = <<i + n, b>>
      BY <3>1
    <3> QED
      BY <2>2, <3>2
  <2>4. \A t \in last : \E x \in Cells(w) : h[x] = t
    <3> SUFFICES ASSUME NEW t \in last PROVE \E x \in Cells(w) : h[x] = t
      OBVIOUS
    <3>1. PICK i \in 1 .. k : \E b \in 1 .. u[i + n].size : t = <<i + n, b>>
      BY <2>2
    <3>2. PICK b \in 1 .. u[i + n].size : t = <<i + n, b>>
      BY <3>1
    <3>3. <<i, b>> \in Cells(w)
      BY <2>1
    <3> QED
      BY <3>2, <3>3
  <2>5. ASSUME NEW x \in Cells(w), NEW y \in Cells(w), h[x] = h[y]
        PROVE  x = y
    <3>1. PICK i \in 1 .. k : \E b \in 1 .. u[i + n].size : x = <<i, b>>
      BY <2>1
    <3>2. PICK j \in 1 .. k : \E b \in 1 .. u[j + n].size : y = <<j, b>>
      BY <2>1
    <3>3. i + n = j + n /\ x[2] = y[2]
      BY <2>5, <3>1, <3>2
    <3>4. i = j
      BY <1>1, <3>3
    <3> QED
      BY <3>1, <3>2, <3>3, <3>4
  <2> HIDE DEF h
  <2> QED
    BY <2>3, <2>4, <2>5 DEF Bijection, Injection, Surjection, IsInjective
<1>7. ExistsBijection(Cells(w), last)
  BY <1>6 DEF ExistsBijection
<1> HIDE DEF last, h
<1>8. IsFiniteSet(last) /\ Cardinality(last) = Cardinality(Cells(w))
  BY <1>4, <1>7, FS_Bijection
<1>9. Cardinality(Cells(u)) = Cardinality(Cells(v)) + Cardinality(last)
  <2>1. /\ Cardinality(Cells(v) \cup last) =
              Cardinality(Cells(v)) + Cardinality(last) - Cardinality(Cells(v) \cap last)
    BY <1>4, <1>8, FS_Union
  <2>2. Cardinality(Cells(v) \cap last) = 0
    BY <1>5, FS_EmptySet
  <2>3. Cardinality(Cells(v)) \in Nat /\ Cardinality(last) \in Nat
    BY <1>4, <1>8, FS_CardinalityType
  <2> QED
    BY <1>5, <2>1, <2>2, <2>3
<1> QED
  BY <1>2, <1>3, <1>4, <1>8, <1>9 DEF v, w, k

LEMMA BytesGrow ==
    ASSUME NEW u \in Seq(Frames), NEW f \in Frames
    PROVE  Bytes(Append(u, f)) = Bytes(u) + f.size
<1> DEFINE U == Append(u, f)
           n == Len(u)
           new == {n + 1} \X (1 .. f.size)
<1>1. /\ n \in Nat /\ U \in Seq(Frames) /\ Len(U) = n + 1 /\ U[n + 1] = f
      /\ \A i \in 1 .. n : U[i] = u[i]
  OBVIOUS
<1>2. f.size \in Nat
  BY DEF Frames
<1>3. IsFiniteSet(new) /\ Cardinality(new) = f.size
  <2>1. IsFiniteSet({n + 1}) /\ Cardinality({n + 1}) = 1
    BY FS_Singleton
  <2>2. IsFiniteSet(1 .. f.size) /\ Cardinality(1 .. f.size) = f.size
    BY <1>2, UpTo
  <2>3. IsFiniteSet(new) /\ Cardinality(new) = 1 * f.size
    BY <2>1, <2>2, FS_Product
  <2> QED
    BY <1>2, <2>3
<1> HIDE DEF U, n
<1>4. Cells(U) = Cells(u) \cup new /\ Cells(u) \cap new = {}
  <2>1. ASSUME NEW x
        PROVE  x \in Cells(U) <=> x \in Cells(u) \/ x \in new
    <3>1. x \in Cells(U) <=> \E i \in 1 .. n + 1 : \E b \in 1 .. U[i].size : x = <<i, b>>
      BY <1>1, CellsAre
    <3>2. x \in Cells(u) <=> \E i \in 1 .. n : \E b \in 1 .. u[i].size : x = <<i, b>>
      BY CellsAre DEF n
    <3>3. x \in new <=> \E b \in 1 .. U[n + 1].size : x = <<n + 1, b>>
      BY <1>1
    <3>4. \A i : i \in 1 .. n + 1 <=> i \in 1 .. n \/ i = n + 1
      BY <1>1
    <3> HIDE DEF new
    <3> QED
      BY <1>1, <3>1, <3>2, <3>3, <3>4
  <2>2. ASSUME NEW x \in Cells(u) PROVE ~(x \in new)
    <3>1. PICK i \in 1 .. n : \E b \in 1 .. u[i].size : x = <<i, b>>
      BY CellsAre DEF n
    <3>2. i # n + 1
      BY <1>1
    <3> QED
      BY <3>1, <3>2
  <2> QED
    BY <2>1, <2>2
<1>5. /\ IsFiniteSet(Cells(u)) /\ Bytes(u) = Cardinality(Cells(u)) /\ Bytes(u) \in Nat
      /\ Bytes(U) = Cardinality(Cells(U))
  BY <1>1, BytesCounted
<1> HIDE DEF new
<1>6. Cardinality(Cells(u) \cup new) =
          Cardinality(Cells(u)) + Cardinality(new) - Cardinality(Cells(u) \cap new)
  BY <1>3, <1>5, FS_Union
<1>7. Cardinality(Cells(u) \cap new) = 0
  BY <1>4, FS_EmptySet
<1> QED
  BY <1>2, <1>3, <1>4, <1>5, <1>6, <1>7 DEF U

(* The counter goes with the queue, and the mark with the counter: a frame that  *)
(* takes it above the high mark sets it or ends the session, and it is cleared    *)
(* with the frame that takes the counter down to the low mark.                     *)
LEMMA MarksKeep ==
    ASSUME IInv, [Next]_vars
    PROVE  unackBytes' \in [Ends -> Nat] /\ MarksAgree'
<1>1. /\ unackBytes \in [Ends -> Nat] /\ unack \in [Ends -> Seq(Frames)]
      /\ saturated \in [Ends -> BOOLEAN] /\ overflowed \in [Ends -> BOOLEAN]
      /\ outId \in [Ends -> Nat] /\ inAck \in [Ends -> Nat]
      /\ MarksAgree /\ Rows
      /\ HighWater \in Nat /\ LowWater \in Nat /\ LowWater <= HighWater
  BY ProtocolAssumption DEF IInv, TypeOK
<1>2. ASSUME NEW p \in Ends, NEW size \in Sizes, Send(p, size)
      PROVE  unackBytes' \in [Ends -> Nat] /\ MarksAgree'
  <2> DEFINE frame == Regular(outId[p] + 1, inAck[p], size)
             bytes == unackBytes[p] + size
             over == bytes > BufferMax
  <2>1. size \in Nat /\ bytes \in Nat /\ frame \in Frames /\ frame.size = size
    <3>1. size \in Nat /\ outId[p] + 1 \in Nat /\ inAck[p] \in Nat /\ unackBytes[p] \in Nat
      BY <1>1, ProtocolAssumption
    <3>2. frame \in Frames
      BY <3>1, FrameFacts
    <3>3. frame.size = size
      BY DEF Regular
    <3> QED
      BY <3>1, <3>2, <3>3
  <2>2. /\ unackBytes' = [unackBytes EXCEPT ![p] = bytes]
        /\ unack' = [unack EXCEPT ![p] = Append(unack[p], frame)]
        /\ IF over THEN Abandon(p) /\ UNCHANGED saturated
           ELSE /\ saturated' = [saturated EXCEPT ![p] = @ \/ AboveHigh(bytes)]
                /\ UNCHANGED <<overflowed, closed>>
    BY <1>2 DEF Send
  <2> HIDE DEF frame, over
  <2>3. /\ unackBytes' \in [Ends -> Nat] /\ unackBytes'[p] = bytes
        /\ unack'[p] = Append(unack[p], frame)
        /\ \A r \in Ends : r # p => unackBytes'[r] = unackBytes[r] /\ unack'[r] = unack[r]
    BY <1>1, <2>1, <2>2
  <2>4. \A r \in Ends : r # p => saturated'[r] = saturated[r] /\ overflowed'[r] = overflowed[r]
    BY <1>1, <2>2 DEF Abandon
  <2>5. unackBytes'[p] = Bytes(unack'[p])
    <3>1. unackBytes[p] = Bytes(unack[p]) /\ unack[p] \in Seq(Frames)
      BY <1>1 DEF MarksAgree
    <3> QED
      BY <2>1, <2>3, <3>1, BytesGrow
  <2>6. /\ bytes > HighWater => saturated'[p] \/ overflowed'[p]
        /\ saturated'[p] => bytes > LowWater
    <3>1. unackBytes[p] \in Nat /\ (saturated[p] => unackBytes[p] > LowWater)
      BY <1>1 DEF MarksAgree
    <3>2. CASE over
      <4>1. overflowed'[p] = TRUE /\ saturated'[p] = saturated[p]
        BY <1>1, <2>2, <3>2 DEF Abandon
      <4> QED
        BY <1>1, <2>1, <3>1, <4>1
    <3>3. CASE ~over
      <4>1. saturated'[p] = (saturated[p] \/ bytes > HighWater)
        BY <1>1, <2>2, <3>3 DEF AboveHigh
      <4>2. CASE bytes > HighWater
        <5>1. saturated'[p] = TRUE
          BY <4>1, <4>2
        <5>2. bytes > LowWater
          <6> HIDE DEF bytes
          <6> QED
            BY <1>1, <2>1, <4>2
        <5> QED
          BY <5>1, <5>2
      <4>3. CASE ~(bytes > HighWater)
        <5>1. saturated'[p] => saturated[p]
          BY <4>1, <4>3
        <5> QED
          BY <1>1, <2>1, <3>1, <4>3, <5>1
      <4> QED
        BY <4>2, <4>3
    <3> QED
      BY <3>2, <3>3
  <2> HIDE DEF bytes
  <2> QED
    <3>1. ASSUME NEW r \in Ends
          PROVE  /\ unackBytes'[r] = Bytes(unack'[r])
                 /\ unackBytes'[r] > HighWater => saturated'[r] \/ overflowed'[r]
                 /\ saturated'[r] => unackBytes'[r] > LowWater
      <4>1. CASE r = p
        BY <2>3, <2>5, <2>6, <4>1
      <4>2. CASE r # p
        BY <1>1, <2>3, <2>4, <4>2 DEF MarksAgree
      <4> QED
        BY <4>1, <4>2
    <3> QED
      BY <2>3, <3>1 DEF MarksAgree
<1>3. ASSUME NEW p \in Ends, Receive(p)
      PROVE  unackBytes' \in [Ends -> Nat] /\ MarksAgree'
  <2> DEFINE f == Head(wire[socket[p]][p])
             u == unack[p]
             shifted == SubSeq(u, 1, Len(u) - Len(unack'[p]))
             left == BytesAfter(unackBytes[p], shifted)
  <2>1. /\ unack' = [unack EXCEPT ![p] = AfterAck(u, f.ack)]
        /\ unackBytes' = [unackBytes EXCEPT ![p] = left]
        /\ saturated' = [saturated EXCEPT ![p] = @ /\ AboveLow(unackBytes'[p])]
        /\ overflowed' = overflowed
    BY <1>3 DEF Receive
  <2>2. PICK m \in 0 .. Len(u) : unack'[p] = SubSeq(u, m + 1, Len(u))
    <3>1. f.ack \in Nat
      <4>1. wire[socket[p]][p] \in Seq(Frames) /\ wire[socket[p]][p] # <<>>
        BY <1>3 DEF IInv, TypeOK, Receive
      <4>2. f \in Frames
        BY <4>1
      <4> QED
        BY <4>2 DEF Frames
    <3>2. /\ u \in Seq(Frames) /\ outId[p] \in Nat /\ Len(u) <= outId[p]
          /\ \A i \in 1 .. Len(u) : u[i].id = outId[p] - Len(u) + i
      BY <1>1 DEF Rows
    <3> HIDE DEF u, f
    <3>3. \E n \in 0 .. Len(u) : AfterAck(u, f.ack) = SubSeq(u, n + 1, Len(u))
      BY <3>1, <3>2, AfterAckFacts
    <3> QED
      BY <1>1, <2>1, <3>3
  <2>3. shifted = SubSeq(u, 1, m)
    <3>1. u \in Seq(Frames) /\ Len(u) \in Nat /\ m \in Nat
      BY <1>1
    <3>2. Len(SubSeq(u, m + 1, Len(u))) = Len(u) - m
      BY <3>1
    <3>3. Len(u) - (Len(u) - m) = m
      BY <3>1
    <3> HIDE DEF u
    <3> QED
      BY <2>2, <3>2, <3>3
  <2>4. u \in Seq(Frames) /\ unackBytes[p] = Bytes(u) /\ unackBytes[p] \in Nat
    BY <1>1 DEF MarksAgree
  <2> HIDE DEF u, shifted, f
  <2>5. /\ Bytes(u) = Bytes(SubSeq(u, 1, m)) + Bytes(SubSeq(u, m + 1, Len(u)))
        /\ Bytes(SubSeq(u, 1, m)) \in Nat /\ Bytes(SubSeq(u, m + 1, Len(u))) \in Nat
    BY <2>4, BytesSplit, BytesCounted
  <2>6. left = Bytes(unack'[p]) /\ left \in Nat /\ left <= unackBytes[p]
    BY <2>2, <2>3, <2>4, <2>5 DEF BytesAfter
  <2> HIDE DEF left
  <2>7. /\ unackBytes' \in [Ends -> Nat] /\ unackBytes'[p] = left
        /\ \A r \in Ends : r # p => /\ unackBytes'[r] = unackBytes[r] /\ unack'[r] = unack[r]
                                    /\ saturated'[r] = saturated[r]
    BY <1>1, <2>1, <2>6
  <2>8. /\ left > HighWater => saturated'[p] \/ overflowed'[p]
        /\ saturated'[p] => left > LowWater
    <3>1. saturated'[p] = (saturated[p] /\ left > LowWater)
      BY <1>1, <2>1, <2>7 DEF AboveLow
    <3>2. ASSUME left > HighWater
          PROVE  saturated'[p] \/ overflowed'[p]
      <4>1. left > LowWater /\ unackBytes[p] > HighWater
        BY <1>1, <2>4, <2>6, <3>2
      <4> QED
        BY <1>1, <2>1, <3>1, <4>1 DEF MarksAgree
    <3> QED
      BY <3>1, <3>2
  <2> QED
    <3>1. ASSUME NEW r \in Ends
          PROVE  /\ unackBytes'[r] = Bytes(unack'[r])
                 /\ unackBytes'[r] > HighWater => saturated'[r] \/ overflowed'[r]
                 /\ saturated'[r] => unackBytes'[r] > LowWater
      <4>1. CASE r = p
        BY <2>6, <2>7, <2>8, <4>1
      <4>2. CASE r # p
        BY <1>1, <2>1, <2>7, <4>2 DEF MarksAgree
      <4> QED
        BY <4>1, <4>2
    <3> QED
      BY <2>7, <3>1 DEF MarksAgree
<1>4. ASSUME UNCHANGED <<unack, unackBytes, saturated>>,
             \A r \in Ends : overflowed[r] => overflowed'[r]
      PROVE  unackBytes' \in [Ends -> Nat] /\ MarksAgree'
  BY <1>1, <1>4 DEF MarksAgree
<1>5. ASSUME UNCHANGED <<unack, unackBytes, saturated, overflowed>>
      PROVE  unackBytes' \in [Ends -> Nat] /\ MarksAgree'
  BY <1>4, <1>5
<1>6. ASSUME NEW p \in Ends, KeepAlive(p)
      PROVE  unackBytes' \in [Ends -> Nat] /\ MarksAgree'
  BY <1>5, <1>6 DEF KeepAlive
<1>7. ASSUME NEW p \in Ends, GraceExpires(p)
      PROVE  unackBytes' \in [Ends -> Nat] /\ MarksAgree'
  <2>1. \A r \in Ends : overflowed[r] => overflowed'[r]
    BY <1>1, <1>7 DEF GraceExpires, Abandon
  <2> QED
    BY <1>4, <1>7, <2>1 DEF GraceExpires
<1>8. ASSUME NEW s \in Sockets, Break(s) \/ Accept(s)
      PROVE  unackBytes' \in [Ends -> Nat] /\ MarksAgree'
  BY <1>5, <1>8 DEF Break, Accept, Replace
<1>9. ASSUME SocketCloses \/ SilenceNoticed
      PROVE  unackBytes' \in [Ends -> Nat] /\ MarksAgree'
  BY <1>5, <1>9 DEF SocketCloses, SilenceNoticed, StartLoop, queues
<1>10. ASSUME NEW l \in Loops, Connect(l) \/ ConnectFails(l)
       PROVE  unackBytes' \in [Ends -> Nat] /\ MarksAgree'
  BY <1>5, <1>10 DEF Connect, ConnectFails, Replace, queues
<1>11. CASE UNCHANGED vars
  BY <1>5, <1>11 DEF vars, queues
<1> QED
  BY <1>2, <1>3, <1>6, <1>7, <1>8, <1>9, <1>10, <1>11 DEF Next
--------------------------------------------------------------------------------
(* What TypeOK says of the variables no frame goes through. *)
Typed ==
    /\ up \subseteq Sockets /\ told \in BOOLEAN
    /\ saturated \in [Ends -> BOOLEAN] /\ overflowed \in [Ends -> BOOLEAN]
    /\ closed \in [Ends -> BOOLEAN]
    /\ loop \in [Loops -> 0 .. Idle] /\ fails \in 0 .. MaxFails
    /\ state \in {"connected", "reconnecting", "disconnected"}

LEMMA InitHolds == Init => IInv
<1> SUFFICES ASSUME Init PROVE IInv
  OBVIOUS
<1>1. /\ socket = [p \in Ends |-> 1] /\ up = Sockets /\ told = FALSE
      /\ wire = [s \in Sockets |-> [p \in Ends |-> <<>>]]
      /\ outId = [p \in Ends |-> 0] /\ inAck = [p \in Ends |-> 0] /\ top = [p \in Ends |-> 0]
      /\ unack = [p \in Ends |-> <<>>] /\ unackBytes = [p \in Ends |-> 0]
      /\ saturated = [p \in Ends |-> FALSE] /\ overflowed = [p \in Ends |-> FALSE]
      /\ closed = [p \in Ends |-> FALSE]
  BY DEF Init
<1>2. 1 \in Sockets
  BY ProtocolAssumption DEF Sockets
<1>3. TypeOK
  <2>1. Idle \in 0 .. Idle /\ 0 \in 0 .. MaxFails
    BY ProtocolAssumption DEF Idle
  <2>2. /\ loop \in [Loops -> 0 .. Idle] /\ fails \in 0 .. MaxFails
        /\ state \in {"connected", "reconnecting", "disconnected"}
    BY <2>1 DEF Init
  <2>3. /\ up \subseteq Sockets /\ told \in BOOLEAN /\ socket \in [Ends -> Sockets]
        /\ saturated \in [Ends -> BOOLEAN] /\ overflowed \in [Ends -> BOOLEAN]
        /\ closed \in [Ends -> BOOLEAN]
        /\ outId \in [Ends -> Nat] /\ inAck \in [Ends -> Nat] /\ top \in [Ends -> Nat]
        /\ unackBytes \in [Ends -> Nat]
    BY <1>1, <1>2
  <2>4. wire \in [Sockets -> [Ends -> Seq(Frames)]] /\ unack \in [Ends -> Seq(Frames)]
    BY <1>1
  <2>5. \A p \in Ends : DOMAIN unack[p] = {}
    BY <1>1
  <2> QED
    BY <2>2, <2>3, <2>4, <2>5 DEF TypeOK
<1>4. Rows /\ AcksSound /\ NothingLost /\ OnItsWay /\ Unused /\ InOrder
  BY <1>1, EndsFacts DEF Rows, AcksSound, NothingLost, OnItsWay, Unused, InOrder
<1>5. MarksAgree
  <2>1. <<>> \in Seq(Frames) /\ Len(<<>>) = 0
    OBVIOUS
  <2>2. Cells(<<>>) = {}
    <3>1. ASSUME NEW x \in Cells(<<>>) PROVE FALSE
      <4>1. \E i \in 1 .. Len(<<>>) : TRUE
        BY <2>1, <3>1, CellsAre
      <4>2. ~(\E i \in 1 .. 0 : TRUE)
        OBVIOUS
      <4> QED
        BY <2>1, <4>1, <4>2
    <3> QED
      BY <3>1
  <2>3. Bytes(<<>>) = 0
    BY <2>1, <2>2, BytesCounted, FS_EmptySet
  <2>4. \A p \in Ends : unack[p] = <<>> /\ unackBytes[p] = 0 /\ ~saturated[p]
    BY <1>1
  <2>5. ~(0 > HighWater)
    BY ProtocolAssumption
  <2> QED
    BY <2>3, <2>4, <2>5 DEF MarksAgree
<1> QED
  BY <1>3, <1>4, <1>5 DEF IInv

LEMMA TypedHolds ==
    ASSUME IInv, [Next]_vars
    PROVE  Typed'
<1>0. Typed /\ TypeOK
  BY DEF IInv, TypeOK, Typed
<1>1. ASSUME NEW p \in Ends, NEW size \in Sizes, Send(p, size)
      PROVE  Typed'
  <2>1. UNCHANGED <<up, told, loop, fails, state>>
    BY <1>1 DEF Send, links, reconnection
  <2>2. /\ saturated' \in [Ends -> BOOLEAN] /\ overflowed' \in [Ends -> BOOLEAN]
        /\ closed' \in [Ends -> BOOLEAN]
    <3>1. CASE Abandon(p) /\ UNCHANGED saturated
      BY <1>0, <3>1 DEF Abandon, Typed
    <3>2. CASE /\ \E b \in BOOLEAN : saturated' = [saturated EXCEPT ![p] = b]
               /\ UNCHANGED <<overflowed, closed>>
      BY <1>0, <3>2 DEF Typed
    <3> QED
      BY <1>0, <1>1, <3>1, <3>2 DEF Send, Typed
  <2> QED
    BY <1>0, <2>1, <2>2 DEF Typed
<1>2. ASSUME NEW p \in Ends, Receive(p)
      PROVE  Typed'
  <2>1. UNCHANGED <<up, told, loop, fails, state, overflowed>>
    BY <1>2 DEF Receive, links, reconnection
  <2>2. saturated' \in [Ends -> BOOLEAN] /\ closed' \in [Ends -> BOOLEAN]
    BY <1>0, <1>2 DEF Receive, Typed
  <2> QED
    BY <1>0, <2>1, <2>2 DEF Typed
<1>3. ASSUME NEW p \in Ends, KeepAlive(p) PROVE Typed'
  BY <1>0, <1>3 DEF KeepAlive, Typed, links, reconnection
<1>4. ASSUME NEW p \in Ends, GraceExpires(p) PROVE Typed'
  BY <1>0, <1>4 DEF GraceExpires, Abandon, Typed, links, reconnection
<1>5. ASSUME NEW s \in Sockets, Break(s) PROVE Typed'
  BY <1>0, <1>5 DEF Break, Typed, reconnection
<1>6. ASSUME SocketCloses \/ SilenceNoticed PROVE Typed'
  <2>1. StartLoop /\ told' \in BOOLEAN
    BY <1>0, <1>6 DEF SocketCloses, SilenceNoticed, Typed
  <2>2. loop' \in [Loops -> 0 .. Idle]
    <3>1. 0 \in 0 .. Idle
      BY ProtocolAssumption DEF Idle
    <3> QED
      BY <1>0, <2>1, <3>1 DEF StartLoop, Typed
  <2> QED
    BY <1>0, <2>1, <2>2 DEF StartLoop, Typed, queues
<1>7. ASSUME NEW l \in Loops, Connect(l) PROVE Typed'
  <2>1. Idle \in 0 .. Idle
    BY ProtocolAssumption DEF Idle
  <2>2. loop' \in [Loops -> 0 .. Idle]
    BY <1>0, <1>7, <2>1 DEF Connect, Typed
  <2> QED
    BY <1>0, <1>7, <2>2 DEF Connect, Replace, Typed
<1>8. ASSUME NEW l \in Loops, ConnectFails(l) PROVE Typed'
  <2>1. loop[l] \in Nat /\ loop[l] < MaxAttempts /\ fails \in Nat
    BY <1>0, <1>8, ProtocolAssumption DEF ConnectFails, Typed, Idle
  <2>2. Idle \in 0 .. Idle /\ loop[l] + 1 \in 0 .. Idle
    BY <2>1, ProtocolAssumption DEF Idle
  <2>3. loop' \in [Loops -> 0 .. Idle]
    BY <1>0, <1>8, <2>2 DEF ConnectFails, Typed
  <2>4. fails' \in 0 .. MaxFails
    BY <1>8, <2>1, ProtocolAssumption DEF ConnectFails
  <2> QED
    BY <1>0, <1>8, <2>3, <2>4 DEF ConnectFails, Typed, queues, links
<1>9. ASSUME NEW s \in Sockets, Accept(s) PROVE Typed'
  BY <1>0, <1>9 DEF Accept, Replace, Typed, reconnection
<1>10. CASE UNCHANGED vars
  BY <1>0, <1>10 DEF Typed, vars, queues, links, reconnection
<1> QED
  BY <1>1, <1>2, <1>3, <1>4, <1>5, <1>6, <1>7, <1>8, <1>9, <1>10 DEF Next

LEMMA SendKeeps ==
    ASSUME IInv, NEW p \in Ends, NEW size \in Sizes, Send(p, size)
    PROVE  /\ wire' \in [Sockets -> [Ends -> Seq(Frames)]] /\ UNCHANGED <<socket, inAck, top>>
           /\ outId' \in [Ends -> Nat] /\ unack' \in [Ends -> Seq(Frames)]
           /\ Rows' /\ AcksSound' /\ NothingLost' /\ OnItsWay' /\ Unused' /\ InOrder'
<1> DEFINE frame == Regular(outId[p] + 1, inAck[p], size)
           over == unackBytes[p] + size > BufferMax
           G == IF over THEN Goodbye(p) ELSE <<>>
           F == <<frame>> \o G
<1>1. TypeOK /\ outId[p] \in Nat /\ inAck[p] \in Nat /\ size \in Nat
  BY ProtocolAssumption DEF IInv, TypeOK
<1>2. /\ frame \in Frames /\ IsRegular(frame) /\ frame.id = outId[p] + 1
      /\ frame.ack = inAck[p]
  BY <1>1, FrameFacts DEF Regular, IsRegular
<1>3. /\ G \in Seq(Frames)
      /\ \A i \in 1 .. Len(G) : ~IsRegular(G[i]) /\ G[i].ack = inAck[p] /\ G[i].id = 0
  BY <1>1, GoodbyeFacts
<1>4. /\ outId' = [outId EXCEPT ![p] = outId[p] + 1]
      /\ unack' = [unack EXCEPT ![p] = Append(unack[p], frame)]
      /\ wire' = Written(socket[p], p, F)
      /\ UNCHANGED <<socket, up, inAck, top>>
  BY DEF Send, links
<1> HIDE DEF frame, G
<1>5. /\ F \in Seq(Frames) /\ Len(F) = 1 + Len(G) /\ Len(F) > 0 /\ F[1] = frame
      /\ \A i \in 2 .. Len(F) : i - 1 \in 1 .. Len(G) /\ F[i] = G[i - 1]
  BY <1>2, <1>3
<1> HIDE DEF F
<1>6. TheNext(p, F)
  BY <1>2, <1>3, <1>4, <1>5 DEF TheNext
<1>7. \A i \in 1 .. Len(F) : F[i].ack = inAck[p] /\ F[i].id <= outId'[p]
  <2>1. outId'[p] = outId[p] + 1
    BY <1>1, <1>4 DEF TypeOK
  <2> SUFFICES ASSUME NEW i \in 1 .. Len(F)
               PROVE  F[i].ack = inAck[p] /\ F[i].id <= outId'[p]
    OBVIOUS
  <2>2. CASE i = 1
    BY <1>1, <1>2, <1>5, <2>1, <2>2
  <2>3. CASE i # 1
    <3>1. i \in 2 .. Len(F)
      BY <2>3
    <3> QED
      <4>1. F[i] = G[i - 1] /\ i - 1 \in 1 .. Len(G)
        BY <1>5, <3>1
      <4>2. F[i].ack = inAck[p] /\ F[i].id = 0
        BY <1>3, <4>1
      <4> QED
        BY <1>1, <2>1, <4>2
  <2> QED
    BY <2>2, <2>3
<1>8. Nothing(F) \/ TheNext(p, F)
  BY <1>6
<1> QED
  BY <1>4, <1>5, <1>7, <1>8, WriteKeeps

LEMMA NoticeKeeps ==
    ASSUME IInv, NEW p \in Ends, KeepAlive(p) \/ GraceExpires(p)
    PROVE  /\ wire' \in [Sockets -> [Ends -> Seq(Frames)]]
           /\ UNCHANGED <<socket, inAck, top, outId, unack>>
           /\ Rows' /\ AcksSound' /\ NothingLost' /\ OnItsWay' /\ Unused' /\ InOrder'
<1>1. TypeOK /\ inAck[p] \in Nat /\ outId[p] \in Nat
  BY DEF IInv, TypeOK
<1>2. /\ UNCHANGED <<socket, up, inAck, top, outId, unack>>
      /\ \/ wire' = Written(socket[p], p, <<Control("KeepAlive", inAck[p])>>)
         \/ wire' = Written(socket[p], p, Goodbye(p))
  BY DEF KeepAlive, GraceExpires, links
<1>3. PICK F \in Seq(Frames) :
         /\ wire' = Written(socket[p], p, F)
         /\ \A i \in 1 .. Len(F) : ~IsRegular(F[i]) /\ F[i].ack = inAck[p] /\ F[i].id = 0
  <2>1. CASE wire' = Written(socket[p], p, <<Control("KeepAlive", inAck[p])>>)
    <3>1. Control("KeepAlive", inAck[p]) \in Frames
      BY <1>1, FrameFacts
    <3>2. /\ ~IsRegular(Control("KeepAlive", inAck[p]))
          /\ Control("KeepAlive", inAck[p]).ack = inAck[p]
          /\ Control("KeepAlive", inAck[p]).id = 0
      BY DEF Control, IsRegular
    <3> DEFINE c == Control("KeepAlive", inAck[p])
    <3> HIDE DEF c
    <3>3. /\ <<c>> \in Seq(Frames)
          /\ \A i \in 1 .. Len(<<c>>) : ~IsRegular(<<c>>[i]) /\ <<c>>[i].ack = inAck[p] /\ <<c>>[i].id = 0
      BY <3>1, <3>2 DEF c
    <3>4. wire' = Written(socket[p], p, <<c>>)
      BY <2>1 DEF c
    <3> QED
      BY <3>3, <3>4
  <2>2. CASE wire' = Written(socket[p], p, Goodbye(p))
    BY <1>1, <2>2, GoodbyeFacts
  <2> QED
    BY <1>2, <2>1, <2>2
<1>4. Nothing(F)
  BY <1>2, <1>3 DEF Nothing
<1>5. \A i \in 1 .. Len(F) : F[i].ack = inAck[p] /\ F[i].id <= outId'[p]
  BY <1>1, <1>2, <1>3
<1> QED
  BY <1>2, <1>3, <1>4, <1>5, WriteKeeps

LEMMA StepHolds == IInv /\ [Next]_vars => IInv'
<1> SUFFICES ASSUME IInv, [Next]_vars PROVE IInv'
  OBVIOUS
<1> DEFINE Through == /\ socket \in [Ends -> Sockets]
                      /\ wire \in [Sockets -> [Ends -> Seq(Frames)]]
                      /\ outId \in [Ends -> Nat] /\ inAck \in [Ends -> Nat]
                      /\ top \in [Ends -> Nat] /\ unack \in [Ends -> Seq(Frames)]
           Good == Rows /\ AcksSound /\ NothingLost /\ OnItsWay /\ Unused /\ InOrder
<1>0. Typed' /\ Through /\ Good /\ unackBytes' \in [Ends -> Nat] /\ MarksAgree'
  BY TypedHolds, MarksKeep DEF IInv, TypeOK
<1>1. Through' /\ Good'
  <2>1. ASSUME NEW p \in Ends, NEW size \in Sizes, Send(p, size)
        PROVE  Through' /\ Good'
    BY <1>0, <2>1, SendKeeps
  <2>2. ASSUME NEW p \in Ends, Receive(p)
        PROVE  Through' /\ Good'
    <3>1. UNCHANGED <<socket, outId>>
      BY <2>2 DEF Receive, links
    <3> QED
      BY <1>0, <2>2, <3>1, ReceiveKeeps
  <2>3. ASSUME NEW p \in Ends, KeepAlive(p) \/ GraceExpires(p)
        PROVE  Through' /\ Good'
    BY <1>0, <2>3, NoticeKeeps
  <2>4. ASSUME NEW s \in Sockets, Break(s)
        PROVE  Through' /\ Good'
    <3>1. UNCHANGED <<socket, outId, unack, inAck, top>>
      BY <2>4 DEF Break
    <3> QED
      BY <1>0, <2>4, <3>1, BreakKeeps
  <2>5. ASSUME NEW p \in Ends, NEW s \in Sockets, s > socket[p], Replace(p, s), UNCHANGED up
        PROVE  Through' /\ Good'
    <3>1. UNCHANGED <<outId, unack, inAck, top>>
      BY <2>5 DEF Replace
    <3> QED
      BY <1>0, <2>5, <3>1, ReplaceKeeps
  <2>6. ASSUME NEW l \in Loops, Connect(l)
        PROVE  Through' /\ Good'
    <3>1. "client" \in Ends /\ socket["client"] \in Nat
      BY <1>0 DEF Ends, Sockets
    <3>2. /\ socket["client"] + 1 \in Sockets /\ socket["client"] + 1 > socket["client"]
          /\ Replace("client", socket["client"] + 1) /\ UNCHANGED up
      BY <2>6, <3>1 DEF Connect
    <3> HIDE DEF Through, Good
    <3> QED
      BY <2>5, <3>1, <3>2
  <2>7. ASSUME NEW s \in Sockets, Accept(s)
        PROVE  Through' /\ Good'
    <3>1. "server" \in Ends /\ socket["server"] \in Nat /\ s \in Nat
      BY <1>0 DEF Ends, Sockets
    <3>2. s > socket["server"] /\ Replace("server", s) /\ UNCHANGED up
      BY <2>7, <3>1 DEF Accept
    <3> HIDE DEF Through, Good
    <3> QED
      BY <2>5, <3>1, <3>2
  <2>8. ASSUME UNCHANGED <<socket, up, wire, outId, unack, inAck, top>>
        PROVE  Through' /\ Good'
    BY <1>0, <2>8 DEF Rows, AcksSound, NothingLost, OnItsWay, Carries, Unused, InOrder
  <2>9. ASSUME SocketCloses \/ SilenceNoticed \/ UNCHANGED vars
        PROVE  Through' /\ Good'
    <3>1. UNCHANGED <<socket, up, wire, outId, unack, inAck, top>>
      BY <2>9 DEF SocketCloses, SilenceNoticed, StartLoop, vars, queues, links
    <3> HIDE DEF Through, Good
    <3> QED
      BY <2>8, <3>1
  <2>10. ASSUME NEW l \in Loops, ConnectFails(l)
         PROVE  Through' /\ Good'
    <3>1. UNCHANGED <<socket, up, wire, outId, unack, inAck, top>>
      BY <2>10 DEF ConnectFails, queues, links
    <3> HIDE DEF Through, Good
    <3> QED
      BY <2>8, <3>1
  <2> HIDE DEF Through, Good
  <2> QED
    BY <2>1, <2>2, <2>3, <2>4, <2>6, <2>7, <2>9, <2>10 DEF Next
<1>2. TypeOK'
  <2>1. \A p \in Ends : \A i \in DOMAIN unack'[p] :
          unack'[p][i].id = outId'[p] - Len(unack'[p]) + i
    <3>1. Rows' /\ unack' \in [Ends -> Seq(Frames)]
      BY <1>1
    <3> SUFFICES ASSUME NEW p \in Ends, NEW i \in DOMAIN unack'[p]
                 PROVE  unack'[p][i].id = outId'[p] - Len(unack'[p]) + i
      OBVIOUS
    <3>2. unack'[p] \in Seq(Frames)
      BY <3>1
    <3>3. i \in 1 .. Len(unack'[p])
      BY <3>2
    <3> QED
      BY <3>1, <3>3 DEF Rows
  <2> QED
    BY <1>0, <1>1, <2>1 DEF Typed, TypeOK
<1> QED
  BY <1>0, <1>1, <1>2 DEF IInv

THEOREM Invariance == Spec => []IInv
<1>1. Init => IInv
  BY InitHolds
<1>2. IInv /\ [Next]_vars => IInv'
  BY StepHolds
<1> QED
  BY <1>1, <1>2, PTL DEF Spec
--------------------------------------------------------------------------------
(* Every variable has its type and the frames kept are the last ones sent, in a *)
(* row (send, processAck).                                                       *)
THEOREM TypeCorrect == Spec => []TypeOK
<1>1. IInv => TypeOK
  BY DEF IInv
<1> QED
  BY <1>1, Invariance, PTL

(* The counter of the bytes kept is right after every acknowledgement, and the    *)
(* mark agrees with it: a sender far ahead was told to stop unless the session is  *)
(* over, and one that has caught up is not left stopped (send, processAck), for    *)
(* any two marks, any sizes of payloads and whatever is replayed.                   *)
THEOREM MarksAlwaysAgree == Spec => []MarksAgree
<1>1. IInv => MarksAgree
  BY DEF IInv
<1> QED
  BY <1>1, Invariance, PTL

(* A frame that has left the queue was handed to onMessage at the other end      *)
(* (processAck, readMessages, replaceSocket), for any number of sockets and of   *)
(* frames.                                                                        *)
THEOREM NoFrameLost == Spec => []NothingLost
<1>1. IInv => NothingLost
  BY DEF IInv
<1> QED
  BY <1>1, Invariance, PTL

(* No end is ever about to read a frame with one before it missing               *)
(* (readMessages, replaceSocket).                                                 *)
THEOREM NoFrameSkipped == Spec => []NoGap
<1>1. IInv => NoGap
  <2> SUFFICES ASSUME IInv, NEW p \in Ends, NEW s \in Sockets, NEW i \in DOMAIN wire[s][p],
                      wire[s][p][i].type = "Regular"
               PROVE  \/ wire[s][p][i].id <= top[p] + 1
                      \/ \E j \in 1 .. i - 1 : /\ wire[s][p][j].type = "Regular"
                                               /\ wire[s][p][j].id = wire[s][p][i].id - 1
    BY DEF NoGap
  <2>1. wire[s][p] \in Seq(Frames) /\ InOrder
    BY DEF IInv, TypeOK
  <2>2. i \in 1 .. Len(wire[s][p])
    BY <2>1
  <2> QED
    BY <2>1, <2>2 DEF InOrder, IsRegular
<1> QED
  BY <1>1, Invariance, PTL
--------------------------------------------------------------------------------
(* What a step does to the direction from p, as the pipe sees it. *)
Steady(p) == outId'[p] = outId[p] /\ top'[Other(p)] = top[Other(p)]
Sends(p) == outId'[p] = outId[p] + 1 /\ top'[Other(p)] = top[Other(p)]
Gets(p) == /\ outId'[p] = outId[p] /\ top'[Other(p)] = top[Other(p)] + 1
           /\ top[Other(p)] < outId[p]
Pipes(p) ==
    \/ Down' = Down /\ (Steady(p) \/ Sends(p) \/ Gets(p))
    \/ Down' = TRUE /\ (Steady(p) \/ Sends(p))
    \/ Down' = FALSE /\ Steady(p)

LEMMA StepPipes ==
    ASSUME IInv, [Next]_vars, NEW d \in Ends
    PROVE  Pipes(d)
<1>0. /\ TypeOK /\ Other(d) \in Ends
      /\ \A p \in Ends : closed[p] \in BOOLEAN /\ outId[p] \in Nat /\ top[p] \in Nat
  BY EndsFacts DEF IInv, TypeOK
<1>1. ASSUME NEW p \in Ends, UNCHANGED state,
             closed' = closed \/ closed' = [closed EXCEPT ![p] = TRUE]
      PROVE  Down' = Down \/ Down' = TRUE
  <2>1. CASE closed' = closed
    BY <1>1, <2>1 DEF Down
  <2>2. CASE closed' = [closed EXCEPT ![p] = TRUE]
    <3>1. closed'[p] = TRUE
      BY <1>0, <2>2 DEF TypeOK
    <3> QED
      BY <3>1 DEF Down, Ends
  <2> QED
    BY <1>1, <2>1, <2>2
<1>2. ASSUME NEW p \in Ends, Abandon(p), UNCHANGED state
      PROVE  Down' = Down \/ Down' = TRUE
  <2>1. closed' = closed \/ closed' = [closed EXCEPT ![p] = TRUE]
    <3>1. CASE overflowed[p]
      <4>1. closed' = [closed EXCEPT ![p] = closed[p]]
        BY <1>0, <1>2, <3>1 DEF Abandon
      <4> QED
        BY <1>0, <4>1 DEF TypeOK
    <3>2. CASE ~overflowed[p]
      BY <1>0, <1>2, <3>2 DEF Abandon
    <3> QED
      BY <3>1, <3>2
  <2> QED
    BY <1>1, <1>2, <2>1
<1>3. ASSUME NEW p \in Ends, NEW size \in Sizes, Send(p, size)
      PROVE  Pipes(d)
  <2>1. outId' = [outId EXCEPT ![p] = outId[p] + 1] /\ UNCHANGED <<top, state>>
    BY <1>3 DEF Send, reconnection
  <2>2. Down' = Down \/ Down' = TRUE
    <3>1. Abandon(p) \/ UNCHANGED closed
      BY <1>3 DEF Send
    <3> QED
      BY <1>1, <1>2, <2>1, <3>1
  <2>3. Steady(d) \/ Sends(d)
    BY <1>0, <2>1 DEF Steady, Sends, TypeOK
  <2> QED
    BY <2>2, <2>3 DEF Pipes
<1>4. ASSUME NEW p \in Ends, Receive(p)
      PROVE  Pipes(d)
  <2> DEFINE f == Head(wire[socket[p]][p])
  <2>1. /\ UNCHANGED <<outId, state>>
        /\ top' = [top EXCEPT ![p] = IF f.type = "Regular" /\ f.id > @ THEN f.id ELSE @]
        /\ closed' = [closed EXCEPT ![p] = @ \/ f.type = "Disconnect"]
    BY <1>4 DEF Receive, reconnection
  <2>2. top'[p] \in {top[p], top[p] + 1} /\ top'[Other(p)] = top[Other(p)]
    BY <1>4, ReceiveKeeps
  <2>3. f.id <= outId[Other(p)] /\ f.id \in Nat /\ outId[Other(p)] \in Nat
    <3>1. wire[socket[p]][p] \in Seq(Frames) /\ wire[socket[p]][p] # <<>> /\ socket[p] \in Sockets
      BY <1>0, <1>4 DEF TypeOK, Receive
    <3>2. 1 \in 1 .. Len(wire[socket[p]][p]) /\ f = wire[socket[p]][p][1] /\ f \in Frames
      BY <3>1
    <3> QED
      BY <1>0, <3>1, <3>2, EndsFacts DEF IInv, AcksSound, Frames
  <2>4. CASE d = p
    <3>1. Steady(d)
      BY <2>1, <2>2, <2>4 DEF Steady
    <3>2. closed' = closed \/ closed' = [closed EXCEPT ![p] = TRUE]
      <4>1. CASE f.type = "Disconnect"
        BY <1>0, <2>1, <4>1
      <4>2. CASE f.type # "Disconnect"
        <5>1. closed' = [closed EXCEPT ![p] = closed[p]]
          BY <1>0, <2>1, <4>2
        <5> QED
          BY <1>0, <5>1 DEF TypeOK
      <4> QED
        BY <4>1, <4>2
    <3>3. Down' = Down \/ Down' = TRUE
      BY <1>1, <2>1, <3>2
    <3> QED
      BY <3>1, <3>3 DEF Pipes
  <2>5. CASE d = Other(p) /\ top'[p] = top[p]
    <3>1. Steady(d)
      BY <2>1, <2>5, EndsFacts DEF Steady
    <3>2. closed' = closed \/ closed' = [closed EXCEPT ![p] = TRUE]
      <4>1. CASE f.type = "Disconnect"
        BY <1>0, <2>1, <4>1
      <4>2. CASE f.type # "Disconnect"
        <5>1. closed' = [closed EXCEPT ![p] = closed[p]]
          BY <1>0, <2>1, <4>2
        <5> QED
          BY <1>0, <5>1 DEF TypeOK
      <4> QED
        BY <4>1, <4>2
    <3>3. Down' = Down \/ Down' = TRUE
      BY <1>1, <2>1, <3>2
    <3> QED
      BY <3>1, <3>3 DEF Pipes
  <2>6. CASE d = Other(p) /\ top'[p] = top[p] + 1
    <3>1. f.type = "Regular" /\ f.id = top[p] + 1
      <4>1. top'[p] = IF f.type = "Regular" /\ f.id > top[p] THEN f.id ELSE top[p]
        BY <1>0, <2>1 DEF TypeOK
      <4>2. top[p] \in Nat /\ top'[p] # top[p]
        BY <1>0, <2>6
      <4>3. f.type = "Regular"
        BY <4>1, <4>2
      <4>4. top'[p] = f.id
        BY <4>1, <4>2
      <4> QED
        BY <2>6, <4>3, <4>4
    <3>2. Gets(d)
      BY <1>0, <2>1, <2>3, <2>6, <3>1, EndsFacts DEF Gets
    <3>3. closed' = closed
      <4>1. closed' = [closed EXCEPT ![p] = closed[p]]
        BY <1>0, <2>1, <3>1
      <4> QED
        BY <1>0, <4>1 DEF TypeOK
    <3>4. Down' = Down
      BY <2>1, <3>3 DEF Down
    <3> QED
      BY <3>2, <3>4 DEF Pipes
  <2> QED
    BY <2>2, <2>4, <2>5, <2>6 DEF Ends, Other
<1>5. ASSUME UNCHANGED <<outId, top, closed>>, UNCHANGED state \/ state' = "disconnected"
      PROVE  Pipes(d)
  <2>1. Down' = Down \/ Down' = TRUE
    BY <1>5 DEF Down
  <2> QED
    BY <1>5, <2>1 DEF Pipes, Steady
<1>6. ASSUME UNCHANGED <<outId, top, closed>>, state' # "disconnected"
      PROVE  Pipes(d)
  <2>1. Down' = Down \/ Down' = FALSE
    <3>1. CASE closed["client"] \/ closed["server"]
      BY <1>6, <3>1 DEF Down
    <3>2. CASE ~(closed["client"] \/ closed["server"])
      BY <1>6, <3>2 DEF Down
    <3> QED
      BY <3>1, <3>2
  <2> QED
    BY <1>6, <2>1 DEF Pipes, Steady
<1>7. ASSUME NEW p \in Ends, KeepAlive(p) PROVE Pipes(d)
  BY <1>5, <1>7 DEF KeepAlive, reconnection
<1>8. ASSUME NEW p \in Ends, GraceExpires(p) PROVE Pipes(d)
  <2>1. Abandon(p) /\ UNCHANGED <<outId, top, state>>
    BY <1>8 DEF GraceExpires, reconnection
  <2>2. Down' = Down \/ Down' = TRUE
    BY <1>2, <2>1
  <2> QED
    BY <2>1, <2>2 DEF Pipes, Steady
<1>9. ASSUME NEW s \in Sockets, Break(s) PROVE Pipes(d)
  BY <1>5, <1>9 DEF Break, reconnection
<1>10. ASSUME SocketCloses \/ SilenceNoticed PROVE Pipes(d)
  <2>1. UNCHANGED <<outId, top, closed>> /\ state' = "reconnecting"
    BY <1>10 DEF SocketCloses, SilenceNoticed, StartLoop, queues
  <2> QED
    BY <1>6, <2>1
<1>11. ASSUME NEW l \in Loops, Connect(l) PROVE Pipes(d)
  <2>1. UNCHANGED <<outId, top, closed>> /\ state' = "connected"
    BY <1>11 DEF Connect, Replace
  <2> QED
    BY <1>6, <2>1
<1>12. ASSUME NEW l \in Loops, ConnectFails(l) PROVE Pipes(d)
  <2>1. /\ UNCHANGED <<outId, top, closed>>
        /\ state' = "disconnected" \/ state' = state
    BY <1>12 DEF ConnectFails, queues
  <2> QED
    BY <1>5, <2>1
<1>13. ASSUME NEW s \in Sockets, Accept(s) PROVE Pipes(d)
  BY <1>5, <1>13 DEF Accept, Replace, reconnection
<1>14. CASE UNCHANGED vars
  BY <1>5, <1>14 DEF vars, queues, reconnection
<1> QED
  BY <1>3, <1>4, <1>7, <1>8, <1>9, <1>10, <1>11, <1>12, <1>13, <1>14 DEF Next

LEMMA DirectionsHold ==
    /\ Init => ToServer!PipeInit /\ ToClient!PipeInit
    /\ IInv /\ [Next]_vars => /\ [ToServer!PipeNext]_(ToServer!pipe)
                              /\ [ToClient!PipeNext]_(ToClient!pipe)
<1>1. Init => ToServer!PipeInit /\ ToClient!PipeInit
  BY DEF Init, ToServer!PipeInit, ToClient!PipeInit, Down, Ends
<1>2. ASSUME IInv, [Next]_vars
      PROVE  /\ [ToServer!PipeNext]_(ToServer!pipe)
             /\ [ToClient!PipeNext]_(ToClient!pipe)
  <2>1. Other("client") = "server" /\ Other("server") = "client"
    BY DEF Other
  <2>2. Pipes("client") /\ Pipes("server")
    BY <1>2, StepPipes DEF Ends
  <2>3. [ToServer!PipeNext]_(ToServer!pipe)
    BY <2>1, <2>2
       DEF Pipes, Steady, Sends, Gets, ToServer!PipeNext, ToServer!Send, ToServer!Get,
           ToServer!GiveUp, ToServer!ComeBack, ToServer!pipe
  <2>4. [ToClient!PipeNext]_(ToClient!pipe)
    BY <2>1, <2>2
       DEF Pipes, Steady, Sends, Gets, ToClient!PipeNext, ToClient!Send, ToClient!Get,
           ToClient!GiveUp, ToClient!ComeBack, ToClient!pipe
  <2> QED
    BY <2>3, <2>4
<1> QED
  BY <1>1, <1>2

(* Each direction is a pipe that hands every frame over for the first time in    *)
(* the order of sending, and none that was not sent, whatever is replayed:        *)
(* readMessages and replaceSocket implement it.                                   *)
THEOREM BothWaysPipes == Spec => ToServer!PipeSafety /\ ToClient!PipeSafety
<1>1. Init => ToServer!PipeInit /\ ToClient!PipeInit
  BY DirectionsHold
<1>2. IInv /\ [Next]_vars => /\ [ToServer!PipeNext]_(ToServer!pipe)
                             /\ [ToClient!PipeNext]_(ToClient!pipe)
  BY DirectionsHold
<1> QED
  BY <1>1, <1>2, Invariance, PTL DEF Spec, ToServer!PipeSafety, ToClient!PipeSafety
================================================================================
