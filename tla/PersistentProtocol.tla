---------------------------- MODULE PersistentProtocol ----------------------------
(***************************************************************************)
(* Two ends of a persistent protocol and the sockets they go through       *)
(* (packages/rpc/src/persistent-protocol.ts), with the client that         *)
(* connects again when a socket is lost (packages/rpc/src/remote.ts).      *)
(*                                                                         *)
(* Both ends run the same class.  A socket is a number; wire[s][p] is what *)
(* is on its way to p through socket s, in order.  A socket that breaks    *)
(* loses the end of what is on its way, silently for what is written to it *)
(* later.  A frame carries its number and the last number its sender has   *)
(* received; a payload is its size.  The server's side of a new socket is  *)
(* not in the repository: it is given to replaceSocket when accepted.      *)
(***************************************************************************)
EXTENDS Naturals, Sequences, FiniteSets

CONSTANTS
    Sizes,          \* sizes of payloads
    HighWater,      \* saturationHighWaterMarkBytes
    LowWater,       \* saturationLowWaterMarkBytes
    BufferMax,      \* replayBufferMaxBytes
    MaxAttempts,    \* RECONNECT_DELAYS.length
    MaxSent,        \* bound on the frames of each end
    MaxSockets,     \* bound on sockets; the last one does not break
    MaxFails,       \* bound on connections that fail
    Loops           \* reconnection loops that may run at a time

Ends == {"client", "server"}
Other(p) == IF p = "client" THEN "server" ELSE "client"
Sockets == 1 .. MaxSockets

ASSUME ProtocolAssumption ==
    /\ Sizes \subseteq Nat /\ Loops # {} /\ MaxSockets \in Nat \ {0}
    /\ HighWater \in Nat /\ LowWater \in 0 .. HighWater /\ BufferMax \in Nat
    /\ MaxSent \in [Ends -> Nat] /\ MaxAttempts \in Nat \ {0} /\ MaxFails \in Nat

VARIABLES
    socket,         \* the socket each end is bound to
    up,             \* sockets that are not broken
    wire,
    outId,          \* outgoingMsgId
    unack,          \* outgoingUnackMsg
    unackBytes,     \* the counter the marks are compared with
    inAck,          \* incomingAckId
    saturated,
    overflowed,
    closed,         \* ends where onClose has fired
    loop,           \* attempts made by each reconnection loop of the client
    told,           \* the client's socket has reported that it closed
    state,          \* the last state the client reported
    fails,          \* connections that failed so far
    top             \* history: the highest number handed to onMessage

queues == <<wire, outId, unack, unackBytes, inAck, saturated, overflowed, closed, top>>
links == <<socket, up, told>>
reconnection == <<loop, state, fails>>
vars == <<queues, links, reconnection>>

Idle == MaxAttempts + 1     \* a loop that does not run

Regular(id, ack, size) == [type |-> "Regular", id |-> id, ack |-> ack, size |-> size]
Control(type, ack) == [type |-> type, id |-> 0, ack |-> ack, size |-> 0]

(* What the counter counts: the bytes of the payloads, one by one. *)
Bytes(entries) == Cardinality(UNION {{i} \X (1 .. entries[i].size) : i \in DOMAIN entries})

(* writeMessage: a frame is lost on a broken socket, and on one the other end *)
(* no longer reads.                                                             *)
Carries(s, p) == s \in up /\ socket[Other(p)] <= s
Written(s, p, frames) ==
    IF Carries(s, p) THEN [wire EXCEPT ![s][Other(p)] = @ \o frames] ELSE wire
--------------------------------------------------------------------------------
Init ==
    /\ socket = [p \in Ends |-> 1] /\ up = Sockets /\ told = FALSE
    /\ wire = [s \in Sockets |-> [p \in Ends |-> <<>>]]
    /\ outId = [p \in Ends |-> 0] /\ inAck = outId /\ top = outId /\ unackBytes = outId
    /\ unack = [p \in Ends |-> <<>>]
    /\ saturated = [p \in Ends |-> FALSE] /\ overflowed = saturated /\ closed = saturated
    /\ loop = [l \in Loops |-> Idle] /\ state = "connected" /\ fails = 0

(* abandonSession: nothing the second time.  What it writes, and what it   *)
(* changes.                                                                  *)
Goodbye(p) == IF overflowed[p] THEN <<>> ELSE <<Control("Disconnect", inAck[p])>>
Abandon(p) ==
    /\ overflowed' = [overflowed EXCEPT ![p] = TRUE]
    /\ closed' = [closed EXCEPT ![p] = closed[p] \/ ~overflowed[p]]

(* The marks: the layer above is told to stop above the high one, and to go on *)
(* at the low one.  Mutant: at the low mark it is not told yet.                *)
AboveHigh(n) == n > HighWater
AboveLowAtMark(n) == n >= LowWater
AboveLow(n) == n > LowWater

(* send: the frame is kept, then written.  A session whose buffer is over its *)
(* limit is abandoned at once, and returns before the mark is looked at.  No   *)
(* frame is given to a session that is closed (bound).                         *)
Send(p, size) ==
    LET id == outId[p] + 1
        frame == Regular(id, inAck[p], size)
        bytes == unackBytes[p] + size
        over == bytes > BufferMax
    IN  /\ id <= MaxSent[p] /\ ~closed[p]
        /\ outId' = [outId EXCEPT ![p] = id]
        /\ unack' = [unack EXCEPT ![p] = Append(@, frame)]
        /\ unackBytes' = [unackBytes EXCEPT ![p] = bytes]
        /\ wire' = Written(socket[p], p, <<frame>> \o IF over THEN Goodbye(p) ELSE <<>>)
        /\ IF over THEN Abandon(p) /\ UNCHANGED saturated
           ELSE /\ saturated' = [saturated EXCEPT ![p] = @ \/ AboveHigh(bytes)]
                /\ UNCHANGED <<overflowed, closed>>
        /\ UNCHANGED <<inAck, top, links, reconnection>>

(* processAck: entries leave from the front, up to the number acknowledged.  *)
(* Mutants: only the entry with that number leaves; the one after it leaves     *)
(* too.                                                                          *)
AfterAckExact(entries, ack) == SelectSeq(entries, LAMBDA e : e.id # ack)
AfterAckOneMore(entries, ack) == SelectSeq(entries, LAMBDA e : e.id > ack + 1)

AfterAck(entries, ack) ==
    LET gone == CHOOSE n \in 0 .. Len(entries) :
                    /\ \A i \in 1 .. n : entries[i].id <= ack
                    /\ n < Len(entries) => entries[n + 1].id > ack
    IN  SubSeq(entries, gone + 1, Len(entries))

(* ... and their bytes are taken off the counter.                               *)
BytesAfter(n, shifted) == n - Bytes(shifted)

(* readMessages, for the frame at the head of the stream.  The number of a    *)
(* regular frame is taken as it comes, and every one is handed to onMessage,   *)
(* a repeated one too.                                                         *)
Receive(p) ==
    LET s == socket[p]
        frame == Head(wire[s][p])
        shifted == SubSeq(unack[p], 1, Len(unack[p]) - Len(unack'[p]))
        regular == frame.type = "Regular"
    IN  /\ wire[s][p] # <<>>
        /\ wire' = [wire EXCEPT ![s][p] = Tail(@)]
        /\ unack' = [unack EXCEPT ![p] = AfterAck(@, frame.ack)]
        /\ unackBytes' = [unackBytes EXCEPT ![p] = BytesAfter(@, shifted)]
        /\ saturated' = [saturated EXCEPT ![p] = @ /\ AboveLow(unackBytes'[p])]
        /\ inAck' = [inAck EXCEPT ![p] = IF regular THEN frame.id ELSE @]
        /\ top' = [top EXCEPT ![p] = IF regular /\ frame.id > @ THEN frame.id ELSE @]
        /\ closed' = [closed EXCEPT ![p] = @ \/ frame.type = "Disconnect"]
        /\ UNCHANGED <<outId, overflowed, links, reconnection>>

(* The timer of startKeepAlive, when the frame tells the other end anything     *)
(* (bound).                                                                      *)
KeepAlive(p) ==
    LET s == socket[p] IN
    /\ s \in up /\ wire[s][Other(p)] = <<>> /\ unack[Other(p)] # <<>>
    /\ wire' = Written(s, p, <<Control("KeepAlive", inAck[p])>>)
    /\ UNCHANGED <<outId, unack, unackBytes, inAck, saturated, overflowed, closed, top, links,
                   reconnection>>

(* The timer of startAckCheck, when the oldest entry is older than             *)
(* replayBufferGraceMs.                                                         *)
GraceExpires(p) ==
    /\ unack[p] # <<>> /\ ~overflowed[p]
    /\ Abandon(p)
    /\ wire' = Written(socket[p], p, Goodbye(p))
    /\ UNCHANGED <<outId, unack, unackBytes, inAck, saturated, top, links, reconnection>>

(* What replaceSocket writes again.  Mutants: nothing; what was sent with the   *)
(* last acknowledgement only.                                                    *)
ReplayNone(p) == <<>>
ReplayLatest(p) == SelectSeq(unack[p], LAMBDA e : e.ack = inAck[p])
ReplayAll(p) == unack[p]

(* replaceSocket: what was not read from the old socket is not looked at again,*)
(* and everything not acknowledged is written to the new one as it was sent.    *)
Replace(p, s) ==
    /\ socket' = [socket EXCEPT ![p] = s]
    /\ wire' = [Written(s, p, ReplayAll(p)) EXCEPT ![socket[p]][p] = <<>>]
    /\ UNCHANGED <<outId, unack, unackBytes, inAck, saturated, overflowed, closed, top>>
--------------------------------------------------------------------------------
(* A socket breaks; of what is on its way each end still gets the beginning.   *)
Break(s) ==
    /\ s \in up /\ s < MaxSockets /\ \E p \in Ends : socket[p] >= s
    /\ up' = up \ {s}
    /\ \E kept \in [Ends -> 0 .. MaxSent["client"] + MaxSent["server"]] :
          /\ \A p \in Ends : kept[p] <= Len(wire[s][p])
          /\ wire' = [wire EXCEPT ![s] = [p \in Ends |-> SubSeq(wire[s][p], 1, kept[p])]]
    /\ UNCHANGED <<socket, told, outId, unack, unackBytes, inAck, saturated, overflowed, closed,
                   top, reconnection>>

(* RemoteAgentConnection: onSocketClose starts a loop, whether or not one runs. *)
StartLoop ==
    /\ \E l \in Loops : loop[l] = Idle
    /\ loop' = [loop EXCEPT ![CHOOSE l \in Loops : loop[l] = Idle] = 0]
    /\ state' = "reconnecting"
    /\ UNCHANGED <<queues, socket, up, fails>>

(* The socket of the client reports that it closed, once.                       *)
SocketCloses == socket["client"] \notin up /\ ~told /\ told' = TRUE /\ StartLoop

(* startAckCheck found nothing received for ACK_TIMEOUT: the other end writes   *)
(* every KEEP_ALIVE_INTERVAL, so the socket is broken.                           *)
SilenceNoticed ==
    /\ unack["client"] # <<>> /\ socket["client"] \notin up
    /\ StartLoop /\ UNCHANGED told

(* reconnect: a socket is connected and replaces the one the client has then.   *)
Connect(l) ==
    LET s == socket["client"] + 1 IN
    /\ loop[l] < MaxAttempts /\ s \in Sockets
    /\ Replace("client", s)
    /\ loop' = [loop EXCEPT ![l] = Idle]
    /\ state' = "connected" /\ told' = FALSE
    /\ UNCHANGED <<up, fails>>

(* The next attempt, or the end of the loop.                                    *)
ConnectFails(l) ==
    /\ loop[l] < MaxAttempts /\ fails < MaxFails
    /\ fails' = fails + 1
    /\ loop' = [loop EXCEPT ![l] = IF @ + 1 = MaxAttempts THEN Idle ELSE @ + 1]
    /\ state' = IF loop[l] + 1 = MaxAttempts THEN "disconnected" ELSE state
    /\ UNCHANGED <<queues, links>>

(* The server is given a socket the client has connected.                        *)
Accept(s) ==
    /\ socket["server"] < s /\ s <= socket["client"]
    /\ Replace("server", s)
    /\ UNCHANGED <<up, told, reconnection>>
--------------------------------------------------------------------------------
Next ==
    \/ \E p \in Ends, size \in Sizes : Send(p, size)
    \/ \E p \in Ends : Receive(p)
    \/ \E p \in Ends : KeepAlive(p)
    \/ \E p \in Ends : GraceExpires(p)
    \/ \E s \in Sockets : Break(s)
    \/ SocketCloses
    \/ SilenceNoticed
    \/ \E l \in Loops : Connect(l)
    \/ \E l \in Loops : ConnectFails(l)
    \/ \E s \in Sockets : Accept(s)

(* The streams, the timers and the event loop go on; a broken socket is found  *)
(* out because keepAlive writes to it; no session is bound to be given up.      *)
Fairness ==
    /\ \A p \in Ends : WF_vars(Receive(p)) /\ WF_vars(KeepAlive(p))
    /\ WF_vars(SocketCloses)
    /\ \A l \in Loops : WF_vars(Connect(l) \/ ConnectFails(l))
    /\ WF_vars(Accept(socket["client"]))

Spec == Init /\ [][Next]_vars /\ Fairness
--------------------------------------------------------------------------------
(* Every variable has its type; the frames kept are numbered in a row up to the *)
(* last one sent.                                                                *)
Frames == [type : {"Regular", "KeepAlive", "Disconnect"}, id : Nat, ack : Nat, size : Nat]

TypeOK ==
    /\ socket \in [Ends -> Sockets] /\ up \subseteq Sockets /\ told \in BOOLEAN
    /\ wire \in [Sockets -> [Ends -> Seq(Frames)]]
    /\ outId \in [Ends -> Nat] /\ inAck \in [Ends -> Nat] /\ top \in [Ends -> Nat]
    /\ unack \in [Ends -> Seq(Frames)] /\ unackBytes \in [Ends -> Nat]
    /\ saturated \in [Ends -> BOOLEAN] /\ overflowed \in [Ends -> BOOLEAN]
    /\ closed \in [Ends -> BOOLEAN]
    /\ loop \in [Loops -> 0 .. Idle] /\ fails \in 0 .. MaxFails
    /\ state \in {"connected", "reconnecting", "disconnected"}
    /\ \A p \in Ends : \A i \in DOMAIN unack[p] :
          unack[p][i].id = outId[p] - Len(unack[p]) + i

(* No frame is lost between the queue and the other end: one that has left the *)
(* queue was handed to onMessage there, whatever sockets broke on the way and    *)
(* however far a replay set incomingAckId back.                                  *)
NothingLost ==
    \A p \in Ends : outId[p] - Len(unack[p]) <= top[Other(p)]

(* A replay begins where the other end stopped, or before: whatever is left of  *)
(* a stream, the next regular frame in it is one the other end has seen or the   *)
(* one after.                                                                    *)
NoGap ==
    \A p \in Ends, s \in Sockets : \A i \in DOMAIN wire[s][p] :
        wire[s][p][i].type = "Regular" =>
            \/ wire[s][p][i].id <= top[p] + 1
            \/ \E j \in 1 .. i - 1 : /\ wire[s][p][j].type = "Regular"
                                     /\ wire[s][p][j].id = wire[s][p][i].id - 1

(* The counter is the size of what is kept, and the layer above is told when to  *)
(* stop and when to go on: above the high mark it has been told to stop, unless   *)
(* the session ended with that very frame; at the low mark or under it, it is not *)
(* kept waiting.                                                                   *)
MarksAgree ==
    \A p \in Ends :
        /\ unackBytes[p] = Bytes(unack[p])
        /\ unackBytes[p] > HighWater => saturated[p] \/ overflowed[p]
        /\ saturated[p] => unackBytes[p] > LowWater

(* Each direction is a reliable pipe: send() numbers the frames, the other end  *)
(* gets them in order, and gets all of them unless the session is closed or the  *)
(* client has used up its attempts.                                              *)
Down == closed["client"] \/ closed["server"] \/ state = "disconnected"
ToServer == INSTANCE ReliablePipe WITH sent <- outId["client"], got <- top["server"], down <- Down
ToClient == INSTANCE ReliablePipe WITH sent <- outId["server"], got <- top["client"], down <- Down

ReliableBothWays == ToServer!PipeSpec /\ ToClient!PipeSpec

(* A sender that was told to stop is told to go on, unless the session ends.     *)
SaturationEnds == \A p \in Ends : saturated[p] ~> ~saturated[p] \/ Down
================================================================================
