------------------------------ MODULE ReliablePipe ------------------------------
(***************************************************************************)
(* What a persistent protocol promises in one direction                    *)
(* (packages/rpc/src/persistent-protocol.ts, whose header says that a      *)
(* frame given to send() is never lost): frames are numbered as they are   *)
(* sent, and the other end gets each of them for the first time in that    *)
(* order.  What it gets again is no step of the pipe.  A pipe may be given *)
(* up for a while or for good; one that is not delivers everything.        *)
(***************************************************************************)
EXTENDS Naturals

VARIABLES
    sent,           \* frames 1 .. sent have been given to send()
    got,            \* frames 1 .. got have been handed to the other end
    down            \* the session has been given up

pipe == <<sent, got, down>>

PipeInit == sent = 0 /\ got = 0 /\ down = FALSE

Send == sent' = sent + 1 /\ UNCHANGED <<got, down>>

Get ==
    /\ got < sent
    /\ got' = got + 1
    /\ UNCHANGED <<sent, down>>

(* A session is given up in the same step as the frame that overflows it or  *)
(* the notice that is read; a connection may come back.                       *)
GiveUp == sent' \in {sent, sent + 1} /\ down' = TRUE /\ UNCHANGED got
ComeBack == down' = FALSE /\ UNCHANGED <<sent, got>>

PipeNext == Send \/ Get \/ GiveUp \/ ComeBack

PipeSafety == PipeInit /\ [][PipeNext]_pipe

PipeSpec == PipeSafety /\ WF_pipe(Get /\ ~down)
================================================================================
