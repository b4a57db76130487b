------------------------------ MODULE MCScheduler ------------------------------
(* AskScheduler on three subagents, the first of which is asked twice, and on *)
(* the first two of them for the liveness run.                                *)
EXTENDS AskScheduler, TLC

CONSTANTS a1, a2, a3, k1, k2, k3, k4

MCActors == {a1, a2, a3}
MCAsks == {k1, k2, k3, k4}
MCActorOf == (k1 :> a1) @@ (k2 :> a1) @@ (k3 :> a2) @@ (k4 :> a3)
MCRank == (a1 :> 1) @@ (a2 :> 2) @@ (a3 :> 3)

TwoActors == {a1, a2}
ThreeAsks == {k1, k2, k3}
TwoActorOf == (k1 :> a1) @@ (k2 :> a1) @@ (k3 :> a2)
TwoRank == (a1 :> 1) @@ (a2 :> 2)
===============================================================================
