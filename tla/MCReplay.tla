-------------------------------- MODULE MCReplay --------------------------------
(* WorkflowReplay with two and with three branches, started in that order. *)
EXTENDS WorkflowReplay, TLC

CONSTANTS b1, b2, b3

TwoBranches == {b1, b2}
TwoScript == <<b1, b2>>
TwoAlike == (b1 :> 0) @@ (b2 :> 0)

MCBranches == {b1, b2, b3}
MCScript == <<b1, b2, b3>>
Alike == TwoAlike @@ (b3 :> 0)
===============================================================================
