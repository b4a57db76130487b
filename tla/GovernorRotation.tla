---------------------------- MODULE GovernorRotation ----------------------------
(***************************************************************************)
(* The governor with a history variable for the promise of its queues: "a  *)
(* large fan-out cannot starve the small run that comes later" (comment on *)
(* Bucket.queues).                                                         *)
(***************************************************************************)
EXTENDS ConcurrencyGovernor

CONSTANT BypassBound       \* grants to other runs are counted up to here

ASSUME RotationAssumption == BypassBound \in Nat /\ IsFiniteSet(Runs)

VARIABLE bypassed          \* grants to other runs since a run began to wait

rotationVars == <<vars, bypassed>>

Overtook(r) == \E a \in Granted : RunOf[a] \notin {r, Observer}

RotationInit == Init /\ bypassed = [r \in Runs |-> 0]

RotationNext ==
    /\ Next
    /\ bypassed' = [r \in Runs |->
            IF queues[r] = <<>> \/ (\E a \in Granted : RunOf[a] = r) THEN 0
            ELSE IF Overtook(r) THEN Smaller(BypassBound, bypassed[r] + 1)
            ELSE bypassed[r]]

RotationSpec == RotationInit /\ [][RotationNext]_rotationVars

RotationFairSpec == RotationSpec /\ Fairness
-----------------------------------------------------------------------------
\* Between two grants to a run that waits, the others are granted a bounded
\* number of times, however large their queues are and however often they leave
\* the rotation and re-enter it: once each in a round, and once more each time
\* the cursor falls back to the front because the run it named has left, which
\* makes at most n(n+1)/2 + n-1 grants for n other runs.  Aborts and grants to
\* the main agent move the cursor at will, so this holds in their absence.
RunsRotate ==
    LET n == Cardinality(Runs) - 1
    IN  \A r \in Runs : 2 * bypassed[r] <= Larger(0, n * (n + 3) - 2)
=============================================================================
