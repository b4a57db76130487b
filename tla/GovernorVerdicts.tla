---------------------------- MODULE GovernorVerdicts ----------------------------
(***************************************************************************)
(* The governor with history variables for what a provider's answers are   *)
(* evidence of: the cuts made while a request was in flight, and the       *)
(* Retry-After the provider asked for.                                     *)
(***************************************************************************)
EXTENDS ConcurrencyGovernor

VARIABLES
    sawCut,            \* a verdict has cut the cap since that ticket was granted
    retryAfter         \* time left of the longest Retry-After received

verdictVars == <<vars, sawCut, retryAfter>>

\* A verdict lowers the cap; the signal and the idle reset that may follow it
\* in drain() are one step here, so the verdict is read off the signal.
Verdict(a, ms) ==
    a \in Agents /\ Throttled(ctl, a, ms).cap < ctl.cap

VerdictInit ==
    /\ Init
    /\ sawCut = [a \in Agents |-> FALSE]
    /\ retryAfter = 0

RecordCut(cut) ==
    sawCut' = [a \in Agents |-> /\ req'[a] = "inflight"
                                /\ a \notin Granted
                                /\ (sawCut[a] \/ cut)]

VerdictNext ==
    \/ \E a \in Agents, ms \in RetryAfters :
        /\ Throttle(a, ms)
        /\ retryAfter' = Larger(retryAfter, ms)
        /\ RecordCut(Verdict(a, ms))
    \/ /\ \/ \E a \in Agents : \/ TryAcquire(a) \/ Acquire(a)
                               \/ AbortBeforeQueue(a) \/ Abort(a)
                               \/ ObserverAcquire(a)
                               \/ Complete(a) \/ FailTransient(a) \/ Release(a)
          \/ DrainGrant \/ DrainEnd \/ Wake
       /\ RecordCut(FALSE)
       /\ UNCHANGED retryAfter
    \/ /\ Tick
       /\ RecordCut(FALSE)
       /\ retryAfter' = Larger(0, retryAfter - 1)

VerdictSpec == VerdictInit /\ [][VerdictNext]_verdictVars
-----------------------------------------------------------------------------
\* One batch of requests triggers at most one verdict: a 429 for a request that
\* was already in flight when the cap was cut does not cut it again, however
\* many requests of the batch are throttled and in whatever order.
OneVerdictPerBatch ==
    [][\A a \in Agents, ms \in RetryAfters :
        Throttle(a, ms) /\ Verdict(a, ms) => ~sawCut[a]]_verdictVars

\* No waiter is admitted before the Retry-After the provider asked for is over.
RetryAfterHonoured ==
    [][\A a \in Granted : RunOf[a] # Observer => retryAfter = 0]_verdictVars
=============================================================================
