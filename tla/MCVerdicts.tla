------------------------------ MODULE MCVerdicts ------------------------------
\* A fan-out run A with two subagents, a small run B with one, and the main agent.
EXTENDS GovernorVerdicts

CONSTANTS a1, a2, b1, main, A, B

MCAgents == {a1, a2, b1, main}

MCRuns == {A, B}

MCRunOf ==
    [a \in MCAgents |-> CASE a \in {a1, a2} -> A
                          [] a = b1 -> B
                          [] a = main -> Observer]

ShortRetryAfters == {0, 1}

LongRetryAfters == {0, 2}
===============================================================================
