------------------------------ MODULE MCRotation ------------------------------
\* A fan-out run A with two subagents beside two small runs B and C, nobody else.
EXTENDS GovernorRotation

CONSTANTS a1, a2, b1, c1, A, B, C

MCAgents == {a1, a2, b1, c1}

MCRuns == {A, B, C}

MCRunOf == [a \in MCAgents |-> CASE a \in {a1, a2} -> A
                                 [] a = b1 -> B
                                 [] a = c1 -> C]

NoAborts == {}

OneRetryAfter == {1}
===============================================================================
