------------------------------- MODULE MCSupervisor -------------------------------
\* Two releases beside the bundled core, one crash before the budget is used up.
EXTENDS ServerSupervisor, FiniteSets

CONSTANTS r1, r2

MCReleases == {r1, r2}

\* Bounds: one kind of surprise in a behaviour and one core that outlives its
\* supervisor, not both at a time; after an early request nothing more is asked.
Orphans == {g \in Cores : runs[g] = Orphan}
OneSurprise == Cardinality(happened \ {"thrown"}) + Cardinality(Orphans) <= 1
EarlyIsLast == "early" \in happened /\ pc["op"] = "idle" => pc'["op"] = "idle"
================================================================================
