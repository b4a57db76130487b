--------------------------------- MODULE MCLock ---------------------------------
\* Two processes that start, stop and die, and files of a third that has died.
EXTENDS DataRootLock

CONSTANTS p1, p2, p3

MCProcs == {p1, p2, p3}

TwoProcs == {p1, p2}
================================================================================
