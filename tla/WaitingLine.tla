------------------------------ MODULE WaitingLine ------------------------------
(***************************************************************************)
(* What the queues of this code do with their arrays: a FIFO of waiters    *)
(* that a waiter may also leave from the middle (Array.splice), where      *)
(* nobody stands twice.                                                    *)
(***************************************************************************)
EXTENDS Integers, Sequences, FiniteSets

Elements(s) == {s[i] : i \in DOMAIN s}

\* Mutant of Without: pop() instead of splice().
WithoutLast(s, i) == SubSeq(s, 1, Len(s) - 1)

\* splice(i, 1), with the first index 1.
Without(s, i) ==
    [j \in 1 .. Len(s) - 1 |-> IF j < i THEN s[j] ELSE s[j + 1]]

\* findIndex: where x stands in s.
IndexOf(s, x) == CHOOSE i \in DOMAIN s : s[i] = x

\* filter: the elements of s that are in T, in their order.
Filtered(s, T) ==
    LET Upto(i) == Cardinality({j \in 1 .. i : s[j] \in T})
    IN  [n \in 1 .. Upto(Len(s)) |->
            s[CHOOSE i \in DOMAIN s : s[i] \in T /\ Upto(i) = n]]

Distinct(s) == \A i, j \in DOMAIN s : s[i] = s[j] => i = j
===============================================================================
