------------------------------- MODULE MCProtocol -------------------------------
\* The client sends two frames, the server one; two of three sockets may break.
EXTENDS PersistentProtocol

MCMaxSent == [p \in Ends |-> IF p = "client" THEN 2 ELSE 1]
================================================================================
