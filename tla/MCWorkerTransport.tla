------------------------- MODULE MCWorkerTransport -------------------------
(* The transport with two tasks, two workers one after the other, and two  *)
(* commands, one of which may be late when the other is sent.              *)
EXTENDS TransportInvariant

CONSTANTS t1, t2, p1, p2, c1, c2
MCTasks == {t1, t2}
MCChildren == {p1, p2}
MCCommands == {c1, c2}
============================================================================
