---------------------------- MODULE MCIdempotent ----------------------------
(* Two events and a message whose subject does not parse, two processes. *)
EXTENDS IdempotentConsumer

CONSTANTS m1, m2, m3, w1, w2

MCMessages == {m1, m2, m3}
MCParseable == {m1, m2}
MCWorkers == {w1, w2}
=============================================================================
