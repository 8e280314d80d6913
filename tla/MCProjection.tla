---------------------------- MODULE MCProjection ----------------------------
(* Two events of one key that may already have a row, two consuming processes  *)
(* and a rebuild.                                                              *)
EXTENDS Projection

CONSTANTS m1, m2, k1, w1, w2, r1

MCKeys == {k1}
MCMessages == {m1, m2}
MCKeyOf == [m \in MCMessages |-> k1]
MCSequenceOf == [m \in MCMessages |-> IF m = m1 THEN 2 ELSE 3]
MCWorkers == {w1, w2}
MCRebuilders == {r1}
=============================================================================
