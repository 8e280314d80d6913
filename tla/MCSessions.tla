----------------------------- MODULE MCSessions -----------------------------
(* One session, two processes and two requests in flight. *)
EXTENDS Sessions, TLC

CONSTANTS p1, p2, w1, w2, s1

MCProcesses == {p1, p2}
MCWorkers == {w1, w2}
MCSessionIds == {s1}

Symmetry == Permutations(MCProcesses) \union Permutations(MCWorkers)
=============================================================================
