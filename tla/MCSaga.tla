------------------------------- MODULE MCSaga -------------------------------
(* Two processes and four steps: when the last one fails there are two to    *)
(* compensate, with one between them that has nothing to undo.               *)
EXTENDS Saga

CONSTANTS c1, c2

MCCoordinators == {c1, c2}
MCUndoable == {1, 3}
=============================================================================
