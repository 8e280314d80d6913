----------------------------- MODULE SagaPromise -----------------------------
(***************************************************************************)
(* What a saga promises to whoever started it, crashes and recoveries       *)
(* included: effects commit one after the other; after the saga has turned  *)
(* back nothing commits any more and every undoable effect is tried in      *)
(* reverse order; the saga ends only when all are in place, or all that     *)
(* can be undone was tried.                                                 *)
(***************************************************************************)
EXTENDS Naturals

CONSTANTS
    N,          \* the number of steps
    Undoable    \* the steps that can be undone

VARIABLES
    phase,      \* the saga's status
    live,       \* the steps whose effect is in place
    tried       \* of those, the ones whose undo began, or that are given up

pvars == <<phase, live, tried>>

Init == phase = "none" /\ live = {} /\ tried = {}

Begin ==
    /\ phase = "none"
    /\ phase' = "running"
    /\ UNCHANGED <<live, tried>>

Commit(i) ==
    /\ phase = "running"
    /\ live = 1..i-1
    /\ live' = 1..i
    /\ UNCHANGED <<phase, tried>>

Complete ==
    /\ phase = "running"
    /\ live = 1..N
    /\ phase' = "completed"
    /\ UNCHANGED <<live, tried>>

\* The step that failed may be the last that committed: an earlier, interrupted
\* entry of it did.  It is given up.
TurnBack ==
    /\ phase = "running"
    /\ phase' = "compensating"
    /\ \/ tried' = {}
       \/ \E i \in 1..N : live = 1..i /\ tried' = {i}
    /\ UNCHANGED live

Try(i) ==
    /\ phase = "compensating"
    /\ i \in Undoable \cap (live \ tried)
    /\ \A j \in Undoable \cap live : j > i => j \in tried
    /\ tried' = tried \cup {i}
    /\ UNCHANGED <<phase, live>>

Undo(i) ==
    /\ phase = "compensating"
    /\ i \in tried
    /\ \A j \in tried : j >= i
    /\ live' = live \ {i}
    /\ tried' = tried \ {i}
    /\ UNCHANGED phase

End ==
    /\ phase = "compensating"
    /\ Undoable \cap live \subseteq tried
    /\ \/ phase' = "compensated"
       \/ phase' = "failed" /\ tried # {}
    /\ UNCHANGED <<live, tried>>

Next ==
    \/ Begin \/ Complete \/ TurnBack \/ End
    \/ \E i \in 1..N : Commit(i) \/ Try(i) \/ Undo(i)

Spec == Init /\ [][Next]_pvars
=============================================================================
