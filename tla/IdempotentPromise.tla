-------------------------- MODULE IdempotentPromise --------------------------
(***************************************************************************)
(* What modulekit.Idempotent promises, redeliveries, crashes and lost       *)
(* answers included: an event's work is put in place only when it is not;   *)
(* it is put in place again only after somebody has forgotten it; an event  *)
(* leaves the stream for good, and with its work done unless its subject    *)
(* cannot be parsed.                                                        *)
(***************************************************************************)
EXTENDS Naturals

CONSTANTS
    Messages,
    Parseable   \* the events a handler is called for

VARIABLES
    inPlace,    \* the events whose work is in place
    performed,  \* how often the work of each event was done
    fate        \* how each event left the stream, or "open"

pvars == <<inPlace, performed, fate>>

Init ==
    /\ inPlace = {}
    /\ performed = [m \in Messages |-> 0]
    /\ fate = [m \in Messages |-> "open"]

Perform(m) ==
    /\ m \in Parseable \ inPlace
    /\ inPlace' = inPlace \cup {m}
    /\ performed' = [performed EXCEPT ![m] = @ + 1]
    /\ UNCHANGED fate

Forget(m) ==
    /\ m \in inPlace
    /\ inPlace' = inPlace \ {m}
    /\ UNCHANGED <<performed, fate>>

Leave(m, as) ==
    /\ fate[m] = "open"
    /\ fate' = [fate EXCEPT ![m] = as]
    /\ UNCHANGED <<inPlace, performed>>

Settle(m) == m \in Parseable /\ performed[m] > 0 /\ Leave(m, "settled")

Drop(m) == m \notin Parseable /\ Leave(m, "dropped")

Next == \E m \in Messages : Perform(m) \/ Forget(m) \/ Settle(m) \/ Drop(m)

Spec == Init /\ [][Next]_pvars
=============================================================================
