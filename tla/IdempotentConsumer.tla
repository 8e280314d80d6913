------------------------- MODULE IdempotentConsumer -------------------------
(***************************************************************************)
(* A module's event handler that runs its work under modulekit.Idempotent,   *)
(* on a durable consumer that several processes share.                       *)
(*                                                                           *)
(* The transaction's isolation is the store's: an insert of a key that       *)
(* another open transaction has inserted waits for that transaction to end,  *)
(* and what a transaction wrote is seen by others once it commits.           *)
(***************************************************************************)
EXTENDS Naturals

CONSTANTS Messages, Parseable, Workers, NoMessage,
    MaxFaults,      \* bound: crashes, failed handlers and failed commits
    MaxForgets      \* bound: calls of ForgetProcessed

ASSUME IdempotentAssumption ==
    /\ Parseable \subseteq Messages
    /\ NoMessage \notin Messages
    /\ MaxFaults \in Nat /\ MaxForgets \in Nat

VARIABLES
    message, holding,
    tx,             \* where each worker's transaction stands
    marker,         \* the committed rows of modulekit_processed_events
    applied,        \* how often the handler's work was committed (history)
    forgotten,      \* how often the marker was removed (history)
    faults

Stream == INSTANCE EventStream

vars == <<message, holding, tx, marker, applied, forgotten, faults>>

TypeOK ==
    /\ Stream!TypeOK
    /\ tx \in [Workers -> {"none", "claim", "handle", "acknowledge"}]
    /\ marker \in SUBSET Messages
    /\ applied \in [Messages -> Nat]
    /\ forgotten \in [Messages -> Nat]
    /\ faults \in Nat

Init ==
    /\ Stream!Init
    /\ tx = [w \in Workers |-> "none"]
    /\ marker = {}
    /\ applied = [m \in Messages |-> 0]
    /\ forgotten = [m \in Messages |-> 0]
    /\ faults = 0

db == <<marker, applied, forgotten>>

-----------------------------------------------------------------------------
Publish(m) == Stream!Publish(m) /\ UNCHANGED <<tx, db, faults>>

AckWait(m) == Stream!AckWait(m) /\ UNCHANGED <<tx, db, faults>>

\* The callback begins; for a subject that parses the handler opens the
\* transaction.
receive(w, m) ==
    /\ Stream!Deliver(w, m)
    /\ tx' = [tx EXCEPT ![w] = IF m \in Parseable THEN "claim" ELSE "none"]
    /\ UNCHANGED <<db, faults>>

terminate(w) ==
    /\ holding[w] # NoMessage
    /\ Stream!Term(w)
    /\ UNCHANGED <<tx, db, faults>>

\* The marker of m is inserted in an open transaction.
Claimed(m) == \E w \in Workers : tx[w] = "handle" /\ holding[w] = m

\* Mutants: a check instead of an insert, which waits for nobody (breaks
\* MarkerIsWork); a marker committed on its own (breaks AckedIsApplied).
claimByCheck(w) ==
    /\ tx[w] = "claim"
    /\ holding[w] \notin marker
    /\ tx' = [tx EXCEPT ![w] = "handle"]
    /\ UNCHANGED <<message, holding, db, faults>>
claimCommitted(w) ==
    /\ tx[w] = "claim"
    /\ holding[w] \notin marker
    /\ tx' = [tx EXCEPT ![w] = "handle"]
    /\ marker' = marker \cup {holding[w]}
    /\ UNCHANGED <<message, holding, applied, forgotten, faults>>

\* tx.Create of the marker.
claim(w) ==
    /\ tx[w] = "claim"
    /\ ~Claimed(holding[w])
    /\ holding[w] \notin marker
    /\ tx' = [tx EXCEPT ![w] = "handle"]
    /\ UNCHANGED <<message, holding, db, faults>>

\* Mutant: the duplicate is reported as a state nobody knows (breaks TypeOK).
duplicateUnknown(w) ==
    /\ tx[w] = "claim"
    /\ ~Claimed(holding[w])
    /\ holding[w] \in marker
    /\ tx' = [tx EXCEPT ![w] = "skipped"]
    /\ UNCHANGED <<message, holding, db, faults>>

\* ... which is a duplicate key: ErrDuplicateEvent, which the caller acknowledges.
duplicate(w) ==
    /\ tx[w] = "claim"
    /\ ~Claimed(holding[w])
    /\ holding[w] \in marker
    /\ tx' = [tx EXCEPT ![w] = "acknowledge"]
    /\ UNCHANGED <<message, holding, db, faults>>

\* handle's work and the marker become visible together.
Apply(m) ==
    /\ marker' = marker \cup {m}
    /\ applied' = [applied EXCEPT ![m] = @ + 1]
    /\ UNCHANGED forgotten

\* handle returned nil and the transaction commits.
commit(w) ==
    /\ tx[w] = "handle"
    /\ Apply(holding[w])
    /\ tx' = [tx EXCEPT ![w] = "acknowledge"]
    /\ UNCHANGED <<message, holding, faults>>

\* Idempotent returned nil or ErrDuplicateEvent.
acknowledge(w) ==
    /\ tx[w] = "acknowledge"
    /\ Stream!Ack(w)
    /\ tx' = [tx EXCEPT ![w] = "none"]
    /\ UNCHANGED <<db, faults>>

Fault == faults < MaxFaults /\ faults' = faults + 1

\* Mutant: the error is logged and the message acknowledged (breaks
\* EventuallyApplied).
handleFailsQuietly(w) ==
    /\ Fault
    /\ tx[w] \in {"claim", "handle"}
    /\ tx' = [tx EXCEPT ![w] = "none"]
    /\ Stream!Ack(w)
    /\ UNCHANGED db

\* Create or handle fails: the transaction is rolled back and the error returned.
handleFails(w) ==
    /\ Fault
    /\ tx[w] \in {"claim", "handle"}
    /\ tx' = [tx EXCEPT ![w] = "none"]
    /\ Stream!Nak(w)
    /\ UNCHANGED db

\* The commit went through and its answer was lost: Transact returns an error.
commitUnanswered(w) ==
    /\ Fault
    /\ tx[w] = "handle"
    /\ Apply(holding[w])
    /\ tx' = [tx EXCEPT ![w] = "none"]
    /\ Stream!Nak(w)

\* The process dies; an open transaction is rolled back.
crash(w) ==
    /\ Fault
    /\ Stream!Crash(w)
    /\ tx' = [tx EXCEPT ![w] = "none"]
    /\ UNCHANGED db

\* An operator lets the event run again.
ForgetProcessed(m) ==
    /\ m \in marker
    /\ forgotten[m] < MaxForgets
    /\ marker' = marker \ {m}
    /\ forgotten' = [forgotten EXCEPT ![m] = @ + 1]
    /\ UNCHANGED <<message, holding, tx, applied, faults>>

-----------------------------------------------------------------------------
Handle(w) == claim(w) \/ duplicate(w) \/ commit(w) \/ acknowledge(w) \/ terminate(w)

Next ==
    \/ \E m \in Messages :
         Publish(m) \/ AckWait(m) \/ ForgetProcessed(m) \/ \E w \in Workers : receive(w, m)
    \/ \E w \in Workers : Handle(w) \/ handleFails(w) \/ commitUnanswered(w) \/ crash(w)

Spec == Init /\ [][Next]_vars

\* The server redelivers, and the callbacks run.
FairSpec ==
    /\ Spec
    /\ \A w \in Workers : WF_vars(Handle(w))
    /\ \A m \in Messages : WF_vars(AckWait(m)) /\ WF_vars(\E w \in Workers : receive(w, m))

-----------------------------------------------------------------------------
(* What it promises.                                                        *)

\* How an event left the stream, as its publisher sees it.
Fate == [m \in Messages |->
    CASE message[m] = "acked" -> "settled"
      [] message[m] = "terminated" -> "dropped"
      [] OTHER -> "open"]

Promise == INSTANCE IdempotentPromise WITH inPlace <- marker, performed <- applied, fate <- Fate

-----------------------------------------------------------------------------
(* Properties.                                                              *)

\* IdempotentPromise: every commit, whoever makes it and however late, puts in place
\* work that is not there; an event leaves the stream undone only when its subject
\* does not parse, never because its handler failed or its worker died; and how it
\* left stays so, also when a slower delivery of it is refused or given up later.
PromiseSpec == Promise!Spec

\* Idempotent: the marker is there exactly when the work is.  The handler's work
\* is committed once per event, and once more for each time the event was
\* forgotten, under any overlap of deliveries, crashes and lost answers.
MarkerIsWork == \A m \in Messages :
    applied[m] = forgotten[m] + (IF m \in marker THEN 1 ELSE 0)

\* An acknowledged event had its work committed: ErrDuplicateEvent is never
\* acknowledged on behalf of a delivery that then fails.
AckedIsApplied == \A m \in Messages : message[m] = "acked" => applied[m] > 0

\* Every event whose subject parses is applied.
EventuallyApplied == \A m \in Parseable : (message[m] = "waiting") ~> (applied[m] > 0)
=============================================================================
