---------------------------- MODULE WebhookDrain ----------------------------
(***************************************************************************)
(* The outgoing half of internal/platform/webhooks: the delivery rows, the  *)
(* drain loops of the running processes, the operator who replays, and the  *)
(* receivers behind the endpoints.                                          *)
(*                                                                          *)
(* Time is kept only as far as "is the row due?".  Of an attempt's outcome  *)
(* what counts is whether the receiver took the event and what the sender   *)
(* learnt of it.                                                            *)
(***************************************************************************)
EXTENDS Naturals, FiniteSets

CONSTANTS
    Deliveries,     \* the rows that may be queued, one per (endpoint, event)
    Endpoints,
    EndpointOf,     \* Delivery.EndpointID
    Drainers,       \* the processes that run RunDrainLoop
    MaxAttempts,
    BatchSize,      \* the limit DrainOnce is called with
    NoDelivery,
    MaxFaults,      \* bound: lost passes and failed endpoint reads
    MaxReplays,     \* bound: calls of Replay and ReplayEndpoint
    MaxEdits        \* bound: changes made to endpoints

ASSUME WebhookDrainAssumption ==
    /\ EndpointOf \in [Deliveries -> Endpoints]
    /\ MaxAttempts \in Nat \ {0}
    /\ BatchSize \in Nat \ {0}
    /\ NoDelivery \notin Deliveries
    /\ MaxFaults \in Nat /\ MaxReplays \in Nat /\ MaxEdits \in Nat

VARIABLES
    status,         \* Delivery.Status, "none" before Enqueue wrote the row
    attempts,       \* Delivery.Attempts
    reason,         \* what LastError says
    due,            \* the rows whose NextAttemptAt is in the past
    endpoint,       \* "active", "paused" (Active is false) or "deleted"
    pc,             \* where each drainer stands in DrainOnce, "off" when it is not deployed
    batch,          \* the deliveries DrainOnce read and has not handled
    copy,           \* the attempts of those rows, as they were read
    result,         \* the delivery as Advance left it, about to be saved
    todo,           \* the deliveries the operator still has to replay
    replaying,      \* the one Replay has read and not yet written
    accepted,       \* how often the receiver took the delivery (history)
    unconfirmed,    \* how often that was never recorded (history)
    raced,          \* the deliveries two actors held at once (history)
    faults, replays, edits

rowVars == <<status, attempts, reason, due>>
drainVars == <<pc, batch, copy, result>>
replayVars == <<todo, replaying, replays>>
worldVars == <<accepted, unconfirmed, raced>>
vars == <<rowVars, drainVars, replayVars, worldVars, endpoint, faults, edits>>

Status == {"none", "pending", "delivered", "dead"}
Reasons == {"none", "gone", "refused", "retry"}

\* A delivery under way in DrainOnce: its key and the columns save will write.
Row(k, s, n, why) == [key |-> k, status |-> s, attempts |-> n, reason |-> why]
Idle == Row(NoDelivery, "pending", 0, "none")
Results == [key : Deliveries \cup {NoDelivery}, status : {"pending", "delivered", "dead"},
            attempts : Nat, reason : Reasons]

TypeOK ==
    /\ status \in [Deliveries -> Status]
    /\ attempts \in [Deliveries -> Nat]
    /\ reason \in [Deliveries -> Reasons]
    /\ due \in SUBSET Deliveries
    /\ endpoint \in [Endpoints -> {"active", "paused", "deleted"}]
    /\ pc \in [Drainers -> {"off", "idle", "next", "post", "save"}]
    /\ batch \in [Drainers -> SUBSET Deliveries]
    /\ copy \in [Drainers -> [Deliveries -> Nat]]
    /\ result \in [Drainers -> Results]
    /\ todo \in SUBSET Deliveries
    /\ replaying \in Deliveries \cup {NoDelivery}
    /\ accepted \in [Deliveries -> Nat]
    /\ unconfirmed \in [Deliveries -> Nat]
    /\ raced \in SUBSET Deliveries
    /\ faults \in Nat /\ replays \in Nat /\ edits \in Nat

\* Rows may be queued from before, by processes that are gone; some of the bounds
\* may be used up.
Init ==
    /\ status \in [Deliveries -> {"none", "pending"}]
    /\ attempts = [k \in Deliveries |-> 0]
    /\ reason = [k \in Deliveries |-> "none"]
    /\ due = {k \in Deliveries : status[k] = "pending"}
    /\ endpoint \in [Endpoints -> {"active", "paused", "deleted"}]
    /\ pc \in [Drainers -> {"off", "idle"}]
    /\ batch = [d \in Drainers |-> {}]
    /\ copy = [d \in Drainers |-> [k \in Deliveries |-> 0]]
    /\ result = [d \in Drainers |-> Idle]
    /\ todo = {} /\ replaying = NoDelivery
    /\ accepted = [k \in Deliveries |-> 0]
    /\ unconfirmed = [k \in Deliveries |-> 0]
    /\ raced = {}
    /\ faults \in 0..MaxFaults /\ replays \in 0..MaxReplays /\ edits = 0

-----------------------------------------------------------------------------
(* The queue and its clock.                                                 *)

\* The row of an event for an endpoint, due at once.  A second Create for the
\* same endpoint and event is a duplicate key.
createRow(k) ==
    /\ status[k] = "none"
    /\ status' = [status EXCEPT ![k] = "pending"]
    /\ due' = due \cup {k}
    /\ UNCHANGED <<attempts, reason, endpoint, drainVars, replayVars, worldVars, faults, edits>>

\* Enqueue, as far as this module goes: rows appear for endpoints that are
\* active when they are listed.
Enqueue(k) == endpoint[EndpointOf[k]] = "active" /\ createRow(k)

\* The row's NextAttemptAt passes.
Elapse(k) ==
    /\ status[k] = "pending" /\ k \notin due
    /\ due' = due \cup {k}
    /\ UNCHANGED <<status, attempts, reason, endpoint, drainVars, replayVars, worldVars,
                   faults, edits>>

-----------------------------------------------------------------------------
(* DrainOnce, as RunDrainLoop calls it on every tick.                       *)

\* Some pass has read the delivery and not yet handled it.
Drained(k) == \E d \in Drainers : k \in batch[d]

\* What a pass over the rows of ready starts with.  The query has no order, so
\* the limit keeps any BatchSize of them.
pick(d, ready) ==
    /\ pc[d] = "idle"
    /\ \E picked \in SUBSET ready :
         /\ picked # {}
         /\ picked = ready \/ Cardinality(picked) = BatchSize
         /\ Cardinality(picked) <= BatchSize
         /\ batch' = [batch EXCEPT ![d] = picked]
         /\ copy' = [copy EXCEPT ![d] =
                       [k \in Deliveries |-> IF k \in picked THEN attempts[k] ELSE 0]]
         /\ raced' = raced \cup {k \in picked : k = replaying \/ Drained(k)}
    /\ pc' = [pc EXCEPT ![d] = "next"]
    /\ UNCHANGED <<result, rowVars, replayVars, accepted, unconfirmed, endpoint, faults, edits>>

\* Mutants: the query forgets the status (breaks DuplicatesAreExplained
\* and UnracedIsFinal); it misses the retries (breaks
\* EventsSettle).
findDueAnyStatus(d) == pick(d, {k \in Deliveries : status[k] # "none" /\ k \in due})
findDueFirstOnly(d) ==
    pick(d, {k \in Deliveries : status[k] = "pending" /\ k \in due /\ attempts[k] = 0})

\* The one query of a pass: the pending deliveries that are due.
findDue(d) == pick(d, {k \in Deliveries : status[k] = "pending" /\ k \in due})

\* The pass is over.
drained(d) ==
    /\ pc[d] = "next" /\ batch[d] = {}
    /\ pc' = [pc EXCEPT ![d] = "idle"]
    /\ UNCHANGED <<batch, copy, result, rowVars, replayVars, worldVars, endpoint, faults, edits>>

\* The next delivery's endpoint is read: it will be posted to, active or not.
readEndpoint(d, k) ==
    /\ pc[d] = "next" /\ k \in batch[d]
    /\ endpoint[EndpointOf[k]] # "deleted"
    /\ result' = [result EXCEPT ![d] = Row(k, "pending", copy[d][k], "none")]
    /\ pc' = [pc EXCEPT ![d] = "post"]
    /\ UNCHANGED <<batch, copy, rowVars, replayVars, worldVars, endpoint, faults, edits>>

\* The read of the endpoint returns an error: the delivery is dead.
deadLetter(d, k) ==
    /\ pc[d] = "next" /\ k \in batch[d]
    /\ result' = [result EXCEPT ![d] = Row(k, "dead", copy[d][k], "gone")]
    /\ pc' = [pc EXCEPT ![d] = "save"]

\* ... because the endpoint was deleted,
endpointGone(d, k) ==
    /\ endpoint[EndpointOf[k]] = "deleted"
    /\ deadLetter(d, k)
    /\ UNCHANGED <<batch, copy, rowVars, replayVars, worldVars, endpoint, faults, edits>>

\* ... or because the store failed to answer.
endpointUnread(d, k) ==
    /\ endpoint[EndpointOf[k]] # "deleted"
    /\ faults < MaxFaults /\ faults' = faults + 1
    /\ deadLetter(d, k)
    /\ UNCHANGED <<batch, copy, rowVars, replayVars, worldVars, endpoint, edits>>

\* Mutants: a refusal counts as delivered (breaks DeliveredWasAccepted); an
\* exhausted delivery gets a status nobody knows (breaks PipelineTypeOK).
AdvanceIgnoresRefusal(r, outcome) ==
    [r EXCEPT !.attempts = @ + 1, !.reason = IF outcome = "retry" THEN outcome ELSE "none",
              !.status = CASE outcome # "retry" -> "delivered"
                           [] r.attempts + 1 >= MaxAttempts -> "dead"
                           [] OTHER -> "pending"]
AdvanceUnknown(r, outcome) ==
    [r EXCEPT !.attempts = @ + 1, !.reason = outcome,
              !.status = IF outcome = "none" THEN "delivered" ELSE "failed"]

\* Advance: what an outcome makes of a delivery.
Advance(r, outcome) ==
    LET n == r.attempts + 1
        dead == outcome = "refused" \/ n >= MaxAttempts
    IN  IF outcome = "none" THEN Row(r.key, "delivered", n, "none")
        ELSE Row(r.key, IF dead THEN "dead" ELSE "pending", n, outcome)

\* Attempt posts, and Advance works on the copy DrainOnce holds.  The receiver
\* takes the event and its answer arrives, or the answer is lost; or it does
\* not take it, for a passing reason ("retry") or for good ("refused").
Attempt(d) ==
    LET r == result[d]
        k == r.key
    IN  /\ pc[d] = "post"
        /\ \/ /\ result' = [result EXCEPT ![d] = Advance(r, "none")]
              /\ accepted' = [accepted EXCEPT ![k] = @ + 1]
              /\ UNCHANGED <<unconfirmed, faults>>
           \/ /\ faults < MaxFaults /\ faults' = faults + 1
              /\ result' = [result EXCEPT ![d] = Advance(r, "retry")]
              /\ accepted' = [accepted EXCEPT ![k] = @ + 1]
              /\ unconfirmed' = [unconfirmed EXCEPT ![k] = @ + 1]
           \/ /\ \E outcome \in {"retry", "refused"} :
                   result' = [result EXCEPT ![d] = Advance(r, outcome)]
              /\ UNCHANGED <<accepted, unconfirmed, faults>>
        /\ pc' = [pc EXCEPT ![d] = "save"]
        /\ UNCHANGED <<batch, copy, rowVars, replayVars, raced, endpoint, edits>>

\* save writes every column from the copy, whatever the row holds by now.  Only
\* a retry has moved NextAttemptAt.
save(d) ==
    LET r == result[d]
    IN  /\ pc[d] = "save"
        /\ status' = [status EXCEPT ![r.key] = r.status]
        /\ attempts' = [attempts EXCEPT ![r.key] = r.attempts]
        /\ reason' = [reason EXCEPT ![r.key] = r.reason]
        /\ due' = IF r.status = "pending" THEN due \ {r.key} ELSE due \cup {r.key}
        /\ batch' = [batch EXCEPT ![d] = @ \ {r.key}]
        /\ copy' = [copy EXCEPT ![d][r.key] = 0]
        /\ result' = [result EXCEPT ![d] = Idle]
        /\ pc' = [pc EXCEPT ![d] = "next"]
        /\ UNCHANGED <<replayVars, worldVars, endpoint, faults, edits>>

\* The process crashes or is shut down, or save fails and DrainOnce returns its
\* error: the rest of the pass is dropped, and an answer not saved is lost.
passLost(d) ==
    LET r == result[d]
    IN  /\ pc[d] \notin {"off", "idle"}
        /\ faults < MaxFaults /\ faults' = faults + 1
        /\ unconfirmed' = IF r.status = "delivered" THEN [unconfirmed EXCEPT ![r.key] = @ + 1] ELSE unconfirmed
        /\ pc' = [pc EXCEPT ![d] = "idle"]
        /\ batch' = [batch EXCEPT ![d] = {}]
        /\ copy' = [copy EXCEPT ![d] = [k \in Deliveries |-> 0]]
        /\ result' = [result EXCEPT ![d] = Idle]
        /\ UNCHANGED <<rowVars, replayVars, accepted, raced, endpoint, edits>>

-----------------------------------------------------------------------------
(* The operator: Replay and ReplayEndpoint.                                 *)

Replay(k) ==
    /\ replays < MaxReplays /\ replays' = replays + 1
    /\ todo = {} /\ replaying = NoDelivery
    /\ status[k] # "none"
    /\ todo' = {k}
    /\ UNCHANGED <<replaying, rowVars, drainVars, worldVars, endpoint, faults, edits>>

\* ReplayEndpoint lists the dead deliveries of the endpoint and replays each.
ReplayEndpoint(e) ==
    /\ replays < MaxReplays /\ replays' = replays + 1
    /\ todo = {} /\ replaying = NoDelivery
    /\ todo' = {k \in Deliveries : EndpointOf[k] = e /\ status[k] = "dead"}
    /\ UNCHANGED <<replaying, rowVars, drainVars, worldVars, endpoint, faults, edits>>

\* Replay reads the delivery; one that was delivered is an error, which also
\* ends ReplayEndpoint.
readDelivery(k) ==
    /\ replaying = NoDelivery /\ k \in todo
    /\ IF status[k] = "delivered"
         THEN todo' = {} /\ UNCHANGED replaying
         ELSE replaying' = k /\ UNCHANGED todo
    /\ raced' = IF Drained(k) THEN raced \cup {k} ELSE raced
    /\ UNCHANGED <<replays, rowVars, drainVars, accepted, unconfirmed, endpoint, faults, edits>>

\* Mutant: the attempt count is carried forward (breaks RowsAgree).
requeueKeepsAttempts ==
    /\ replaying # NoDelivery
    /\ status' = [status EXCEPT ![replaying] = "pending"]
    /\ due' = due \cup {replaying}
    /\ todo' = todo \ {replaying}
    /\ replaying' = NoDelivery
    /\ UNCHANGED <<attempts, reason, replays, drainVars, worldVars, endpoint, faults, edits>>

\* ... and writes it, by its ID alone.
requeue ==
    /\ replaying # NoDelivery
    /\ status' = [status EXCEPT ![replaying] = "pending"]
    /\ attempts' = [attempts EXCEPT ![replaying] = 0]
    /\ reason' = [reason EXCEPT ![replaying] = "none"]
    /\ due' = due \cup {replaying}
    /\ todo' = todo \ {replaying}
    /\ replaying' = NoDelivery
    /\ UNCHANGED <<replays, drainVars, worldVars, endpoint, faults, edits>>

\* A store call of the replay fails, or its caller goes away: the rest of
\* ReplayEndpoint is dropped.
replayLost ==
    /\ todo # {}
    /\ faults < MaxFaults /\ faults' = faults + 1
    /\ todo' = {} /\ replaying' = NoDelivery
    /\ UNCHANGED <<replays, rowVars, drainVars, worldVars, endpoint, edits>>

-----------------------------------------------------------------------------
(* UpdateEndpoint's Active, and DeleteEndpoint.  An update of no row, or to   *)
(* what the row holds, changes nothing.                                       *)

change(e, to) ==
    /\ edits < MaxEdits /\ edits' = edits + 1
    /\ endpoint[e] \notin {to, "deleted"}
    /\ endpoint' = [endpoint EXCEPT ![e] = to]
    /\ UNCHANGED <<rowVars, drainVars, replayVars, worldVars, faults>>

UpdateEndpoint(e, active) == change(e, IF active THEN "active" ELSE "paused")

\* The endpoint's deliveries stay.
DeleteEndpoint(e) == change(e, "deleted")

-----------------------------------------------------------------------------
Drain(d) ==
    \/ findDue(d) \/ drained(d) \/ Attempt(d) \/ save(d)
    \/ \E k \in Deliveries : readEndpoint(d, k) \/ endpointGone(d, k)

ReplayStep == requeue \/ \E k \in Deliveries : readDelivery(k)

\* Everything but Enqueue.
QueueNext ==
    \/ \E k \in Deliveries : Elapse(k) \/ Replay(k)
    \/ \E d \in Drainers : Drain(d) \/ passLost(d) \/ \E k \in Deliveries : endpointUnread(d, k)
    \/ ReplayStep \/ replayLost
    \/ \E e \in Endpoints :
         ReplayEndpoint(e) \/ DeleteEndpoint(e) \/ \E a \in BOOLEAN : UpdateEndpoint(e, a)

Next == QueueNext \/ \E k \in Deliveries : Enqueue(k)

Spec == Init /\ [][Next]_vars

\* The ticker keeps calling DrainOnce, and time passes.
Fairness ==
    /\ \A d \in Drainers : WF_vars(Drain(d))
    /\ \A k \in Deliveries : WF_vars(Elapse(k))

-----------------------------------------------------------------------------
(* Properties.                                                              *)

\* A row marked delivered was taken by the receiver at least once, however many
\* processes drain and however stale the copies are that they save.
DeliveredWasAccepted == \A k \in Deliveries : status[k] = "delivered" => accepted[k] > 0

\* The columns of a row agree, whoever wrote them last: a pending row has an
\* attempt left, and a dead one was refused, lost its endpoint or used up its
\* attempts.
RowsAgree == \A k \in Deliveries :
    /\ status[k] = "pending" => attempts[k] < MaxAttempts
    /\ status[k] = "dead" =>
         \/ reason[k] \in {"gone", "refused"}
         \/ reason[k] = "retry" /\ attempts[k] >= MaxAttempts

\* The acceptances of k whose answer a drainer holds and has not saved.
Held(k) == Cardinality({d \in Drainers : result[d].status = "delivered" /\ result[d].key = k})

\* A receiver sees a delivery twice only after an acceptance that was never
\* recorded (its answer was lost, or the process was, between the answer and the
\* save), or after two actors held the row at once.
DuplicatesAreExplained == \A k \in Deliveries \ raced :
    accepted[k] = unconfirmed[k] + Held(k) + (IF status[k] = "delivered" THEN 1 ELSE 0)

\* Delivered is final for every row that only one actor held at a time, although
\* neither save nor Replay looks at the status it overwrites.
UnracedIsFinal ==
    [][\A k \in Deliveries \ raced' : status[k] = "delivered" => status'[k] = "delivered"]_vars

\* StatusDelivered: "acknowledged by the receiver. Terminal."  Two passes over
\* the same row, or a pass and a replay, break it.
DeliveredIsFinal ==
    [][\A k \in Deliveries : status[k] = "delivered" => status'[k] = "delivered"]_vars
=============================================================================
