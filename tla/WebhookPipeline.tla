-------------------------- MODULE WebhookPipeline --------------------------
(***************************************************************************)
(* From a published event to a settled delivery: the event stream, the       *)
(* workers that run Runner.Enqueue as its handler (consumer.go), and the     *)
(* queue they feed (WebhookDrain).                                           *)
(*                                                                           *)
(* A delivery is one (endpoint, event) pair that the endpoint's Events wants;*)
(* eventIdentity makes the pair the same on every redelivery.                *)
(***************************************************************************)
EXTENDS WebhookDrain

CONSTANTS Messages, Workers, NoMessage,
    EventOf         \* the message a delivery is about

ASSUME PipelineAssumption ==
    /\ EventOf \in [Deliveries -> Messages]
    /\ NoMessage \notin Messages

VARIABLES
    message, holding,
    stage,          \* where each worker stands in Enqueue
    listed,         \* the rows it still has to create
    touched         \* the endpoints that were not active all along (history)

Stream == INSTANCE EventStream WITH Parseable <- Messages

intakeVars == <<message, holding, stage, listed, touched>>
pipelineVars == <<vars, intakeVars>>

PipelineTypeOK ==
    /\ TypeOK
    /\ Stream!TypeOK
    /\ stage \in [Workers -> {"idle", "list", "create"}]
    /\ listed \in [Workers -> SUBSET Deliveries]
    /\ touched \subseteq Endpoints

\* The rows from before are those of events acknowledged before.
PipelineInit ==
    /\ Init
    /\ message \in [Messages -> {"unpublished", "acked"}]
    /\ holding = [w \in Workers |-> NoMessage]
    /\ \A k \in Deliveries :
         status[k] = "pending" <=>
             message[EventOf[k]] = "acked" /\ endpoint[EndpointOf[k]] = "active"
    /\ stage = [w \in Workers |-> "idle"]
    /\ listed = [w \in Workers |-> {}]
    /\ touched = {e \in Endpoints : endpoint[e] # "active"}

-----------------------------------------------------------------------------
Publish(m) == Stream!Publish(m) /\ UNCHANGED <<vars, stage, listed, touched>>

AckWait(m) == Stream!AckWait(m) /\ UNCHANGED <<vars, stage, listed, touched>>

\* handleDelivery begins.
receive(w, m) ==
    /\ Stream!Deliver(w, m)
    /\ stage' = [stage EXCEPT ![w] = "list"]
    /\ UNCHANGED <<vars, listed, touched>>

\* Enqueue reads the active endpoints once and keeps those that want the event.
listEndpoints(w) ==
    /\ stage[w] = "list"
    /\ stage' = [stage EXCEPT ![w] = "create"]
    /\ listed' = [listed EXCEPT ![w] =
         {k \in Deliveries : EventOf[k] = holding[w] /\ endpoint[EndpointOf[k]] = "active"}]
    /\ UNCHANGED <<vars, message, holding, touched>>

\* One Create of the loop.
enqueueRow(w, k) ==
    /\ stage[w] = "create" /\ k \in listed[w]
    /\ listed' = [listed EXCEPT ![w] = @ \ {k}]
    /\ createRow(k)
    /\ UNCHANGED <<message, holding, stage, touched>>

\* Mutant: a duplicate ends the loop (breaks AckedIsQueued).
enqueueDuplicateReturns(w, k) ==
    /\ stage[w] = "create" /\ k \in listed[w]
    /\ status[k] # "none"
    /\ listed' = [listed EXCEPT ![w] = {}]
    /\ UNCHANGED <<vars, message, holding, stage, touched>>

\* ... which is skipped when the row is already there.
enqueueDuplicate(w, k) ==
    /\ stage[w] = "create" /\ k \in listed[w]
    /\ status[k] # "none"
    /\ listed' = [listed EXCEPT ![w] = @ \ {k}]
    /\ UNCHANGED <<vars, message, holding, stage, touched>>

\* The worker leaves Enqueue.
leave(w) ==
    /\ stage' = [stage EXCEPT ![w] = "idle"]
    /\ listed' = [listed EXCEPT ![w] = {}]

\* Every row is there: Enqueue returns nil and the callback acknowledges.
queued(w) ==
    /\ stage[w] = "create" /\ listed[w] = {}
    /\ leave(w) /\ Stream!Ack(w)
    /\ UNCHANGED <<vars, touched>>

\* The Find or a Create fails: Enqueue returns the error with the rows created so
\* far in place, and the callback refuses the message.
enqueueFails(w) ==
    /\ stage[w] # "idle"
    /\ faults < MaxFaults /\ faults' = faults + 1
    /\ leave(w) /\ Stream!Nak(w)
    /\ UNCHANGED <<rowVars, drainVars, replayVars, worldVars, endpoint, edits, touched>>

\* The process dies between two calls, or its acknowledgement is lost.
workerCrash(w) ==
    /\ faults < MaxFaults /\ faults' = faults + 1
    /\ leave(w) /\ Stream!Crash(w)
    /\ UNCHANGED <<rowVars, drainVars, replayVars, worldVars, endpoint, edits, touched>>

-----------------------------------------------------------------------------
Intake(w) ==
    \/ listEndpoints(w) \/ queued(w)
    \/ \E k \in Deliveries : enqueueRow(w, k) \/ enqueueDuplicate(w, k)

PipelineNext ==
    \/ \E m \in Messages : Publish(m) \/ AckWait(m) \/ \E w \in Workers : receive(w, m)
    \/ \E w \in Workers : Intake(w) \/ enqueueFails(w) \/ workerCrash(w)
    \/ /\ QueueNext
       /\ touched' = touched \cup {e \in Endpoints : endpoint'[e] # endpoint[e]}
       /\ UNCHANGED <<message, holding, stage, listed>>

\* The server redelivers, and the callbacks run.
PipelineFairness ==
    /\ Fairness
    /\ \A w \in Workers : WF_pipelineVars(Intake(w))
    /\ \A m \in Messages :
         WF_pipelineVars(AckWait(m)) /\ WF_pipelineVars(\E w \in Workers : receive(w, m))

PipelineSpec == PipelineInit /\ [][PipelineNext]_pipelineVars /\ PipelineFairness

-----------------------------------------------------------------------------
(* Properties.                                                              *)

\* An acknowledged event has its row for every endpoint that wanted it and was
\* active all along: a crash, a failed Create or a redelivery that overlaps the
\* first delivery leaves none out.
AckedIsQueued == \A k \in Deliveries :
    (message[EventOf[k]] = "acked" /\ EndpointOf[k] \notin touched) => status[k] # "none"

\* Every published event is settled for all endpoints that wanted it: delivered or
\* given up, although each pass of the drain takes only BatchSize rows in no order.
EventsSettle == \A m \in Messages :
    (message[m] = "waiting") ~>
        \A k \in Deliveries : EventOf[k] = m =>
            (status[k] \in {"delivered", "dead"} \/ EndpointOf[k] \in touched)
=============================================================================
