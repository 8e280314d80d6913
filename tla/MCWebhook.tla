----------------------------- MODULE MCWebhook -----------------------------
(***************************************************************************)
(* One event that two endpoints want, on two deployments: two processes      *)
(* consume it and one of them drains, one row per pass; or it was queued     *)
(* before for the one endpoint there is, and two processes drain it while an *)
(* operator replays.                                                         *)
(***************************************************************************)
EXTENDS WebhookPipeline

CONSTANTS k1, k2, e1, e2, d1, d2, w1, w2, m1

MCDeliveries == {k1, k2}
MCEndpoints == {e1, e2}
MCEndpointOf == [k \in MCDeliveries |-> IF k = k1 THEN e1 ELSE e2]
MCDrainers == {d1, d2}
MCWorkers == {w1, w2}
MCMessages == {m1}
MCEventOf == [k \in MCDeliveries |-> m1]

Consuming ==
    /\ message[m1] = "unpublished"
    /\ \A e \in Endpoints : endpoint[e] = "active"
    /\ pc[d1] = "idle" /\ pc[d2] = "off"
    /\ faults = MaxFaults - 1 /\ replays = MaxReplays

Draining ==
    /\ message[m1] = "acked"
    /\ endpoint[e1] = "active" /\ endpoint[e2] = "deleted"
    /\ pc[d1] = "idle" /\ pc[d2] = "idle"
    /\ faults = 0 /\ replays = 0

MCInit == PipelineInit /\ (Consuming \/ Draining)

MCSpec == MCInit /\ [][PipelineNext]_pipelineVars /\ PipelineFairness
=============================================================================
