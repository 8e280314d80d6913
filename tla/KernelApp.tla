----------------------------- MODULE KernelApp -----------------------------
(***************************************************************************)
(* The life of the application (internal/app/bootstrap, sannad.go): modules  *)
(* are wired, started in order, serve requests, and are shut down one part   *)
(* at a time while requests are still in flight.                             *)
(***************************************************************************)
EXTENDS KernelCalls, TenantScope

CONSTANTS
    Wirings,        \* the sequences of registrations an entrypoint may make
    Clients,        \* the requests made: protocol and capability
    Issued,         \* the statements modules make
    Exempt,         \* auditExemptTables
    Unreadable,     \* tables the audit cannot read (all, when it does not run)
    Broker          \* whether a broker is configured

ASSUME IssuedAssumption == Issued \subseteq Statements

ASSUME WiringAssumption ==
    /\ Wirings \subseteq Seq(Modules)
    /\ Owned \subseteq Tables /\ OwnedModels \subseteq Tables
    /\ \A m \in Modules :
        /\ Catalogue[m].models \subseteq Tables
        /\ \A v \in DOMAIN Catalogue[m].schema : Catalogue[m].schema[v] \in Tables

VARIABLES
    todo,           \* registrations still to be made
    phase,
    up,             \* modules started and not stopped
    left,           \* modules StopAll, or the rollback of StartAll, has yet to stop
    built,          \* the servers exist
    drain,          \* the webhook drain loop
    consumer,       \* the webhook subscription
    findings        \* what the startup audit reported

vars == <<regVars, frame, todo, phase, up, left, built, drain, consumer, findings>>
appVars == <<todo, phase, up, left, built, drain, consumer, findings>>

Phases == {"wiring", "starting", "rollback", "auditing", "serving", "failed",
           "grpc", "drain", "stop", "http", "pool", "down"}

Init ==
    /\ RegInit /\ CallsInit
    /\ todo \in Wirings
    /\ phase = "wiring" /\ up = {} /\ left = <<>> /\ built = FALSE
    /\ drain = "off" /\ consumer = "off" /\ findings = {}

-----------------------------------------------------------------------------
(* Wiring and start. *)

Wire ==
    /\ phase = "wiring" /\ todo # <<>>
    /\ \/ RefuseModule(Head(todo))
       \/ RefuseSchema(Head(todo))
       \/ RegisterModule(Head(todo))
    /\ todo' = Tail(todo)
    /\ UNCHANGED <<frame, phase, up, left, built, drain, consumer, findings>>

\* validateConsumes.
Wired == \A m \in Range(reg.order) : \A c \in Range(Catalogue[m].consumes) : reg.handlers[c] # NoModule

\* StartAll begins.
Start ==
    /\ phase = "wiring" /\ todo = <<>>
    /\ phase' = IF Wired THEN "starting" ELSE "failed"
    /\ UNCHANGED <<regVars, frame, todo, up, left, built, drain, consumer, findings>>

NextToStart == reg.order[Cardinality(up) + 1]

StartModule ==
    /\ phase = "starting"
    /\ IF Cardinality(up) = Len(reg.order)
       THEN phase' = "auditing" /\ UNCHANGED <<up, left>>
       ELSE \/ up' = up \cup {NextToStart} /\ UNCHANGED <<phase, left>>
            \/ /\ NextToStart \notin Guests     \* a guest's Start does nothing
               /\ phase' = "rollback"
               /\ left' = SubSeq(reg.order, 1, Cardinality(up))
               /\ UNCHANGED up
    /\ UNCHANGED <<regVars, frame, todo, built, drain, consumer, findings>>

\* The rest of Start: the audit, which only logs, the webhook
\* consumer, and the servers.  When the consumer fails the modules stay started.
FinishStart ==
    /\ phase = "auditing"
    /\ findings' = AuditScopedModels(tables, Unreadable, Exempt, scoped)
    /\ \/ /\ phase' = "serving" /\ built' = TRUE
          /\ drain' = IF Broker THEN "on" ELSE "off"
          /\ consumer' = IF Broker THEN "on" ELSE "off"
       \/ Broker /\ phase' = "failed" /\ UNCHANGED <<built, drain, consumer>>
    /\ UNCHANGED <<regVars, frame, todo, up, left>>

-----------------------------------------------------------------------------
(* Requests. *)

\* Bound: one request or job at a time, beside the subscribers left behind.
Quiet == \A f \in Live : frame[f].parent \notin {"http", "grpc", "job"}

Listening == built /\ phase \in {"serving", "grpc", "drain", "stop"}

\* The bridges call what is exposed, and answer "unknown" for anything else.
BridgeCall(origin, c) ==
    /\ Quiet
    /\ <<origin, c>> \in Clients
    /\ c \in reg.exposed
    /\ BusCall(c, origin, Context("tenant"))
    /\ UNCHANGED <<regVars, appVars>>

Dispatched(c) == Listening /\ BridgeCall("http", c)
GRPCCall(c) == phase = "serving" /\ BridgeCall("grpc", c)

\* A worker an embedded module started runs without a tenant of its own.
Job(m) ==
    /\ Quiet /\ Free # {}
    /\ m \in up \ Guests
    /\ frame' = [frame EXCEPT ![NewFrame] = Frame(m, "job", "job", Context("none"))]
    /\ UNCHANGED <<regVars, appVars>>

Publish(f, e) ==
    /\ phase \notin {"stop", "http", "pool", "down"}
    /\ v2EventPublish(f, e)
    /\ UNCHANGED <<regVars, appVars>>

Run ==
    /\ CallsNext
    /\ UNCHANGED <<regVars, appVars>>

-----------------------------------------------------------------------------
(* Shutdown. *)

\* A signal, or the entrypoint after a failed start.
Shutdown ==
    /\ phase \in {"serving", "failed"}
    /\ phase' = "grpc"
    /\ UNCHANGED <<regVars, frame, todo, up, left, built, drain, consumer, findings>>

\* GracefulStop waits for the calls in flight, without a limit.
GracefulStop ==
    /\ phase = "grpc"
    /\ \A f \in Live : frame[f].parent # "grpc"
    /\ phase' = "drain"
    /\ drain' = IF drain = "on" THEN "cancelled" ELSE drain
    /\ UNCHANGED <<regVars, frame, todo, up, left, built, consumer, findings>>

\* The drain loop sees the cancellation and returns.
DrainEnds ==
    /\ drain = "cancelled"
    /\ drain' = "off"
    /\ UNCHANGED <<regVars, frame, todo, phase, up, left, built, consumer, findings>>

\* The subscription's Close starts its drain and does not wait for the callback;
\* then the publisher is closed and StopAll begins.
CloseEvents ==
    /\ phase = "drain" /\ drain = "off"
    /\ phase' = "stop" /\ left' = reg.order
    /\ consumer' = IF consumer = "on" THEN "draining" ELSE consumer
    /\ UNCHANGED <<regVars, frame, todo, up, built, drain, findings>>

\* The last callback of the subscription returns.
ConsumerEnds ==
    /\ consumer = "draining"
    /\ consumer' = "off"
    /\ UNCHANGED <<regVars, frame, todo, phase, up, left, built, drain, findings>>

\* Mutant: the first module is stopped first (breaks PoolLast).
StopModuleFirst ==
    /\ phase \in {"rollback", "stop"}
    /\ IF left = <<>>
       THEN phase' = (IF phase = "rollback" THEN "failed" ELSE "http") /\ UNCHANGED <<up, left, loaded>>
       ELSE up' = up \ {Head(left)} /\ loaded' = loaded \ {Head(left)} /\ left' = Tail(left) /\ UNCHANGED phase
    /\ UNCHANGED <<reg, scoped, versions, tables, lost, frame, todo, built, drain, consumer, findings>>

\* stopModules: from the last to the first.  Stop of an embedded module returns
\* when its own workers have; Stop of a guest closes its runtime.
StopModule ==
    /\ phase \in {"rollback", "stop"}
    /\ IF left = <<>>
       THEN /\ phase' = IF phase = "rollback" THEN "failed" ELSE "http"
            /\ UNCHANGED <<up, left, loaded>>
       ELSE /\ \A f \in Live : ~(frame[f].parent = "job" /\ frame[f].module = Last(left))
            /\ up' = up \ {Last(left)}
            /\ loaded' = loaded \ {Last(left)}
            /\ left' = Front(left)
            /\ UNCHANGED phase
    /\ UNCHANGED <<reg, scoped, versions, tables, lost, frame, todo, built, drain, consumer, findings>>

\* The HTTP servers stop accepting and wait for their requests, or until the
\* shutdown's deadline has passed.
ShutdownWithContext ==
    /\ phase = "http"
    /\ \/ (\A f \in Live : frame[f].parent # "http") /\ UNCHANGED frame
       \/ /\ \E f \in Live : frame[f].parent = "http"
          /\ frame' = [f \in Frames |-> IF frame[f].parent = "http"
                                        THEN [frame[f] EXCEPT !.parent = "cut"] ELSE frame[f]]
    /\ phase' = "pool"
    /\ UNCHANGED <<regVars, todo, up, left, built, drain, consumer, findings>>

ClosePool ==
    /\ phase = "pool"
    /\ phase' = "down"
    /\ UNCHANGED <<regVars, frame, todo, up, left, built, drain, consumer, findings>>

\* The process has nothing left to do.
Exited ==
    /\ phase = "down"
    /\ UNCHANGED vars

Next ==
    \/ Wire \/ Start \/ StartModule \/ FinishStart
    \/ \E c \in Capabilities : Dispatched(c) \/ GRPCCall(c)
    \/ \E m \in Modules : Job(m)
    \/ \E f \in Live, e \in Events : Publish(f, e)
    \/ Run
    \/ Shutdown \/ GracefulStop \/ DrainEnds \/ CloseEvents \/ ConsumerEnds
    \/ StopModule \/ ShutdownWithContext \/ ClosePool \/ Exited

Spec == Init /\ [][Next]_vars

-----------------------------------------------------------------------------
(* Properties. *)

\* The bounds of the code's tables: start order, handles and chains.
TypeOK ==
    /\ phase \in Phases
    /\ up \subseteq reg.modules /\ Range(left) \subseteq reg.modules
    /\ scoped \subseteq Tables /\ tables \subseteq Tables /\ findings \subseteq tables
    /\ drain \in {"on", "cancelled", "off"} /\ consumer \in {"on", "draining", "off"}
    /\ \A f \in Live :
        /\ Len(frame[f].results) <= MaxHandles
        /\ frame[f].parent \in Origins \cup Live

\* Start and Shutdown keep the order: what is up is always a prefix of the
\* registration order, so a module never runs without those before it, also when
\* a start failed; and when the pool is closed every module is stopped, the drain
\* loop has ended, and only abandoned subscribers and cut requests still run.
PoolLast ==
    /\ up = Range(SubSeq(reg.order, 1, Cardinality(up)))
    /\ phase = "down" =>
        /\ up = {} /\ loaded = {}
        /\ drain = "off" /\ consumer # "on"
        /\ \A f \in Live : Above(f) \cap {"gone", "cut"} # {}

\* Once the kernel serves, a statement made for a tenant reaches no other tenant's
\* rows in any table its modules created, unless the startup audit reported or
\* passed over that table: what the callbacks miss, AuditScopedModels finds.
\* Except for the statements no callback can confine (Unconfined).  It is judged
\* between calls (Live = {}): no call changes tables, scoped or findings, so the
\* verdict of a serving kernel is the same while one runs.
OwnRowsOnly ==
    phase = "serving" /\ Live = {} =>
        \A s \in Issued, t \in Tenants :
            LET touched == s.mentions \cup (IF s.by = "sql" THEN {} ELSE {s.table})
            IN  touched \subseteq tables /\ ~Unconfined(s) =>
                \A o \in Outcomes(s, [tenant |-> t, system |-> FALSE], scoped) :
                    o.rows \subseteq {t} \/ touched \cap (findings \cup Exempt \cup Unreadable) # {}
=============================================================================
