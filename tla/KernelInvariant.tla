--------------------------- MODULE KernelInvariant ---------------------------
(***************************************************************************)
(* The inductive invariant of KernelApp, in parts: the registry, the tree of *)
(* invocations, what their contexts carry, the dispatches under way, and     *)
(* where start and shutdown stand.                                           *)
(***************************************************************************)
EXTENDS KernelApp

-----------------------------------------------------------------------------
(* The types, by name.                                                       *)

Subscriptions == [hook : DOMAIN Hooks, module : Modules, priority : Int]
Registries ==
    [modules : SUBSET Modules, order : Seq(Modules),
     handlers : [Capabilities -> Modules \cup {NoModule}], exposed : SUBSET Capabilities,
     points : [DOMAIN Hooks -> Modules \cup {NoModule}], subs : Seq(Subscriptions),
     failed : BOOLEAN]

AllAnswers == [module : Modules, res : Results, err : BOOLEAN]
CallContexts ==
    [who : {"tenant", "none"}, chain : Seq(Capabilities), env : Frames \cup {NoFrame},
     deps : Guests \cup {NoModule}, limits : SUBSET Frames]
Dispatches ==
    [hook : DOMAIN Hooks \cup {"none"}, left : Seq(Modules), answers : Seq(AllAnswers),
     rejections : Seq(Modules), value : Modules \cup {NoModule}, raced : BOOLEAN,
     verdict : {"none", "open", "ok", "rejected", "failed"}]
Callers == Modules \cup {"self"}
Served == Capabilities \cup DOMAIN Hooks \cup {"job", "none"}
Invocations ==
    [module : Modules \cup {NoModule}, serves : Served, parent : Frames \cup Origins,
     ctx : CallContexts, dispatch : Dispatches, results : Seq(Callers),
     sent : Callers \cup {NoModule}]

-----------------------------------------------------------------------------
(* The registry.                                                             *)

SchemaOf(m) == Catalogue[m].schema
VersionTable(m) == MigrationTableFor(Catalogue[m].id)

\* What a version table records, some module with that table has created.
Recorded ==
    /\ DOMAIN versions = {VersionTable(m) : m \in Modules}
    /\ \A t \in DOMAIN versions : \A v \in versions[t] : \E m \in Modules :
        VersionTable(m) = t /\ v \in DOMAIN SchemaOf(m) /\ SchemaOf(m)[v] \in tables

\* The migrations of a registered module are recorded.
Migrated == \A m \in reg.modules : DOMAIN SchemaOf(m) \subseteq versions[VersionTable(m)]

RegistryInv ==
    /\ reg \in Registries /\ ~reg.failed
    /\ RegistryAgrees
    /\ Recorded /\ Migrated
    /\ scoped \subseteq Tables /\ tables \subseteq Tables

-----------------------------------------------------------------------------
(* The tree of invocations.                                                  *)

\* Parents are alive, and come before their children.
Ranked == \E depth \in [Frames -> Nat] :
    \A f \in Frames : frame[f].parent \in Frames => depth[frame[f].parent] < depth[f]

\* A frame in use has a caller of the right kind; one that is not has none.
Placed(f) ==
    /\ f \notin Live => frame[f].parent = "gone"
    /\ frame[f].parent \in Frames => frame[f].parent \in Live
    /\ f \in Live => frame[f].serves # "none"
    /\ f \in Live /\ frame[f].serves = "job" => frame[f].parent = "job"
    /\ f \in Live /\ frame[f].serves \in Capabilities => frame[f].parent \in Frames \cup {"http", "grpc", "cut"}
    /\ f \in Live /\ frame[f].serves \in DOMAIN Hooks => frame[f].parent \in Frames \cup {"gone"}

\* A frame waits for one other at a time: for a subscriber while a dispatch of its
\* own is open, for a capability otherwise.
Awaits(f) ==
    \A g \in Child(f) :
        /\ \A h \in Child(f) : g = h
        /\ frame[f].dispatch.verdict = "open" =>
            /\ frame[g].serves = frame[f].dispatch.hook
            /\ frame[g].module = Head(frame[f].dispatch.left)
        /\ frame[f].dispatch.verdict # "open" => frame[g].serves \in Capabilities

TreeInv == Ranked /\ \A f \in Frames : Placed(f) /\ Awaits(f)

-----------------------------------------------------------------------------
(* What contexts carry.                                                      *)

ServesGuest(f) == Guest(f) /\ frame[f].serves \in Capabilities

ChainAbove(f) == IF frame[f].parent \in Frames THEN frame[frame[f].parent].ctx.chain ELSE <<>>

\* The chain is the caller's, longer by the capability of a guest.
Chained(f) ==
    /\ Len(frame[f].ctx.chain) <= MaxDepth
    /\ ServesGuest(f) => frame[f].serves \in Range(frame[f].ctx.chain)
    /\ frame[f].parent \notin {"gone", "cut"} =>
        IF ServesGuest(f)
        THEN /\ frame[f].ctx.chain = Append(ChainAbove(f), frame[f].serves)
             /\ frame[f].serves \notin Range(ChainAbove(f))
        ELSE frame[f].ctx.chain = ChainAbove(f)

Granted(f) == Guest(f) /\ HasGrants(frame[f].module)

\* A guest with grants has them in its context, any other frame its caller's.
Entitled(f) ==
    /\ Granted(f) => frame[f].ctx.deps = frame[f].module /\ frame[f].ctx.env = f
    /\ ~Granted(f) /\ frame[f].parent \in Frames => frame[f].ctx.deps = frame[frame[f].parent].ctx.deps
    /\ ~Granted(f) /\ frame[f].parent \in Origins \ {"gone"} => frame[f].ctx.deps = NoModule
    /\ frame[f].ctx.env # NoFrame => frame[f].ctx.env \in Live

\* A guest calls what is granted to the module in its context, and fires nothing.
CallsGranted(f) == Guest(f) =>
    /\ frame[f].dispatch = NoDispatch
    /\ \A g \in Child(f) :
        frame[f].ctx.deps # NoModule /\ frame[g].serves \in Range(Catalogue[frame[f].ctx.deps].consumes)

\* What a guest with grants did is not in the state of another invocation.
Notes(f) ==
    /\ Len(frame[f].results) <= MaxHandles
    /\ \A m \in {frame[f].sent} \cup Range(frame[f].results) : m \in Guests => ~HasGrants(m)

ContextInv == \A f \in Live : Chained(f) /\ Entitled(f) /\ CallsGranted(f) /\ Notes(f)

-----------------------------------------------------------------------------
(* Dispatches.                                                               *)

\* A dispatch asks the subscribers in order and keeps the account of what they
\* answered; whether it goes on, and how it ended, agrees with that account.
Accounted(d) ==
    /\ d.hook \in DOMAIN Hooks /\ d.verdict # "none"
    /\ [i \in DOMAIN d.answers |-> d.answers[i].module] \o d.left = subscribersOf(d.hook)
    /\ d.verdict = "open" <=> d.left # <<>> /\ d.verdict # "failed"
    /\ ~d.raced =>
        /\ d.verdict # "failed" =>
            /\ \A i \in DOMAIN d.answers : d.answers[i].err => Hooks[d.hook].policy = "fail_open"
            /\ d.rejections = Vetoes(d.answers)
        /\ d.verdict = "failed" =>
            d.answers # <<>> /\ Last(d.answers).err /\ Hooks[d.hook].policy = "fail_closed"
        /\ d.value = LastValue(d.answers)
    /\ d.verdict = "ok" => d.rejections = <<>>
    /\ d.verdict = "rejected" => d.rejections # <<>>

DispatchInv == \A f \in Live : frame[f].dispatch = NoDispatch \/ Accounted(frame[f].dispatch)

FramesInv == frame \in [Frames -> Invocations] /\ TreeInv /\ ContextInv /\ DispatchInv

-----------------------------------------------------------------------------
(* Start and shutdown.                                                       *)

\* The first n modules in the order of registration.
First(n) == {reg.order[i] : i \in 1..n}

\* n modules are up and k are still to be stopped.
StandsAt(n, k) ==
    /\ up = First(n) /\ left = SubSeq(reg.order, 1, k)
    /\ phase = "wiring" => n = 0 /\ k = 0
    /\ phase \in {"auditing", "serving"} => n = Len(reg.order)
    /\ phase \in {"failed", "grpc", "drain"} => n \in {0, Len(reg.order)}
    /\ phase = "rollback" => k = n
    /\ phase = "stop" => n \in {0, k} /\ loaded \subseteq First(k)
    /\ phase \in {"http", "pool", "down"} => n = 0 /\ loaded = {}

Standing == \E n, k \in 0..Len(reg.order) : StandsAt(n, k)

\* Who may still be running.
Admitted ==
    /\ phase = "wiring" => Live = {}
    /\ \A f \in Live :
        /\ frame[f].parent = "job" => frame[f].module \in up
        /\ phase \in {"drain", "stop", "http", "pool", "down"} => frame[f].parent # "grpc"
        /\ phase \in {"pool", "down"} => frame[f].parent # "http"

PhaseInv ==
    /\ phase \in Phases /\ todo \in Seq(Modules) /\ findings \subseteq tables
    /\ drain \in {"on", "cancelled", "off"} /\ consumer \in {"on", "draining", "off"}
    /\ phase \in {"stop", "http", "pool", "down"} => drain = "off" /\ consumer # "on"
    /\ Standing /\ Admitted

KernelInv == RegistryInv /\ FramesInv /\ PhaseInv
=============================================================================
