--------------------------- MODULE ModuleRegistry ---------------------------
(***************************************************************************)
(* How modules enter the kernel: the checks and migrations of bootstrap's    *)
(* RegisterModule and RegisterWASM, the registry (internal/kernel/registry)  *)
(* with its rollback, and the hook points and subscriptions                  *)
(* (internal/kernel/hooks).                                                  *)
(*                                                                           *)
(* Wiring runs on one goroutine, so a registration is one action.  Install   *)
(* is the module author's code: here a script of calls on the registrar,     *)
(* which may stop with an error of its own at any point.                     *)
(***************************************************************************)
EXTENDS Integers, Sequences, Functions, FiniteSetsExt

CONSTANTS
    Catalogue,      \* the modules a deployment may register
    NoModule,
    Capabilities,
    Owned,          \* the tables of the kernel's own migrations
    OwnedModels,    \* those of them whose models New registers as scoped
    Hooks           \* the hook points: kind and failure policy of each

VARIABLES
    reg,            \* the registry and the hook registry
    scoped,         \* scopedTables
    versions,       \* the version tables: migrations recorded as applied
    tables,         \* the tables that exist
    loaded,         \* the guests whose runtime is open
    lost            \* history: capabilities taken from another module by a rollback

regVars == <<reg, scoped, versions, tables, loaded, lost>>

Modules == DOMAIN Catalogue
Guests == {m \in Modules : Catalogue[m].tier = "sandboxed"}

Last(s) == s[Len(s)]
Front(s) == SubSeq(s, 1, Len(s) - 1)

VersionTables == {Catalogue[m].id : m \in Modules}

\* The calls an Install can make on the registrar.
CapabilityCalls == [do : {"capability"}, arg : Capabilities]
OfferCalls == [do : {"offer"}, arg : DOMAIN Hooks]
SubscribeCalls == [do : {"subscribe"}, arg : DOMAIN Hooks, priority : Int]
Grants == [hook : DOMAIN Hooks, kind : STRING, priority : Int]

ASSUME CatalogueAssumption ==
    /\ NoModule \notin Modules
    /\ \A m \in Modules :
        /\ Catalogue[m].tier \in {"embedded", "sandboxed"}
        /\ Catalogue[m].provides \in Seq(Capabilities) /\ Catalogue[m].exposed \in Seq(Capabilities)
        /\ Catalogue[m].offers \in Seq(DOMAIN Hooks)
        /\ Catalogue[m].tier = "embedded" =>
               Catalogue[m].install \in Seq(CapabilityCalls \cup OfferCalls \cup SubscribeCalls)
        /\ Catalogue[m].tier = "sandboxed" => Catalogue[m].subscribes \in Seq(Grants)

-----------------------------------------------------------------------------
(* Module identifiers are sequences of characters. *)

Separators == {".", "-"}

\* moduleIDPattern: labels joined by single separators.
ValidID(id) ==
    /\ id # <<>>
    /\ id[1] \notin Separators /\ Last(id) \notin Separators
    /\ \A i \in 1..(Len(id) - 1) : {id[i], id[i + 1]} \cap Separators # {id[i], id[i + 1]}

MigrationTableFor(id) == [i \in DOMAIN id |-> IF id[i] \in Separators THEN "_" ELSE id[i]]

-----------------------------------------------------------------------------
(* The registry. *)

New ==
    [modules  |-> {},
     order    |-> <<>>,
     handlers |-> [c \in Capabilities |-> NoModule],
     exposed  |-> {},
     points   |-> [h \in DOMAIN Hooks |-> NoModule],
     subs     |-> <<>>,
     failed   |-> FALSE]

Failed(r) == [r EXCEPT !.failed = TRUE]

RegisterCapability(r, m, c) ==
    IF r.handlers[c] # NoModule THEN Failed(r) ELSE [r EXCEPT !.handlers[c] = m]

\* hooks.Registry.Offer.
Offer(r, m, h) ==
    IF Hooks[h].kind = "unknown" \/ r.points[h] # NoModule
    THEN Failed(r)
    ELSE [r EXCEPT !.points[h] = m]

\* hooks.Registry.Subscribe; the subscriber is the module being installed.
Subscribe(r, m, h, priority) ==
    IF r.points[h] = NoModule
    THEN Failed(r)
    ELSE [r EXCEPT !.subs = Append(@, [hook |-> h, module |-> m, priority |-> priority])]

\* A guest states the kind it expects, checked only where the point is offered.
SubscribeGuest(r, m, grant) ==
    IF r.points[grant.hook] # NoModule /\ Hooks[grant.hook].kind # grant.kind
    THEN Failed(r)
    ELSE Subscribe(r, m, grant.hook, grant.priority)

\* One call of an Install on the registrar.
Call(r, m, step) ==
    CASE r.failed -> r
      [] ~r.failed /\ step.do = "capability" -> RegisterCapability(r, m, step.arg)
      [] ~r.failed /\ step.do = "offer" -> Offer(r, m, step.arg)
      [] ~r.failed /\ step.do = "subscribe" -> Subscribe(r, m, step.arg, step.priority)
      [] OTHER -> SubscribeGuest(r, m, step.arg)

\* The points of the descriptor are offered before Install runs; a guest's
\* Install registers what its manifest provides, then subscribes.
Script(d) ==
    [i \in DOMAIN d.offers |-> [do |-> "offer", arg |-> d.offers[i]]]
        \o IF d.tier = "embedded"
           THEN d.install
           ELSE [i \in DOMAIN d.provides |-> [do |-> "capability", arg |-> d.provides[i]]]
                    \o [i \in DOMAIN d.subscribes |-> [do |-> "grant", arg |-> d.subscribes[i]]]

\* The first k calls of m's script.
Install(r, m, k) ==
    LET after[i \in 0..k] ==
            IF i = 0 THEN r ELSE Call(after[i - 1], m, Script(Catalogue[m])[i])
    IN  after[k]

Claim(r, m) ==
    [r EXCEPT !.modules = @ \cup {m}, !.exposed = @ \cup Range(Catalogue[m].exposed)]

\* Mutant: the keys stay with the module that failed (breaks RegistryAgrees).
RollbackKeeps(r, m) == [r EXCEPT !.modules = @ \ {m}, !.failed = FALSE]

\* A failed installation takes back the keys its descriptor names, whoever
\* registered them, and leaves the hook registry as it is.
Rollback(r, m) ==
    LET d == Catalogue[m]
    IN  [r EXCEPT !.modules = @ \ {m},
                  !.handlers = [c \in Capabilities |->
                                  IF c \in Range(d.provides) THEN NoModule ELSE @[c]],
                  !.exposed = @ \ Range(d.exposed),
                  !.failed = FALSE]

\* The descriptor is checked before anything is claimed.
ValidDescriptor(r, m) ==
    LET d == Catalogue[m]
    IN  /\ d.storage \in {"kernel", "own", "none"}
        /\ Range(d.exposed) \subseteq Range(d.provides)
        /\ \A other \in r.modules : Catalogue[other].id # d.id

\* Registry.RegisterModule, with Install making k calls before it returns, and
\* returning an error of its own when that is not all of them.
Registration(r, m, k) ==
    LET installed == Install(Claim(r, m), m, k)
    IN  IF ~ValidDescriptor(r, m)
        THEN r
        ELSE IF installed.failed \/ k < Len(Script(Catalogue[m]))
             THEN Rollback(installed, m)
             ELSE [installed EXCEPT !.order = Append(@, m)]

-----------------------------------------------------------------------------
(* hooks.Registry.subscribersOf *)

Precedes(a, b) ==
    \/ a.priority < b.priority
    \/ a.priority = b.priority /\ Catalogue[a.module].rank < Catalogue[b.module].rank

\* sort.SliceStable: behind those that s does not precede.
Inserted(ordered, s) ==
    LET later == {i \in DOMAIN ordered : Precedes(s, ordered[i])}
        at == IF later = {} THEN Len(ordered) + 1 ELSE Min(later)
    IN  SubSeq(ordered, 1, at - 1) \o <<s>> \o SubSeq(ordered, at, Len(ordered))

\* The subscriptions to h in dispatch order: priority, then module ID.
Ordered(subs, h) ==
    LET ordered[n \in 0..Len(subs)] ==
            IF n = 0 THEN <<>>
            ELSE IF subs[n].hook = h THEN Inserted(ordered[n - 1], subs[n]) ELSE ordered[n - 1]
    IN  ordered[Len(subs)]

subscribersOf(h) ==
    LET all == Ordered(reg.subs, h)
    IN  [i \in DOMAIN all |-> all[i].module]

-----------------------------------------------------------------------------
(* Bootstrap. *)

\* The approved manifest of a guest, and what loading the bytes finds.
ValidManifest(d) ==
    /\ d.abi \in 1..2
    /\ d.abi = 1 => d.consumes = <<>> /\ d.publishes = <<>> /\ d.subscribes = <<>>
    /\ ValidID(d.id)
    /\ d.provides # <<>>
    /\ \A refs \in {d.provides, d.exposed, d.consumes, d.publishes} : IsInjective(refs)
    /\ \A i, j \in DOMAIN d.subscribes : i # j => d.subscribes[i].hook # d.subscribes[j].hook
    /\ Range(d.exposed) \subseteq Range(d.provides)

\* The guest compiles, exports the ABI, and is a reactor.
Load(d) == d.bytes = "reactor"

\* wasmhost.NewModule; the bus and the publisher are always provided.
NewModule(d) == ValidManifest(d) /\ Load(d)

\* What is refused before anything has happened: a guest that does not load, and
\* a module that declares a nil model.
Acceptable(d) == IF d.tier = "sandboxed" THEN NewModule(d) ELSE ~d.nilModel

\* Mutant: a table with any record counts as up to date (breaks SchemaRecorded).
PendingFirst(d) == IF versions[MigrationTableFor(d.id)] = {} THEN DOMAIN d.schema ELSE {}

\* The migrations of d that its version table does not record.
Pending(d) == DOMAIN d.schema \ versions[MigrationTableFor(d.id)]

\* goose refuses a migration older than one already recorded.
OutOfOrder(d) ==
    \E v \in Pending(d), w \in versions[MigrationTableFor(d.id)] : v < w

Migrate(d, done) ==
    /\ versions' = [versions EXCEPT ![MigrationTableFor(d.id)] = @ \cup done]
    /\ tables' = tables \cup {d.schema[v] : v \in done}

\* RunModuleMigrations ends in an error: the identifier has no table, the
\* library refuses, or a migration fails and the ones before it stand.
MigrationsFail(d) ==
    /\ DOMAIN d.schema # {}
    /\ \/ (~ValidID(d.id) \/ OutOfOrder(d)) /\ UNCHANGED <<versions, tables>>
       \/ /\ ValidID(d.id) /\ ~OutOfOrder(d)
          /\ \E v \in Pending(d) : Migrate(d, {w \in Pending(d) : w < v})

MigrationsRun(d) ==
    IF DOMAIN d.schema = {}
    THEN UNCHANGED <<versions, tables>>
    ELSE ValidID(d.id) /\ ~OutOfOrder(d) /\ Migrate(d, Pending(d))

\* The module is refused before it has left a trace.
RefuseModule(m) ==
    /\ ~Acceptable(Catalogue[m])
    /\ UNCHANGED regVars

\* Its schema does not apply.  Its models stay registered as scoped.
RefuseSchema(m) ==
    /\ Acceptable(Catalogue[m])
    /\ scoped' = scoped \cup Catalogue[m].models
    /\ MigrationsFail(Catalogue[m])
    /\ UNCHANGED <<reg, loaded, lost>>

\* It reaches the registry.  A guest the registry refuses is closed again.
RegisterModule(m) ==
    /\ Acceptable(Catalogue[m])
    /\ scoped' = scoped \cup Catalogue[m].models
    /\ MigrationsRun(Catalogue[m])
    /\ \E k \in 0..Len(Script(Catalogue[m])) :
        /\ Catalogue[m].tier = "sandboxed" => k = Len(Script(Catalogue[m]))
        /\ reg' = Registration(reg, m, k)
        /\ loaded' = IF m \in Guests \cap reg'.modules THEN loaded \cup {m} ELSE loaded
        /\ lost' = lost \cup (reg.exposed \ reg'.exposed)
                        \cup {c \in Capabilities : reg.handlers[c] \notin {NoModule, reg'.handlers[c]}}

RegInit ==
    /\ reg = New
    /\ scoped = OwnedModels /\ tables = Owned /\ loaded = {} /\ lost = {}
    /\ versions = [t \in {MigrationTableFor(id) : id \in VersionTables} |-> {}]

-----------------------------------------------------------------------------
(* Properties. *)

\* What m's Install registers.
Registers(m) ==
    {step.arg : step \in {call \in Range(Script(Catalogue[m])) : call.do = "capability"}}

\* RegisterModule is all or nothing for the registry: what is in the start order
\* is what is registered; a registered module serves every capability it
\* registered, except for those the rollback of another module's failed
\* registration took away (lost); nobody else serves one, unless its Install
\* registered what its descriptor does not provide, which no rollback takes back;
\* and what is exposed, a registered module exposes.
RegistryAgrees ==
    /\ reg.modules = Range(reg.order) /\ IsInjective(reg.order)
    /\ \A m \in reg.modules : \A c \in Registers(m) : reg.handlers[c] = m \/ c \in lost
    /\ \A c \in Capabilities :
        \/ reg.handlers[c] \in reg.modules \cup {NoModule}
        \/ c \in Registers(reg.handlers[c]) \ Range(Catalogue[reg.handlers[c]].provides)
    /\ \A c \in reg.exposed : \E m \in reg.modules : c \in Range(Catalogue[m].exposed)
    /\ loaded \subseteq Guests \cap reg.modules

\* The version tables tell the truth, whatever failed registrations came before:
\* a registered module has every version of its schema recorded in the table its
\* identifier maps to, and whatever is recorded there was applied for a module
\* with that table, so its own table exists.  A module that shares its version
\* table with no other therefore has its whole schema; one that shares it may
\* have another's instead, since RunModuleMigrations skips a recorded version.
SchemaRecorded ==
    /\ \A m \in reg.modules : DOMAIN Catalogue[m].schema \subseteq versions[MigrationTableFor(Catalogue[m].id)]
    /\ \A t \in DOMAIN versions : \A v \in versions[t] :
        \E m \in Modules :
            /\ MigrationTableFor(Catalogue[m].id) = t
            /\ v \in DOMAIN Catalogue[m].schema /\ Catalogue[m].schema[v] \in tables
=============================================================================
