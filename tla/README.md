# A verification of Sannad's kernel

Sannad is a modular-monolith kernel in Go: it hosts modules (built in or as
sandboxed WASM guests), gives them capabilities, hooks, events and a
tenant-scoped store, and puts authentication, tenancy and webhooks around them.
This directory holds TLA+ models of its parts, the TLC configurations that check
them on small instances, and TLAPS proofs for every instance.

Three things are modelled. The machinery that has to be right across crashes,
redeliveries and several processes: the saga coordinator, the webhook deliveries
from the event stream to the receiver, the idempotent consumer, the projections,
and sessions with their revocation. The kernel itself, from the registration of
modules over calls, hooks and sandboxed guests to the shutdown, with the tenant
scoping of statements. And what its gateway does with tenants, accounts, roles and
logins, one database statement at a time.

## The system's parts

| Part | State | Operations | What it interacts with |
|---|---|---|---|
| Saga coordinator (`pkg/modulekit/saga.go`) | head row, one row per step | RunSaga, driveSaga, compensate, RecoverSaga | the store; the steps' own effects |
| Event stream (`internal/kernel/events`) | JetStream stream, durable consumer position | EnsureStream, Publish, Subscribe, Close | every consumer |
| Webhook deliveries (`internal/platform/webhooks`) | endpoint and delivery rows | Enqueue, DrainOnce, Attempt, Advance, save, Replay, ReplayEndpoint, endpoint CRUD | event stream, store, receivers |
| Idempotent consumer (`pkg/modulekit/idempotency.go`) | marker rows | Idempotent, WasProcessed, ForgetProcessed | event stream, store transactions |
| Projections (`pkg/modulekit/projection.go`) | projection rows, rebuild mark | Project, Rebuild, markRebuilding, IsRebuilding | event stream, store transactions |
| Sessions and revocation (`internal/platform/auth/session.go`, `revocation.go`) | revoked rows, a cache per process | create, validate, refresh, delete, Revoke, IsRevoked, PurgeExpired | every authenticated request |
| Tenant directory and isolation (`internal/platform/tenancy`) | tenant rows, a cache per process; scoped models | Check, Provision, SetStatus; query scoping, create stamping, raw guard | every request, every statement |
| Accounts, roles, service accounts, external identity (`internal/platform/auth`) | account, role, API-key, OIDC-state and SAML-session rows | register, login, lock, delete, seed, assign, issue, consume | sessions, directory |
| Registry, bus, hooks (`internal/kernel/registry`, `bus`, `hooks`) | modules, handlers, exposed set, offered points, subscribers | RegisterModule, StartAll, StopAll, Offer, Subscribe, Notify, Validate, Transform, Call | bootstrap, modules |
| WASM host (`internal/kernel/wasmhost`) | pools, call chain, result handles | Load, Invoke, host calls, hook handlers | bus, registry, hooks |
| Bridge and bootstrap (`internal/kernel/bridge`, `internal/app`) | the running application | New, Start, Shutdown, handlers, migrations | everything |

Behaviours that are hard here: a process dies between two store calls; a message
is delivered again while its first delivery is still running; an answer is lost
after the work was done; two replicas drain, recover or project the same row; a
cached answer is stored after the truth changed; an installation or a start fails
half way; a handler outlives its time limit.

## Modules

| Module | Models | Proofs | Run by |
|---|---|---|---|
| `Saga`, `SagaPromise` | the coordinator; what it promises its caller | `SagaProofs` | `MCSaga` |
| `EventStream` | a durable consumer and Subscribe's callback | | through the next three |
| `WebhookDrain` | delivery rows, drain passes, replays, endpoint changes | `WebhookProofs` | `MCWebhook` |
| `WebhookPipeline` | event stream + Enqueue + `WebhookDrain` | `WebhookProofs` | `MCWebhook` |
| `IdempotentConsumer`, `IdempotentPromise` | a handler under Idempotent on the event stream; what it promises | `IdempotentProofs` | `MCIdempotent` |
| `Projection` | Project and Rebuild on the event stream, under SQLite and PostgreSQL | `ProjectionProofs` | `MCProjection` |
| `Sessions` | tokens, the table of revoked sessions and each process's cache of it | `SessionsProofs` | `MCSessions` |
| `TenantScope` | what the storage callbacks let a statement reach | `KernelSteps` | through `KernelApp` |
| `ModuleRegistry` | registration, migrations, rollback, hook points and subscriptions | `KernelSteps` | through `KernelApp` |
| `KernelCalls` | calls on the bus, guests and their host calls, hook dispatch | `KernelSteps`, `KernelProofs` | through `KernelApp` |
| `KernelApp` | the three above, with start, bridges, jobs and shutdown | `KernelInvariant`, `KernelSteps`, `KernelProofs` | `MCKernel` |
| `TenantDirectory` | tenant rows and each process's cache of them | | through `AuthGateway` |
| `AccountStore` | the tables of the auth service and the statements on them | | through `AuthGateway` |
| `AuthGateway` | the two above, with every request that creates, uses or ends a session | `GatewayInvariant`, `GatewayProofs` | `MCAccounts` |

**Saga.** `head`, `step` and `attempts` are the columns of `SagaRecord` and
`SagaStepRecord`; `effect` is whether a step's Do is in place in the world. `pc`,
`pos`, `seen` and `failures` are the locals of driveSaga, markStepRunning and
compensate. Each store call, each Do and each Compensate is one action
(`markStepRunning`, `Do`, `markCompleted`, `markCompensating`, ...), so a crash or
a failed store call (`Abandon`) can come between any two. `RecoverSaga` is taken
by a process when nobody drives the saga; the code takes no claim and states that
assumption in its comments.

**EventStream.** A message is waiting, out, acknowledged or terminated. `AckWait`
makes a message waiting again whether or not its callback still runs, so
deliveries overlap; a late acknowledgement still counts, a late refusal of a
settled message does not. `Crash` also stands for an acknowledgement that is lost,
since Subscribe drops the error.

**WebhookDrain.** Rows are (endpoint, event) pairs with `status`, `attempts`,
`reason` (LastError) and membership in `due` (NextAttemptAt has passed). A pass of
DrainOnce is `findDue` (one query, cut to the limit in no order), then for each row
`readEndpoint` or a dead letter, `Attempt` and `save`. `copy` and `result` are the
structs the pass holds, which `save` writes whole by ID. `accepted`,
`unconfirmed` and `raced` are history: how often the receiver took the event, how
often nobody recorded it, and which rows two actors held at once. A drainer that is
`off` is a process that is not deployed.

**WebhookPipeline.** The same queue, fed by workers that run Enqueue as the
stream's handler: one listing of the active endpoints, one Create per endpoint, a
duplicate key skipped, an error refusing the message with the rows created so far
in place. `touched` (history) holds endpoints that were changed meanwhile. An event
is initially unpublished, or consumed and queued by an earlier run of the processes.

**IdempotentConsumer.** The transaction of Idempotent with its insert (which waits
for another open insert of the same key), the handler, the commit, and the
acknowledgement; `commitUnanswered` is a commit whose answer is lost. In
`IdempotentPromise` work is put in place only where it is not, and an event leaves the
stream for good: settled with its work done, or dropped because it does not parse; the promise is implemented with the marker as what is in place
and the message's end as the event's fate (`Fate`).

**Projection.** Project's read, write and commit as separate steps, and Rebuild's
mark, truncate, replay, commit and clear. `engine` is the database openDatabase
chose. Transact uses its default isolation: under SQLite a transaction that read
before another one committed cannot write (`Refused`), under PostgreSQL it waits
for the row and then writes it. `overtaken` (history) holds the keys written that
way. The locks, snapshots and the caller's replay are external.

**Sessions.** `row` is `auth_revoked_sessions` (the expiry of each row), `cache` the
`cachedRevocation` map of each process, `tokens` every pair signed. A request is a
`worker`: `check` is the parse and the look in the cache with which ValidateClaims
and Refresh both begin, `ask` and `keep` the query and the cache write of
IsRevoked, then `accept` or `reissue`. `Delete`, `find`, `insert` or `update`, and
`honour` are a logout: FirstOrCreate with Assign is a select and then an insert or
an update. `PurgeExpired`, `erase` and `forget` are the purge. Any query can fail
and a process can restart. `logout`, `raced` and a request's `owed` are history:
what the last logout promises, and which processes a race has left without it.
Signatures, rotated secrets and a strategy without a store (where Delete is an
error and nothing is revoked) are left out. Processes share one clock, which is
kept exact where the claims hold whole seconds. No route of the repository calls
Delete, Refresh or PurgeExpired; they are modelled as the API they are.

**ModuleRegistry.** `reg` is the registry: registration order, the handler of each
capability, the exposed set, offered hook points and subscriptions. `scoped`,
`versions` and `tables` are scopedTables, the migration version tables and the
tables that exist. Wiring runs on one goroutine, so App.RegisterModule or
RegisterWASM is one action with its early returns: the descriptor or manifest is
refused, a migration fails after some were applied, Install stops at any call and
the registry rolls back. A module's Install is a script of registrar calls. The
sort of subscribersOf is an insertion sort (`Inserted`, `Ordered`): sort.SliceStable
has one result, and this is a definition of it the provers can reason about.

**KernelCalls.** A `frame` is one invocation of a module's code, with what its Go
context carries: the tenant, the chain of guest capabilities, whose grants and
result handles host calls use, and the time limits in force. Guests call
capabilities, publish events and drop results; embedded modules call and fire hook
points. A dispatch asks the subscribers in order. `HookTimeout` leaves a subscriber
running with nobody waiting, and `RacedTimeout` is the select that finds both ready.

**TenantScope.** A statement is a record: its operation, how it is addressed, the
table it addresses and the name GORM keeps for it (`called`, an alias perhaps), the
tables it reads beside it (`joins`: joined, or in a subquery), the tables the text of
its joins or its SQL contains (`mentions`, which is all the callbacks look at), and the
tenants its records carry. `Outcomes` is what scopeQuery, stampCreate, guardRaw and the
store adapter make of it: a refusal or the tenants whose rows it touches.

**KernelApp.** `phase`, `up`, `left`, `drain` and `consumer` are the application's
life: `Wire`, `Start` with the rollback of StartAll, the audit, the servers, then
Shutdown in its order (`GracefulStop`, `DrainEnds`, `CloseEvents`, `StopModule`,
`ShutdownWithContext`, `ClosePool`) while frames are still running. A signal can
come at any moment after wiring.

**TenantDirectory, AccountStore.** One operator per statement or transaction, each
used by one step of `AuthGateway`. The unique index of accounts on tenant and
address is part of the statements it can refuse.

**AuthGateway.** A request is a worker with what its handler has read so far. The
steps of the edge are resolveTenant, checkTenant and Directory.Check (`ask`,
`lookup`, `keep`); then Register (`check`, `count`, `submit`, `stamp`, `seed`,
`assign`, and `undo`, its compensation), Login (`find`, `sign`), the OIDC callback
(`recall`, `consume`, `load`, `enroll`, `adopt`), the SAML response (the same, and
`others`), a service account's login, and authenticated calls (`validate`,
`permit`, `own`, then `write` or `act`). Every statement is a step, other requests
come between any two, and a request can end at any step (`Abandon`: a failed
statement, a wrong credential, a dead process). `suspended`, `owed`, `ended`,
`founder` and `uses` are history. Signatures, expiry and the list of revoked
sessions are the subject of `Sessions`.

## Runs

| Run | Instance | Shows |
|---|---|---|
| `saga` | 4 steps (of the three that can be unwound, the middle one without Compensate), 2 processes, 3 interruptions | `OutcomeIsTrue`, `CleanUnwind`, `AttemptsCoverEntries`, `TerminalIsFrozen`, `PromiseSpec`, `Settles` |
| `saga_undone` | the same | violated: `CompensatedIsUndone` |
| `webhook` | 2 attempts, 1 edit, limit 1, and one of: 1 event for 2 endpoints, 2 workers, 1 drainer, 1 fault; 1 queued delivery, 2 drainers, 2 faults, 1 replay | `AckedIsQueued`, `DeliveredWasAccepted`, `RowsAgree`, `DuplicatesAreExplained`, `UnracedIsFinal`, `EventsSettle` |
| `webhook_replicas` | the same | violated: `DeliveredIsFinal` |
| `idempotent` | 2 events and an unparseable message, 2 workers, 2 faults, 1 forget | `MarkerIsWork`, `AckedIsApplied`, `PromiseSpec`, `EventuallyApplied` |
| `projection` | 2 events of one key, 2 workers, 1 rebuild, 1 fault, both databases | `AckedIsProjected`, `NeverBack`, `CatchesUp` |
| `projection_postgres` | the same, PostgreSQL | violated: `FreshIsKept` |
| `sessions` | 1 session, 2 processes, 2 requests in flight, time to live 1, token lifetimes 1 and 2, a request takes at most 1, time 0 to 2 | `RevokedWasAsked`, `LogoutIsImmediate`, `LogoutReachesAll` |
| `sessions_refresh` | the same, time to live 2, lifetimes 1 and 3, requests take no time, time 0 to 4 | violated: `LoggedOutForGood` |
| `kernel` | 6 modules in 2 wirings, 3 frames, 1 abandoned subscriber, call depth 2, 1 result handle, 2 tenants, 6 tables, statements that read at most one table beside their own, by model, name, alias or SQL | `RegistryAgrees`, `SchemaRecorded`, `HookVerdict`, `NoReentry`, `HostCallsAreOwn`, `PoolLast`, `OwnRowsOnly` |
| `kernel_ungranted` | the same | violated: `UngrantedIsDenied` |
| `accounts` | 10 deployments, 2 requests at a time, 2 tenants, up to 2 processes, 2 accounts, 1 service account, 2 endings per account, 2 attempts | `FirstIsOwner`, `AttemptOnce`, `SuspensionHolds`, `EndedForGood` |

Each passing run also checks its type invariant. `accounts` uses the symmetry of
workers and of attempts: they are model values no definition tells apart, and no
property of the run is a liveness property.

Why the bounds are enough. Every hazard in these parts is a meeting of two actors
on one row, or one interruption followed by one recovery, so two processes and
two or three interruptions reach it. Of four saga steps the last can fail and leave
two to compensate, so that the order matters and one compensation can fail before the
other is tried, with a step between them that has nothing to undo. Two attempts
are a first and a last. One delivery is enough for two drainers, because no action
relates two rows except the limit, and the deployment that consumes has two rows and a
limit of one. A third deployment, with both at once, would relate nothing more: the
stream and the drain meet in the rows only. Two sequences and rows that may exist before give a projection an older, an
equal and a newer event. Sessions never meet: row, cache entry and tokens are per
session, so one is enough. Time reaches the moment at which the row of a logout at
0 may be purged, and the end of the time to live before it. A request may take one
unit (`MaxLatency`), so a check or a logout may straddle either moment. A token
refreshed after time 0 outlives the instance; what such tokens can do is the
subject of `sessions_refresh`, which runs longer. Two wirings put a failed installation after
a good one that shares capabilities and a version table, and guests with and
without grants beside subscribers; three frames are a caller, a guest and what the
guest calls, with one subscriber left behind. The deployments of `accounts` are
chosen so that each pair of handlers that writes the same row meets: two accounts
and two requests are a first and a second, and two endings are a lock before and
one after a login's read. All safety properties of the passing runs
are also proved for every bound.

Deadlock is checked in `kernel`, whose one resting state is the exited process, and
in `accounts`. It is not checked elsewhere: in those models the system rightly comes
to rest when its work is settled and the bounds on new work are used up.

Fairness. Sagas: a process that is in a call keeps going, and an unfinished saga
is recovered, which is what InFlightSagas and RecoverSaga are for. Webhooks: the
ticker of RunDrainLoop keeps calling DrainOnce, and time passes. Stream: the
server redelivers after the ack wait, and callbacks run. Nothing fair is assumed
of faults, replays, edits, rebuild calls or Publish.

### What the violations show

- `saga_undone`: compensate skips a step whose row says `compensating`. A crash
  after that mark and before Compensate ends leaves the effect in place, and the
  recovered unwind records the saga as compensated. In the same way a failed
  compensation is remembered only in memory: after a crash the recovered unwind
  ends as compensated rather than failed. `CleanUnwind` shows both outcomes exact
  without an interruption. `OutcomeIsTrue` shows what remains true with one: an
  effect left behind always has a step row that says so.
- `webhook_replicas`: save updates by ID from the copy read at the start of the
  pass. With two draining processes the slower one takes a delivered row back to
  pending or dead. A Replay that overlaps a pass does the same. `UnracedIsFinal`
  and `DuplicatesAreExplained` show that these meetings are the only cause besides
  lost answers.
- `projection_postgres`: Project compares sequences and writes in two statements.
  Under read committed two overlapping deliveries both pass the comparison, and
  the older may commit last. `NeverBack` and `AckedIsProjected` hold of every key
  that no overtaken transaction wrote. Only the PostgreSQL write marks a key so.
- `sessions_refresh`: Delete lets the row expire one refresh lifetime after the
  logout. A process that cached "not revoked" just before may go on refreshing the
  session until its answer is RevocationTTL old, and those refresh tokens outlive
  the row. Once it is purged they are accepted, and can be refreshed without end.
  `LogoutReachesAll` shows that tokens issued before the logout never come back.
- `kernel_ungranted`: Load wires the host calls for every guest and says that "an
  ungranted guest that imports it gets a denial"; the import table "denies everything"
  to it. Invoke sets grants and call state in the context only for a guest that has
  grants, so one without, called by one with, finds its caller's and calls, publishes
  and stores results under them. `HostCallsAreOwn` shows that this is confined to
  guests without grants.

The two logout properties exempt three races, which the model contains and the code
does not prevent (`Honours`). A check that read "not revoked" before the row was
written may cache it after Revoke cached "revoked", so that for one time to live
the process that logged the session out admits it, although the comment in Revoke
says that it honours the logout "on the very next request". Of two overlapping
logouts the one that began first may write last and shorten the row's life, or
update a row that was purged meanwhile, which changes nothing and is no error. And
a token parsed just before it expires may meet the table after the purge, and so
be accepted or refreshed once more.

Seen while modelling, without a run: a failure to read the endpoint, of any kind,
dead-letters the delivery as one whose endpoint no longer exists (the model's
`endpointUnread`); DrainOnce posts to paused endpoints; the retries of
`dispatcher.go` span about 21 minutes where its comment says roughly a day; two
processes that recover one saga at the same time can lose a count of Attempts; of two
rebuilds of one projection that overlap, the first to end clears the mark, although
the comment on RebuildingSince says it "is set while a rebuild is in progress".

In the kernel:

- A rollback deletes capabilities by name, so a failed installation can take one from
  the module that had registered it (`lost` in `RegistryAgrees`), and it leaves the
  failed module's hook points and subscriptions in place.
- Identifiers that differ in a separator only (`a.b` and `a-b`) share a version
  table. `migrations.go` says the name is derived from the identifier "so two modules
  cannot pick the same name — accidentally or otherwise", because a module
  that picked another's could "make its migrations look applied". The first wiring of `kernel` reaches that: `a.b`
  applies versions 1 and 2 and its Install fails, and `a-b`, whose only version is 2,
  is registered without its table. `SchemaRecorded` makes no exception for it,
  because it speaks of what the version tables say; the theorem `SchemaOfItsOwn` shows
  that sharing a version table is the only way to lack one's own tables.
- A hook handler of a guest is neither refused by the call chain nor added to it: the
  chain goes on through hook points, and counts capabilities only (`NoReentry` speaks
  of these).
- A subscriber that returns while the dispatcher gives up on it may count or not
  (`raced`): Go's select chooses.
- Close of the webhook subscription starts a drain and does not wait for it, so a
  callback may still run when the pool is closed; the comment in Shutdown reads
  otherwise. The HTTP servers answer while modules are being stopped.
- `isolation.go` promises that a statement on a TenantAware model "is either scoped to
  the tenant in the request context or fails. There is no path that silently returns or
  mutates another tenant's rows." Five forms of statement escape the callbacks
  (`Unconfined`): an update that assigns tenant_id; an insert whose records cannot be
  stamped, a map for instance; a join on the statement's own table, or whose text
  mentions it; a table addressed by an alias into a map or a plain struct, since isScoped
  looks up `Statement.Table`, which is the alias; and a table read in a subquery of
  Where, Select or a value, since joinedScopedTable looks at joins only. For each of them
  TLC evaluates an instance that reaches another tenant (`EscapingAssumption`, in
  `MCKernel`). Modules that hold the store and not the connection can make the
  first two only. `OwnRowsOnly` and `CallbacksConfine` show that there are no other forms.

In the gateway:

- Within the time to live, a cached absence lets a registration into a tenant that
  an operator has created and suspended meanwhile; `SuspensionHolds` starts when
  such answers are gone. SAML and service-account logins do not ask for the tenant's
  status.
- Of two first registrations of a tenant both can become owner. Of two first SAML
  logins, or a SAML login beside a registration, each can see the other and none
  becomes owner. A tenant whose first account came through OIDC has no owner.
  `FirstIsOwner` is what holds whatever the interleaving.
- Register creates the row without a tenant and stamps it afterwards. In between, the
  same address cannot register in another tenant, and after a crash there it cannot
  until somebody removes the row. Two OIDC callbacks on two hosts that meet on a new
  account can move it from one tenant to the other.
- If the host's tenant cannot be looked up, the one in the body is used.
- UnlockAccount also reactivates the tombstone of an erased account; AssignRole
  accepts erased accounts; a revoked service account's token is good until it
  expires; the last owner of a tenant can be removed.

## Proofs

All proofs hold for every value of the constants under the modules' named
assumptions, which only say that bounds are natural numbers, that there is at
least one step and one attempt, and that the "none" values are not members.

**SagaProofs.** `Invariance` is the core. The properties are not inductive: that a
completed saga is whole depends on where the coordinator stood when it wrote the
head. The invariant therefore says that at most one process drives (`OneDriver`),
what each step row says about its effect (`StepEffect`), that completed steps form
a prefix (`Prefix`), what the head says about the steps (`HeadShape`), and for each
label what holds of the position there (`ForwardAt`, `UnwindAt`, `BackwardAt`),
with `Counted` for attempts and `Clean` for runs without interruption. From it
follow `TypeCorrect`, `OutcomeCorrect`, `AttemptsCorrect`, `CleanUnwindCorrect`,
`TerminalCorrect`, and `Refinement`: every step of the coordinator is a step of
`SagaPromise` or a stutter.

**WebhookProofs.** The queue first. The invariant adds to the properties what a pass holds:
rows with an attempt left (`Batches`), an outcome that may be saved as it is
(`Outcomes`), rows not created have no attempts (`Unqueued`), a row that was never
raced is in one hand and pending there (`Unraced`), and each of its acceptances is
recorded, unconfirmed or about to be saved (`Accounted`). `Accounted` says this
without counting, so that the induction needs no cardinalities; `HeldNone` and
`HeldOne` turn it into `DuplicatesAreExplained` at the end. Results: `TypeCorrect`,
`RowsCorrect`, `DeliveredCorrect`, `DuplicatesCorrect`, `FinalCorrect`.

Then the pipeline. The composition keeps the queue's invariant: a row created by the
consumer enters as the queue expects one. To it are added that a worker is in Enqueue exactly while it holds a message
(`Callbacks`), that an endpoint nobody touched is active (`Untouched`), and that a
worker past its listing still has every missing row on its list (`Listed`), which is
why the acknowledgement at the end of the list leaves none out. Results:
`PipelineTypes`, `AckedQueued`, and the queue's own theorems again under
`PipelineSpec` (`QueueInPipeline`, `FinalInPipeline`).

**ProjectionProofs.** What Project compared is the key's row until it writes, unless
the transaction is stale, and afterwards unless the key was overtaken (`Compared`);
an UPDATE that lost its row to a rebuild comes from a stale transaction
(`GoneIsStale`); a rebuild replaces the rows it holds by nothing older
(`RebuildGood`, from `SourceIsLater`: the replay ends with the newest published event,
which exists because the published sequence numbers are bounded, `Bounded`); and no
two transactions hold one row (`Exclusive`). Results: `ProjectionTypes`,
`AckedProjected`, `RowsNeverGoBack`.

**SessionsProofs.** For each session that was logged out, as long as the logout still
promises something about a process: the row outlives the tokens it is about, or they
have expired (`RowGood`); the process remembers the session as live only from before
the row was written (`CacheGood`); and a request about to cache or accept on a live
answer either asked before, or holds a token that has expired (`TaskKept`). The proofs
hold for any lifetimes and any RevocationTTL above zero. Results: `SessionsTypes`,
`OnlyAskedRevoked`, `LogoutHere`, `LogoutEverywhere`.

**IdempotentProofs.** One open claim per event and none beside a committed marker
(`OneClaim`); who acknowledges found the work committed (`AcksAreEarned`).
Results: `TypeCorrect`, `ExactlyOnce`, `NothingLost`, and `Refinement`: a commit, answered
or not, is the promise's Perform (by `OneClaim`), an acknowledgement its Settle (by
`AcksAreEarned`) or nothing when another delivery was faster, and a refusal or a crash
leaves every fate as it was. It needs one more invariant: only what parses was
acknowledged, and only what does not was terminated (`Fated`).

**KernelInvariant, KernelSteps, KernelProofs.** `CallbacksConfine` is about one statement: under a
tenant's context, on registered tables and outside the five forms of `Unconfined`, every
outcome stays within the tenant's rows; the statements include aliases and subqueries. `OwnRows` brings it to the running application. Its invariant
(`Audited`) says that, once the application serves, what the audit reported is what it
would report now, so a table with rows of tenants is scoped, reported or passed over.

The rest is one inductive invariant, `KernelInv` (`KernelHolds`). `KernelInvariant` states
it in parts that need one another. `KernelSteps` holds the storage callbacks, the
registry and what starting, continuing and ending an invocation does to the frames;
`KernelProofs` goes through the actions, adds start and shutdown, and draws the
properties from the invariant:

- the registry (`RegistryInv`): `RegistryAgrees` itself, and that what a version table
  records was created by a module with that table (`Recorded`, `Migrated`). A rollback
  and an Install that stops half way are shown, call by call, to leave what the property
  allows. `RegistryHolds`, `SchemaHolds` and
  `SchemaOfItsOwn` need this part only;
- the tree of invocations (`TreeInv`): parents are in use and come before their children
  (`Ranked`, without which "inside one another" could be a circle), each has a caller of
  its kind (`Placed`), and each waits for one other, for the subscriber at the head of its
  open dispatch or for a capability (`Awaits`);
- contexts (`ContextInv`): the chain of an invocation is its caller's, longer by a
  guest's capability (`Chained`); its grants are its own or its caller's (`Entitled`);
  guests call what these allow (`CallsGranted`) and note what they did in their own
  state (`Notes`);
- dispatches (`DispatchInv`): who has answered and who is still to be asked are together
  the subscribers, in order, and the verdict agrees with the answers so far (`Accounted`).
  This rests on lemmas about the recursive definitions: `Vetoes`, `LastValue` and
  `Ordered` grow by one step when their sequence does;
- start and shutdown (`PhaseInv`): what is up is the first n modules and what is left to
  stop the first k, with n and k as each phase allows (`Standing`); and who may still be
  running in each phase (`Admitted`).

A step of a handler either changes one frame and what waits for it, or starts one frame.
`FramesStep` and `FramesStart` say once what such a step must respect; the lemmas about
single actions only establish that. Then `Typed`, `VerdictsHold`, `ReentryHolds`,
`OwnHolds` and `PoolHolds` follow from the invariant in a state. For `NoReentry`, the
frames that wait are listed from the outermost inwards along `Ranked`, and the
capabilities of the guests among them are different members of one chain, whose length
is bounded. The assumptions are the shape of the catalogue (`CatalogueAssumption`), that
names of frames, origins, hook points and capabilities do not overlap
(`CallsAssumption`), and that the modules wired are in the catalogue and the tables in
`Tables` (`WiringAssumption`). Nothing is assumed of priorities, of what modules
consume, offer or subscribe to, or of how many frames there are.

**GatewayInvariant, GatewayProofs.** None of the
properties is inductive: each depends on what a request read some steps ago. The
invariant `IInv` says which handler a step belongs to and what it knows (`Routed`);
that what a request read is a row that exists, with a version equal to the endings it
had seen, and that a row a registration is still making has no tenant, link or token
(`Informed`); that no two requests hold such a row (`Exclusive`); that a registration
on its way to a member has seen an account in its tenant (`Ranked`); that the version
of every row counts its endings, and of every token those its login had seen
(`StoreGood`); and that a tenant without a founder has no account (`FounderGood`).
The first module states it; the second proves that the steps which only read keep it,
then that the writing steps do, request by request. `Types`, `First` and `Ends` follow
from it. `Once` needs one more invariant (`UsesGood`), and so does
`Holds` (`OwedGood`): a process that owes a refusal has no cached answer but
"suspended", no other answer on its way, and no registration about to provision.
Most leaves name Zenon, which needs no arithmetic and is much faster here than the
translation of these records for the SMT solver.

Only model-checked: the liveness properties (`Settles`, `EventsSettle`,
`EventuallyApplied`, `CatchesUp`), which need fairness and ENABLED. Every safety
property of a passing run is proved.

## Not modelled

`PROJECT.json` lists every part with its status. Left out, with the reason:

- Signatures, encryption, codecs, the protocols of OIDC and SAML, and the layout of
  guest memory: pure functions of libraries or of bytes, without state between calls.
  Where their result matters, a request may be refused at any step.
- Routing, rate limits, health checks, the API document, configuration, logging, the
  generators and the command-line tools: input and output, or text.
- The kernel's own migrations and the stores' SQL: a loop around a library, and a
  translation that `TenantScope` abstracts to what a statement reaches.
- The bulk replacement of role assignments, and role definitions outside the
  catalogue: no caller in the application.
- Time in `AuthGateway`: an entry of the cache may lapse at any moment, and a token
  may be refused at any time. `Sessions` has the clock.

Next in line would be a composition of `Sessions` with `AuthGateway` over one clock.
