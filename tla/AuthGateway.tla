---------------------------- MODULE AuthGateway ----------------------------
(***************************************************************************)
(* The requests that create, use and end sessions, step by step: the tenant  *)
(* check at the edge, registration, the four ways to log in, and what an     *)
(* authenticated caller does to accounts, roles and service accounts.  Every *)
(* statement on the database is a step; requests interleave between them,    *)
(* in one process or in several over one database.                           *)
(*                                                                           *)
(* Signatures, expiry and the revocation list of single sessions are the     *)
(* subject of Sessions; here a token is what its claims say and may be       *)
(* refused at any time.  A request may also end at any step, because a       *)
(* statement failed, the credential was wrong or the process died.           *)
(***************************************************************************)
EXTENDS AccountStore

CONSTANTS
    Workers,
    Attempts,           \* OIDC states and SAML sessions
    Deployments         \* configurations, with the requests they receive

Kinds == {"register", "login", "oauth", "saml"}

ASSUME DeploymentsAssumption ==
    \A d \in Deployments :
        /\ d.processes \subseteq Processes /\ d.provisioned \subseteq Tenants
        /\ d.hosts \subseteq Tenants /\ d.bodies \subseteq Tenants /\ d.idpTenant \in Tenants
        /\ d.kinds \subseteq Kinds \union {"operator"} /\ d.emails \subseteq Emails
        /\ d.targets \subseteq Ids \union MachineIds /\ d.roles \subseteq RoleNames
        /\ d.owners \in Seq([tenant : Tenants, email : Emails]) /\ Len(d.owners) <= MaxAccounts

VARIABLES
    deployment,
    attempts,           \* oidc_states and saml_sessions
    tokens,             \* every token signed so far
    req,                \* what each request is doing
    suspended,          \* tenants whose last SetStatus was a suspension (history)
    owed,               \* tenants each process must refuse (history)
    ended,              \* how often each account's sessions were ended (history)
    founder,            \* the first account of each tenant (history)
    uses                \* how many callbacks each attempt let through (history)

history == <<suspended, ended, founder, uses>>
rest == <<deployment, attempts, tokens>>
vars == <<directory, store, rest, req, owed, history>>

\* What a request has read of an account, with the endings it had seen by then
\* (history).
Read(i) == [id |-> i, tenant |-> accounts[i].tenant, status |-> accounts[i].status,
            version |-> accounts[i].version, seen |-> ended[i]]
Created(i, t) == [id |-> i, tenant |-> t, status |-> "active", version |-> 0, seen |-> 0]
NoAccount == Created(NoId, NoTenant)

Token(acc) == [sub |-> acc.id, tenant |-> acc.tenant, version |-> acc.version, seen |-> acc.seen]
NoToken == Token(NoAccount)

Op(name, target, role) == [name |-> name, target |-> target, role |-> role]
NoOp == Op("none", NoId, "none")

Idle == [step |-> "idle", kind |-> "none", at |-> "none", phase |-> "final",
         tenant |-> NoTenant, body |-> NoTenant, email |-> "none", found |-> "none",
         role |-> "none", acc |-> NoAccount, attempt |-> "none", tok |-> NoToken, op |-> NoOp]

Become(w, r) == req' = [req EXCEPT ![w] = r]
Go(w, step) == Become(w, [req[w] EXCEPT !.step = step])
Done(w) == Become(w, Idle)
At(w, step) == req[w].step = step

Founder(i, how) == [id |-> i, how |-> how]
NoFounder == Founder(NoId, "none")

Entering(t, i) == founder[t].how = "entering" /\ founder[t].id = i

\* An account enters a tenant; the first one is its founder (history).
Enters(t, i, how) ==
    founder' = [founder EXCEPT ![t] = IF @.how = "none" THEN Founder(i, how) ELSE @]

\* The founder's registration ends (history).
Becomes(i, how) ==
    founder' = [t \in Tenants |-> IF Entering(t, i) THEN Founder(i, how) ELSE founder[t]]

-----------------------------------------------------------------------------
(* The edge: which tenant an unauthenticated request is for, and whether it  *)
(* may be used.  The host's tenant is asked for first, where the deployment  *)
(* has a base domain; a refusal there falls back to the one the body names.  *)

Arrive(w, kind, p, host, body, e, a) ==
    /\ At(w, "idle")
    /\ kind \in deployment.kinds /\ p \in deployment.processes
    /\ host # NoTenant \/ body # NoTenant
    /\ Become(w, [Idle EXCEPT
            !.step = "ask", !.kind = kind, !.at = p, !.email = e, !.attempt = a,
            !.phase = IF host # NoTenant THEN "host" ELSE "final",
            !.tenant = IF host # NoTenant THEN host ELSE body,
            !.body = IF host # NoTenant THEN body ELSE NoTenant])
    /\ UNCHANGED <<directory, store, rest, history>>

\* handleRegister and handleLogin take the tenant from the host or from the body,
\* handleOAuthCallback from the host alone.
Submitted(w) ==
    \E kind \in {"register", "login"}, p \in Processes, e \in deployment.emails,
       host \in deployment.hosts \union {NoTenant}, body \in deployment.bodies \union {NoTenant} :
        Arrive(w, kind, p, host, body, e, "none")

Callback(w) ==
    \E p \in Processes, e \in deployment.emails, host \in deployment.hosts, a \in Attempts :
        /\ attempts[a] # "unused"
        /\ Arrive(w, "oauth", p, host, NoTenant, e, a)

\* The handler a request goes on to once its tenant is accepted.
Service == [register |-> "check", login |-> "find", oauth |-> "recall"]

\* What resolveTenant, checkTenant and the handler make of the directory's answer.
Resolved(r, t) == [r EXCEPT !.step = "ask", !.phase = "final", !.tenant = t, !.body = NoTenant,
                            !.found = "none"]
Answered(r, status) ==
    CASE r.phase = "host" /\ statusError(status) = "nil" -> Resolved(r, r.tenant)
      [] r.phase = "host" /\ statusError(status) # "nil" /\ r.body # NoTenant ->
            Resolved(r, r.body)
      [] r.phase = "final" /\ statusError(status) = "nil" ->
            [r EXCEPT !.step = Service[r.kind]]
      [] r.phase = "final" /\ statusError(status) = "unknown"
            /\ r.kind = "register" /\ deployment.selfProvision ->
            [r EXCEPT !.step = "provision"]
      [] OTHER -> Idle

\* Directory.Check: the cache, the table, and the cache again.
ask(w) ==
    /\ At(w, "ask")
    /\ IF Cached(req[w].at, req[w].tenant)
       THEN Become(w, Answered(req[w], cache[req[w].at][req[w].tenant]))
       ELSE Go(w, "lookup")
    /\ UNCHANGED <<directory, store, rest, history>>

lookup(w) ==
    /\ At(w, "lookup")
    /\ Become(w, [req[w] EXCEPT !.step = "keep", !.found = tenants[req[w].tenant]])
    /\ UNCHANGED <<directory, store, rest, history>>

\* Mutant: a failed lookup is remembered like an answer (breaks TypeOK).
lookupFailsCached(w) ==
    /\ At(w, "lookup")
    /\ remember(req[w].at, req[w].tenant, "failed")
    /\ Become(w, Answered(req[w], "failed"))
    /\ UNCHANGED <<tenants, store, rest, history>>
lookupFails(w) ==
    /\ At(w, "lookup")
    /\ Become(w, Answered(req[w], "failed"))
    /\ UNCHANGED <<directory, store, rest, history>>

keep(w) ==
    /\ At(w, "keep")
    /\ remember(req[w].at, req[w].tenant, req[w].found)
    /\ Become(w, Answered([req[w] EXCEPT !.found = "none"], req[w].found))
    /\ UNCHANGED <<tenants, store, rest, history>>

\* An operator provisions a tenant or changes its status; a registration may
\* provision too.  Both write first and drop the entry of their own process after.
Operate(w, p, t, name) ==
    /\ At(w, "idle") /\ "operator" \in deployment.kinds /\ p \in deployment.processes
    /\ Become(w, [Idle EXCEPT !.step = IF name = "provision" THEN name ELSE "status",
                              !.kind = "operator", !.at = p, !.tenant = t,
                              !.op = Op(name, NoId, "none")])
    /\ UNCHANGED <<directory, store, rest, history>>

provision(w) ==
    /\ At(w, "provision")
    /\ Provision(req[w].tenant)
    /\ Go(w, "forget")
    /\ UNCHANGED <<cache, store, rest, history>>

setStatus(w) ==
    /\ At(w, "status")
    /\ SetStatus(req[w].tenant, req[w].op.name)
    /\ suspended' = IF req[w].op.name = "suspended" THEN suspended \union {req[w].tenant}
                    ELSE suspended \ {req[w].tenant}
    /\ Go(w, "forget")
    /\ UNCHANGED <<cache, store, rest, ended, founder, uses>>

forget(w) ==
    /\ At(w, "forget")
    /\ invalidate(req[w].at, req[w].tenant)
    /\ IF req[w].kind = "register" THEN Go(w, "check") ELSE Done(w)
    /\ UNCHANGED <<tenants, store, rest, history>>

-----------------------------------------------------------------------------
(* Register.                                                                 *)

check(w) ==
    /\ At(w, "check")
    /\ IF Taken(req[w].tenant, req[w].email) THEN Done(w) ELSE Go(w, "count")
    /\ UNCHANGED <<directory, store, rest, history>>

count(w) ==
    /\ At(w, "count")
    /\ Become(w, [req[w] EXCEPT !.step = "submit",
                              !.role = IF NoAccountYet(req[w].tenant) THEN "owner" ELSE "member"])
    /\ UNCHANGED <<directory, store, rest, history>>

submit(w) ==
    /\ At(w, "submit")
    /\ Submit(req[w].email)
    /\ Become(w, [req[w] EXCEPT !.step = "stamp", !.acc = Created(NextId, NoTenant)])
    /\ UNCHANGED <<directory, links, machines, held, defined, rest, history>>

\* Where an account with a tenant gets its role.
Rank(r) == [r EXCEPT !.step = IF r.role = "owner" THEN "seed" ELSE "assign"]

stamp(w) ==
    /\ At(w, "stamp")
    /\ Stamp(req[w].acc.id, req[w].tenant)
    /\ Become(w, Rank([req[w] EXCEPT !.acc.tenant = req[w].tenant]))
    /\ Enters(req[w].tenant, req[w].acc.id, "entering")
    /\ UNCHANGED <<directory, links, machines, held, defined, rest, suspended, ended, uses>>

\* The address was taken in the meantime, or the update failed.
stampFails(w) ==
    /\ At(w, "stamp")
    /\ Go(w, "undo")
    /\ UNCHANGED <<directory, store, rest, history>>

undo(w) ==
    /\ At(w, "undo")
    /\ Remove(req[w].acc.id)
    /\ Done(w)
    /\ UNCHANGED <<directory, links, machines, held, defined, rest, history>>

\* A failure to seed or to assign is logged, and the request goes on.
seed(w) ==
    /\ At(w, "seed")
    /\ SeedDefaultRoles(req[w].tenant)
    /\ Go(w, "assign")
    /\ UNCHANGED <<directory, accounts, links, machines, held, rest, history>>

Enrolled(w) == IF req[w].kind = "saml" THEN Go(w, "sign") ELSE Done(w)

assign(w) ==
    /\ At(w, "assign")
    /\ AssignRole(req[w].tenant, req[w].acc.id, req[w].role)
    /\ Becomes(req[w].acc.id, req[w].role)
    /\ Enrolled(w)
    /\ UNCHANGED <<directory, accounts, links, machines, defined, rest, suspended, ended, uses>>

assignFails(w) ==
    /\ At(w, "assign")
    /\ Becomes(req[w].acc.id, "lost")
    /\ Enrolled(w)
    /\ UNCHANGED <<directory, store, rest, suspended, ended, uses>>

-----------------------------------------------------------------------------
(* Logging in: by password, through an OIDC provider, through a SAML         *)
(* provider, or with the key of a service account.  Each reads a row, and    *)
(* signs what it read.                                                       *)

Signs(r) == IF r.acc.status = "active" THEN [r EXCEPT !.step = "sign"] ELSE Idle

sign(w) ==
    /\ At(w, "sign")
    /\ tokens' = tokens \union {Token(req[w].acc)}
    /\ Done(w)
    /\ UNCHANGED <<directory, store, deployment, attempts, history>>

\* Login.
find(w) ==
    /\ At(w, "find")
    /\ \/ \E i \in AccountsIn(req[w].tenant) :
            /\ accounts[i].email = req[w].email /\ accounts[i].password = "set"
            /\ Become(w, Signs([req[w] EXCEPT !.acc = Read(i)]))
       \/ /\ ~ Taken(req[w].tenant, req[w].email)
          /\ Done(w)
    /\ UNCHANGED <<directory, store, rest, history>>

\* An attempt begins: GetOAuthURL stores a state, InitiateSAMLLogin a session.
Initiate(a, provider) ==
    /\ provider \in deployment.kinds /\ attempts[a] = "unused"
    /\ attempts' = [attempts EXCEPT ![a] = provider]
    /\ UNCHANGED <<directory, store, deployment, tokens, req, history>>
GetOAuthURL(a) == Initiate(a, "oauth")
InitiateSAMLLogin(a) == Initiate(a, "saml")

\* ConsumeOIDCState reads the state and deletes it, and its delete must find it.
\* Nothing asks that of the delete of a SAML session.
recall(w) ==
    /\ At(w, "recall")
    /\ IF attempts[req[w].attempt] = req[w].kind
       THEN Go(w, "consume")
       ELSE Done(w)
    /\ UNCHANGED <<directory, store, rest, history>>

Use(w) ==
    /\ attempts' = [attempts EXCEPT ![req[w].attempt] = "gone"]
    /\ uses' = [uses EXCEPT ![req[w].attempt] = IF req[w].kind = "oauth" THEN @ + 1 ELSE @]
    /\ Go(w, "load")

\* Mutant: the delete need not find the state (breaks AttemptOnce).
consumeBlindly(w) ==
    /\ At(w, "consume")
    /\ Use(w)
    /\ UNCHANGED <<directory, store, deployment, tokens, suspended, ended, founder>>
consume(w) ==
    /\ At(w, "consume")
    /\ LET stored == attempts[req[w].attempt] = req[w].kind
       IN  \/ (stored \/ req[w].kind = "saml") /\ Use(w)
           \/ /\ ~ stored /\ req[w].kind = "oauth"
              /\ Done(w)
              /\ UNCHANGED <<attempts, uses>>
    /\ UNCHANGED <<directory, store, deployment, tokens, suspended, ended, founder>>

\* HandleOAuthCallback, once it has an account: a member of the tenant goes on, an
\* account without a tenant is assigned to it, any other is refused.
Member(r) ==
    CASE r.acc.tenant = r.tenant -> Signs(r)
      [] r.acc.tenant = NoTenant -> [r EXCEPT !.step = "adopt"]
      [] OTHER -> Idle

Provider == [oauth |-> "oidc", saml |-> "saml"]

\* FindOrCreateByProviderSub and UserLoader: the account the subject is linked to.
load(w) ==
    /\ At(w, "load")
    /\ LET found == Linked(Provider[req[w].kind], req[w].email)
       IN  \/ \E i \in found :
                LET r == [req[w] EXCEPT !.acc = Read(i)]
                IN  Become(w, IF req[w].kind = "oauth" THEN Member(r) ELSE Signs(r))
           \/ found = {} /\ Go(w, "enroll")
    /\ UNCHANGED <<directory, store, rest, history>>

\* An OIDC account is created without a tenant, a SAML account in its provider's.
enroll(w) ==
    /\ At(w, "enroll")
    /\ LET t == IF req[w].kind = "oauth" THEN NoTenant ELSE req[w].tenant
       IN  /\ Enroll(Provider[req[w].kind], req[w].email, t)
           /\ Become(w, [req[w] EXCEPT !.acc = Created(NextId, t),
                            !.step = IF req[w].kind = "oauth" THEN "adopt" ELSE "others"])
    /\ IF req[w].kind = "oauth" THEN UNCHANGED founder ELSE Enters(req[w].tenant, NextId, "other")
    /\ UNCHANGED <<directory, machines, held, defined, rest, suspended, ended, uses>>

adopt(w) ==
    /\ At(w, "adopt")
    /\ Stamp(req[w].acc.id, req[w].tenant)
    /\ Become(w, Signs([req[w] EXCEPT !.acc.tenant = req[w].tenant]))
    /\ Enters(req[w].tenant, req[w].acc.id, "other")
    /\ UNCHANGED <<directory, links, machines, held, defined, rest, suspended, ended, uses>>

\* The response of a SAML provider, whose tenant is part of the configuration.
SAMLResponse(w) ==
    /\ At(w, "idle") /\ "saml" \in deployment.kinds
    /\ \E e \in deployment.emails, a \in Attempts :
        /\ attempts[a] # "unused"
        /\ Become(w, [Idle EXCEPT !.step = "recall", !.kind = "saml", !.email = e,
                                  !.attempt = a, !.tenant = deployment.idpTenant])
    /\ UNCHANGED <<directory, store, rest, history>>

\* UserFactory counts the tenant's other accounts after it has created this one.
others(w) ==
    /\ At(w, "others")
    /\ Become(w, Rank([req[w] EXCEPT
            !.role = IF AccountsIn(req[w].tenant) \ {req[w].acc.id} = {}
                     THEN "owner" ELSE "member"]))
    /\ UNCHANGED <<directory, store, rest, history>>

\* LoginWithAPIKey; the session names the service account and its tenant.
ServiceLogin(w, i) ==
    /\ At(w, "idle")
    /\ FindIdentityByAPIKeyHash(i)
    /\ Become(w, [Idle EXCEPT !.step = "sign", !.kind = "service",
                              !.acc = Created(i, machines[i].tenant)])
    /\ UNCHANGED <<directory, store, rest, history>>

-----------------------------------------------------------------------------
(* Authenticated requests: requireAuth and grpcAuthInterceptor, then         *)
(* requirePermission, then the operation.                                    *)

OnAccounts == {"lock", "unlock", "revokeSessions", "delete"}
OnSelf == {"deleteMe", "exportMe"}
OnRoles == {"assignRole", "revokeRole"}
OnMachines == {"createMachine", "revokeMachine"}

Needs(name) ==
    CASE name \in OnAccounts -> May("write", "identities")
      [] name \in OnRoles -> May("write", "roles")
      [] name \in OnMachines -> May("write", "service_accounts")

Present(w, tok, op) ==
    /\ At(w, "idle") /\ tok \in tokens
    /\ Become(w, [Idle EXCEPT !.step = "validate", !.kind = "call", !.tok = tok, !.op = op])
    /\ UNCHANGED <<directory, store, rest, history>>

\* The operations on the targets a path may name.
Request(w) ==
    \E tok \in tokens, name \in deployment.calls :
        \/ /\ name \in OnAccounts
           /\ \E i \in deployment.targets : Present(w, tok, Op(name, i, "none"))
        \/ name \in OnSelf /\ Present(w, tok, Op(name, tok.sub, "none"))
        \/ /\ name \in OnRoles
           /\ \E i \in deployment.targets, role \in deployment.roles :
                Present(w, tok, Op(name, i, role))
        \/ name = "createMachine" /\ Present(w, tok, Op(name, NoId, "none"))
        \/ name = "revokeMachine" /\ \E i \in MachineIds : Present(w, tok, Op(name, i, "none"))

\* ValidateForCaller: a subject without an account is a service account.
Valid(tok) ==
    tok.sub \in Ids /\ Exists(tok.sub) =>
        accounts[tok.sub].status = "active" /\ accounts[tok.sub].version = tok.version

Handler(name) == IF name \in OnAccounts \union OnSelf THEN "own" ELSE "act"

validate(w) ==
    /\ At(w, "validate")
    /\ IF Valid(req[w].tok)
       THEN Go(w, IF req[w].op.name \in OnSelf THEN "own" ELSE "permit")
       ELSE Done(w)
    /\ UNCHANGED <<directory, store, rest, history>>

permit(w) ==
    /\ At(w, "permit")
    /\ IF HasPermission(req[w].tok.tenant, req[w].tok.sub, Needs(req[w].op.name))
       THEN Go(w, Handler(req[w].op.name))
       ELSE Done(w)
    /\ UNCHANGED <<directory, store, rest, history>>

\* tenantOfAccount: the target must belong to the caller's tenant.
own(w) ==
    /\ At(w, "own")
    /\ IF req[w].op.target \in Ids /\ Owns(req[w].tok.tenant, req[w].op.target)
          /\ req[w].op.name # "exportMe"
       THEN Go(w, "write") ELSE Done(w)
    /\ UNCHANGED <<directory, store, rest, history>>

Ending(name) == name \in {"lock", "revokeSessions", "delete", "deleteMe"}

write(w) ==
    LET t == req[w].tok.tenant
        i == req[w].op.target
        name == req[w].op.name
    IN  /\ At(w, "write") /\ Owns(t, i)
        /\ Ending(name) => ended[i] < MaxEndings
        /\ \/ name = "lock" /\ LockAccount(i) /\ UNCHANGED <<links, held>>
           \/ name = "unlock" /\ UnlockAccount(i) /\ UNCHANGED <<links, held>>
           \/ name = "revokeSessions" /\ RevokeAllSessions(i) /\ UNCHANGED <<links, held>>
           \/ name \in {"delete", "deleteMe"} /\ DeleteAccount(t, i)
        /\ ended' = IF Ending(name) THEN [ended EXCEPT ![i] = @ + 1] ELSE ended
        /\ Done(w)
        /\ UNCHANGED <<directory, machines, defined, rest, suspended, founder, uses>>

act(w) ==
    LET t == req[w].tok.tenant
        op == req[w].op
    IN  /\ At(w, "act")
        /\ \/ op.name = "assignRole" /\ AssignRole(t, op.target, op.role) /\ UNCHANGED machines
           \/ op.name = "revokeRole" /\ RevokeRole(t, op.target, op.role) /\ UNCHANGED machines
           \/ op.name = "createMachine" /\ CreateServiceAccount(t) /\ UNCHANGED held
           \/ op.name = "revokeMachine" /\ RevokeServiceAccount(t, op.target) /\ UNCHANGED held
        /\ Done(w)
        /\ UNCHANGED <<directory, accounts, links, defined, rest, history>>

-----------------------------------------------------------------------------
\* A request ends early: its statement failed, its credential or its provider's
\* answer was refused, or its process died.
Abandon(w) ==
    /\ ~ At(w, "idle")
    /\ Done(w)
    /\ IF req[w].step \in {"seed", "assign"} THEN Becomes(req[w].acc.id, "lost")
       ELSE UNCHANGED founder
    /\ UNCHANGED <<directory, store, rest, suspended, ended, uses>>

\* Entries lapse, and a restart loses them all.
LapseAny ==
    /\ \E p \in Processes, t \in Tenants : Lapse(p, t)
    /\ UNCHANGED <<store, rest, req, history>>

Edge(w) ==
    \/ Submitted(w) \/ Callback(w) \/ ask(w) \/ lookup(w) \/ lookupFails(w) \/ keep(w)
    \/ \E p \in Processes, t \in Tenants, name \in {"provision", "active", "suspended"} :
            Operate(w, p, t, name)
    \/ provision(w) \/ setStatus(w) \/ forget(w)

Register(w) ==
    \/ check(w) \/ count(w) \/ submit(w) \/ stamp(w) \/ stampFails(w) \/ undo(w)
    \/ seed(w) \/ assign(w) \/ assignFails(w)

Login(w) ==
    \/ find(w) \/ recall(w) \/ consume(w) \/ load(w) \/ enroll(w) \/ adopt(w)
    \/ SAMLResponse(w) \/ others(w) \/ sign(w)
    \/ \E i \in MachineIds : ServiceLogin(w, i)

Call(w) == Request(w) \/ validate(w) \/ permit(w) \/ own(w) \/ write(w) \/ act(w)

Step ==
    \/ LapseAny
    \/ \E a \in Attempts : GetOAuthURL(a) \/ InitiateSAMLLogin(a)
    \/ \E w \in Workers : Edge(w) \/ Register(w) \/ Login(w) \/ Call(w) \/ Abandon(w)

\* A process holds nothing that could let a suspended tenant in: no entry, no
\* answer on its way to the cache, and no provisioning under way.
Clean(p, t) ==
    /\ cache[p][t] \in {"empty", "suspended"}
    /\ \A w \in Workers : req[w].at = p /\ req[w].tenant = t =>
            req[w].found \in {"none", "suspended"} /\ req[w].step \notin {"provision", "forget"}

Owed == owed' = [p \in Processes |->
            {t \in Tenants : t \in suspended' /\ (t \in owed[p] \/ Clean(p, t)')}]

Next == Step /\ Owed

Init ==
    /\ deployment \in Deployments
    /\ NewDirectory(deployment.provisioned)
    /\ NewStore(deployment.owners)
    /\ attempts = [a \in Attempts |-> "unused"]
    /\ tokens = {}
    /\ req = [w \in Workers |-> Idle]
    /\ suspended = {}
    /\ owed = [p \in Processes |-> {}]
    /\ ended = [i \in Ids |-> 0]
    /\ founder = [t \in Tenants |->
            IF t \in Homes(deployment.owners) THEN Founder(OwnerOf(deployment.owners, t), "owner")
            ELSE NoFounder]
    /\ uses = [a \in Attempts |-> 0]

Spec == Init /\ [][Next]_vars

-----------------------------------------------------------------------------
Homed == Tenants \union {NoTenant}
OpNames == {"none", "provision", "active", "suspended"}
    \union OnAccounts \union OnSelf \union OnRoles \union OnMachines

Steps == {"idle", "ask", "lookup", "keep", "provision", "status", "forget", "check", "count",
          "submit", "stamp", "undo", "seed", "assign", "find", "sign", "recall", "consume",
          "load", "enroll", "adopt", "others", "validate", "permit", "own", "write", "act"}
Tokens == [sub : Ids \union MachineIds, tenant : Tenants,
           version : 0..MaxEndings, seen : 0..MaxEndings]
Reads == [id : AllIds, tenant : Homed, status : {"active", "locked"},
          version : 0..MaxEndings, seen : 0..MaxEndings]
Ops == [name : OpNames \ OnRoles, target : AllIds, role : {"none"}]
    \union [name : OnRoles, target : Ids \union MachineIds, role : RoleNames]
Requests ==
    [step : Steps, kind : {"none", "operator", "service", "call"} \union Kinds,
     at : Processes \union {"none"}, phase : {"host", "final"},
     tenant : Homed, body : Homed, email : Emails \union {"none"},
     found : Statuses \union {"none"}, role : {"none", "owner", "member"},
     acc : Reads, attempt : Attempts \union {"none"}, tok : Tokens \union {NoToken}, op : Ops]

\* The type of the variables.  An answer of the directory is a status of a row or the
\* absence of one: a lookup that failed is never remembered as an answer.
TypeOK ==
    /\ DirectoryTypeOK
    /\ StoreTypeOK
    /\ deployment \in Deployments
    /\ attempts \in [Attempts -> {"unused", "oauth", "saml", "gone"}]
    /\ tokens \subseteq Tokens
    /\ req \in [Workers -> Requests]
    /\ suspended \subseteq Tenants
    /\ owed \in [Processes -> SUBSET Tenants]
    /\ ended \in [Ids -> 0..MaxEndings]
    /\ founder \in [Tenants -> [id : {NoId} \union Ids,
                               how : {"none", "entering", "owner", "member", "other", "lost"}]]
    /\ uses \in [Attempts -> Nat]

\* The edge lets a request through to the service.
Admits(w) ==
    /\ req[w].step \in {"ask", "lookup", "keep", "forget"} /\ req[w].kind # "operator"
    /\ req'[w].step = Service[req[w].kind]

\* "A suspended one is an operator decision and is never overridden by a registration"
\* (handleRegister), nor by a provisioning that is retried (Provision).  From the moment
\* on at which a process holds no answer older than the suspension, in its cache or on
\* the way there, it lets no registration, password login or OIDC callback into the
\* tenant until the operator reactivates it, whatever else provisions, looks up, fails
\* to look up, lapses or names another tenant in the host meanwhile.
SuspensionHolds ==
    [][\A w \in Workers : Admits(w) => req[w].tenant \notin owed[req[w].at]]_vars

\* LockAccount "invalidates every session already issued to it, immediately", and so do
\* RevokeAllSessions and the two erasures.  ValidateForCaller accepts a token of an
\* account only if no ending of its sessions was committed after the login behind the
\* token read the account's row; a login that was under way when the account was locked,
\* and an unlock after the lock, make no difference.
EndedForGood ==
    [][\A w \in Workers :
        At(w, "validate") /\ req'[w].step \in {"permit", "own"} =>
            (req[w].tok.sub \in Ids => req[w].tok.seen = ended[req[w].tok.sub])]_vars

\* "The very first account in a tenant needs a way to grant every other role" (Register).
\* The account that is the first to enter a tenant, if it enters by registering, is never
\* given the role of a mere member, whatever registers, fails and is undone around it, in
\* this tenant or another.  (A failed assignment leaves it without a role.)
FirstIsOwner == \A t \in Tenants : founder[t].how # "member"

\* "Two concurrent callbacks for the same state resolve to exactly one success"
\* (ConsumeOIDCState): a state lets one callback through, whatever the interleaving of
\* the reads and the deletes.
AttemptOnce == \A a \in Attempts : uses[a] <= 1

=============================================================================
