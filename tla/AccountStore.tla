---------------------------- MODULE AccountStore ----------------------------
(***************************************************************************)
(* The tables of the auth service: accounts, the links of external           *)
(* identities to them, service accounts, and the roles of a tenant; with the *)
(* statements the service executes on them, one operator per statement or    *)
(* transaction.                                                              *)
(*                                                                           *)
(* Identifiers are numbers, of accounts first and of service accounts after  *)
(* them.  An account's provider subject and its address are one value.  A    *)
(* password is set or not; whether the one presented matches is the          *)
(* request's choice.                                                         *)
(***************************************************************************)
EXTENDS Naturals, Sequences, TenantDirectory

CONSTANTS
    NoTenant,
    Emails,
    MaxAccounts, MaxMachines,   \* bounds: rows of accounts and service_accounts
    MaxEndings                  \* bound: token_version of an account

ASSUME StoreAssumption ==
    /\ NoTenant \notin Tenants
    /\ Emails \intersect {"none", "erased"} = {}
    /\ MaxAccounts \in Nat /\ MaxMachines \in Nat /\ MaxEndings \in Nat

VARIABLES
    accounts,   \* the row of each account; its address is "none" without a row
    links,      \* oidc_identities and saml_identities
    machines,   \* service_accounts
    held,       \* role_assignments: tenant, identity, role
    defined     \* role_definitions of each tenant

store == <<accounts, links, machines, held, defined>>

Ids == 1..MaxAccounts
MachineIds == (MaxAccounts + 1)..(MaxAccounts + MaxMachines)
NoId == 0
AllIds == {NoId} \union Ids \union MachineIds

Row(t, e, password, status, version) ==
    [tenant |-> t, email |-> e, password |-> password, status |-> status, version |-> version]
NoRow == Row(NoTenant, "none", "none", "locked", 0)
Rows == [tenant : Tenants \union {NoTenant}, email : Emails \union {"none", "erased"},
         password : {"set", "none"}, status : {"active", "locked"}, version : 0..MaxEndings]

Link(provider, sub, i) == [provider |-> provider, sub |-> sub, account |-> i]
Machine(t, status) == [tenant |-> t, status |-> status]
NoMachine == Machine(NoTenant, "none")

-----------------------------------------------------------------------------
(* Roles.  DefaultRoleCatalog, and what each of its roles permits.           *)

May(verb, resource) == [verb |-> verb, resource |-> resource]
Permissions == [verb : {"read", "write"},
                resource : {"webhooks", "service_accounts", "roles", "identities", "audit"}]

Catalog == <<"owner", "admin", "member", "viewer">>
RoleNames == {Catalog[k] : k \in 1..Len(Catalog)}

DefaultRoleCatalog ==
    [owner |-> Permissions,
     admin |-> {perm \in Permissions :
                    perm.resource \in {"webhooks", "service_accounts", "roles"}},
     member |-> {May("read", "webhooks"), May("read", "service_accounts")},
     viewer |-> {}]

Assignment(t, i, role) == [tenant |-> t, identity |-> i, role |-> role]

GetIdentityRoles(t, i) == {role \in RoleNames : Assignment(t, i, role) \in held}

\* What a role of the tenant permits, if it is defined.
GetRole(t, role) == IF role \in defined[t] THEN DefaultRoleCatalog[role] ELSE {}

\* The permission check of Kayan's role manager over this storage.  A role without
\* a definition makes it fail, unless it has already met one that grants.
HasPermission(t, i, perm) == \E role \in GetIdentityRoles(t, i) : perm \in GetRole(t, role)

\* SeedDefaultRoles defines the roles that are missing, in order, up to the first
\* statement that fails.
SeedDefaultRoles(t) ==
    \E n \in 0..Len(Catalog) :
        defined' = [defined EXCEPT ![t] = @ \union {Catalog[k] : k \in 1..n}]

\* AssignRole reads before it inserts, and the unique index decides a race.
AssignRole(t, i, role) == held' = held \union {Assignment(t, i, role)}

RevokeRole(t, i, role) == held' = held \ {Assignment(t, i, role)}

-----------------------------------------------------------------------------
(* Accounts.                                                                 *)

Exists(i) == accounts[i].email # "none"

\* Rows a statement with tenant_id = t can match.
AccountsIn(t) == {i \in Ids : Exists(i) /\ accounts[i].tenant = t}

\* idx_accounts_tenant_email; a tombstone address is never the same twice.
Taken(t, e) == \E i \in AccountsIn(t) : accounts[i].email = e

\* Mutant: a row that is not stamped yet counts too (breaks FirstIsOwner).
NoAccountYetHere(t) == AccountsIn(t) \union AccountsIn(NoTenant) = {}
\* The registration counts the tenant's accounts.
NoAccountYet(t) == AccountsIn(t) = {}

\* An identifier no row has, and room for it.
Room == \E i \in Ids : ~ Exists(i)
NextId == CHOOSE i \in Ids : ~ Exists(i)

\* Kayan's registration flow creates a row that belongs to no tenant.
Submit(e) ==
    /\ Room /\ ~ Taken(NoTenant, e)
    /\ accounts' = [accounts EXCEPT ![NextId] = Row(NoTenant, e, "set", "active", 0)]

\* UPDATE accounts SET tenant_id = t WHERE id = i
Stamps(i, t) == ~ \E j \in AccountsIn(t) \ {i} : accounts[j].email = accounts[i].email
Stamp(i, t) == Stamps(i, t) /\ accounts' = [accounts EXCEPT ![i].tenant = t]

Remove(i) == accounts' = [accounts EXCEPT ![i] = NoRow]

\* The account a provider's subject is linked to.
Linked(provider, sub) ==
    {i \in Ids : Link(provider, sub, i) \in links}

\* One transaction creates the account and its link, whose key is unique.
Enroll(provider, sub, t) ==
    /\ Room /\ ~ Taken(t, sub) /\ Linked(provider, sub) = {}
    /\ accounts' = [accounts EXCEPT ![NextId] = Row(t, sub, "none", "active", 0)]
    /\ links' = links \union {Link(provider, sub, NextId)}

-----------------------------------------------------------------------------
(* Operations on one account, and on service accounts.  Each is one update   *)
(* or one transaction that names the tenant beside the identifier.           *)

\* tenantOfAccount
Owns(t, i) == i \in AccountsIn(t)

Ended(row) == [row EXCEPT !.version = @ + 1]

LockAccount(i) == accounts' = [accounts EXCEPT ![i] = Ended([@ EXCEPT !.status = "locked"])]

UnlockAccount(i) == accounts' = [accounts EXCEPT ![i].status = "active"]

RevokeAllSessions(i) == accounts' = [accounts EXCEPT ![i] = Ended(@)]

Unlink(t, i) ==
    /\ held' = {a \in held : ~ (a.tenant = t /\ a.identity = i)}
    /\ links' = {l \in links : l.account # i}

\* Mutant: the row goes instead of becoming a tombstone (breaks EndedForGood).
DeleteAccountRow(t, i) ==
    /\ accounts' = [accounts EXCEPT ![i] = NoRow]
    /\ Unlink(t, i)
\* The row becomes a tombstone; roles and links go.
DeleteAccount(t, i) ==
    /\ accounts' = [accounts EXCEPT ![i] =
            Row(accounts[i].tenant, "erased", "none", "locked", accounts[i].version + 1)]
    /\ Unlink(t, i)

CreateServiceAccount(t) ==
    \E i \in MachineIds :
        /\ machines[i].status = "none"
        /\ machines' = [machines EXCEPT ![i] = Machine(t, "active")]

RevokeServiceAccount(t, i) ==
    /\ machines[i].tenant = t
    /\ machines' = [machines EXCEPT ![i].status = "revoked"]

FindIdentityByAPIKeyHash(i) == machines[i].status = "active"

-----------------------------------------------------------------------------
StoreTypeOK ==
    /\ accounts \in [Ids -> Rows]
    /\ links \subseteq [provider : {"oidc", "saml"}, sub : Emails, account : Ids]
    /\ machines \in [MachineIds -> [tenant : Tenants \union {NoTenant},
                                    status : {"none", "active", "revoked"}]]
    /\ held \subseteq [tenant : Tenants, identity : Ids \union MachineIds, role : RoleNames]
    /\ defined \in [Tenants -> SUBSET RoleNames]

\* A database in which some tenants have their owner already: the first accounts
\* registered, one for each row of a sequence of tenants and addresses.
Homes(owners) == {owners[k].tenant : k \in DOMAIN owners}
OwnerOf(owners, t) == CHOOSE k \in DOMAIN owners : owners[k].tenant = t

NewStore(owners) ==
    /\ accounts = [i \in Ids |-> IF i \in DOMAIN owners
            THEN Row(owners[i].tenant, owners[i].email, "set", "active", 0) ELSE NoRow]
    /\ links = {}
    /\ machines = [i \in MachineIds |-> NoMachine]
    /\ held = {Assignment(owners[k].tenant, k, "owner") : k \in DOMAIN owners}
    /\ defined = [t \in Tenants |-> IF t \in Homes(owners) THEN RoleNames ELSE {}]

=============================================================================
