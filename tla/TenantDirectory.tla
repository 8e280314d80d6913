-------------------------- MODULE TenantDirectory --------------------------
(***************************************************************************)
(* The tenant directory: the table of tenants, and the cache of each         *)
(* process in front of it.                                                   *)
(*                                                                           *)
(* The status "suspended" stands for every status but active: archived       *)
(* tenants are refused the same way.  A cached answer lapses once it is      *)
(* DirectoryTTL old; the model lets it lapse at any moment, and the          *)
(* properties say what holds once it has.                                    *)
(***************************************************************************)

CONSTANTS Tenants, Processes

VARIABLES
    tenants,    \* the status in each tenant's row, "absent" without a row
    cache       \* cachedTenant of each process and tenant, "empty" without an entry

directory == <<tenants, cache>>

Statuses == {"absent", "active", "suspended"}

DirectoryTypeOK ==
    /\ tenants \in [Tenants -> Statuses]
    /\ cache \in [Processes -> [Tenants -> Statuses \union {"empty"}]]

NewDirectory(provisioned) ==
    /\ tenants = [t \in Tenants |-> IF t \in provisioned THEN "active" ELSE "absent"]
    /\ cache = [p \in Processes |-> [t \in Tenants |-> "empty"]]

Cached(p, t) == cache[p][t] # "empty"

remember(p, t, status) == cache' = [cache EXCEPT ![p][t] = status]

invalidate(p, t) == remember(p, t, "empty")

\* An entry reaches its time to live.
Lapse(p, t) ==
    /\ Cached(p, t)
    /\ invalidate(p, t)
    /\ UNCHANGED tenants

\* Check's answer from a status: nil, ErrUnknownTenant or ErrTenantNotActive.
\* "failed" is a lookup that returned an error.
statusError(status) ==
    CASE status = "active" -> "nil"
      [] status = "absent" -> "unknown"
      [] status = "suspended" -> "notActive"
      [] status = "failed" -> "failed"

\* Mutant: an existing row is made active again (breaks SuspensionHolds).
ProvisionRevives(t) == tenants' = [tenants EXCEPT ![t] = "active"]
\* FirstOrCreate of the tenant's row: an existing one keeps its status.
Provision(t) == tenants' = [tenants EXCEPT ![t] = IF @ = "absent" THEN "active" ELSE @]

\* The update of SetStatus; without a row it answers ErrUnknownTenant.
SetStatus(t, status) ==
    /\ tenants[t] # "absent"
    /\ tenants' = [tenants EXCEPT ![t] = status]

=============================================================================
