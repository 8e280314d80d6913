---------------------------- MODULE TenantScope ----------------------------
(***************************************************************************)
(* What the storage callbacks of internal/platform/tenancy let a statement  *)
(* reach, and what the store adapter (internal/platform/storage) refuses     *)
(* before there is a statement.                                              *)
(*                                                                           *)
(* The outcome of a statement is a refusal, or the tenants whose rows it     *)
(* reads or writes.  Where the code leaves a choice open (the order in which *)
(* a sync.Map ranges) an operator returns every possible outcome.            *)
(***************************************************************************)
CONSTANTS
    Tenants,
    NoTenant,
    Tables,
    TenantTables,   \* the tables that hold rows of tenants
    AwareTables,    \* those whose model implements TenantAware
    NoTable         \* a name that is no table's

ASSUME TablesAssumption == AwareTables \subseteq TenantTables /\ TenantTables \subseteq Tables
ASSUME NoTenantAssumption == NoTenant \notin Tenants
ASSUME NoTableAssumption == NoTable \notin Tables

\* A context carries the caller's tenant; WithSystemContext marks some.
Contexts == [tenant : Tenants \cup {NoTenant}, system : BOOLEAN]

Conditions == {"valid", "bad field", "bad operator"}

\* A statement.
\*   by         with a model, or by a table's name into a map or a plain struct,
\*              or finished SQL
\*   called     the name GORM keeps in Statement.Table: the table's, or the alias
\*              of Table("contacts AS c")
\*   joins      the tables it reads beside its own (all of them, for SQL): joined,
\*              or in a subquery of Where, Select or a value
\*   mentions   the tables the text of its joins, or its SQL, contains
\*   records    the tenants the inserted records carry
\*   moves      the tenant an update's changes assign to tenant_id
\*   via        the connection, or the store handed to modules
\*   conditions what buildCondition makes of the conditions given to the store
Statements ==
    {s \in [op : {"query", "update", "delete", "create", "exec"},
            by : {"model", "name", "sql"},
            table : Tables,
            called : Tables \cup {NoTable},
            joins : SUBSET Tables,
            mentions : SUBSET Tables,
            records : SUBSET (Tenants \cup {NoTenant}),
            moves : Tenants \cup {NoTenant},
            via : {"connection", "store"},
            conditions : SUBSET Conditions] :
        /\ s.by = "sql" => s.joins \subseteq s.mentions
        /\ s.by = "sql" \/ s.op = "create" => s.called = s.table
        /\ s.op = "exec" => s.by = "sql"
        /\ s.op = "create" => s.by # "sql" /\ s.mentions = {}
        /\ s.op # "create" => s.records = {}
        /\ s.op # "update" => s.moves = NoTenant
        /\ s.via = "connection" => s.conditions = {}
        /\ s.via = "store" => s.by = "model" /\ s.called = s.table /\ s.joins = {} /\ s.mentions = {}}

Refused == [ok |-> FALSE, rows |-> {}]
Reaches(rows) == [ok |-> TRUE, rows |-> rows]

\* Everyone, when one of the tables holds rows of tenants.
Everyone(tables) == IF tables \cap TenantTables = {} THEN {} ELSE Tenants

\* An update may also write into the tenant its changes name.
Moved(s) == {s.moves} \ {NoTenant}

\* The predicate clauseForTenant adds names the statement's own table, by its
\* alias if it has one, and no other; whatever else it reads is read whole.
clauseForTenant(s, t) == Reaches({t} \cup Everyone(s.joins) \cup Moved(s))

Unscoped(s) == Reaches(Everyone({s.table} \cup s.joins) \cup Moved(s))

\* The model's type settles it; else the name is looked up, an alias as it is.
isScoped(s, scoped) ==
    \/ s.by = "model" /\ s.table \in AwareTables
    \/ s.called \in scoped

\* The scoped tables the text mentions: Range stops at any one of them.
scopedTableInSQL(s, scoped) == s.mentions \cap scoped

\* Whether a join is refused: only the scoped table Range stopped at is compared
\* with the name the statement's own goes by.
joinedScopedTable(s, scoped) ==
    IF scopedTableInSQL(s, scoped) = {}
    THEN {FALSE}
    ELSE {found # s.called : found \in scopedTableInSQL(s, scoped)}

\* Finished SQL takes no predicate: it is refused when it mentions a scoped table.
guardRaw(s, ctx, scoped) ==
    IF ~ctx.system /\ scopedTableInSQL(s, scoped) # {}
    THEN {Refused}
    ELSE {Reaches(Everyone(s.joins) \cup Moved(s))}

Query(s, ctx, scoped, joined) ==
    CASE joined -> Refused
      [] ~joined /\ ~isScoped(s, scoped) -> Unscoped(s)
      [] ~joined /\ isScoped(s, scoped) /\ ctx.tenant = NoTenant -> Refused
      [] OTHER -> clauseForTenant(s, ctx.tenant)

\* Reads, updates and deletes.
scopeQuery(s, ctx, scoped) ==
    CASE ctx.system /\ s.by # "sql" -> {Unscoped(s)}
      [] s.by = "sql" -> guardRaw(s, ctx, scoped)
      [] OTHER -> {Query(s, ctx, scoped, joined) : joined \in joinedScopedTable(s, scoped)}

\* eachRecord passes over records that are not TenantAware, a map for instance.
Stampable(s) == s.by = "model" /\ s.table \in AwareTables

Unstamped(s) == Reaches(Everyone(s.joins) \cup (IF s.table \in TenantTables THEN s.records \ {NoTenant} ELSE {}))

\* Every record is stamped with the caller's tenant; one that carries another
\* tenant refuses the whole insert.
stampCreate(s, ctx, scoped) ==
    CASE ~isScoped(s, scoped) \/ ctx.system -> {Unstamped(s)}
      [] isScoped(s, scoped) /\ ~ctx.system /\ ctx.tenant = NoTenant -> {Refused}
      [] isScoped(s, scoped) /\ ~ctx.system /\ ctx.tenant # NoTenant /\ ~Stampable(s) -> {Unstamped(s)}
      [] OTHER -> IF s.records \subseteq {NoTenant, ctx.tenant} THEN {Reaches({ctx.tenant} \cup Everyone(s.joins))} ELSE {Refused}

\* RegisterIsolation: the callback in front of each kind of statement.
Callbacks(s, ctx, scoped) ==
    CASE s.op = "create" -> stampCreate(s, ctx, scoped)
      [] s.op = "exec" -> guardRaw(s, ctx, scoped)
      [] OTHER -> scopeQuery(s, ctx, scoped)

-----------------------------------------------------------------------------
(* The store handed to modules. *)

\* A statement is refused before it reaches the callbacks: an update or a delete
\* without a condition, and a condition that does not translate.
Declines(s) ==
    /\ s.via = "store"
    /\ \/ s.op \in {"update", "delete"} /\ s.conditions = {}
       \/ s.op # "create" /\ s.conditions \cap {"bad field", "bad operator"} # {}

Outcomes(s, ctx, scoped) == IF Declines(s) THEN {Refused} ELSE Callbacks(s, ctx, scoped)

-----------------------------------------------------------------------------
(* The startup audit. *)

\* Mutant: only models that say so are audited (breaks OwnRowsOnly).
AuditAware(tables, unreadable, exempt, scoped) == ((tables \cap AwareTables) \ (scoped \cup exempt)) \ unreadable

\* Tables with a tenant column that nobody registered and nobody exempted.  A
\* table whose columns cannot be read is passed over.
AuditScopedModels(tables, unreadable, exempt, scoped) ==
    ((tables \cap TenantTables) \ (scoped \cup exempt)) \ unreadable

-----------------------------------------------------------------------------
(* What the callbacks promise. *)

\* The statements the callbacks cannot confine: an update that assigns
\* tenant_id, an insert of records that cannot be stamped, a join on the
\* statement's own table or whose text mentions it, an alias where no model says
\* whose rows they are, and a table read where no callback looks.
Unconfined(s) ==
    \/ s.moves # NoTenant
    \/ s.op = "create" /\ ~Stampable(s)
    \/ s.by # "sql" /\ s.called \in s.mentions
    \/ s.called # s.table /\ ~Stampable(s)
    \/ s.by # "sql" /\ ~(s.joins \subseteq s.mentions)

\* The statement touches no tenant's table that is missing from the registered
\* ones, other than its own through its model.
Registered(s, scoped) ==
    /\ (IF s.by = "sql" THEN s.joins ELSE s.mentions) \cap TenantTables \subseteq scoped
    /\ s.by # "sql" /\ s.table \in TenantTables => isScoped(s, scoped)

\* A statement under a tenant's context that is registered reaches no row of
\* another tenant, whichever table Range finds first.
Confined(s, ctx, scoped) ==
    \A o \in Outcomes(s, ctx, scoped) :
        ~ctx.system /\ Registered(s, scoped) /\ ~Unconfined(s) => o.rows \subseteq {ctx.tenant}
=============================================================================
