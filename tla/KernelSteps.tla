---------------------------- MODULE KernelSteps -----------------------------
(***************************************************************************)
(* Proofs about the kernel, for every catalogue of modules, any number of    *)
(* frames and every set of tenants and tables: what the storage callbacks    *)
(* confine and the startup audit finds; what a registration does to the      *)
(* registry; and how the frames move when a call, a host call or a dispatch  *)
(* starts, goes on or ends.                                                  *)
(***************************************************************************)
EXTENDS KernelInvariant, WellFoundedInduction, TLAPS

-----------------------------------------------------------------------------
(* Sequences.                                                                *)

\* What a sequence is.
LEMMA SeqIs ==
    ASSUME NEW S, NEW s \in Seq(S)
    PROVE  Len(s) \in Nat /\ DOMAIN s = 1..Len(s) /\ s \in [1..Len(s) -> S]
OBVIOUS

\* A sequence of members of a larger set.
LEMMA SeqWidens ==
    ASSUME NEW S, NEW T, NEW s \in Seq(S), S \subseteq T
    PROVE  s \in Seq(T)
OBVIOUS

\* Append keeps the type.
LEMMA SeqAppends ==
    ASSUME NEW S, NEW s \in Seq(S), NEW e \in S
    PROVE  Append(s, e) \in Seq(S)
OBVIOUS

\* One sequence after another.
LEMMA SeqJoins ==
    ASSUME NEW S, NEW s \in Seq(S), NEW t \in Seq(S)
    PROVE  /\ s \o t \in Seq(S) /\ Len(s \o t) = Len(s) + Len(t)
           /\ \A i \in 1..(Len(s) + Len(t)) : (s \o t)[i] = IF i <= Len(s) THEN s[i] ELSE t[i - Len(s)]
OBVIOUS

\* Sequences with the same elements are the same.
LEMMA SeqSame ==
    ASSUME NEW S, NEW s \in Seq(S), NEW t \in Seq(S), Len(s) = Len(t),
           \A i \in 1..Len(s) : s[i] = t[i]
    PROVE  s = t
OBVIOUS

\* Which two are joined first does not matter.
LEMMA SeqAssociates ==
    ASSUME NEW S, NEW s \in Seq(S), NEW t \in Seq(S), NEW u \in Seq(S)
    PROVE  (s \o t) \o u = s \o (t \o u)
<1> DEFINE a == (s \o t) \o u
           b == s \o (t \o u)
<1>1. a \in Seq(S) /\ b \in Seq(S) /\ Len(a) = Len(b)
  OBVIOUS
<1>2. ASSUME NEW i \in 1..Len(a) PROVE a[i] = b[i]
  OBVIOUS
<1> HIDE DEF a, b
<1>3. a = b
  BY <1>1, <1>2, SeqSame
<1> QED
  BY <1>3 DEF a, b

\* A part of a sequence.
LEMMA SeqParts ==
    ASSUME NEW S, NEW s \in Seq(S), NEW m \in Int, NEW n \in Int, \A i \in m..n : s[i] \in S
    PROVE  SubSeq(s, m, n) \in Seq(S)
OBVIOUS

Below == {pair \in Nat \X Nat : pair[1] < pair[2]}

\* The least-number principle, for sets.
LEMMA Least ==
    ASSUME NEW T, T \subseteq Nat, T # {}
    PROVE  \E x \in T : \A y \in T : ~(y < x)
<1>1. OpToRel(<, Nat) = Below
  BY DEF OpToRel, Below
<1>2. IsWellFoundedOn(Below, Nat)
  BY <1>1, NatLessThanWellFounded, Zenon
<1>3. PICK x \in T : \A y \in T : ~(<<y, x>> \in Below)
  BY <1>2, WFMin, Zenon
<1> QED
  BY <1>3, Zenon DEF Below

\* Induction, for sets.
LEMMA SetInduction ==
    ASSUME NEW S, 0 \in S, \A n \in Nat : n \in S => n + 1 \in S
    PROVE  Nat \subseteq S
<1> DEFINE T == Nat \ S
<1> SUFFICES ASSUME T # {} PROVE FALSE
  BY Zenon
<1>1. PICK x \in T : \A y \in T : ~(y < x)
  <2>1. T \subseteq Nat
    BY Zenon
  <2> HIDE DEF T
  <2> QED
    BY <2>1, Least, Zenon
<1>2. x \in Nat /\ x # 0
  BY Zenon
<1>3. x - 1 \in Nat /\ x - 1 + 1 = x /\ x - 1 < x
  BY <1>2
<1>4. x - 1 \in S
  BY <1>1, <1>3, Zenon
<1> QED
  BY <1>2, <1>3, <1>4, Zenon

\* What a sequence holds after Append.
LEMMA AppendIs ==
    ASSUME NEW S, NEW s \in Seq(S), NEW x \in S
    PROVE  Range(Append(s, x)) = Range(s) \union {x}
<1>1. /\ DOMAIN s = 1..Len(s) /\ DOMAIN Append(s, x) = 1..(Len(s) + 1) /\ Len(s) \in Nat
      /\ \A i \in 1..Len(s) : Append(s, x)[i] = s[i]
      /\ Append(s, x)[Len(s) + 1] = x
  OBVIOUS
<1>2. \A i \in 1..(Len(s) + 1) : i \in 1..Len(s) \/ i = Len(s) + 1
  BY <1>1
<1>3. Len(s) + 1 \in 1..(Len(s) + 1) /\ 1..Len(s) \subseteq 1..(Len(s) + 1)
  BY <1>1
<1> QED
  BY <1>1, <1>2, <1>3, Zenon DEF Range

-----------------------------------------------------------------------------
(* The callbacks.                                                            *)

\* A table that holds no tenant's rows gives no tenant away.
LEMMA NobodyElse ==
    ASSUME NEW T, T \intersect TenantTables = {}
    PROVE  Everyone(T) = {}
BY Zenon DEF Everyone

\* Finished SQL, read or executed: guardRaw refuses it, or it reads no tenant's table.
LEMMA RawConfined ==
    ASSUME NEW s \in Statements, NEW sc, NEW ctx \in Contexts,
           ~ ctx.system, s.by = "sql", Registered(s, sc), ~ Unconfined(s),
           NEW o \in guardRaw(s, ctx, sc)
    PROVE  o.rows \subseteq {ctx.tenant}
<1>1. s.joins \subseteq s.mentions /\ s.joins \intersect TenantTables \subseteq sc
  BY Zenon DEF Statements, Registered
<1>2. Moved(s) = {}
  BY Zenon DEF Moved, Unconfined
<1>3. CASE scopedTableInSQL(s, sc) = {}
  <2>1. Everyone(s.joins) = {}
    BY <1>1, <1>3, NobodyElse, Zenon DEF scopedTableInSQL
  <2> QED
    BY <1>2, <1>3, <2>1 DEF guardRaw, Reaches
<1>4. CASE scopedTableInSQL(s, sc) # {}
  BY <1>4 DEF guardRaw, Refused
<1> QED
  BY <1>3, <1>4, Zenon

\* Reads, updates and deletes through a model or a table's name: the joins are refused,
\* whichever registered table is found first, or they read no tenant's table.
LEMMA QueryConfined ==
    ASSUME NEW s \in Statements, NEW sc, NEW ctx \in Contexts,
           ~ ctx.system, s.by # "sql", Registered(s, sc), ~ Unconfined(s),
           NEW o \in scopeQuery(s, ctx, sc)
    PROVE  o.rows \subseteq {ctx.tenant}
<1>1. PICK joined \in joinedScopedTable(s, sc) : o = Query(s, ctx, sc, joined)
  BY Zenon DEF scopeQuery
<1>2. Moved(s) = {}
  BY Zenon DEF Moved, Unconfined
<1>3. s.called \notin s.mentions /\ s.joins \subseteq s.mentions
  BY Zenon DEF Unconfined
<1>4. CASE scopedTableInSQL(s, sc) # {}
  <2>1. joined = TRUE
    BY <1>1, <1>3, <1>4, Zenon DEF joinedScopedTable, scopedTableInSQL
  <2> QED
    BY <1>1, <2>1, Zenon DEF Query, Refused
<1>5. CASE scopedTableInSQL(s, sc) = {}
  <2>1. joined = FALSE
    BY <1>1, <1>5, Zenon DEF joinedScopedTable
  <2>2. s.joins \intersect TenantTables = {}
    BY <1>3, <1>5, Zenon DEF Registered, scopedTableInSQL
  <2>3. CASE isScoped(s, sc)
    <3>1. Everyone(s.joins) = {}
      BY <2>2, NobodyElse, Zenon
    <3> QED
      BY <1>1, <1>2, <2>1, <2>3, <3>1, Zenon DEF Query, Refused, clauseForTenant, Reaches
  <2>4. CASE ~ isScoped(s, sc)
    <3>1. ({s.table} \union s.joins) \intersect TenantTables = {}
      BY <2>2, <2>4, Zenon DEF Registered
    <3>2. Everyone({s.table} \union s.joins) = {}
      BY <3>1, NobodyElse, Zenon
    <3> QED
      BY <1>1, <1>2, <2>1, <2>4, <3>2, Zenon DEF Query, Unscoped, Reaches
  <2> QED
    BY <2>3, <2>4, Zenon
<1> QED
  BY <1>4, <1>5, Zenon

\* Inserts of records the callback can stamp.
LEMMA CreateConfined ==
    ASSUME NEW s \in Statements, NEW sc, NEW ctx \in Contexts,
           ~ ctx.system, s.op = "create", ~ Unconfined(s),
           NEW o \in stampCreate(s, ctx, sc)
    PROVE  o.rows \subseteq {ctx.tenant}
<1>1. Stampable(s) /\ isScoped(s, sc)
  BY Zenon DEF Unconfined, Stampable, isScoped
<1>2. s.joins = {}
  BY Zenon DEF Unconfined, Statements
<1>3. Everyone(s.joins) = {}
  BY <1>2, NobodyElse, Zenon
<1> QED
  BY <1>1, <1>3 DEF stampCreate, Refused, Reaches

\* A statement made under a tenant's context, on tables that are registered, reaches
\* no other tenant's rows, whatever its kind and however it is addressed, by a model,
\* a name, an alias or finished SQL, with joins and subqueries, unless it has one of
\* the forms Unconfined names: what RegisterIsolation's callbacks achieve, for every
\* schema.
THEOREM CallbacksConfine ==
    ASSUME NEW s \in Statements, NEW sc, NEW ctx \in Contexts
    PROVE  Confined(s, ctx, sc)
<1> SUFFICES ASSUME NEW o \in Outcomes(s, ctx, sc),
                    ~ ctx.system, Registered(s, sc), ~ Unconfined(s)
             PROVE  o.rows \subseteq {ctx.tenant}
  BY Zenon DEF Confined
<1>1. CASE Declines(s)
  BY <1>1 DEF Outcomes, Refused
<1>2. CASE ~ Declines(s) /\ s.op = "create"
  BY <1>2, CreateConfined, Zenon DEF Outcomes, Callbacks
<1>3. CASE ~ Declines(s) /\ s.op = "exec"
  <2>1. s.by = "sql"
    BY <1>3, Zenon DEF Statements
  <2> QED
    BY <1>3, <2>1, RawConfined, Zenon DEF Outcomes, Callbacks
<1>4. CASE ~ Declines(s) /\ s.op \notin {"create", "exec"}
  <2>1. o \in scopeQuery(s, ctx, sc)
    BY <1>4, Zenon DEF Outcomes, Callbacks
  <2>2. CASE s.by = "sql"
    BY <2>1, <2>2, RawConfined, Zenon DEF scopeQuery
  <2>3. CASE s.by # "sql"
    BY <2>1, <2>3, QueryConfined, Zenon
  <2> QED
    BY <2>2, <2>3, Zenon
<1> QED
  BY <1>1, <1>2, <1>3, <1>4, Zenon

-----------------------------------------------------------------------------
(* The audit.                                                                *)

\* What the audit reported is still what it would report: nothing is created and
\* nothing is registered once the kernel serves.
Audited ==
    phase = "serving" => findings = AuditScopedModels(tables, Unreadable, Exempt, scoped)

\* Every step keeps the audit's report true.
LEMMA AuditedStep == Audited /\ [Next]_vars => Audited'
<1> SUFFICES ASSUME Audited, [Next]_vars, phase' = "serving"
             PROVE  findings' = AuditScopedModels(tables', Unreadable, Exempt, scoped')
  BY Zenon DEF Audited, AuditScopedModels
<1> USE DEF Audited, regVars, appVars
<1>1. CASE Wire
  BY <1>1, Zenon DEF Wire
<1>2. CASE Start
  BY <1>2, Zenon DEF Start
<1>3. CASE StartModule
  BY <1>3, Zenon DEF StartModule
<1>4. CASE FinishStart
  BY <1>4, Zenon DEF FinishStart
<1>5. CASE \E c \in Capabilities : Dispatched(c) \/ GRPCCall(c)
  BY <1>5, Zenon DEF Dispatched, GRPCCall, BridgeCall
<1>6. CASE \E m \in Modules : Job(m)
  BY <1>6, Zenon DEF Job
<1>7. CASE \E f \in Live, e \in Events : Publish(f, e)
  BY <1>7, Zenon DEF Publish
<1>8. CASE Run
  BY <1>8, Zenon DEF Run
<1>9. CASE Shutdown \/ GracefulStop \/ CloseEvents \/ ShutdownWithContext \/ ClosePool
  BY <1>9, Zenon DEF Shutdown, GracefulStop, CloseEvents, ShutdownWithContext, ClosePool
<1>10. CASE DrainEnds \/ ConsumerEnds
  BY <1>10, Zenon DEF DrainEnds, ConsumerEnds
<1>11. CASE StopModule
  BY <1>11, Zenon DEF StopModule
<1>12. CASE Exited \/ UNCHANGED vars
  BY <1>12, Zenon DEF Exited, vars
<1> QED
  BY <1>1, <1>2, <1>3, <1>4, <1>5, <1>6, <1>7, <1>8, <1>9, <1>10, <1>11, <1>12, Zenon DEF Next

\* What the audit did not report, the callbacks confine.
LEMMA AuditedIsOwn == Audited => OwnRowsOnly
<1> SUFFICES ASSUME Audited, phase = "serving", NEW s \in Issued, NEW t \in Tenants
             PROVE  LET touched == s.mentions \union (IF s.by = "sql" THEN {} ELSE {s.table})
                    IN  touched \subseteq tables /\ ~ Unconfined(s) =>
                        \A o \in Outcomes(s, [tenant |-> t, system |-> FALSE], scoped) :
                            \/ o.rows \subseteq {t}
                            \/ touched \intersect (findings \union Exempt \union Unreadable) # {}
  BY Zenon DEF OwnRowsOnly
<1> DEFINE touched == s.mentions \union (IF s.by = "sql" THEN {} ELSE {s.table})
           ctx == [tenant |-> t, system |-> FALSE]
<1> SUFFICES ASSUME touched \subseteq tables, ~ Unconfined(s),
                    NEW o \in Outcomes(s, ctx, scoped),
                    touched \intersect (findings \union Exempt \union Unreadable) = {}
             PROVE  o.rows \subseteq {t}
  BY Zenon
<1>1. s \in Statements
  BY IssuedAssumption, Zenon
<1>2. ctx \in Contexts /\ ctx.tenant = t /\ ~ ctx.system
  BY Zenon DEF Contexts
<1>3. touched \intersect TenantTables \subseteq scoped
  BY Zenon DEF Audited, AuditScopedModels
<1>4. Registered(s, scoped)
  <2>1. s.joins \subseteq s.mentions
    BY <1>1, Zenon DEF Statements, Unconfined
  <2>2. s.called # s.table => Stampable(s)
    BY Zenon DEF Unconfined
  <2> QED
    BY <1>3, <2>1, <2>2, Zenon DEF Registered, isScoped, Stampable
<1>5. Confined(s, ctx, scoped)
  BY <1>1, <1>2, CallbacksConfine, Zenon
<1> QED
  BY <1>2, <1>4, <1>5, Zenon DEF Confined

\* Once the kernel serves, a statement made for a tenant reaches no other tenant's
\* rows in any table AuditScopedModels did not report or pass over, for every
\* sequence of registrations, failures and shutdowns and every schema.
THEOREM OwnRows == Spec => []OwnRowsOnly
<1>1. Init => Audited
  BY Zenon DEF Init, Audited
<1>2. Audited /\ [Next]_vars => Audited'
  BY AuditedStep, Zenon
<1>3. Audited => OwnRowsOnly
  BY AuditedIsOwn, Zenon
<1> QED
  BY <1>1, <1>2, <1>3, PTL DEF Spec

-----------------------------------------------------------------------------
(* Registration.                                                             *)

\* What Install has done after each call.
Steps(r, m, k, after) ==
    after = [i \in 0..k |-> IF i = 0 THEN r ELSE Call(after[i - 1], m, Script(Catalogue[m])[i])]

\* Install runs the calls of the script one after the other.
LEMMA InstallSteps ==
    ASSUME NEW r, NEW m, NEW k \in Nat
    PROVE  \E after : Steps(r, m, k, after) /\ Install(r, m, k) = after[k]
<1> DEFINE S == {n \in Nat : \E after : Steps(r, m, n, after)}
<1>1. 0 \in S
  <2> DEFINE one == [i \in 0..0 |-> r]
  <2>1. one = [i \in 0..0 |-> IF i = 0 THEN r ELSE Call(one[i - 1], m, Script(Catalogue[m])[i])]
    OBVIOUS
  <2> QED
    BY <2>1, Zenon DEF Steps
<1>2. ASSUME NEW n \in Nat, n \in S PROVE n + 1 \in S
  <2>1. PICK f : Steps(r, m, n, f)
    BY <1>2, Zenon
  <2> DEFINE last == Call(f[n], m, Script(Catalogue[m])[n + 1])
             g == [i \in 0..(n + 1) |-> IF i = n + 1 THEN last ELSE f[i]]
             want == [i \in 0..(n + 1) |-> IF i = 0 THEN r ELSE Call(g[i - 1], m, Script(Catalogue[m])[i])]
  <2>2. ASSUME NEW i \in 0..(n + 1) PROVE g[i] = want[i]
    <3>1. CASE i = 0
      <4>1. i # n + 1 /\ i \in 0..n
        BY <3>1
      <4>2. f[i] = r
        BY <2>1, <3>1, <4>1, Zenon DEF Steps
      <4> QED
        BY <3>1, <4>1, <4>2, Zenon
    <3>2. CASE i = n + 1
      <4>1. i - 1 = n /\ n \in 0..(n + 1) /\ n # n + 1 /\ i # 0
        BY <3>2
      <4> QED
        BY <3>2, <4>1, Zenon
    <3>3. CASE i # 0 /\ i # n + 1
      <4>1. i \in 0..n /\ i - 1 \in 0..(n + 1) /\ i - 1 # n + 1
        BY <3>3
      <4>2. f[i] = Call(f[i - 1], m, Script(Catalogue[m])[i])
        BY <2>1, <3>3, <4>1, Zenon DEF Steps
      <4>3. g[i - 1] = f[i - 1] /\ g[i] = f[i]
        BY <3>3, <4>1, Zenon
      <4>4. want[i] = Call(g[i - 1], m, Script(Catalogue[m])[i])
        BY <3>3, Zenon
      <4> QED
        BY <4>2, <4>3, <4>4, Zenon
    <3> QED
      BY <3>1, <3>2, <3>3, Zenon
  <2>3. g = want
    <3>1. DOMAIN g = 0..(n + 1) /\ DOMAIN want = 0..(n + 1)
      BY Zenon
    <3> HIDE DEF last
    <3> QED
      BY <2>2
  <2>4. Steps(r, m, n + 1, g)
    BY <2>3, Zenon DEF Steps
  <2> QED
    BY <2>4
<1>3. k \in S
  <2> HIDE DEF S
  <2> QED
    BY <1>1, <1>2, SetInduction, Zenon
<1> DEFINE all == CHOOSE f : Steps(r, m, k, f)
<1>4. Steps(r, m, k, all)
  BY <1>3, Zenon
<1>5. Install(r, m, k) = all[k]
  BY Zenon DEF Install, Steps
<1> QED
  BY <1>4, <1>5, Zenon

Calls == CapabilityCalls \union OfferCalls \union SubscribeCalls \union [do : {"grant"}, arg : Grants]

\* An Install makes calls the registrar knows.
LEMMA ScriptIs ==
    ASSUME NEW m \in Modules
    PROVE  Script(Catalogue[m]) \in Seq(Calls)
<1> DEFINE d == Catalogue[m]
           offers == [i \in DOMAIN d.offers |-> [do |-> "offer", arg |-> d.offers[i]]]
           serves == [i \in DOMAIN d.provides |-> [do |-> "capability", arg |-> d.provides[i]]]
           grants == [i \in DOMAIN d.subscribes |-> [do |-> "grant", arg |-> d.subscribes[i]]]
<1>1. /\ d.offers \in Seq(DOMAIN Hooks) /\ d.provides \in Seq(Capabilities)
      /\ d.tier \in {"embedded", "sandboxed"}
      /\ d.tier = "embedded" => d.install \in Seq(CapabilityCalls \union OfferCalls \union SubscribeCalls)
      /\ d.tier = "sandboxed" => d.subscribes \in Seq(Grants)
  BY CatalogueAssumption, Zenon
<1> HIDE DEF d
<1>2. offers \in Seq(Calls)
  BY <1>1 DEF Calls, OfferCalls
<1>3. serves \in Seq(Calls)
  BY <1>1 DEF Calls, CapabilityCalls
<1>4. d.tier = "sandboxed" => grants \in Seq(Calls)
  BY <1>1 DEF Calls
<1>5. d.tier = "embedded" => d.install \in Seq(Calls)
  <2>1. CapabilityCalls \union OfferCalls \union SubscribeCalls \subseteq Calls
    BY Zenon DEF Calls
  <2> QED
    BY <1>1, <2>1, SeqWidens, Zenon
<1>6. Script(d) = offers \o (IF d.tier = "embedded" THEN d.install ELSE serves \o grants)
  BY Zenon DEF Script
<1> HIDE DEF offers, serves, grants
<1>7. CASE d.tier = "embedded"
  BY <1>2, <1>5, <1>6, <1>7, SeqJoins, Zenon DEF d
<1>8. CASE d.tier = "sandboxed"
  <2>1. serves \o grants \in Seq(Calls)
    BY <1>3, <1>4, <1>8, SeqJoins, Zenon
  <2>2. Script(d) = offers \o (serves \o grants)
    <3>1. d.tier # "embedded"
      BY <1>8
    <3> QED
      BY <1>6, <3>1, Zenon
  <2> QED
    BY <1>2, <2>1, <2>2, SeqJoins, Zenon DEF d
<1> QED
  BY <1>1, <1>7, <1>8, Zenon

\* What one call on the registrar may change: a capability nobody serves becomes
\* the module's own, a point nobody offers too, and subscriptions are added.
CallFrom(r, m, step, to) ==
    /\ to \in Registries
    /\ to.modules = r.modules /\ to.order = r.order /\ to.exposed = r.exposed
    /\ r.failed => to.failed
    /\ ~to.failed /\ step.do = "capability" => to.handlers[step.arg] = m
    /\ \A c \in Capabilities :
        \/ to.handlers[c] = r.handlers[c]
        \/ r.handlers[c] = NoModule /\ to.handlers[c] = m /\ step.do = "capability" /\ step.arg = c

\* One call keeps to that.
LEMMA CallIs ==
    ASSUME NEW r \in Registries, NEW m \in Modules, NEW step \in Calls
    PROVE  CallFrom(r, m, step, Call(r, m, step))
<1>1. CallFrom(r, m, step, r) \/ (~r.failed /\ step.do = "capability")
  BY DEF CallFrom, Registries
<1>2. CallFrom(r, m, step, Failed(r))
  BY Zenon DEF CallFrom, Registries, Failed
<1>3. CASE r.failed
  BY <1>1, <1>3, Zenon DEF Call
<1>4. CASE ~r.failed /\ step.do = "capability"
  <2>1. step.arg \in Capabilities
    BY <1>4 DEF Calls, CapabilityCalls, OfferCalls, SubscribeCalls
  <2>2. Call(r, m, step) = RegisterCapability(r, m, step.arg)
    BY <1>4, Zenon DEF Call
  <2>3. CASE r.handlers[step.arg] # NoModule
    BY <1>2, <2>2, <2>3, Zenon DEF RegisterCapability
  <2>4. CASE r.handlers[step.arg] = NoModule
    <3> DEFINE hs == [r.handlers EXCEPT ![step.arg] = m]
    <3>1. r.handlers \in [Capabilities -> Modules \union {NoModule}]
      BY DEF Registries
    <3>2. /\ hs \in [Capabilities -> Modules \union {NoModule}] /\ hs[step.arg] = m
          /\ \A c \in Capabilities : hs[c] = r.handlers[c] \/ c = step.arg
      BY <2>1, <3>1, Zenon
    <3>3. Call(r, m, step) = [r EXCEPT !.handlers = hs]
      BY <2>2, <2>4, Zenon DEF RegisterCapability
    <3> HIDE DEF hs
    <3>4. /\ [r EXCEPT !.handlers = hs] \in Registries
          /\ [r EXCEPT !.handlers = hs].modules = r.modules
          /\ [r EXCEPT !.handlers = hs].order = r.order
          /\ [r EXCEPT !.handlers = hs].exposed = r.exposed
          /\ [r EXCEPT !.handlers = hs].failed = r.failed
          /\ [r EXCEPT !.handlers = hs].handlers = hs
      BY <3>2, SMTT(60) DEF Registries
    <3> QED
      BY <1>4, <2>1, <2>4, <3>2, <3>3, <3>4, Zenon DEF CallFrom
  <2> QED
    BY <2>3, <2>4, Zenon
<1>5. CASE ~r.failed /\ step.do = "offer"
  <2>1. step.arg \in DOMAIN Hooks /\ step.do # "capability"
    BY <1>5 DEF Calls, CapabilityCalls, OfferCalls, SubscribeCalls
  <2>2. Call(r, m, step) = Offer(r, m, step.arg)
    BY <1>5, <2>1, Zenon DEF Call
  <2>3. CallFrom(r, m, step, [r EXCEPT !.points[step.arg] = m])
    BY <1>5, <2>1, Zenon DEF CallFrom, Registries
  <2> QED
    BY <1>2, <2>2, <2>3, Zenon DEF Offer
<1>6. ASSUME NEW h \in DOMAIN Hooks, NEW priority \in Int, ~r.failed, step.do # "capability"
      PROVE  CallFrom(r, m, step, Subscribe(r, m, h, priority))
  <2> DEFINE sub == [hook |-> h, module |-> m, priority |-> priority]
  <2>1. sub \in Subscriptions
    BY DEF Subscriptions
  <2> HIDE DEF sub
  <2> DEFINE ss == Append(r.subs, sub)
  <2>2. ss \in Seq(Subscriptions)
    <3>1. r.subs \in Seq(Subscriptions)
      BY DEF Registries
    <3> QED
      BY <2>1, <3>1, SeqAppends, Zenon
  <2> HIDE DEF ss
  <2>3. CallFrom(r, m, step, [r EXCEPT !.subs = ss])
    BY <1>6, <2>2, Zenon DEF CallFrom, Registries
  <2> QED
    BY <1>2, <2>3, Zenon DEF Subscribe, sub, ss
<1>7. CASE ~r.failed /\ step.do = "subscribe"
  <2>1. step.arg \in DOMAIN Hooks /\ step.priority \in Int /\ step.do # "capability" /\ step.do # "offer"
    BY <1>7 DEF Calls, CapabilityCalls, OfferCalls, SubscribeCalls
  <2>2. Call(r, m, step) = Subscribe(r, m, step.arg, step.priority)
    BY <1>7, <2>1, Zenon DEF Call
  <2> QED
    BY <1>6, <1>7, <2>1, <2>2, Zenon
<1>8. CASE ~r.failed /\ step.do \notin {"capability", "offer", "subscribe"}
  <2>1. step.arg \in Grants
    BY <1>8 DEF Calls, CapabilityCalls, OfferCalls, SubscribeCalls
  <2>2. step.arg.hook \in DOMAIN Hooks /\ step.arg.priority \in Int
    BY <2>1 DEF Grants
  <2>3. Call(r, m, step) = SubscribeGuest(r, m, step.arg)
    BY <1>8, Zenon DEF Call
  <2>4. CallFrom(r, m, step, Subscribe(r, m, step.arg.hook, step.arg.priority))
    BY <1>6, <1>8, <2>2, Zenon
  <2> QED
    BY <1>2, <2>3, <2>4, Zenon DEF SubscribeGuest
<1> QED
  BY <1>3, <1>4, <1>5, <1>7, <1>8, Zenon

\* Call i of m's Install registers c.
Registering(m, i, c) == Script(Catalogue[m])[i].do = "capability" /\ Script(Catalogue[m])[i].arg = c

\* What the first k calls may change, and have done unless one failed.
InstallFrom(r, m, k, to) ==
    /\ to \in Registries
    /\ to.modules = r.modules /\ to.order = r.order /\ to.exposed = r.exposed
    /\ ~to.failed => \A i \in 1..k : \A c \in Capabilities : Registering(m, i, c) => to.handlers[c] = m
    /\ \A c \in Capabilities :
        \/ to.handlers[c] = r.handlers[c]
        \/ r.handlers[c] = NoModule /\ to.handlers[c] = m /\ \E i \in 1..k : Registering(m, i, c)

\* So does a whole Install, as far as it gets.
LEMMA InstallIs ==
    ASSUME NEW r \in Registries, NEW m \in Modules, NEW k \in 0..Len(Script(Catalogue[m]))
    PROVE  InstallFrom(r, m, k, Install(r, m, k))
<1> DEFINE script == Script(Catalogue[m])
<1>1. script \in Seq(Calls) /\ k \in Nat /\ \A i \in 1..k : script[i] \in Calls
  <2>1. script \in Seq(Calls)
    BY ScriptIs, Zenon
  <2> HIDE DEF script
  <2> QED
    BY <2>1 DEF script
<1>2. PICK after : Steps(r, m, k, after) /\ Install(r, m, k) = after[k]
  BY <1>1, InstallSteps, Zenon
<1> DEFINE S == {n \in Nat : n <= k => InstallFrom(r, m, n, after[n])}
<1>3. 0 \in S
  <2>1. after[0] = r
    <3>1. 0 \in 0..k
      BY <1>1
    <3> QED
      BY <1>2, <3>1, Zenon DEF Steps
  <2>2. \A i \in 1..0 : FALSE
    OBVIOUS
  <2>3. InstallFrom(r, m, 0, r)
    BY <2>2, Zenon DEF InstallFrom
  <2> QED
    BY <2>1, <2>3, Zenon
<1>4. ASSUME NEW n \in Nat, n \in S PROVE n + 1 \in S
  <2> SUFFICES ASSUME n + 1 <= k PROVE InstallFrom(r, m, n + 1, after[n + 1])
    <3>1. n + 1 \in Nat
      OBVIOUS
    <3> QED
      BY <3>1, Zenon
  <2>1. /\ n + 1 - 1 = n /\ n + 1 # 0 /\ n + 1 \in 0..k /\ n + 1 \in 1..k
        /\ 1..n \subseteq 1..(n + 1) /\ n + 1 \in 1..(n + 1)
        /\ \A i \in 1..(n + 1) : i \in 1..n \/ i = n + 1
    BY <1>1
  <2>2. InstallFrom(r, m, n, after[n])
    <3>1. n <= k
      BY <1>1
    <3> QED
      BY <1>4, <3>1, Zenon
  <2>3. after[n + 1] = Call(after[n], m, script[n + 1])
    <3> DEFINE i == n + 1
    <3>1. i \in 0..k /\ i # 0 /\ i - 1 = n
      BY <2>1
    <3> HIDE DEF i
    <3>2. after[i] = Call(after[i - 1], m, script[i])
      BY <1>2, <3>1, Zenon DEF Steps
    <3> QED
      BY <3>1, <3>2, Zenon DEF i
  <2>4. script[n + 1] \in Calls
    BY <1>1, <2>1, Zenon
  <2> DEFINE old == after[n]
             new == after[n + 1]
  <2>5. CallFrom(old, m, script[n + 1], new)
    BY <2>2, <2>3, <2>4, CallIs, Zenon DEF InstallFrom
  <2>6. \A c \in Capabilities :
            \/ new.handlers[c] = old.handlers[c]
            \/ old.handlers[c] = NoModule /\ new.handlers[c] = m /\ Registering(m, n + 1, c)
    BY <2>5, Zenon DEF CallFrom, Registering
  <2> HIDE DEF script, old, new
  <2>7. new \in Registries /\ new.modules = r.modules /\ new.order = r.order /\ new.exposed = r.exposed
    BY <2>2, <2>5, Zenon DEF InstallFrom, CallFrom, old
  <2>8. ASSUME ~new.failed, NEW i \in 1..(n + 1), NEW c \in Capabilities, Registering(m, i, c)
        PROVE  new.handlers[c] = m
    <3>1. CASE i = n + 1
      BY <2>5, <2>8, <3>1, Zenon DEF CallFrom, Registering, script
    <3>2. CASE i \in 1..n
      <4>1. ~old.failed
        BY <2>5, <2>8, Zenon DEF CallFrom
      <4>2. old.handlers[c] = m
        BY <2>2, <2>8, <3>2, <4>1, Zenon DEF InstallFrom, old
      <4> QED
        BY <2>6, <4>2, Zenon
    <3> QED
      BY <2>1, <3>1, <3>2, Zenon
  <2>9. ASSUME NEW c \in Capabilities, new.handlers[c] # r.handlers[c]
        PROVE  r.handlers[c] = NoModule /\ new.handlers[c] = m /\ \E i \in 1..(n + 1) : Registering(m, i, c)
    <3>1. \/ old.handlers[c] = r.handlers[c]
          \/ r.handlers[c] = NoModule /\ old.handlers[c] = m /\ \E i \in 1..n : Registering(m, i, c)
      BY <2>2, Zenon DEF InstallFrom, old
    <3>2. m # NoModule
      BY CatalogueAssumption, Zenon
    <3> QED
      BY <2>1, <2>6, <2>9, <3>1, <3>2, Zenon
  <2> QED
    BY <2>7, <2>8, <2>9, Zenon DEF InstallFrom, new
<1>5. k \in S
  <2> HIDE DEF S
  <2> QED
    BY <1>1, <1>3, <1>4, SetInduction, Zenon
<1>6. InstallFrom(r, m, k, after[k])
  <2>1. k <= k
    BY <1>1
  <2> QED
    BY <1>5, <2>1, Zenon
<1> QED
  BY <1>2, <1>6, Zenon

\* A capability an Install registers is one, and registered by one of its calls.
LEMMA RegistersIs ==
    ASSUME NEW m \in Modules
    PROVE  /\ Registers(m) \subseteq Capabilities
           /\ \A c : c \in Registers(m) <=> \E i \in 1..Len(Script(Catalogue[m])) : Registering(m, i, c)
<1> DEFINE script == Script(Catalogue[m])
<1>1. script \in Seq(Calls)
  BY ScriptIs, Zenon
<1>2. DOMAIN script = 1..Len(script) /\ \A i \in 1..Len(script) : script[i] \in Calls
  <2> HIDE DEF script
  <2> QED
    BY <1>1
<1>3. \A call \in Calls : call.do = "capability" => call.arg \in Capabilities
  BY DEF Calls, CapabilityCalls, OfferCalls, SubscribeCalls
<1>4. \A c : c \in Registers(m) <=> \E i \in 1..Len(script) : Registering(m, i, c)
  BY <1>2, Zenon DEF Registers, Range, Registering
<1> QED
  BY <1>2, <1>3, <1>4, Zenon DEF Registering

\* The parts of a registry before, after, and after a failed installation.
LEMMA ClaimIs ==
    ASSUME NEW r \in Registries, NEW m \in Modules
    PROVE  /\ Claim(r, m) \in Registries
           /\ Claim(r, m).modules = r.modules \union {m}
           /\ Claim(r, m).exposed = r.exposed \union Range(Catalogue[m].exposed)
           /\ Claim(r, m).order = r.order /\ Claim(r, m).handlers = r.handlers
<1> DEFINE ms == r.modules \union {m}
           es == r.exposed \union Range(Catalogue[m].exposed)
<1>1. Range(Catalogue[m].exposed) \subseteq Capabilities
  <2>1. Catalogue[m].exposed \in Seq(Capabilities)
    BY CatalogueAssumption, Zenon
  <2> QED
    BY <2>1 DEF Range
<1>2. ms \in SUBSET Modules /\ es \in SUBSET Capabilities
  BY <1>1 DEF Registries
<1>3. Claim(r, m) = [r EXCEPT !.modules = ms, !.exposed = es]
  BY Zenon DEF Claim
<1> HIDE DEF ms, es
<1>4. /\ [r EXCEPT !.modules = ms, !.exposed = es] \in Registries
      /\ [r EXCEPT !.modules = ms, !.exposed = es].modules = ms
      /\ [r EXCEPT !.modules = ms, !.exposed = es].exposed = es
      /\ [r EXCEPT !.modules = ms, !.exposed = es].order = r.order
      /\ [r EXCEPT !.modules = ms, !.exposed = es].handlers = r.handlers
  BY <1>2, Zenon DEF Registries
<1> QED
  BY <1>3, <1>4, Zenon DEF ms, es

\* What the rollback of a registration leaves.
LEMMA RollbackIs ==
    ASSUME NEW r \in Registries, NEW m \in Modules
    PROVE  /\ Rollback(r, m) \in Registries
           /\ Rollback(r, m).modules = r.modules \ {m}
           /\ Rollback(r, m).exposed = r.exposed \ Range(Catalogue[m].exposed)
           /\ Rollback(r, m).order = r.order /\ ~Rollback(r, m).failed
           /\ \A c \in Capabilities : Rollback(r, m).handlers[c] =
                  IF c \in Range(Catalogue[m].provides) THEN NoModule ELSE r.handlers[c]
<1> DEFINE ms == r.modules \ {m}
           es == r.exposed \ Range(Catalogue[m].exposed)
           hs == [c \in Capabilities |->
                     IF c \in Range(Catalogue[m].provides) THEN NoModule ELSE r.handlers[c]]
           to == [r EXCEPT !.modules = ms, !.handlers = hs, !.exposed = es, !.failed = FALSE]
<1>1. /\ r.modules \in SUBSET Modules /\ r.exposed \in SUBSET Capabilities
      /\ r.handlers \in [Capabilities -> Modules \union {NoModule}]
  BY DEF Registries
<1>2. /\ ms \in SUBSET Modules /\ es \in SUBSET Capabilities
      /\ hs \in [Capabilities -> Modules \union {NoModule}]
  BY <1>1, Zenon
<1>3. Rollback(r, m) = to
  BY Zenon DEF Rollback
<1>4. \A c \in Capabilities :
          hs[c] = IF c \in Range(Catalogue[m].provides) THEN NoModule ELSE r.handlers[c]
  BY Zenon
<1> HIDE DEF ms, es, hs
<1>5. /\ to \in Registries /\ to.modules = ms /\ to.exposed = es /\ to.handlers = hs
      /\ to.order = r.order /\ ~to.failed
  BY <1>2, Zenon DEF Registries
<1> QED
  BY <1>3, <1>4, <1>5, Zenon DEF ms, es

\* A module that is registered joins the start order.
LEMMA OrderIs ==
    ASSUME NEW r \in Registries, NEW m \in Modules, NEW to, to = [r EXCEPT !.order = Append(@, m)]
    PROVE  /\ to \in Registries /\ to.order = Append(r.order, m)
           /\ to.modules = r.modules /\ to.exposed = r.exposed /\ to.handlers = r.handlers
           /\ to.failed = r.failed
<1> DEFINE os == Append(r.order, m)
<1>1. os \in Seq(Modules)
  <2>1. r.order \in Seq(Modules)
    BY DEF Registries
  <2> QED
    BY <2>1, SeqAppends, Zenon
<1>2. to = [r EXCEPT !.order = os]
  BY Zenon
<1> HIDE DEF os
<1>3. /\ to \in Registries /\ to.order = os
      /\ to.modules = r.modules /\ to.exposed = r.exposed /\ to.handlers = r.handlers
      /\ to.failed = r.failed
  BY <1>1, <1>2, Zenon DEF Registries
<1> QED
  BY <1>3, Zenon DEF os

\* What RegisterModule does to the registry.
Attempted(m, k) ==
    /\ reg' = Registration(reg, m, k)
    /\ loaded' = IF m \in Guests \intersect reg'.modules THEN loaded \union {m} ELSE loaded
    /\ lost' = lost \union (reg.exposed \ reg'.exposed) \union
               {c \in Capabilities : reg.handlers[c] \notin {NoModule, reg'.handlers[c]}}

\* A registration that is refused, rolled back or complete keeps the registry's
\* tables in agreement, and says what becomes of them.
LEMMA RegistrationKeeps ==
    ASSUME reg \in Registries, ~reg.failed, RegistryAgrees, NEW m \in Modules,
           NEW k \in 0..Len(Script(Catalogue[m])), Attempted(m, k)
    PROVE  /\ reg' \in Registries /\ ~reg'.failed /\ RegistryAgrees'
           /\ reg'.modules \subseteq reg.modules \union {m}
<1> DEFINE d == Catalogue[m]
           installed == Install(Claim(reg, m), m, k)
<1>1. InstallFrom(Claim(reg, m), m, k, installed)
  BY ClaimIs, InstallIs, Zenon
<1>2. /\ installed \in Registries /\ installed.modules = reg.modules \union {m}
      /\ installed.order = reg.order /\ installed.exposed = reg.exposed \union Range(d.exposed)
      /\ \A c \in Capabilities :
          \/ installed.handlers[c] = reg.handlers[c]
          \/ /\ reg.handlers[c] = NoModule /\ installed.handlers[c] = m
             /\ \E i \in 1..k : Registering(m, i, c)
  BY <1>1, ClaimIs, Zenon DEF InstallFrom
<1>3. \A i \in 1..k : i \in 1..Len(Script(Catalogue[m]))
  <2>1. Len(Script(Catalogue[m])) \in Nat
    BY ScriptIs, SeqIs, Zenon
  <2> QED
    BY <2>1
<1>4. \A c \in Capabilities :
          \/ installed.handlers[c] = reg.handlers[c]
          \/ reg.handlers[c] = NoModule /\ installed.handlers[c] = m /\ c \in Registers(m)
  BY <1>2, <1>3, RegistersIs, Zenon
<1>5. /\ \A c \in Capabilities : reg.handlers[c] \in {NoModule, reg'.handlers[c]} \/ c \in lost'
      /\ lost \subseteq lost' /\ reg' = Registration(reg, m, k)
      /\ m \notin Guests \intersect reg'.modules => loaded' = loaded
      /\ loaded' \subseteq loaded \union (Guests \intersect reg'.modules)
  BY Zenon DEF Attempted
<1>6. ASSUME \A c \in Capabilities : reg'.handlers[c] = reg.handlers[c] \/ c \in lost' \/ reg.handlers[c] = NoModule
      PROVE  \A n \in reg.modules : \A c \in Registers(n) : reg'.handlers[c] = n \/ c \in lost'
  <2>1. reg.modules \subseteq Modules /\ NoModule \notin Modules
    BY CatalogueAssumption DEF Registries
  <2>2. \A n \in reg.modules : Registers(n) \subseteq Capabilities
    BY <2>1, RegistersIs, Zenon
  <2> QED
    BY <1>5, <1>6, <2>1, <2>2, Zenon DEF RegistryAgrees
<1> HIDE DEF installed
<1>7. CASE ~ValidDescriptor(reg, m)
  <2>1. reg' = reg
    BY <1>5, <1>7, Zenon DEF Registration
  <2> QED
    BY <1>5, <2>1, Zenon DEF RegistryAgrees
<1> DEFINE fails == installed.failed \/ k < Len(Script(d))
<1>8. ASSUME ValidDescriptor(reg, m) PROVE m \notin reg.modules
  BY <1>8, Zenon DEF ValidDescriptor
<1>9. CASE ValidDescriptor(reg, m) /\ fails
  <2>1. reg' = Rollback(installed, m)
    BY <1>5, <1>9, Zenon DEF Registration, installed
  <2>2. /\ reg' \in Registries /\ ~reg'.failed /\ reg'.modules = reg.modules /\ reg'.order = reg.order
        /\ reg'.exposed \subseteq reg.exposed
        /\ \A c \in Capabilities : reg'.handlers[c] =
              IF c \in Range(d.provides) THEN NoModule ELSE installed.handlers[c]
    <3>1. m \notin reg.modules
      BY <1>8, <1>9, Zenon
    <3>2. /\ reg' \in Registries /\ reg'.modules = installed.modules \ {m}
          /\ reg'.exposed = installed.exposed \ Range(d.exposed)
          /\ reg'.order = installed.order /\ ~reg'.failed
          /\ \A c \in Capabilities : reg'.handlers[c] =
                IF c \in Range(d.provides) THEN NoModule ELSE installed.handlers[c]
      <4>1. installed \in Registries
        BY <1>2, Zenon
      <4> QED
        BY <2>1, <4>1, RollbackIs, ZenonT(60)
    <3> QED
      BY <1>2, <3>1, <3>2, ZenonT(60)
  <2>3. \A n \in reg'.modules : \A c \in Registers(n) : reg'.handlers[c] = n \/ c \in lost'
    BY <1>5, <1>6, <2>2, Zenon
  <2>4. ASSUME NEW c \in Capabilities, reg'.handlers[c] \notin reg'.modules \union {NoModule}
        PROVE  c \in Registers(reg'.handlers[c]) \ Range(Catalogue[reg'.handlers[c]].provides)
    <3>1. c \notin Range(d.provides) /\ reg'.handlers[c] = installed.handlers[c]
      BY <2>2, <2>4, Zenon
    <3> QED
      BY <1>4, <2>2, <2>4, <3>1, Zenon DEF RegistryAgrees
  <2>5. loaded' = loaded
    BY <1>5, <1>8, <1>9, <2>2, Zenon
  <2> HIDE DEF fails, d
  <2> QED
    BY <2>2, <2>3, <2>4, <2>5, Zenon DEF RegistryAgrees
<1>10. CASE ValidDescriptor(reg, m) /\ ~fails
  <2>1. reg' = [installed EXCEPT !.order = Append(@, m)]
    BY <1>5, <1>10, Zenon DEF Registration, installed
  <2>2. /\ reg' \in Registries /\ reg'.modules = reg.modules \union {m} /\ reg'.order = Append(reg.order, m)
        /\ reg'.exposed = reg.exposed \union Range(d.exposed) /\ reg'.handlers = installed.handlers
        /\ ~reg'.failed
    <3>1. /\ reg' \in Registries /\ reg'.modules = installed.modules
          /\ reg'.order = Append(installed.order, m) /\ reg'.exposed = installed.exposed
          /\ reg'.handlers = installed.handlers /\ reg'.failed = installed.failed
      BY <1>2, <2>1, OrderIs, ZenonT(60)
    <3> QED
      BY <1>2, <1>10, <3>1, Zenon
  <2>3. ASSUME NEW c \in Registers(m) PROVE reg'.handlers[c] = m
    <3>1. k = Len(Script(Catalogue[m]))
      BY <1>10
    <3> QED
      BY <1>1, <1>10, <2>2, <3>1, RegistersIs, Zenon DEF InstallFrom
  <2>4. \A n \in reg'.modules : \A c \in Registers(n) : reg'.handlers[c] = n \/ c \in lost'
    BY <1>4, <1>6, <2>2, <2>3, Zenon
  <2>5. reg'.modules = Range(reg'.order) /\ IsInjective(reg'.order)
    <3>1. reg.order \in Seq(Modules) /\ reg.modules = Range(reg.order) /\ IsInjective(reg.order)
      BY DEF RegistryAgrees, Registries
    <3>2. m \notin Range(reg.order)
      BY <1>8, <1>10, <3>1, Zenon
    <3>3. Range(Append(reg.order, m)) = Range(reg.order) \union {m}
      <4>1. reg.order \in Seq(Modules)
        BY <3>1, Zenon
      <4> QED
        BY <4>1, AppendIs
    <3>4. IsInjective(Append(reg.order, m))
      BY <3>1, <3>2, SMTT(60) DEF Range, IsInjective
    <3> QED
      BY <2>2, <3>1, <3>3, <3>4, Zenon
  <2> HIDE DEF fails, d
  <2>6. \A c \in Capabilities :
            \/ reg'.handlers[c] \in reg'.modules \union {NoModule}
            \/ c \in Registers(reg'.handlers[c]) \ Range(Catalogue[reg'.handlers[c]].provides)
    BY <1>4, <2>2, Zenon DEF RegistryAgrees
  <2>7. loaded' \subseteq Guests \intersect reg'.modules
    BY <1>5, <2>2, Zenon DEF RegistryAgrees
  <2>8. \A c \in reg'.exposed : \E n \in reg'.modules : c \in Range(Catalogue[n].exposed)
    BY <2>2, Zenon DEF RegistryAgrees, d
  <2> QED
    BY <2>2, <2>4, <2>5, <2>6, <2>7, <2>8, Zenon DEF RegistryAgrees
<1> QED
  BY <1>7, <1>9, <1>10, Zenon

\* What a version table records stays recorded, and what is newly recorded is created.
LEMMA MigrateKeeps ==
    ASSUME Recorded, tables \subseteq Tables, NEW m \in Modules, NEW done,
           done \subseteq DOMAIN SchemaOf(m), Migrate(Catalogue[m], done)
    PROVE  /\ Recorded' /\ tables' \subseteq Tables
           /\ \A n \in Modules : versions[VersionTable(n)] \subseteq versions'[VersionTable(n)]
           /\ versions'[VersionTable(m)] = versions[VersionTable(m)] \union done
<1>1. /\ versions' = [versions EXCEPT ![VersionTable(m)] = @ \union done]
      /\ tables' = tables \union {SchemaOf(m)[v] : v \in done}
  BY Zenon DEF Migrate, VersionTable, SchemaOf
<1>2. /\ DOMAIN versions' = DOMAIN versions
      /\ \A t \in DOMAIN versions : t # VersionTable(m) => versions'[t] = versions[t]
      /\ VersionTable(m) \in DOMAIN versions
      /\ versions'[VersionTable(m)] = versions[VersionTable(m)] \union done
  BY <1>1, Zenon DEF Recorded
<1>3. tables \subseteq tables' /\ \A v \in done : SchemaOf(m)[v] \in tables'
  BY <1>1, Zenon
<1>4. ASSUME NEW t \in DOMAIN versions', NEW v \in versions'[t]
      PROVE  \E n \in Modules : VersionTable(n) = t /\ v \in DOMAIN SchemaOf(n) /\ SchemaOf(n)[v] \in tables'
  <2>1. CASE v \in versions[t]
    BY <1>2, <1>3, <1>4, <2>1, Zenon DEF Recorded
  <2>2. CASE v \notin versions[t]
    <3>1. t = VersionTable(m) /\ v \in done
      BY <1>2, <1>4, <2>2, Zenon
    <3> QED
      BY <1>3, <3>1, Zenon
  <2> QED
    BY <2>1, <2>2, Zenon
<1>5. Recorded'
  BY <1>2, <1>4, Zenon DEF Recorded
<1>6. tables' \subseteq Tables
  <2>1. \A v \in done : SchemaOf(m)[v] \in Tables
    BY WiringAssumption, Zenon DEF SchemaOf
  <2> QED
    BY <1>1, <2>1, Zenon
<1>7. \A n \in Modules : versions[VersionTable(n)] \subseteq versions'[VersionTable(n)]
  <2>1. \A n \in Modules : VersionTable(n) \in DOMAIN versions
    BY Zenon DEF Recorded
  <2> QED
    BY <1>2, <2>1, Zenon
<1> QED
  BY <1>2, <1>5, <1>6, <1>7, Zenon

\* A module that is refused for its schema keeps what the tables record.
LEMMA RefuseSchemaKeeps ==
    ASSUME RegistryInv, NEW m \in Modules, RefuseSchema(m)
    PROVE  RegistryInv'
<1>1. /\ reg \in Registries /\ ~reg.failed /\ RegistryAgrees /\ Recorded /\ Migrated
      /\ scoped \subseteq Tables /\ tables \subseteq Tables
  BY Zenon DEF RegistryInv
<1>2. reg' = reg /\ loaded' = loaded /\ lost' = lost
  BY Zenon DEF RefuseSchema
<1>3. scoped' \subseteq Tables
  BY <1>1, WiringAssumption, Zenon DEF RefuseSchema
<1>4. RegistryAgrees'
  BY <1>1, <1>2, Zenon DEF RegistryAgrees
<1>5. CASE UNCHANGED <<versions, tables>>
  BY <1>1, <1>2, <1>3, <1>4, <1>5, Zenon DEF RegistryInv, Recorded, Migrated
<1>6. CASE \E v \in Pending(Catalogue[m]) : Migrate(Catalogue[m], {w \in Pending(Catalogue[m]) : w < v})
  <2>1. PICK v \in Pending(Catalogue[m]) : Migrate(Catalogue[m], {w \in Pending(Catalogue[m]) : w < v})
    BY <1>6, Zenon
  <2> DEFINE done == {w \in Pending(Catalogue[m]) : w < v}
  <2>2. done \subseteq DOMAIN SchemaOf(m)
    BY Zenon DEF Pending, SchemaOf
  <2> HIDE DEF done
  <2>3. /\ Recorded' /\ tables' \subseteq Tables
        /\ \A n \in Modules : versions[VersionTable(n)] \subseteq versions'[VersionTable(n)]
    BY <1>1, <2>1, <2>2, MigrateKeeps, Zenon DEF done
  <2>4. Migrated'
    <3>1. reg.modules \subseteq Modules
      BY <1>1 DEF Registries
    <3> QED
      BY <1>1, <1>2, <2>3, <3>1, Zenon DEF Migrated
  <2> QED
    BY <1>1, <1>2, <1>3, <1>4, <2>3, <2>4, Zenon DEF RegistryInv
<1> QED
  BY <1>5, <1>6, Zenon DEF RefuseSchema, MigrationsFail

\* A module that reaches the registry has its schema recorded.
LEMMA RegisterModuleKeeps ==
    ASSUME RegistryInv, NEW m \in Modules, RegisterModule(m)
    PROVE  RegistryInv'
<1>1. /\ reg \in Registries /\ ~reg.failed /\ RegistryAgrees /\ Recorded /\ Migrated
      /\ scoped \subseteq Tables /\ tables \subseteq Tables
  BY Zenon DEF RegistryInv
<1>2. PICK k \in 0..Len(Script(Catalogue[m])) : Attempted(m, k)
  BY Zenon DEF RegisterModule, Attempted
<1>3. /\ reg' \in Registries /\ ~reg'.failed /\ RegistryAgrees'
      /\ reg'.modules \subseteq reg.modules \union {m}
  BY <1>1, <1>2, RegistrationKeeps, Zenon
<1>4. scoped' \subseteq Tables
  BY <1>1, WiringAssumption, Zenon DEF RegisterModule
<1>5. MigrationsRun(Catalogue[m])
  BY Zenon DEF RegisterModule
<1>6. /\ Recorded' /\ tables' \subseteq Tables /\ DOMAIN SchemaOf(m) \subseteq versions'[VersionTable(m)]
      /\ \A n \in Modules : versions[VersionTable(n)] \subseteq versions'[VersionTable(n)]
  <2>1. CASE DOMAIN SchemaOf(m) = {}
    <3>1. UNCHANGED <<versions, tables>>
      BY <1>5, <2>1, Zenon DEF MigrationsRun, SchemaOf
    <3> QED
      BY <1>1, <2>1, <3>1, Zenon DEF Recorded
  <2>2. CASE DOMAIN SchemaOf(m) # {}
    <3> DEFINE done == Pending(Catalogue[m])
    <3>1. Migrate(Catalogue[m], done)
      BY <1>5, <2>2, Zenon DEF MigrationsRun, SchemaOf
    <3>2. done \subseteq DOMAIN SchemaOf(m) /\ DOMAIN SchemaOf(m) \subseteq versions[VersionTable(m)] \union done
      BY Zenon DEF Pending, SchemaOf, VersionTable
    <3> HIDE DEF done
    <3>3. /\ Recorded' /\ tables' \subseteq Tables
          /\ \A n \in Modules : versions[VersionTable(n)] \subseteq versions'[VersionTable(n)]
          /\ versions'[VersionTable(m)] = versions[VersionTable(m)] \union done
      BY <1>1, <3>1, <3>2, MigrateKeeps, Zenon
    <3> QED
      BY <3>2, <3>3, Zenon
  <2> QED
    BY <2>1, <2>2, Zenon
<1>7. Migrated'
  <2>1. reg.modules \subseteq Modules
    BY <1>1 DEF Registries
  <2> QED
    BY <1>1, <1>3, <1>6, <2>1, Zenon DEF Migrated
<1> QED
  BY <1>3, <1>4, <1>6, <1>7, Zenon DEF RegistryInv

\* The empty registry.
LEMMA RegistryInit == RegInit => RegistryInv
<1> SUFFICES ASSUME RegInit PROVE RegistryInv
  OBVIOUS
<1>1. New \in Registries /\ ~New.failed
  <2>1. /\ [c \in Capabilities |-> NoModule] \in [Capabilities -> Modules \union {NoModule}]
        /\ [h \in DOMAIN Hooks |-> NoModule] \in [DOMAIN Hooks -> Modules \union {NoModule}]
        /\ <<>> \in Seq(Modules) /\ <<>> \in Seq(Subscriptions)
    OBVIOUS
  <2> QED
    BY <2>1 DEF New, Registries
<1>2. /\ New.modules = {} /\ New.order = <<>> /\ New.exposed = {}
      /\ \A c \in Capabilities : New.handlers[c] = NoModule
  BY DEF New
<1>3. reg = New /\ loaded = {} /\ scoped = OwnedModels /\ tables = Owned
  BY Zenon DEF RegInit
<1>4. RegistryAgrees
  <2>1. Range(<<>>) = {} /\ IsInjective(<<>>)
    BY DEF Range, IsInjective
  <2> QED
    BY <1>2, <1>3, <2>1, Zenon DEF RegistryAgrees
<1>5. Recorded
  <2>1. versions = [t \in {MigrationTableFor(id) : id \in VersionTables} |-> {}]
    BY Zenon DEF RegInit
  <2>2. {MigrationTableFor(id) : id \in VersionTables} = {VersionTable(m) : m \in Modules}
    BY Zenon DEF VersionTables, VersionTable
  <2> QED
    BY <2>1, <2>2, Zenon DEF Recorded
<1>6. Migrated
  BY <1>2, <1>3, Zenon DEF Migrated
<1> QED
  BY <1>1, <1>3, <1>4, <1>5, <1>6, WiringAssumption, Zenon DEF RegistryInv

\* What the invariant says about schemas.
LEMMA RegistrySchema == RegistryInv => SchemaRecorded
<1> SUFFICES ASSUME RegistryInv PROVE SchemaRecorded
  OBVIOUS
<1>1. \A m \in reg.modules : DOMAIN SchemaOf(m) \subseteq versions[VersionTable(m)]
  BY Zenon DEF RegistryInv, Migrated
<1>2. \A t \in DOMAIN versions : \A v \in versions[t] :
          \E m \in Modules : VersionTable(m) = t /\ v \in DOMAIN SchemaOf(m) /\ SchemaOf(m)[v] \in tables
  BY Zenon DEF RegistryInv, Recorded
<1> QED
  BY <1>1, <1>2, Zenon DEF SchemaRecorded, VersionTable, SchemaOf

\* A registered module whose version table is its own has every table its
\* migrations create.
SchemaComplete ==
    \A m \in reg.modules :
        (\A n \in Modules \ {m} : VersionTable(n) # VersionTable(m)) =>
            \A v \in DOMAIN SchemaOf(m) : SchemaOf(m)[v] \in tables

\* What the invariant says about a module with a version table of its own.
LEMMA RegistryComplete == RegistryInv => SchemaComplete
<1> SUFFICES ASSUME RegistryInv, NEW m \in reg.modules, NEW v \in DOMAIN SchemaOf(m),
                    \A n \in Modules \ {m} : VersionTable(n) # VersionTable(m)
             PROVE  SchemaOf(m)[v] \in tables
  BY Zenon DEF SchemaComplete
<1>1. m \in Modules
  BY DEF RegistryInv, Registries
<1>2. VersionTable(m) \in DOMAIN versions /\ v \in versions[VersionTable(m)]
  BY <1>1, Zenon DEF RegistryInv, Recorded, Migrated
<1> QED
  BY <1>2, Zenon DEF RegistryInv, Recorded

\* Outside of wiring the registry only loses runtimes.
LEMMA RegistryStands ==
    ASSUME RegistryInv, UNCHANGED <<reg, scoped, versions, tables, lost>>, loaded' \subseteq loaded
    PROVE  RegistryInv'
<1>1. /\ reg \in Registries /\ ~reg.failed /\ RegistryAgrees /\ Recorded /\ Migrated
      /\ scoped \subseteq Tables /\ tables \subseteq Tables
  BY Zenon DEF RegistryInv
<1>2. RegistryAgrees'
  BY <1>1, Zenon DEF RegistryAgrees
<1> QED
  BY <1>1, <1>2, Zenon DEF RegistryInv, Recorded, Migrated

\* What a wiring does.
LEMMA WireIs ==
    ASSUME RegistryInv, todo \in Seq(Modules), Wire
    PROVE  RegistryInv' /\ todo' \in Seq(Modules)
<1>1. todo # <<>> /\ todo' = Tail(todo)
  BY Zenon DEF Wire
<1>2. Head(todo) \in Modules /\ Tail(todo) \in Seq(Modules)
  BY <1>1
<1>3. PICK m \in Modules : RefuseModule(m) \/ RefuseSchema(m) \/ RegisterModule(m)
  BY <1>2, Zenon DEF Wire
<1>4. ASSUME RefuseModule(m) PROVE RegistryInv'
  <2>1. UNCHANGED <<reg, scoped, versions, tables, lost>> /\ loaded' \subseteq loaded
    BY <1>4, Zenon DEF RefuseModule, regVars
  <2> QED
    BY <2>1, RegistryStands, Zenon
<1>5. ASSUME RefuseSchema(m) PROVE RegistryInv'
  BY <1>5, RefuseSchemaKeeps, Zenon
<1>6. ASSUME RegisterModule(m) PROVE RegistryInv'
  BY <1>6, RegisterModuleKeeps, Zenon
<1> QED
  BY <1>1, <1>2, <1>3, <1>4, <1>5, <1>6, Zenon

\* The other steps leave the registry as it is.
LEMMA OthersKeepRegistry ==
    ASSUME [Next]_vars, ~Wire
    PROVE  /\ UNCHANGED <<reg, scoped, versions, tables, lost, todo>>
           /\ loaded' = loaded \/ StopModule
<1>1. ASSUME UNCHANGED regVars, UNCHANGED todo
      PROVE  UNCHANGED <<reg, scoped, versions, tables, lost, todo>> /\ loaded' = loaded
  BY <1>1, Zenon DEF regVars
<1>2. CASE StopModule
  BY <1>2, Zenon DEF StopModule
<1>3. CASE UNCHANGED vars
  BY <1>1, <1>3, Zenon DEF vars
<1>4. CASE Start \/ StartModule \/ FinishStart \/ Shutdown \/ GracefulStop \/ DrainEnds \/ CloseEvents
  BY <1>1, <1>4, Zenon DEF Start, StartModule, FinishStart, Shutdown, GracefulStop, DrainEnds, CloseEvents
<1>5. CASE ConsumerEnds \/ ShutdownWithContext \/ ClosePool \/ Exited
  BY <1>1, <1>3, <1>5, Zenon DEF ConsumerEnds, ShutdownWithContext, ClosePool, Exited
<1>6. CASE \E c \in Capabilities : Dispatched(c) \/ GRPCCall(c)
  BY <1>1, <1>6, Zenon DEF Dispatched, GRPCCall, BridgeCall, appVars
<1>7. CASE \E m \in Modules : Job(m)
  BY <1>1, <1>7, Zenon DEF Job, appVars
<1>8. CASE \E f \in Live, e \in Events : Publish(f, e)
  BY <1>1, <1>8, Zenon DEF Publish, appVars
<1>9. CASE Run
  BY <1>1, <1>9, Zenon DEF Run, appVars
<1> QED
  BY <1>2, <1>3, <1>4, <1>5, <1>6, <1>7, <1>8, <1>9, Zenon DEF Next

\* The registry's invariant is inductive.
LEMMA RegistryKeeps ==
    ASSUME RegistryInv, todo \in Seq(Modules), [Next]_vars
    PROVE  RegistryInv' /\ todo' \in Seq(Modules)
<1>1. CASE Wire
  BY <1>1, WireIs, Zenon
<1>2. CASE ~Wire
  <2>1. /\ UNCHANGED <<reg, scoped, versions, tables, lost, todo>>
        /\ loaded' = loaded \/ StopModule
    BY <1>2, OthersKeepRegistry, Zenon
  <2>2. loaded' \subseteq loaded
    BY <2>1, Zenon DEF StopModule
  <2> QED
    BY <2>1, <2>2, RegistryStands, Zenon
<1> QED
  BY <1>1, <1>2, Zenon

\* RegisterModule keeps the registry's tables in agreement, whatever is registered,
\* refused, stopped half way and rolled back, in whatever order (RegistryAgrees).
THEOREM RegistryHolds == Spec => []RegistryAgrees
<1> DEFINE Inv == RegistryInv /\ todo \in Seq(Modules)
<1>1. Init => Inv
  BY RegistryInit, WiringAssumption, Zenon DEF Init
<1>2. Inv /\ [Next]_vars => Inv'
  BY RegistryKeeps, Zenon
<1>3. Inv => RegistryAgrees
  BY Zenon DEF RegistryInv
<1> HIDE DEF Inv
<1> QED
  BY <1>1, <1>2, <1>3, PTL DEF Spec

\* The version tables RunModuleMigrations keeps tell the truth, also after migrations
\* that failed half way or were skipped (SchemaRecorded).
THEOREM SchemaHolds == Spec => []SchemaRecorded
<1> DEFINE Inv == RegistryInv /\ todo \in Seq(Modules)
<1>1. Init => Inv
  BY RegistryInit, WiringAssumption, Zenon DEF Init
<1>2. Inv /\ [Next]_vars => Inv'
  BY RegistryKeeps, Zenon
<1>3. Inv => SchemaRecorded
  BY RegistrySchema, Zenon
<1> HIDE DEF Inv
<1> QED
  BY <1>1, <1>2, <1>3, PTL DEF Spec

\* The reason migrations.go gives for deriving the version table's name from the
\* module's identifier: a module that shares it with no other has its whole schema,
\* so nobody else's migrations make its own look applied (SchemaComplete).
THEOREM SchemaOfItsOwn == Spec => []SchemaComplete
<1> DEFINE Inv == RegistryInv /\ todo \in Seq(Modules)
<1>1. Init => Inv
  BY RegistryInit, WiringAssumption, Zenon DEF Init
<1>2. Inv /\ [Next]_vars => Inv'
  BY RegistryKeeps, Zenon
<1>3. Inv => SchemaComplete
  BY RegistryComplete, Zenon
<1> HIDE DEF Inv
<1> QED
  BY <1>1, <1>2, <1>3, PTL DEF Spec

-----------------------------------------------------------------------------
(* Recursion, and the answers of a dispatch.                                 *)

\* f is defined by recursion: step[x, n] follows on x as the value at n.
Recursive(f, N, A, a, step) ==
    f[0] = a /\ \A n \in 1..N : f[n - 1] \in A => f[n] = step[<<f[n - 1], n>>]

\* A function may be defined by recursion on an interval.
LEMMA Recursion ==
    ASSUME NEW N \in Nat, NEW A, NEW a \in A, NEW step \in [A \X (1..N) -> A]
    PROVE  \E f \in [0..N -> A] : Recursive(f, N, A, a, step)
<1> DEFINE Upto(k) == \E f \in [0..k -> A] : f[0] = a /\ \A n \in 1..k : f[n] = step[<<f[n - 1], n>>]
           S == {k \in Nat : k <= N => Upto(k)}
<1>1. 0 \in S
  <2> DEFINE one == [i \in 0..0 |-> a]
  <2>1. one \in [0..0 -> A] /\ one[0] = a /\ 1..0 = {}
    OBVIOUS
  <2>2. Upto(0)
    BY <2>1, Zenon
  <2> HIDE DEF Upto
  <2> QED
    BY <2>2
<1>2. ASSUME NEW k \in Nat, k \in S PROVE k + 1 \in S
  <2>0. k + 1 \in Nat
    OBVIOUS
  <2> SUFFICES ASSUME k + 1 <= N PROVE Upto(k + 1)
    BY <2>0, Zenon
  <2>1. k <= N /\ k + 1 \in 1..N /\ k \in 0..k /\ 0 \in 0..k /\ k + 1 \in 0..(k + 1)
    OBVIOUS
  <2>2. PICK f \in [0..k -> A] : f[0] = a /\ \A n \in 1..k : f[n] = step[<<f[n - 1], n>>]
    BY <1>2, <2>1, Zenon
  <2> DEFINE last == step[<<f[k], k + 1>>]
             g == [i \in 0..(k + 1) |-> IF i = k + 1 THEN last ELSE f[i]]
  <2>3. last \in A
    BY <2>1, Zenon
  <2>4. \A i \in 0..(k + 1) : i = k + 1 \/ i \in 0..k
    OBVIOUS
  <2>5. \A i \in 0..k : i # k + 1 /\ i \in 0..(k + 1)
    OBVIOUS
  <2>6. g \in [0..(k + 1) -> A] /\ g[k + 1] = last /\ \A i \in 0..k : g[i] = f[i]
    BY <2>1, <2>3, <2>4, <2>5, Zenon
  <2>7. ASSUME NEW n \in 1..(k + 1) PROVE g[n] = step[<<g[n - 1], n>>]
    <3>1. n - 1 \in 0..k
      OBVIOUS
    <3>2. CASE n = k + 1
      <4>1. n - 1 = k
        BY <3>2
      <4> HIDE DEF g
      <4> QED
        BY <2>1, <2>6, <3>2, <4>1, Zenon
    <3>3. CASE n # k + 1
      <4>1. n \in 1..k /\ n \in 0..k
        BY <3>3
      <4> HIDE DEF g
      <4> QED
        BY <2>2, <2>6, <3>1, <4>1, Zenon
    <3> QED
      BY <3>2, <3>3, Zenon
  <2> HIDE DEF g
  <2> QED
    BY <2>1, <2>2, <2>6, <2>7, Zenon
<1>3. N \in S
  <2> HIDE DEF S
  <2> QED
    BY <1>1, <1>2, SetInduction, Zenon
<1>4. Upto(N)
  <2> HIDE DEF Upto
  <2> QED
    BY <1>3
<1> QED
  BY <1>4, Zenon DEF Recursive

Agree(f, g, n) == f[n] = g[n]

\* ... and has the type of its steps, and is the only one.
LEMMA RecursionIs ==
    ASSUME NEW N \in Nat, NEW A, NEW a \in A, NEW step \in [A \X (1..N) -> A],
           NEW f, Recursive(f, N, A, a, step), NEW g, Recursive(g, N, A, a, step), NEW n \in 0..N
    PROVE  f[n] \in A /\ Agree(f, g, n)
<1> DEFINE S == {k \in Nat : k <= N => f[k] \in A /\ f[k] = g[k]}
<1>1. 0 \in S
  BY Zenon DEF Recursive
<1>2. ASSUME NEW k \in Nat, k \in S PROVE k + 1 \in S
  <2>0. k + 1 \in Nat
    OBVIOUS
  <2> SUFFICES ASSUME k + 1 <= N PROVE f[k + 1] \in A /\ f[k + 1] = g[k + 1]
    BY <2>0, Zenon
  <2> DEFINE i == k + 1
  <2>1. k <= N /\ i \in 1..N /\ i - 1 = k
    OBVIOUS
  <2>2. f[k] \in A /\ f[k] = g[k]
    BY <1>2, <2>1, Zenon
  <2> HIDE DEF i
  <2>3. f[i] = step[<<f[k], i>>] /\ g[i] = step[<<g[k], i>>]
    BY <2>1, <2>2, Zenon DEF Recursive
  <2>4. step[<<f[k], i>>] \in A
    BY <2>1, <2>2, Zenon
  <2> QED
    BY <2>2, <2>3, <2>4, Zenon DEF i
<1>3. n \in S
  <2>1. n \in Nat
    OBVIOUS
  <2> HIDE DEF S
  <2> QED
    BY <1>1, <1>2, <2>1, SetInduction, Zenon
<1> QED
  BY <1>3 DEF Agree

\* A subscription is inserted into the ordered ones.
LEMMA InsertedIs ==
    ASSUME NEW o \in Seq(Subscriptions), NEW s \in Subscriptions
    PROVE  Inserted(o, s) \in Seq(Subscriptions)
<1> DEFINE later == {i \in DOMAIN o : Precedes(s, o[i])}
           at == IF later = {} THEN Len(o) + 1 ELSE Min(later)
<1>1. DOMAIN o = 1..Len(o) /\ Len(o) \in Nat
  OBVIOUS
<1>2. at \in 1..(Len(o) + 1)
  <2>1. CASE later = {}
    <3>1. Len(o) + 1 \in 1..(Len(o) + 1)
      BY <1>1
    <3> QED
      BY <2>1, <3>1, Zenon
  <2>2. CASE later # {}
    <3>0. later \subseteq 1..Len(o)
      BY <1>1, Zenon
    <3> HIDE DEF later
    <3>1. PICK x \in later : \A y \in later : ~(y < x)
      <4>1. later \subseteq Nat
        BY <1>1, <3>0
      <4> QED
        BY <2>2, <4>1, Least, Zenon
    <3>2. \A y \in later : x <= y
      BY <1>1, <3>0, <3>1
    <3>3. \E z \in later : \A y \in later : z =< y
      BY <3>1, <3>2
    <3>4. Min(later) \in later
      BY <3>3, Zenon DEF Min
    <3>5. \A y \in 1..Len(o) : y \in 1..(Len(o) + 1)
      BY <1>1
    <3> QED
      BY <2>2, <3>0, <3>4, <3>5, Zenon
  <2> QED
    BY <2>1, <2>2, Zenon
<1>3. Inserted(o, s) = SubSeq(o, 1, at - 1) \o <<s>> \o SubSeq(o, at, Len(o))
  BY Zenon DEF Inserted
<1> HIDE DEF at
<1>4. SubSeq(o, 1, at - 1) \in Seq(Subscriptions) /\ SubSeq(o, at, Len(o)) \in Seq(Subscriptions)
  <2>1. at - 1 \in Int /\ at \in Int /\ 1 \in Int /\ Len(o) \in Int
    BY <1>1, <1>2
  <2>2. \A i \in 1..(at - 1) : i \in 1..Len(o)
    BY <1>1, <1>2
  <2>3. \A i \in at..Len(o) : i \in 1..Len(o)
    BY <1>1, <1>2
  <2> QED
    BY <1>1, <1>2, <2>1, <2>2, <2>3, SeqParts
<1>5. <<s>> \in Seq(Subscriptions)
  OBVIOUS
<1>6. SubSeq(o, 1, at - 1) \o <<s>> \in Seq(Subscriptions)
  BY <1>4, <1>5, SeqJoins, Zenon
<1> QED
  BY <1>3, <1>4, <1>6, SeqJoins, Zenon

\* The steps of the sort in subscribersOf.
Sorting(subs, h, o) ==
    o = [n \in 0..Len(subs) |->
            IF n = 0 THEN <<>>
            ELSE IF subs[n].hook = h THEN Inserted(o[n - 1], subs[n]) ELSE o[n - 1]]

\* What is sorted are subscriptions.
LEMMA OrderedIs ==
    ASSUME NEW subs \in Seq(Subscriptions), NEW h
    PROVE  Ordered(subs, h) \in Seq(Subscriptions)
<1> DEFINE A == Seq(Subscriptions)
           N == Len(subs)
           step == [p \in A \X (1..N) |->
                       IF subs[p[2]].hook = h THEN Inserted(p[1], subs[p[2]]) ELSE p[1]]
<1>1. N \in Nat /\ <<>> \in A
  OBVIOUS
<1>2. \A n \in 1..N : subs[n] \in Subscriptions
  BY <1>1
<1>3. step \in [A \X (1..N) -> A]
  <2>1. ASSUME NEW p \in A \X (1..N)
        PROVE  (IF subs[p[2]].hook = h THEN Inserted(p[1], subs[p[2]]) ELSE p[1]) \in A
    <3>1. p[1] \in A /\ p[2] \in 1..N
      OBVIOUS
    <3>2. subs[p[2]] \in Subscriptions
      BY <1>2, <3>1, Zenon
    <3> QED
      BY <3>1, <3>2, InsertedIs, Zenon
  <2> QED
    BY <2>1, Zenon
<1>4. ASSUME NEW x \in A, NEW n \in 1..N
      PROVE  step[<<x, n>>] = IF subs[n].hook = h THEN Inserted(x, subs[n]) ELSE x
  <2>1. <<x, n>> \in A \X (1..N) /\ <<x, n>>[1] = x /\ <<x, n>>[2] = n
    OBVIOUS
  <2> QED
    BY <2>1, Zenon
<1> HIDE DEF step
<1>5. PICK f \in [0..N -> A] : Recursive(f, N, A, <<>>, step)
  <2> HIDE DEF A, N
  <2> QED
    BY <1>1, <1>3, Recursion, Zenon
<1>6. Sorting(subs, h, f)
  <2>1. ASSUME NEW n \in 0..N
        PROVE  f[n] = IF n = 0 THEN <<>>
                      ELSE IF subs[n].hook = h THEN Inserted(f[n - 1], subs[n]) ELSE f[n - 1]
    <3>1. CASE n = 0
      BY <1>5, <3>1, Zenon DEF Recursive
    <3>2. CASE n # 0
      <4>1. n \in 1..N /\ n - 1 \in 0..N
        BY <1>1, <3>2
      <4>2. f[n - 1] \in A
        BY <4>1, Zenon
      <4> QED
        BY <1>4, <1>5, <3>2, <4>1, <4>2, Zenon DEF Recursive
    <3> QED
      BY <3>1, <3>2, Zenon
  <2> HIDE DEF A
  <2> QED
    BY <2>1, Zenon DEF Sorting
<1> DEFINE g == CHOOSE o : Sorting(subs, h, o)
<1>7. Sorting(subs, h, g)
  BY <1>6, Zenon
<1>8. Ordered(subs, h) = g[N]
  BY Zenon DEF Ordered, Sorting
<1> HIDE DEF g
<1>9. g[N] \in A
  <2>1. 0 \in 0..N /\ N \in 0..N
    BY <1>1
  <2>2. g[0] = <<>>
    BY <1>7, <2>1, Zenon DEF Sorting
  <2>3. ASSUME NEW n \in 1..N, g[n - 1] \in A PROVE g[n] = step[<<g[n - 1], n>>]
    <3>1. n \in 0..N /\ n # 0
      BY <1>1
    <3>2. g[n] = IF subs[n].hook = h THEN Inserted(g[n - 1], subs[n]) ELSE g[n - 1]
      BY <1>7, <3>1, Zenon DEF Sorting
    <3> QED
      BY <1>4, <2>3, <3>2, Zenon
  <2>4. Recursive(g, N, A, <<>>, step)
    BY <2>2, <2>3, Zenon DEF Recursive
  <2> HIDE DEF A, N
  <2> QED
    BY <1>1, <1>3, <2>1, <2>4, RecursionIs, Zenon
<1> QED
  BY <1>8, <1>9, Zenon

\* The subscribers of a point are modules.
LEMMA SubscribersIs ==
    ASSUME reg \in Registries, NEW h
    PROVE  subscribersOf(h) \in Seq(Modules)
<1> DEFINE all == Ordered(reg.subs, h)
<1>1. reg.subs \in Seq(Subscriptions)
  BY DEF Registries
<1>2. all \in Seq(Subscriptions) /\ subscribersOf(h) = [i \in DOMAIN all |-> all[i].module]
  BY <1>1, OrderedIs, Zenon DEF subscribersOf
<1> HIDE DEF all
<1>3. \A i \in DOMAIN all : all[i].module \in Modules
  <2>1. \A i \in DOMAIN all : all[i] \in Subscriptions
    BY <1>2
  <2>2. \A s \in Subscriptions : s.module \in Modules
    BY DEF Subscriptions
  <2> QED
    BY <2>1, <2>2, Zenon
<1>4. DOMAIN all = 1..Len(all) /\ Len(all) \in Nat
  BY <1>2
<1> QED
  BY <1>2, <1>3, <1>4

\* One more answer, in the account of who vetoed.
VetoStep(answers) ==
    [p \in Seq(Modules) \X (1..Len(answers)) |->
        IF answers[p[2]].res = "veto" THEN Append(p[1], answers[p[2]].module) ELSE p[1]]

Vetting(answers, v) ==
    v = [i \in 0..Len(answers) |->
            IF i = 0 THEN <<>>
            ELSE IF answers[i].res = "veto" THEN Append(v[i - 1], answers[i].module) ELSE v[i - 1]]

\* A sequence of answers, field by field.
LEMMA AnswersAre ==
    ASSUME NEW answers \in Seq(AllAnswers)
    PROVE  /\ Len(answers) \in Nat /\ DOMAIN answers = 1..Len(answers)
           /\ \A i \in 1..Len(answers) :
                answers[i] \in AllAnswers /\ answers[i].module \in Modules /\ answers[i].err \in BOOLEAN
<1>1. \A a \in AllAnswers : a.module \in Modules /\ a.err \in BOOLEAN
  BY DEF AllAnswers
<1>2. \A i \in 1..Len(answers) : answers[i] \in AllAnswers
  OBVIOUS
<1>3. Len(answers) \in Nat /\ DOMAIN answers = 1..Len(answers)
  OBVIOUS
<1> QED
  BY <1>1, <1>2, <1>3, Zenon

\* The step by which vetoes are collected has its type.
LEMMA VetoStepIs ==
    ASSUME NEW answers \in Seq(AllAnswers)
    PROVE  /\ VetoStep(answers) \in [Seq(Modules) \X (1..Len(answers)) -> Seq(Modules)]
           /\ \A x \in Seq(Modules), n \in 1..Len(answers) : VetoStep(answers)[<<x, n>>] =
                IF answers[n].res = "veto" THEN Append(x, answers[n].module) ELSE x
<1> DEFINE A == Seq(Modules)
           N == Len(answers)
<1>1. \A n \in 1..N : answers[n].module \in Modules
  BY AnswersAre, Zenon
<1>2. \A x \in A, m \in Modules : Append(x, m) \in A
  OBVIOUS
<1>3. ASSUME NEW p \in A \X (1..N)
      PROVE  (IF answers[p[2]].res = "veto" THEN Append(p[1], answers[p[2]].module) ELSE p[1]) \in A
  <2>1. p[1] \in A /\ p[2] \in 1..N
    OBVIOUS
  <2> HIDE DEF A
  <2> QED
    BY <1>1, <1>2, <2>1, Zenon
<1>4. ASSUME NEW x \in A, NEW n \in 1..N
      PROVE  VetoStep(answers)[<<x, n>>] = IF answers[n].res = "veto" THEN Append(x, answers[n].module) ELSE x
  <2>1. <<x, n>> \in A \X (1..N) /\ <<x, n>>[1] = x /\ <<x, n>>[2] = n
    OBVIOUS
  <2> QED
    BY <2>1, Zenon DEF VetoStep
<1> QED
  BY <1>3, <1>4, Zenon DEF VetoStep

\* Vetoes is what that step computes.
LEMMA VetoSteps ==
    ASSUME NEW answers \in Seq(AllAnswers)
    PROVE  \E v : /\ Recursive(v, Len(answers), Seq(Modules), <<>>, VetoStep(answers))
                  /\ Vetoes(answers) = v[Len(answers)]
<1> DEFINE A == Seq(Modules)
           N == Len(answers)
           step == VetoStep(answers)
<1>1. N \in Nat /\ <<>> \in A
  OBVIOUS
<1>2. /\ step \in [A \X (1..N) -> A]
      /\ \A x \in A, n \in 1..N : step[<<x, n>>] = IF answers[n].res = "veto" THEN Append(x, answers[n].module) ELSE x
  BY VetoStepIs, Zenon
<1> HIDE DEF step
<1>3. PICK f \in [0..N -> A] : Recursive(f, N, A, <<>>, step)
  <2> HIDE DEF A, N
  <2> QED
    BY <1>1, <1>2, Recursion, Zenon
<1>4. Vetting(answers, f)
  <2>1. ASSUME NEW n \in 0..N
        PROVE  f[n] = IF n = 0 THEN <<>>
                      ELSE IF answers[n].res = "veto" THEN Append(f[n - 1], answers[n].module) ELSE f[n - 1]
    <3>1. CASE n = 0
      BY <1>3, <3>1, Zenon DEF Recursive
    <3>2. CASE n # 0
      <4>1. n \in 1..N /\ n - 1 \in 0..N
        BY <1>1, <3>2
      <4>2. f[n - 1] \in A
        BY <4>1, Zenon
      <4> QED
        BY <1>2, <1>3, <3>2, <4>1, <4>2, Zenon DEF Recursive
    <3> QED
      BY <3>1, <3>2, Zenon
  <2> HIDE DEF A
  <2> QED
    BY <2>1, Zenon DEF Vetting
<1> DEFINE g == CHOOSE v : Vetting(answers, v)
<1>5. Vetting(answers, g)
  BY <1>4, Zenon
<1>6. Vetoes(answers) = g[N]
  BY Zenon DEF Vetoes, Vetting
<1> HIDE DEF g
<1>7. g[0] = <<>>
  <2>1. 0 \in 0..N
    BY <1>1
  <2> QED
    BY <1>5, <2>1, Zenon DEF Vetting
<1>8. ASSUME NEW n \in 1..N, g[n - 1] \in A PROVE g[n] = step[<<g[n - 1], n>>]
  <2>1. n \in 0..N /\ n # 0
    BY <1>1
  <2>2. g[n] = IF answers[n].res = "veto" THEN Append(g[n - 1], answers[n].module) ELSE g[n - 1]
    BY <1>5, <2>1, Zenon DEF Vetting
  <2> QED
    BY <1>2, <1>8, <2>2, Zenon
<1>9. Recursive(g, N, A, <<>>, step)
  BY <1>7, <1>8, Zenon DEF Recursive
<1> QED
  BY <1>6, <1>9, Zenon DEF step

\* Who vetoed, with one more answer.
LEMMA VetoesAppend ==
    ASSUME NEW answers \in Seq(AllAnswers), NEW a \in AllAnswers
    PROVE  /\ Vetoes(answers) \in Seq(Modules) /\ Vetoes(<<>>) = <<>>
           /\ Vetoes(Append(answers, a)) =
                IF a.res = "veto" THEN Append(Vetoes(answers), a.module) ELSE Vetoes(answers)
<1> DEFINE A == Seq(Modules)
           N == Len(answers)
           longer == Append(answers, a)
           M == N + 1
<1>1. /\ N \in Nat /\ M \in Nat /\ <<>> \in A /\ longer \in Seq(AllAnswers) /\ Len(longer) = M
      /\ longer[M] = a /\ \A i \in 1..N : longer[i] = answers[i] /\ i \in 1..M
      /\ M \in 1..M /\ M - 1 = N /\ N \in 0..N
  OBVIOUS
<1>2. PICK v : Recursive(v, N, A, <<>>, VetoStep(answers)) /\ Vetoes(answers) = v[N]
  BY VetoSteps, Zenon
<1> HIDE DEF longer, M
<1>3. PICK w : Recursive(w, M, A, <<>>, VetoStep(longer)) /\ Vetoes(longer) = w[M]
  BY <1>1, VetoSteps, Zenon
<1>4. /\ VetoStep(answers) \in [A \X (1..N) -> A]
      /\ \A x \in A, n \in 1..N : VetoStep(answers)[<<x, n>>] =
           IF answers[n].res = "veto" THEN Append(x, answers[n].module) ELSE x
  BY VetoStepIs, Zenon
<1>5. \A x \in A, n \in 1..M : VetoStep(longer)[<<x, n>>] =
           IF longer[n].res = "veto" THEN Append(x, longer[n].module) ELSE x
  BY <1>1, VetoStepIs, Zenon
<1>6. Recursive(w, N, A, <<>>, VetoStep(answers))
  <2>1. w[0] = <<>> /\ \A n \in 1..M : w[n - 1] \in A => w[n] = VetoStep(longer)[<<w[n - 1], n>>]
    BY <1>3, Zenon DEF Recursive
  <2>2. ASSUME NEW n \in 1..N, w[n - 1] \in A PROVE w[n] = VetoStep(answers)[<<w[n - 1], n>>]
    <3>1. n \in 1..M /\ longer[n] = answers[n]
      BY <1>1, Zenon
    <3>2. w[n] = VetoStep(longer)[<<w[n - 1], n>>]
      BY <2>1, <2>2, <3>1, Zenon
    <3>3. VetoStep(longer)[<<w[n - 1], n>>] =
                IF longer[n].res = "veto" THEN Append(w[n - 1], longer[n].module) ELSE w[n - 1]
      BY <1>5, <2>2, <3>1, Zenon
    <3>4. VetoStep(answers)[<<w[n - 1], n>>] =
                IF answers[n].res = "veto" THEN Append(w[n - 1], answers[n].module) ELSE w[n - 1]
      BY <1>4, <2>2, <3>1, Zenon
    <3> HIDE DEF A
    <3> QED
      BY <3>1, <3>2, <3>3, <3>4, Zenon
  <2> QED
    BY <2>1, <2>2, Zenon DEF Recursive
<1>7. v[N] \in A /\ v[N] = w[N]
  <2>1. N \in Nat /\ N \in 0..N /\ <<>> \in A /\ VetoStep(answers) \in [A \X (1..N) -> A]
    BY <1>1, <1>4, Zenon
  <2>2. Recursive(v, N, A, <<>>, VetoStep(answers)) /\ Recursive(w, N, A, <<>>, VetoStep(answers))
    BY <1>2, <1>6, Zenon
  <2> DEFINE step == VetoStep(answers)
  <2>3. step \in [A \X (1..N) -> A] /\ Recursive(v, N, A, <<>>, step) /\ Recursive(w, N, A, <<>>, step)
    BY <2>1, <2>2, Zenon
  <2> HIDE DEF A, N, step
  <2>4. Agree(v, w, N)
    BY <2>1, <2>3, RecursionIs, Zenon
  <2>5. v[N] \in A
    BY <2>1, <2>3, RecursionIs, Zenon
  <2> QED
    BY <2>4, <2>5, Zenon DEF Agree
<1>8. w[M] = IF a.res = "veto" THEN Append(w[N], a.module) ELSE w[N]
  <2>0. w[M - 1] \in A /\ w[M - 1] = w[N] /\ M \in 1..M
    <3>1. M - 1 = N /\ M \in 1..M
      BY <1>1, Zenon
    <3>2. w[N] \in A
      BY <1>7, Zenon
    <3> HIDE DEF A, N
    <3> QED
      BY <3>1, <3>2
  <2>1. w[M] = VetoStep(longer)[<<w[N], M>>]
    BY <1>3, <2>0, Zenon DEF Recursive
  <2> QED
    BY <1>1, <1>5, <1>7, <2>1, Zenon
<1>9. Vetoes(<<>>) = <<>>
  <2>1. <<>> \in Seq(AllAnswers) /\ Len(<<>>) = 0
    OBVIOUS
  <2>2. PICK u : Recursive(u, 0, A, <<>>, VetoStep(<<>>)) /\ Vetoes(<<>>) = u[0]
    BY <2>1, VetoSteps, Zenon
  <2> QED
    BY <2>2, Zenon DEF Recursive
<1> QED
  BY <1>2, <1>3, <1>7, <1>8, <1>9, Zenon DEF longer

\* A set of positions has a last one.
LEMMA MaxIs ==
    ASSUME NEW N \in Nat, NEW S, S \subseteq 1..N, S # {}
    PROVE  Max(S) \in S /\ \A y \in S : y <= Max(S)
<1> DEFINE T == {N - x : x \in S}
<1>0. \A x \in S : N - x \in Nat
  OBVIOUS
<1>1. T \subseteq Nat /\ T # {}
  BY <1>0, Zenon
<1>2. PICK z \in T : \A y \in T : ~(y < z)
  <2> HIDE DEF T
  <2> QED
    BY <1>1, Least, Zenon
<1>3. PICK x \in S : z = N - x
  BY Zenon
<1>4. \A y \in S : N - y \in T
  BY Zenon
<1>5. \A y \in S : x >= y
  <2> HIDE DEF T
  <2> QED
    BY <1>2, <1>3, <1>4
<1> DEFINE top == CHOOSE u \in S : \A y \in S : u >= y
<1>6. top \in S /\ \A y \in S : top >= y
  BY <1>5, Zenon
<1>7. Max(S) = top
  BY Zenon DEF Max
<1> HIDE DEF top
<1>8. \A y \in S : y <= top
  BY <1>6
<1> QED
  BY <1>6, <1>7, <1>8, Zenon

Given(answers) == {i \in DOMAIN answers : answers[i].res = "value" /\ ~answers[i].err}

\* Who handed back the last value, with one more answer.
LEMMA LastValueAppend ==
    ASSUME NEW answers \in Seq(AllAnswers), NEW a \in AllAnswers
    PROVE  /\ LastValue(<<>>) = NoModule /\ LastValue(answers) \in Modules \union {NoModule}
           /\ LastValue(Append(answers, a)) =
                IF a.res = "value" /\ ~a.err THEN a.module ELSE LastValue(answers)
<1> DEFINE N == Len(answers)
           M == N + 1
           longer == Append(answers, a)
<1>1. /\ N \in Nat /\ M \in Nat /\ longer \in Seq(AllAnswers) /\ DOMAIN longer = 1..M
      /\ longer[M] = a /\ DOMAIN answers = 1..N
      /\ \A i \in 1..N : longer[i] = answers[i] /\ i \in 1..M
      /\ M \in 1..M /\ \A i \in 1..M : i \in 1..N \/ i = M
  OBVIOUS
<1>2. \A s : LastValue(s) = IF Given(s) = {} THEN NoModule ELSE s[Max(Given(s))].module
  BY Zenon DEF LastValue, Given
<1>3. LastValue(<<>>) = NoModule
  <2>1. Given(<<>>) = {}
    BY DEF Given
  <2> QED
    BY <1>2, <2>1, Zenon
<1> HIDE DEF N, M, longer
<1>4. Given(answers) \subseteq 1..N /\ Given(longer) \subseteq 1..M
  BY <1>1, Zenon DEF Given
<1>5. LastValue(answers) \in Modules \union {NoModule}
  <2>1. CASE Given(answers) = {}
    BY <1>2, <2>1, Zenon
  <2>2. CASE Given(answers) # {}
    <3>1. Max(Given(answers)) \in 1..N
      BY <1>1, <1>4, <2>2, MaxIs, Zenon
    <3> QED
      BY <1>2, <2>2, <3>1, AnswersAre, Zenon DEF N
  <2> QED
    BY <2>1, <2>2, Zenon
<1>6. CASE a.res = "value" /\ ~a.err
  <2>1. M \in Given(longer)
    BY <1>1, <1>6, Zenon DEF Given
  <2>2. Max(Given(longer)) \in 1..M /\ M <= Max(Given(longer))
    BY <1>1, <1>4, <2>1, MaxIs, Zenon
  <2>3. Max(Given(longer)) = M
    BY <1>1, <2>2
  <2>4. LastValue(longer) = a.module
    BY <1>1, <1>2, <2>1, <2>3, Zenon
  <2> QED
    BY <1>3, <1>5, <1>6, <2>4, Zenon DEF longer
<1>7. CASE ~(a.res = "value" /\ ~a.err)
  <2>1. Given(longer) = Given(answers)
    <3>1. ASSUME NEW i \in Given(longer) PROVE i \in Given(answers)
      <4>1. i \in 1..M /\ longer[i].res = "value" /\ ~longer[i].err
        BY <1>1, Zenon DEF Given
      <4>2. i # M
        BY <1>1, <1>7, <4>1, Zenon
      <4> QED
        BY <1>1, <4>1, <4>2, Zenon DEF Given
    <3>2. ASSUME NEW i \in Given(answers) PROVE i \in Given(longer)
      BY <1>1, Zenon DEF Given
    <3> QED
      BY <3>1, <3>2, Zenon
  <2>2. LastValue(longer) = LastValue(answers)
    <3>1. CASE Given(answers) = {}
      BY <1>2, <2>1, <3>1, Zenon
    <3>2. CASE Given(answers) # {}
      <4> DEFINE x == Max(Given(answers))
      <4>1. x \in 1..N
        BY <1>1, <1>4, <3>2, MaxIs, Zenon
      <4>2. Max(Given(longer)) = x
        BY <2>1, Zenon
      <4>3. LastValue(longer) = longer[x].module /\ LastValue(answers) = answers[x].module
        BY <1>2, <2>1, <3>2, Zenon
      <4> HIDE DEF x
      <4> QED
        BY <1>1, <4>1, <4>3, Zenon
    <3> QED
      BY <3>1, <3>2, Zenon
  <2> QED
    BY <1>3, <1>5, <1>7, <2>2, Zenon DEF longer
<1> QED
  BY <1>6, <1>7, Zenon

\* What one turn of a dispatch changes: how the rejections, the value and the
\* verdict go on.
Rejecting(d, seen) ==
    IF ~applyPolicy(d.hook, seen.err) /\ Hooks[d.hook].kind = "validator" /\ seen.res = "veto"
    THEN Append(d.rejections, seen.module) ELSE d.rejections
Keeping(d, seen) ==
    IF ~applyPolicy(d.hook, seen.err) /\ Hooks[d.hook].kind = "transformer" /\ ~seen.err /\ seen.res # "nil"
    THEN seen.module ELSE d.value
Going(d, seen, e) ==
    IF applyPolicy(d.hook, seen.err) THEN "failed"
    ELSE IF e.left # <<>> THEN "open"
    ELSE IF e.rejections = <<>> THEN "ok" ELSE "rejected"
GoesOn(d, truth, seen, e) ==
    /\ e \in Dispatches
    /\ e.hook = d.hook /\ e.left = Tail(d.left) /\ e.answers = Append(d.answers, truth)
    /\ e.rejections = Rejecting(d, seen) /\ e.value = Keeping(d, seen)
    /\ e.verdict = Going(d, seen, e)

\* The fields of a dispatch.
LEMMA DispatchFields ==
    ASSUME NEW d \in Dispatches
    PROVE  /\ d.hook \in DOMAIN Hooks \union {"none"} /\ d.left \in Seq(Modules)
           /\ d.answers \in Seq(AllAnswers) /\ d.rejections \in Seq(Modules)
           /\ d.value \in Modules \union {NoModule} /\ d.raced \in BOOLEAN
           /\ d.verdict \in {"none", "open", "ok", "rejected", "failed"}
  BY DEF Dispatches

\* One turn of the loop, field by field.
LEMMA CountedIs ==
    ASSUME NEW d \in Dispatches, d.left # <<>>, NEW truth \in AllAnswers, NEW seen \in AllAnswers
    PROVE  LET e == Counted(d, truth, seen)
           IN  /\ e \in Dispatches
               /\ e.hook = d.hook /\ e.left = Tail(d.left) /\ e.answers = Append(d.answers, truth)
               /\ e.rejections = Rejecting(d, seen) /\ e.value = Keeping(d, seen) /\ e.raced = d.raced
               /\ e.verdict = IF applyPolicy(d.hook, seen.err) THEN "failed" ELSE d.verdict
<1>1. /\ d.left \in Seq(Modules) /\ d.answers \in Seq(AllAnswers) /\ d.rejections \in Seq(Modules)
      /\ d.value \in Modules \union {NoModule}
  BY DispatchFields, Zenon
<1>2. seen.module \in Modules
  BY DEF AllAnswers
<1> DEFINE rest == Tail(d.left)
           longer == Append(d.answers, truth)
           more == Append(d.rejections, seen.module)
           heard == [d EXCEPT !.left = rest, !.answers = longer]
<1>3. rest \in Seq(Modules) /\ longer \in Seq(AllAnswers) /\ more \in Seq(Modules)
  BY <1>1, <1>2
<1> HIDE DEF rest, longer, more
<1>4. /\ heard \in Dispatches /\ heard.hook = d.hook /\ heard.left = rest /\ heard.answers = longer
      /\ heard.rejections = d.rejections /\ heard.value = d.value /\ heard.raced = d.raced
      /\ heard.verdict = d.verdict
  BY <1>3, Zenon DEF Dispatches
<1>5. heard = [d EXCEPT !.left = Tail(@), !.answers = Append(@, truth)]
  BY Zenon DEF rest, longer
<1> HIDE DEF heard
<1> DEFINE e == Counted(d, truth, seen)
<1>6. e = CASE applyPolicy(d.hook, seen.err) -> [heard EXCEPT !.verdict = "failed"]
            [] ~applyPolicy(d.hook, seen.err) /\ Hooks[d.hook].kind = "validator" -> Validate(heard, seen)
            [] ~applyPolicy(d.hook, seen.err) /\ Hooks[d.hook].kind = "transformer" -> Transform(heard, seen)
            [] OTHER -> heard
  BY <1>5, Zenon DEF Counted
<1> HIDE DEF e
<1> SUFFICES /\ e \in Dispatches
             /\ e.hook = d.hook /\ e.left = rest /\ e.answers = longer
             /\ e.rejections = Rejecting(d, seen) /\ e.value = Keeping(d, seen) /\ e.raced = d.raced
             /\ e.verdict = IF applyPolicy(d.hook, seen.err) THEN "failed" ELSE d.verdict
  BY Zenon DEF e, rest, longer
<1>7. CASE applyPolicy(d.hook, seen.err)
  <2>1. e = [heard EXCEPT !.verdict = "failed"]
    BY <1>6, <1>7
  <2>2. /\ e \in Dispatches /\ e.hook = d.hook /\ e.left = rest /\ e.answers = longer
        /\ e.rejections = d.rejections /\ e.value = d.value /\ e.raced = d.raced /\ e.verdict = "failed"
    BY <1>4, <2>1, Zenon DEF Dispatches
  <2> QED
    BY <1>7, <2>2, Zenon DEF Rejecting, Keeping
<1>8. CASE ~applyPolicy(d.hook, seen.err) /\ Hooks[d.hook].kind = "validator"
  <2>1. e = Validate(heard, seen)
    BY <1>6, <1>8
  <2>2. Keeping(d, seen) = d.value
    BY <1>8 DEF Keeping
  <2>3. CASE seen.res = "veto"
    <3>1. e = [heard EXCEPT !.rejections = more]
      BY <1>4, <2>1, <2>3, Zenon DEF Validate, more
    <3>2. Rejecting(d, seen) = more
      BY <1>8, <2>3, Zenon DEF Rejecting, more
    <3>3. /\ e \in Dispatches /\ e.hook = d.hook /\ e.left = rest /\ e.answers = longer
          /\ e.rejections = more /\ e.value = d.value /\ e.raced = d.raced /\ e.verdict = d.verdict
      BY <1>3, <1>4, <3>1, Zenon DEF Dispatches
    <3> QED
      BY <1>8, <2>2, <3>2, <3>3, Zenon
  <2>4. CASE seen.res # "veto"
    <3>1. e = heard /\ Rejecting(d, seen) = d.rejections
      BY <2>1, <2>4, Zenon DEF Validate, Rejecting
    <3> QED
      BY <1>4, <1>8, <2>2, <3>1, Zenon
  <2> QED
    BY <2>3, <2>4, Zenon
<1>9. CASE ~applyPolicy(d.hook, seen.err) /\ Hooks[d.hook].kind = "transformer"
  <2>1. e = Transform(heard, seen)
    BY <1>6, <1>9
  <2>2. Rejecting(d, seen) = d.rejections
    BY <1>9 DEF Rejecting
  <2>3. CASE ~seen.err /\ seen.res # "nil"
    <3>1. e = [heard EXCEPT !.value = seen.module]
      BY <2>1, <2>3, Zenon DEF Transform
    <3>2. Keeping(d, seen) = seen.module
      BY <1>9, <2>3, Zenon DEF Keeping
    <3>3. /\ e \in Dispatches /\ e.hook = d.hook /\ e.left = rest /\ e.answers = longer
          /\ e.rejections = d.rejections /\ e.value = seen.module /\ e.raced = d.raced /\ e.verdict = d.verdict
      BY <1>2, <1>4, <3>1, Zenon DEF Dispatches
    <3> QED
      BY <1>9, <2>2, <3>2, <3>3, Zenon
  <2>4. CASE ~(~seen.err /\ seen.res # "nil")
    <3>1. e = heard /\ Keeping(d, seen) = d.value
      BY <2>1, <2>4, Zenon DEF Transform, Keeping
    <3> QED
      BY <1>4, <1>9, <2>2, <3>1, Zenon
  <2> QED
    BY <2>3, <2>4, Zenon
<1>10. CASE ~applyPolicy(d.hook, seen.err) /\ Hooks[d.hook].kind \notin {"validator", "transformer"}
  <2>1. e = heard
    BY <1>6, <1>10
  <2>2. Rejecting(d, seen) = d.rejections /\ Keeping(d, seen) = d.value
    BY <1>10 DEF Rejecting, Keeping
  <2> QED
    BY <1>4, <1>10, <2>1, <2>2, Zenon
<1> QED
  BY <1>7, <1>8, <1>9, <1>10, Zenon

\* The dispatch goes on after one turn of the loop.
LEMMA AfterIs ==
    ASSUME NEW d \in Dispatches, d.left # <<>>, d.verdict = "open",
           NEW truth \in AllAnswers, NEW seen \in AllAnswers
    PROVE  GoesOn(d, truth, seen, After(d, truth, seen)) /\ After(d, truth, seen).raced = d.raced
<1> DEFINE c == Counted(d, truth, seen)
           e == After(d, truth, seen)
           end == IF c.rejections = <<>> THEN "ok" ELSE "rejected"
<1>1. /\ c \in Dispatches
      /\ c.hook = d.hook /\ c.left = Tail(d.left) /\ c.answers = Append(d.answers, truth)
      /\ c.rejections = Rejecting(d, seen) /\ c.value = Keeping(d, seen) /\ c.raced = d.raced
      /\ c.verdict = IF applyPolicy(d.hook, seen.err) THEN "failed" ELSE "open"
  BY CountedIs, Zenon
<1>2. e = IF c.left # <<>> \/ c.verdict # "open" THEN c ELSE [c EXCEPT !.verdict = end]
  BY Zenon DEF After, Concluded
<1> HIDE DEF c, e
<1>3. CASE c.left # <<>> \/ c.verdict # "open"
  <2>1. e = c
    BY <1>2, <1>3, Zenon
  <2>2. c.verdict = Going(d, seen, c)
    <3>1. CASE applyPolicy(d.hook, seen.err)
      BY <1>1, <3>1, Zenon DEF Going
    <3>2. CASE ~applyPolicy(d.hook, seen.err)
      <4>1. c.verdict = "open"
        BY <1>1, <3>2, Zenon
      <4> QED
        BY <1>3, <3>2, <4>1, Zenon DEF Going
    <3> QED
      BY <3>1, <3>2, Zenon
  <2> QED
    BY <1>1, <2>1, <2>2, Zenon DEF GoesOn, e
<1>4. CASE ~(c.left # <<>> \/ c.verdict # "open")
  <2>1. e = [c EXCEPT !.verdict = end] /\ end \in {"ok", "rejected"}
    BY <1>2, <1>4, Zenon
  <2>2. end = Going(d, seen, c)
    <3>1. ~applyPolicy(d.hook, seen.err)
      BY <1>1, <1>4
    <3> QED
      BY <1>4, <3>1, Zenon DEF Going
  <2> HIDE DEF end
  <2>3. /\ e \in Dispatches /\ e.hook = c.hook /\ e.left = c.left /\ e.answers = c.answers
        /\ e.rejections = c.rejections /\ e.value = c.value /\ e.raced = c.raced /\ e.verdict = end
    BY <1>1, <2>1, Zenon DEF Dispatches
  <2>4. Going(d, seen, c) = Going(d, seen, e)
    BY <2>3, Zenon DEF Going
  <2> QED
    BY <1>1, <2>2, <2>3, <2>4, Zenon DEF GoesOn, e
<1> QED
  BY <1>3, <1>4, Zenon

\* ... also when the answer met its time limit.
LEMMA RacedIs ==
    ASSUME NEW d, NEW truth, NEW seen, NEW c, GoesOn(d, truth, seen, c)
    PROVE  GoesOn(d, truth, seen, [c EXCEPT !.raced = TRUE]) /\ [c EXCEPT !.raced = TRUE].raced
<1> DEFINE e == [c EXCEPT !.raced = TRUE]
<1>1. c \in Dispatches
  BY Zenon DEF GoesOn
<1>2. /\ e \in Dispatches /\ e.hook = c.hook /\ e.left = c.left /\ e.answers = c.answers
      /\ e.rejections = c.rejections /\ e.value = c.value /\ e.raced /\ e.verdict = c.verdict
  BY <1>1, Zenon DEF Dispatches
<1> HIDE DEF e
<1>3. Going(d, seen, c) = Going(d, seen, e)
  BY <1>2, Zenon DEF Going
<1> QED
  BY <1>2, <1>3, Zenon DEF GoesOn, e

\* A dispatch that goes on still has its account.  Unless it was raced, what the
\* dispatcher has seen is what the subscriber did, and that fits the point's kind.
LEMMA AccountKept ==
    ASSUME reg \in Registries,
           NEW d \in Dispatches, Accounted(d), d.verdict = "open",
           NEW truth \in AllAnswers, truth.module = Head(d.left),
           NEW seen \in AllAnswers, NEW e, GoesOn(d, truth, seen, e), d.raced => e.raced,
           ~e.raced => /\ seen = truth
                       /\ truth.res = "veto" => Hooks[d.hook].kind = "validator"
                       /\ truth.res = "value" => Hooks[d.hook].kind = "transformer"
    PROVE  Accounted(e)
<1>1. /\ d.hook \in DOMAIN Hooks /\ d.left # <<>>
      /\ [i \in DOMAIN d.answers |-> d.answers[i].module] \o d.left = subscribersOf(d.hook)
  BY Zenon DEF Accounted
<1>2. /\ e \in Dispatches /\ e.hook = d.hook /\ e.left = Tail(d.left) /\ e.answers = Append(d.answers, truth)
      /\ e.rejections = Rejecting(d, seen) /\ e.value = Keeping(d, seen) /\ e.verdict = Going(d, seen, e)
  BY Zenon DEF GoesOn
<1>3. d.left \in Seq(Modules) /\ d.answers \in Seq(AllAnswers) /\ e.raced \in BOOLEAN
  BY <1>2, DispatchFields, Zenon
<1>4. [i \in DOMAIN e.answers |-> e.answers[i].module] \o e.left = subscribersOf(e.hook)
  <2> DEFINE was == [i \in DOMAIN d.answers |-> d.answers[i].module]
             is == [i \in DOMAIN e.answers |-> e.answers[i].module]
             N == Len(d.answers)
  <2>1. N \in Nat /\ DOMAIN d.answers = 1..N /\ \A i \in 1..N : d.answers[i].module \in Modules
    BY <1>3, AnswersAre, Zenon
  <2>2. /\ DOMAIN e.answers = 1..(N + 1) /\ e.answers[N + 1] = truth
        /\ \A i \in 1..N : e.answers[i] = d.answers[i]
    BY <1>2, <1>3, SMTT(60)
  <2>3. was \in Seq(Modules) /\ Len(was) = N
    BY <2>1
  <2>4. Head(d.left) \in Modules /\ Tail(d.left) \in Seq(Modules) /\ d.left = <<Head(d.left)>> \o Tail(d.left)
    BY <1>1, <1>3
  <2>5. is = was \o <<Head(d.left)>>
    <3> DEFINE h == Head(d.left)
    <3>1. h \in Modules /\ truth.module = h
      BY <2>4, Zenon
    <3>2. \A i \in 1..N : is[i] = was[i]
      BY <2>1, <2>2
    <3>3. is[N + 1] = h /\ DOMAIN is = 1..(N + 1)
      BY <2>1, <2>2, <3>1
    <3> HIDE DEF is, was, h
    <3>4. was \o <<h>> = Append(was, h)
      BY <2>3, <3>1
    <3>5. /\ DOMAIN Append(was, h) = 1..(N + 1) /\ Append(was, h)[N + 1] = h
          /\ \A i \in 1..N : Append(was, h)[i] = was[i]
      BY <2>1, <2>3, <3>1
    <3>6. \A i \in 1..(N + 1) : i \in 1..N \/ i = N + 1
      BY <2>1
    <3>7. \A i \in 1..(N + 1) : is[i] = Append(was, h)[i]
      BY <3>2, <3>3, <3>5, <3>6, Zenon
    <3>8. is = Append(was, h)
      <4>1. Append(was, h) \in Seq(Modules) /\ Len(Append(was, h)) = N + 1
        BY <2>1, <2>3, <3>1, SMTT(60)
      <4>2. is \in Seq(Modules) /\ Len(is) = N + 1
        <5>1. \A i \in 1..(N + 1) : e.answers[i].module \in Modules
          BY <2>1, <2>2, <3>1, <3>6, Zenon
        <5> QED
          BY <2>1, <2>2, <5>1 DEF is
      <4> HIDE DEF N
      <4> QED
        BY <3>7, <4>1, <4>2, SeqSame, Zenon
    <3> QED
      BY <3>4, <3>8, Zenon DEF h
  <2> HIDE DEF is, was
  <2>6. is \o Tail(d.left) = was \o (<<Head(d.left)>> \o Tail(d.left))
    <3>1. <<Head(d.left)>> \in Seq(Modules)
      BY <2>4
    <3> DEFINE one == <<Head(d.left)>>
               rest == Tail(d.left)
    <3>2. one \in Seq(Modules) /\ rest \in Seq(Modules) /\ is = was \o one
      BY <2>4, <2>5, <3>1, Zenon
    <3> HIDE DEF one, rest
    <3>3. (was \o one) \o rest = was \o (one \o rest)
      BY <2>3, <3>2, SeqAssociates, SMTT(60)
    <3> QED
      BY <3>2, <3>3, Zenon DEF one, rest
  <2>7. is \o e.left = was \o d.left
    BY <1>2, <2>4, <2>6, Zenon
  <2> QED
    BY <1>1, <1>2, <2>7, Zenon DEF is, was
<1>5. e.verdict # "none"
  BY <1>2 DEF Going
<1>6. e.verdict = "open" <=> e.left # <<>> /\ e.verdict # "failed"
  BY <1>2 DEF Going
<1>7. (e.verdict = "ok" => e.rejections = <<>>) /\ (e.verdict = "rejected" => e.rejections # <<>>)
  BY <1>2 DEF Going
<1>8. ASSUME ~e.raced
      PROVE  /\ e.verdict # "failed" =>
                 /\ \A i \in DOMAIN e.answers : e.answers[i].err => Hooks[e.hook].policy = "fail_open"
                 /\ e.rejections = Vetoes(e.answers)
             /\ e.verdict = "failed" =>
                 e.answers # <<>> /\ Last(e.answers).err /\ Hooks[e.hook].policy = "fail_closed"
             /\ e.value = LastValue(e.answers)
  <2>1. /\ ~d.raced /\ seen = truth
        /\ truth.res = "veto" => Hooks[d.hook].kind = "validator"
        /\ truth.res = "value" => Hooks[d.hook].kind = "transformer"
    BY <1>8, Zenon
  <2>2. /\ \A i \in DOMAIN d.answers : d.answers[i].err => Hooks[d.hook].policy = "fail_open"
        /\ d.rejections = Vetoes(d.answers)
        /\ d.value = LastValue(d.answers)
    BY <2>1, Zenon DEF Accounted
  <2>3. truth.err \in BOOLEAN /\ truth.res \in {"nil", "veto", "value"}
    BY DEF AllAnswers, Results
  <2>4. Vetoes(e.answers) = IF truth.res = "veto" THEN Append(Vetoes(d.answers), truth.module) ELSE Vetoes(d.answers)
    BY <1>2, <1>3, VetoesAppend, Zenon
  <2>5. LastValue(e.answers) = IF truth.res = "value" /\ ~truth.err THEN truth.module ELSE LastValue(d.answers)
    BY <1>2, <1>3, LastValueAppend, Zenon
  <2>6. e.value = LastValue(e.answers)
    <3>1. e.value = Keeping(d, truth)
      BY <1>2, <2>1, Zenon
    <3>2. CASE truth.res = "value" /\ ~truth.err
      <4>1. ~applyPolicy(d.hook, truth.err) /\ Hooks[d.hook].kind = "transformer" /\ truth.res # "nil"
        BY <2>1, <3>2 DEF applyPolicy
      <4> QED
        BY <2>5, <3>1, <3>2, <4>1, Zenon DEF Keeping
    <3>3. CASE ~(truth.res = "value" /\ ~truth.err)
      <4>1. Keeping(d, truth) = d.value
        <5>1. CASE truth.err \/ truth.res = "nil"
          BY <5>1, ZenonT(60) DEF Keeping
        <5>2. CASE truth.res = "veto"
          <6>1. Hooks[d.hook].kind # "transformer"
            BY <2>1, <5>2
          <6> QED
            BY <6>1, Zenon DEF Keeping
        <5> QED
          BY <2>3, <3>3, <5>1, <5>2, Zenon
      <4> QED
        BY <2>2, <2>5, <3>1, <3>3, <4>1, Zenon
    <3> QED
      BY <3>2, <3>3, Zenon
  <2>7. Last(e.answers) = truth /\ e.answers # <<>>
    BY <1>2, <1>3 DEF Last
  <2>8. CASE e.verdict = "failed"
    <3>1. applyPolicy(d.hook, truth.err)
      BY <1>2, <2>1, <2>8 DEF Going
    <3> QED
      BY <1>2, <2>6, <2>7, <2>8, <3>1, Zenon DEF applyPolicy
  <2>9. CASE e.verdict # "failed"
    <3>1. ~applyPolicy(d.hook, truth.err)
      BY <1>2, <2>1, <2>9, Zenon DEF Going
    <3>2. truth.err => Hooks[d.hook].policy = "fail_open"
      BY <1>1, <3>1, CallsAssumption, Zenon DEF applyPolicy
    <3>3. ASSUME NEW i \in DOMAIN e.answers, e.answers[i].err PROVE Hooks[e.hook].policy = "fail_open"
      <4>1. e.answers[i] = truth \/ (i \in DOMAIN d.answers /\ e.answers[i] = d.answers[i])
        BY <1>2, <1>3, <3>3
      <4> QED
        BY <1>2, <2>2, <3>2, <3>3, <4>1, ZenonT(60)
    <3>4. e.rejections = Vetoes(e.answers)
      <4>1. e.rejections = Rejecting(d, truth)
        BY <1>2, <2>1, Zenon
      <4> QED
        BY <2>1, <2>2, <2>4, <3>1, <4>1, Zenon DEF Rejecting
    <3> QED
      BY <2>6, <2>9, <3>3, <3>4, Zenon
  <2> QED
    BY <2>8, <2>9, Zenon
<1> QED
  BY <1>1, <1>2, <1>4, <1>5, <1>6, <1>7, <1>8, Zenon DEF Accounted

\* The account of a dispatch is one of the registry.
LEMMA AccountStands ==
    ASSUME NEW d, reg' = reg, Accounted(d)
    PROVE  Accounted(d)'
<1>1. subscribersOf(d.hook)' = subscribersOf(d.hook)
  BY Zenon DEF subscribersOf
<1> QED
  BY <1>1, Zenon DEF Accounted

\* Names that are not frames, and capabilities that are not points.
LEMMA Apart ==
    /\ "gone" \notin Frames /\ "cut" \notin Frames /\ "http" \notin Frames /\ "grpc" \notin Frames
    /\ "job" \notin Frames /\ NoFrame \notin Frames
    /\ \A c \in Capabilities : c \notin DOMAIN Hooks /\ c # "job"
    /\ \A h \in DOMAIN Hooks : h # "job"
<1>1. "gone" \in Origins /\ "cut" \in Origins /\ "http" \in Origins /\ "grpc" \in Origins /\ "job" \in Origins
  BY DEF Origins
<1> QED
  BY <1>1, CallsAssumption, Zenon

\* The fields of an invocation.
LEMMA InvocationFields ==
    ASSUME NEW r \in Invocations
    PROVE  /\ r.module \in Modules \union {NoModule} /\ r.serves \in Served
           /\ r.parent \in Frames \union Origins /\ r.ctx \in CallContexts /\ r.dispatch \in Dispatches
           /\ r.results \in Seq(Callers) /\ r.sent \in Callers \union {NoModule}
           /\ r.ctx.who \in {"tenant", "none"} /\ r.ctx.chain \in Seq(Capabilities)
           /\ r.ctx.env \in Frames \union {NoFrame} /\ r.ctx.deps \in Guests \union {NoModule}
           /\ r.ctx.limits \in SUBSET Frames
<1>1. /\ r.module \in Modules \union {NoModule} /\ r.serves \in Served
      /\ r.parent \in Frames \union Origins /\ r.ctx \in CallContexts /\ r.dispatch \in Dispatches
      /\ r.results \in Seq(Callers) /\ r.sent \in Callers \union {NoModule}
  BY DEF Invocations
<1> DEFINE c == r.ctx
<1>2. c \in CallContexts
  BY <1>1, Zenon
<1> HIDE DEF c
<1>3. /\ c.who \in {"tenant", "none"} /\ c.chain \in Seq(Capabilities)
      /\ c.env \in Frames \union {NoFrame} /\ c.deps \in Guests \union {NoModule}
      /\ c.limits \in SUBSET Frames
  BY <1>2 DEF CallContexts
<1> QED
  BY <1>1, <1>3, Zenon DEF c

\* A frame keeps what it is through a step.
Kin(f) ==
    /\ frame'[f].module = frame[f].module /\ frame'[f].serves = frame[f].serves
    /\ frame'[f].ctx.chain = frame[f].ctx.chain /\ frame'[f].ctx.deps = frame[f].ctx.deps

\* Its caller goes on waiting, or gives up on a subscriber or a connection.
Released(f) ==
    \/ frame'[f].parent = frame[f].parent
    \/ frame'[f].parent = "gone" /\ frame[f].serves \in DOMAIN Hooks
    \/ frame'[f].parent = "cut" /\ frame[f].parent = "http"

Environs(f) ==
    /\ frame'[f].ctx.env = frame[f].ctx.env \/ (~Granted(f) /\ frame'[f].ctx.env = NoFrame)
    /\ frame'[f].ctx.env # NoFrame => frame'[f].ctx.env \in Live'

\* A dispatch goes on only in a frame that waits for nobody any more.
Asked(f) ==
    \/ frame'[f].dispatch = frame[f].dispatch
    \/ ~Guest(f) /\ Child(f)' = {} /\ Accounted(frame[f].dispatch)'

\* What a step that starts no frame does to f.
Stepped(f) ==
    /\ f \in Live' => /\ f \in Live /\ Kin(f) /\ Released(f) /\ Environs(f) /\ Asked(f)
                      /\ frame'[f].parent \in Frames => frame'[f].parent \in Live'
                      /\ Notes(f)'
    /\ f \notin Live' => frame'[f].parent = "gone"

\* A step that starts no frame keeps the invariant of the frames.
LEMMA FramesStep ==
    ASSUME FramesInv, reg' = reg, frame' \in [Frames -> Invocations], \A f \in Frames : Stepped(f)
    PROVE  FramesInv'
<1>0. /\ frame \in [Frames -> Invocations] /\ Ranked
      /\ \A f \in Frames : Placed(f) /\ Awaits(f)
      /\ \A f \in Live : Chained(f) /\ Entitled(f) /\ CallsGranted(f) /\ Notes(f)
  BY Zenon DEF FramesInv, TreeInv, ContextInv
<1>1. /\ \A f \in Frames : f \in Live <=> frame[f].module # NoModule
      /\ \A f \in Frames : f \in Live' <=> frame'[f].module # NoModule
      /\ Live \subseteq Frames /\ Live' \subseteq Frames
  BY Zenon DEF Live
<1>2. \A f \in Live' : f \in Live /\ Kin(f) /\ Released(f) /\ Environs(f) /\ Asked(f) /\ Notes(f)'
  BY <1>1, Zenon DEF Stepped
<1>3. \A f \in Frames : frame'[f].parent \in Frames =>
        /\ frame'[f].parent = frame[f].parent /\ f \in Live' /\ f \in Live
        /\ frame'[f].parent \in Live' /\ frame'[f].parent \in Live
  BY <1>1, Apart, Zenon DEF Stepped, Released
<1>4. Ranked'
  <2>1. PICK depth \in [Frames -> Nat] :
          \A f \in Frames : frame[f].parent \in Frames => depth[frame[f].parent] < depth[f]
    BY <1>0, Zenon DEF Ranked
  <2>2. \A f \in Frames : frame'[f].parent \in Frames => depth[frame'[f].parent] < depth[f]
    BY <1>3, <2>1, Zenon
  <2> QED
    BY <2>2, Zenon DEF Ranked
<1>5. ASSUME NEW f \in Frames PROVE Placed(f)'
  <2>1. CASE f \notin Live'
    <3>1. frame'[f].parent = "gone"
      BY <2>1, Zenon DEF Stepped
    <3> QED
      BY <2>1, <3>1, Apart, Zenon DEF Placed
  <2>2. CASE f \in Live'
    <3>1. f \in Live /\ Kin(f) /\ Released(f) /\ Placed(f)
      BY <1>0, <1>2, <2>2, Zenon
    <3>2. frame'[f].serves = frame[f].serves /\ frame[f].serves \in Served
      BY <1>0, <3>1, InvocationFields, Zenon DEF Kin
    <3>3. frame'[f].parent \in Frames => frame'[f].parent \in Live'
      BY <1>3, Zenon
    <3>4. CASE frame'[f].parent = frame[f].parent
      BY <2>2, <3>1, <3>2, <3>3, <3>4, Zenon DEF Placed
    <3>5. CASE frame'[f].parent = "gone" /\ frame[f].serves \in DOMAIN Hooks
      BY <2>2, <3>1, <3>2, <3>5, Apart, Zenon DEF Placed
    <3>6. CASE frame'[f].parent = "cut" /\ frame[f].parent = "http"
      <4>1. frame[f].serves \notin DOMAIN Hooks /\ frame[f].serves # "job"
        <5>1. "http" # "job" /\ "http" # "gone"
          OBVIOUS
        <5> QED
          BY <3>1, <3>6, <5>1, Apart, Zenon DEF Placed
      <4> QED
        BY <2>2, <3>1, <3>2, <3>6, <4>1, Apart, Zenon DEF Placed
    <3> QED
      BY <3>1, <3>4, <3>5, <3>6, Zenon DEF Released
  <2> QED
    BY <2>1, <2>2, Zenon
<1>6. \A f \in Frames : \A g \in Child(f)' : g \in Child(f) /\ g \in Live /\ g \in Live' /\ Kin(g) /\ f \in Live'
  BY <1>2, <1>3, Zenon DEF Child
<1>7. ASSUME NEW f \in Frames PROVE Awaits(f)'
  <2> SUFFICES ASSUME NEW g \in Child(f)'
               PROVE  /\ \A h \in Child(f)' : g = h
                      /\ frame'[f].dispatch.verdict = "open" =>
                          /\ frame'[g].serves = frame'[f].dispatch.hook
                          /\ frame'[g].module = Head(frame'[f].dispatch.left)
                      /\ frame'[f].dispatch.verdict # "open" => frame'[g].serves \in Capabilities
    BY Zenon DEF Awaits
  <2>1. g \in Child(f) /\ Kin(g) /\ f \in Live' /\ \A h \in Child(f)' : h \in Child(f)
    BY <1>6, Zenon
  <2>2. frame'[f].dispatch = frame[f].dispatch
    BY <1>2, <2>1, Zenon DEF Asked
  <2>3. /\ \A h \in Child(f) : g = h
        /\ frame[f].dispatch.verdict = "open" =>
            /\ frame[g].serves = frame[f].dispatch.hook
            /\ frame[g].module = Head(frame[f].dispatch.left)
        /\ frame[f].dispatch.verdict # "open" => frame[g].serves \in Capabilities
    BY <1>0, <2>1, Zenon DEF Awaits
  <2> QED
    BY <2>1, <2>2, <2>3, Zenon DEF Kin
<1>8. ASSUME NEW f \in Live' PROVE Chained(f)' /\ Entitled(f)' /\ CallsGranted(f)' /\ Notes(f)'
  <2>1. /\ f \in Frames /\ f \in Live /\ Kin(f) /\ Released(f) /\ Environs(f) /\ Asked(f) /\ Notes(f)'
        /\ Chained(f) /\ Entitled(f) /\ CallsGranted(f) /\ Placed(f)
    BY <1>0, <1>1, <1>2, Zenon
  <2>2. /\ (Guest(f)' <=> Guest(f)) /\ (Granted(f)' <=> Granted(f)) /\ (ServesGuest(f)' <=> ServesGuest(f))
    BY <2>1, Zenon DEF Kin, Guest, Granted, ServesGuest
  <2>3. /\ frame'[f].module = frame[f].module /\ frame'[f].serves = frame[f].serves
        /\ frame'[f].ctx.chain = frame[f].ctx.chain /\ frame'[f].ctx.deps = frame[f].ctx.deps
    BY <2>1, Zenon DEF Kin
  <2>4. frame'[f].parent \in Frames =>
          /\ frame[f].parent = frame'[f].parent
          /\ frame'[frame'[f].parent].ctx.chain = frame[frame[f].parent].ctx.chain
          /\ frame'[frame'[f].parent].ctx.deps = frame[frame[f].parent].ctx.deps
    BY <1>2, <1>3, <2>1, Zenon DEF Kin
  <2>5. Chained(f)'
    <3>1. frame'[f].parent \notin {"gone", "cut"} =>
            /\ frame[f].parent \notin {"gone", "cut"} /\ ChainAbove(f)' = ChainAbove(f)
      <4> SUFFICES ASSUME frame'[f].parent \notin {"gone", "cut"}
                   PROVE  frame[f].parent \notin {"gone", "cut"} /\ ChainAbove(f)' = ChainAbove(f)
        BY Zenon
      <4>1. frame'[f].parent = frame[f].parent
        BY <2>1, Zenon DEF Released
      <4> QED
        BY <2>4, <4>1, Zenon DEF ChainAbove
    <3> QED
      BY <2>1, <2>2, <2>3, <3>1, Zenon DEF Chained
  <2>6. Entitled(f)'
    <3>1. Granted(f) => frame'[f].ctx.env = frame[f].ctx.env
      BY <2>1, Zenon DEF Environs
    <3>2. frame'[f].ctx.env # NoFrame => frame'[f].ctx.env \in Live'
      BY <2>1, Zenon DEF Environs
    <3>3. ASSUME ~Granted(f), frame'[f].parent \in Origins \ {"gone"} PROVE frame'[f].ctx.deps = NoModule
      <4>1. frame[f].parent \in Origins \ {"gone"}
        <5>1. "http" \in Origins \ {"gone"}
          BY DEF Origins
        <5> QED
          BY <2>1, <3>3, <5>1, Zenon DEF Released
      <4> QED
        BY <2>1, <2>3, <3>3, <4>1, Zenon DEF Entitled
    <3> QED
      BY <2>1, <2>2, <2>3, <2>4, <3>1, <3>2, <3>3, Zenon DEF Entitled
  <2>7. CallsGranted(f)'
    <3> SUFFICES ASSUME Guest(f)
                 PROVE  /\ frame'[f].dispatch = NoDispatch
                        /\ \A g \in Child(f)' :
                            /\ frame'[f].ctx.deps # NoModule
                            /\ frame'[g].serves \in Range(Catalogue[frame'[f].ctx.deps].consumes)
      BY <2>2, Zenon DEF CallsGranted
    <3>1. frame'[f].dispatch = NoDispatch
      BY <2>1, Zenon DEF Asked, CallsGranted
    <3>2. ASSUME NEW g \in Child(f)'
          PROVE  /\ frame'[f].ctx.deps # NoModule
                 /\ frame'[g].serves \in Range(Catalogue[frame'[f].ctx.deps].consumes)
      <4>1. g \in Child(f) /\ frame'[g].serves = frame[g].serves
        BY <1>6, <2>1, Zenon DEF Kin
      <4> QED
        BY <2>1, <2>3, <4>1, Zenon DEF CallsGranted
    <3> QED
      BY <3>1, <3>2, Zenon
  <2> QED
    BY <2>1, <2>5, <2>6, <2>7, Zenon
<1>9. DispatchInv'
  <2> SUFFICES ASSUME NEW f \in Live' PROVE frame'[f].dispatch = NoDispatch \/ Accounted(frame[f].dispatch)'
    BY Zenon DEF DispatchInv
  <2>1. f \in Live /\ Asked(f)
    BY <1>2, Zenon
  <2>2. CASE frame'[f].dispatch = frame[f].dispatch
    <3>1. PICK d : d = frame[f].dispatch
      BY Zenon
    <3>2. d = NoDispatch \/ Accounted(d)
      BY <2>1, <3>1, Zenon DEF FramesInv, DispatchInv
    <3>3. d = NoDispatch \/ Accounted(d)'
      BY <3>2, AccountStands, Zenon
    <3> QED
      BY <2>2, <3>1, <3>3, Zenon
  <2> QED
    BY <2>1, <2>2, Zenon DEF Asked
<1> QED
  BY <1>4, <1>5, <1>7, <1>8, <1>9, Zenon DEF FramesInv, TreeInv, ContextInv

\* A frame that is running starts one for a call, one that is asking for a subscriber.
AskedBy(p, r) ==
    /\ Child(p) = {}
    /\ frame[p].dispatch.verdict = "open" =>
        r.serves = frame[p].dispatch.hook /\ r.module = Head(frame[p].dispatch.left)
    /\ frame[p].dispatch.verdict # "open" => r.serves \in Capabilities
    /\ Guest(p) => frame[p].ctx.deps # NoModule /\ r.serves \in Range(Catalogue[frame[p].ctx.deps].consumes)

CallerContext(r) == IF r.parent \in Frames THEN frame[r.parent].ctx ELSE Context("none")

\* The frame r may be started as n.
Starts(n, r) ==
    /\ n \in Free /\ r \in Invocations /\ r.module \in Modules
    /\ r.dispatch = NoDispatch /\ r.results = <<>> /\ r.sent = NoModule
    /\ \/ r.serves = "job" /\ r.parent = "job"
       \/ r.serves \in Capabilities /\ r.parent \in Live \union {"http", "grpc"}
       \/ r.serves \in DOMAIN Hooks /\ r.parent \in Live
    /\ r.parent \in Frames => AskedBy(r.parent, r)
    /\ IF r.module \in Guests /\ r.serves \in Capabilities
       THEN /\ r.ctx.chain = Append(CallerContext(r).chain, r.serves) /\ Len(r.ctx.chain) <= MaxDepth
            /\ r.serves \notin Range(CallerContext(r).chain)
       ELSE r.ctx.chain = CallerContext(r).chain
    /\ IF r.module \in Guests /\ HasGrants(r.module)
       THEN r.ctx.deps = r.module /\ r.ctx.env = n
       ELSE r.ctx.deps = CallerContext(r).deps /\ r.ctx.env = CallerContext(r).env

\* The context a request or a job begins with.
LEMMA ContextIs ==
    ASSUME NEW who
    PROVE  /\ Context(who).who = who /\ Context(who).chain = <<>> /\ Context(who).env = NoFrame
           /\ Context(who).deps = NoModule /\ Context(who).limits = {}
  BY DEF Context

\* A step that starts a frame keeps the invariant of the frames.
LEMMA FramesStart ==
    ASSUME FramesInv, reg' = reg, NEW n, NEW r, Starts(n, r), frame' = [frame EXCEPT ![n] = r]
    PROVE  FramesInv'
<1>0. /\ frame \in [Frames -> Invocations] /\ Ranked
      /\ \A f \in Frames : Placed(f) /\ Awaits(f)
      /\ \A f \in Live : Chained(f) /\ Entitled(f) /\ CallsGranted(f) /\ Notes(f)
  BY Zenon DEF FramesInv, TreeInv, ContextInv
<1>1. n \in Frames /\ n \notin Live /\ r \in Invocations /\ r.module \in Modules /\ NoModule \notin Modules
  BY CatalogueAssumption, Zenon DEF Starts, Free
<1>2. frame' \in [Frames -> Invocations] /\ frame'[n] = r /\ \A f \in Frames \ {n} : frame'[f] = frame[f]
  BY <1>0, <1>1, Zenon
<1>3. /\ Live \subseteq Frames /\ Live' \subseteq Frames /\ n \in Live'
      /\ \A f \in Frames \ {n} : f \in Live' <=> f \in Live
  BY <1>1, <1>2, Zenon DEF Live
<1>3a. Live \subseteq Live'
  BY <1>1, <1>3, Zenon
<1>4. r.parent \in Frames => r.parent \in Live /\ r.parent # n /\ AskedBy(r.parent, r)
  BY <1>1, Apart, Zenon DEF Starts
<1>5. \A f \in Frames : frame[f].parent # n
  BY <1>0, <1>1, Zenon DEF Placed
<1>6. \A f \in Frames : \A g \in Child(f)' : g \in Frames /\ IF g = n THEN f = r.parent ELSE g \in Child(f)
  BY <1>2, Zenon DEF Child
<1>7. Child(n)' = {}
  BY <1>1, <1>4, <1>5, <1>6, Zenon DEF Child
<1>8. Ranked'
  <2>1. PICK depth \in [Frames -> Nat] :
          \A f \in Frames : frame[f].parent \in Frames => depth[frame[f].parent] < depth[f]
    BY <1>0, Zenon DEF Ranked
  <2> DEFINE top == IF r.parent \in Frames THEN depth[r.parent] + 1 ELSE 0
             deeper == [depth EXCEPT ![n] = top]
  <2>2. top \in Nat /\ (r.parent \in Frames => depth[r.parent] < top)
    <3>1. \A p \in Frames : depth[p] \in Nat
      BY Zenon
    <3>2. \A x \in Nat : x + 1 \in Nat /\ x < x + 1
      OBVIOUS
    <3> QED
      BY <3>1, <3>2, Zenon
  <2> HIDE DEF top
  <2>3. deeper \in [Frames -> Nat] /\ deeper[n] = top /\ \A f \in Frames \ {n} : deeper[f] = depth[f]
    BY <1>1, <2>2, Zenon
  <2> HIDE DEF deeper
  <2>4. ASSUME NEW f \in Frames, frame'[f].parent \in Frames PROVE deeper[frame'[f].parent] < deeper[f]
    <3>1. CASE f = n
      BY <1>2, <1>4, <2>2, <2>3, <2>4, <3>1, Zenon
    <3>2. CASE f # n
      BY <1>2, <1>5, <2>1, <2>3, <2>4, <3>2, Zenon
    <3> QED
      BY <3>1, <3>2, Zenon
  <2> QED
    BY <2>3, <2>4, Zenon DEF Ranked
<1>9. ASSUME NEW f \in Frames PROVE Placed(f)'
  <2>1. CASE f = n
    <3>1. /\ frame'[f].parent \in Frames => frame'[f].parent \in Live'
          /\ frame'[f].serves = r.serves /\ frame'[f].parent = r.parent
      BY <1>2, <1>3a, <1>4, <2>1, Zenon
    <3>2. r.serves # "none" /\ (r.serves = "job" => r.parent = "job")
          /\ (r.serves \in Capabilities => r.parent \in Frames \union {"http", "grpc", "cut"})
          /\ (r.serves \in DOMAIN Hooks => r.parent \in Frames \union {"gone"})
      <4>1. "none" \notin Capabilities /\ "none" \notin DOMAIN Hooks /\ "none" # "job"
        BY CallsAssumption, Zenon
      <4> QED
        BY <1>3, <4>1, Apart, Zenon DEF Starts
    <3> QED
      BY <1>3, <2>1, <3>1, <3>2, Zenon DEF Placed
  <2>2. CASE f # n
    <3>1. frame'[f] = frame[f] /\ (f \in Live' <=> f \in Live) /\ Placed(f)
      BY <1>0, <1>2, <1>3, <2>2, Zenon
    <3> QED
      BY <1>3a, <3>1, Zenon DEF Placed
  <2> QED
    BY <2>1, <2>2, Zenon
<1>10. ASSUME NEW f \in Frames PROVE Awaits(f)'
  <2> SUFFICES ASSUME NEW g \in Child(f)'
               PROVE  /\ \A h \in Child(f)' : g = h
                      /\ frame'[f].dispatch.verdict = "open" =>
                          /\ frame'[g].serves = frame'[f].dispatch.hook
                          /\ frame'[g].module = Head(frame'[f].dispatch.left)
                      /\ frame'[f].dispatch.verdict # "open" => frame'[g].serves \in Capabilities
    BY Zenon DEF Awaits
  <2>0. f # n
    BY <1>7, Zenon
  <2>1. frame'[f] = frame[f]
    BY <1>2, <2>0, Zenon
  <2>2. CASE f = r.parent
    <3>1. AskedBy(f, r)
      BY <1>4, <2>2, Zenon
    <3>2. \A h \in Child(f)' : h = n
      BY <1>6, <3>1, Zenon DEF AskedBy
    <3>3. g = n /\ frame'[g] = r
      BY <1>2, <3>2, Zenon
    <3> QED
      BY <2>1, <3>1, <3>2, <3>3, Zenon DEF AskedBy
  <2>3. CASE f # r.parent
    <3>1. \A h \in Child(f)' : h \in Child(f) /\ h # n /\ h \in Frames
      BY <1>6, <2>3, Zenon
    <3>2. g \in Child(f) /\ frame'[g] = frame[g]
      BY <1>2, <3>1, Zenon
    <3> QED
      BY <1>0, <2>1, <3>1, <3>2, Zenon DEF Awaits
  <2> QED
    BY <2>2, <2>3, Zenon
<1>11. Chained(n)' /\ Entitled(n)' /\ CallsGranted(n)' /\ Notes(n)'
  <2> DEFINE above == CallerContext(r)
  <2>1. /\ (Guest(n)' <=> r.module \in Guests)
        /\ (Granted(n)' <=> r.module \in Guests /\ HasGrants(r.module))
        /\ (ServesGuest(n)' <=> r.module \in Guests /\ r.serves \in Capabilities)
    BY <1>2, Zenon DEF Guest, Granted, ServesGuest
  <2>2. r.parent \in Frames => frame'[r.parent] = frame[r.parent]
    BY <1>2, <1>4, Zenon
  <2>3. /\ above.chain \in Seq(Capabilities) /\ Len(above.chain) <= MaxDepth
        /\ above.env # NoFrame => above.env \in Live
        /\ ChainAbove(n)' = above.chain
        /\ r.parent \in Frames => frame'[r.parent].ctx.deps = above.deps
        /\ r.parent \notin Frames => above.deps = NoModule
    <3>1. CASE r.parent \in Frames
      <4>1. above = frame[r.parent].ctx
        BY <3>1, Zenon DEF CallerContext
      <4>2. r.parent \in Live /\ Chained(r.parent) /\ Entitled(r.parent)
        BY <1>0, <1>4, <3>1, Zenon
      <4>3. /\ above.chain \in Seq(Capabilities) /\ Len(above.chain) <= MaxDepth
            /\ (above.env # NoFrame => above.env \in Live)
        BY <1>0, <3>1, <4>1, <4>2, InvocationFields, Zenon DEF Chained, Entitled
      <4>4. ChainAbove(n)' = above.chain
        BY <1>2, <2>2, <3>1, <4>1, Zenon DEF ChainAbove
      <4> QED
        BY <2>2, <3>1, <4>1, <4>3, <4>4, Zenon
    <3>2. CASE r.parent \notin Frames
      <4>1. above.chain = <<>> /\ above.env = NoFrame /\ above.deps = NoModule
        BY <3>2, ContextIs, Zenon DEF CallerContext
      <4>2. ChainAbove(n)' = <<>>
        BY <1>2, <3>2, Zenon DEF ChainAbove
      <4>3. <<>> \in Seq(Capabilities) /\ Len(<<>>) <= MaxDepth
        BY CallsAssumption
      <4> QED
        BY <3>2, <4>1, <4>2, <4>3, Zenon
    <3> QED
      BY <3>1, <3>2, Zenon
  <2>4. /\ frame'[n].module = r.module /\ frame'[n].serves = r.serves /\ frame'[n].parent = r.parent
        /\ frame'[n].ctx = r.ctx /\ frame'[n].dispatch = NoDispatch
        /\ frame'[n].results = <<>> /\ frame'[n].sent = NoModule
    BY <1>2, Zenon DEF Starts
  <2> HIDE DEF above
  <2>5. /\ IF r.module \in Guests /\ r.serves \in Capabilities
           THEN /\ r.ctx.chain = Append(above.chain, r.serves) /\ Len(r.ctx.chain) <= MaxDepth
                /\ r.serves \notin Range(above.chain)
           ELSE r.ctx.chain = above.chain
        /\ IF r.module \in Guests /\ HasGrants(r.module)
           THEN r.ctx.deps = r.module /\ r.ctx.env = n
           ELSE r.ctx.deps = above.deps /\ r.ctx.env = above.env
    BY Zenon DEF Starts, above
  <2>6. Chained(n)'
    <3>1. CASE r.module \in Guests /\ r.serves \in Capabilities
      <4>1. r.serves \in Range(Append(above.chain, r.serves))
        <5> DEFINE s == above.chain
                   c == r.serves
        <5>1. s \in Seq(Capabilities) /\ c \in Capabilities
          BY <2>3, <3>1, Zenon
        <5> HIDE DEF s, c
        <5>2. Len(s) + 1 \in DOMAIN Append(s, c) /\ Append(s, c)[Len(s) + 1] = c
          BY <5>1
        <5>3. c \in Range(Append(s, c))
          BY <5>2, Zenon DEF Range
        <5> QED
          BY <5>3, Zenon DEF s, c
      <4> QED
        BY <2>1, <2>3, <2>4, <2>5, <3>1, <4>1, Zenon DEF Chained
    <3>2. CASE ~(r.module \in Guests /\ r.serves \in Capabilities)
      BY <2>1, <2>3, <2>4, <2>5, <3>2, Zenon DEF Chained
    <3> QED
      BY <3>1, <3>2, Zenon
  <2>7. Entitled(n)'
    <3>1. above.env # NoFrame => above.env \in Live'
      BY <1>3a, <2>3, Zenon
    <3>2. \A o \in Origins : o \notin Frames
      BY CallsAssumption, Zenon
    <3> QED
      BY <1>3, <2>1, <2>3, <2>4, <2>5, <3>1, <3>2, Zenon DEF Entitled
  <2>8. CallsGranted(n)'
    BY <1>7, <2>4, Zenon DEF CallsGranted
  <2>9. Notes(n)'
    <3>1. Len(<<>>) <= MaxHandles /\ Range(<<>>) = {}
      BY CallsAssumption DEF Range
    <3>2. NoModule \notin Guests
      BY <1>1, Zenon DEF Guests
    <3> QED
      BY <2>4, <3>1, <3>2, Zenon DEF Notes
  <2> QED
    BY <2>6, <2>7, <2>8, <2>9, Zenon
<1>12. ASSUME NEW f \in Live, f # n PROVE Chained(f)' /\ Entitled(f)' /\ CallsGranted(f)' /\ Notes(f)'
  <2>1. f \in Frames /\ frame'[f] = frame[f] /\ Chained(f) /\ Entitled(f) /\ CallsGranted(f) /\ Notes(f)
    BY <1>0, <1>2, <1>3, <1>12, Zenon
  <2>2. (Guest(f)' <=> Guest(f)) /\ (Granted(f)' <=> Granted(f)) /\ (ServesGuest(f)' <=> ServesGuest(f))
    BY <2>1, Zenon DEF Guest, Granted, ServesGuest
  <2>3. frame[f].parent \in Frames => frame'[frame[f].parent] = frame[frame[f].parent]
    BY <1>2, <1>5, <2>1, Zenon
  <2>4. ChainAbove(f)' = ChainAbove(f)
    <3>1. frame'[f].parent = frame[f].parent
      BY <2>1, Zenon
    <3>2. CASE frame[f].parent \in Frames
      <4>1. frame'[frame'[f].parent].ctx.chain = frame[frame[f].parent].ctx.chain
        BY <2>3, <3>1, <3>2, Zenon
      <4> QED
        BY <3>1, <3>2, <4>1, Zenon DEF ChainAbove
    <3>3. CASE frame[f].parent \notin Frames
      BY <3>1, <3>3, Zenon DEF ChainAbove
    <3> QED
      BY <3>2, <3>3, Zenon
  <2>5. Chained(f)'
    BY <2>1, <2>2, <2>4, Zenon DEF Chained
  <2>6. Entitled(f)'
    <3>1. /\ frame'[f].parent = frame[f].parent /\ frame'[f].module = frame[f].module
          /\ frame'[f].ctx.deps = frame[f].ctx.deps /\ frame'[f].ctx.env = frame[f].ctx.env
      BY <2>1, Zenon
    <3>2. frame'[f].parent \in Frames =>
            frame'[frame'[f].parent].ctx.deps = frame[frame[f].parent].ctx.deps
      BY <2>3, <3>1, Zenon
    <3>3. frame'[f].ctx.env # NoFrame => frame'[f].ctx.env \in Live'
      BY <1>3a, <2>1, <3>1, Zenon DEF Entitled
    <3> QED
      BY <2>1, <2>2, <3>1, <3>2, <3>3, Zenon DEF Entitled
  <2>7. Notes(f)'
    BY <2>1, Zenon DEF Notes
  <2>8. CallsGranted(f)'
    <3> SUFFICES ASSUME Guest(f)
                 PROVE  /\ frame[f].dispatch = NoDispatch
                        /\ \A g \in Child(f)' :
                            /\ frame[f].ctx.deps # NoModule
                            /\ frame'[g].serves \in Range(Catalogue[frame[f].ctx.deps].consumes)
      BY <2>1, <2>2, Zenon DEF CallsGranted
    <3>1. ASSUME NEW g \in Child(f)'
          PROVE  /\ frame[f].ctx.deps # NoModule
                 /\ frame'[g].serves \in Range(Catalogue[frame[f].ctx.deps].consumes)
      <4>1. CASE g = n
        <5>1. f = r.parent /\ frame'[g] = r
          BY <1>2, <1>6, <2>1, <4>1, Zenon
        <5> QED
          BY <1>4, <2>1, <5>1, Zenon DEF AskedBy
      <4>2. CASE g # n
        <5>1. g \in Child(f) /\ frame'[g] = frame[g]
          BY <1>2, <1>6, <2>1, <4>2, Zenon
        <5> QED
          BY <2>1, <5>1, Zenon DEF CallsGranted
      <4> QED
        BY <4>1, <4>2, Zenon
    <3> QED
      BY <2>1, <3>1, Zenon DEF CallsGranted
  <2> QED
    BY <2>5, <2>6, <2>7, <2>8, Zenon
<1>13. DispatchInv'
  <2> SUFFICES ASSUME NEW f \in Live' PROVE frame'[f].dispatch = NoDispatch \/ Accounted(frame[f].dispatch)'
    BY Zenon DEF DispatchInv
  <2>1. CASE f = n
    BY <1>2, <2>1, Zenon DEF Starts
  <2>2. CASE f # n
    <3>1. f \in Live /\ frame'[f] = frame[f]
      BY <1>2, <1>3, <2>2, Zenon
    <3>2. PICK d : d = frame[f].dispatch
      BY Zenon
    <3>3. d = NoDispatch \/ Accounted(d)
      BY <3>1, <3>2, Zenon DEF FramesInv, DispatchInv
    <3>4. d = NoDispatch \/ Accounted(d)'
      BY <3>3, AccountStands, Zenon
    <3> QED
      BY <3>1, <3>2, <3>4, Zenon
  <2> QED
    BY <2>1, <2>2, Zenon
<1>14. ContextInv'
  BY <1>3, <1>11, <1>12, Zenon DEF ContextInv
<1> QED
  BY <1>2, <1>8, <1>9, <1>10, <1>13, <1>14, Zenon DEF FramesInv, TreeInv

\* A dispatch that has not begun, or has just begun.
LEMMA NoDispatchIs ==
    /\ NoDispatch \in Dispatches /\ NoDispatch.verdict = "none" /\ NoDispatch.hook = "none"
    /\ \A h \in DOMAIN Hooks, s \in Seq(Modules) :
        /\ Dispatch(h, s) \in Dispatches
        /\ Dispatch(h, s).hook = h /\ Dispatch(h, s).left = s /\ Dispatch(h, s).answers = <<>>
        /\ Dispatch(h, s).rejections = <<>> /\ Dispatch(h, s).value = NoModule
        /\ ~Dispatch(h, s).raced /\ Dispatch(h, s).verdict = "open"
<1>1. <<>> \in Seq(Modules) /\ <<>> \in Seq(AllAnswers)
  OBVIOUS
<1> QED
  BY <1>1, Zenon DEF NoDispatch, Dispatch, Dispatches

\* A new frame, field by field.
LEMMA FrameIs ==
    ASSUME NEW m \in Modules \union {NoModule}, NEW s \in Served, NEW p \in Frames \union Origins, NEW ctx \in CallContexts
    PROVE  LET r == Frame(m, s, p, ctx)
           IN  /\ r \in Invocations /\ r.module = m /\ r.serves = s /\ r.parent = p /\ r.ctx = ctx
               /\ r.dispatch = NoDispatch /\ r.results = <<>> /\ r.sent = NoModule
<1>1. NoDispatch \in Dispatches /\ <<>> \in Seq(Callers)
  BY NoDispatchIs
<1> QED
  BY <1>1 DEF Frame, Invocations

\* The context a request or a job begins with has its type.
LEMMA ContextTyped == \A who \in {"tenant", "none"} : Context(who) \in CallContexts
<1>1. <<>> \in Seq(Capabilities)
  OBVIOUS
<1> QED
  BY <1>1 DEF Context, CallContexts

\* A new frame is one that was not in use.
LEMMA NewFrameIs == Free # {} => NewFrame \in Free
  BY Zenon DEF NewFrame

\* What Plugin.Invoke puts in the context.
LEMMA InvokedIs ==
    ASSUME NEW m \in Guests, NEW ctx \in CallContexts, NEW f \in Frames
    PROVE  LET e == Invoked(m, ctx, f)
           IN  /\ e \in CallContexts /\ e.chain = ctx.chain
               /\ IF HasGrants(m) THEN e.deps = m /\ e.env = f ELSE e.deps = ctx.deps /\ e.env = ctx.env
<1>1. CASE HasGrants(m)
  <2>1. Invoked(m, ctx, f) = [ctx EXCEPT !.env = f, !.deps = m]
    BY <1>1, Zenon DEF Invoked
  <2> DEFINE e == [ctx EXCEPT !.env = f, !.deps = m]
  <2>2. e \in CallContexts /\ e.chain = ctx.chain /\ e.deps = m /\ e.env = f
    BY Zenon DEF CallContexts
  <2> HIDE DEF e
  <2> QED
    BY <1>1, <2>1, <2>2, Zenon DEF e
<1>2. CASE ~HasGrants(m)
  BY <1>2, Zenon DEF Invoked
<1> QED
  BY <1>1, <1>2, Zenon

\* A step starts a frame.
Started(p) == \E n, r : Starts(n, r) /\ r.parent = p /\ frame' = [frame EXCEPT ![n] = r]

\* What a call on the bus starts.
LEMMA BusCallStarts ==
    ASSUME FramesInv, reg \in Registries, NEW c \in Capabilities, NEW p \in Live \union {"http", "grpc"},
           NEW ctx, IF p \in Frames THEN ctx = frame[p].ctx ELSE ctx = Context("tenant"),
           p \in Frames => /\ Child(p) = {} /\ frame[p].dispatch.verdict # "open"
                           /\ Guest(p) => /\ frame[p].ctx.deps # NoModule
                                          /\ c \in Range(Catalogue[frame[p].ctx.deps].consumes),
           BusCall(c, p, ctx)
    PROVE  Started(p)
<1> DEFINE m == reg.handlers[c]
           longer == Append(ctx.chain, c)
           passed == [ctx EXCEPT !.chain = longer]
<1>1. PICK n : n = NewFrame
  BY Zenon
<1> DEFINE entered == IF m \in Guests THEN Invoked(m, passed, n) ELSE ctx
           r == Frame(m, c, p, entered)
<1>2. /\ Free # {} /\ m # NoModule /\ (m \in Guests => GuestAccepts(m, c, ctx))
      /\ frame' = [frame EXCEPT ![n] = r]
  BY <1>1, Zenon DEF BusCall
<1>3. n \in Free /\ n \in Frames
  BY <1>1, <1>2, NewFrameIs, Zenon DEF Free
<1>4. m \in Modules
  <2>1. reg.handlers \in [Capabilities -> Modules \union {NoModule}]
    BY DEF Registries
  <2> QED
    BY <1>2, <2>1, Zenon
<1>5. ctx \in CallContexts
  <2>1. CASE p \in Frames
    BY <2>1, InvocationFields, Zenon DEF FramesInv
  <2>2. CASE p \notin Frames
    BY <2>2, ContextTyped, Zenon
  <2> QED
    BY <2>1, <2>2, Zenon
<1>6. ctx.chain \in Seq(Capabilities) /\ longer \in Seq(Capabilities) /\ Len(longer) = Len(ctx.chain) + 1
      /\ Len(ctx.chain) \in Nat
  <2>1. ctx.chain \in Seq(Capabilities)
    BY <1>5 DEF CallContexts
  <2> QED
    BY <2>1
<1> HIDE DEF longer
<1>7. passed \in CallContexts /\ passed.chain = longer /\ passed.deps = ctx.deps /\ passed.env = ctx.env
  BY <1>5, <1>6 DEF CallContexts
<1> HIDE DEF passed, m
<1>8. /\ entered \in CallContexts
      /\ IF m \in Guests THEN entered.chain = longer ELSE entered.chain = ctx.chain
      /\ IF m \in Guests /\ HasGrants(m)
         THEN entered.deps = m /\ entered.env = n
         ELSE entered.deps = ctx.deps /\ entered.env = ctx.env
  <2>1. CASE m \in Guests
    BY <1>3, <1>7, <2>1, InvokedIs, ZenonT(60)
  <2>2. CASE m \notin Guests
    BY <1>5, <2>2, Zenon
  <2> QED
    BY <2>1, <2>2, Zenon
<1> HIDE DEF entered
<1>9. c \in Served /\ p \in Frames \union Origins /\ m \in Modules \union {NoModule}
  <2>1. "http" \in Origins /\ "grpc" \in Origins /\ Live \subseteq Frames
    BY SMTT(60) DEF Origins, Live
  <2> QED
    BY <1>4, <2>1, Zenon DEF Served
<1>10. /\ r \in Invocations /\ r.module = m /\ r.serves = c /\ r.parent = p /\ r.ctx = entered
       /\ r.dispatch = NoDispatch /\ r.results = <<>> /\ r.sent = NoModule
  <2>1. entered \in CallContexts
    BY <1>8, Zenon
  <2> QED
    BY <1>9, <2>1, FrameIs
<1> HIDE DEF r
<1>11. /\ CallerContext(r).chain = ctx.chain /\ CallerContext(r).deps = ctx.deps
       /\ CallerContext(r).env = ctx.env
  <2>1. CASE p \in Frames
    BY <1>10, <2>1, Zenon DEF CallerContext
  <2>2. CASE p \notin Frames
    <3>1. CallerContext(r) = Context("none") /\ ctx = Context("tenant")
      BY <1>10, <2>2, ZenonT(60) DEF CallerContext
    <3>2. /\ Context("none").chain = <<>> /\ Context("none").deps = NoModule /\ Context("none").env = NoFrame
          /\ Context("tenant").chain = <<>> /\ Context("tenant").deps = NoModule /\ Context("tenant").env = NoFrame
      BY Zenon DEF Context
    <3> QED
      BY <3>1, <3>2, Zenon
  <2> QED
    BY <2>1, <2>2, Zenon
<1>12. m \in Guests => c \notin Range(ctx.chain) /\ Len(longer) <= MaxDepth
  <2>1. m \in Guests => c \notin Range(ctx.chain) /\ Len(ctx.chain) < MaxDepth
    BY <1>2, Zenon DEF GuestAccepts
  <2> QED
    BY <1>6, <2>1, CallsAssumption
<1>13. p \in Frames => AskedBy(p, r)
  BY <1>10, Zenon DEF AskedBy
<1>14. Starts(n, r)
  <2>1. IF r.module \in Guests /\ r.serves \in Capabilities
        THEN /\ r.ctx.chain = Append(CallerContext(r).chain, r.serves) /\ Len(r.ctx.chain) <= MaxDepth
             /\ r.serves \notin Range(CallerContext(r).chain)
        ELSE r.ctx.chain = CallerContext(r).chain
    BY <1>8, <1>10, <1>11, <1>12, Zenon DEF longer
  <2>2. IF r.module \in Guests /\ HasGrants(r.module)
        THEN r.ctx.deps = r.module /\ r.ctx.env = n
        ELSE r.ctx.deps = CallerContext(r).deps /\ r.ctx.env = CallerContext(r).env
    BY <1>8, <1>10, <1>11, Zenon
  <2> QED
    BY <1>3, <1>4, <1>10, <1>13, <2>1, <2>2, Zenon DEF Starts
<1> QED
  BY <1>2, <1>10, <1>14, Zenon DEF Started

\* A frame whose dispatch is open.
LEMMA OpenIs ==
    ASSUME FramesInv, NEW f \in Live, frame[f].dispatch.verdict = "open"
    PROVE  LET d == frame[f].dispatch
           IN  /\ d \in Dispatches /\ Accounted(d) /\ ~Guest(f) /\ d.hook \in DOMAIN Hooks
               /\ d.left # <<>> /\ d.left \in Seq(Modules) /\ Head(d.left) \in Modules
<1> DEFINE d == frame[f].dispatch
<1>1. f \in Frames /\ d \in Dispatches
  <2>1. f \in Frames
    BY Zenon DEF Live
  <2> QED
    BY <2>1, InvocationFields, Zenon DEF FramesInv
<1>2. d # NoDispatch
  <2>1. "none" # "open"
    OBVIOUS
  <2> QED
    BY <2>1, NoDispatchIs, Zenon
<1>3. Accounted(d) /\ ~Guest(f)
  BY <1>2, Zenon DEF FramesInv, DispatchInv, ContextInv, CallsGranted
<1>4. d.hook \in DOMAIN Hooks /\ d.left # <<>>
  BY <1>3, Zenon DEF Accounted
<1>5. d.left \in Seq(Modules)
  BY <1>1, DispatchFields, Zenon
<1> DEFINE s == d.left
<1>6. s \in Seq(Modules) /\ s # <<>>
  BY <1>4, <1>5, Zenon
<1> HIDE DEF s
<1>7. Head(s) \in Modules
  BY <1>6
<1> QED
  BY <1>1, <1>3, <1>4, <1>5, <1>7, Zenon DEF s

\* What a dispatch starts.
LEMMA AskStarts ==
    ASSUME FramesInv, NEW f \in Live, Ask(f)
    PROVE  Started(f)
<1> DEFINE d == frame[f].dispatch
           m == Head(d.left)
<1>1. PICK n : n = NewFrame
  BY Zenon
<1> DEFINE both == frame[f].ctx.limits \union {n}
           ctx == [frame[f].ctx EXCEPT !.limits = both]
           entered == IF m \in Guests THEN Invoked(m, ctx, n) ELSE ctx
           r == Frame(m, d.hook, f, entered)
<1>2. Asking(f) /\ Free # {} /\ frame' = [frame EXCEPT ![n] = r]
  BY <1>1, Zenon DEF Ask
<1>3. n \in Free /\ n \in Frames /\ f \in Frames
  BY <1>1, <1>2, NewFrameIs, Zenon DEF Free, Live
<1>4. Child(f) = {} /\ d.verdict = "open"
  BY <1>2, Zenon DEF Asking
<1>5. m \in Modules /\ d.hook \in DOMAIN Hooks /\ ~Guest(f)
  BY <1>4, OpenIs, Zenon
<1>6. frame[f].ctx \in CallContexts /\ both \in SUBSET Frames
  <2>1. frame[f].ctx \in CallContexts /\ frame[f].ctx.limits \in SUBSET Frames
    BY <1>3, InvocationFields, Zenon DEF FramesInv
  <2> QED
    BY <1>3, <2>1, Zenon
<1> DEFINE old == frame[f].ctx
<1>7. old \in CallContexts
  BY <1>6, Zenon
<1> HIDE DEF both, old
<1>8. ctx = [old EXCEPT !.limits = both]
  BY Zenon DEF old
<1> HIDE DEF ctx
<1>9. ctx \in CallContexts /\ ctx.chain = old.chain /\ ctx.deps = old.deps /\ ctx.env = old.env
  BY <1>6, <1>7, <1>8, SMTT(60) DEF CallContexts
<1> HIDE DEF m
<1>10. /\ entered \in CallContexts /\ entered.chain = old.chain
       /\ IF m \in Guests /\ HasGrants(m)
          THEN entered.deps = m /\ entered.env = n
          ELSE entered.deps = old.deps /\ entered.env = old.env
  <2>1. CASE m \in Guests
    <3>1. entered = Invoked(m, ctx, n)
      BY <2>1, Zenon
    <3>2. /\ Invoked(m, ctx, n) \in CallContexts /\ Invoked(m, ctx, n).chain = ctx.chain
          /\ IF HasGrants(m) THEN Invoked(m, ctx, n).deps = m /\ Invoked(m, ctx, n).env = n
                             ELSE Invoked(m, ctx, n).deps = ctx.deps /\ Invoked(m, ctx, n).env = ctx.env
      BY <1>3, <1>9, <2>1, InvokedIs, Zenon
    <3> QED
      BY <1>9, <2>1, <3>1, <3>2, Zenon
  <2>2. CASE m \notin Guests
    BY <1>9, <2>2, Zenon
  <2> QED
    BY <2>1, <2>2, Zenon
<1> HIDE DEF entered
<1>11. d.hook \in Served /\ f \in Frames \union Origins /\ m \in Modules \union {NoModule}
  BY <1>3, <1>5, Zenon DEF Served
<1>12. /\ r \in Invocations /\ r.module = m /\ r.serves = d.hook /\ r.parent = f /\ r.ctx = entered
       /\ r.dispatch = NoDispatch /\ r.results = <<>> /\ r.sent = NoModule
  <2>1. entered \in CallContexts
    BY <1>10, Zenon
  <2> QED
    BY <1>11, <2>1, FrameIs
<1> HIDE DEF r
<1>13. CallerContext(r) = old
  BY <1>3, <1>12, Zenon DEF CallerContext, old
<1>14. AskedBy(f, r)
  BY <1>4, <1>5, <1>12, Zenon DEF AskedBy, m
<1>15. r.serves \notin Capabilities
  BY <1>5, <1>12, Apart, Zenon
<1>16. Starts(n, r)
  BY <1>3, <1>5, <1>10, <1>12, <1>13, <1>14, <1>15, Zenon DEF Starts
<1> QED
  BY <1>2, <1>12, <1>16, Zenon DEF Started

\* What a job is.
LEMMA JobStarts ==
    ASSUME FramesInv, NEW m \in Modules \ Guests, Free # {},
           frame' = [frame EXCEPT ![NewFrame] = Frame(m, "job", "job", Context("none"))]
    PROVE  \E n, r : Starts(n, r) /\ r.parent = "job" /\ r.module = m /\ frame' = [frame EXCEPT ![n] = r]
<1>1. PICK n : n = NewFrame
  BY Zenon
<1> DEFINE ctx == Context("none")
           r == Frame(m, "job", "job", ctx)
<1>2. n \in Free
  BY <1>1, NewFrameIs, Zenon
<1>3. "job" \in Served /\ "job" \in Frames \union Origins /\ ctx \in CallContexts
      /\ m \in Modules \union {NoModule}
  BY ContextTyped DEF Served, Origins
<1> HIDE DEF ctx
<1>4. /\ r \in Invocations /\ r.module = m /\ r.serves = "job" /\ r.parent = "job" /\ r.ctx = ctx
      /\ r.dispatch = NoDispatch /\ r.results = <<>> /\ r.sent = NoModule
  BY <1>3, FrameIs
<1>5. frame' = [frame EXCEPT ![n] = r]
  BY <1>1, Zenon DEF ctx
<1> HIDE DEF r
<1>6. CallerContext(r) = ctx
  BY <1>4, Apart, Zenon DEF CallerContext, ctx
<1>7. Starts(n, r)
  BY <1>2, <1>4, <1>6, Apart, Zenon DEF Starts
<1> QED
  BY <1>4, <1>5, <1>7, Zenon

-----------------------------------------------------------------------------
(* The steps that start nothing.                                             *)

AllStepped == frame' \in [Frames -> Invocations] /\ \A f \in Frames : Stepped(f)

\* A frame that nothing happens to, when no frame ends.
LEMMA StillSteps ==
    ASSUME FramesInv, NEW g \in Frames, frame'[g] = frame[g], Live \subseteq Live'
    PROVE  Stepped(g)
<1>1. g \in Live' <=> g \in Live
  BY Zenon DEF Live
<1>2. CASE g \in Live'
  <2>1. g \in Live /\ Placed(g) /\ Entitled(g) /\ Notes(g)
    BY <1>1, <1>2, Zenon DEF FramesInv, TreeInv, ContextInv
  <2>2. Kin(g) /\ Released(g) /\ Asked(g)
    BY Zenon DEF Kin, Released, Asked
  <2>3. Environs(g)
    BY <2>1, Zenon DEF Environs, Entitled
  <2>4. Notes(g)'
    BY <2>1, Zenon DEF Notes
  <2>5. frame'[g].parent \in Frames => frame'[g].parent \in Live'
    BY <2>1, Zenon DEF Placed
  <2> QED
    BY <1>2, <2>1, <2>2, <2>3, <2>4, <2>5, Zenon DEF Stepped
<1>3. CASE g \notin Live'
  <2>1. Placed(g)
    BY Zenon DEF FramesInv, TreeInv
  <2> QED
    BY <1>1, <1>3, <2>1, Zenon DEF Stepped, Placed
<1> QED
  BY <1>2, <1>3, Zenon

\* A frame whose notes change.
LEMMA NoteSteps ==
    ASSUME FramesInv, NEW x \in Live, NEW res \in Seq(Callers), NEW sent \in Callers \union {NoModule},
           Len(res) <= MaxHandles,
           \A m \in {sent} \union Range(res) : m \in Guests => ~HasGrants(m),
           frame' = [frame EXCEPT ![x] = [frame[x] EXCEPT !.results = res, !.sent = sent]]
    PROVE  AllStepped
<1> DEFINE r == [frame[x] EXCEPT !.results = res, !.sent = sent]
<1>0. x \in Frames /\ frame \in [Frames -> Invocations]
  BY Zenon DEF FramesInv, Live
<1> DEFINE old == frame[x]
<1>1. old \in Invocations
  BY <1>0, Zenon
<1> HIDE DEF old
<1>2. r = [old EXCEPT !.results = res, !.sent = sent]
  BY Zenon DEF old
<1> HIDE DEF r
<1>3. /\ r \in Invocations /\ r.module = old.module /\ r.serves = old.serves /\ r.parent = old.parent
      /\ r.ctx = old.ctx /\ r.dispatch = old.dispatch /\ r.results = res /\ r.sent = sent
  BY <1>1, <1>2, Zenon DEF Invocations
<1>4. frame' = [frame EXCEPT ![x] = r]
  BY Zenon DEF r
<1>5. frame' \in [Frames -> Invocations] /\ frame'[x] = r /\ \A g \in Frames \ {x} : frame'[g] = frame[g]
  BY <1>0, <1>3, <1>4, Zenon
<1>6. Live' = Live
  BY <1>0, <1>3, <1>5, Zenon DEF Live, old
<1>7. Stepped(x)
  <2>1. Placed(x) /\ Entitled(x)
    BY <1>0, Zenon DEF FramesInv, TreeInv, ContextInv
  <2>2. Kin(x) /\ Released(x) /\ Asked(x)
    BY <1>3, <1>5, Zenon DEF Kin, Released, Asked, old
  <2>3. Environs(x)
    <3>1. frame'[x].ctx = frame[x].ctx
      BY <1>3, <1>5, Zenon DEF old
    <3>2. frame[x].ctx.env # NoFrame => frame[x].ctx.env \in Live
      BY <2>1, Zenon DEF Entitled
    <3> QED
      BY <1>6, <3>1, <3>2 DEF Environs
  <2>4. Notes(x)'
    BY <1>3, <1>5, Zenon DEF Notes
  <2>5. frame'[x].parent \in Frames => frame'[x].parent \in Live'
    <3>1. frame'[x].parent = frame[x].parent
      BY <1>3, <1>5, Zenon DEF old
    <3> QED
      BY <1>6, <2>1, <3>1 DEF Placed
  <2> QED
    BY <1>6, <2>1, <2>2, <2>3, <2>4, <2>5, Zenon DEF Stepped
<1>8. ASSUME NEW g \in Frames, g # x PROVE Stepped(g)
  BY <1>5, <1>6, <1>8, StillSteps, Zenon
<1> QED
  BY <1>5, <1>7, <1>8, Zenon DEF AllStepped

\* A dispatch that goes on, in a frame that waits for nobody.
LEMMA DispatchSteps ==
    ASSUME FramesInv, reg' = reg, NEW x \in Live, ~Guest(x), Child(x) = {},
           NEW e \in Dispatches, Accounted(e),
           frame' = [frame EXCEPT ![x] = [frame[x] EXCEPT !.dispatch = e]]
    PROVE  AllStepped
<1> DEFINE r == [frame[x] EXCEPT !.dispatch = e]
<1>0. x \in Frames /\ frame \in [Frames -> Invocations]
  BY Zenon DEF FramesInv, Live
<1> DEFINE old == frame[x]
<1>1. old \in Invocations
  BY <1>0, Zenon
<1> HIDE DEF old
<1>2. r = [old EXCEPT !.dispatch = e]
  BY Zenon DEF old
<1> HIDE DEF r
<1>3. /\ r \in Invocations /\ r.module = old.module /\ r.serves = old.serves /\ r.parent = old.parent
      /\ r.ctx = old.ctx /\ r.dispatch = e /\ r.results = old.results /\ r.sent = old.sent
  BY <1>1, <1>2 DEF Invocations
<1>4. frame' = [frame EXCEPT ![x] = r]
  BY Zenon DEF r
<1>5. frame' \in [Frames -> Invocations] /\ frame'[x] = r /\ \A g \in Frames \ {x} : frame'[g] = frame[g]
  BY <1>0, <1>3, <1>4, Zenon
<1>6. Live' = Live /\ Child(x)' = {}
  BY <1>0, <1>3, <1>5, ZenonT(60) DEF Live, Child, old
<1>7. Stepped(x)
  <2>1. Placed(x) /\ Entitled(x) /\ Notes(x)
    BY <1>0, Zenon DEF FramesInv, TreeInv, ContextInv
  <2>2. Kin(x) /\ Released(x)
    BY <1>3, <1>5, Zenon DEF Kin, Released, old
  <2>3. Environs(x)
    <3>1. frame'[x].ctx = frame[x].ctx
      BY <1>3, <1>5, Zenon DEF old
    <3>2. frame[x].ctx.env # NoFrame => frame[x].ctx.env \in Live
      BY <2>1, Zenon DEF Entitled
    <3> QED
      BY <1>6, <3>1, <3>2 DEF Environs
  <2>4. Notes(x)'
    BY <1>3, <1>5, <2>1, Zenon DEF Notes, old
  <2>5. frame'[x].parent \in Frames => frame'[x].parent \in Live'
    <3>1. frame'[x].parent = frame[x].parent
      BY <1>3, <1>5, Zenon DEF old
    <3> QED
      BY <1>6, <2>1, <3>1 DEF Placed
  <2>6. Asked(x)
    <3>1. Accounted(e)' /\ e = frame'[x].dispatch
      BY <1>3, <1>5, AccountStands, Zenon
    <3> QED
      BY <1>6, <3>1, Zenon DEF Asked
  <2> QED
    BY <1>6, <2>1, <2>2, <2>3, <2>4, <2>5, <2>6, Zenon DEF Stepped
<1>8. ASSUME NEW g \in Frames, g # x PROVE Stepped(g)
  BY <1>5, <1>6, <1>8, StillSteps, Zenon
<1> QED
  BY <1>5, <1>7, <1>8, Zenon DEF AllStepped

-----------------------------------------------------------------------------
(* The notes a guest leaves in the state of an invocation.                   *)

\* The environment of a guest is a frame in use, and what the guest leaves there
\* does not name a guest with grants.
LEMMA EnvironmentIs ==
    ASSUME FramesInv, NEW f \in Live, Guest(f), frame[f].ctx.env # NoFrame
    PROVE  /\ frame[f].ctx.env \in Live /\ HostCaller(f) \in Callers
           /\ HostCaller(f) \in Guests => ~HasGrants(HostCaller(f))
<1>1. Entitled(f) /\ f \in Frames /\ frame[f].module # NoModule
  BY Zenon DEF FramesInv, ContextInv, Live
<1>2. frame[f].module \in Modules \union {NoModule}
  BY <1>1, InvocationFields, Zenon DEF FramesInv
<1>3. CASE frame[f].ctx.env = f
  <2>1. HostCaller(f) = "self"
    BY <1>3, Zenon DEF HostCaller
  <2>2. "self" \notin Guests
    BY CallsAssumption, CatalogueAssumption DEF Guests
  <2> QED
    BY <1>1, <2>1, <2>2, Zenon DEF Entitled, Callers
<1>4. CASE frame[f].ctx.env # f
  <2>1. HostCaller(f) = frame[f].module
    BY <1>4, Zenon DEF HostCaller
  <2>2. ~Granted(f)
    BY <1>1, <1>4, Zenon DEF Entitled
  <2> QED
    BY <1>1, <1>2, <2>1, <2>2, Zenon DEF Entitled, Callers, Granted
<1> QED
  BY <1>3, <1>4, Zenon

\* The notes of a frame.
LEMMA NotesAre ==
    ASSUME FramesInv, NEW x \in Live
    PROVE  /\ x \in Frames /\ frame[x] \in Invocations
           /\ frame[x].results \in Seq(Callers) /\ Len(frame[x].results) \in Nat /\ Len(frame[x].results) <= MaxHandles
           /\ frame[x].sent \in Callers \union {NoModule}
           /\ \A m \in {frame[x].sent} \union Range(frame[x].results) : m \in Guests => ~HasGrants(m)
<1>1. x \in Frames /\ frame[x] \in Invocations /\ Notes(x)
  BY Zenon DEF FramesInv, ContextInv, Live
<1>2. frame[x].results \in Seq(Callers) /\ frame[x].sent \in Callers \union {NoModule}
  BY <1>1, InvocationFields, Zenon
<1>3. Len(frame[x].results) \in Nat
  BY <1>2, SeqIs, Zenon
<1> QED
  BY <1>1, <1>2, <1>3, Zenon DEF Notes

\* The notes alone of a frame are replaced.
LEMMA NotedIs ==
    ASSUME NEW r \in Invocations, NEW res, NEW sent
    PROVE  /\ [r EXCEPT !.sent = sent] = [r EXCEPT !.results = r.results, !.sent = sent]
           /\ [r EXCEPT !.results = res] = [r EXCEPT !.results = res, !.sent = r.sent]
  BY Zenon DEF Invocations

\* A guest publishes.
LEMMA PublishSteps ==
    ASSUME FramesInv, NEW f \in Live, NEW e, v2EventPublish(f, e)
    PROVE  AllStepped
<1> DEFINE x == frame[f].ctx.env
           m == HostCaller(f)
           r == frame[x]
<1>1. Guest(f) /\ x # NoFrame /\ frame' = [frame EXCEPT ![x].sent = m]
  BY Zenon DEF v2EventPublish, HostCalling
<1>2. x \in Live /\ m \in Callers /\ (m \in Guests => ~HasGrants(m))
  BY <1>1, EnvironmentIs, Zenon
<1>3. frame' = [frame EXCEPT ![x] = [r EXCEPT !.sent = m]]
  BY <1>1, Zenon
<1> HIDE DEF x, m
<1>4. /\ r \in Invocations /\ r.results \in Seq(Callers) /\ Len(r.results) <= MaxHandles
      /\ \A k \in {r.sent} \union Range(r.results) : k \in Guests => ~HasGrants(k)
  BY <1>2, NotesAre, Zenon
<1>5. \A k \in {m} \union Range(r.results) : k \in Guests => ~HasGrants(k)
  BY <1>2, <1>4, ZenonT(60)
<1>6. [r EXCEPT !.sent = m] = [r EXCEPT !.results = r.results, !.sent = m]
  BY <1>4, NotedIs, Zenon
<1>7. frame' = [frame EXCEPT ![x] = [frame[x] EXCEPT !.results = r.results, !.sent = m]]
  BY <1>3, <1>6, Zenon
<1>8. m \in Callers \union {NoModule}
  BY <1>2, Zenon
<1> HIDE DEF r
<1> QED
  BY <1>2, <1>4, <1>5, <1>7, <1>8, NoteSteps, Zenon

\* Where an element after the dropped one comes from.
LEMMA Shift ==
    \A n \in Nat : \A h \in 1..n : \A i \in 1..((h - 1) + (n - h)) :
        ~(i <= h - 1) => i - (h - 1) \in 1..(n - h)
  OBVIOUS

\* What is left of a sequence when one element is dropped.
LEMMA DropIs ==
    ASSUME NEW S, NEW s \in Seq(S), NEW h \in DOMAIN s
    PROVE  LET t == SubSeq(s, 1, h - 1) \o SubSeq(s, h + 1, Len(s))
           IN  t \in Seq(S) /\ Len(t) <= Len(s) /\ Range(t) \subseteq Range(s)
<1> DEFINE a == SubSeq(s, 1, h - 1)
           b == SubSeq(s, h + 1, Len(s))
           t == a \o b
<1>1. h \in 1..Len(s) /\ Len(s) \in Nat
  BY SeqIs
<1>2. a \in Seq(S) /\ Len(a) = h - 1 /\ \A i \in 1..(h - 1) : a[i] = s[i]
  BY <1>1
<1>3. b \in Seq(S) /\ Len(b) = Len(s) - h /\ \A i \in 1..(Len(s) - h) : b[i] = s[h + i]
  BY <1>1
<1> HIDE DEF a, b
<1>4. t \in Seq(S) /\ Len(t) = Len(a) + Len(b)
      /\ \A i \in 1..(Len(a) + Len(b)) : t[i] = IF i <= Len(a) THEN a[i] ELSE b[i - Len(a)]
  BY <1>2, <1>3, SeqJoins, Zenon
<1>5. ASSUME NEW i \in DOMAIN t PROVE \E j \in DOMAIN s : t[i] = s[j]
  <2>0. i \in 1..(Len(a) + Len(b))
    BY <1>4, SeqIs
  <2> HIDE DEF t
  <2>1. CASE i <= Len(a)
    <3>1. i \in 1..(h - 1) /\ t[i] = a[i]
      BY <1>1, <1>2, <1>3, <1>4, <2>0, <2>1, SMTT(60)
    <3>2. i \in 1..Len(s) /\ t[i] = s[i]
      BY <1>1, <1>2, <3>1
    <3> QED
      BY <3>2, SeqIs
  <2>2. CASE ~(i <= Len(a))
    <3>0. t[i] = b[i - Len(a)]
      BY <1>4, <2>0, <2>2, Zenon
    <3>a. PICK n \in Nat : n = Len(s)
      BY <1>1, Zenon
    <3>b. Len(a) = h - 1 /\ Len(b) = n - h /\ h \in 1..n
      BY <1>1, <1>2, <1>3, <3>a, SMTT(60)
    <3>c. i \in 1..((h - 1) + (n - h)) /\ ~(i <= h - 1)
      BY <2>0, <2>2, <3>b
    <3>d. i - (h - 1) \in 1..(n - h)
      BY <3>b, <3>c, Shift, Zenon
    <3>1. i - (h - 1) \in 1..(Len(s) - h) /\ t[i] = b[i - (h - 1)]
      BY <3>0, <3>a, <3>b, <3>d
    <3>2. i + 1 \in 1..Len(s) /\ h + (i - (h - 1)) = i + 1
      BY <1>1, <3>1, <2>0, SMTT(60)
    <3>3. t[i] = s[i + 1]
      BY <1>3, <3>1, <3>2
    <3> QED
      BY <3>2, <3>3, SeqIs
  <2> QED
    BY <2>1, <2>2, Zenon
<1>6. Range(t) \subseteq Range(s)
  BY <1>5, Zenon DEF Range
<1> QED
  BY <1>1, <1>2, <1>3, <1>4, <1>6, SMTT(60) DEF a, b

\* A guest drops a handle.
LEMMA DropSteps ==
    ASSUME FramesInv, NEW f \in Live, v2ResultDrop(f)
    PROVE  AllStepped
<1> DEFINE x == frame[f].ctx.env
           r == frame[x]
           t(h) == SubSeq(r.results, 1, h - 1) \o SubSeq(r.results, h + 1, Len(r.results))
<1>1. Guest(f) /\ x # NoFrame
  BY Zenon DEF v2ResultDrop, HostCalling
<1>2. PICK h \in DOMAIN r.results : frame' = [frame EXCEPT ![x].results = t(h)]
  BY Zenon DEF v2ResultDrop
<1>3. frame' = [frame EXCEPT ![x] = [r EXCEPT !.results = t(h)]]
  BY <1>2, Zenon
<1>4. x \in Live
  BY <1>1, EnvironmentIs, Zenon
<1> HIDE DEF x
<1>5. /\ r \in Invocations /\ r.results \in Seq(Callers) /\ Len(r.results) \in Nat /\ Len(r.results) <= MaxHandles
      /\ r.sent \in Callers \union {NoModule}
      /\ \A k \in {r.sent} \union Range(r.results) : k \in Guests => ~HasGrants(k)
  BY <1>4, NotesAre, Zenon
<1>6. t(h) \in Seq(Callers) /\ Len(t(h)) <= Len(r.results) /\ Range(t(h)) \subseteq Range(r.results)
  BY <1>5, DropIs, ZenonT(60)
<1> DEFINE res == t(h)
<1>7. [r EXCEPT !.results = t(h)] = [r EXCEPT !.results = t(h), !.sent = r.sent]
  BY <1>5, NotedIs, Zenon
<1>8. frame' = [frame EXCEPT ![x] = [frame[x] EXCEPT !.results = res, !.sent = r.sent]]
  BY <1>3, <1>7, Zenon
<1>9. res \in Seq(Callers) /\ Len(res) <= Len(r.results) /\ Range(res) \subseteq Range(r.results)
  BY <1>6, Zenon
<1> HIDE DEF res
<1>10. Len(res) <= MaxHandles
  BY <1>5, <1>9, SeqIs, CallsAssumption
<1>11. \A k \in {r.sent} \union Range(res) : k \in Guests => ~HasGrants(k)
  BY <1>5, <1>9, Zenon
<1> HIDE DEF r
<1> QED
  BY <1>4, <1>5, <1>8, <1>9, <1>10, <1>11, NoteSteps, ZenonT(60)

-----------------------------------------------------------------------------
(* Dispatches: begun, and refused by a guest that cannot be entered.         *)

\* A dispatch that begins is accounted for, also when nobody subscribes.
LEMMA FiredIs ==
    ASSUME reg \in Registries, NEW h \in DOMAIN Hooks, NEW m \in Modules
    PROVE  LET e == Concluded(Dispatch(h, subscribersOf(h))) IN e \in Dispatches /\ Accounted(e)
<1> DEFINE s == subscribersOf(h)
           d == Dispatch(h, s)
           e == Concluded(d)
           none == [i \in DOMAIN e.answers |-> e.answers[i].module]
<1>1. s \in Seq(Modules)
  BY SubscribersIs, Zenon
<1> HIDE DEF s
<1>2. /\ d \in Dispatches /\ d.hook = h /\ d.left = s /\ d.answers = <<>> /\ d.rejections = <<>>
      /\ d.value = NoModule /\ ~d.raced /\ d.verdict = "open"
  BY <1>1, NoDispatchIs, Zenon
<1> HIDE DEF d
<1>3. /\ e \in Dispatches /\ e.hook = h /\ e.left = s /\ e.answers = <<>> /\ e.rejections = <<>>
      /\ e.value = NoModule /\ ~e.raced /\ e.verdict = IF s # <<>> THEN "open" ELSE "ok"
  BY <1>2 DEF Concluded, Dispatches
<1> HIDE DEF e
<1>4. none = <<>>
  BY <1>3
<1> HIDE DEF none
<1>5. none \o e.left = s
  BY <1>1, <1>3, <1>4, SMTT(60)
<1>6. none \o e.left = subscribersOf(e.hook)
  BY <1>3, <1>5 DEF s
<1>7. Answer(m, "nil", TRUE) \in AllAnswers /\ <<>> \in Seq(AllAnswers)
  BY DEF Answer, AllAnswers, Results
<1>8. Vetoes(<<>>) = <<>> /\ LastValue(<<>>) = NoModule
  BY <1>7, VetoesAppend, LastValueAppend, Zenon
<1>9. \A i \in DOMAIN e.answers : FALSE
  BY <1>3
<1>10. e.verdict = "open" <=> e.left # <<>> /\ e.verdict # "failed"
  BY <1>3
<1>11. e.verdict # "none" /\ e.verdict # "failed" /\ e.verdict # "rejected"
  BY <1>3
<1>12. [i \in DOMAIN e.answers |-> e.answers[i].module] \o e.left = subscribersOf(e.hook)
  BY <1>6, Zenon DEF none
<1>13. e.rejections = Vetoes(e.answers) /\ e.value = LastValue(e.answers)
  BY <1>3, <1>8
<1>14. Accounted(e)
  BY <1>3, <1>9, <1>10, <1>11, <1>12, <1>13, Zenon DEF Accounted
<1> QED
  BY <1>3, <1>14, Zenon DEF e, d, s

\* A handler fires a hook point.
LEMMA FireSteps ==
    ASSUME FramesInv, reg \in Registries, reg' = reg, NEW f \in Live, NEW h \in DOMAIN Hooks, Fire(f, h)
    PROVE  AllStepped
<1> DEFINE e == Concluded(Dispatch(h, subscribersOf(h)))
<1>1. Child(f) = {} /\ ~Guest(f) /\ frame' = [frame EXCEPT ![f].dispatch = e]
  BY Zenon DEF Fire, Running
<1>2. frame[f].module \in Modules
  BY InvocationFields, Zenon DEF FramesInv, Live
<1>3. e \in Dispatches /\ Accounted(e)
  BY <1>2, FiredIs, Zenon
<1> HIDE DEF e
<1>4. frame' = [frame EXCEPT ![f] = [frame[f] EXCEPT !.dispatch = e]]
  BY <1>1, Zenon
<1> QED
  BY <1>1, <1>3, <1>4, DispatchSteps, Zenon

\* A failed subscriber is accounted for.
LEMMA FailureCounts ==
    ASSUME reg \in Registries, NEW d \in Dispatches, Accounted(d), d.verdict = "open", d.left # <<>>,
           Head(d.left) \in Modules
    PROVE  LET a == Answer(Head(d.left), "nil", TRUE)
           IN  After(d, a, a) \in Dispatches /\ Accounted(After(d, a, a))
<1> DEFINE a == Answer(Head(d.left), "nil", TRUE)
           e == After(d, a, a)
<1>1. a \in AllAnswers /\ a.module = Head(d.left) /\ a.res = "nil"
  BY DEF Answer, AllAnswers, Results
<1> HIDE DEF a
<1>2. GoesOn(d, a, a, e) /\ e.raced = d.raced
  BY <1>1, AfterIs, Zenon
<1> HIDE DEF e
<1>3. e \in Dispatches
  BY <1>2, Zenon DEF GoesOn
<1>4. a.res # "veto" /\ a.res # "value"
  BY <1>1
<1>5. d.raced => e.raced
  BY <1>2, Zenon
<1>6. Accounted(e)
  BY <1>1, <1>2, <1>4, <1>5, AccountKept, Zenon
<1> QED
  BY <1>3, <1>6, Zenon DEF a, e

\* A guest that cannot be entered fails at once.
LEMMA AskRefusedSteps ==
    ASSUME FramesInv, reg \in Registries, reg' = reg, NEW f \in Live, AskRefused(f)
    PROVE  AllStepped
<1> DEFINE d == frame[f].dispatch
           a == Answer(Head(d.left), "nil", TRUE)
           e == After(d, a, a)
<1>1. Child(f) = {} /\ d.verdict = "open" /\ frame' = [frame EXCEPT ![f].dispatch = e]
  BY Zenon DEF AskRefused, Asking
<1>2. d \in Dispatches /\ Accounted(d) /\ ~Guest(f) /\ d.left # <<>> /\ Head(d.left) \in Modules
  BY <1>1, OpenIs, Zenon
<1>3. e \in Dispatches /\ Accounted(e)
  BY <1>1, <1>2, FailureCounts, Zenon
<1> HIDE DEF e
<1>4. frame' = [frame EXCEPT ![f] = [frame[f] EXCEPT !.dispatch = e]]
  BY <1>1, Zenon
<1> QED
  BY <1>1, <1>2, <1>3, <1>4, DispatchSteps, Zenon

\* The time limit of a subscriber passes.
LEMMA HookTimeoutSteps ==
    ASSUME FramesInv, reg \in Registries, reg' = reg, NEW f \in Live, HookTimeout(f)
    PROVE  AllStepped
<1> DEFINE d == frame[f].dispatch
           a == Answer(Head(d.left), "nil", TRUE)
           e == After(d, a, a)
<1>1. PICK g \in Child(f) :
        LET failure == Answer(frame[g].module, "nil", TRUE)
        IN  /\ d.verdict = "open"
            /\ frame' = [frame EXCEPT ![f].dispatch = After(@, failure, failure), ![g].parent = "gone"]
  BY Zenon DEF HookTimeout
<1>2. d \in Dispatches /\ Accounted(d) /\ ~Guest(f) /\ d.hook \in DOMAIN Hooks /\ d.left # <<>> /\ Head(d.left) \in Modules
  BY <1>1, OpenIs, Zenon
<1>3. e \in Dispatches /\ Accounted(e)
  BY <1>1, <1>2, FailureCounts, Zenon
<1>0. f \in Frames /\ frame \in [Frames -> Invocations] /\ g \in Frames /\ frame[g].parent = f
  BY Zenon DEF FramesInv, Live, Child
<1>4. frame[g].module = Head(d.left) /\ frame[g].serves = d.hook /\ \A h \in Child(f) : h = g
  <2>1. Awaits(f)
    BY <1>0, Zenon DEF FramesInv, TreeInv
  <2> QED
    BY <1>0, <1>1, <2>1, Zenon DEF Awaits
<1>5. frame' = [frame EXCEPT ![f].dispatch = e, ![g].parent = "gone"]
  BY <1>1, <1>4
<1>6. f # g
  <2>1. PICK depth \in [Frames -> Nat] :
          \A x \in Frames : frame[x].parent \in Frames => depth[frame[x].parent] < depth[x]
    BY Zenon DEF FramesInv, TreeInv, Ranked
  <2>2. depth[f] < depth[g] /\ depth[f] \in Nat
    BY <1>0, <2>1, Zenon
  <2> QED
    BY <2>2
<1> HIDE DEF e
<1> DEFINE of == frame[f]
           og == frame[g]
           nf == [of EXCEPT !.dispatch = e]
           ng == [og EXCEPT !.parent = "gone"]
<1>7. of \in Invocations /\ og \in Invocations
  BY <1>0, Zenon
<1>8. /\ frame'[f] = nf /\ frame'[g] = ng /\ DOMAIN frame' = Frames
      /\ frame' = [x \in Frames |-> frame'[x]]
      /\ \A x \in Frames \ {f, g} : frame'[x] = frame[x]
  BY <1>0, <1>5, <1>6, Zenon
<1> HIDE DEF of, og, d
<1>9. /\ nf \in Invocations /\ nf.module = of.module /\ nf.serves = of.serves /\ nf.parent = of.parent
      /\ nf.ctx = of.ctx /\ nf.dispatch = e /\ nf.results = of.results /\ nf.sent = of.sent
  BY <1>3, <1>7, Zenon DEF Invocations
<1>10. "gone" \in Frames \union Origins
  BY DEF Origins
<1>11. /\ ng \in Invocations /\ ng.module = og.module /\ ng.serves = og.serves /\ ng.parent = "gone"
       /\ ng.ctx = og.ctx /\ ng.dispatch = og.dispatch /\ ng.results = og.results /\ ng.sent = og.sent
  BY <1>7, <1>10, SMTT(60) DEF Invocations
<1> HIDE DEF nf, ng
<1>12. frame' \in [Frames -> Invocations]
  <2>1. \A x \in Frames : frame'[x] \in Invocations
    BY <1>0, <1>8, <1>9, <1>11, Zenon
  <2> QED
    BY <1>8, <2>1
<1>13. Live' = Live
  <2>1. \A x \in Frames : frame'[x].module = frame[x].module
    BY <1>8, <1>9, <1>11, Zenon DEF of, og
  <2> QED
    BY <2>1 DEF Live
<1>14. Child(f)' = {}
  <2>1. ASSUME NEW x \in Frames, frame'[x].parent = f PROVE FALSE
    <3>1. CASE x = g
      BY <1>0, <1>8, <1>11, <2>1, <3>1, Apart, Zenon
    <3>2. CASE x = f
      <4>1. frame[f].parent = f
        BY <1>8, <1>9, <2>1, <3>2, Zenon DEF of
      <4> QED
        BY <1>0, <1>4, <1>6, <4>1, Zenon DEF Child
    <3>3. CASE x \notin {f, g}
      <4>1. x \in Child(f)
        BY <1>8, <2>1, <3>3, Zenon DEF Child
      <4> QED
        BY <1>4, <3>3, <4>1, Zenon
    <3> QED
      BY <3>1, <3>2, <3>3, Zenon
  <2> QED
    BY <2>1, Zenon DEF Child
<1>15. ASSUME NEW x \in Frames, x # f, x # g PROVE Stepped(x)
  BY <1>8, <1>13, <1>15, StillSteps, Zenon
<1>16. Stepped(f)
  <2>1. Placed(f) /\ Entitled(f) /\ Notes(f)
    BY <1>0, Zenon DEF FramesInv, TreeInv, ContextInv
  <2>2. frame'[f].ctx = frame[f].ctx /\ frame'[f].parent = frame[f].parent
    BY <1>8, <1>9, Zenon DEF of
  <2>3. Kin(f) /\ Released(f)
    BY <1>8, <1>9, <2>2, Zenon DEF Kin, Released, of
  <2>4. frame[f].ctx.env # NoFrame => frame[f].ctx.env \in Live
    BY <2>1, ZenonT(60) DEF Entitled
  <2>5. Environs(f)
    BY <1>13, <2>2, <2>4, SMTT(60) DEF Environs
  <2>6. Notes(f)'
    BY <1>8, <1>9, <2>1, ZenonT(60) DEF Notes, of
  <2>7. frame'[f].parent \in Frames => frame'[f].parent \in Live'
    BY <1>13, <2>1, <2>2 DEF Placed
  <2>8. Asked(f)
    <3>1. PICK c : c = e
      BY Zenon
    <3>2. Accounted(c)' /\ c = frame'[f].dispatch
      BY <1>3, <1>8, <1>9, <3>1, AccountStands, SMTT(60)
    <3> QED
      BY <1>2, <1>14, <3>2, Zenon DEF Asked
  <2>9. f \in Live'
    BY <1>13
  <2> QED
    BY <2>3, <2>5, <2>6, <2>7, <2>8, <2>9, Zenon DEF Stepped
<1>17. Stepped(g)
  <2>0. g \in Live
    BY <1>0, Apart, Zenon DEF FramesInv, TreeInv, Placed
  <2>1. Entitled(g) /\ Notes(g) /\ g \in Live'
    BY <1>13, <2>0 DEF FramesInv, TreeInv, ContextInv
  <2>2. frame'[g].ctx = frame[g].ctx /\ frame'[g].parent = "gone" /\ frame[g].serves \in DOMAIN Hooks
    BY <1>2, <1>4, <1>8, <1>11, Zenon DEF og
  <2>3. Kin(g) /\ Released(g)
    BY <1>8, <1>11, <2>2, Zenon DEF Kin, Released, og
  <2>4. frame[g].ctx.env # NoFrame => frame[g].ctx.env \in Live
    BY <2>1, Zenon DEF Entitled
  <2>5. Environs(g)
    BY <1>13, <2>2, <2>4 DEF Environs
  <2>6. Notes(g)'
    BY <1>8, <1>11, <2>1, Zenon DEF Notes, og
  <2>7. Asked(g)
    BY <1>8, <1>11, Zenon DEF Asked, og
  <2> QED
    BY <2>0, <2>1, <2>2, <2>3, <2>5, <2>6, <2>7, Apart, Zenon DEF Stepped
<1> QED
  BY <1>12, <1>15, <1>16, <1>17, Zenon DEF AllStepped

-----------------------------------------------------------------------------
(* A frame ends.                                                             *)

\* What may happen to another frame g when x ends, besides losing its environment.
Passes(fs, x, g) ==
    /\ fs[g].module = frame[g].module /\ fs[g].serves = frame[g].serves
    /\ fs[g].parent = frame[g].parent /\ fs[g].ctx = frame[g].ctx
    /\ Len(fs[g].results) <= MaxHandles
    /\ \A m \in {fs[g].sent} \union Range(fs[g].results) : m \in Guests => ~HasGrants(m)
    /\ \/ fs[g].dispatch = frame[g].dispatch
       \/ ~Guest(g) /\ Child(g) \subseteq {x} /\ Accounted(fs[g].dispatch)

\* A frame not in use.
LEMMA IdleIs == Idle \in Invocations /\ Idle.module = NoModule /\ Idle.parent = "gone"
<1>1. Context("none") \in CallContexts
  BY ContextTyped
<1>2. NoModule \in Modules \union {NoModule} /\ "none" \in Served /\ "gone" \in Frames \union Origins
  BY DEF Served, Origins
<1> QED
  BY <1>1, <1>2, FrameIs, SMTT(60) DEF Idle

\* A frame that loses its environment keeps everything else.
LEMMA LosesIs ==
    ASSUME NEW r \in Invocations, NEW x
    PROVE  LET q == IF r.ctx.env = x THEN [r EXCEPT !.ctx.env = NoFrame] ELSE r
           IN  /\ q \in Invocations /\ q.module = r.module /\ q.serves = r.serves /\ q.parent = r.parent
               /\ q.dispatch = r.dispatch /\ q.results = r.results /\ q.sent = r.sent
               /\ q.ctx.chain = r.ctx.chain /\ q.ctx.deps = r.ctx.deps
               /\ IF r.ctx.env = x THEN q.ctx.env = NoFrame ELSE q.ctx.env = r.ctx.env
<1> DEFINE c == r.ctx
           k == [c EXCEPT !.env = NoFrame]
           q == [r EXCEPT !.ctx = k]
<1>1. c \in CallContexts
  BY InvocationFields, Zenon
<1>2. q = [r EXCEPT !.ctx.env = NoFrame]
  BY Zenon
<1> HIDE DEF c
<1>3. k \in CallContexts /\ k.chain = c.chain /\ k.deps = c.deps /\ k.env = NoFrame
  BY <1>1 DEF CallContexts
<1> HIDE DEF k
<1>4. /\ q \in Invocations /\ q.module = r.module /\ q.serves = r.serves /\ q.parent = r.parent
      /\ q.dispatch = r.dispatch /\ q.results = r.results /\ q.sent = r.sent /\ q.ctx = k
  BY <1>3 DEF Invocations
<1>5. CASE r.ctx.env = x
  <2>1. q.ctx.chain = r.ctx.chain /\ q.ctx.deps = r.ctx.deps /\ q.ctx.env = NoFrame
    BY <1>3, <1>4, Zenon DEF c
  <2> QED
    BY <1>2, <1>4, <1>5, <2>1, Zenon
<1>6. CASE r.ctx.env # x
  BY <1>6, Zenon
<1> QED
  BY <1>5, <1>6, Zenon

\* A frame that waits for nobody ends.
LEMMA EndSteps ==
    ASSUME FramesInv, reg' = reg, NEW x \in Live, Child(x) = {}, NEW fs \in [Frames -> Invocations],
           \A g \in Live \ {x} : Passes(fs, x, g), \A g \in Frames \ Live : fs[g] = frame[g],
           frame' = Ended(fs, x)
    PROVE  AllStepped
<1>0. x \in Frames /\ \A g \in Live : g \in Frames
  BY Zenon DEF Live
<1> DEFINE q(g) == IF fs[g].ctx.env = x THEN [fs[g] EXCEPT !.ctx.env = NoFrame] ELSE fs[g]
<1>1. DOMAIN frame' = Frames /\ frame' = [g \in Frames |-> frame'[g]] /\ frame'[x] = Idle
      /\ \A g \in Frames \ {x} : frame'[g] = q(g)
  BY <1>0, Zenon DEF Ended
<1>2. ASSUME NEW g \in Frames
      PROVE  /\ q(g) \in Invocations /\ q(g).module = fs[g].module /\ q(g).serves = fs[g].serves
             /\ q(g).parent = fs[g].parent
             /\ q(g).dispatch = fs[g].dispatch /\ q(g).results = fs[g].results /\ q(g).sent = fs[g].sent
             /\ q(g).ctx.chain = fs[g].ctx.chain /\ q(g).ctx.deps = fs[g].ctx.deps
             /\ IF fs[g].ctx.env = x THEN q(g).ctx.env = NoFrame ELSE q(g).ctx.env = fs[g].ctx.env
  <2>1. fs[g] \in Invocations
    BY Zenon
  <2> QED
    BY <2>1, LosesIs
<1> HIDE DEF q
<1>3. frame' \in [Frames -> Invocations]
  <2>1. \A g \in Frames : frame'[g] \in Invocations
    BY <1>1, <1>2, IdleIs, ZenonT(60)
  <2> QED
    BY <1>1, <2>1
<1>4. \A g \in Frames \ {x} :
        /\ frame'[g].module = frame[g].module /\ frame'[g].serves = frame[g].serves /\ frame'[g].parent = frame[g].parent
        /\ frame'[g].ctx.chain = frame[g].ctx.chain /\ frame'[g].ctx.deps = frame[g].ctx.deps
        /\ IF frame[g].ctx.env = x THEN frame'[g].ctx.env = NoFrame ELSE frame'[g].ctx.env = frame[g].ctx.env
        /\ frame'[g].dispatch = fs[g].dispatch /\ frame'[g].results = fs[g].results /\ frame'[g].sent = fs[g].sent
  <2> SUFFICES ASSUME NEW g \in Frames \ {x}
               PROVE  /\ frame'[g].module = frame[g].module /\ frame'[g].serves = frame[g].serves /\ frame'[g].parent = frame[g].parent
                      /\ frame'[g].ctx.chain = frame[g].ctx.chain /\ frame'[g].ctx.deps = frame[g].ctx.deps
                      /\ IF frame[g].ctx.env = x THEN frame'[g].ctx.env = NoFrame ELSE frame'[g].ctx.env = frame[g].ctx.env
                      /\ frame'[g].dispatch = fs[g].dispatch /\ frame'[g].results = fs[g].results /\ frame'[g].sent = fs[g].sent
    BY Zenon
  <2>1. /\ fs[g].module = frame[g].module /\ fs[g].serves = frame[g].serves
        /\ fs[g].parent = frame[g].parent /\ fs[g].ctx = frame[g].ctx
    <3>1. CASE g \in Live
      BY <3>1, Zenon DEF Passes
    <3>2. CASE g \notin Live
      BY <3>2, Zenon
    <3> QED
      BY <3>1, <3>2, Zenon
  <2>2. frame'[g] = q(g)
    BY <1>1, Zenon
  <2>3. /\ q(g).module = fs[g].module /\ q(g).serves = fs[g].serves
        /\ q(g).parent = fs[g].parent
        /\ q(g).dispatch = fs[g].dispatch /\ q(g).results = fs[g].results /\ q(g).sent = fs[g].sent
        /\ q(g).ctx.chain = fs[g].ctx.chain /\ q(g).ctx.deps = fs[g].ctx.deps
        /\ IF fs[g].ctx.env = x THEN q(g).ctx.env = NoFrame ELSE q(g).ctx.env = fs[g].ctx.env
    BY <1>2, ZenonT(60)
  <2> QED
    BY <2>1, <2>2, <2>3, Zenon
<1>5. Live' = Live \ {x}
  <2>1. \A g \in Frames : g \in Live' <=> g \in Live /\ g # x
    BY <1>1, <1>4, IdleIs DEF Live
  <2> QED
    BY <1>0, <2>1, SMTT(60) DEF Live
<1>6. ASSUME NEW g \in Frames, g \notin Live' PROVE Stepped(g)
  <2>1. CASE g = x
    BY <1>1, <1>6, <2>1, IdleIs, Zenon DEF Stepped
  <2>2. CASE g # x
    <3>1. g \notin Live /\ Placed(g)
      BY <1>5, <1>6, <2>2, SMTT(60) DEF FramesInv, TreeInv
    <3> QED
      BY <1>4, <1>6, <2>2, <3>1, Zenon DEF Stepped, Placed
  <2> QED
    BY <2>1, <2>2, Zenon
<1>7. ASSUME NEW g \in Frames, g \in Live' PROVE Stepped(g)
  <2>1. g \in Live /\ g # x /\ g \in Frames \ {x}
    BY <1>5, <1>7, SMTT(60)
  <2>2. Placed(g) /\ Entitled(g) /\ Passes(fs, x, g)
    BY <2>1, Zenon DEF FramesInv, TreeInv, ContextInv
  <2>3. Kin(g) /\ Released(g)
    BY <1>4, <2>1, Zenon DEF Kin, Released
  <2>4. Environs(g)
    <3>1. CASE frame[g].ctx.env = x
      <4>1. ~Granted(g)
        BY <2>1, <2>2, <3>1, ZenonT(60) DEF Entitled
      <4> QED
        BY <1>4, <2>1, <3>1, <4>1, Zenon DEF Environs
    <3>2. CASE frame[g].ctx.env # x
      <4>1. frame'[g].ctx.env = frame[g].ctx.env
        BY <1>4, <2>1, <3>2, Zenon
      <4>2. frame[g].ctx.env # NoFrame => frame[g].ctx.env \in Live
        BY <2>2, Zenon DEF Entitled
      <4> QED
        BY <1>5, <3>2, <4>1, <4>2, SMTT(60) DEF Environs
    <3> QED
      BY <3>1, <3>2, Zenon
  <2>5. frame'[g].parent \in Frames => frame'[g].parent \in Live'
    <3>1. frame'[g].parent = frame[g].parent /\ frame[g].parent # x
      BY <1>4, <2>1, Zenon DEF Child
    <3>2. frame[g].parent \in Frames => frame[g].parent \in Live
      BY <2>2, Zenon DEF Placed
    <3> QED
      BY <1>5, <3>1, <3>2
  <2>6. Notes(g)'
    BY <1>4, <2>1, <2>2, Zenon DEF Notes, Passes
  <2>7. Asked(g)
    <3>1. CASE fs[g].dispatch = frame[g].dispatch
      BY <1>4, <2>1, <3>1, Zenon DEF Asked
    <3>2. CASE ~Guest(g) /\ Child(g) \subseteq {x} /\ Accounted(fs[g].dispatch)
      <4>1. Child(g)' = {}
        <5>1. ASSUME NEW y \in Frames, frame'[y].parent = g PROVE FALSE
          <6>1. CASE y = x
            BY <1>1, <5>1, <6>1, <2>1, IdleIs, Apart, Zenon
          <6>2. CASE y # x
            <7>1. y \in Child(g)
              BY <1>4, <5>1, <6>2, Zenon DEF Child
            <7> QED
              BY <3>2, <6>2, <7>1, Zenon
          <6> QED
            BY <6>1, <6>2, Zenon
        <5> QED
          BY <5>1, Zenon DEF Child
      <4>2. PICK c : c = fs[g].dispatch
        BY Zenon
      <4>3. Accounted(c)
        BY <3>2, <4>2, Zenon
      <4>4. Accounted(c)'
        BY <4>3, AccountStands, Zenon
      <4>5. c = frame'[g].dispatch
        BY <1>4, <2>1, <4>2, Zenon
      <4> QED
        BY <3>2, <4>1, <4>4, <4>5, Zenon DEF Asked
    <3> QED
      BY <2>2, <3>1, <3>2, Zenon DEF Passes
  <2> QED
    BY <1>7, <2>1, <2>3, <2>4, <2>5, <2>6, <2>7, Zenon DEF Stepped
<1> QED
  BY <1>3, <1>6, <1>7, Zenon DEF AllStepped

\* When a frame ends, nothing else need happen.
LEMMA PassesOver ==
    ASSUME FramesInv, NEW x, NEW g \in Live, NEW fs, fs[g] = frame[g]
    PROVE  Passes(fs, x, g)
<1>1. Notes(g)
  BY Zenon DEF FramesInv, ContextInv
<1> QED
  BY <1>1, Zenon DEF Notes, Passes

\* A job, or a subscriber nobody waits for, ends.
LEMMA AloneEnds ==
    ASSUME FramesInv, reg' = reg, NEW x \in Live, Child(x) = {}, frame' = Ended(frame, x)
    PROVE  AllStepped
<1>1. PICK fs : fs = frame
  BY Zenon
<1>2. fs \in [Frames -> Invocations] /\ frame' = Ended(fs, x)
  BY <1>1, Zenon DEF FramesInv
<1>3. \A g \in Live \ {x} : Passes(fs, x, g)
  BY <1>1, PassesOver, Zenon
<1>4. \A g \in Frames \ Live : fs[g] = frame[g]
  BY <1>1, Zenon
<1> QED
  BY <1>2, <1>3, <1>4, EndSteps, Zenon

\* A capability returns, and its result is stored for the guest that called it.
LEMMA StoredEnds ==
    ASSUME FramesInv, reg' = reg, NEW x \in Live, Child(x) = {}, NEW v \in Live, NEW m \in Callers,
           m \in Guests => ~HasGrants(m), frame' = Ended(store(v, m), x)
    PROVE  AllStepped
<1>1. CASE ~(Len(frame[v].results) < MaxHandles)
  <2>1. frame' = Ended(frame, x)
    BY <1>1, Zenon DEF store
  <2> QED
    BY <2>1, AloneEnds, Zenon
<1>2. CASE Len(frame[v].results) < MaxHandles
  <2> DEFINE r == frame[v]
             res == Append(r.results, m)
             n == [r EXCEPT !.results = res]
  <2>1. PICK fs : fs = [frame EXCEPT ![v] = n]
    BY Zenon
  <2>2. fs = store(v, m)
    BY <1>2, <2>1, Zenon DEF store
  <2>3. /\ r \in Invocations /\ r.results \in Seq(Callers) /\ Len(r.results) \in Nat /\ Len(r.results) < MaxHandles
        /\ \A k \in {r.sent} \union Range(r.results) : k \in Guests => ~HasGrants(k)
    BY <1>2, NotesAre, Zenon
  <2>4. v \in Frames /\ frame \in [Frames -> Invocations]
    BY Zenon DEF FramesInv, Live
  <2> HIDE DEF r
  <2>5. res \in Seq(Callers) /\ Len(res) = Len(r.results) + 1 /\ \A k \in Range(res) : k = m \/ k \in Range(r.results)
    <3>1. PICK s \in Seq(Callers) : s = r.results
      BY <2>3, Zenon
    <3>2. Append(s, m) \in Seq(Callers) /\ Len(Append(s, m)) = Len(s) + 1
      OBVIOUS
    <3>3. \A k \in Range(Append(s, m)) : k = m \/ k \in Range(s)
      BY AppendIs
    <3> QED
      BY <3>1, <3>2, <3>3, Zenon
  <2> HIDE DEF res
  <2>6. /\ n \in Invocations /\ n.module = r.module /\ n.serves = r.serves /\ n.parent = r.parent
        /\ n.ctx = r.ctx /\ n.dispatch = r.dispatch /\ n.results = res /\ n.sent = r.sent
    BY <2>3, <2>5 DEF Invocations
  <2> HIDE DEF n
  <2>7. fs \in [Frames -> Invocations] /\ fs[v] = n /\ \A g \in Frames \ {v} : fs[g] = frame[g]
    BY <2>1, <2>4, <2>6, ZenonT(60)
  <2>8. Len(res) <= MaxHandles
    BY <2>3, <2>5, CallsAssumption, SMTT(60)
  <2>9. Passes(fs, x, v)
    <3>1. \A k \in {r.sent} \union Range(res) : k \in Guests => ~HasGrants(k)
      BY <2>3, <2>5, Zenon
    <3> QED
      BY <2>6, <2>7, <2>8, <3>1, Zenon DEF Passes, r
  <2>10. \A g \in Live \ {x} : Passes(fs, x, g)
    BY <2>7, <2>9, PassesOver, Zenon DEF Live
  <2>11. \A g \in Frames \ Live : fs[g] = frame[g]
    BY <2>7, Zenon
  <2> QED
    BY <2>2, <2>7, <2>10, <2>11, EndSteps, Zenon
<1> QED
  BY <1>1, <1>2, Zenon

=============================================================================
