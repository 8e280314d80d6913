---------------------------- MODULE GatewayProofs ----------------------------
(***************************************************************************)
(* Proofs about AuthGateway: each of its steps keeps the inductive invariant *)
(* (GatewayInvariant), what the invariant implies of states and steps, and   *)
(* the two properties that need an invariant of their own: an attempt is     *)
(* used once, a suspension holds.                                            *)
(***************************************************************************)
EXTENDS GatewayInvariant, TLAPS

-----------------------------------------------------------------------------
(* Records.                                                                  *)

\* A request that moves to another step keeps the rest.
LEMMA StepOf ==
    ASSUME NEW r \in Requests, NEW s \in Steps
    PROVE  LET q == [r EXCEPT !.step = s]
           IN  /\ q \in Requests /\ q.step = s /\ q.kind = r.kind /\ q.at = r.at
               /\ q.tenant = r.tenant /\ q.email = r.email /\ q.found = r.found
               /\ q.role = r.role /\ q.acc = r.acc /\ q.tok = r.tok /\ q.op = r.op
               /\ q.phase = r.phase /\ q.body = r.body /\ q.attempt = r.attempt
  BY Zenon DEF Requests

\* A request at rest is a request.
LEMMA IdleType == Idle \in Requests
<1>1. NoAccount \in Reads
  BY StoreAssumption DEF NoAccount, Created, Reads, AllIds, Homed
<1>2. NoOp \in Ops
  BY Zenon DEF NoOp, Op, Ops, OpNames, OnRoles, AllIds
<1> QED
  BY <1>1, <1>2, Zenon DEF Idle, Requests, Steps, Homed, Statuses

\* An identifier that is still free.
LEMMA NextIdFree == Room => NextId \in Ids /\ ~ Exists(NextId)
  BY Zenon DEF Room, NextId

\* An account of the table, as a request reads it.
LEMMA ReadType ==
    ASSUME TypeOK, NEW i \in Ids
    PROVE  Read(i) \in Reads /\ Read(i).id = i /\ Read(i).tenant = accounts[i].tenant
           /\ Read(i).version = accounts[i].version /\ Read(i).seen = ended[i]
  BY Zenon DEF TypeOK, StoreTypeOK, Rows, Read, Reads, AllIds, Homed

\* An account that has just been created, or a service account.
LEMMA CreatedType ==
    ASSUME NEW i \in AllIds, NEW t \in Homed
    PROVE  Created(i, t) \in Reads /\ Created(i, t).id = i /\ Created(i, t).tenant = t
           /\ Created(i, t).version = 0 /\ Created(i, t).seen = 0
           /\ Created(i, t).status = "active"
  BY StoreAssumption DEF Created, Reads

-----------------------------------------------------------------------------
(* Requests that only read: what they move to must be good, and must not     *)
(* hold a row another request is making.                                     *)

\* The variables the proof follows only by their types.
SideOK ==
    /\ DirectoryTypeOK
    /\ attempts \in [Attempts -> {"unused", "oauth", "saml", "gone"}]
    /\ suspended \subseteq Tenants
    /\ owed \in [Processes -> SUBSET Tenants]
    /\ uses \in [Attempts -> Nat]

Safe(w, r) ==
    /\ r \in Requests
    /\ RequestGood(r)
    /\ r.step \in Making => req[w].step \in Making /\ r.acc.id = req[w].acc.id
    /\ \A v \in Workers \ {w} : req[v].step \in Making => r.acc.id # req[v].acc.id

\* A request at rest is safe.
LEMMA IdleSafe == ASSUME IInv, NEW w \in Workers PROVE Safe(w, Idle)
<1>1. Idle \in Requests
  BY IdleType, Zenon
<1>2. RequestGood(Idle)
  BY StoreAssumption DEF RequestGood, Routed, Fits, Informed, Ranked, Making, Idle, NoAccount, Created,
     Kinds, Ids, NoId
<1>3. \A v \in Workers : req[v].step \in Making => req[v].acc.id \in Ids
  BY Zenon DEF IInv, RequestGood, Informed, Unclaimed
<1>4. Idle.acc.id \notin Ids /\ Idle.step \notin Making
  BY StoreAssumption DEF Idle, NoAccount, Created, NoId, Ids, Making
<1> QED
  BY <1>1, <1>2, <1>3, <1>4, Zenon DEF Safe

\* A request that goes on with what it knows is safe, if the new step asks no more.
LEMMA GoSafe ==
    ASSUME IInv, NEW w \in Workers, NEW s \in Steps,
           RequestGood([req[w] EXCEPT !.step = s]),
           s \in Making => req[w].step \in Making
    PROVE  Safe(w, [req[w] EXCEPT !.step = s])
<1>1. req[w] \in Requests
  BY Zenon DEF IInv, TypeOK
<1>2. \A v \in Workers \ {w} : req[v].step \in Making => req[w].acc.id # req[v].acc.id
  BY Zenon DEF IInv, Exclusive
<1> QED
  BY <1>1, <1>2, StepOf DEF Safe

\* What a request knows stays true while nothing it is about changes.
LEMMA GoodSame ==
    ASSUME UNCHANGED <<accounts, links, tokens, ended, founder>>
    PROVE  \A q : RequestGood(q) => RequestGood(q)'
<1>1. \A q : Routed(q) => Routed(q)'
  BY Zenon DEF Routed, Fits
<1>2. \A i : Unclaimed(i) => Unclaimed(i)'
  BY Zenon DEF Unclaimed, Exists
<1>3. \A q : Informed(q) => Informed(q)'
  BY <1>2, Zenon DEF Informed, Exists
<1>4. \A q : Ranked(q) => Ranked(q)'
  BY Zenon DEF Ranked, Entering
<1> QED
  BY <1>1, <1>3, <1>4, Zenon DEF RequestGood

\* A step that only moves one request to a safe place keeps the invariant.
LEMMA MoveKeeps ==
    ASSUME IInv, NEW w \in Workers, NEW r, Safe(w, r), Become(w, r),
           UNCHANGED <<store, deployment, tokens, ended, founder>>, SideOK'
    PROVE  IInv'
<1> USE DEF Become
<1>0. req \in [Workers -> Requests]
  BY Zenon DEF IInv, TypeOK
<1>1. TypeOK'
  BY <1>0, Zenon DEF IInv, TypeOK, Safe, SideOK, store, StoreTypeOK
<1>2. \A q : RequestGood(q) => RequestGood(q)'
  BY GoodSame, Zenon DEF store
<1>3. \A v \in Workers : RequestGood(req'[v])
  BY <1>0, Zenon DEF IInv, Safe
<1>4. Exclusive'
  BY <1>0 DEF IInv, Exclusive, Safe
<1>5. StoreGood'
  BY Zenon DEF IInv, StoreGood, Exists, store
<1>6. FounderGood'
  BY Zenon DEF IInv, FounderGood, AccountsIn, Exists, store
<1>7. (\A v \in Workers : RequestGood(req[v]))'
  BY <1>2, <1>3, Zenon
<1> QED
  BY <1>1, <1>4, <1>5, <1>6, <1>7, Zenon DEF IInv

-----------------------------------------------------------------------------
(* The edge.                                                                 *)

\* Steps at which a request has no row to answer for.
Plain == Steps \ {"submit", "stamp", "undo", "seed", "assign", "others", "adopt", "sign"}

\* A request that keeps the row it has read, if any, and goes to such a step.
LEMMA PlainSafe ==
    ASSUME IInv, NEW w \in Workers, NEW r \in Requests,
           r.acc = req[w].acc, r.step \in Plain, Routed(r)
    PROVE  Safe(w, r)
<1>1. r.step \notin Making
  BY Zenon DEF Plain, Making
<1>2. Informed(r)
  BY <1>1, Zenon DEF IInv, RequestGood, Informed, Plain
<1>3. Ranked(r)
  BY Zenon DEF Ranked, Plain
<1>4. \A v \in Workers \ {w} : req[v].step \in Making => req[w].acc.id # req[v].acc.id
  BY Zenon DEF IInv, Exclusive
<1> QED
  BY <1>1, <1>2, <1>3, <1>4, Zenon DEF Safe, RequestGood

\* A request with nothing read yet.
LEMMA NewSafe ==
    ASSUME IInv, NEW w \in Workers, NEW r \in Requests,
           r.acc = NoAccount, r.step \in Plain, Routed(r)
    PROVE  Safe(w, r)
<1>1. r.step \notin Making
  BY Zenon DEF Plain, Making
<1>2. NoAccount.id \notin Ids /\ NoAccount.version = NoAccount.seen
  BY StoreAssumption DEF NoAccount, Created, NoId, Ids
<1>3. Informed(r)
  BY <1>1, <1>2, Zenon DEF Informed, Plain
<1>4. Ranked(r)
  BY Zenon DEF Ranked, Plain
<1>5. \A v \in Workers : req[v].step \in Making => req[v].acc.id \in Ids
  BY Zenon DEF IInv, RequestGood, Informed, Unclaimed
<1> QED
  BY <1>1, <1>2, <1>3, <1>4, <1>5, Zenon DEF Safe, RequestGood

\* What the edge makes of an answer of the directory.
LEMMA AnsweredSafe ==
    ASSUME IInv, NEW w \in Workers, NEW r \in Requests, NEW status,
           r.acc = req[w].acc, r.kind \in {"register", "login", "oauth"},
           r.tenant \in Tenants, r.email \in Emails, r.at \in Processes
    PROVE  Safe(w, Answered(r, status))
<1>1. CASE Answered(r, status) = Idle
  BY <1>1, IdleSafe, Zenon
<1>2. ASSUME NEW t \in Tenants, Answered(r, status) = Resolved(r, t)
      PROVE  Safe(w, Answered(r, status))
  <2>0. "ask" \in Steps /\ t \in Homed /\ NoTenant \in Homed
    BY Zenon DEF Steps, Homed
  <2>1. /\ Resolved(r, t) \in Requests /\ Resolved(r, t).acc = r.acc
        /\ Resolved(r, t).step = "ask" /\ Resolved(r, t).kind = r.kind
        /\ Resolved(r, t).tenant = t /\ Resolved(r, t).email = r.email
        /\ Resolved(r, t).at = r.at
    BY <2>0, Zenon DEF Resolved, Requests
  <2>2. Routed(Resolved(r, t)) /\ Resolved(r, t).step \in Plain
    BY <2>1, Zenon DEF Routed, Fits, Plain, Steps
  <2> QED
    BY <1>2, <2>1, <2>2, PlainSafe, Zenon
<1>3. ASSUME NEW s \in {"check", "find", "recall", "provision"},
             Answered(r, status) = [r EXCEPT !.step = s],
             s \in {"check", "provision"} => r.kind = "register",
             s = "find" => r.kind = "login", s = "recall" => r.kind = "oauth"
      PROVE  Safe(w, Answered(r, status))
  <2> DEFINE q == [r EXCEPT !.step = s]
  <2>1. s \in Steps /\ s \in Plain
    BY Zenon DEF Steps, Plain
  <2>2. q \in Requests /\ q.step = s /\ q.kind = r.kind /\ q.tenant = r.tenant
        /\ q.email = r.email /\ q.acc = r.acc /\ q.at = r.at
    BY <2>1, StepOf, Zenon
  <2> HIDE DEF q
  <2>3. Routed(q)
    BY <1>3, <2>2, Zenon DEF Routed, Fits
  <2>4. Safe(w, q)
    BY <2>1, <2>2, <2>3, PlainSafe, Zenon
  <2> QED
    BY <1>3, <2>4, Zenon DEF q
<1>4. r.body # NoTenant => r.body \in Tenants
  BY Zenon DEF Requests, Homed
<1>5. /\ r.kind = "register" => Service[r.kind] = "check"
      /\ r.kind = "login" => Service[r.kind] = "find"
      /\ r.kind = "oauth" => Service[r.kind] = "recall"
  BY DEF Service
<1>6. \/ Answered(r, status) = Idle
      \/ Answered(r, status) = Resolved(r, r.tenant)
      \/ r.body # NoTenant /\ Answered(r, status) = Resolved(r, r.body)
      \/ Answered(r, status) = [r EXCEPT !.step = Service[r.kind]]
      \/ r.kind = "register" /\ Answered(r, status) = [r EXCEPT !.step = "provision"]
  BY Zenon DEF Answered
<1>7. CASE Answered(r, status) = [r EXCEPT !.step = Service[r.kind]]
  <2>1. CASE r.kind = "register"
    BY <1>3, <1>5, <1>7, <2>1, Zenon
  <2>2. CASE r.kind = "login"
    BY <1>3, <1>5, <1>7, <2>2, Zenon
  <2>3. CASE r.kind = "oauth"
    BY <1>3, <1>5, <1>7, <2>3, Zenon
  <2> QED
    BY <2>1, <2>2, <2>3, Zenon
<1>8. CASE r.kind = "register" /\ Answered(r, status) = [r EXCEPT !.step = "provision"]
  BY <1>3, <1>8, Zenon
<1> QED
  BY <1>1, <1>2, <1>4, <1>6, <1>7, <1>8, Zenon

\* What a request knows at the edge.
LEMMA AtEdge ==
    ASSUME IInv, NEW w \in Workers, req[w].step \in {"ask", "lookup", "keep"}
    PROVE  /\ req[w] \in Requests /\ req[w].kind \in {"register", "login", "oauth"}
           /\ req[w].tenant \in Tenants /\ req[w].email \in Emails /\ req[w].at \in Processes
<1>1. Routed(req[w]) /\ req[w] \in Requests
  BY Zenon DEF IInv, RequestGood, TypeOK
<1> QED
  BY <1>1, Zenon DEF Routed, Fits, Kinds

\* The steps of the tenant check and of the operator keep the invariant.
LEMMA EdgeKeeps ==
    ASSUME IInv, NEW w \in Workers, Edge(w), SideOK',
           UNCHANGED <<store, deployment, tokens, ended, founder>>
    PROVE  IInv'
<1> USE DEF At
<1>t. req[w] \in Requests /\ Routed(req[w])
  BY Zenon DEF IInv, TypeOK, RequestGood
<1>d. /\ deployment.hosts \subseteq Tenants /\ deployment.bodies \subseteq Tenants
      /\ deployment.emails \subseteq Emails
  BY DeploymentsAssumption, Zenon DEF IInv, TypeOK
<1>1. ASSUME NEW kind \in {"register", "login", "oauth"}, NEW p \in Processes,
             NEW host \in Homed, NEW body \in Homed, NEW e \in Emails,
             NEW a \in Attempts \union {"none"}, Arrive(w, kind, p, host, body, e, a)
      PROVE  IInv'
  <2> DEFINE phase == IF host # NoTenant THEN "host" ELSE "final"
             tenant == IF host # NoTenant THEN host ELSE body
             other == IF host # NoTenant THEN body ELSE NoTenant
             r == [Idle EXCEPT
                    !.step = "ask", !.kind = kind, !.at = p, !.email = e, !.attempt = a,
                    !.phase = phase, !.tenant = tenant, !.body = other]
  <2>1. Become(w, r)
    BY <1>1, Zenon DEF Arrive
  <2>2. "ask" \in Steps /\ "ask" \in Plain /\ NoTenant \in Homed /\ kind \in Kinds
    BY Zenon DEF Steps, Plain, Homed, Kinds
  <2>3. phase \in {"host", "final"} /\ tenant \in Tenants /\ tenant \in Homed /\ other \in Homed
    BY <1>1, <2>2, Zenon DEF Arrive, Homed
  <2> HIDE DEF phase, tenant, other
  <2>4. r \in Requests
    BY <2>2, <2>3, IdleType, Zenon DEF Requests
  <2>5. r.step = "ask" /\ r.kind = kind /\ r.email = e /\ r.acc = NoAccount /\ r.tenant = tenant
        /\ r.at = p
    BY Zenon DEF Idle
  <2> HIDE DEF r
  <2>6. Routed(r)
    BY <2>3, <2>5, Zenon DEF Routed, Fits
  <2> QED
    BY <2>1, <2>2, <2>4, <2>5, <2>6, NewSafe, MoveKeeps, Zenon
<1>2. CASE Submitted(w)
  BY <1>1, <1>2, <1>d, Zenon DEF Submitted, Homed
<1>3. CASE Callback(w)
  BY <1>1, <1>3, <1>d, Zenon DEF Callback, Homed
<1>4. CASE ask(w)
  <2>1. CASE Cached(req[w].at, req[w].tenant)
    <3>1. Become(w, Answered(req[w], cache[req[w].at][req[w].tenant]))
      BY <1>4, <2>1, Zenon DEF ask
    <3>2. Safe(w, Answered(req[w], cache[req[w].at][req[w].tenant]))
      BY <1>4, AtEdge, AnsweredSafe, Zenon DEF ask
    <3> QED
      BY <3>1, <3>2, MoveKeeps, Zenon
  <2>2. CASE ~ Cached(req[w].at, req[w].tenant)
    <3> DEFINE r == [req[w] EXCEPT !.step = "lookup"]
    <3>1. Become(w, r)
      BY <1>4, <2>2, Zenon DEF ask, Go
    <3>2. "lookup" \in Steps /\ "lookup" \in Plain
      BY Zenon DEF Steps, Plain
    <3>3. r \in Requests /\ r.step = "lookup" /\ r.kind = req[w].kind /\ r.acc = req[w].acc
          /\ r.tenant = req[w].tenant /\ r.email = req[w].email /\ r.at = req[w].at
      BY <1>t, <3>2, StepOf, Zenon
    <3> HIDE DEF r
    <3>4. Routed(r)
      BY <1>4, <3>3, AtEdge, Zenon DEF Routed, Fits, ask
    <3> QED
      BY <3>1, <3>2, <3>3, <3>4, PlainSafe, MoveKeeps, Zenon
  <2> QED
    BY <2>1, <2>2, Zenon
<1>5. CASE lookup(w)
  <2> DEFINE r == [req[w] EXCEPT !.step = "keep", !.found = tenants[req[w].tenant]]
  <2>1. Become(w, r)
    BY <1>5, Zenon DEF lookup
  <2>2. "keep" \in Steps /\ "keep" \in Plain /\ tenants[req[w].tenant] \in Statuses
    BY <1>5, AtEdge, Zenon DEF Steps, Plain, IInv, TypeOK, DirectoryTypeOK, lookup
  <2>3. r \in Requests /\ r.step = "keep" /\ r.kind = req[w].kind /\ r.acc = req[w].acc
        /\ r.tenant = req[w].tenant /\ r.email = req[w].email
        /\ r.found = tenants[req[w].tenant] /\ r.at = req[w].at
    BY <1>t, <2>2, Zenon DEF Requests
  <2> HIDE DEF r
  <2>4. Routed(r)
    BY <1>5, <2>2, <2>3, AtEdge, Zenon DEF Routed, Fits, Statuses, lookup
  <2> QED
    BY <2>1, <2>2, <2>3, <2>4, PlainSafe, MoveKeeps, Zenon
<1>6. CASE lookupFails(w)
  <2>1. Become(w, Answered(req[w], "failed"))
    BY <1>6, Zenon DEF lookupFails
  <2>2. Safe(w, Answered(req[w], "failed"))
    BY <1>6, AtEdge, AnsweredSafe, Zenon DEF lookupFails
  <2> QED
    BY <2>1, <2>2, MoveKeeps, Zenon
<1>7. CASE keep(w)
  <2> DEFINE r == [req[w] EXCEPT !.found = "none"]
  <2>1. Become(w, Answered(r, req[w].found))
    BY <1>7, Zenon DEF keep
  <2>2. r \in Requests /\ r.kind = req[w].kind /\ r.acc = req[w].acc
        /\ r.tenant = req[w].tenant /\ r.email = req[w].email /\ r.at = req[w].at
    BY <1>t, Zenon DEF Requests
  <2> HIDE DEF r
  <2>3. Safe(w, Answered(r, req[w].found))
    BY <1>7, <2>2, AtEdge, AnsweredSafe, Zenon DEF keep
  <2> QED
    BY <2>1, <2>3, MoveKeeps, Zenon
<1>8. ASSUME NEW p \in Processes, NEW t \in Tenants,
             NEW name \in {"provision", "active", "suspended"}, Operate(w, p, t, name)
      PROVE  IInv'
  <2> DEFINE s == IF name = "provision" THEN name ELSE "status"
             r == [Idle EXCEPT !.step = s, !.kind = "operator", !.at = p, !.tenant = t,
                               !.op = Op(name, NoId, "none")]
  <2>1. Become(w, r)
    BY <1>8, Zenon DEF Operate
  <2>2. s \in Steps /\ s \in Plain /\ t \in Homed
    BY Zenon DEF Steps, Plain, Homed
  <2>3. Op(name, NoId, "none") \in Ops /\ Op(name, NoId, "none").name = name
    BY Zenon DEF Op, Ops, OpNames, OnRoles, AllIds
  <2> HIDE DEF s
  <2>4. r \in Requests
    BY <2>2, <2>3, IdleType, Zenon DEF Requests
  <2>5. r.step = s /\ r.kind = "operator" /\ r.acc = NoAccount /\ r.op.name = name
        /\ r.tenant = t /\ r.at = p
    BY <2>3, Zenon DEF Idle
  <2>6. s \in {"provision", "status"} /\ (s = "status" => name \in {"active", "suspended"})
    BY Zenon DEF s
  <2> HIDE DEF r
  <2>7. Routed(r)
    BY <2>5, <2>6, Zenon DEF Routed, Fits, Kinds
  <2> QED
    BY <2>1, <2>2, <2>4, <2>5, <2>7, NewSafe, MoveKeeps, Zenon
<1>9. ASSUME NEW s \in {"forget", "check"}, Go(w, s),
             req[w].step \in {"provision", "status", "forget"},
             s = "check" => req[w].kind = "register"
      PROVE  IInv'
  <2> DEFINE r == [req[w] EXCEPT !.step = s]
  <2>1. Become(w, r)
    BY <1>9, Zenon DEF Go
  <2>2. s \in Steps /\ s \in Plain
    BY Zenon DEF Steps, Plain
  <2>3. r \in Requests /\ r.step = s /\ r.kind = req[w].kind /\ r.acc = req[w].acc
        /\ r.tenant = req[w].tenant /\ r.email = req[w].email /\ r.at = req[w].at
    BY <1>t, <2>2, StepOf, Zenon
  <2> HIDE DEF r
  <2>4. Routed(r)
    BY <1>9, <1>t, <2>3, Zenon DEF Routed, Fits
  <2> QED
    BY <2>1, <2>2, <2>3, <2>4, PlainSafe, MoveKeeps, Zenon
<1>10. CASE provision(w)
  BY <1>9, <1>10, Zenon DEF provision
<1>11. CASE setStatus(w)
  BY <1>9, <1>11, Zenon DEF setStatus
<1>12. CASE forget(w)
  <2>1. CASE req[w].kind = "register"
    BY <1>9, <1>12, <2>1, Zenon DEF forget
  <2>2. CASE req[w].kind # "register"
    BY <1>12, <2>2, IdleSafe, MoveKeeps, Zenon DEF forget, Done
  <2> QED
    BY <2>1, <2>2, Zenon
<1> QED
  BY <1>2, <1>3, <1>4, <1>5, <1>6, <1>7, <1>8, <1>10, <1>11, <1>12, Zenon DEF Edge

-----------------------------------------------------------------------------
(* Steps of the services that change no row.                                 *)

\* A request that goes on to a step without a row to answer for.
LEMMA GoKeeps ==
    ASSUME IInv, NEW w \in Workers, NEW s \in Plain, Go(w, s), Fits(s, req[w]), SideOK',
           UNCHANGED <<store, deployment, tokens, ended, founder>>
    PROVE  IInv'
<1> DEFINE r == [req[w] EXCEPT !.step = s]
<1>1. Become(w, r)
  BY Zenon DEF Go
<1>2. r \in Requests /\ r.step = s /\ r.kind = req[w].kind /\ r.acc = req[w].acc
      /\ r.tenant = req[w].tenant /\ r.email = req[w].email /\ r.tok = req[w].tok
      /\ r.op = req[w].op /\ r.found = req[w].found /\ r.at = req[w].at
  BY StepOf DEF Plain, IInv, TypeOK
<1> HIDE DEF r
<1>3. Routed(r)
  BY <1>2, Zenon DEF Routed, Fits
<1> QED
  BY <1>1, <1>2, <1>3, PlainSafe, MoveKeeps, Zenon

\* A request that ends.
LEMMA DoneKeeps ==
    ASSUME IInv, NEW w \in Workers, Done(w), SideOK',
           UNCHANGED <<store, deployment, tokens, ended, founder>>
    PROVE  IInv'
  BY IdleSafe, MoveKeeps, Zenon DEF Done

\* Registration, up to the row it creates, and when it gives up.
LEMMA RegisterReads ==
    ASSUME IInv, NEW w \in Workers, check(w) \/ count(w) \/ stampFails(w), SideOK'
    PROVE  IInv'
<1> USE DEF At
<1>t. req[w] \in Requests /\ RequestGood(req[w])
  BY Zenon DEF IInv, TypeOK
<1>k. req[w].kind = "register" /\ req[w].tenant \in Tenants /\ req[w].email \in Emails
  BY <1>t, Zenon DEF check, count, stampFails, RequestGood, Routed, Fits, Kinds
<1>u. UNCHANGED <<store, deployment, tokens, ended, founder>>
  BY Zenon DEF check, count, stampFails, rest, history
<1>1. CASE check(w)
  <2>1. "count" \in Plain /\ Fits("count", req[w])
    BY <1>k, Zenon DEF Fits, Plain, Steps
  <2> QED
    BY <1>1, <1>u, <2>1, GoKeeps, DoneKeeps, Zenon DEF check
<1>2. CASE count(w)
  <2> DEFINE role == IF NoAccountYet(req[w].tenant) THEN "owner" ELSE "member"
             r == [req[w] EXCEPT !.step = "submit", !.role = role]
  <2>1. Become(w, r)
    BY <1>2, Zenon DEF count
  <2>2. role \in {"owner", "member"} /\ "submit" \in Steps
    BY Zenon DEF Steps
  <2>3. role = "member" => founder[req[w].tenant].how # "none"
    BY <1>k, Zenon DEF NoAccountYet, IInv, FounderGood
  <2> HIDE DEF role
  <2>r. r \in Requests
    BY <1>t, <2>2, Zenon DEF Requests
  <2>4. r \in Requests /\ r.step = "submit" /\ r.kind = req[w].kind /\ r.acc = req[w].acc
        /\ r.tenant = req[w].tenant /\ r.email = req[w].email /\ r.role = role
    BY <1>t, <2>r, Zenon DEF Requests
  <2> HIDE DEF r
  <2>5. Routed(r)
    BY <1>k, <2>4, Zenon DEF Routed, Fits
  <2>6. Informed(r)
    BY <1>t, <2>4, Zenon DEF RequestGood, Informed, Making
  <2>7. Ranked(r)
    BY <2>2, <2>3, <2>4, Zenon DEF Ranked
  <2>8. \A v \in Workers \ {w} : req[v].step \in Making => req[w].acc.id # req[v].acc.id
    BY Zenon DEF IInv, Exclusive
  <2>9. Safe(w, r)
    BY <2>4, <2>5, <2>6, <2>7, <2>8, Zenon DEF Safe, RequestGood, Making
  <2> QED
    BY <1>u, <2>1, <2>9, MoveKeeps, Zenon
<1>3. CASE stampFails(w)
  <2> DEFINE r == [req[w] EXCEPT !.step = "undo"]
  <2>1. Become(w, r) /\ req[w].step = "stamp" /\ "undo" \in Steps
    BY <1>3, Zenon DEF stampFails, Go, Steps
  <2>2. r \in Requests /\ r.step = "undo" /\ r.kind = req[w].kind /\ r.acc = req[w].acc
        /\ r.tenant = req[w].tenant /\ r.email = req[w].email
    BY <1>t, <2>1, StepOf, Zenon
  <2> HIDE DEF r
  <2>3. Routed(r)
    BY <1>k, <2>2, Zenon DEF Routed, Fits
  <2>4. Informed(r)
    BY <1>t, <2>1, <2>2, Zenon DEF RequestGood, Informed, Making
  <2>5. Ranked(r)
    BY <2>2, Zenon DEF Ranked
  <2>6. \A v \in Workers \ {w} : req[v].step \in Making => req[w].acc.id # req[v].acc.id
    BY Zenon DEF IInv, Exclusive
  <2>7. Safe(w, r)
    BY <2>1, <2>2, <2>3, <2>4, <2>5, <2>6, Zenon DEF Safe, RequestGood, Making
  <2> QED
    BY <1>u, <2>1, <2>7, MoveKeeps, Zenon
<1> QED
  BY <1>1, <1>2, <1>3, Zenon

\* What a login in the name of Kinds knows.
LEMMA Named ==
    ASSUME IInv, NEW w \in Workers,
           req[w].step \in {"find", "recall", "consume", "load", "enroll", "adopt", "others"}
    PROVE  /\ req[w] \in Requests /\ RequestGood(req[w]) /\ req[w].kind \in Kinds
           /\ req[w].tenant \in Tenants /\ req[w].email \in Emails
<1>1. RequestGood(req[w]) /\ req[w] \in Requests
  BY Zenon DEF IInv, TypeOK
<1> QED
  BY <1>1, Zenon DEF RequestGood, Routed, Fits, Kinds

\* A request that has read an account no request is making.
LEMMA ReadSafe ==
    ASSUME IInv, NEW w \in Workers, NEW r \in Requests,
           r.step \in {"sign", "adopt"}, Routed(r), r.acc.version = r.acc.seen,
           r.acc.id \in Ids, Exists(r.acc.id), r.step = "sign" => r.acc.tenant \in Tenants,
           \A v \in Workers : req[v].step \in Making => r.acc.id # req[v].acc.id
    PROVE  Safe(w, r)
<1>1. r.acc.id # NoId /\ r.step \notin Making
  BY StoreAssumption DEF Ids, NoId, Making
<1>2. Informed(r)
  BY <1>1, Zenon DEF Informed
<1>3. Ranked(r)
  BY Zenon DEF Ranked
<1> QED
  BY <1>1, <1>2, <1>3, Zenon DEF Safe, RequestGood

\* An account that may log in goes on to its token.
LEMMA SignsSafe ==
    ASSUME IInv, NEW w \in Workers, NEW r \in Requests, r.tenant \in Tenants, r.email \in Emails,
           r.acc.version = r.acc.seen, r.acc.id \in Ids, Exists(r.acc.id),
           r.acc.tenant \in Tenants,
           \A v \in Workers : req[v].step \in Making => r.acc.id # req[v].acc.id
    PROVE  Safe(w, Signs(r))
<1>1. CASE r.acc.status = "active"
  <2> DEFINE q == [r EXCEPT !.step = "sign"]
  <2>0. "sign" \in Steps
    BY Zenon DEF Steps
  <2>1. q \in Requests /\ q.step = "sign" /\ q.kind = r.kind /\ q.acc = r.acc
        /\ q.tenant = r.tenant /\ q.email = r.email
    BY <2>0, StepOf, Zenon
  <2> HIDE DEF q
  <2>2. Routed(q)
    BY <2>1, Zenon DEF Routed, Fits
  <2>3. Safe(w, q)
    BY <2>1, <2>2, ReadSafe, Zenon
  <2> QED
    BY <1>1, <2>3, Zenon DEF Signs, q
<1> QED
  BY <1>1, IdleSafe, Zenon DEF Signs

\* Nobody is making an account that is linked or that has a tenant.
LEMMA NotMade ==
    ASSUME IInv, NEW i \in Ids,
           accounts[i].tenant \in Tenants \/ \E l \in links : l.account = i
    PROVE  \A v \in Workers : req[v].step \in Making => i # req[v].acc.id
  BY StoreAssumption, Zenon DEF IInv, RequestGood, Informed, Unclaimed

\* Reading an account for a request.
LEMMA ReadFields ==
    ASSUME IInv, NEW w \in Workers, NEW i \in Ids, Exists(i)
    PROVE  LET r == [req[w] EXCEPT !.acc = Read(i)]
           IN  /\ r \in Requests /\ r.acc = Read(i) /\ r.acc.id = i
               /\ r.acc.tenant = accounts[i].tenant /\ r.acc.version = r.acc.seen
               /\ r.kind = req[w].kind /\ r.tenant = req[w].tenant /\ r.email = req[w].email
<1>1. TypeOK /\ req[w] \in Requests
  BY Zenon DEF IInv, TypeOK
<1>2. Read(i) \in Reads /\ Read(i).id = i /\ Read(i).tenant = accounts[i].tenant
      /\ Read(i).version = Read(i).seen
  BY <1>1, ReadType DEF IInv, StoreGood
<1> QED
  BY <1>1, <1>2, Zenon DEF Requests

\* Login by password, and the reads of the two kinds of callback.
LEMMA LoginReads ==
    ASSUME IInv, NEW w \in Workers, find(w) \/ recall(w) \/ consume(w) \/ load(w), SideOK'
    PROVE  IInv'
<1> USE DEF At
<1>t. /\ req[w] \in Requests /\ RequestGood(req[w]) /\ req[w].kind \in Kinds
      /\ req[w].tenant \in Tenants /\ req[w].email \in Emails
  BY Named, Zenon DEF find, recall, consume, load
<1>u. UNCHANGED <<store, deployment, tokens, ended, founder>>
  BY Zenon DEF find, recall, consume, load, rest, history
<1>1. CASE find(w)
  <2>1. ASSUME NEW i \in AccountsIn(req[w].tenant),
               Become(w, Signs([req[w] EXCEPT !.acc = Read(i)]))
        PROVE  IInv'
    <3> DEFINE r == [req[w] EXCEPT !.acc = Read(i)]
    <3>1. i \in Ids /\ Exists(i) /\ accounts[i].tenant = req[w].tenant
      BY Zenon DEF AccountsIn
    <3>2. /\ r \in Requests /\ r.acc.id = i /\ r.acc.tenant = accounts[i].tenant
          /\ r.acc.version = r.acc.seen /\ r.tenant = req[w].tenant /\ r.email = req[w].email
      BY <3>1, ReadFields, Zenon
    <3>3. \A v \in Workers : req[v].step \in Making => i # req[v].acc.id
      BY <1>t, <3>1, NotMade, Zenon
    <3>4. Become(w, Signs(r))
      BY <2>1, Zenon
    <3> HIDE DEF r
    <3>5. Safe(w, Signs(r))
      BY <1>t, <3>1, <3>2, <3>3, SignsSafe, Zenon
    <3> QED
      BY <1>u, <3>4, <3>5, MoveKeeps, Zenon
  <2> QED
    BY <1>1, <1>u, <2>1, DoneKeeps, Zenon DEF find
<1>2. CASE recall(w)
  <2>1. "consume" \in Plain /\ Fits("consume", req[w])
    BY <1>2, <1>t, Zenon DEF recall, RequestGood, Routed, Fits, Plain, Steps
  <2> QED
    BY <1>2, <1>u, <2>1, GoKeeps, DoneKeeps, Zenon DEF recall
<1>3. CASE consume(w)
  <2>1. "load" \in Plain /\ Fits("load", req[w])
    BY <1>3, <1>t, Zenon DEF consume, RequestGood, Routed, Fits, Plain, Steps
  <2> QED
    BY <1>3, <1>u, <2>1, GoKeeps, DoneKeeps, Zenon DEF consume, Use
<1>4. CASE load(w)
  <2>k. req[w].kind \in {"oauth", "saml"} /\ req[w].step = "load"
    BY <1>4, <1>t, Zenon DEF load, RequestGood, Routed, Fits
  <2>1. ASSUME NEW i \in Linked(Provider[req[w].kind], req[w].email),
               Become(w, IF req[w].kind = "oauth" THEN Member([req[w] EXCEPT !.acc = Read(i)])
                         ELSE Signs([req[w] EXCEPT !.acc = Read(i)]))
        PROVE  IInv'
    <3> DEFINE r == [req[w] EXCEPT !.acc = Read(i)]
    <3>1. i \in Ids /\ Link(Provider[req[w].kind], req[w].email, i) \in links
      BY Zenon DEF Linked
    <3>2. PICK l \in links : l.account = i /\ l.provider = Provider[req[w].kind]
      BY <3>1, Zenon DEF Link
    <3>3. Exists(i) /\ (req[w].kind = "saml" => accounts[i].tenant \in Tenants)
      BY <3>2 DEF IInv, StoreGood, Provider
    <3>4. /\ r \in Requests /\ r.acc.id = i /\ r.acc.tenant = accounts[i].tenant
          /\ r.acc.version = r.acc.seen /\ r.tenant = req[w].tenant /\ r.email = req[w].email
          /\ r.kind = req[w].kind
      BY <3>1, <3>3, ReadFields, Zenon
    <3>5. \A v \in Workers : req[v].step \in Making => i # req[v].acc.id
      BY <3>1, <3>2, NotMade, Zenon
    <3>6. Become(w, IF req[w].kind = "oauth" THEN Member(r) ELSE Signs(r))
      BY <2>1, Zenon
    <3> HIDE DEF r
    <3>7. accounts[i].tenant \in Tenants => Safe(w, Signs(r))
      BY <1>t, <3>1, <3>3, <3>4, <3>5, SignsSafe, Zenon
    <3>8. CASE req[w].kind = "saml"
      BY <1>u, <3>3, <3>6, <3>7, <3>8, MoveKeeps, Zenon
    <3>9. CASE req[w].kind = "oauth"
      <4> DEFINE q == [r EXCEPT !.step = "adopt"]
      <4>0. "adopt" \in Steps
        BY Zenon DEF Steps
      <4>1. q \in Requests /\ q.step = "adopt" /\ q.kind = r.kind /\ q.acc = r.acc
            /\ q.tenant = r.tenant /\ q.email = r.email
        BY <3>4, <4>0, StepOf, Zenon
      <4> HIDE DEF q
      <4>2. Routed(q)
        BY <1>t, <3>4, <3>9, <4>1, Zenon DEF Routed, Fits
      <4>3. Safe(w, q)
        BY <3>1, <3>3, <3>4, <3>5, <4>1, <4>2, ReadSafe, Zenon
      <4>4. Member(r) = Idle \/ Member(r) = q
            \/ (accounts[i].tenant \in Tenants /\ Member(r) = Signs(r))
        BY <1>t, <3>4 DEF Member, q
      <4>5. Safe(w, Member(r))
        BY <3>7, <4>3, <4>4, IdleSafe, Zenon
      <4> QED
        BY <1>u, <3>6, <3>9, <4>5, MoveKeeps, Zenon
    <3> QED
      BY <2>k, <3>8, <3>9, Zenon
  <2>2. ASSUME Go(w, "enroll") PROVE IInv'
    <3>1. "enroll" \in Plain /\ Fits("enroll", req[w])
      BY <2>k, <1>t, Zenon DEF Fits, Plain, Steps
    <3> QED
      BY <1>u, <2>2, <3>1, GoKeeps, Zenon
  <2> QED
    BY <1>4, <2>1, <2>2, Zenon DEF load
<1> QED
  BY <1>1, <1>2, <1>3, <1>4, Zenon

\* A SAML response arrives, a SAML account counts the others, a service account
\* presents its key.
LEMMA ArrivalsKeep ==
    ASSUME IInv, NEW w \in Workers,
           SAMLResponse(w) \/ others(w) \/ \E i \in MachineIds : ServiceLogin(w, i), SideOK'
    PROVE  IInv'
<1> USE DEF At
<1>u. UNCHANGED <<store, deployment, tokens, ended, founder>>
  BY Zenon DEF SAMLResponse, others, ServiceLogin, rest, history
<1>1. CASE SAMLResponse(w)
  <2>1. deployment.emails \subseteq Emails /\ deployment.idpTenant \in Tenants
    BY DeploymentsAssumption, Zenon DEF IInv, TypeOK
  <2>2. PICK e \in deployment.emails, a \in Attempts :
            Become(w, [Idle EXCEPT !.step = "recall", !.kind = "saml", !.email = e,
                                   !.attempt = a, !.tenant = deployment.idpTenant])
    BY <1>1, Zenon DEF SAMLResponse
  <2> DEFINE t == deployment.idpTenant
             r == [Idle EXCEPT !.step = "recall", !.kind = "saml", !.email = e,
                               !.attempt = a, !.tenant = t]
  <2>3. "recall" \in Steps /\ "recall" \in Plain /\ "saml" \in Kinds /\ t \in Homed /\ e \in Emails
        /\ t \in Tenants
    BY <2>1, Zenon DEF Steps, Plain, Kinds, Homed
  <2>4. Become(w, r)
    BY <2>2, Zenon
  <2> HIDE DEF t
  <2>5. r \in Requests
    BY <2>3, IdleType, Zenon DEF Requests
  <2>6. r.step = "recall" /\ r.kind = "saml" /\ r.email = e /\ r.acc = NoAccount /\ r.tenant = t
    BY Zenon DEF Idle
  <2> HIDE DEF r
  <2>7. Routed(r)
    BY <2>3, <2>6, Zenon DEF Routed, Fits
  <2> QED
    BY <1>u, <2>3, <2>4, <2>5, <2>6, <2>7, NewSafe, MoveKeeps, Zenon
<1>2. CASE others(w)
  <2>t. /\ req[w] \in Requests /\ RequestGood(req[w]) /\ req[w].kind = "saml"
        /\ req[w].tenant \in Tenants /\ req[w].email \in Emails /\ req[w].step = "others"
    BY <1>2, Named, Zenon DEF others, RequestGood, Routed, Fits
  <2> DEFINE role == IF AccountsIn(req[w].tenant) \ {req[w].acc.id} = {}
                     THEN "owner" ELSE "member"
             q == [req[w] EXCEPT !.role = role]
             s == IF q.role = "owner" THEN "seed" ELSE "assign"
             r == [q EXCEPT !.step = s]
  <2>1. Become(w, r)
    BY <1>2, Zenon DEF others, Rank
  <2>2. role \in {"owner", "member"}
    BY Zenon
  <2> HIDE DEF role
  <2>3. q \in Requests /\ q.role = role /\ q.kind = "saml" /\ q.acc = req[w].acc
        /\ q.tenant = req[w].tenant /\ q.email = req[w].email
    BY <2>t, <2>2, Zenon DEF Requests
  <2> HIDE DEF q
  <2>4. s \in {"seed", "assign"} /\ s \in Steps
    BY Zenon DEF Steps
  <2> HIDE DEF s
  <2>5. r \in Requests /\ r.role = role /\ r.kind = "saml" /\ r.acc = req[w].acc
        /\ r.tenant = req[w].tenant /\ r.email = req[w].email /\ r.step = s
    BY <2>3, <2>4, StepOf, Zenon
  <2> HIDE DEF r
  <2>6. Routed(r)
    BY <2>t, <2>4, <2>5, Zenon DEF Routed, Fits
  <2>7. Informed(r)
    BY <2>t, <2>4, <2>5, Zenon DEF RequestGood, Informed, Making
  <2>8. Ranked(r)
    BY <2>t, <2>2, <2>4, <2>5, Zenon DEF RequestGood, Ranked
  <2>9. \A v \in Workers \ {w} : req[v].step \in Making => req[w].acc.id # req[v].acc.id
    BY Zenon DEF IInv, Exclusive
  <2>10. Safe(w, r)
    BY <2>4, <2>5, <2>6, <2>7, <2>8, <2>9, Zenon DEF Safe, RequestGood, Making
  <2> QED
    BY <1>u, <2>1, <2>10, MoveKeeps, Zenon
<1>3. ASSUME NEW i \in MachineIds, ServiceLogin(w, i) PROVE IInv'
  <2> DEFINE acc == Created(i, machines[i].tenant)
             r == [Idle EXCEPT !.step = "sign", !.kind = "service", !.acc = acc]
  <2>1. Become(w, r) /\ machines[i].status = "active"
    BY <1>3, Zenon DEF ServiceLogin, FindIdentityByAPIKeyHash
  <2>2. machines[i].tenant \in Tenants
    BY <2>1, Zenon DEF IInv, StoreGood
  <2>3. i \in AllIds /\ i \notin Ids /\ i # NoId /\ machines[i].tenant \in Homed
    BY <2>2, StoreAssumption DEF AllIds, Ids, MachineIds, NoId, Homed
  <2>4. acc \in Reads /\ acc.id = i /\ acc.tenant \in Tenants /\ acc.version = acc.seen
    BY <2>2, <2>3, CreatedType
  <2> HIDE DEF acc
  <2>5. "sign" \in Steps
    BY Zenon DEF Steps
  <2>6. r \in Requests
    BY <2>4, <2>5, IdleType, Zenon DEF Requests
  <2>7. r.step = "sign" /\ r.kind = "service" /\ r.acc = acc
    BY Zenon DEF Idle
  <2> HIDE DEF r
  <2>8. Routed(r)
    BY <2>7, Zenon DEF Routed, Fits, Kinds
  <2>9. Informed(r)
    BY <2>3, <2>4, <2>7, Zenon DEF Informed, Making
  <2>10. Ranked(r)
    BY <2>7, Zenon DEF Ranked
  <2>11. \A v \in Workers : req[v].step \in Making => req[v].acc.id \in Ids
    BY Zenon DEF IInv, RequestGood, Informed, Unclaimed
  <2>12. Safe(w, r)
    BY <2>3, <2>4, <2>6, <2>7, <2>8, <2>9, <2>10, <2>11, Zenon DEF Safe, RequestGood, Making
  <2> QED
    BY <1>u, <2>1, <2>12, MoveKeeps, Zenon
<1> QED
  BY <1>1, <1>2, <1>3, Zenon

\* The checks in front of an authenticated operation.
LEMMA CallReads ==
    ASSUME IInv, NEW w \in Workers, Request(w) \/ validate(w) \/ permit(w) \/ own(w), SideOK'
    PROVE  IInv'
<1> USE DEF At
<1>t. req[w] \in Requests /\ Routed(req[w]) /\ tokens \subseteq Tokens
  BY Zenon DEF IInv, TypeOK, RequestGood
<1>u. UNCHANGED <<store, deployment, tokens, ended, founder>>
  BY Zenon DEF Request, Present, validate, permit, own, rest, history
<1>1. CASE Request(w)
  <2>1. deployment.targets \subseteq Ids \union MachineIds /\ deployment.roles \subseteq RoleNames
    BY DeploymentsAssumption, Zenon DEF IInv, TypeOK
  <2>2. ASSUME NEW tok \in tokens, NEW op \in Ops, Present(w, tok, op) PROVE IInv'
    <3> DEFINE r == [Idle EXCEPT !.step = "validate", !.kind = "call", !.tok = tok, !.op = op]
    <3>1. Become(w, r)
      BY <2>2, Zenon DEF Present
    <3>2. "validate" \in Steps /\ "validate" \in Plain /\ tok \in Tokens
      BY <1>t, Zenon DEF Steps, Plain
    <3>3. r \in Requests
      BY <3>2, IdleType, Zenon DEF Requests
    <3>4. r.step = "validate" /\ r.kind = "call" /\ r.acc = NoAccount /\ r.tok = tok
      BY Zenon DEF Idle
    <3> HIDE DEF r
    <3>5. Routed(r)
      BY <3>4, Zenon DEF Routed, Fits, Kinds
    <3> QED
      BY <1>u, <3>1, <3>2, <3>3, <3>4, <3>5, NewSafe, MoveKeeps, Zenon
  <2>3. /\ \A name \in OpNames \ OnRoles, i \in AllIds : Op(name, i, "none") \in Ops
        /\ \A name \in OnRoles, i \in Ids \union MachineIds, role \in RoleNames :
                Op(name, i, role) \in Ops
    BY Zenon DEF Op, Ops
  <2>4. /\ OnAccounts \union OnSelf \subseteq OpNames \ OnRoles
        /\ {"createMachine", "revokeMachine"} \subseteq OpNames \ OnRoles
    BY Zenon DEF OpNames, OnAccounts, OnSelf, OnRoles, OnMachines
  <2>5. NoId \in AllIds /\ deployment.targets \subseteq AllIds /\ MachineIds \subseteq AllIds
        /\ \A tok \in tokens : tok.sub \in AllIds
    BY <1>t, <2>1, Zenon DEF AllIds, Tokens
  <2>6. PICK tok \in tokens, op \in Ops : Present(w, tok, op)
    <3>1. PICK tok \in tokens, name \in deployment.calls :
        \/ /\ name \in OnAccounts
           /\ \E i \in deployment.targets : Present(w, tok, Op(name, i, "none"))
        \/ name \in OnSelf /\ Present(w, tok, Op(name, tok.sub, "none"))
        \/ /\ name \in OnRoles
           /\ \E i \in deployment.targets, role \in deployment.roles :
                Present(w, tok, Op(name, i, role))
        \/ name = "createMachine" /\ Present(w, tok, Op(name, NoId, "none"))
        \/ name = "revokeMachine" /\ \E i \in MachineIds : Present(w, tok, Op(name, i, "none"))
      BY <1>1, Zenon DEF Request
    <3> QED
      BY <2>1, <2>3, <2>4, <2>5, <3>1, Zenon
  <2> QED
    BY <2>2, <2>6, Zenon
<1>2. ASSUME NEW s \in {"permit", "own", "act", "write"}, Go(w, s),
             req[w].step \in {"validate", "permit", "own"}
      PROVE  IInv'
  <2>1. s \in Plain /\ Fits(s, req[w])
    BY <1>2, <1>t, Zenon DEF Plain, Steps, Routed, Fits
  <2> QED
    BY <1>2, <1>u, <2>1, GoKeeps, Zenon
<1>3. CASE validate(w)
  BY <1>2, <1>3, <1>u, DoneKeeps, Zenon DEF validate
<1>4. CASE permit(w)
  BY <1>2, <1>4, <1>u, DoneKeeps, Zenon DEF permit, Handler
<1>5. CASE own(w)
  BY <1>2, <1>5, <1>u, DoneKeeps, Zenon DEF own
<1> QED
  BY <1>1, <1>3, <1>4, <1>5, Zenon

-----------------------------------------------------------------------------
(* Steps that write.                                                         *)

\* The tables a request is not about, by what the invariant says of them.
TablesOK ==
    /\ machines \in [MachineIds -> [tenant : Tenants \union {NoTenant},
                                    status : {"none", "active", "revoked"}]]
    /\ \A i \in MachineIds : machines[i].status # "none" => machines[i].tenant \in Tenants
    /\ held \subseteq [tenant : Tenants, identity : Ids \union MachineIds, role : RoleNames]
    /\ defined \in [Tenants -> SUBSET RoleNames]

\* A good request stays good when rows stay, no founder is forgotten, and nobody else
\* becomes the founder that is entering.
LEMMA GoodKeeps ==
    ASSUME NEW q, RequestGood(q), tokens \subseteq tokens',
           q.acc.id \in Ids /\ Exists(q.acc.id) => Exists(q.acc.id)',
           q.step \in Making => Unclaimed(q.acc.id)',
           \A t \in Tenants : founder[t].how # "none" => founder'[t].how # "none",
           \A t \in Tenants : Entering(t, q.acc.id)' => Entering(t, q.acc.id)
    PROVE  RequestGood(q)'
<1>1. Routed(q)'
  BY Zenon DEF RequestGood, Routed, Fits
<1>2. Informed(q)'
  BY Zenon DEF RequestGood, Informed
<1>3. Ranked(q)'
  <2>1. q.step \in {"submit", "stamp"} => q.tenant \in Tenants
    BY Zenon DEF RequestGood, Routed, Fits, Kinds
  <2> QED
    BY <2>1, Zenon DEF RequestGood, Ranked
<1> QED
  BY <1>1, <1>2, <1>3, Zenon DEF RequestGood

\* Only a request that is safe where it is keeps the others exclusive.
LEMMA ExclusiveKeeps ==
    ASSUME IInv, NEW w \in Workers, NEW r, Become(w, r),
           \A v \in Workers \ {w} : req[v].step \in Making \/ r.step \in Making =>
                r.acc.id # req[v].acc.id
    PROVE  Exclusive'
<1>1. req \in [Workers -> Requests]
  BY Zenon DEF IInv, TypeOK
<1> QED
  BY <1>1, Zenon DEF IInv, Exclusive, Become

\* The parts of the invariant after a step, put together.
LEMMA Assemble ==
    ASSUME IInv, NEW w \in Workers, NEW r \in Requests, Become(w, r),
           UNCHANGED deployment, SideOK', TablesOK', accounts' \in [Ids -> Rows],
           links' \subseteq [provider : {"oidc", "saml"}, sub : Emails, account : Ids],
           tokens' \subseteq Tokens, ended' \in [Ids -> 0..MaxEndings],
           founder' \in [Tenants -> [id : {NoId} \union Ids,
                               how : {"none", "entering", "owner", "member", "other", "lost"}]],
           RequestGood(r)', \A v \in Workers \ {w} : RequestGood(req[v])',
           Exclusive', StoreGood', FounderGood'
    PROVE  IInv'
<1>1. req \in [Workers -> Requests]
  BY Zenon DEF IInv, TypeOK
<1>2. TypeOK'
  BY <1>1, Zenon DEF IInv, TypeOK, SideOK, TablesOK, StoreTypeOK, Become
<1>3. (\A v \in Workers : RequestGood(req[v]))'
  BY <1>1, Zenon DEF Become
<1> QED
  BY <1>2, <1>3, Zenon DEF IInv

\* The founder's registration ends: what is said of founders and requests stays true.
LEMMA BecomesKeeps ==
    ASSUME IInv, NEW w \in Workers, NEW how \in {"owner", "member", "lost"},
           Becomes(req[w].acc.id, how),
           how = "member" => \A t \in Tenants : ~ Entering(t, req[w].acc.id),
           UNCHANGED accounts
    PROVE  /\ founder' \in [Tenants -> [id : {NoId} \union Ids,
                               how : {"none", "entering", "owner", "member", "other", "lost"}]]
           /\ FounderGood'
           /\ \A t \in Tenants : founder[t].how # "none" => founder'[t].how # "none"
           /\ \A t \in Tenants : \A i : Entering(t, i)' => Entering(t, i)
<1> DEFINE i == req[w].acc.id
<1>1. \A t \in Tenants : founder[t] \in [id : {NoId} \union Ids,
                               how : {"none", "entering", "owner", "member", "other", "lost"}]
  BY Zenon DEF IInv, TypeOK
<1>2. \A t \in Tenants : Entering(t, i) => i \in Ids
  BY Zenon DEF IInv, FounderGood, Entering
<1>3. \A t \in Tenants : founder'[t] = IF Entering(t, i) THEN Founder(i, how) ELSE founder[t]
  BY Zenon DEF Becomes
<1>4. Founder(i, how).id = i /\ Founder(i, how).how = how
  BY Zenon DEF Founder
<1>5. founder' = [t \in Tenants |-> founder'[t]]
  BY Zenon DEF Becomes
<1> HIDE DEF i
<1>6. \A t \in Tenants : founder'[t] \in [id : {NoId} \union Ids,
                               how : {"none", "entering", "owner", "member", "other", "lost"}]
  BY <1>1, <1>2, <1>3 DEF Founder
<1>7. \A t \in Tenants : founder[t].how # "none" => founder'[t].how # "none"
  BY <1>3, <1>4, Zenon
<1>8. \A t \in Tenants : \A j : Entering(t, j)' => Entering(t, j)
  BY <1>3, <1>4, Zenon DEF Entering
<1>9. \A t \in Tenants : founder'[t].how # "member"
  BY <1>3, <1>4, Zenon DEF IInv, FounderGood, i
<1>10. \A t \in Tenants : founder'[t].how = "none" => founder[t].how = "none"
  BY <1>3, <1>4, Zenon
<1>11. \A t \in Tenants : founder'[t].how = "entering" =>
            founder[t].how = "entering" /\ founder'[t].id = founder[t].id
  BY <1>3, <1>4, Zenon
<1>12. FounderGood'
  BY <1>9, <1>10, <1>11, Zenon DEF IInv, FounderGood, AccountsIn, Exists
<1> QED
  BY <1>5, <1>6, <1>7, <1>8, <1>12, Zenon

\* The tables are as the invariant says.
LEMMA TablesNow == ASSUME IInv PROVE TablesOK
  BY Zenon DEF IInv, TypeOK, StoreTypeOK, StoreGood, TablesOK

\* A step that leaves accounts and links alone, and moves one request to a good place.
LEMMA RowsStay ==
    ASSUME IInv, NEW w \in Workers, NEW r \in Requests, Become(w, r),
           UNCHANGED <<accounts, links, deployment, ended>>, SideOK', TablesOK',
           r.step \notin Making, r = Idle \/ r.acc = req[w].acc,
           tokens \subseteq tokens', tokens' \subseteq Tokens,
           \A tok \in tokens' \ tokens :
                /\ tok.version = tok.seen
                /\ tok.sub \in Ids => Exists(tok.sub)
                /\ \A v \in Workers \ {w} : req[v].step \in Making => tok.sub # req[v].acc.id,
           founder' \in [Tenants -> [id : {NoId} \union Ids,
                               how : {"none", "entering", "owner", "member", "other", "lost"}]],
           FounderGood',
           \A t \in Tenants : founder[t].how # "none" => founder'[t].how # "none",
           \A t \in Tenants : \A i : Entering(t, i)' => Entering(t, i),
           RequestGood(r)'
    PROVE  IInv'
<1>1. \A i : Exists(i) <=> Exists(i)'
  BY Zenon DEF Exists
<1>2. ASSUME NEW v \in Workers \ {w} PROVE RequestGood(req[v])'
  <2>0. PICK q : q = req[v]
    BY Zenon
  <2>1. RequestGood(q) /\ q = req'[v]
    <3>1. req \in [Workers -> Requests] /\ \A u \in Workers : RequestGood(req[u])
      BY Zenon DEF IInv, TypeOK
    <3> QED
      BY <2>0, <3>1, Zenon DEF Become
  <2>2. ASSUME q.step \in Making PROVE Unclaimed(q.acc.id)'
    <3>1. Unclaimed(q.acc.id)
      BY <2>1, <2>2, Zenon DEF RequestGood, Informed
    <3>2. \A tok \in tokens' : tok.sub # q.acc.id
      BY <2>0, <2>2, <3>1, Zenon DEF Unclaimed
    <3> QED
      BY <1>1, <3>1, <3>2, Zenon DEF Unclaimed
  <2>3. RequestGood(q)'
    BY <1>1, <2>1, <2>2, GoodKeeps, Zenon
  <2> QED
    BY <2>1, <2>3, Zenon
<1>3. \A v \in Workers \ {w} : req[v].step \in Making => r.acc.id # req[v].acc.id
  <2>1. CASE r = Idle
    BY <2>1, IdleSafe, Zenon DEF Safe
  <2> QED
    BY <2>1, Zenon DEF IInv, Exclusive
<1>4. Exclusive'
  BY <1>3, ExclusiveKeeps, Zenon
<1>5. StoreGood'
  BY <1>1, Zenon DEF IInv, StoreGood, TablesOK
<1>6. accounts' \in [Ids -> Rows] /\ ended' \in [Ids -> 0..MaxEndings]
      /\ links' \subseteq [provider : {"oidc", "saml"}, sub : Emails, account : Ids]
  BY Zenon DEF IInv, TypeOK, StoreTypeOK
<1> QED
  BY <1>2, <1>4, <1>5, <1>6, Assemble, Zenon

\* A request at rest is good in any state.
LEMMA IdleGood == Idle \in Requests /\ RequestGood(Idle)' /\ Idle.step \notin Making
<1>1. Idle.step = "idle" /\ Idle.kind = "none" /\ Idle.acc = NoAccount
  BY Zenon DEF Idle
<1>2. NoAccount.id \notin Ids /\ NoAccount.version = NoAccount.seen
  BY StoreAssumption DEF NoAccount, Created, NoId, Ids
<1>3. RequestGood(Idle)'
  BY <1>1, <1>2, Zenon DEF RequestGood, Routed, Fits, Informed, Ranked, Making, Kinds
<1> QED
  BY <1>1, <1>3, IdleType, Zenon DEF Making

\* Seeding the roles.
LEMMA SeedKeeps ==
    ASSUME IInv, NEW w \in Workers, seed(w), SideOK'
    PROVE  IInv'
<1>t. req[w] \in Requests /\ RequestGood(req[w]) /\ req[w].step = "seed"
  BY Zenon DEF IInv, TypeOK, seed, At
<1>1. UNCHANGED <<accounts, links, machines, held, deployment, tokens, ended, founder>>
  BY Zenon DEF seed, rest, history
<1>2. defined' \in [Tenants -> SUBSET RoleNames]
  <2>1. PICK n \in 0..Len(Catalog) :
            defined' = [defined EXCEPT ![req[w].tenant] = @ \union {Catalog[k] : k \in 1..n}]
    BY Zenon DEF seed, SeedDefaultRoles
  <2>2. {Catalog[k] : k \in 1..n} \subseteq RoleNames
    BY DEF RoleNames, Catalog
  <2>3. defined \in [Tenants -> SUBSET RoleNames]
    BY Zenon DEF IInv, TypeOK, StoreTypeOK
  <2> QED
    BY <2>1, <2>2, <2>3, Zenon
<1>3. TablesOK'
  BY <1>1, <1>2, TablesNow, Zenon DEF TablesOK
<1>r. PICK r : r = [req[w] EXCEPT !.step = "assign"]
  BY Zenon
<1>4. Become(w, r) /\ "assign" \in Steps
  BY <1>r, Zenon DEF seed, Go, Steps
<1>5. r \in Requests /\ r.step = "assign" /\ r.kind = req[w].kind /\ r.acc = req[w].acc
      /\ r.tenant = req[w].tenant /\ r.email = req[w].email /\ r.role = req[w].role
  BY <1>t, <1>r, <1>4, StepOf, Zenon
<1>6. RequestGood(r)'
  BY <1>t, <1>1, <1>5, Zenon DEF RequestGood, Routed, Fits, Informed, Ranked, Making, Exists, Entering
<1>7. FounderGood' /\ \A t \in Tenants : \A i : Entering(t, i)' => Entering(t, i)
  BY <1>1, Zenon DEF IInv, FounderGood, AccountsIn, Exists, Entering
<1>8. r.step \notin Making /\ tokens' \subseteq Tokens
      /\ founder' \in [Tenants -> [id : {NoId} \union Ids,
                               how : {"none", "entering", "owner", "member", "other", "lost"}]]
  BY <1>1, <1>5, Zenon DEF Making, IInv, TypeOK
<1> QED
  BY <1>1, <1>3, <1>4, <1>5, <1>6, <1>7, <1>8, RowsStay, Zenon

\* Assigning the role of a new account, or failing to, or giving up before.
LEMMA AssignKeeps ==
    ASSUME IInv, NEW w \in Workers, SideOK',
           \/ assign(w) \/ assignFails(w)
           \/ Abandon(w) /\ req[w].step \in {"seed", "assign"}
    PROVE  IInv'
<1> USE DEF At
<1>t. req[w] \in Requests /\ RequestGood(req[w]) /\ req[w].step \in {"seed", "assign"}
  BY Zenon DEF IInv, TypeOK, assign, assignFails
<1>k. /\ req[w].kind \in {"register", "saml"} /\ req[w].tenant \in Tenants
      /\ req[w].email \in Emails /\ req[w].acc.id \in Ids /\ Exists(req[w].acc.id)
      /\ req[w].role \in {"owner", "member"} /\ req[w].acc.tenant \in Tenants
      /\ req[w].acc.version = req[w].acc.seen
      /\ req[w].role = "member" => \A t \in Tenants : ~ Entering(t, req[w].acc.id)
  BY <1>t, Zenon DEF RequestGood, Routed, Fits, Informed, Ranked, Kinds
<1>1. UNCHANGED <<accounts, links, machines, defined, deployment, tokens, ended>>
  BY Zenon DEF assign, assignFails, Abandon, rest, store
<1>2. TablesOK'
  <2>1. held' \subseteq held \union {Assignment(req[w].tenant, req[w].acc.id, req[w].role)}
    BY Zenon DEF assign, assignFails, Abandon, store, AssignRole
  <2>2. Assignment(req[w].tenant, req[w].acc.id, req[w].role) \in
            [tenant : Tenants, identity : Ids \union MachineIds, role : RoleNames]
    <3>1. "owner" \in RoleNames /\ "member" \in RoleNames
      BY DEF RoleNames, Catalog
    <3> QED
      BY <1>k, <3>1, Zenon DEF Assignment
  <2> QED
    BY <1>1, <2>1, <2>2, TablesNow, Zenon DEF TablesOK
<1>3. PICK how \in {"owner", "member", "lost"} :
            /\ Becomes(req[w].acc.id, how)
            /\ how = "member" => req[w].role = "member"
  BY <1>k, Zenon DEF assign, assignFails, Abandon
<1>4. /\ founder' \in [Tenants -> [id : {NoId} \union Ids,
                               how : {"none", "entering", "owner", "member", "other", "lost"}]]
      /\ FounderGood'
      /\ \A t \in Tenants : founder[t].how # "none" => founder'[t].how # "none"
      /\ \A t \in Tenants : \A i : Entering(t, i)' => Entering(t, i)
  BY <1>k, <1>1, <1>3, BecomesKeeps, Zenon
<1>5. tokens' \subseteq Tokens
  BY <1>1, Zenon DEF IInv, TypeOK
<1>6. CASE Become(w, Idle)
  BY <1>1, <1>2, <1>4, <1>5, <1>6, IdleGood, RowsStay, Zenon
<1>7. CASE Become(w, [req[w] EXCEPT !.step = "sign"])
  <2>r. PICK r : r = [req[w] EXCEPT !.step = "sign"]
    BY Zenon
  <2>1. "sign" \in Steps
    BY Zenon DEF Steps
  <2>2. r \in Requests /\ r.step = "sign" /\ r.kind = req[w].kind /\ r.acc = req[w].acc
        /\ r.tenant = req[w].tenant /\ r.email = req[w].email
    BY <1>t, <2>r, <2>1, StepOf
  <2>3. Become(w, r)
    BY <1>7, <2>r, Zenon
  <2>4. req[w].acc.id # NoId /\ r.step \notin Making
    BY <1>k, <2>2, StoreAssumption DEF Ids, NoId, Making
  <2>5. Routed(r)' /\ Ranked(r)'
    BY <1>k, <2>2, Zenon DEF Routed, Fits, Ranked
  <2>6. Informed(r)'
    BY <1>k, <1>1, <2>2, <2>4, Zenon DEF Informed, Making, Exists
  <2> QED
    BY <1>1, <1>2, <1>4, <1>5, <2>2, <2>3, <2>4, <2>5, <2>6, RowsStay, Zenon DEF RequestGood
<1> QED
  BY <1>6, <1>7, Zenon DEF assign, assignFails, Abandon, Enrolled, Go, Done

\* Signing a token.
LEMMA SignKeeps ==
    ASSUME IInv, NEW w \in Workers, sign(w), SideOK'
    PROVE  IInv'
<1>t. req[w] \in Requests /\ RequestGood(req[w]) /\ req[w].step = "sign"
  BY Zenon DEF IInv, TypeOK, sign, At
<1>k. /\ req[w].acc \in Reads /\ req[w].acc.tenant \in Tenants /\ req[w].acc.id # NoId
      /\ req[w].acc.version = req[w].acc.seen
      /\ req[w].acc.id \in Ids => Exists(req[w].acc.id)
  BY <1>t, Zenon DEF Requests, RequestGood, Informed
<1> DEFINE tok == Token(req[w].acc)
<1>1. tok \in Tokens /\ tok.version = tok.seen /\ tok.sub = req[w].acc.id
  BY <1>k, Zenon DEF Token, Tokens, Reads, AllIds
<1>2. tokens' = tokens \union {tok} /\ Become(w, Idle)
  BY Zenon DEF sign, Done
<1> HIDE DEF tok
<1>3. UNCHANGED <<accounts, links, machines, held, defined, deployment, ended, founder>>
  BY Zenon DEF sign, store, history
<1>4. \A v \in Workers \ {w} : req[v].step \in Making => tok.sub # req[v].acc.id
  BY <1>1, Zenon DEF IInv, Exclusive
<1>5. TablesOK'
  BY <1>3, TablesNow, Zenon DEF TablesOK
<1>6. FounderGood' /\ \A t \in Tenants : \A i : Entering(t, i)' => Entering(t, i)
  BY <1>3, Zenon DEF IInv, FounderGood, AccountsIn, Exists, Entering
<1>7. tokens' \subseteq Tokens /\ tokens \subseteq tokens'
      /\ founder' \in [Tenants -> [id : {NoId} \union Ids,
                               how : {"none", "entering", "owner", "member", "other", "lost"}]]
  BY <1>1, <1>2, <1>3, Zenon DEF IInv, TypeOK
<1>8. \A k \in tokens' \ tokens :
            /\ k.version = k.seen
            /\ k.sub \in Ids => Exists(k.sub)
            /\ \A v \in Workers \ {w} : req[v].step \in Making => k.sub # req[v].acc.id
  BY <1>k, <1>1, <1>2, <1>4, Zenon
<1> QED
  BY <1>2, <1>3, <1>5, <1>6, <1>7, <1>8, IdleGood, RowsStay, Zenon

\* Roles and service accounts.
LEMMA ActKeeps ==
    ASSUME IInv, NEW w \in Workers, act(w), SideOK'
    PROVE  IInv'
<1>t. req[w] \in Requests /\ RequestGood(req[w]) /\ req[w].step = "act"
  BY Zenon DEF IInv, TypeOK, act, At
<1> DEFINE t == req[w].tok.tenant
           op == req[w].op
<1>k. t \in Tenants /\ op \in Ops
  <2>1. req[w].tok \in Tokens
    BY <1>t, Zenon DEF RequestGood, Routed, Fits, IInv, TypeOK
  <2> QED
    BY <1>t, <2>1, Zenon DEF Tokens, Requests
<1>1. UNCHANGED <<accounts, links, defined, deployment, tokens, ended, founder>>
  BY Zenon DEF act, rest, history
<1>2. Become(w, Idle)
  BY Zenon DEF act, Done
<1>m. /\ machines \in [MachineIds -> [tenant : Tenants \union {NoTenant},
                                      status : {"none", "active", "revoked"}]]
      /\ \A i \in MachineIds : machines[i].status # "none" => machines[i].tenant \in Tenants
      /\ held \subseteq [tenant : Tenants, identity : Ids \union MachineIds, role : RoleNames]
      /\ defined \in [Tenants -> SUBSET RoleNames]
  BY TablesNow, Zenon DEF TablesOK
<1>3. TablesOK'
  <2>1. CASE op.name = "assignRole" /\ AssignRole(t, op.target, op.role) /\ UNCHANGED machines
    <3>1. Assignment(t, op.target, op.role) \in
            [tenant : Tenants, identity : Ids \union MachineIds, role : RoleNames]
      BY <1>k, <2>1, Zenon DEF Assignment, Ops, OnRoles
    <3> QED
      BY <1>m, <1>1, <2>1, <3>1, Zenon DEF TablesOK, AssignRole
  <2>2. CASE op.name = "revokeRole" /\ RevokeRole(t, op.target, op.role) /\ UNCHANGED machines
    BY <1>m, <1>1, <2>2, Zenon DEF TablesOK, RevokeRole
  <2>3. CASE op.name = "createMachine" /\ CreateServiceAccount(t) /\ UNCHANGED held
    <3>1. Machine(t, "active") \in [tenant : Tenants \union {NoTenant},
                                    status : {"none", "active", "revoked"}]
          /\ Machine(t, "active").tenant \in Tenants
      BY <1>k, Zenon DEF Machine
    <3> HIDE DEF t
    <3> QED
      BY <1>m, <1>1, <2>3, <3>1 DEF TablesOK, CreateServiceAccount
  <2>4. CASE op.name = "revokeMachine" /\ RevokeServiceAccount(t, op.target) /\ UNCHANGED held
    <3> HIDE DEF t, op
    <3> QED
      BY <1>k, <1>m, <1>1, <2>4, Zenon DEF TablesOK, RevokeServiceAccount
  <2> QED
    BY <2>1, <2>2, <2>3, <2>4, Zenon DEF act
<1>4. FounderGood' /\ \A u \in Tenants : \A i : Entering(u, i)' => Entering(u, i)
  BY <1>1, Zenon DEF IInv, FounderGood, AccountsIn, Exists, Entering
<1>5. tokens' \subseteq Tokens
      /\ founder' \in [Tenants -> [id : {NoId} \union Ids,
                               how : {"none", "entering", "owner", "member", "other", "lost"}]]
  BY <1>1, Zenon DEF IInv, TypeOK
<1> QED
  BY <1>1, <1>2, <1>3, <1>4, <1>5, IdleGood, RowsStay, Zenon

\* A step that writes the row of one account, and what the other requests know.
LEMMA OthersKeep ==
    ASSUME IInv, NEW w \in Workers, NEW r, Become(w, r), NEW i \in Ids,
           \A j \in Ids \ {i} : accounts'[j] = accounts[j] /\ ended'[j] = ended[j],
           UNCHANGED tokens,
           \A l \in links' : l \in links \/ l.account = i,
           \A v \in Workers \ {w} : req[v].step \in Making => req[v].acc.id # i,
           Exists(i)' \/ \A v \in Workers \ {w} : req[v].acc.id # i,
           \A t \in Tenants : founder[t].how # "none" => founder'[t].how # "none",
           \A t \in Tenants : \A j :
                Entering(t, j)' /\ (\E v \in Workers \ {w} : req[v].acc.id = j) => Entering(t, j)
    PROVE  \A v \in Workers \ {w} : RequestGood(req[v])'
<1> TAKE v \in Workers \ {w}
<1>0. PICK q : q = req[v]
  BY Zenon
<1>1. RequestGood(q) /\ q = req'[v]
  <2>1. req \in [Workers -> Requests] /\ \A u \in Workers : RequestGood(req[u])
    BY Zenon DEF IInv, TypeOK
  <2> QED
    BY <1>0, <2>1, Zenon DEF Become
<1>2. \A j \in Ids \ {i} : Exists(j) => Exists(j)'
  BY Zenon DEF Exists
<1>3. q.acc.id \in Ids /\ Exists(q.acc.id) => Exists(q.acc.id)'
  BY <1>0, <1>2, Zenon
<1>4. ASSUME q.step \in Making PROVE Unclaimed(q.acc.id)'
  <2>1. Unclaimed(q.acc.id) /\ q.acc.id \in Ids /\ q.acc.id # i
    BY <1>0, <1>1, <1>4, Zenon DEF RequestGood, Informed, Unclaimed
  <2> QED
    BY <1>2, <2>1, Zenon DEF Unclaimed
<1>5. \A t \in Tenants : Entering(t, q.acc.id)' => Entering(t, q.acc.id)
  BY <1>0, Zenon
<1>6. RequestGood(q)'
  BY <1>1, <1>3, <1>4, <1>5, GoodKeeps, Zenon
<1> QED
  BY <1>1, <1>6, Zenon

\* Locking, unlocking, ending and erasing an account.
LEMMA WriteKeeps ==
    ASSUME IInv, NEW w \in Workers, write(w), SideOK'
    PROVE  IInv'
<1>t. req[w] \in Requests /\ RequestGood(req[w]) /\ req[w].step = "write"
  BY Zenon DEF IInv, TypeOK, write, At
<1> DEFINE t == req[w].tok.tenant
           i == req[w].op.target
           name == req[w].op.name
<1>k. t \in Tenants
  <2>1. req[w].tok \in Tokens
    BY <1>t, Zenon DEF RequestGood, Routed, Fits, IInv, TypeOK
  <2> QED
    BY <2>1, Zenon DEF Tokens
<1>i. i \in Ids /\ Exists(i) /\ accounts[i].tenant = t
  BY Zenon DEF write, Owns, AccountsIn
<1>1. UNCHANGED <<machines, defined, deployment, tokens, founder>>
  BY Zenon DEF write, rest
<1>2. Become(w, Idle)
  BY Zenon DEF write, Done
<1>a. /\ accounts \in [Ids -> Rows] /\ ended \in [Ids -> 0..MaxEndings] /\ MaxEndings \in Nat
      /\ accounts[i].version = ended[i]
  BY <1>i, StoreAssumption, Zenon DEF IInv, TypeOK, StoreTypeOK, StoreGood
<1>3. PICK row \in Rows, n \in 0..MaxEndings :
            /\ accounts' = [accounts EXCEPT ![i] = row] /\ ended' = [ended EXCEPT ![i] = n]
            /\ row.version = n /\ row.tenant = accounts[i].tenant /\ row.email # "none"
  <2>e. ASSUME Ending(name)
        PROVE  /\ ended[i] + 1 \in 0..MaxEndings /\ ended' = [ended EXCEPT ![i] = ended[i] + 1]
    BY <1>a, <1>i, <2>e DEF write
  <2>r. accounts[i] \in Rows /\ accounts[i].email # "none"
    BY <1>a, <1>i, Zenon DEF Exists
  <2>1. CASE name = "lock" /\ LockAccount(i)
    <3> DEFINE row == Ended([accounts[i] EXCEPT !.status = "locked"])
    <3>1. Ending(name)
      BY <2>1, Zenon DEF Ending
    <3>2. row \in Rows /\ row.version = ended[i] + 1 /\ row.tenant = accounts[i].tenant
          /\ row.email # "none"
      BY <1>a, <2>e, <2>r, <3>1, Zenon DEF Ended, Rows
    <3>3. accounts' = [accounts EXCEPT ![i] = row]
      BY <1>a, <1>i, <2>1, Zenon DEF LockAccount
    <3> HIDE DEF row, i, name
    <3> QED
      BY <2>e, <3>1, <3>2, <3>3, Zenon
  <2>2. CASE name = "revokeSessions" /\ RevokeAllSessions(i)
    <3> DEFINE row == Ended(accounts[i])
    <3>1. Ending(name)
      BY <2>2, Zenon DEF Ending
    <3>2. row \in Rows /\ row.version = ended[i] + 1 /\ row.tenant = accounts[i].tenant
          /\ row.email # "none"
      BY <1>a, <2>e, <2>r, <3>1, Zenon DEF Ended, Rows
    <3>3. accounts' = [accounts EXCEPT ![i] = row]
      BY <1>a, <1>i, <2>2, Zenon DEF RevokeAllSessions
    <3> HIDE DEF row, i, name
    <3> QED
      BY <2>e, <3>1, <3>2, <3>3, Zenon
  <2>3. CASE name \in {"delete", "deleteMe"} /\ DeleteAccount(t, i)
    <3> DEFINE row == Row(accounts[i].tenant, "erased", "none", "locked", accounts[i].version + 1)
    <3>1. Ending(name)
      BY <2>3, Zenon DEF Ending
    <3>2. row \in Rows /\ row.version = ended[i] + 1 /\ row.tenant = accounts[i].tenant
          /\ row.email # "none"
      BY <1>a, <2>e, <2>r, <3>1, Zenon DEF Row, Rows
    <3>3. accounts' = [accounts EXCEPT ![i] = row]
      BY <2>3, Zenon DEF DeleteAccount
    <3> HIDE DEF row, i, name
    <3> QED
      BY <2>e, <3>1, <3>2, <3>3, Zenon
  <2>4. CASE name = "unlock" /\ UnlockAccount(i)
    <3> DEFINE row == [accounts[i] EXCEPT !.status = "active"]
    <3>1. ended' = [ended EXCEPT ![i] = ended[i]]
      BY <1>a, <2>4, Zenon DEF write, Ending
    <3>2. row \in Rows /\ row.version = ended[i] /\ row.tenant = accounts[i].tenant
          /\ row.email # "none"
      BY <1>a, <2>r, Zenon DEF Rows
    <3>3. accounts' = [accounts EXCEPT ![i] = row] /\ ended[i] \in 0..MaxEndings
      BY <1>a, <1>i, <2>4, Zenon DEF UnlockAccount
    <3> HIDE DEF row, i, name
    <3> QED
      BY <3>1, <3>2, <3>3, Zenon
  <2> QED
    BY <2>1, <2>2, <2>3, <2>4, Zenon DEF write
<1>4. links' \subseteq links /\ held' \subseteq held
  BY Zenon DEF write, DeleteAccount, Unlink
<1>p. PICK k : k = i
  BY Zenon
<1>o. k \in Ids /\ Exists(k) /\ accounts[k].tenant \in Tenants
  BY <1>i, <1>k, <1>p, Zenon
<1>q. /\ accounts' = [accounts EXCEPT ![k] = row] /\ ended' = [ended EXCEPT ![k] = n]
      /\ row.version = n /\ row.tenant = accounts[k].tenant /\ row.email # "none"
  BY <1>3, <1>p, Zenon
<1> HIDE DEF i, t, name
<1>5. accounts' \in [Ids -> Rows] /\ ended' \in [Ids -> 0..MaxEndings]
  BY <1>a, <1>q, <1>o, Zenon
<1>6. /\ \A j \in Ids \ {k} : accounts'[j] = accounts[j] /\ ended'[j] = ended[j]
      /\ accounts'[k].version = ended'[k] /\ accounts'[k].tenant = accounts[k].tenant
      /\ Exists(k)'
  BY <1>a, <1>q, <1>o, Zenon DEF Exists
<1>7. \A j \in Ids : (Exists(j) <=> Exists(j)') /\ accounts'[j].tenant = accounts[j].tenant
  BY <1>6, <1>o, Zenon DEF Exists
<1>8. StoreGood'
  BY <1>1, <1>4, <1>6, <1>7 DEF IInv, StoreGood, TypeOK, StoreTypeOK
<1>9. FounderGood' /\ \A u \in Tenants : \A j : Entering(u, j)' => Entering(u, j)
  BY <1>1, <1>7 DEF IInv, FounderGood, AccountsIn, Entering
<1>10. \A v \in Workers \ {w} : req[v].step \in Making => req[v].acc.id # k
  BY <1>o, NotMade, Zenon
<1>11. \A v \in Workers \ {w} : RequestGood(req[v])'
  BY <1>1, <1>2, <1>4, <1>6, <1>9, <1>10, <1>o, OthersKeep, Zenon
<1>12. Exclusive'
  BY <1>2, IdleSafe, IdleGood, ExclusiveKeeps, Zenon DEF Safe
<1>13. TablesOK'
  BY <1>1, <1>4, TablesNow, Zenon DEF TablesOK
<1>14. /\ links' \subseteq [provider : {"oidc", "saml"}, sub : Emails, account : Ids]
       /\ tokens' \subseteq Tokens
       /\ founder' \in [Tenants -> [id : {NoId} \union Ids,
                               how : {"none", "entering", "owner", "member", "other", "lost"}]]
  BY <1>1, <1>4, Zenon DEF IInv, TypeOK, StoreTypeOK
<1> QED
  BY <1>1, <1>2, <1>5, <1>8, <1>9, <1>11, <1>12, <1>13, <1>14, IdleGood, Assemble, Zenon

\* A registration that could not be stamped deletes its row.
LEMMA UndoKeeps ==
    ASSUME IInv, NEW w \in Workers, undo(w), SideOK'
    PROVE  IInv'
<1>t. req[w] \in Requests /\ RequestGood(req[w]) /\ req[w].step = "undo"
  BY Zenon DEF IInv, TypeOK, undo, At
<1>p. PICK k : k = req[w].acc.id
  BY Zenon
<1>k. Unclaimed(k) /\ k \in Ids /\ accounts[k].tenant \notin Tenants
  BY <1>t, <1>p, StoreAssumption, Zenon DEF RequestGood, Informed, Making, Unclaimed
<1>1. UNCHANGED <<links, machines, held, defined, deployment, tokens, ended, founder>>
  BY Zenon DEF undo, rest, history
<1>2. Become(w, Idle)
  BY Zenon DEF undo, Done
<1>a. accounts \in [Ids -> Rows] /\ NoRow \in Rows /\ NoRow.email = "none"
      /\ NoRow.tenant = NoTenant
  BY StoreAssumption DEF IInv, TypeOK, StoreTypeOK, NoRow, Row, Rows
<1>3. accounts' = [accounts EXCEPT ![k] = NoRow]
  BY <1>p, Zenon DEF undo, Remove
<1>4. /\ accounts' \in [Ids -> Rows] /\ ~ Exists(k)'
      /\ \A j \in Ids \ {k} : accounts'[j] = accounts[j] /\ ended'[j] = ended[j]
      /\ \A j \in Ids \ {k} : Exists(j)' <=> Exists(j)
  BY <1>a, <1>k, <1>1, <1>3, Zenon DEF Exists
<1>5. StoreGood'
  BY <1>k, <1>1, <1>4, Zenon DEF IInv, StoreGood, Unclaimed, TypeOK, StoreTypeOK
<1>6. FounderGood' /\ \A u \in Tenants : \A j : Entering(u, j)' => Entering(u, j)
  BY <1>k, <1>1, <1>4 DEF IInv, FounderGood, AccountsIn, Entering
<1>7. \A v \in Workers \ {w} : req[v].acc.id # k
  BY <1>t, <1>p, Zenon DEF IInv, Exclusive, Making
<1>8. \A v \in Workers \ {w} : RequestGood(req[v])'
  BY <1>k, <1>1, <1>2, <1>4, <1>6, <1>7, OthersKeep, Zenon
<1>9. Exclusive'
  BY <1>2, IdleSafe, IdleGood, ExclusiveKeeps, Zenon DEF Safe
<1>10. TablesOK'
  BY <1>1, TablesNow, Zenon DEF TablesOK
<1>11. /\ links' \subseteq [provider : {"oidc", "saml"}, sub : Emails, account : Ids]
       /\ tokens' \subseteq Tokens /\ ended' \in [Ids -> 0..MaxEndings]
       /\ founder' \in [Tenants -> [id : {NoId} \union Ids,
                               how : {"none", "entering", "owner", "member", "other", "lost"}]]
  BY <1>1, Zenon DEF IInv, TypeOK, StoreTypeOK
<1> QED
  BY <1>1, <1>2, <1>4, <1>5, <1>6, <1>8, <1>9, <1>10, <1>11, IdleGood, Assemble, Zenon

\* A new row is nobody's.
LEMMA FreshRow ==
    ASSUME IInv, Room
    PROVE  /\ NextId \in Ids /\ ~ Exists(NextId) /\ ended[NextId] = 0
           /\ \A v \in Workers : req[v].acc.id # NextId
           /\ \A l \in links : l.account # NextId
           /\ \A tok \in tokens : tok.sub # NextId
           /\ \A t \in Tenants : ~ Entering(t, NextId)
<1>1. NextId \in Ids /\ ~ Exists(NextId)
  BY NextIdFree, Zenon
<1>2. \A v \in Workers : req[v].acc.id \in Ids => Exists(req[v].acc.id)
  BY Zenon DEF IInv, RequestGood, Informed
<1>3. \A t \in Tenants : founder[t].how = "entering" => Exists(founder[t].id)
  BY Zenon DEF IInv, FounderGood
<1> HIDE DEF NextId
<1> QED
  BY <1>1, <1>2, <1>3, Zenon DEF IInv, StoreGood, Entering

-----------------------------------------------------------------------------
(* Steps that make an account, or bring one into a tenant.                   *)

\* The registration flow creates a row.
LEMMA SubmitKeeps ==
    ASSUME IInv, NEW w \in Workers, submit(w), SideOK'
    PROVE  IInv'
<1>t. req[w] \in Requests /\ RequestGood(req[w]) /\ req[w].step = "submit"
  BY Zenon DEF IInv, TypeOK, submit, At
<1>p. PICK k : k = NextId
  BY Zenon
<1>k. /\ k \in Ids /\ ~ Exists(k) /\ ended[k] = 0
      /\ \A v \in Workers : req[v].acc.id # k
      /\ \A l \in links : l.account # k
      /\ \A tok \in tokens : tok.sub # k
      /\ \A t \in Tenants : ~ Entering(t, k)
  BY <1>p, FreshRow, Zenon DEF submit, Submit
<1>e. req[w].email \in Emails /\ req[w].tenant \in Tenants /\ req[w].kind = "register"
  BY <1>t, Zenon DEF RequestGood, Routed, Fits, Kinds
<1>1. UNCHANGED <<links, machines, held, defined, deployment, tokens, ended, founder>>
  BY Zenon DEF submit, rest, history
<1>2. PICK row : row = Row(NoTenant, req[w].email, "set", "active", 0)
  BY Zenon
<1>3. row \in Rows /\ row.email # "none" /\ row.tenant = NoTenant /\ row.version = 0
  BY <1>2, <1>e, StoreAssumption DEF Row, Rows
<1>4. accounts' = [accounts EXCEPT ![k] = row] /\ accounts \in [Ids -> Rows]
  BY <1>p, <1>2, Zenon DEF submit, Submit, IInv, TypeOK, StoreTypeOK
<1>5. /\ accounts' \in [Ids -> Rows] /\ Exists(k)' /\ accounts'[k] = row
      /\ \A j \in Ids \ {k} : accounts'[j] = accounts[j] /\ ended'[j] = ended[j]
      /\ \A j \in Ids \ {k} : Exists(j)' <=> Exists(j)
  BY <1>k, <1>1, <1>3, <1>4, Zenon DEF Exists
<1>6. PICK r : r = [req[w] EXCEPT !.step = "stamp", !.acc = Created(k, NoTenant)]
  BY Zenon
<1>7. Become(w, r)
  BY <1>p, <1>6, Zenon DEF submit
<1>8. "stamp" \in Steps /\ k \in AllIds /\ NoTenant \in Homed
  BY <1>k, Zenon DEF Steps, AllIds, Homed
<1>9. Created(k, NoTenant) \in Reads /\ Created(k, NoTenant).id = k
      /\ Created(k, NoTenant).version = Created(k, NoTenant).seen
  BY <1>8, CreatedType
<1>10. r \in Requests /\ r.step = "stamp" /\ r.kind = req[w].kind /\ r.tenant = req[w].tenant
       /\ r.email = req[w].email /\ r.role = req[w].role /\ r.acc = Created(k, NoTenant)
  BY <1>t, <1>6, <1>8, <1>9, Zenon DEF Requests
<1>11. Unclaimed(k)'
  BY <1>k, <1>1, <1>3, <1>5, Zenon DEF Unclaimed
<1>12. RequestGood(r)'
  <2>1. Routed(r)'
    BY <1>e, <1>10, Zenon DEF Routed, Fits
  <2>2. Informed(r)'
    BY <1>k, <1>5, <1>9, <1>10, <1>11, Zenon DEF Informed
  <2>3. Ranked(r)'
    BY <1>t, <1>1, <1>10, Zenon DEF RequestGood, Ranked
  <2> QED
    BY <2>1, <2>2, <2>3, Zenon DEF RequestGood
<1>13. StoreGood'
  BY <1>k, <1>1, <1>3, <1>5, Zenon DEF IInv, StoreGood, TypeOK, StoreTypeOK
<1>14. FounderGood' /\ \A u \in Tenants : \A j : Entering(u, j)' => Entering(u, j)
  <2>1. \A u \in Tenants : AccountsIn(u)' = AccountsIn(u)
    BY <1>k, <1>3, <1>5, StoreAssumption, Zenon DEF AccountsIn
  <2> QED
    BY <1>k, <1>1, <1>5, <2>1, Zenon DEF IInv, FounderGood, Entering
<1>15. \A v \in Workers \ {w} : RequestGood(req[v])'
  BY <1>k, <1>1, <1>5, <1>7, <1>14, OthersKeep, Zenon
<1>16. Exclusive'
  BY <1>k, <1>7, <1>9, <1>10, ExclusiveKeeps, Zenon
<1>17. TablesOK'
  BY <1>1, TablesNow, Zenon DEF TablesOK
<1>18. /\ links' \subseteq [provider : {"oidc", "saml"}, sub : Emails, account : Ids]
       /\ tokens' \subseteq Tokens /\ ended' \in [Ids -> 0..MaxEndings]
       /\ founder' \in [Tenants -> [id : {NoId} \union Ids,
                               how : {"none", "entering", "owner", "member", "other", "lost"}]]
  BY <1>1, Zenon DEF IInv, TypeOK, StoreTypeOK
<1> QED
  BY <1>1, <1>5, <1>7, <1>10, <1>12, <1>13, <1>14, <1>15, <1>16, <1>17, <1>18, Assemble, Zenon

\* An account enters a tenant: only a tenant without a founder gets one.
LEMMA EntersFacts ==
    ASSUME IInv, NEW t \in Tenants, NEW i \in Ids, NEW how \in {"entering", "other"},
           Enters(t, i, how)
    PROVE  /\ founder' \in [Tenants -> [id : {NoId} \union Ids,
                               how : {"none", "entering", "owner", "member", "other", "lost"}]]
           /\ founder'[t].how # "none"
           /\ \A u \in Tenants : founder[u].how # "none" => founder'[u] = founder[u]
           /\ \A u \in Tenants : founder'[u].how = "none" => founder[u].how = "none" /\ u # t
           /\ \A u \in Tenants : founder'[u].how # "member"
           /\ \A u \in Tenants : \A j : Entering(u, j)' =>
                Entering(u, j) \/ (how = "entering" /\ j = i /\ founder[t].how = "none")
<1>1. founder \in [Tenants -> [id : {NoId} \union Ids,
                               how : {"none", "entering", "owner", "member", "other", "lost"}]]
  BY Zenon DEF IInv, TypeOK
<1>2. Founder(i, how) \in [id : {NoId} \union Ids,
                           how : {"none", "entering", "owner", "member", "other", "lost"}]
      /\ Founder(i, how).how = how /\ Founder(i, how).id = i
  BY Zenon DEF Founder
<1>3. /\ founder' \in [Tenants -> [id : {NoId} \union Ids,
                               how : {"none", "entering", "owner", "member", "other", "lost"}]]
      /\ \A u \in Tenants : founder'[u] = IF u = t /\ founder[u].how = "none"
                                          THEN Founder(i, how) ELSE founder[u]
  BY <1>1, <1>2, Zenon DEF Enters
<1>4. \A u \in Tenants : founder[u].how # "member"
  BY Zenon DEF IInv, FounderGood
<1>5. \A u \in Tenants : \A j : Entering(u, j)' =>
            Entering(u, j) \/ (how = "entering" /\ j = i /\ founder[t].how = "none")
  BY <1>2, <1>3, Zenon DEF Entering
<1> QED
  BY <1>2, <1>3, <1>4, <1>5, Zenon

\* The row of an account gets a tenant.
LEMMA StampFacts ==
    ASSUME IInv, NEW k \in Ids, NEW t \in Tenants, Stamp(k, t), Exists(k)
    PROVE  /\ accounts' \in [Ids -> Rows]
           /\ accounts'[k].tenant = t /\ accounts'[k].version = accounts[k].version
           /\ \A j \in Ids \ {k} : accounts'[j] = accounts[j]
           /\ \A j \in Ids : Exists(j)' <=> Exists(j)
           /\ \A u \in Tenants \ {t} : AccountsIn(u)' \subseteq AccountsIn(u)
<1>1. accounts \in [Ids -> Rows]
  BY Zenon DEF IInv, TypeOK, StoreTypeOK
<1>2. PICK row : row = [accounts[k] EXCEPT !.tenant = t]
  BY Zenon
<1>3. row \in Rows /\ row.tenant = t /\ row.version = accounts[k].version
      /\ row.email = accounts[k].email
  BY <1>1, <1>2, Zenon DEF Rows
<1>4. accounts' = [accounts EXCEPT ![k] = row]
  BY <1>1, <1>2, Zenon DEF Stamp
<1>5. /\ accounts' \in [Ids -> Rows] /\ accounts'[k] = row
      /\ \A j \in Ids \ {k} : accounts'[j] = accounts[j]
  BY <1>1, <1>3, <1>4, Zenon
<1>6. \A j \in Ids : Exists(j)' <=> Exists(j)
  BY <1>3, <1>5, Zenon DEF Exists
<1>7. \A u \in Tenants \ {t} : AccountsIn(u)' \subseteq AccountsIn(u)
  BY <1>3, <1>5, <1>6, Zenon DEF AccountsIn
<1> QED
  BY <1>3, <1>5, <1>6, <1>7, Zenon

\* An account that is stamped: the store and the founders stay in order.
LEMMA StampKeeps ==
    ASSUME IInv, NEW k \in Ids, NEW t \in Tenants, Stamp(k, t), Exists(k),
           NEW how \in {"entering", "other"}, Enters(t, k, how),
           UNCHANGED <<links, machines, tokens, ended>>
    PROVE  StoreGood' /\ FounderGood'
<1>1. /\ accounts'[k].tenant = t /\ accounts'[k].version = accounts[k].version
      /\ \A j \in Ids \ {k} : accounts'[j] = accounts[j]
      /\ \A j \in Ids : Exists(j)' <=> Exists(j)
      /\ \A u \in Tenants \ {t} : AccountsIn(u)' \subseteq AccountsIn(u)
  BY StampFacts, Zenon
<1>2. /\ \A u \in Tenants : founder'[u].how = "none" => founder[u].how = "none" /\ u # t
      /\ \A u \in Tenants : founder'[u].how # "member"
      /\ \A u \in Tenants : \A j : Entering(u, j)' =>
                Entering(u, j) \/ (how = "entering" /\ j = k /\ founder[t].how = "none")
  BY EntersFacts
<1>3. StoreGood'
  BY <1>1, Zenon DEF IInv, StoreGood, TypeOK, StoreTypeOK
<1>4. \A u \in Tenants : founder'[u].how = "none" => AccountsIn(u)' = {}
  BY <1>1, <1>2, Zenon DEF IInv, FounderGood
<1>5. ASSUME NEW u \in Tenants, founder'[u].how = "entering"
      PROVE  /\ founder'[u].id \in Ids /\ Exists(founder[u].id)'
             /\ accounts'[founder'[u].id].tenant \in Tenants
  <2>1. PICK j : j = founder'[u].id
    BY Zenon
  <2>2. Entering(u, j) \/ j = k
    BY <1>2, <1>5, <2>1, Zenon DEF Entering
  <2>3. j \in Ids /\ Exists(j) /\ (accounts[j].tenant \in Tenants \/ j = k)
    BY <2>2, Zenon DEF IInv, FounderGood, Entering
  <2>4. Exists(j)' /\ accounts'[j].tenant \in Tenants
    BY <1>1, <2>3, Zenon
  <2> QED
    BY <2>1, <2>3, <2>4, Zenon
<1>6. FounderGood'
  BY <1>2, <1>4, <1>5, Zenon DEF FounderGood
<1> QED
  BY <1>3, <1>6, Zenon

\* A registration stamps its row.
LEMMA StampStep ==
    ASSUME IInv, NEW w \in Workers, stamp(w), SideOK'
    PROVE  IInv'
<1>0. req[w] \in Requests /\ RequestGood(req[w]) /\ req[w].step = "stamp"
  BY Zenon DEF IInv, TypeOK, stamp, At
<1>p. PICK k, t : k = req[w].acc.id /\ t = req[w].tenant
  BY Zenon
<1>k. /\ k \in Ids /\ Exists(k) /\ accounts[k].tenant \notin Tenants /\ t \in Tenants
      /\ req[w].email \in Emails /\ req[w].kind = "register"
      /\ req[w].acc.version = req[w].acc.seen /\ req[w].role \in {"owner", "member"}
      /\ req[w].role = "member" => founder[t].how # "none"
  BY <1>0, <1>p, StoreAssumption, Zenon
     DEF RequestGood, Routed, Fits, Kinds, Informed, Making, Unclaimed, Ranked
<1>1. UNCHANGED <<links, machines, held, defined, deployment, tokens, ended>>
  BY Zenon DEF stamp, rest
<1>2. Stamp(k, t) /\ Enters(t, k, "entering")
  BY <1>p, Zenon DEF stamp
<1>3. /\ accounts' \in [Ids -> Rows] /\ Exists(k)'
      /\ \A j \in Ids \ {k} : accounts'[j] = accounts[j]
  BY <1>k, <1>2, StampFacts, Zenon
<1>4. /\ founder' \in [Tenants -> [id : {NoId} \union Ids,
                               how : {"none", "entering", "owner", "member", "other", "lost"}]]
      /\ \A u \in Tenants : founder[u].how # "none" => founder'[u] = founder[u]
      /\ \A u \in Tenants : \A j : Entering(u, j)' =>
                Entering(u, j) \/ (j = k /\ founder[t].how = "none")
  BY <1>k, <1>2, EntersFacts
<1>5. StoreGood' /\ FounderGood'
  BY <1>k, <1>1, <1>2, StampKeeps, Zenon
<1>6. \A u \in Tenants : ~ Entering(u, k)
  BY <1>k, Zenon DEF IInv, FounderGood, Entering
<1>7. PICK acc : acc = [req[w].acc EXCEPT !.tenant = t]
  BY Zenon
<1>8. acc \in Reads /\ acc.id = k /\ acc.tenant = t /\ acc.version = acc.seen
  <2>1. req[w].acc \in Reads /\ t \in Homed
    BY <1>0, <1>k, Zenon DEF Requests, Homed
  <2> QED
    BY <1>k, <1>p, <1>7, <2>1, Zenon DEF Reads
<1>9. PICK q : q = [req[w] EXCEPT !.acc = acc]
  BY Zenon
<1>10. q \in Requests /\ q.kind = "register" /\ q.tenant = t /\ q.email = req[w].email
       /\ q.role = req[w].role /\ q.acc = acc
  BY <1>0, <1>p, <1>k, <1>8, <1>9, Zenon DEF Requests
<1>11. PICK r : r = Rank(q)
  BY Zenon
<1>12. Become(w, r)
  <2>1. [req[w] EXCEPT !.acc.tenant = req[w].tenant] = q
    BY <1>0, <1>p, <1>7, <1>9, Zenon DEF Requests
  <2> QED
    BY <1>11, <2>1, Zenon DEF stamp
<1>13. PICK s \in {"seed", "assign"} : r = [q EXCEPT !.step = s]
  BY <1>11, Zenon DEF Rank
<1>14. r \in Requests /\ r.step = s /\ r.kind = "register" /\ r.tenant = t /\ r.acc = acc
       /\ r.email = req[w].email /\ r.role = req[w].role
  <2>1. s \in Steps
    BY Zenon DEF Steps
  <2> QED
    BY <1>10, <1>13, <2>1, StepOf, Zenon
<1>15. r.role = "member" => \A u \in Tenants : ~ Entering(u, k)'
  BY <1>k, <1>4, <1>6, <1>14, Zenon
<1>16. RequestGood(r)'
  <2>1. Routed(r)'
    BY <1>k, <1>14, Zenon DEF Routed, Fits
  <2>2. Informed(r)'
    BY <1>k, <1>3, <1>8, <1>14, Zenon DEF Informed, Making
  <2>3. Ranked(r)'
    BY <1>k, <1>8, <1>14, <1>15, Zenon DEF Ranked
  <2> QED
    BY <2>1, <2>2, <2>3, Zenon DEF RequestGood
<1>17. \A v \in Workers \ {w} : req[v].acc.id # k
  BY <1>0, <1>p, Zenon DEF IInv, Exclusive, Making
<1>18. \A v \in Workers \ {w} : RequestGood(req[v])'
  BY <1>k, <1>1, <1>3, <1>4, <1>12, <1>17, OthersKeep
<1>19. Exclusive'
  BY <1>8, <1>12, <1>14, <1>17, ExclusiveKeeps, Zenon
<1>20. TablesOK'
  BY <1>1, TablesNow, Zenon DEF TablesOK
<1>21. /\ links' \subseteq [provider : {"oidc", "saml"}, sub : Emails, account : Ids]
       /\ tokens' \subseteq Tokens /\ ended' \in [Ids -> 0..MaxEndings]
  BY <1>1, Zenon DEF IInv, TypeOK, StoreTypeOK
<1> QED
  BY <1>1, <1>3, <1>4, <1>5, <1>12, <1>14, <1>16, <1>18, <1>19, <1>20, <1>21, Assemble, Zenon

\* An OIDC account without a tenant is assigned to the one of the callback.
LEMMA AdoptKeeps ==
    ASSUME IInv, NEW w \in Workers, adopt(w), SideOK'
    PROVE  IInv'
<1>0. req[w] \in Requests /\ RequestGood(req[w]) /\ req[w].step = "adopt"
  BY Zenon DEF IInv, TypeOK, adopt, At
<1>p. PICK k, t : k = req[w].acc.id /\ t = req[w].tenant
  BY Zenon
<1>k. /\ k \in Ids /\ Exists(k) /\ t \in Tenants /\ req[w].email \in Emails
      /\ req[w].kind = "oauth" /\ req[w].acc.version = req[w].acc.seen
  BY <1>0, <1>p, Zenon DEF RequestGood, Routed, Fits, Kinds, Informed
<1>1. UNCHANGED <<links, machines, held, defined, deployment, tokens, ended>>
  BY Zenon DEF adopt, rest
<1>2. Stamp(k, t) /\ Enters(t, k, "other")
  BY <1>p, Zenon DEF adopt
<1>3. /\ accounts' \in [Ids -> Rows] /\ Exists(k)'
      /\ \A j \in Ids \ {k} : accounts'[j] = accounts[j]
  BY <1>k, <1>2, StampFacts, Zenon
<1>4. /\ founder' \in [Tenants -> [id : {NoId} \union Ids,
                               how : {"none", "entering", "owner", "member", "other", "lost"}]]
      /\ \A u \in Tenants : founder[u].how # "none" => founder'[u] = founder[u]
      /\ \A u \in Tenants : \A j : Entering(u, j)' => Entering(u, j)
  BY <1>k, <1>2, EntersFacts, Zenon
<1>5. StoreGood' /\ FounderGood'
  BY <1>k, <1>1, <1>2, StampKeeps, Zenon
<1>6. PICK acc : acc = [req[w].acc EXCEPT !.tenant = t]
  BY Zenon
<1>7. acc \in Reads /\ acc.id = k /\ acc.tenant = t /\ acc.version = acc.seen
  <2>1. req[w].acc \in Reads /\ t \in Homed
    BY <1>0, <1>k, Zenon DEF Requests, Homed
  <2> QED
    BY <1>k, <1>p, <1>6, <2>1, Zenon DEF Reads
<1>8. PICK q : q = [req[w] EXCEPT !.acc = acc]
  BY Zenon
<1>9. q \in Requests /\ q.kind = "oauth" /\ q.tenant = t /\ q.email = req[w].email
      /\ q.acc = acc
  BY <1>0, <1>p, <1>k, <1>7, <1>8, Zenon DEF Requests
<1>10. Become(w, Signs(q))
  <2>1. [req[w] EXCEPT !.acc.tenant = req[w].tenant] = q
    BY <1>0, <1>p, <1>6, <1>8, Zenon DEF Requests
  <2> QED
    BY <2>1, Zenon DEF adopt
<1>11. PICK r : r = Signs(q)
  BY Zenon
<1>12. r \in Requests /\ r.step \notin Making /\ RequestGood(r)' /\ (r = Idle \/ r.acc = acc)
  <2>1. CASE r = Idle
    BY <2>1, IdleGood, Zenon
  <2>2. CASE r = [q EXCEPT !.step = "sign"]
    <3>1. "sign" \in Steps
      BY Zenon DEF Steps
    <3>2. r \in Requests /\ r.step = "sign" /\ r.kind = "oauth" /\ r.tenant = t /\ r.acc = acc
          /\ r.email = req[w].email
      BY <1>9, <2>2, <3>1, StepOf, Zenon
    <3>3. k # NoId /\ r.step \notin Making
      BY <1>k, <3>2, StoreAssumption DEF Ids, NoId, Making
    <3>4. Routed(r)' /\ Ranked(r)'
      BY <1>k, <3>2, Zenon DEF Routed, Fits, Ranked
    <3>5. Informed(r)'
      BY <1>k, <1>3, <1>7, <3>2, <3>3, Zenon DEF Informed
    <3> QED
      BY <3>2, <3>3, <3>4, <3>5, Zenon DEF RequestGood
  <2> QED
    BY <1>11, <2>1, <2>2, Zenon DEF Signs
<1>13. \A v \in Workers \ {w} : req[v].step \in Making => req[v].acc.id # k
  BY <1>p, Zenon DEF IInv, Exclusive
<1>14. \A v \in Workers \ {w} : req[v].step \in Making => r.acc.id # req[v].acc.id
  BY <1>7, <1>12, <1>13, IdleSafe, Zenon DEF Safe
<1>15. Become(w, r)
  BY <1>10, <1>11, Zenon
<1>16. \A v \in Workers \ {w} : RequestGood(req[v])'
  BY <1>k, <1>1, <1>3, <1>4, <1>15, <1>13, OthersKeep, Zenon
<1>17. Exclusive'
  BY <1>12, <1>14, <1>15, ExclusiveKeeps, Zenon
<1>18. TablesOK'
  BY <1>1, TablesNow, Zenon DEF TablesOK
<1>19. /\ links' \subseteq [provider : {"oidc", "saml"}, sub : Emails, account : Ids]
       /\ tokens' \subseteq Tokens /\ ended' \in [Ids -> 0..MaxEndings]
  BY <1>1, Zenon DEF IInv, TypeOK, StoreTypeOK
<1> QED
  BY <1>1, <1>3, <1>4, <1>5, <1>12, <1>15, <1>16, <1>17, <1>18, <1>19, Assemble, Zenon

\* An account is created together with its link.
LEMMA EnrollKeeps ==
    ASSUME IInv, NEW w \in Workers, enroll(w), SideOK'
    PROVE  IInv'
<1>0. req[w] \in Requests /\ RequestGood(req[w]) /\ req[w].step = "enroll"
  BY Zenon DEF IInv, TypeOK, enroll, At
<1>e. req[w].email \in Emails /\ req[w].tenant \in Tenants /\ req[w].kind \in {"oauth", "saml"}
  BY <1>0, Zenon DEF RequestGood, Routed, Fits, Kinds
<1>p. PICK k, t, s, p :
            /\ k = NextId /\ t = IF req[w].kind = "oauth" THEN NoTenant ELSE req[w].tenant
            /\ s = IF req[w].kind = "oauth" THEN "adopt" ELSE "others"
            /\ p = Provider[req[w].kind]
  BY Zenon
<1>q. /\ t \in Homed /\ p \in {"oidc", "saml"} /\ s \in {"adopt", "others"} /\ s \in Steps
      /\ p = "saml" => t \in Tenants
      /\ s = "adopt" => req[w].kind = "oauth"
      /\ s = "others" => req[w].kind = "saml" /\ t \in Tenants
      /\ t \in Tenants => req[w].kind = "saml" /\ t = req[w].tenant
  BY <1>e, <1>p, StoreAssumption DEF Homed, Provider, Steps
<1>k. /\ k \in Ids /\ ~ Exists(k) /\ ended[k] = 0
      /\ \A v \in Workers : req[v].acc.id # k
      /\ \A l \in links : l.account # k
      /\ \A tok \in tokens : tok.sub # k
      /\ \A u \in Tenants : ~ Entering(u, k)
  BY <1>p, FreshRow, Zenon DEF enroll, Enroll
<1>1. UNCHANGED <<machines, held, defined, deployment, tokens, ended>>
  BY Zenon DEF enroll, rest
<1>2. PICK row : row = Row(t, req[w].email, "none", "active", 0)
  BY Zenon
<1>3. row \in Rows /\ row.email # "none" /\ row.tenant = t /\ row.version = 0
  BY <1>2, <1>e, <1>q, StoreAssumption DEF Row, Rows, Homed
<1>4. /\ accounts' = [accounts EXCEPT ![k] = row] /\ accounts \in [Ids -> Rows]
      /\ links' = links \union {Link(p, req[w].email, k)}
  BY <1>p, <1>2, Zenon DEF enroll, Enroll, IInv, TypeOK, StoreTypeOK
<1>5. /\ accounts' \in [Ids -> Rows] /\ Exists(k)' /\ accounts'[k] = row
      /\ \A j \in Ids \ {k} : accounts'[j] = accounts[j] /\ ended'[j] = ended[j]
      /\ \A j \in Ids \ {k} : Exists(j)' <=> Exists(j)
  BY <1>k, <1>1, <1>3, <1>4, Zenon DEF Exists
<1>l. /\ links' \subseteq [provider : {"oidc", "saml"}, sub : Emails, account : Ids]
      /\ \A l \in links' : l \in links \/ (l.account = k /\ l.provider = p)
  BY <1>e, <1>q, <1>k, <1>4 DEF Link, IInv, TypeOK, StoreTypeOK
<1>f. /\ founder' \in [Tenants -> [id : {NoId} \union Ids,
                               how : {"none", "entering", "owner", "member", "other", "lost"}]]
      /\ \A u \in Tenants : founder[u].how # "none" => founder'[u] = founder[u]
      /\ \A u \in Tenants : founder'[u].how = "none" => founder[u].how = "none" /\ u # t
      /\ \A u \in Tenants : founder'[u].how # "member"
      /\ \A u \in Tenants : \A j : Entering(u, j)' => Entering(u, j)
  <2>1. CASE req[w].kind = "oauth"
    BY <1>q, <2>1, StoreAssumption, Zenon DEF enroll, IInv, TypeOK, FounderGood, Entering
  <2>2. CASE req[w].kind = "saml"
    <3>1. Enters(t, k, "other") /\ t \in Tenants
      BY <1>e, <1>p, <2>2, Zenon DEF enroll
    <3> QED
      BY <1>k, <3>1, EntersFacts, Zenon
  <2> QED
    BY <1>e, <2>1, <2>2, Zenon
<1>6. PICK r : r = [req[w] EXCEPT !.acc = Created(k, t), !.step = s]
  BY Zenon
<1>7. Become(w, r)
  BY <1>p, <1>6, Zenon DEF enroll
<1>8. Created(k, t) \in Reads /\ Created(k, t).id = k /\ Created(k, t).tenant = t
      /\ Created(k, t).version = Created(k, t).seen
  BY <1>k, <1>q, CreatedType DEF AllIds
<1>9. r \in Requests /\ r.step = s /\ r.kind = req[w].kind /\ r.tenant = req[w].tenant
      /\ r.email = req[w].email /\ r.acc = Created(k, t)
  BY <1>0, <1>6, <1>q, <1>8, Zenon DEF Requests
<1>10. RequestGood(r)'
  <2>1. Routed(r)'
    BY <1>e, <1>q, <1>9, Zenon DEF Routed, Fits
  <2>2. Informed(r)'
    BY <1>k, <1>q, <1>5, <1>8, <1>9, Zenon DEF Informed, Making
  <2>3. Ranked(r)'
    BY <1>k, <1>q, <1>f, <1>8, <1>9 DEF Ranked
  <2> QED
    BY <2>1, <2>2, <2>3, Zenon DEF RequestGood
<1>11. StoreGood'
  <2>1. \A l \in links' : Exists(l.account)'
    BY <1>k, <1>l, <1>5, Zenon DEF IInv, StoreGood, TypeOK, StoreTypeOK
  <2>2. \A l \in links' : l.provider = "saml" => accounts'[l.account].tenant \in Tenants
    BY <1>k, <1>q, <1>l, <1>3, <1>5, Zenon DEF IInv, StoreGood, TypeOK, StoreTypeOK
  <2> QED
    BY <1>k, <1>1, <1>3, <1>5, <2>1, <2>2, Zenon DEF IInv, StoreGood
<1>12. FounderGood'
  <2>1. \A u \in Tenants : u # t => AccountsIn(u)' = AccountsIn(u)
    BY <1>k, <1>3, <1>5, Zenon DEF AccountsIn
  <2>2. \A u \in Tenants : founder'[u].how = "none" => AccountsIn(u)' = {}
    BY <1>f, <2>1, Zenon DEF IInv, FounderGood
  <2>3. ASSUME NEW u \in Tenants, founder'[u].how = "entering"
        PROVE  /\ founder'[u].id \in Ids /\ Exists(founder[u].id)'
               /\ accounts'[founder'[u].id].tenant \in Tenants
    <3>1. PICK j : j = founder'[u].id
      BY Zenon
    <3>2. Entering(u, j) /\ j # k
      BY <1>f, <1>k, <2>3, <3>1, Zenon DEF Entering
    <3>3. j \in Ids /\ Exists(j) /\ accounts[j].tenant \in Tenants
      BY <3>2, Zenon DEF IInv, FounderGood, Entering
    <3>4. Exists(j)' /\ accounts'[j].tenant \in Tenants
      BY <1>5, <3>2, <3>3, Zenon
    <3> QED
      BY <3>1, <3>3, <3>4, Zenon
  <2> QED
    BY <1>f, <2>2, <2>3, Zenon DEF FounderGood
<1>13. \A v \in Workers \ {w} : RequestGood(req[v])'
  BY <1>k, <1>1, <1>5, <1>7, <1>l, <1>f, OthersKeep
<1>14. Exclusive'
  BY <1>k, <1>7, <1>8, <1>9, ExclusiveKeeps, Zenon
<1>15. TablesOK'
  BY <1>1, TablesNow, Zenon DEF TablesOK
<1>16. tokens' \subseteq Tokens /\ ended' \in [Ids -> 0..MaxEndings]
  BY <1>1, Zenon DEF IInv, TypeOK
<1> QED
  BY <1>1, <1>5, <1>7, <1>9, <1>l, <1>f, <1>10, <1>11, <1>12, <1>13, <1>14, <1>15, <1>16,
     Assemble, Zenon

-----------------------------------------------------------------------------
(* The invariant.                                                            *)

\* A write to one entry of a cache.
LEMMA RememberType ==
    ASSUME DirectoryTypeOK, NEW p, NEW t, NEW status \in Statuses \union {"empty"},
           remember(p, t, status)
    PROVE  cache' \in [Processes -> [Tenants -> Statuses \union {"empty"}]]
<1>1. cache \in [Processes -> [Tenants -> Statuses \union {"empty"}]]
  BY Zenon DEF DirectoryTypeOK
<1>2. CASE p \in Processes
  <2>1. [cache[p] EXCEPT ![t] = status] \in [Tenants -> Statuses \union {"empty"}]
    BY <1>1, <1>2, Zenon
  <2> QED
    BY <1>1, <1>2, <2>1, Zenon DEF remember
<1>3. CASE p \notin Processes
  BY <1>1, <1>3, Zenon DEF remember
<1> QED
  BY <1>2, <1>3, Zenon

\* The directory, the attempts and their uses keep their types.
LEMMA SideKeeps == ASSUME IInv, Next PROVE SideOK'
<1>0. /\ DirectoryTypeOK /\ attempts \in [Attempts -> {"unused", "oauth", "saml", "gone"}]
      /\ suspended \subseteq Tenants /\ uses \in [Attempts -> Nat]
  BY Zenon DEF IInv, TypeOK
<1>1. owed' \in [Processes -> SUBSET Tenants]
  BY Zenon DEF Next, Owed
<1> DEFINE Goal == /\ DirectoryTypeOK /\ suspended \subseteq Tenants
                   /\ attempts \in [Attempts -> {"unused", "oauth", "saml", "gone"}]
                   /\ uses \in [Attempts -> Nat]
<1>q. ASSUME UNCHANGED <<directory, attempts, suspended, uses>> PROVE Goal'
  BY <1>0, <1>q, Zenon DEF DirectoryTypeOK, directory
<1>c. ASSUME NEW p, NEW t, NEW status \in Statuses \union {"empty"}, remember(p, t, status),
             UNCHANGED <<tenants, attempts, suspended, uses>>
      PROVE  Goal'
  BY <1>0, <1>c, RememberType, Zenon DEF DirectoryTypeOK
<1>2. ASSUME LapseAny PROVE Goal'
  <2>1. PICK p \in Processes, t \in Tenants : remember(p, t, "empty") /\ UNCHANGED tenants
    BY <1>2, Zenon DEF LapseAny, Lapse, invalidate
  <2> QED
    BY <1>2, <1>c, <2>1, Zenon DEF LapseAny, rest, history
<1>3. ASSUME NEW a \in Attempts, GetOAuthURL(a) \/ InitiateSAMLLogin(a) PROVE Goal'
  BY <1>0, <1>3, Zenon DEF GetOAuthURL, InitiateSAMLLogin, Initiate, history, directory, DirectoryTypeOK
<1>4. ASSUME NEW w \in Workers, Edge(w) PROVE Goal'
  <2>t. req[w] \in Requests /\ Routed(req[w])
    BY Zenon DEF IInv, TypeOK, RequestGood
  <2>1. CASE Submitted(w) \/ Callback(w)
    BY <2>1, <1>q, Zenon DEF Submitted, Callback, Arrive, rest, history
  <2>2. CASE ask(w) \/ lookup(w) \/ lookupFails(w)
    BY <2>2, <1>q, Zenon DEF ask, lookup, lookupFails, rest, history
  <2>3. CASE keep(w)
    <3>1. req[w].found \in Statuses
      BY <2>t, <2>3, Zenon DEF keep, At, Routed, Fits, Requests
    <3> QED
      BY <1>c, <2>3, <3>1, Zenon DEF keep, rest, history
  <2>4. CASE \E p \in Processes, t \in Tenants, name \in {"provision", "active", "suspended"} :
                Operate(w, p, t, name)
    BY <2>4, <1>q, Zenon DEF Operate, rest, history
  <2>5. CASE provision(w)
    <3>1. tenants' \in [Tenants -> Statuses]
      BY <1>0, <2>5, Zenon DEF provision, Provision, DirectoryTypeOK, Statuses
    <3> QED
      BY <1>0, <2>5, <3>1, Zenon DEF provision, DirectoryTypeOK, rest, history
  <2>6. CASE setStatus(w)
    <3>1. req[w].op.name \in Statuses
      BY <2>t, <2>6, Zenon DEF setStatus, At, Routed, Fits, Statuses
    <3>2. tenants' \in [Tenants -> Statuses]
      BY <1>0, <2>6, <3>1, Zenon DEF setStatus, SetStatus, DirectoryTypeOK
    <3>3. suspended' \subseteq Tenants
      BY <1>0, <2>t, <2>6, Zenon DEF setStatus, At, Routed, Fits
    <3> QED
      BY <1>0, <2>6, <3>2, <3>3, Zenon DEF setStatus, DirectoryTypeOK, rest, history
  <2>7. CASE forget(w)
    BY <2>7, <1>c, Zenon DEF forget, invalidate, rest, history
  <2> QED
    BY <1>4, <2>1, <2>2, <2>3, <2>4, <2>5, <2>6, <2>7, Zenon DEF Edge
<1>5. ASSUME NEW w \in Workers, Register(w) PROVE Goal'
  <2>1. UNCHANGED <<directory, attempts, suspended, uses>>
    BY <1>5, Zenon DEF Register, check, count, submit, stamp, stampFails, undo, seed, assign,
       assignFails, rest, history
  <2> QED
    BY <2>1, <1>q, Zenon
<1>6. ASSUME NEW w \in Workers, Login(w) PROVE Goal'
  <2>1. CASE consume(w)
    <3>1. UNCHANGED <<directory, suspended>>
      BY <2>1, Zenon DEF consume
    <3>2. /\ attempts' \in [Attempts -> {"unused", "oauth", "saml", "gone"}]
          /\ uses' \in [Attempts -> Nat]
      BY <1>0, <2>1 DEF consume, Use
    <3> QED
      BY <1>0, <3>1, <3>2, Zenon DEF DirectoryTypeOK, directory
  <2>2. CASE find(w) \/ recall(w) \/ load(w) \/ SAMLResponse(w) \/ others(w) \/ sign(w)
    BY <2>2, <1>q, Zenon DEF find, recall, load, SAMLResponse, others, sign, rest, history
  <2>3. CASE enroll(w) \/ adopt(w)
    BY <2>3, <1>q, Zenon DEF enroll, adopt, rest
  <2>4. CASE \E i \in MachineIds : ServiceLogin(w, i)
    BY <2>4, <1>q, Zenon DEF ServiceLogin, rest, history
  <2> QED
    BY <1>6, <2>1, <2>2, <2>3, <2>4, Zenon DEF Login
<1>7. ASSUME NEW w \in Workers, Call(w) PROVE Goal'
  <2>1. CASE Request(w)
    BY <2>1, <1>q, Zenon DEF Request, Present, rest, history
  <2>2. CASE validate(w) \/ permit(w) \/ own(w)
    BY <2>2, <1>q, Zenon DEF validate, permit, own, rest, history
  <2>3. CASE write(w)
    BY <2>3, <1>q, Zenon DEF write, rest
  <2>4. CASE act(w)
    BY <2>4, <1>q, Zenon DEF act, rest, history
  <2> QED
    BY <1>7, <2>1, <2>2, <2>3, <2>4, Zenon DEF Call
<1>8. ASSUME NEW w \in Workers, Abandon(w) PROVE Goal'
  BY <1>8, <1>q, Zenon DEF Abandon, rest
<1> HIDE DEF Goal
<1>9. Goal'
  BY <1>2, <1>3, <1>4, <1>5, <1>6, <1>7, <1>8, Zenon DEF Next, Step
<1> QED
  BY <1>1, <1>9, Zenon DEF SideOK, Goal

\* The invariant holds at the start.
LEMMA InitInv == Init => IInv
<1> SUFFICES ASSUME Init PROVE IInv
  BY Zenon
<1> PICK os : os = deployment.owners
  BY Zenon
<1>0. /\ os \in Seq([tenant : Tenants, email : Emails]) /\ Len(os) <= MaxAccounts
      /\ deployment.provisioned \subseteq Tenants /\ deployment \in Deployments
  BY DeploymentsAssumption, Zenon DEF Init
<1>1. /\ DOMAIN os \subseteq Ids
      /\ \A k \in DOMAIN os : os[k].tenant \in Tenants /\ os[k].email \in Emails
  <2>1. DOMAIN os = 1..Len(os) /\ Len(os) \in Nat
    BY <1>0
  <2>2. \A k \in 1..Len(os) : os[k] \in [tenant : Tenants, email : Emails]
    <3>1. \A S : os \in Seq(S) => \A k \in 1..Len(os) : os[k] \in S
      OBVIOUS
    <3> QED
      BY <1>0, <3>1, Zenon
  <2>3. 1..Len(os) \subseteq Ids
    BY <1>0, <2>1, StoreAssumption DEF Ids
  <2> QED
    BY <2>1, <2>2, <2>3, Zenon
<1>2. \A t \in Homes(os) : OwnerOf(os, t) \in Ids
  <2> TAKE t \in Homes(os)
  <2>1. \E k \in DOMAIN os : os[k].tenant = t
    BY Zenon DEF Homes
  <2>2. OwnerOf(os, t) \in DOMAIN os
    BY <2>1, Zenon DEF OwnerOf
  <2> QED
    BY <1>1, <2>2, Zenon
<1>3. /\ accounts \in [Ids -> Rows]
      /\ \A i \in Ids : accounts[i].version = 0
      /\ \A i \in Ids : IF i \in DOMAIN os THEN accounts[i].tenant = os[i].tenant
                        ELSE ~ Exists(i)
  <2>1. accounts = [i \in Ids |-> IF i \in DOMAIN os
            THEN Row(os[i].tenant, os[i].email, "set", "active", 0) ELSE NoRow]
    BY Zenon DEF Init, NewStore
  <2>2. NoRow \in Rows /\ NoRow.version = 0 /\ NoRow.email = "none"
    BY StoreAssumption DEF NoRow, Row, Rows
  <2>3. \A i \in DOMAIN os : LET row == Row(os[i].tenant, os[i].email, "set", "active", 0)
                             IN  row \in Rows /\ row.version = 0 /\ row.tenant = os[i].tenant
    BY <1>1, StoreAssumption DEF Row, Rows
  <2> QED
    BY <2>1, <2>2, <2>3, Zenon DEF Exists
<1>4. StoreTypeOK
  <2>1. held \subseteq [tenant : Tenants, identity : Ids \union MachineIds, role : RoleNames]
    <3>1. held = {Assignment(os[k].tenant, k, "owner") : k \in DOMAIN os}
      BY Zenon DEF Init, NewStore
    <3>2. "owner" \in RoleNames
      BY DEF RoleNames, Catalog
    <3> QED
      BY <1>1, <3>1, <3>2 DEF Assignment
  <2>2. machines \in [MachineIds -> [tenant : Tenants \union {NoTenant},
                                    status : {"none", "active", "revoked"}]]
    BY Zenon DEF Init, NewStore, NoMachine, Machine
  <2>3. links = {} /\ defined \in [Tenants -> SUBSET RoleNames]
    BY Zenon DEF Init, NewStore
  <2> QED
    BY <1>3, <2>1, <2>2, <2>3, Zenon DEF StoreTypeOK
<1>5. founder = [t \in Tenants |-> IF t \in Homes(os) THEN Founder(OwnerOf(os, t), "owner")
                                   ELSE NoFounder]
  BY Zenon DEF Init
<1>6. /\ founder \in [Tenants -> [id : {NoId} \union Ids,
                               how : {"none", "entering", "owner", "member", "other", "lost"}]]
      /\ \A t \in Tenants : founder[t].how = IF t \in Homes(os) THEN "owner" ELSE "none"
  BY <1>2, <1>5, Zenon DEF Founder, NoFounder
<1>7. TypeOK
  <2>1. DirectoryTypeOK
    BY Zenon DEF Init, NewDirectory, DirectoryTypeOK, Statuses
  <2>2. req \in [Workers -> Requests]
    BY IdleType, Zenon DEF Init
  <2>3. ended \in [Ids -> 0..MaxEndings] /\ uses \in [Attempts -> Nat] /\ suspended \subseteq Tenants
        /\ owed \in [Processes -> SUBSET Tenants] /\ tokens = {}
        /\ attempts \in [Attempts -> {"unused", "oauth", "saml", "gone"}]
    BY StoreAssumption DEF Init
  <2> QED
    BY <1>0, <1>4, <1>6, <2>1, <2>2, <2>3, Zenon DEF TypeOK
<1>8. \A w \in Workers : req[w] = Idle
  BY Zenon DEF Init
<1>9. RequestGood(Idle)
  <2>1. Idle.step = "idle" /\ Idle.kind = "none" /\ Idle.acc = NoAccount
    BY Zenon DEF Idle
  <2>2. NoAccount.id \notin Ids /\ NoAccount.version = NoAccount.seen
    BY StoreAssumption DEF NoAccount, Created, NoId, Ids
  <2> QED
    BY <2>1, <2>2, Zenon DEF RequestGood, Routed, Fits, Informed, Ranked, Making, Kinds
<1>10. Exclusive
  BY <1>8 DEF Exclusive, Idle, Making
<1>11. StoreGood
  <2>1. /\ \A i \in Ids : ended[i] = 0
        /\ links = {} /\ tokens = {}
        /\ \A i \in MachineIds : machines[i].status = "none"
    BY Zenon DEF Init, NewStore, NoMachine, Machine
  <2> QED
    BY <1>3, <2>1, Zenon DEF StoreGood
<1>12. FounderGood
  <2>1. \A t \in Tenants : t \notin Homes(os) => AccountsIn(t) = {}
    BY <1>3, Zenon DEF Homes, AccountsIn
  <2> QED
    BY <1>6, <2>1, Zenon DEF FounderGood
<1> QED
  BY <1>7, <1>8, <1>9, <1>10, <1>11, <1>12, Zenon DEF IInv

\* Every step keeps it.
LEMMA NextInv == IInv /\ [Next]_vars => IInv'
<1> SUFFICES ASSUME IInv, [Next]_vars PROVE IInv'
  BY Zenon
<1>q. ASSUME SideOK', UNCHANGED <<store, deployment, tokens, req, ended, founder>> PROVE IInv'
  <2>1. TypeOK'
    BY <1>q, Zenon DEF IInv, TypeOK, SideOK, StoreTypeOK, store
  <2>2. UNCHANGED <<accounts, links, machines, tokens, req, ended, founder>>
    BY <1>q, Zenon DEF store
  <2>3. StoreGood' /\ FounderGood' /\ Exclusive'
    BY <2>2, Zenon DEF IInv, StoreGood, FounderGood, Exclusive, AccountsIn, Exists
  <2>4. \A w \in Workers : RequestGood(req'[w])
    BY <2>2, Zenon DEF IInv
  <2>5. (\A w \in Workers : RequestGood(req[w]))'
    BY <2>2, <2>4, GoodSame, Zenon
  <2> QED
    BY <2>1, <2>3, <2>5, Zenon DEF IInv
<1>1. CASE UNCHANGED vars
  <2>1. SideOK'
    BY <1>1, Zenon DEF IInv, TypeOK, SideOK, DirectoryTypeOK, vars, directory, rest, history
  <2> QED
    BY <1>1, <1>q, <2>1, Zenon DEF vars, rest, history
<1>2. CASE Next
  <2>s. SideOK'
    BY <1>2, SideKeeps, Zenon
  <2>1. ASSUME LapseAny PROVE IInv'
    BY <2>s, <2>1, <1>q, Zenon DEF LapseAny, rest, history
  <2>2. ASSUME NEW a \in Attempts, GetOAuthURL(a) \/ InitiateSAMLLogin(a) PROVE IInv'
    BY <2>s, <2>2, <1>q, Zenon DEF GetOAuthURL, InitiateSAMLLogin, Initiate, history
  <2>3. ASSUME NEW w \in Workers, Edge(w) PROVE IInv'
    <3>1. UNCHANGED <<store, deployment, tokens, ended, founder>>
      BY <2>3, Zenon DEF Edge, Submitted, Callback, Arrive, ask, lookup, lookupFails, keep, Operate,
         provision, setStatus, forget, rest, history
    <3> QED
      BY <2>s, <2>3, <3>1, EdgeKeeps, Zenon
  <2>4. ASSUME NEW w \in Workers, Register(w) PROVE IInv'
    BY <2>s, <2>4, RegisterReads, SubmitKeeps, StampStep, UndoKeeps, SeedKeeps, AssignKeeps, Zenon
       DEF Register
  <2>5. ASSUME NEW w \in Workers, Login(w) PROVE IInv'
    BY <2>s, <2>5, LoginReads, EnrollKeeps, AdoptKeeps, ArrivalsKeep, SignKeeps, Zenon DEF Login
  <2>6. ASSUME NEW w \in Workers, Call(w) PROVE IInv'
    BY <2>s, <2>6, CallReads, WriteKeeps, ActKeeps, Zenon DEF Call
  <2>7. ASSUME NEW w \in Workers, Abandon(w) PROVE IInv'
    <3>1. CASE req[w].step \in {"seed", "assign"}
      BY <2>s, <2>7, <3>1, AssignKeeps, Zenon
    <3>2. CASE req[w].step \notin {"seed", "assign"}
      BY <2>s, <2>7, <3>2, DoneKeeps, Zenon DEF Abandon, rest
    <3> QED
      BY <3>1, <3>2, Zenon
  <2> QED
    BY <1>2, <2>1, <2>2, <2>3, <2>4, <2>5, <2>6, <2>7, Zenon DEF Next, Step
<1> QED
  BY <1>1, <1>2, Zenon

\* The invariant holds in every reachable state.
THEOREM Invariance == Spec => []IInv
  BY InitInv, NextInv, PTL DEF Spec

\* The types of AuthGateway: in particular, no failed lookup is ever remembered as an
\* answer of the directory.
THEOREM Types == Spec => []TypeOK
<1>1. IInv => TypeOK
  BY Zenon DEF IInv
<1> QED
  BY <1>1, Invariance, PTL

\* Register: the first account of a tenant, if it enters by registering, never ends as a
\* mere member.
THEOREM First == Spec => []FirstIsOwner
<1>1. IInv => FirstIsOwner
  BY Zenon DEF IInv, FounderGood, FirstIsOwner
<1> QED
  BY <1>1, Invariance, PTL

-----------------------------------------------------------------------------
(* Ended sessions.                                                           *)

\* A request only moves by a step of its own.
LEMMA Mover ==
    ASSUME IInv, Next, NEW w \in Workers, req'[w] # req[w]
    PROVE  Edge(w) \/ Register(w) \/ Login(w) \/ Call(w) \/ Abandon(w)
<1>1. req \in [Workers -> Requests]
  BY Zenon DEF IInv, TypeOK
<1>2. PICK v \in Workers : Edge(v) \/ Register(v) \/ Login(v) \/ Call(v) \/ Abandon(v)
  BY Zenon DEF Next, Step, LapseAny, GetOAuthURL, InitiateSAMLLogin, Initiate
<1>3. \E r : Become(v, r)
  <2>1. CASE Edge(v)
    BY <2>1, Zenon DEF Edge, Submitted, Callback, Arrive, ask, lookup, lookupFails, keep, Operate,
         provision, setStatus, forget, Go, Done
  <2>2. CASE Register(v)
    BY <2>2, Zenon DEF Register, check, count, submit, stamp, stampFails, undo, seed, assign,
         assignFails, Enrolled, Go, Done
  <2>3. CASE Login(v)
    BY <2>3, Zenon DEF Login, find, recall, consume, Use, load, enroll, adopt, SAMLResponse, others,
         sign, ServiceLogin, Go, Done
  <2>4. CASE Call(v)
    BY <2>4, Zenon DEF Call, Request, Present, validate, permit, own, write, act, Go, Done
  <2>5. CASE Abandon(v)
    BY <2>5, Zenon DEF Abandon, Done
  <2> QED
    BY <1>2, <2>1, <2>2, <2>3, <2>4, <2>5, Zenon
<1>4. v = w
  BY <1>1, <1>3, Zenon DEF Become
<1> QED
  BY <1>2, <1>4, Zenon

\* Only the check of a token moves a request from it to the permission or the operation.
LEMMA ValidateStep ==
    ASSUME IInv, Next, NEW w \in Workers, At(w, "validate"), req'[w].step \in {"permit", "own"}
    PROVE  Valid(req[w].tok)
<1>0. req \in [Workers -> Requests] /\ Idle.step = "idle"
  BY Zenon DEF IInv, TypeOK, Idle
<1>1. req'[w] # req[w]
  BY Zenon DEF At
<1>2. Edge(w) \/ Register(w) \/ Login(w) \/ Call(w) \/ Abandon(w)
  BY <1>1, Mover, Zenon
<1>5. ~ Edge(w)
  BY Zenon DEF At, Edge, Submitted, Callback, Arrive, ask, lookup, lookupFails, keep, Operate,
     provision, setStatus, forget
<1>6. ~ Register(w)
  BY Zenon DEF At, Register, check, count, submit, stamp, stampFails, undo, seed, assign, assignFails
<1>7. ~ Login(w)
  BY Zenon DEF At, Login, find, recall, consume, load, enroll, adopt, SAMLResponse, others, sign,
     ServiceLogin
<1>8. ~ Abandon(w)
  BY <1>0, Zenon DEF Abandon, Done, Become
<1>9. validate(w)
  BY <1>2, <1>5, <1>6, <1>7, <1>8, Zenon
     DEF At, Call, Request, Present, permit, own, write, act
<1> QED
  BY <1>0, <1>9, Zenon DEF validate, Done, Become

\* ValidateForCaller: a token is accepted only if no ending of its account's sessions was
\* committed after the login behind it read the account.
THEOREM Ends == Spec => EndedForGood
<1> DEFINE A == \A w \in Workers :
        At(w, "validate") /\ req'[w].step \in {"permit", "own"} =>
            (req[w].tok.sub \in Ids => req[w].tok.seen = ended[req[w].tok.sub])
<1>1. IInv /\ [Next]_vars => [A]_vars
  <2> SUFFICES ASSUME IInv, Next, NEW w \in Workers, At(w, "validate"),
                      req'[w].step \in {"permit", "own"}, req[w].tok.sub \in Ids
               PROVE  req[w].tok.seen = ended[req[w].tok.sub]
    BY Zenon
  <2>1. Valid(req[w].tok)
    BY ValidateStep, Zenon
  <2>2. req[w].tok \in tokens
    BY Zenon DEF IInv, RequestGood, Routed, Fits, At
  <2>3. /\ Exists(req[w].tok.sub) /\ req[w].tok.version = req[w].tok.seen
        /\ accounts[req[w].tok.sub].version = ended[req[w].tok.sub]
    BY <2>2, Zenon DEF IInv, StoreGood
  <2> QED
    BY <2>1, <2>3, Zenon DEF Valid
<1> QED
  BY <1>1, Invariance, PTL DEF Spec, EndedForGood

-----------------------------------------------------------------------------
(* Attempts.                                                                 *)

\* A state that is stored has let nobody through.
UsesGood ==
    \A a \in Attempts :
        /\ uses[a] \in {0, 1}
        /\ attempts[a] \in {"unused", "oauth"} => uses[a] = 0

\* Only the beginning of an attempt and its consumption touch it.
LEMMA UsesStep == ASSUME IInv, UsesGood, Next PROVE UsesGood'
<1>0. /\ attempts \in [Attempts -> {"unused", "oauth", "saml", "gone"}]
      /\ uses \in [Attempts -> Nat]
  BY Zenon DEF IInv, TypeOK
<1>q. ASSUME UNCHANGED <<attempts, uses>> PROVE UsesGood'
  BY <1>q, Zenon DEF UsesGood
<1>1. ASSUME LapseAny PROVE UsesGood'
  BY <1>1, <1>q, Zenon DEF LapseAny, rest, history
<1>2. ASSUME NEW a \in Attempts, GetOAuthURL(a) \/ InitiateSAMLLogin(a) PROVE UsesGood'
  BY <1>0, <1>2, Zenon DEF GetOAuthURL, InitiateSAMLLogin, Initiate, history, UsesGood
<1>3. ASSUME NEW w \in Workers, consume(w) PROVE UsesGood'
  <2>1. req[w].kind \in {"oauth", "saml"}
    BY <1>3, Zenon DEF consume, At, IInv, RequestGood, Routed, Fits
  <2> QED
    BY <1>0, <1>3, <2>1 DEF consume, Use, UsesGood
<1>4. ASSUME NEW w \in Workers, Edge(w) PROVE UNCHANGED <<attempts, uses>>
  BY <1>4, Zenon DEF Edge, Submitted, Callback, Arrive, ask, lookup, lookupFails, keep, Operate,
     provision, setStatus, forget, rest, history
<1>5. ASSUME NEW w \in Workers, Register(w) PROVE UNCHANGED <<attempts, uses>>
  BY <1>5, Zenon DEF Register, check, count, submit, stamp, stampFails, undo, seed, assign,
     assignFails, rest, history
<1>6. ASSUME NEW w \in Workers, Login(w), ~ consume(w) PROVE UNCHANGED <<attempts, uses>>
  BY <1>6, Zenon DEF Login, find, recall, load, enroll, adopt, SAMLResponse, others, sign,
     ServiceLogin, rest, history
<1>7. ASSUME NEW w \in Workers, Call(w) PROVE UNCHANGED <<attempts, uses>>
  BY <1>7, Zenon DEF Call, Request, Present, validate, permit, own, write, act, rest, history
<1>8. ASSUME NEW w \in Workers, Abandon(w) PROVE UNCHANGED <<attempts, uses>>
  BY <1>8, Zenon DEF Abandon, rest
<1> QED
  BY <1>q, <1>1, <1>2, <1>3, <1>4, <1>5, <1>6, <1>7, <1>8, Zenon DEF Next, Step

\* ConsumeOIDCState: a state lets one callback through.
THEOREM Once == Spec => []AttemptOnce
<1>1. Init => UsesGood
  BY Zenon DEF Init, UsesGood
<1>2. IInv /\ UsesGood /\ [Next]_vars => UsesGood'
  <2>1. UsesGood /\ UNCHANGED vars => UsesGood'
    BY Zenon DEF UsesGood, vars, rest, history
  <2> QED
    BY <2>1, UsesStep, Zenon
<1>3. UsesGood => AttemptOnce
  BY DEF UsesGood, AttemptOnce
<1> QED
  BY <1>1, <1>2, <1>3, Invariance, PTL DEF Spec

-----------------------------------------------------------------------------
(* Suspension.                                                               *)

\* Nothing a process holds says that the tenant may be used, and none of its
\* registrations is about to create the tenant.
Quiet(r, p, t) ==
    r.at = p /\ r.tenant = t =>
        /\ r.found \in {"none", "suspended"}
        /\ r.kind # "operator" => r.step \notin {"provision", "forget"}

Held(p, t) ==
    /\ cache[p][t] \in {"empty", "suspended"}
    /\ \A w \in Workers : Quiet(req[w], p, t)

\* The table agrees with the operator, and a process owes only what it can keep.
OwedGood ==
    /\ \A t \in suspended : tenants[t] = "suspended"
    /\ \A p \in Processes : \A t \in owed[p] : t \in suspended /\ Held(p, t)

\* An answer that refuses lets nobody through and provisions nothing.
LEMMA Refused ==
    ASSUME NEW r \in Requests, NEW status \in {"suspended", "failed"}
    PROVE  /\ Answered(r, status).step \in {"idle", "ask"}
           /\ Answered(r, status).found = "none"
<1>1. statusError(status) \notin {"nil", "unknown"}
  BY Zenon DEF statusError
<1>2. Answered(r, status) = Idle \/ \E t : Answered(r, status) = Resolved(r, t)
  BY <1>1, Zenon DEF Answered
<1>3. Idle.step = "idle" /\ Idle.found = "none"
  BY Zenon DEF Idle
<1>4. \A t : Resolved(r, t).step = "ask" /\ Resolved(r, t).found = "none"
  BY Zenon DEF Resolved, Requests
<1> QED
  BY <1>2, <1>3, <1>4, Zenon

\* Any answer leaves a request where it is, sends it to another tenant without an answer,
\* or ends it.
LEMMA AnsweredFacts ==
    ASSUME NEW r \in Requests, NEW status, r.kind \in {"register", "login", "oauth"}
    PROVE  LET q == Answered(r, status)
           IN  \/ q.found = "none" /\ q.step \in {"idle", "ask"}
               \/ /\ q.tenant = r.tenant /\ q.at = r.at /\ q.found = r.found /\ q.kind = r.kind
                  /\ q.step \in {"check", "find", "recall", "provision"}
                  /\ q.step = "provision" => r.phase = "final"
<1>1. Service[r.kind] \in {"check", "find", "recall"}
  BY DEF Service
<1>2. PICK s : s = Service[r.kind]
  BY Zenon
<1>3. \/ Answered(r, status) = Idle
      \/ \E t : Answered(r, status) = Resolved(r, t)
      \/ Answered(r, status) = [r EXCEPT !.step = s]
      \/ r.phase = "final" /\ Answered(r, status) = [r EXCEPT !.step = "provision"]
  BY <1>2, Zenon DEF Answered
<1>4. Idle.step = "idle" /\ Idle.found = "none"
  BY Zenon DEF Idle
<1>5. \A t : Resolved(r, t).step = "ask" /\ Resolved(r, t).found = "none"
  BY Zenon DEF Resolved, Requests
<1>6. s \in {"check", "find", "recall"} /\ s \in Steps /\ "provision" \in Steps
  BY <1>1, <1>2, Zenon DEF Steps
<1>7. CASE Answered(r, status) = [r EXCEPT !.step = s]
  BY <1>6, <1>7, StepOf
<1>8. CASE r.phase = "final" /\ Answered(r, status) = [r EXCEPT !.step = "provision"]
  BY <1>6, <1>8, StepOf
<1> QED
  BY <1>3, <1>4, <1>5, <1>7, <1>8, Zenon

\* A request that goes on neither provisions nor brings a new answer of the directory.
Harmless(q, r) ==
    /\ r.step \notin {"provision", "forget"}
    /\ \/ r.found = "none"
       \/ r.found = q.found /\ r.tenant = q.tenant /\ r.at = q.at

\* The steps behind the edge only change a request's step, role and account.
LEMMA OnwardHarmless ==
    ASSUME NEW q \in Requests, NEW s, s \notin {"provision", "forget"}, NEW x
    PROVE  /\ Harmless(q, Idle)
           /\ Harmless(q, [q EXCEPT !.step = s])
           /\ Harmless(q, [q EXCEPT !.step = s, !.role = x])
           /\ Harmless(q, [q EXCEPT !.step = s, !.acc = x])
           /\ Harmless(q, [q EXCEPT !.acc = x, !.step = s])
<1>1. Harmless(q, Idle)
  BY Zenon DEF Harmless, Idle
<1>2. Harmless(q, [q EXCEPT !.step = s])
  BY Zenon DEF Harmless, Requests
<1>3. Harmless(q, [q EXCEPT !.step = s, !.role = x])
  BY Zenon DEF Harmless, Requests
<1>4. Harmless(q, [q EXCEPT !.step = s, !.acc = x])
  BY Zenon DEF Harmless, Requests
<1>5. Harmless(q, [q EXCEPT !.acc = x, !.step = s])
  BY Zenon DEF Harmless, Requests
<1> QED
  BY <1>1, <1>2, <1>3, <1>4, <1>5, Zenon

\* What a login makes of the account it has read, and a new account's way to its role.
LEMMA AccountHarmless ==
    ASSUME NEW q \in Requests, NEW x
    PROVE  /\ Harmless(q, Signs([q EXCEPT !.acc = x]))
           /\ Harmless(q, Member([q EXCEPT !.acc = x]))
           /\ Harmless(q, Rank([q EXCEPT !.acc = x]))
           /\ Harmless(q, Rank([q EXCEPT !.role = x]))
           /\ Harmless(q, Signs([q EXCEPT !.acc.tenant = x]))
           /\ Harmless(q, Rank([q EXCEPT !.acc.tenant = x]))
<1> DEFINE Same(r) == /\ "step" \in DOMAIN r /\ "found" \in DOMAIN r /\ "tenant" \in DOMAIN r
                      /\ "at" \in DOMAIN r /\ r.found = q.found /\ r.tenant = q.tenant
                      /\ r.at = q.at
<1>1. ASSUME NEW r, Same(r), NEW s, s \notin {"provision", "forget"}
      PROVE  Harmless(q, [r EXCEPT !.step = s])
  BY <1>1, Zenon DEF Harmless
<1>2. ASSUME NEW r, Same(r)
      PROVE  Harmless(q, Signs(r)) /\ Harmless(q, Member(r)) /\ Harmless(q, Rank(r))
  <2>1. Harmless(q, Idle)
    BY Zenon DEF Harmless, Idle
  <2>2. /\ Harmless(q, [r EXCEPT !.step = "sign"]) /\ Harmless(q, [r EXCEPT !.step = "adopt"])
        /\ Harmless(q, [r EXCEPT !.step = IF r.role = "owner" THEN "seed" ELSE "assign"])
    BY <1>1, <1>2
  <2>3. Harmless(q, Signs(r))
    BY <2>1, <2>2, Zenon DEF Signs
  <2>4. Harmless(q, Member(r))
    BY <2>1, <2>2, <2>3, Zenon DEF Member
  <2> QED
    BY <2>2, <2>3, <2>4, Zenon DEF Rank
<1>3. Same([q EXCEPT !.acc = x]) /\ Same([q EXCEPT !.role = x])
      /\ Same([q EXCEPT !.acc.tenant = x])
  BY Zenon DEF Requests
<1> HIDE DEF Same
<1> QED
  BY <1>2, <1>3, Zenon

\* Behind the edge, nothing touches the directory and every step is harmless.
LEMMA BehindEdge ==
    ASSUME IInv, NEW w \in Workers, Register(w) \/ Login(w) \/ Call(w) \/ Abandon(w)
    PROVE  /\ UNCHANGED <<tenants, cache, suspended>>
           /\ \E r : Become(w, r) /\ Harmless(req[w], r)
<1>0. req[w] \in Requests
  BY Zenon DEF IInv, TypeOK
<1> DEFINE Moves == \E r : Become(w, r) /\ Harmless(req[w], r)
<1>i. Harmless(req[w], Idle)
  BY Zenon DEF Harmless, Idle
<1>d. Done(w) => Moves
  BY <1>i, Zenon DEF Done
<1>g. \A s : Go(w, s) /\ s \notin {"provision", "forget"} => Moves
  BY <1>0, OnwardHarmless, Zenon DEF Go
<1>1. CASE Register(w)
  <2>1. UNCHANGED <<tenants, cache, suspended>>
    BY <1>1, Zenon DEF Register, check, count, submit, stamp, stampFails, undo, seed, assign,
       assignFails, directory, history
  <2>2. ASSUME \/ check(w) \/ stampFails(w) \/ undo(w) \/ seed(w) \/ assign(w)
               \/ assignFails(w)
        PROVE  Moves
    BY <2>2, <1>d, <1>g, Zenon DEF check, stampFails, undo, seed, assign, assignFails, Enrolled
  <2>3. ASSUME count(w) \/ submit(w) PROVE Moves
    <3>1. \A x : /\ Harmless(req[w], [req[w] EXCEPT !.step = "submit", !.role = x])
                /\ Harmless(req[w], [req[w] EXCEPT !.step = "stamp", !.acc = x])
      BY <1>0, OnwardHarmless, Zenon
    <3> QED
      BY <2>3, <3>1, Zenon DEF count, submit
  <2>4. ASSUME stamp(w) PROVE Moves
    BY <2>4, <1>0, AccountHarmless, Zenon DEF stamp
  <2> QED
    BY <1>1, <2>1, <2>2, <2>3, <2>4, Zenon DEF Register
<1>2. CASE Login(w)
  <2>1. UNCHANGED <<tenants, cache, suspended>>
    BY <1>2, Zenon DEF Login, find, recall, consume, load, enroll, adopt, SAMLResponse, others,
       sign, ServiceLogin, directory, history
  <2>2. ASSUME recall(w) \/ consume(w) \/ sign(w) PROVE Moves
    BY <2>2, <1>d, <1>g, Zenon DEF recall, consume, Use, sign
  <2>3. ASSUME find(w) PROVE Moves
    BY <2>3, <1>d, <1>0, AccountHarmless, Zenon DEF find
  <2>4. ASSUME load(w) PROVE Moves
    BY <2>4, <1>g, <1>0, AccountHarmless, Zenon DEF load
  <2>5. ASSUME enroll(w) PROVE Moves
    <3>1. \A x, s : s \in {"adopt", "others"} =>
                Harmless(req[w], [req[w] EXCEPT !.acc = x, !.step = s])
      BY <1>0, OnwardHarmless, Zenon
    <3>2. PICK x, s : Become(w, [req[w] EXCEPT !.acc = x, !.step = s])
                      /\ s \in {"adopt", "others"}
      BY <2>5, Zenon DEF enroll
    <3> QED
      BY <3>1, <3>2, Zenon
  <2>6. ASSUME adopt(w) \/ others(w) PROVE Moves
    BY <2>6, <1>0, AccountHarmless, Zenon DEF adopt, others
  <2>7. ASSUME SAMLResponse(w) \/ \E i \in MachineIds : ServiceLogin(w, i) PROVE Moves
    <3>1. \A e, a, t : Harmless(req[w], [Idle EXCEPT !.step = "recall", !.kind = "saml",
                                      !.email = e, !.attempt = a, !.tenant = t])
      BY Zenon DEF Harmless, Idle
    <3>2. \A acc : Harmless(req[w], [Idle EXCEPT !.step = "sign", !.kind = "service",
                                              !.acc = acc])
      BY Zenon DEF Harmless, Idle
    <3> QED
      BY <2>7, <3>1, <3>2, Zenon DEF SAMLResponse, ServiceLogin
  <2> QED
    BY <1>2, <2>1, <2>2, <2>3, <2>4, <2>5, <2>6, <2>7, Zenon DEF Login
<1>3. CASE Call(w)
  <2>1. UNCHANGED <<tenants, cache, suspended>>
    BY <1>3, Zenon DEF Call, Request, Present, validate, permit, own, write, act, directory,
       history
  <2>2. ASSUME validate(w) \/ permit(w) \/ own(w) \/ write(w) \/ act(w) PROVE Moves
    BY <2>2, <1>d, <1>g, Zenon DEF validate, permit, own, write, act, Handler
  <2>3. ASSUME Request(w) PROVE Moves
    <3>1. \E tok, op : Present(w, tok, op)
      BY <2>3, Zenon DEF Request
    <3>2. \A tok, op : Harmless(req[w], [Idle EXCEPT !.step = "validate", !.kind = "call",
                                                  !.tok = tok, !.op = op])
      BY Zenon DEF Harmless, Idle
    <3> QED
      BY <3>1, <3>2, Zenon DEF Present
  <2> QED
    BY <1>3, <2>1, <2>2, <2>3, Zenon DEF Call
<1>4. CASE Abandon(w)
  BY <1>4, <1>d, Zenon DEF Abandon, directory
<1> QED
  BY <1>1, <1>2, <1>3, <1>4, Zenon

\* One entry of a cache is written, and no other.
LEMMA Remembered ==
    ASSUME DirectoryTypeOK, NEW q, NEW u, NEW status, remember(q, u, status),
           NEW p \in Processes, NEW t \in Tenants
    PROVE  cache'[p][t] = IF p = q /\ t = u THEN status ELSE cache[p][t]
<1>1. cache \in [Processes -> [Tenants -> Statuses \union {"empty"}]]
  BY Zenon DEF DirectoryTypeOK
<1>2. cache' = [cache EXCEPT ![q] = [cache[q] EXCEPT ![u] = status]]
  BY Zenon DEF remember
<1>3. CASE p # q
  BY <1>1, <1>2, <1>3
<1>4. CASE p = q
  <2>1. cache'[p] = [cache[p] EXCEPT ![u] = status] /\ cache[p] \in [Tenants -> Statuses \union {"empty"}]
    BY <1>1, <1>2, <1>4
  <2> QED
    BY <2>1, <1>4
<1> QED
  BY <1>3, <1>4

\* A process keeps what it owes when a request moves to something quiet.
LEMMA HeldKeeps ==
    ASSUME IInv, NEW w \in Workers, NEW r, Become(w, r), NEW p, NEW t, Held(p, t),
           Quiet(r, p, t), cache'[p][t] \in {"empty", "suspended"}
    PROVE  Held(p, t)'
<1>1. req \in [Workers -> Requests]
  BY Zenon DEF IInv, TypeOK
<1>2. \A v \in Workers : req'[v] = IF v = w THEN r ELSE req[v]
  BY <1>1, Zenon DEF Become
<1>3. \A v \in Workers : Quiet(req'[v], p, t)
  BY <1>2, Zenon DEF Held
<1> QED
  BY <1>3, Zenon DEF Held, Quiet

\* A harmless step is a quiet one.
LEMMA HarmlessQuiet ==
    ASSUME NEW q, NEW r, NEW p, NEW t, Quiet(q, p, t), Harmless(q, r)
    PROVE  Quiet(r, p, t)
  BY Zenon DEF Quiet, Harmless

\* An answer about another tenant, or to another process, is a quiet one.
LEMMA ElsewhereQuiet ==
    ASSUME NEW r \in Requests, NEW status, r.kind \in {"register", "login", "oauth"},
           NEW p, NEW t, ~ (r.at = p /\ r.tenant = t)
    PROVE  Quiet(Answered(r, status), p, t)
<1>1. PICK q : q = Answered(r, status)
  BY Zenon
<1>2. \/ q.found = "none" /\ q.step \in {"idle", "ask"}
      \/ q.tenant = r.tenant /\ q.at = r.at
  BY <1>1, AnsweredFacts
<1> QED
  BY <1>1, <1>2, Zenon DEF Quiet

\* An answer that refuses is a quiet one.
LEMMA RefusedQuiet ==
    ASSUME NEW r \in Requests, NEW status \in {"suspended", "failed"}, NEW p, NEW t
    PROVE  Quiet(Answered(r, status), p, t)
<1>1. PICK q : q = Answered(r, status)
  BY Zenon
<1>2. q.step \in {"idle", "ask"} /\ q.found = "none"
  BY <1>1, Refused, Zenon
<1> QED
  BY <1>1, <1>2, Zenon DEF Quiet

\* What a process owes, it still owes after a step of the edge.
LEMMA EdgeHeld ==
    ASSUME IInv, OwedGood, NEW w \in Workers, Edge(w), NEW p \in Processes, NEW t \in Tenants,
           t \in owed[p]
    PROVE  Held(p, t)'
<1>h. Held(p, t) /\ tenants[t] = "suspended"
  BY Zenon DEF OwedGood
<1>q. Quiet(req[w], p, t) /\ cache[p][t] \in {"empty", "suspended"}
  BY <1>h, Zenon DEF Held
<1>t. req[w] \in Requests /\ DirectoryTypeOK /\ Routed(req[w])
  BY Zenon DEF IInv, TypeOK, RequestGood
<1>1. ASSUME UNCHANGED cache, NEW r, Become(w, r), Quiet(r, p, t) PROVE Held(p, t)'
  <2>1. cache'[p][t] \in {"empty", "suspended"}
    BY <1>1, <1>q, Zenon
  <2> QED
    BY <1>1, <1>h, <2>1, HeldKeeps, Zenon
<1>g. ASSUME NEW s, s \notin {"provision", "forget"} PROVE Quiet([req[w] EXCEPT !.step = s], p, t)
  BY <1>g, <1>q, <1>t, OnwardHarmless, HarmlessQuiet, Zenon
<1>i. Quiet(Idle, p, t)
  BY Zenon DEF Quiet, Idle
<1>2. CASE Submitted(w) \/ Callback(w)
  <2>1. PICK kind, q, host, body, e, a : Arrive(w, kind, q, host, body, e, a)
    BY <1>2, Zenon DEF Submitted, Callback
  <2>a. PICK phase, u, b :
            Become(w, [Idle EXCEPT !.step = "ask", !.kind = kind, !.at = q, !.email = e,
                                   !.attempt = a, !.phase = phase, !.tenant = u, !.body = b])
    BY <2>1, Zenon DEF Arrive
  <2>b. PICK r : r = [Idle EXCEPT !.step = "ask", !.kind = kind, !.at = q, !.email = e,
                                  !.attempt = a, !.phase = phase, !.tenant = u, !.body = b]
    BY Zenon
  <2>2. Become(w, r) /\ r.step = "ask" /\ r.found = "none"
    BY <2>a, <2>b, Zenon DEF Idle
  <2>3. Quiet(r, p, t)
    BY <2>2, Zenon DEF Quiet
  <2>4. UNCHANGED cache
    BY <2>1, Zenon DEF Arrive, directory
  <2> QED
    BY <1>1, <2>2, <2>3, <2>4, Zenon
<1>3. CASE ask(w)
  <2>1. req[w].kind \in {"register", "login", "oauth"}
    BY <1>3, AtEdge, Zenon DEF ask, At
  <2>2. PICK status : status = cache[req[w].at][req[w].tenant]
    BY Zenon
  <2>3. CASE Become(w, Answered(req[w], status)) /\ status # "empty"
    <3>1. CASE req[w].at = p /\ req[w].tenant = t
      <4>1. status = "suspended"
        BY <1>q, <2>2, <2>3, <3>1, Zenon
      <4>2. Quiet(Answered(req[w], status), p, t)
        BY <1>t, <4>1, RefusedQuiet, Zenon
      <4> QED
        BY <1>1, <1>3, <2>3, <4>2, Zenon DEF ask, directory
    <3>2. CASE ~ (req[w].at = p /\ req[w].tenant = t)
      <4>1. Quiet(Answered(req[w], status), p, t)
        BY <1>t, <2>1, <3>2, ElsewhereQuiet
      <4> QED
        BY <1>1, <1>3, <2>3, <4>1, Zenon DEF ask, directory
    <3> QED
      BY <3>1, <3>2, Zenon
  <2>4. CASE Go(w, "lookup")
    <3>1. Quiet([req[w] EXCEPT !.step = "lookup"], p, t)
      BY <1>g
    <3> QED
      BY <1>1, <1>3, <2>4, <3>1, Zenon DEF ask, Go, directory
  <2> QED
    BY <1>3, <2>2, <2>3, <2>4, Zenon DEF ask, Cached
<1>4. CASE lookup(w)
  <2>1. PICK r : r = [req[w] EXCEPT !.step = "keep", !.found = tenants[req[w].tenant]]
    BY Zenon
  <2>2. r.step = "keep" /\ r.found = tenants[req[w].tenant] /\ r.tenant = req[w].tenant
        /\ r.at = req[w].at
    BY <1>t, <2>1, Zenon DEF Requests
  <2>3. Quiet(r, p, t)
    BY <1>h, <2>2, Zenon DEF Quiet
  <2> QED
    BY <1>1, <1>4, <2>1, <2>3, Zenon DEF lookup, directory
<1>5. CASE lookupFails(w)
  <2>1. Quiet(Answered(req[w], "failed"), p, t)
    BY <1>t, RefusedQuiet, Zenon
  <2> QED
    BY <1>1, <1>5, <2>1, Zenon DEF lookupFails, directory
<1>6. CASE keep(w)
  <2>1. /\ req[w].kind \in {"register", "login", "oauth"} /\ req[w].found # "none"
        /\ req[w].step = "keep"
    BY <1>6, <1>t, Zenon DEF keep, At, Routed, Fits
  <2>2. PICK r : r = [req[w] EXCEPT !.found = "none"]
    BY Zenon
  <2>3. /\ r \in Requests /\ r.kind = req[w].kind /\ r.at = req[w].at
        /\ r.tenant = req[w].tenant
    BY <1>t, <2>2, Zenon DEF Requests
  <2>4. PICK status : status = req[w].found
    BY Zenon
  <2>5. Become(w, Answered(r, status)) /\ remember(req[w].at, req[w].tenant, status)
    BY <1>6, <2>2, <2>4, Zenon DEF keep
  <2>6. cache'[p][t] = IF p = req[w].at /\ t = req[w].tenant THEN status ELSE cache[p][t]
    BY <1>t, <2>5, Remembered
  <2>7. CASE req[w].at = p /\ req[w].tenant = t
    <3>1. status = "suspended"
      BY <1>q, <2>1, <2>4, <2>7, Zenon DEF Quiet
    <3>2. Quiet(Answered(r, status), p, t)
      BY <2>3, <3>1, RefusedQuiet, Zenon
    <3>3. cache'[p][t] \in {"empty", "suspended"}
      BY <2>6, <2>7, <3>1, Zenon
    <3> QED
      BY <1>h, <2>5, <3>2, <3>3, HeldKeeps, Zenon
  <2>8. CASE ~ (req[w].at = p /\ req[w].tenant = t)
    <3>1. Quiet(Answered(r, status), p, t)
      BY <2>1, <2>3, <2>8, ElsewhereQuiet
    <3>2. cache'[p][t] \in {"empty", "suspended"}
      BY <1>q, <2>6, <2>8, Zenon
    <3> QED
      BY <1>h, <2>5, <3>1, <3>2, HeldKeeps, Zenon
  <2> QED
    BY <2>7, <2>8, Zenon
<1>7. ASSUME NEW q \in Processes, NEW u \in Tenants, NEW name, Operate(w, q, u, name)
      PROVE  Held(p, t)'
  <2>a. PICK s, op : Become(w, [Idle EXCEPT !.step = s, !.kind = "operator", !.at = q,
                                           !.tenant = u, !.op = op])
    BY <1>7, Zenon DEF Operate
  <2>b. PICK r : r = [Idle EXCEPT !.step = s, !.kind = "operator", !.at = q, !.tenant = u,
                                  !.op = op]
    BY Zenon
  <2>1. Become(w, r) /\ r.kind = "operator" /\ r.found = "none"
    BY <2>a, <2>b, Zenon DEF Idle
  <2>2. Quiet(r, p, t)
    BY <2>1, Zenon DEF Quiet
  <2> QED
    BY <1>1, <1>7, <2>1, <2>2, Zenon DEF Operate, directory
<1>8. CASE provision(w) \/ setStatus(w)
  <2>1. PICK r : r = [req[w] EXCEPT !.step = "forget"]
    BY Zenon
  <2>2. "forget" \in Steps
    BY Zenon DEF Steps
  <2>3. /\ r.kind = req[w].kind /\ r.at = req[w].at /\ r.found = req[w].found
        /\ r.tenant = req[w].tenant
    BY <1>t, <2>1, <2>2, StepOf, Zenon
  <2>4. req[w].step = "provision" \/ req[w].kind = "operator"
    BY <1>8, <1>t, Zenon DEF provision, setStatus, At, Routed, Fits
  <2>5. Quiet(r, p, t)
    BY <1>q, <2>3, <2>4, Zenon DEF Quiet
  <2> QED
    BY <1>1, <1>8, <2>1, <2>5, Zenon DEF provision, setStatus, Go
<1>9. CASE forget(w)
  <2>1. cache'[p][t] \in {"empty", "suspended"}
    BY <1>9, <1>t, <1>q, Remembered DEF forget, invalidate
  <2>2. Quiet([req[w] EXCEPT !.step = "check"], p, t)
    BY <1>g
  <2>3. PICK r : Become(w, r) /\ Quiet(r, p, t)
    BY <1>9, <1>i, <2>2, Zenon DEF forget, Go, Done
  <2> QED
    BY <1>h, <2>1, <2>3, HeldKeeps, Zenon
<1> QED
  BY <1>2, <1>3, <1>4, <1>5, <1>6, <1>7, <1>8, <1>9, Zenon DEF Edge

\* The table stays what the operator made it.
LEMMA TableKept ==
    ASSUME IInv, OwedGood, Next
    PROVE  \A t \in suspended' : tenants'[t] = "suspended"
<1>0. /\ \A t \in suspended : tenants[t] = "suspended"
      /\ suspended \subseteq Tenants /\ tenants \in [Tenants -> Statuses]
  BY Zenon DEF OwedGood, IInv, TypeOK, DirectoryTypeOK
<1>1. ASSUME UNCHANGED <<tenants, suspended>> PROVE \A t \in suspended' : tenants'[t] = "suspended"
  BY <1>0, <1>1, Zenon
<1>2. CASE LapseAny
  BY <1>1, <1>2, Zenon DEF LapseAny, Lapse, history
<1>3. CASE \E a \in Attempts : GetOAuthURL(a) \/ InitiateSAMLLogin(a)
  BY <1>1, <1>3, Zenon DEF GetOAuthURL, InitiateSAMLLogin, Initiate, directory, history
<1>4. ASSUME NEW w \in Workers, Register(w) \/ Login(w) \/ Call(w) \/ Abandon(w)
      PROVE  \A t \in suspended' : tenants'[t] = "suspended"
  BY <1>1, <1>4, BehindEdge, Zenon
<1>5. ASSUME NEW w \in Workers, Edge(w) PROVE \A t \in suspended' : tenants'[t] = "suspended"
  <2>1. CASE provision(w)
    <3>1. suspended' = suspended /\ Provision(req[w].tenant)
      BY <2>1, Zenon DEF provision, history
    <3>2. ASSUME NEW t \in suspended PROVE tenants'[t] = "suspended"
      BY <1>0, <3>1, <3>2 DEF Provision
    <3> QED
      BY <3>1, <3>2, Zenon
  <2>2. CASE setStatus(w)
    <3>0. /\ req[w].tenant \in Tenants /\ req[w].op.name \in {"active", "suspended"}
          /\ tenants' = [tenants EXCEPT ![req[w].tenant] = req[w].op.name]
          /\ suspended' = IF req[w].op.name = "suspended" THEN suspended \union {req[w].tenant}
                          ELSE suspended \ {req[w].tenant}
      BY <2>2, Zenon DEF setStatus, SetStatus, At, IInv, RequestGood, Routed, Fits
    <3>1. PICK u, name : u = req[w].tenant /\ name = req[w].op.name
      BY Zenon
    <3> QED
      BY <1>0, <3>0, <3>1
  <2>3. CASE \/ Submitted(w) \/ Callback(w) \/ ask(w) \/ lookup(w) \/ lookupFails(w) \/ keep(w)
             \/ forget(w)
    BY <1>1, <2>3, Zenon DEF Submitted, Callback, Arrive, ask, lookup, lookupFails, keep, forget,
       directory, history
  <2>4. ASSUME NEW p \in Processes, NEW t \in Tenants, NEW name, Operate(w, p, t, name)
        PROVE  UNCHANGED <<tenants, suspended>>
    BY <2>4, Zenon DEF Operate, directory, history
  <2> QED
    BY <1>1, <1>5, <2>1, <2>2, <2>3, <2>4, Zenon DEF Edge
<1> QED
  BY <1>2, <1>3, <1>4, <1>5, Zenon DEF Next, Step

\* A process goes on owing what it owes, and owes nothing it cannot keep.
LEMMA OwedStep == IInv /\ OwedGood /\ [Next]_vars => OwedGood'
<1>1. SUFFICES ASSUME IInv, OwedGood, Next PROVE OwedGood'
  <2>1. ASSUME OwedGood, UNCHANGED vars PROVE OwedGood'
    <3>1. UNCHANGED <<tenants, cache, req, suspended, owed>>
      BY <2>1, Zenon DEF vars, directory, history
    <3> QED
      BY <2>1, <3>1, Zenon DEF OwedGood, Held, Quiet
  <2> QED
    BY <2>1, Zenon
<1>2. \A t \in suspended' : tenants'[t] = "suspended"
  BY <1>1, TableKept, Zenon
<1>3. ASSUME NEW p \in Processes, NEW t \in Tenants, t \in owed[p] PROVE Held(p, t)'
  <2>h. Held(p, t)
    BY <1>1, <1>3, Zenon DEF OwedGood
  <2>1. CASE LapseAny
    <3>1. PICK q \in Processes, u \in Tenants : remember(q, u, "empty")
      BY <2>1, Zenon DEF LapseAny, Lapse, invalidate
    <3>2. DirectoryTypeOK
      BY <1>1, Zenon DEF IInv, TypeOK
    <3>3. cache'[p][t] = IF p = q /\ t = u THEN "empty" ELSE cache[p][t]
      BY <3>1, <3>2, Remembered
    <3>4. UNCHANGED req
      BY <2>1, Zenon DEF LapseAny
    <3> QED
      BY <2>h, <3>3, <3>4, Zenon DEF Held, Quiet
  <2>2. CASE \E a \in Attempts : GetOAuthURL(a) \/ InitiateSAMLLogin(a)
    BY <2>h, <2>2, Zenon DEF GetOAuthURL, InitiateSAMLLogin, Initiate, directory, Held, Quiet
  <2>3. ASSUME NEW w \in Workers, Register(w) \/ Login(w) \/ Call(w) \/ Abandon(w)
        PROVE  Held(p, t)'
    <3>1. PICK r : UNCHANGED cache /\ Become(w, r) /\ Harmless(req[w], r)
      BY <1>1, <2>3, BehindEdge, Zenon
    <3>2. Quiet(r, p, t) /\ cache'[p][t] \in {"empty", "suspended"}
      BY <2>h, <3>1, HarmlessQuiet, Zenon DEF Held
    <3> QED
      BY <1>1, <2>h, <3>1, <3>2, HeldKeeps, Zenon
  <2>4. ASSUME NEW w \in Workers, Edge(w) PROVE Held(p, t)'
    BY <1>1, <1>3, <2>4, EdgeHeld, Zenon
  <2> QED
    BY <1>1, <2>1, <2>2, <2>3, <2>4, Zenon DEF Next, Step
<1>4. ASSUME NEW p \in Processes, NEW t \in owed'[p] PROVE t \in suspended' /\ Held(p, t)'
  <2>1. t \in Tenants /\ t \in suspended' /\ (t \in owed[p] \/ Clean(p, t)')
    BY <1>1, <1>4, Zenon DEF Next, Owed
  <2>2. Clean(p, t)' => Held(p, t)'
    BY Zenon DEF Clean, Held, Quiet
  <2> QED
    BY <1>3, <2>1, <2>2, Zenon
<1> QED
  BY <1>2, <1>4, Zenon DEF OwedGood

\* No step lets a request into a tenant its process owes to refuse.
LEMMA AdmitStep ==
    ASSUME IInv, OwedGood, Next, NEW w \in Workers, Admits(w)
    PROVE  req[w].tenant \notin owed[req[w].at]
<1>0. SUFFICES ASSUME req[w].tenant \in owed[req[w].at] PROVE FALSE
  BY Zenon
<1>t. /\ req \in [Workers -> Requests] /\ req[w] \in Requests /\ Routed(req[w])
      /\ Idle.step = "idle" /\ owed \in [Processes -> SUBSET Tenants]
  BY Zenon DEF IInv, TypeOK, RequestGood, Idle
<1>p. req[w].at \in Processes
  BY <1>t, Zenon DEF Admits, Routed, Fits
<1>h. Held(req[w].at, req[w].tenant)
  BY <1>0, <1>p, Zenon DEF OwedGood
<1>q. Quiet(req[w], req[w].at, req[w].tenant)
      /\ cache[req[w].at][req[w].tenant] \in {"empty", "suspended"}
  BY <1>h, Zenon DEF Held
<1>s. req[w].step \in {"ask", "lookup", "keep"}
  BY <1>q, Zenon DEF Admits, Quiet
<1>k. req[w].kind \in {"register", "login", "oauth"}
  BY <1>s, AtEdge, Zenon
<1>1. req'[w].step \in {"check", "find", "recall"}
  BY <1>k DEF Admits, Service
<1>2. Edge(w) \/ Register(w) \/ Login(w) \/ Call(w) \/ Abandon(w)
  <2>1. req'[w] # req[w]
    BY <1>1, <1>s, Zenon
  <2> QED
    BY <2>1, Mover, Zenon
<1>3. ~ Register(w)
  BY <1>s, Zenon DEF At, Register, check, count, submit, stamp, stampFails, undo, seed, assign,
     assignFails
<1>4. ~ Login(w)
  BY <1>s, Zenon DEF At, Login, find, recall, consume, load, enroll, adopt, SAMLResponse, others,
     sign, ServiceLogin
<1>5. ~ Call(w)
  BY <1>s, Zenon DEF At, Call, Request, Present, validate, permit, own, write, act
<1>6. ~ Abandon(w)
  BY <1>t, <1>1, Zenon DEF Abandon, Done, Become
<1>7. ask(w) \/ lookup(w) \/ lookupFails(w) \/ keep(w)
  BY <1>s, <1>2, <1>3, <1>4, <1>5, <1>6, Zenon
     DEF At, Edge, Submitted, Callback, Arrive, Operate, provision, setStatus, forget
<1>b. \A r : Become(w, r) => req'[w] = r
  BY <1>t, Zenon DEF Become
<1>r. ASSUME NEW r \in Requests, NEW status \in {"suspended", "failed"},
             Become(w, Answered(r, status))
      PROVE  FALSE
  <2>1. Answered(r, status).step \in {"idle", "ask"}
    BY <1>r, Refused, Zenon
  <2> QED
    BY <1>r, <1>b, <1>1, <2>1, Zenon
<1>8. CASE ask(w)
  <2>1. CASE Go(w, "lookup")
    <3>1. "lookup" \in Steps
      BY Zenon DEF Steps
    <3>2. PICK r : r = [req[w] EXCEPT !.step = "lookup"]
      BY Zenon
    <3>3. r.step = "lookup"
      BY <1>t, <3>1, <3>2, StepOf, Zenon
    <3> QED
      BY <1>b, <1>1, <2>1, <3>2, <3>3, Zenon DEF Go
  <2>2. CASE ~ Go(w, "lookup")
    <3>1. PICK status : status = cache[req[w].at][req[w].tenant]
      BY Zenon
    <3>2. status = "suspended" /\ Become(w, Answered(req[w], status))
      BY <1>8, <1>q, <2>2, <3>1, Zenon DEF ask, Cached
    <3> QED
      BY <1>r, <1>t, <3>2, Zenon
  <2> QED
    BY <2>1, <2>2, Zenon
<1>9. CASE lookup(w)
  <2>1. PICK r : r = [req[w] EXCEPT !.step = "keep", !.found = tenants[req[w].tenant]]
    BY Zenon
  <2>2. r.step = "keep"
    BY <1>t, <2>1, Zenon DEF Requests
  <2> QED
    BY <1>9, <1>b, <1>1, <2>1, <2>2, Zenon DEF lookup
<1>10. CASE lookupFails(w)
  BY <1>10, <1>t, <1>r, Zenon DEF lookupFails
<1>11. CASE keep(w)
  <2>1. req[w].found = "suspended"
    BY <1>11, <1>t, <1>q, Zenon DEF keep, At, Routed, Fits, Quiet
  <2>2. PICK r : r = [req[w] EXCEPT !.found = "none"]
    BY Zenon
  <2>3. r \in Requests
    BY <1>t, <2>2, Zenon DEF Requests
  <2>4. Become(w, Answered(r, "suspended"))
    BY <1>11, <2>1, <2>2, Zenon DEF keep
  <2> QED
    BY <1>r, <2>3, <2>4, Zenon
<1> QED
  BY <1>7, <1>8, <1>9, <1>10, <1>11, Zenon

\* handleRegister, checkTenant and Provision: once a process holds no answer older than
\* the suspension, it lets nobody into the tenant until the operator reactivates it.
THEOREM Holds == Spec => SuspensionHolds
<1> DEFINE A == \A w \in Workers : Admits(w) => req[w].tenant \notin owed[req[w].at]
<1>1. Init => OwedGood
  BY Zenon DEF Init, OwedGood
<1>2. IInv /\ OwedGood /\ [Next]_vars => OwedGood'
  BY OwedStep
<1>3. IInv /\ OwedGood /\ [Next]_vars => [A]_vars
  BY AdmitStep, Zenon
<1>4. Spec => [][A]_vars
  BY <1>1, <1>2, <1>3, Invariance, PTL DEF Spec
<1> QED
  BY <1>4, Zenon DEF SuspensionHolds

=============================================================================
