-------------------------- MODULE GatewayInvariant --------------------------
(***************************************************************************)
(* The inductive invariant of AuthGateway, for every set of tenants,         *)
(* processes, requests and deployments and every bound on accounts and on    *)
(* endings: who holds which row while it is being made, what a request has   *)
(* read, and what the history of founders and endings says.                  *)
(***************************************************************************)
EXTENDS AuthGateway

-----------------------------------------------------------------------------
(* The inductive invariant, in parts.                                        *)

\* Which handler a step belongs to, and what every step of it knows.
Fits(s, r) ==
    /\ s \in {"ask", "lookup", "keep"} => r.kind \in {"register", "login", "oauth"}
    /\ s \in {"ask", "lookup", "keep", "provision", "status", "forget"} => r.at \in Processes
    /\ s = "keep" => r.found # "none"
    /\ s \in {"provision", "forget"} => r.kind \in {"register", "operator"}
    /\ s = "status" => /\ r.kind = "operator" /\ r.op.name \in {"active", "suspended"}
                      /\ r.tenant \in Tenants
    /\ s \in {"check", "count", "submit", "stamp", "undo"} => r.kind = "register"
    /\ s \in {"seed", "assign"} => r.kind \in {"register", "saml"}
    /\ s = "find" => r.kind = "login"
    /\ s \in {"recall", "consume", "load", "enroll"} => r.kind \in {"oauth", "saml"}
    /\ s = "adopt" => r.kind = "oauth"
    /\ s = "others" => r.kind = "saml"
    /\ r.kind \in Kinds => r.tenant \in Tenants /\ r.email \in Emails
    /\ s \in {"validate", "permit", "own", "write", "act"} => r.tok \in tokens
Routed(r) == Fits(r.step, r)

\* The row of a registration that is not stamped yet is nobody else's.
Unclaimed(i) ==
    /\ i \in Ids /\ Exists(i) /\ accounts[i].tenant = NoTenant /\ ended[i] = 0
    /\ \A l \in links : l.account # i
    /\ \A tok \in tokens : tok.sub # i

Making == {"stamp", "undo"}

\* What a request has read is a row that still exists, with a version that counts the
\* endings it had seen.
Informed(r) ==
    /\ r.acc.version = r.acc.seen
    /\ r.acc.id \in Ids => Exists(r.acc.id)
    /\ r.step \in {"sign", "seed", "assign", "others"} => r.acc.tenant \in Tenants
    /\ r.step = "sign" => r.acc.id # NoId
    /\ r.step \in {"stamp", "undo", "adopt", "seed", "assign", "others"} => r.acc.id \in Ids
    /\ r.step \in Making => Unclaimed(r.acc.id)

\* A registration that will make a member has seen an account in its tenant.
Ranked(r) ==
    /\ r.step \in {"submit", "stamp", "seed", "assign"} => r.role \in {"owner", "member"}
    /\ r.step \in {"submit", "stamp"} /\ r.role = "member" => founder[r.tenant].how # "none"
    /\ r.step \in {"seed", "assign"} /\ r.role = "member" =>
            \A t \in Tenants : ~ Entering(t, r.acc.id)
    /\ r.step = "others" => \A t \in Tenants : ~ Entering(t, r.acc.id)

RequestGood(r) == Routed(r) /\ Informed(r) /\ Ranked(r)

\* Two requests never hold the same row while one of them is making it.
Exclusive ==
    \A v, w \in Workers :
        v # w /\ req[v].step \in Making => req[v].acc.id # req[w].acc.id

\* The version of an account counts the endings of its sessions; links, tokens and
\* service accounts belong to something.
StoreGood ==
    /\ \A i \in Ids : Exists(i) => accounts[i].version = ended[i]
    /\ \A i \in Ids : ~ Exists(i) => ended[i] = 0
    /\ \A l \in links : Exists(l.account)
    /\ \A l \in links : l.provider = "saml" => accounts[l.account].tenant \in Tenants
    /\ \A i \in MachineIds : machines[i].status # "none" => machines[i].tenant \in Tenants
    /\ \A tok \in tokens : tok.version = tok.seen
    /\ \A tok \in tokens : tok.sub \in Ids => Exists(tok.sub)

\* A tenant without a founder has no account; a founder on its way is an account.
FounderGood ==
    \A t \in Tenants :
        /\ founder[t].how = "none" => AccountsIn(t) = {}
        /\ founder[t].how = "entering" =>
                /\ founder[t].id \in Ids /\ Exists(founder[t].id)
                /\ accounts[founder[t].id].tenant \in Tenants
        /\ founder[t].how # "member"

IInv ==
    /\ TypeOK
    /\ \A w \in Workers : RequestGood(req[w])
    /\ Exclusive
    /\ StoreGood
    /\ FounderGood
=============================================================================
