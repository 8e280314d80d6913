------------------------------ MODULE Sessions ------------------------------
(***************************************************************************)
(* Tenant sessions: signed tokens, and the table of revoked sessions with    *)
(* the cache each process keeps in front of it.                              *)
(*                                                                           *)
(* A token is what its signed claims say: its session and when it was issued *)
(* (tenant, subject and token version are copied along).  It is presented    *)
(* with one of the two lifetimes the pair was signed with, and its signature *)
(* is taken to be genuine.  Time is a counter that all processes read.       *)
(***************************************************************************)
EXTENDS Integers

CONSTANTS Processes, Workers, Sessions, NoProcess, NoSession,
    RevocationTTL, Expiry, RefreshExpiry,
    MaxLatency,     \* how long a request takes at most
    MaxTime         \* bound: the last instant

ASSUME SessionsAssumption ==
    /\ NoProcess \notin Processes /\ NoSession \notin Sessions
    /\ RevocationTTL \in Nat \ {0}
    /\ Expiry \in Nat \ {0} /\ RefreshExpiry \in Nat \ {0}
    /\ Expiry <= RefreshExpiry
    /\ MaxLatency \in Nat /\ MaxTime \in Nat

VARIABLES
    now,
    tokens,             \* every token pair signed so far
    row,                \* auth_revoked_sessions: expires_at, or Never
    cache,              \* cachedRevocation of each process and session
    worker,             \* what each request handler is doing
    logout,             \* the last revocation of each session (history)
    raced               \* processes to which a race denies its promise (history)

store == <<tokens, row>>
history == <<logout, raced>>
vars == <<now, store, cache, worker, history>>

Never == -1
Time == 0..MaxTime
Token(s, t) == [sid |-> s, iat |-> t]
Entry(a, t) == [answer |-> a, checkedAt |-> t]
NoEntry == Entry("none", Never)

\* A logout: when it was asked for, when its row was written, and on which
\* processes a call that revoked the session has returned.
Logout(a, t, P) == [asked |-> a, wrote |-> t, honoured |-> P]
NoLogout == Logout(Never, Never, {})

\* A request: where it stands, the process it runs on, when it began, the token it
\* was given, the rows it listed, and what it is owed (history).
Task(step, p, t, tok, found, owed) ==
    [step |-> step, at |-> p, began |-> t, tok |-> tok, found |-> found, owed |-> owed]
NoToken == Token(NoSession, Never)
Idle == Task("idle", NoProcess, Never, NoToken, {}, {})

Promises == {"here", "everywhere", "forGood"}

TypeOK ==
    /\ now \in Time
    /\ tokens \subseteq [sid : Sessions, iat : Time]
    /\ row \in [Sessions -> {Never} \union 0..(MaxTime + RefreshExpiry)]
    /\ cache \in [Processes -> [Sessions ->
            [answer : {"none", "live", "revoked"}, checkedAt : {Never} \union Time]]]
    /\ worker \in [Workers ->
            [step : {"idle", "ask", "keepLive", "keepRevoked", "pass", "write",
                     "insert", "update", "honour", "erase", "forget"},
             at : Processes \union {NoProcess},
             began : {Never} \union Time,
             tok : [sid : Sessions, iat : Time] \union {NoToken},
             found : SUBSET Sessions,
             owed : SUBSET Promises]]
    /\ logout \in [Sessions -> [asked : {Never} \union Time, wrote : {Never} \union Time,
                                honoured : SUBSET Processes]]
    /\ raced \in [Sessions -> SUBSET Processes]

Init ==
    /\ now = 0
    /\ tokens = {}
    /\ row = [s \in Sessions |-> Never]
    /\ cache = [p \in Processes |-> [s \in Sessions |-> NoEntry]]
    /\ worker = [w \in Workers |-> Idle]
    /\ logout = [s \in Sessions |-> NoLogout]
    /\ raced = [s \in Sessions |-> {}]

Become(w, task) == worker' = [worker EXCEPT ![w] = task]
Go(w, step) == Become(w, [worker[w] EXCEPT !.step = step])
Return(w) == Become(w, Idle)

tick ==
    /\ now < MaxTime
    /\ \A w \in Workers : worker[w] # Idle => now - worker[w].began < MaxLatency
    /\ now' = now + 1
    /\ UNCHANGED <<store, cache, worker, history>>

\* A login signs a pair for a session with a fresh identifier.
CreateForTenant(s) ==
    /\ \A tok \in tokens : tok.sid # s
    /\ tokens' = tokens \union {Token(s, now)}
    /\ UNCHANGED <<now, row, cache, worker, history>>

-----------------------------------------------------------------------------
(* Presenting a token: ValidateClaims and Refresh both parse it and then ask *)
(* IsRevoked, which answers from the cache or asks the table and caches the  *)
(* answer.  Only then do they differ: accept or reissue.                     *)

parse(tok, lifetime) == now < tok.iat + lifetime

\* What the last logout promises about a check of tok that begins on p now
\* (history).
Owed(p, tok) ==
    LET out == logout[tok.sid]
        over == out.wrote # Never /\ now >= out.wrote + RevocationTTL
    IN {g \in Promises :
            \/ g = "here" /\ p \in out.honoured /\ tok.iat <= out.asked
            \/ g = "everywhere" /\ over /\ tok.iat <= out.asked
            \/ g = "forGood" /\ over}

Cached(p, s) == cache[p][s].answer # "none" /\ now - cache[p][s].checkedAt < RevocationTTL

\* The first half of IsRevoked.
check(w, p, tok) ==
    /\ worker[w] = Idle
    /\ \E lifetime \in {Expiry, RefreshExpiry} : parse(tok, lifetime)
    /\ ~ (Cached(p, tok.sid) /\ cache[p][tok.sid].answer = "revoked")
    /\ Become(w, Task(IF Cached(p, tok.sid) THEN "pass" ELSE "ask",
                      p, now, tok, {}, Owed(p, tok)))
    /\ UNCHANGED <<now, store, cache, history>>

ask(w) ==
    /\ worker[w].step = "ask"
    /\ Go(w, IF row[worker[w].tok.sid] # Never THEN "keepRevoked" ELSE "keepLive")
    /\ UNCHANGED <<now, store, cache, history>>

Remember(p, s, answer) == cache' = [cache EXCEPT ![p][s] = Entry(answer, now)]

keep(w) ==
    /\ worker[w].step \in {"keepLive", "keepRevoked"}
    /\ Remember(worker[w].at, worker[w].tok.sid,
                IF worker[w].step = "keepLive" THEN "live" ELSE "revoked")
    /\ IF worker[w].step = "keepLive" THEN Go(w, "pass") ELSE Return(w)
    /\ UNCHANGED <<now, store, history>>

\* ValidateClaims returns the claims.
accept(w) ==
    /\ worker[w].step = "pass"
    /\ Return(w)
    /\ UNCHANGED <<now, store, cache, history>>

\* Refresh signs a pair for the same session.
reissue(w) ==
    /\ worker[w].step = "pass"
    /\ tokens' = tokens \union {Token(worker[w].tok.sid, now)}
    /\ Return(w)
    /\ UNCHANGED <<now, row, cache, history>>

-----------------------------------------------------------------------------
(* Logging out: Delete takes the session from the claims and Revoke writes    *)
(* its row by FirstOrCreate with Assign, a select and then an insert or an   *)
(* update; then the process's own cache.                                     *)

Delete(w, p, tok) ==
    /\ worker[w] = Idle
    /\ \E lifetime \in {Expiry, RefreshExpiry} : parse(tok, lifetime)
    /\ Become(w, Task("write", p, now, tok, {}, {}))
    /\ UNCHANGED <<now, store, cache, history>>

find(w) ==
    /\ worker[w].step = "write"
    /\ Go(w, IF row[worker[w].tok.sid] = Never THEN "insert" ELSE "update")
    /\ UNCHANGED <<now, store, cache, history>>

\* Processes that have read "not revoked" and not yet cached it (history).
InFlight(s) ==
    {worker[v].at : v \in {v \in Workers : worker[v].step = "keepLive" /\ worker[v].tok.sid = s}}

Revoked(w, s) ==
    /\ row' = [row EXCEPT ![s] = worker[w].began + RefreshExpiry]
    /\ logout' = [logout EXCEPT ![s] = Logout(worker[w].began, now, {})]
    /\ raced' = [raced EXCEPT ![s] = @ \union InFlight(s)]

\* Mutant: a repeated logout adds to the row's expiry (breaks TypeOK).
updateExtends(w) ==
    LET s == worker[w].tok.sid IN
    /\ worker[w].step = "update"
    /\ row' = [row EXCEPT ![s] = @ + RefreshExpiry]
    /\ Go(w, "honour")
    /\ UNCHANGED <<now, tokens, cache, history>>

\* A second insert of the same key is refused, and Delete returns the error.
insert(w) ==
    LET s == worker[w].tok.sid IN
    /\ worker[w].step = "insert"
    /\ IF row[s] = Never
       THEN Revoked(w, s) /\ Go(w, "honour")
       ELSE Return(w) /\ UNCHANGED <<row, history>>
    /\ UNCHANGED <<now, tokens, cache>>

\* An update of a row that has been purged meanwhile changes nothing and is no
\* error, and one that began before the logout it overwrites shortens the row's
\* life; nothing is promised after either.
update(w) ==
    LET s == worker[w].tok.sid IN
    /\ worker[w].step = "update"
    /\ IF row[s] # Never /\ row[s] <= worker[w].began + RefreshExpiry
       THEN Revoked(w, s)
       ELSE /\ row' = [row EXCEPT ![s] = IF @ = Never THEN Never
                                        ELSE worker[w].began + RefreshExpiry]
            /\ raced' = [raced EXCEPT ![s] = Processes]
            /\ UNCHANGED logout
    /\ Go(w, "honour")
    /\ UNCHANGED <<now, tokens, cache>>

\* Mutant: the revoking process keeps its cached answer (breaks LogoutIsImmediate).
honourLater(w) ==
    LET s == worker[w].tok.sid IN
    /\ worker[w].step = "honour"
    /\ logout' = [logout EXCEPT ![s].honoured = @ \union {worker[w].at}]
    /\ Return(w)
    /\ UNCHANGED <<now, store, cache, raced>>

honour(w) ==
    LET s == worker[w].tok.sid IN
    /\ worker[w].step = "honour"
    /\ Remember(worker[w].at, s, "revoked")
    /\ logout' = [logout EXCEPT ![s].honoured = @ \union {worker[w].at}]
    /\ Return(w)
    /\ UNCHANGED <<now, store, raced>>

-----------------------------------------------------------------------------
(* The purge: lists the rows that have expired, deletes by the same cutoff,  *)
(* and drops the listed sessions from the cache.                             *)

Expired(cutoff) == {s \in Sessions : row[s] # Never /\ row[s] <= cutoff}

\* Mutant: a cutoff at which the access token has expired but the refresh token
\* has not (breaks LogoutReachesAll).
PurgeEarly(w, p) ==
    LET cutoff == now + RefreshExpiry - Expiry IN
    /\ worker[w] = Idle
    /\ Expired(cutoff) # {}
    /\ Become(w, Task("erase", p, cutoff, NoToken, Expired(cutoff), {}))
    /\ UNCHANGED <<now, store, cache, history>>

PurgeExpired(w, p) ==
    /\ worker[w] = Idle
    /\ Expired(now) # {}
    /\ Become(w, Task("erase", p, now, NoToken, Expired(now), {}))
    /\ UNCHANGED <<now, store, cache, history>>

erase(w) ==
    /\ worker[w].step = "erase"
    /\ row' = [s \in Sessions |-> IF s \in Expired(worker[w].began) THEN Never ELSE row[s]]
    /\ Go(w, "forget")
    /\ UNCHANGED <<now, tokens, cache, history>>

forget(w) ==
    /\ worker[w].step = "forget"
    /\ cache' = [cache EXCEPT ![worker[w].at] =
                    [s \in Sessions |-> IF s \in worker[w].found THEN NoEntry ELSE @[s]]]
    /\ Return(w)
    /\ UNCHANGED <<now, store, history>>

-----------------------------------------------------------------------------
(* Faults.                                                                   *)

\* Mutant: a failed query counts as an answer (breaks RevokedWasAsked).
queryFailsRevoked(w) ==
    /\ worker[w].step \in {"ask", "write", "insert", "update", "erase"}
    /\ IF worker[w].step = "ask" THEN Go(w, "keepRevoked") ELSE Return(w)
    /\ UNCHANGED <<now, store, cache, history>>

\* A query fails: the request is refused, and a logout or a purge returns the
\* error with what it has not done left undone.
queryFails(w) ==
    /\ worker[w].step \in {"ask", "write", "insert", "update", "erase"}
    /\ Return(w)
    /\ UNCHANGED <<now, store, cache, history>>

\* A process restarts: its cache and the requests on it are gone.
restart(p) ==
    /\ cache' = [cache EXCEPT ![p] = [s \in Sessions |-> NoEntry]]
    /\ worker' = [w \in Workers |-> IF worker[w].at = p THEN Idle ELSE worker[w]]
    /\ UNCHANGED <<now, store, history>>

Request(w) ==
    \/ \E p \in Processes : PurgeExpired(w, p)
    \/ \E p \in Processes, tok \in tokens :
        check(w, p, tok) \/ Delete(w, p, tok)
    \/ ask(w) \/ keep(w) \/ accept(w) \/ reissue(w)
    \/ find(w) \/ insert(w) \/ update(w) \/ honour(w)
    \/ erase(w) \/ forget(w)
    \/ queryFails(w)

Next ==
    \/ tick
    \/ \E w \in Workers : Request(w)
    \/ \E s \in Sessions : CreateForTenant(s)
    \/ \E p \in Processes : restart(p)

Spec == Init /\ [][Next]_vars

-----------------------------------------------------------------------------
(* Properties.                                                               *)

\* A token is accepted or refreshed, and nothing excuses it: the token has not
\* expired since it was parsed, in which case the query may come after the purge,
\* and no race leaves the process without the promise.  Such a race is a check
\* whose older answer is cached after the logout, an update that found its row
\* purged, or one that overwrote a later logout's expiry.
Honours(w) ==
    /\ accept(w) \/ reissue(w)
    /\ parse(worker[w].tok, RefreshExpiry)
    /\ worker[w].at \notin raced[worker[w].tok.sid]

\* Once Delete has returned, the process that ran it accepts and refreshes none
\* of the session's tokens issued before the logout, now or after the row is
\* purged.
LogoutIsImmediate ==
    [][\A w \in Workers : Honours(w) => "here" \notin worker[w].owed]_vars

\* From RevocationTTL after the row was written, no process accepts or refreshes
\* a token issued before the logout: no cached answer, restart, failed query or
\* purge brings it back.
LogoutReachesAll ==
    [][\A w \in Workers : Honours(w) => "everywhere" \notin worker[w].owed]_vars

\* Revocation is surgical: no table row, cached answer or check in progress
\* calls a session revoked that nobody logged out.
RevokedWasAsked ==
    \A s \in Sessions : logout[s] = NoLogout =>
        /\ row[s] = Never
        /\ \A p \in Processes : cache[p][s].answer # "revoked"
        /\ \A w \in Workers : worker[w].step = "keepRevoked" => worker[w].tok.sid # s

\* "the entry must survive until the longest-lived token bound to this session
\* would have expired": from RevocationTTL after the logout no token of the
\* session is accepted, those refreshed meanwhile included.
LoggedOutForGood ==
    [][\A w \in Workers : Honours(w) => "forGood" \notin worker[w].owed]_vars
=============================================================================
