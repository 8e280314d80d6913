--------------------------- MODULE SessionsProofs ---------------------------
(***************************************************************************)
(* Proofs about Sessions, for any number of processes, requests and          *)
(* sessions, and any lifetimes, cache age and clock.                         *)
(***************************************************************************)
EXTENDS Sessions, TLAPS

-----------------------------------------------------------------------------
(* The types, by name.                                                       *)

Tokens == [sid : Sessions, iat : Time]
Rows == {Never} \union 0..(MaxTime + RefreshExpiry)
Entries == [answer : {"none", "live", "revoked"}, checkedAt : {Never} \union Time]
Tasks ==
    [step : {"idle", "ask", "keepLive", "keepRevoked", "pass", "write",
             "insert", "update", "honour", "erase", "forget"},
     at : Processes \union {NoProcess}, began : {Never} \union Time,
     tok : Tokens \union {NoToken}, found : SUBSET Sessions, owed : SUBSET Promises]
Logouts == [asked : {Never} \union Time, wrote : {Never} \union Time, honoured : SUBSET Processes]

Types ==
    /\ now \in Time /\ tokens \subseteq Tokens
    /\ row \in [Sessions -> Rows]
    /\ cache \in [Processes -> [Sessions -> Entries]]
    /\ worker \in [Workers -> Tasks]
    /\ logout \in [Sessions -> Logouts]
    /\ raced \in [Sessions -> SUBSET Processes]

-----------------------------------------------------------------------------
(* The inductive invariant, in parts.                                        *)

\* The session has been logged out.
Asked(s) == logout[s].asked # Never

\* The last logout promises something about p.
Promised(p, s) == Asked(s) /\ p \notin raced[s]

\* Every token issued before the last logout has expired.
Over(s) == now >= logout[s].asked + RefreshExpiry

\* The row of a session that was logged out outlives the tokens it is about, unless
\* it was cut short, which is a race on every process.
RowGood(s) ==
    /\ ~Asked(s) => logout[s] = NoLogout /\ row[s] = Never
    /\ Asked(s) => logout[s].wrote \in 0..now
    /\ \A p \in Processes : Promised(p, s) =>
           IF row[s] = Never THEN Over(s) ELSE row[s] >= logout[s].asked + RefreshExpiry

\* A process remembers a session as live past its logout only if it asked before
\* the row was written and has not honoured the logout itself.
CacheGood(p, s) ==
    /\ cache[p][s].checkedAt <= now
    /\ cache[p][s].answer = "revoked" => Asked(s)
    /\ /\ cache[p][s].answer = "live" /\ Promised(p, s)
       /\ p \in logout[s].honoured \/ cache[p][s].checkedAt > logout[s].wrote
       => Over(s)

OnToken == {"ask", "keepLive", "keepRevoked", "pass", "write", "insert", "update", "honour"}
Checking == {"ask", "keepLive", "keepRevoked", "pass"}

\* A request holds a token while it needs one, has found a logout where it acts on
\* one, ...
TaskTyped(w) ==
    /\ worker[w].step # "idle" => worker[w].at \in Processes /\ worker[w].began \in 0..now
    /\ worker[w].step \in OnToken => worker[w].tok \in Tokens
    /\ worker[w].step \in {"keepRevoked", "update", "honour"} => Asked(worker[w].tok.sid)
    /\ worker[w].owed # {} => worker[w].step \in Checking

\* ... has read no row only when the tokens of the logout had expired, and is on its
\* way to accept a token that was promised away only once that has expired.
Strict(w) == worker[w].owed \cap {"here", "everywhere"} # {}
TaskKept(w) ==
    /\ worker[w].step = "keepLive" /\ Promised(worker[w].at, worker[w].tok.sid)
          => Over(worker[w].tok.sid)
    /\ Strict(w) /\ worker[w].at \notin raced[worker[w].tok.sid] =>
          \/ now >= worker[w].tok.iat + RefreshExpiry
          \/ /\ worker[w].tok.iat <= logout[worker[w].tok.sid].asked
             /\ worker[w].step \notin {"keepLive", "pass"}

IInv ==
    /\ Types
    /\ \A s \in Sessions : RowGood(s)
    /\ \A p \in Processes, s \in Sessions : CacheGood(p, s)
    /\ \A w \in Workers : TaskTyped(w) /\ TaskKept(w)

-----------------------------------------------------------------------------
(* The parts of the state.                                                   *)

\* Types is TypeOK with its record sets named.
LEMMA TypesNamed == TypeOK <=> Types
  BY Zenon DEF TypeOK, Types, Tokens, Rows, Entries, Tasks, Logouts

\* Times are numbers.
LEMMA Times ==
    /\ Time \subseteq Nat /\ Never \in Int /\ Never \notin Nat
    /\ RefreshExpiry \in Nat /\ RevocationTTL \in Nat /\ RevocationTTL > 0
    /\ Rows \subseteq Int /\ {Never} \union Time \subseteq Int
  BY SessionsAssumption DEF Time, Never, Rows

\* What the parts of the state are.
LEMMA RowIs ==
    ASSUME Types, NEW s \in Sessions
    PROVE  row[s] \in Int
  BY Times, Zenon DEF Types

\* What a logout's record holds.
LEMMA LogoutIs ==
    ASSUME Types, NEW s \in Sessions
    PROVE  /\ logout[s].asked \in Int /\ logout[s].wrote \in Int
           /\ logout[s].honoured \subseteq Processes
           /\ Asked(s) => logout[s].asked \in Nat
<1>1. logout[s] \in Logouts
  BY Zenon DEF Types
<1>2. /\ logout[s].asked \in {Never} \union Time /\ logout[s].wrote \in {Never} \union Time
      /\ logout[s].honoured \subseteq Processes
  BY <1>1 DEF Logouts
<1> QED
  BY <1>2, Times, Zenon DEF Asked

\* What a cache entry holds.
LEMMA EntryIs ==
    ASSUME Types, NEW p \in Processes, NEW s \in Sessions
    PROVE  cache[p][s].checkedAt \in Int
<1>1. cache[p][s] \in Entries
  BY Zenon DEF Types
<1>2. cache[p][s].checkedAt \in {Never} \union Time
  BY <1>1 DEF Entries
<1> QED
  BY <1>2, Times, Zenon

\* What a request's token holds.
LEMMA TokenIs ==
    ASSUME NEW tok \in Tokens
    PROVE  tok.sid \in Sessions /\ tok.iat \in Nat
<1>1. tok.sid \in Sessions /\ tok.iat \in Time
  BY DEF Tokens
<1> QED
  BY <1>1, Times, Zenon

-----------------------------------------------------------------------------
(* What a step leaves alone stays good.                                      *)

\* Time passes, races are never forgotten, and the session has no new logout.
Calm(s) ==
    /\ now <= now'
    /\ raced[s] \subseteq raced'[s]
    /\ logout'[s].asked = logout[s].asked
    /\ logout'[s].wrote = logout[s].wrote
    /\ logout'[s] = logout[s] \/ Asked(s)

\* A calm step leaves what is promised of a session as it was.
LEMMA CalmSession ==
    ASSUME Types, Types', NEW s \in Sessions, Calm(s)
    PROVE  /\ Asked(s)' <=> Asked(s)
           /\ \A p : Promised(p, s)' => Promised(p, s)
           /\ Over(s) => Over(s)'
<1>1. Asked(s)' <=> Asked(s)
  BY Zenon DEF Calm, Asked
<1>2. Over(s) => Over(s)'
  <2>1. now \in Nat /\ now' \in Nat /\ logout[s].asked \in Int
    BY Times, LogoutIs, Zenon DEF Types
  <2> QED
    BY <2>1, Times DEF Calm, Over
<1> QED
  BY <1>1, <1>2, Zenon DEF Calm, Promised

\* A calm step keeps the row good, ...
LEMMA RowStays ==
    ASSUME Types, Types', NEW s \in Sessions, RowGood(s), Calm(s), row'[s] = row[s]
    PROVE  RowGood(s)'
<1>1. ~Asked(s)' => logout'[s] = NoLogout /\ row'[s] = Never
  BY CalmSession, Zenon DEF RowGood, Calm
<1>2. Asked(s)' => logout'[s].wrote \in 0..now'
  <2>1. now \in Nat /\ now' \in Nat /\ (Asked(s)' => logout[s].wrote \in 0..now)
    BY CalmSession, Times, Zenon DEF RowGood, Types
  <2> QED
    BY <2>1 DEF Calm
<1>3. ASSUME NEW p \in Processes, Promised(p, s)'
      PROVE  IF row'[s] = Never THEN Over(s)'
             ELSE row'[s] >= logout'[s].asked + RefreshExpiry
  <2>1. Promised(p, s)
    BY <1>3, CalmSession, Zenon
  <2>2. IF row[s] = Never THEN Over(s) ELSE row[s] >= logout[s].asked + RefreshExpiry
    BY <2>1, Zenon DEF RowGood
  <2> QED
    BY <2>2, CalmSession, Zenon DEF Calm
<1> QED
  BY <1>1, <1>2, <1>3, Zenon DEF RowGood

\* ... each process's cache of it, ...
LEMMA CacheStays ==
    ASSUME Types, Types', NEW p \in Processes, NEW s \in Sessions, CacheGood(p, s), Calm(s),
           cache'[p][s] = cache[p][s], p \in logout'[s].honoured => p \in logout[s].honoured
    PROVE  CacheGood(p, s)'
<1>1. cache'[p][s].checkedAt <= now'
  <2>1. /\ now \in Nat /\ now' \in Nat /\ cache[p][s].checkedAt \in Int
        /\ cache[p][s].checkedAt <= now
    BY Times, EntryIs, Zenon DEF CacheGood, Types
  <2> QED
    BY <2>1 DEF Calm
<1> QED
  BY <1>1, CalmSession, Zenon DEF CacheGood, Calm

\* ... and the requests about it.
LEMMA TaskStays ==
    ASSUME Types, Types', NEW w \in Workers, TaskTyped(w), TaskKept(w), worker'[w] = worker[w],
           now <= now', worker[w].step \in OnToken => Calm(worker[w].tok.sid)
    PROVE  TaskTyped(w)' /\ TaskKept(w)'
<1>1. now \in Nat /\ now' \in Nat
  BY Times, Zenon DEF Types
<1>2. worker[w].step # "idle" => worker[w].at \in Processes /\ worker[w].began \in 0..now'
  BY <1>1 DEF TaskTyped
<1>3. worker[w].step \in OnToken => worker[w].tok.sid \in Sessions /\ worker[w].tok.iat \in Nat
  BY TokenIs, Zenon DEF TaskTyped
<1>4. TaskTyped(w)'
  BY <1>2, <1>3, CalmSession, Zenon DEF TaskTyped, OnToken
<1>5. /\ worker[w].step = "keepLive" => worker[w].step \in OnToken
      /\ Strict(w) => worker[w].step \in OnToken
  BY Zenon DEF TaskTyped, Strict, OnToken, Checking
<1>6. worker[w].step = "keepLive" /\ Promised(worker[w].at, worker[w].tok.sid)'
        => Over(worker[w].tok.sid)'
  BY <1>3, <1>5, CalmSession, Zenon DEF TaskKept
<1>7. Strict(w) /\ now >= worker[w].tok.iat + RefreshExpiry => now' >= worker[w].tok.iat + RefreshExpiry
  BY <1>1, <1>3, <1>5, Times
<1>8. TaskKept(w)'
  BY <1>3, <1>5, <1>6, <1>7, Zenon DEF TaskKept, Strict, Calm
<1> QED
  BY <1>4, <1>8, Zenon

\* Without a new logout, what a step changes has to be good again, and that is all.
LEMMA CalmInv ==
    ASSUME IInv, Types', now <= now', \A s \in Sessions : Calm(s),
           \A s \in Sessions : row'[s] = row[s] \/ RowGood(s)',
           \A p \in Processes, s \in Sessions :
               \/ /\ cache'[p][s] = cache[p][s]
                  /\ p \in logout'[s].honoured => p \in logout[s].honoured
               \/ CacheGood(p, s)',
           \A w \in Workers : worker'[w] = worker[w] \/ (TaskTyped(w)' /\ TaskKept(w)')
    PROVE  IInv'
<1>1. \A s \in Sessions : RowGood(s)'
  BY RowStays, Zenon DEF IInv
<1>2. \A p \in Processes, s \in Sessions : CacheGood(p, s)'
  BY CacheStays, Zenon DEF IInv
<1>3. \A w \in Workers : TaskTyped(w)' /\ TaskKept(w)'
  <2>1. \A w \in Workers : worker[w].step \in OnToken => worker[w].tok.sid \in Sessions
    BY TokenIs, Zenon DEF IInv, TaskTyped
  <2> QED
    BY <2>1, TaskStays, Zenon DEF IInv
<1> QED
  BY <1>1, <1>2, <1>3, Zenon DEF IInv

\* Nothing happens to the sessions.
LEMMA CalmSame ==
    ASSUME Types, UNCHANGED <<now, history>>
    PROVE  now <= now' /\ \A s \in Sessions : Calm(s)
<1>1. now <= now'
  BY Times DEF Types
<1> QED
  BY <1>1, Zenon DEF Calm, history

-----------------------------------------------------------------------------
(* How a request moves.                                                      *)

Steps == {"idle", "ask", "keepLive", "keepRevoked", "pass", "write",
          "insert", "update", "honour", "erase", "forget"}

\* What a request's state holds.
LEMMA TaskIs ==
    ASSUME NEW step \in Steps, NEW p \in Processes \union {NoProcess}, NEW t \in {Never} \union Time,
           NEW tok \in Tokens \union {NoToken}, NEW found \in SUBSET Sessions,
           NEW owed \in SUBSET Promises
    PROVE  /\ Task(step, p, t, tok, found, owed) \in Tasks
           /\ Task(step, p, t, tok, found, owed).step = step
           /\ Task(step, p, t, tok, found, owed).at = p
           /\ Task(step, p, t, tok, found, owed).began = t
           /\ Task(step, p, t, tok, found, owed).tok = tok
           /\ Task(step, p, t, tok, found, owed).found = found
           /\ Task(step, p, t, tok, found, owed).owed = owed
  BY DEF Task, Tasks, Steps

\* An idle request holds nothing.
LEMMA IdleIs == Idle \in Tasks /\ Idle.step = "idle" /\ Idle.owed = {}
  BY DEF Idle, Task, Tasks

\* A request that goes on keeps its token and process.
LEMMA GoIs ==
    ASSUME Types, NEW w \in Workers, NEW step \in Steps, Go(w, step)
    PROVE  /\ worker' \in [Workers -> Tasks]
           /\ \A v \in Workers : v # w => worker'[v] = worker[v]
           /\ worker'[w].step = step
           /\ worker'[w].at = worker[w].at /\ worker'[w].began = worker[w].began
           /\ worker'[w].tok = worker[w].tok /\ worker'[w].found = worker[w].found
           /\ worker'[w].owed = worker[w].owed
<1> DEFINE task == [worker[w] EXCEPT !.step = step]
<1>1. worker \in [Workers -> Tasks] /\ worker[w] \in Tasks
  BY Zenon DEF Types
<1>2. /\ task \in Tasks /\ task.step = step
      /\ task.at = worker[w].at /\ task.began = worker[w].began /\ task.tok = worker[w].tok
      /\ task.found = worker[w].found /\ task.owed = worker[w].owed
  BY <1>1 DEF Tasks, Steps
<1>3. worker' = [worker EXCEPT ![w] = task]
  BY Zenon DEF Go, Become
<1> HIDE DEF task
<1>4. worker' \in [Workers -> Tasks] /\ worker'[w] = task
      /\ \A v \in Workers : v # w => worker'[v] = worker[v]
  BY <1>1, <1>2, <1>3, Zenon
<1> QED
  BY <1>2, <1>4, Zenon

\* A request's next state, where Become sets it.
LEMMA BecomeIs ==
    ASSUME Types, NEW w \in Workers, NEW task \in Tasks, Become(w, task)
    PROVE  /\ worker' \in [Workers -> Tasks] /\ worker'[w] = task
           /\ \A v \in Workers : v # w => worker'[v] = worker[v]
  BY Zenon DEF Types, Become

\* A request that is over is good.
LEMMA IdleGood ==
    ASSUME NEW w \in Workers, worker'[w] = Idle
    PROVE  TaskTyped(w)' /\ TaskKept(w)'
<1>1. worker'[w].step = "idle" /\ worker'[w].owed = {}
  BY IdleIs, Zenon
<1> QED
  BY <1>1, Zenon DEF TaskTyped, TaskKept, Strict, OnToken

\* A request that returns is idle again.
LEMMA ReturnIs ==
    ASSUME Types, NEW w \in Workers, Return(w)
    PROVE  /\ worker' \in [Workers -> Tasks] /\ TaskTyped(w)' /\ TaskKept(w)'
           /\ \A v \in Workers : v # w => worker'[v] = worker[v]
<1>1. /\ worker' \in [Workers -> Tasks] /\ worker'[w] = Idle
      /\ \A v \in Workers : v # w => worker'[v] = worker[v]
  BY IdleIs, BecomeIs, Zenon DEF Return
<1> QED
  BY <1>1, IdleGood, Zenon

\* A step of one request that changes nothing else, new tokens aside.
LEMMA RequestMove ==
    ASSUME IInv, NEW w \in Workers, worker' \in [Workers -> Tasks], tokens' \subseteq Tokens,
           \A v \in Workers : v # w => worker'[v] = worker[v],
           TaskTyped(w)', TaskKept(w)', UNCHANGED <<now, row, cache, history>>
    PROVE  IInv'
<1>1. Types'
  BY Zenon DEF IInv, Types, history
<1>2. now <= now' /\ \A s \in Sessions : Calm(s)
  BY CalmSame, Zenon DEF IInv
<1>3. UNCHANGED <<row, cache, logout>>
  BY Zenon DEF history
<1> QED
  BY <1>1, <1>2, <1>3, CalmInv, Zenon

-----------------------------------------------------------------------------
(* Presenting a token.                                                       *)

\* The first half of IsRevoked goes on with a token that is owed a refusal only if
\* it has to ask the table, or the token has expired.
LEMMA CheckKeeps ==
    ASSUME IInv, NEW w \in Workers, NEW p \in Processes, NEW tok \in tokens, check(w, p, tok)
    PROVE  IInv'
<1> DEFINE s == tok.sid
           step == IF Cached(p, s) THEN "pass" ELSE "ask"
           owed == Owed(p, tok)
           task == Task(step, p, now, tok, {}, owed)
<1>1. Types /\ tok \in Tokens /\ now \in Time /\ now \in Nat
  BY Times, Zenon DEF IInv, Types
<1>2. s \in Sessions /\ tok.iat \in Nat
  BY <1>1, TokenIs, Zenon
<1>3. /\ Become(w, task) /\ ~(Cached(p, s) /\ cache[p][s].answer = "revoked")
      /\ UNCHANGED <<now, tokens, row, cache, history>>
  BY Zenon DEF check, store
<1>4. step \in Steps /\ owed \in SUBSET Promises
  BY Zenon DEF Steps, Owed
<1>5. step = "pass" => /\ cache[p][s].answer = "live"
                       /\ now - cache[p][s].checkedAt < RevocationTTL
  <2>1. cache[p][s] \in Entries
    BY <1>1, <1>2, Zenon DEF Types
  <2>2. cache[p][s].answer \in {"none", "live", "revoked"}
    BY <2>1 DEF Entries
  <2> QED
    BY <1>3, <2>2, Zenon DEF Cached
<1>6. ASSUME owed \cap {"here", "everywhere"} # {}
      PROVE  /\ tok.iat <= logout[s].asked
             /\ \/ p \in logout[s].honoured
                \/ now >= logout[s].wrote + RevocationTTL
  BY <1>6, Zenon DEF Owed
<1>7. ASSUME owed \cap {"here", "everywhere"} # {}, p \notin raced[s], step = "pass"
      PROVE  now >= tok.iat + RefreshExpiry
  <2>1. /\ logout[s].asked \in Int /\ logout[s].wrote \in Int /\ cache[p][s].checkedAt \in Int
        /\ CacheGood(p, s)
    BY <1>1, <1>2, LogoutIs, EntryIs, Zenon DEF IInv
  <2>2. Promised(p, s)
    <3>1. logout[s].asked # Never
      BY <1>2, <1>6, <1>7, <2>1 DEF Never
    <3> QED
      BY <1>7, <3>1, Zenon DEF Promised, Asked
  <2>3. p \in logout[s].honoured \/ cache[p][s].checkedAt > logout[s].wrote
    BY <1>1, <1>5, <1>6, <1>7, <2>1, Times
  <2>4. Over(s)
    BY <1>5, <1>7, <2>1, <2>2, <2>3, Zenon DEF CacheGood
  <2> QED
    BY <1>1, <1>2, <1>6, <1>7, <2>1, <2>4, Times DEF Over
<1>8. step \in {"ask", "pass"} /\ {} \in SUBSET Sessions
  BY Zenon
<1> HIDE DEF step, owed, s
<1>9. /\ task \in Tasks /\ task.step = step /\ task.at = p /\ task.began = now /\ task.tok = tok
      /\ task.owed = owed
  BY <1>1, <1>4, <1>8 DEF Task, Tasks, Steps
<1> HIDE DEF task
<1>10. /\ worker' \in [Workers -> Tasks] /\ worker'[w] = task
       /\ \A v \in Workers : v # w => worker'[v] = worker[v]
  BY <1>1, <1>3, <1>9, BecomeIs, Zenon
<1>11. TaskTyped(w)'
  <2>1. now' = now /\ now \in 0..now
    BY <1>1, <1>3
  <2> QED
    BY <1>1, <1>8, <1>9, <1>10, <2>1, Zenon DEF TaskTyped, Checking
<1>12. TaskKept(w)'
  <2>1. now' = now /\ raced' = raced /\ logout' = logout /\ s = tok.sid
    BY <1>3, Zenon DEF history, s
  <2> QED
    BY <1>6, <1>7, <1>8, <1>9, <1>10, <2>1, Zenon DEF TaskKept, Strict
<1> QED
  BY <1>1, <1>3, <1>10, <1>11, <1>12, RequestMove, Zenon DEF Types

\* The query: a token that is owed a refusal finds the row, or has expired.
LEMMA AskKeeps ==
    ASSUME IInv, NEW w \in Workers, ask(w)
    PROVE  IInv'
<1> DEFINE s == worker[w].tok.sid
           step == IF row[s] # Never THEN "keepRevoked" ELSE "keepLive"
<1>1. Types /\ TaskTyped(w) /\ TaskKept(w) /\ now \in Nat
  BY Times, Zenon DEF IInv, Types
<1>2. /\ worker[w].step = "ask" /\ Go(w, step)
      /\ UNCHANGED <<now, tokens, row, cache, history>>
  BY Zenon DEF ask, store
<1>3. worker[w].tok \in Tokens /\ worker[w].at \in Processes
  BY <1>1, <1>2, Zenon DEF TaskTyped, OnToken
<1>4. s \in Sessions /\ worker[w].tok.iat \in Nat
  BY <1>3, TokenIs, Zenon
<1>5. RowGood(s) /\ logout[s].asked \in Int
  BY <1>1, <1>4, LogoutIs, Zenon DEF IInv
<1>6. step = "keepRevoked" => Asked(s)
  BY <1>5, Zenon DEF RowGood
<1>7. step = "keepLive" /\ Promised(worker[w].at, s) => Over(s)
  BY <1>3, <1>5, Zenon DEF RowGood
<1>8. ASSUME Strict(w), worker[w].at \notin raced[s], step = "keepLive"
      PROVE  now >= worker[w].tok.iat + RefreshExpiry
  <2> SUFFICES ASSUME ~(now >= worker[w].tok.iat + RefreshExpiry) PROVE FALSE
    BY Zenon
  <2>1. worker[w].tok.iat <= logout[s].asked
    BY <1>1, <1>8, Zenon DEF TaskKept
  <2>2. logout[s].asked # Never
    BY <1>4, <1>5, <2>1 DEF Never
  <2>3. Over(s)
    BY <1>7, <1>8, <2>2, Zenon DEF Promised, Asked
  <2> QED
    BY <1>1, <1>4, <1>5, <2>1, <2>3, Times DEF Over
<1>9. step \in {"keepRevoked", "keepLive"} /\ step \in Steps
  BY Zenon DEF Steps
<1>10. s = worker[w].tok.sid
  BY Zenon
<1> HIDE DEF step, s
<1>11. /\ worker' \in [Workers -> Tasks]
       /\ \A v \in Workers : v # w => worker'[v] = worker[v]
       /\ worker'[w].step = step
       /\ worker'[w].at = worker[w].at /\ worker'[w].began = worker[w].began
       /\ worker'[w].tok = worker[w].tok /\ worker'[w].owed = worker[w].owed
  BY <1>1, <1>2, <1>9, GoIs, Zenon
<1>12. now' = now /\ raced' = raced /\ logout' = logout
  BY <1>2, Zenon DEF history
<1>13. TaskTyped(w)'
  BY <1>1, <1>2, <1>3, <1>6, <1>9, <1>10, <1>11, <1>12, Zenon DEF TaskTyped, Checking, Asked
<1>14. TaskKept(w)'
  <2>1. Strict(w)' <=> Strict(w)
    BY <1>11, Zenon DEF Strict
  <2> QED
    BY <1>1, <1>2, <1>7, <1>8, <1>9, <1>10, <1>11, <1>12, <2>1, Zenon
       DEF TaskKept, Promised, Asked, Over
<1> QED
  BY <1>1, <1>2, <1>11, <1>13, <1>14, RequestMove, Zenon DEF Types

\* The answer is cached: as live only if no promise to the process is left.
LEMMA KeepKeeps ==
    ASSUME IInv, NEW w \in Workers, keep(w)
    PROVE  IInv'
<1> DEFINE answer == IF worker[w].step = "keepLive" THEN "live" ELSE "revoked"
<1>1. Types /\ TaskTyped(w) /\ TaskKept(w) /\ now \in Nat /\ now \in Time
  BY Times, Zenon DEF IInv, Types
<1>2. /\ worker[w].step \in {"keepLive", "keepRevoked"}
      /\ cache' = [cache EXCEPT ![worker[w].at][worker[w].tok.sid] = Entry(answer, now)]
      /\ IF worker[w].step = "keepLive" THEN Go(w, "pass") ELSE Return(w)
      /\ UNCHANGED <<now, tokens, row, history>>
  BY Zenon DEF keep, store, Remember
<1>3. worker[w].tok \in Tokens /\ worker[w].at \in Processes
  BY <1>1, <1>2, Zenon DEF TaskTyped, OnToken
<1>4. PICK s \in Sessions, p \in Processes : s = worker[w].tok.sid /\ p = worker[w].at
  BY <1>3, TokenIs, Zenon
<1>5. /\ Entry(answer, now) \in Entries /\ Entry(answer, now).answer = answer
      /\ Entry(answer, now).checkedAt = now
  BY <1>1 DEF Entry, Entries
<1>6. /\ answer = "revoked" => Asked(s)
      /\ answer = "live" /\ Promised(p, s) => Over(s)
  BY <1>1, <1>2, <1>4, Zenon DEF TaskTyped, TaskKept
<1>7. /\ worker' \in [Workers -> Tasks] /\ TaskTyped(w)' /\ TaskKept(w)'
      /\ \A v \in Workers : v # w => worker'[v] = worker[v]
  <2>1. CASE worker[w].step = "keepLive"
    <3>1. /\ worker' \in [Workers -> Tasks]
          /\ \A v \in Workers : v # w => worker'[v] = worker[v]
          /\ worker'[w].step = "pass"
          /\ worker'[w].at = worker[w].at /\ worker'[w].began = worker[w].began
          /\ worker'[w].tok = worker[w].tok /\ worker'[w].owed = worker[w].owed
      <4>1. "pass" \in Steps
        BY Zenon DEF Steps
      <4> QED
        BY <1>1, <1>2, <2>1, <4>1, GoIs, Zenon
    <3>2. now' = now /\ raced' = raced /\ logout' = logout
      BY <1>2, Zenon DEF history
    <3>3. TaskTyped(w)'
      BY <1>1, <1>2, <1>3, <2>1, <3>1, <3>2, Zenon DEF TaskTyped, Checking
    <3>4. TaskKept(w)'
      <4>1. Strict(w)' <=> Strict(w)
        BY <3>1, Zenon DEF Strict
      <4> QED
        BY <1>1, <2>1, <3>1, <3>2, <4>1, Zenon DEF TaskKept
    <3> QED
      BY <3>1, <3>3, <3>4, Zenon
  <2>2. CASE worker[w].step # "keepLive"
    BY <1>1, <1>2, <2>2, ReturnIs, Zenon
  <2> QED
    BY <2>1, <2>2, Zenon
<1>8. cache' = [cache EXCEPT ![p][s] = Entry(answer, now)]
  BY <1>2, <1>4, Zenon
<1> HIDE DEF answer
<1>9. /\ cache' \in [Processes -> [Sessions -> Entries]] /\ cache'[p][s] = Entry(answer, now)
      /\ \A q \in Processes, z \in Sessions : <<q, z>> # <<p, s>> => cache'[q][z] = cache[q][z]
  <2>1. cache \in [Processes -> [Sessions -> Entries]]
    BY <1>1, Zenon DEF Types
  <2> HIDE DEF Entry
  <2> QED
    BY <1>5, <1>8, <2>1
<1>10. Types'
  BY <1>1, <1>2, <1>7, <1>9, Zenon DEF Types, history
<1>11. now <= now' /\ \A z \in Sessions : Calm(z)
  BY <1>1, <1>2, CalmSame, Zenon
<1>12. CacheGood(p, s)'
  <2>1. now' = now /\ raced' = raced /\ logout' = logout /\ now <= now
    BY <1>1, <1>2 DEF history
  <2> QED
    BY <1>5, <1>6, <1>9, <2>1, Zenon DEF CacheGood, Promised, Asked, Over
<1>13. UNCHANGED <<row, logout>>
  BY <1>2, Zenon DEF history
<1> QED
  BY <1>7, <1>9, <1>10, <1>11, <1>12, <1>13, CalmInv, Zenon

\* A request is over, with a new pair or without.
LEMMA ReturnKeeps ==
    ASSUME IInv, NEW w \in Workers, accept(w) \/ reissue(w) \/ queryFails(w)
    PROVE  IInv'
<1>1. Types /\ TaskTyped(w) /\ now \in Time
  BY Zenon DEF IInv, Types
<1>2. Return(w) /\ UNCHANGED <<now, row, cache, history>>
  BY Zenon DEF accept, reissue, queryFails, store
<1>3. tokens' \subseteq Tokens
  <2>1. CASE reissue(w)
    <3>1. worker[w].tok \in Tokens
      BY <1>1, <2>1, Zenon DEF TaskTyped, OnToken, reissue
    <3>2. Token(worker[w].tok.sid, now) \in Tokens
      BY <1>1, <3>1 DEF Token, Tokens
    <3> QED
      BY <1>1, <2>1, <3>2, Zenon DEF reissue, Types
  <2>2. CASE accept(w) \/ queryFails(w)
    BY <1>1, <2>2, Zenon DEF accept, queryFails, store, Types
  <2> QED
    BY <2>1, <2>2, Zenon
<1> QED
  BY <1>1, <1>2, <1>3, ReturnIs, RequestMove, Zenon

-----------------------------------------------------------------------------
(* Requests that begin, and the look at the row.                             *)

\* A logout or a purge begins.
LEMMA BeginKeeps ==
    ASSUME IInv, NEW w \in Workers, NEW p \in Processes,
           PurgeExpired(w, p) \/ \E tok \in tokens : Delete(w, p, tok)
    PROVE  IInv'
<1>1. Types /\ now \in Time /\ now \in Nat
  BY Times, Zenon DEF IInv, Types
<1>2. PICK task \in Tasks :
        /\ Become(w, task) /\ task.at = p /\ task.began = now /\ task.owed = {}
        /\ task.step \in {"write", "erase"}
        /\ task.step = "write" => task.tok \in Tokens
  <2>1. CASE PurgeExpired(w, p)
    <3> DEFINE task == Task("erase", p, now, NoToken, Expired(now), {})
    <3>1. Become(w, task) /\ Expired(now) \in SUBSET Sessions
      BY <2>1, Zenon DEF PurgeExpired, Expired
    <3>2. /\ task \in Tasks /\ task.at = p /\ task.began = now /\ task.owed = {}
          /\ task.step = "erase"
      BY <1>1, <3>1 DEF Task, Tasks
    <3> HIDE DEF task
    <3> QED
      BY <3>1, <3>2, Zenon
  <2>2. CASE \E tok \in tokens : Delete(w, p, tok)
    <3>1. PICK tok \in tokens : Delete(w, p, tok)
      BY <2>2, Zenon
    <3> DEFINE task == Task("write", p, now, tok, {}, {})
    <3>2. Become(w, task) /\ tok \in Tokens
      BY <1>1, <3>1, Zenon DEF Delete, Types
    <3>3. /\ task \in Tasks /\ task.at = p /\ task.began = now /\ task.owed = {}
          /\ task.step = "write" /\ task.tok = tok
      BY <1>1, <3>2 DEF Task, Tasks
    <3> HIDE DEF task
    <3> QED
      BY <3>2, <3>3, Zenon
  <2> QED
    BY <2>1, <2>2, Zenon
<1>3. UNCHANGED <<now, tokens, row, cache, history>>
  BY Zenon DEF PurgeExpired, Delete, store
<1>4. /\ worker' \in [Workers -> Tasks] /\ worker'[w] = task
      /\ \A v \in Workers : v # w => worker'[v] = worker[v]
  BY <1>1, <1>2, BecomeIs, Zenon
<1>5. TaskTyped(w)'
  <2>1. now' = now /\ now \in 0..now
    BY <1>1, <1>3
  <2> QED
    BY <1>2, <1>4, <2>1, Zenon DEF TaskTyped, OnToken
<1>6. TaskKept(w)'
  BY <1>2, <1>4, Zenon DEF TaskKept, Strict
<1> QED
  BY <1>1, <1>3, <1>4, <1>5, <1>6, RequestMove, Zenon DEF Types

\* FirstOrCreate finds the row, which only a logout has written.
LEMMA FindKeeps ==
    ASSUME IInv, NEW w \in Workers, find(w)
    PROVE  IInv'
<1> DEFINE s == worker[w].tok.sid
           step == IF row[s] = Never THEN "insert" ELSE "update"
<1>1. Types /\ TaskTyped(w)
  BY Zenon DEF IInv
<1>2. /\ worker[w].step = "write" /\ Go(w, step)
      /\ UNCHANGED <<now, tokens, row, cache, history>>
  BY Zenon DEF find, store
<1>3. worker[w].tok \in Tokens /\ worker[w].owed = {}
  BY <1>1, <1>2, Zenon DEF TaskTyped, OnToken, Checking
<1>4. s \in Sessions
  BY <1>3, TokenIs, Zenon
<1>5. step = "update" => Asked(s)
  BY <1>4, Zenon DEF IInv, RowGood
<1>6. step \in {"insert", "update"} /\ step \in Steps
  BY Zenon DEF Steps
<1> HIDE DEF step
<1>7. /\ worker' \in [Workers -> Tasks]
      /\ \A v \in Workers : v # w => worker'[v] = worker[v]
      /\ worker'[w].step = step
      /\ worker'[w].at = worker[w].at /\ worker'[w].began = worker[w].began
      /\ worker'[w].tok = worker[w].tok /\ worker'[w].owed = worker[w].owed
  BY <1>1, <1>2, <1>6, GoIs, Zenon
<1>8. now' = now /\ logout' = logout
  BY <1>2, Zenon DEF history
<1>9. TaskTyped(w)'
  BY <1>1, <1>2, <1>3, <1>5, <1>6, <1>7, <1>8, Zenon DEF TaskTyped, Asked
<1>10. TaskKept(w)'
  BY <1>3, <1>6, <1>7, Zenon DEF TaskKept, Strict
<1> QED
  BY <1>1, <1>2, <1>7, <1>9, <1>10, RequestMove, Zenon DEF Types

-----------------------------------------------------------------------------
(* The clock, logins, the purge and restarts.                                *)

\* Time passes.
LEMMA TickKeeps ==
    ASSUME IInv, tick
    PROVE  IInv'
<1>1. Types /\ now \in Time
  BY Zenon DEF IInv, Types
<1>2. now' \in Time /\ now <= now'
  BY <1>1, SessionsAssumption DEF tick, Time
<1>3. UNCHANGED <<tokens, row, cache, worker, logout, raced>>
  BY Zenon DEF tick, store, history
<1>4. Types'
  BY <1>1, <1>2, <1>3, Zenon DEF Types
<1>5. \A s \in Sessions : Calm(s)
  BY <1>2, <1>3, Zenon DEF Calm
<1> QED
  BY <1>2, <1>3, <1>4, <1>5, CalmInv, Zenon

\* A login.
LEMMA LoginKeeps ==
    ASSUME IInv, NEW s \in Sessions, CreateForTenant(s)
    PROVE  IInv'
<1>1. Types /\ now \in Time
  BY Zenon DEF IInv, Types
<1>2. Token(s, now) \in Tokens
  BY <1>1 DEF Token, Tokens
<1>3. UNCHANGED <<now, row, cache, worker, history>> /\ tokens' = tokens \union {Token(s, now)}
  BY Zenon DEF CreateForTenant
<1>4. UNCHANGED <<now, row, cache, worker, logout, raced>>
  BY <1>3, Zenon DEF history
<1>5. Types'
  BY <1>1, <1>2, <1>3, <1>4, Zenon DEF Types
<1>6. now <= now' /\ \A z \in Sessions : Calm(z)
  BY <1>1, <1>3, CalmSame, Zenon
<1> QED
  BY <1>4, <1>5, <1>6, CalmInv, Zenon

\* The purge deletes no row whose tokens are alive.
LEMMA EraseKeeps ==
    ASSUME IInv, NEW w \in Workers, erase(w)
    PROVE  IInv'
<1>1. Types /\ TaskTyped(w) /\ now \in Nat
  BY Times, Zenon DEF IInv, Types
<1>2. /\ worker[w].step = "erase" /\ Go(w, "forget")
      /\ row' = [s \in Sessions |-> IF s \in Expired(worker[w].began) THEN Never ELSE row[s]]
      /\ UNCHANGED <<now, tokens, cache, history>>
  BY Zenon DEF erase
<1>3. worker[w].began \in 0..now /\ worker[w].at \in Processes /\ worker[w].owed = {}
  BY <1>1, <1>2, Zenon DEF TaskTyped, Checking
<1>4. /\ worker' \in [Workers -> Tasks]
      /\ \A v \in Workers : v # w => worker'[v] = worker[v]
      /\ worker'[w].step = "forget"
      /\ worker'[w].at = worker[w].at /\ worker'[w].began = worker[w].began
      /\ worker'[w].owed = worker[w].owed
  <2>1. "forget" \in Steps
    BY Zenon DEF Steps
  <2> QED
    BY <1>1, <1>2, <2>1, GoIs, Zenon
<1>5. UNCHANGED <<now, tokens, cache, logout, raced>>
  BY <1>2, Zenon DEF history
<1>6. TaskTyped(w)' /\ TaskKept(w)'
  BY <1>3, <1>4, <1>5, Zenon DEF TaskTyped, TaskKept, Strict, OnToken
<1>7. Types'
  <2>1. Never \in Rows
    BY Zenon DEF Rows
  <2> QED
    BY <1>1, <1>2, <1>4, <1>5, <2>1, Zenon DEF Types
<1>8. now <= now' /\ \A s \in Sessions : Calm(s)
  BY <1>1, <1>2, CalmSame, Zenon
<1>9. ASSUME NEW s \in Sessions, row'[s] # row[s]
      PROVE  RowGood(s)'
  <2>1. row'[s] = Never /\ row[s] # Never /\ row[s] <= worker[w].began
    BY <1>2, <1>9, Zenon DEF Expired
  <2>2. RowGood(s) /\ row[s] \in Int /\ logout[s].asked \in Int
    BY <1>1, RowIs, LogoutIs, Zenon DEF IInv
  <2>3. row[s] >= logout[s].asked + RefreshExpiry => Over(s)
    BY <1>1, <1>3, <2>1, <2>2, Times DEF Over
  <2>4. \A p \in Processes : Promised(p, s) => Over(s)
    BY <2>1, <2>2, <2>3, Zenon DEF RowGood
  <2> QED
    BY <1>5, <2>1, <2>2, <2>4, Zenon DEF RowGood, Asked, Promised, Over
<1> QED
  BY <1>4, <1>5, <1>6, <1>7, <1>8, <1>9, CalmInv, Zenon

\* Without an entry there is nothing to be wrong about.
LEMMA NoEntryIs ==
    ASSUME Types'
    PROVE  /\ NoEntry \in Entries
           /\ \A p \in Processes, s \in Sessions : cache'[p][s] = NoEntry => CacheGood(p, s)'
<1>1. NoEntry \in Entries /\ NoEntry.answer = "none" /\ NoEntry.checkedAt = Never
  BY DEF NoEntry, Entry, Entries
<1>2. Never <= now'
  <2>1. now' \in Nat
    BY Times, Zenon DEF Types
  <2> QED
    BY <2>1 DEF Never
<1> QED
  BY <1>1, <1>2, Zenon DEF CacheGood

\* The purge drops what it listed from the cache.
LEMMA ForgetKeeps ==
    ASSUME IInv, NEW w \in Workers, forget(w)
    PROVE  IInv'
<1>1. Types /\ TaskTyped(w)
  BY Zenon DEF IInv
<1>2. /\ worker[w].step = "forget" /\ Return(w)
      /\ cache' = [cache EXCEPT ![worker[w].at] =
                     [s \in Sessions |-> IF s \in worker[w].found THEN NoEntry ELSE @[s]]]
      /\ UNCHANGED <<now, tokens, row, history>>
  BY Zenon DEF forget, store
<1>3. /\ worker' \in [Workers -> Tasks] /\ TaskTyped(w)' /\ TaskKept(w)'
      /\ \A v \in Workers : v # w => worker'[v] = worker[v]
  BY <1>1, <1>2, ReturnIs, Zenon
<1>4. NoEntry \in Entries
  BY DEF NoEntry, Entry, Entries
<1>5. /\ cache' \in [Processes -> [Sessions -> Entries]]
      /\ \A p \in Processes, s \in Sessions : cache'[p][s] \in {cache[p][s], NoEntry}
  <2>1. cache \in [Processes -> [Sessions -> Entries]]
    BY <1>1, Zenon DEF Types
  <2> HIDE DEF NoEntry
  <2> QED
    BY <1>2, <1>4, <2>1
<1>6. UNCHANGED <<now, tokens, row, logout, raced>>
  BY <1>2, Zenon DEF history
<1>7. Types'
  BY <1>1, <1>3, <1>5, <1>6, Zenon DEF Types
<1>8. now <= now' /\ \A s \in Sessions : Calm(s)
  BY <1>1, <1>2, CalmSame, Zenon
<1>9. \A p \in Processes, s \in Sessions : cache'[p][s] = cache[p][s] \/ CacheGood(p, s)'
  BY <1>5, <1>7, NoEntryIs, Zenon
<1> QED
  BY <1>3, <1>6, <1>7, <1>8, <1>9, CalmInv, Zenon

\* A process restarts.
LEMMA RestartKeeps ==
    ASSUME IInv, NEW p \in Processes, restart(p)
    PROVE  IInv'
<1>1. Types
  BY Zenon DEF IInv
<1>2. /\ cache' = [cache EXCEPT ![p] = [s \in Sessions |-> NoEntry]]
      /\ worker' = [w \in Workers |-> IF worker[w].at = p THEN Idle ELSE worker[w]]
      /\ UNCHANGED <<now, tokens, row, history>>
  BY Zenon DEF restart, store
<1>3. NoEntry \in Entries /\ Idle \in Tasks
  BY IdleIs DEF NoEntry, Entry, Entries
<1>4. /\ cache' \in [Processes -> [Sessions -> Entries]]
      /\ \A q \in Processes, s \in Sessions : cache'[q][s] \in {cache[q][s], NoEntry}
  <2>1. cache \in [Processes -> [Sessions -> Entries]]
    BY <1>1, Zenon DEF Types
  <2> HIDE DEF NoEntry
  <2> QED
    BY <1>2, <1>3, <2>1
<1>5. /\ worker' \in [Workers -> Tasks]
      /\ \A w \in Workers : worker'[w] \in {worker[w], Idle}
  BY <1>1, <1>2, <1>3, Zenon DEF Types
<1>6. UNCHANGED <<now, tokens, row, logout, raced>>
  BY <1>2, Zenon DEF history
<1>7. Types'
  BY <1>1, <1>4, <1>5, <1>6, Zenon DEF Types
<1>8. now <= now' /\ \A s \in Sessions : Calm(s)
  BY <1>1, <1>2, CalmSame, Zenon
<1>9. \A q \in Processes, s \in Sessions : cache'[q][s] = cache[q][s] \/ CacheGood(q, s)'
  BY <1>4, <1>7, NoEntryIs, Zenon
<1>10. \A w \in Workers : worker'[w] = worker[w] \/ (TaskTyped(w)' /\ TaskKept(w)')
  BY <1>5, IdleGood, Zenon
<1> QED
  BY <1>6, <1>7, <1>8, <1>9, <1>10, CalmInv, Zenon

-----------------------------------------------------------------------------
(* Logging out.                                                              *)

\* A call that has revoked the session caches the answer where it runs.
LEMMA HonourKeeps ==
    ASSUME IInv, NEW w \in Workers, honour(w)
    PROVE  IInv'
<1>1. Types /\ TaskTyped(w) /\ now \in Nat /\ now \in Time
  BY Times, Zenon DEF IInv, Types
<1>2. worker[w].step = "honour" /\ Return(w) /\ UNCHANGED <<now, tokens, row, raced>>
  BY Zenon DEF honour, store
<1>3. worker[w].tok \in Tokens /\ worker[w].at \in Processes /\ Asked(worker[w].tok.sid)
  BY <1>1, <1>2, Zenon DEF TaskTyped, OnToken
<1>4. PICK s \in Sessions, p \in Processes : s = worker[w].tok.sid /\ p = worker[w].at
  BY <1>3, TokenIs, Zenon
<1>5. /\ cache' = [cache EXCEPT ![p][s] = Entry("revoked", now)]
      /\ logout' = [logout EXCEPT ![s].honoured = @ \union {p}]
  BY <1>4, Zenon DEF honour, Remember
<1>6. /\ Entry("revoked", now) \in Entries /\ Entry("revoked", now).answer = "revoked"
      /\ Entry("revoked", now).checkedAt = now
  BY <1>1 DEF Entry, Entries
<1>7. /\ cache' \in [Processes -> [Sessions -> Entries]] /\ cache'[p][s] = Entry("revoked", now)
      /\ \A q \in Processes, z \in Sessions : <<q, z>> # <<p, s>> => cache'[q][z] = cache[q][z]
  <2>1. cache \in [Processes -> [Sessions -> Entries]]
    BY <1>1, Zenon DEF Types
  <2> HIDE DEF Entry
  <2> QED
    BY <1>5, <1>6, <2>1
<1>8. /\ logout' \in [Sessions -> Logouts]
      /\ \A z \in Sessions : z # s => logout'[z] = logout[z]
      /\ logout'[s].asked = logout[s].asked /\ logout'[s].wrote = logout[s].wrote
      /\ logout'[s].honoured = logout[s].honoured \union {p}
  <2>1. logout \in [Sessions -> Logouts] /\ logout[s] \in Logouts
    BY <1>1, Zenon DEF Types
  <2>2. /\ [logout[s] EXCEPT !.honoured = @ \union {p}] \in Logouts
        /\ [logout[s] EXCEPT !.honoured = @ \union {p}].asked = logout[s].asked
        /\ [logout[s] EXCEPT !.honoured = @ \union {p}].wrote = logout[s].wrote
        /\ [logout[s] EXCEPT !.honoured = @ \union {p}].honoured = logout[s].honoured \union {p}
    BY <2>1 DEF Logouts
  <2>3. logout' = [logout EXCEPT ![s] = [logout[s] EXCEPT !.honoured = @ \union {p}]]
    BY <1>5, <2>1
  <2> DEFINE new == [logout[s] EXCEPT !.honoured = @ \union {p}]
  <2> HIDE DEF new
  <2>4. logout' = [logout EXCEPT ![s] = new] /\ new \in Logouts
    BY <2>2, <2>3, Zenon DEF new
  <2>5. /\ logout' \in [Sessions -> Logouts] /\ logout'[s] = new
        /\ \A z \in Sessions : z # s => logout'[z] = logout[z]
    BY <2>1, <2>4, Zenon
  <2> QED
    BY <2>2, <2>5, Zenon DEF new
<1>9. /\ worker' \in [Workers -> Tasks] /\ TaskTyped(w)' /\ TaskKept(w)'
      /\ \A v \in Workers : v # w => worker'[v] = worker[v]
  BY <1>1, <1>2, ReturnIs, Zenon
<1>10. Types'
  BY <1>1, <1>2, <1>7, <1>8, <1>9, Zenon DEF Types
<1>11. now <= now' /\ now' = now
  BY <1>1, <1>2
<1>12. \A z \in Sessions : Calm(z)
  BY <1>2, <1>3, <1>4, <1>8, <1>11, Zenon DEF Calm
<1>13. CacheGood(p, s)'
  <2>1. cache'[p][s].answer = "revoked" /\ cache'[p][s].checkedAt <= now'
    BY <1>6, <1>7, <1>11, Zenon
  <2> QED
    BY <1>3, <1>4, <1>8, <2>1, Zenon DEF CacheGood, Asked
<1>14. \A q \in Processes, z \in Sessions :
          <<q, z>> # <<p, s>> /\ q \in logout'[z].honoured => q \in logout[z].honoured
  BY <1>8, Zenon
<1> QED
  BY <1>2, <1>7, <1>9, <1>10, <1>11, <1>12, <1>13, <1>14, CalmInv, Zenon

\* A new logout takes over from the one before, of which nothing is left to keep or
\* which was asked for no later.
LEMMA RevokedKeeps ==
    ASSUME IInv, NEW w \in Workers, NEW s \in Sessions, Revoked(w, s), Go(w, "honour"),
           s = worker[w].tok.sid, worker[w].step \in {"insert", "update"},
           UNCHANGED <<now, tokens, cache>>,
           \A p \in Processes : Promised(p, s) => Over(s) \/ logout[s].asked <= worker[w].began
    PROVE  IInv'
<1>1. Types /\ TaskTyped(w) /\ now \in Nat /\ now \in Time
  BY Times, Zenon DEF IInv, Types
<1>2. worker[w].began \in 0..now /\ worker[w].tok \in Tokens /\ worker[w].owed = {}
      /\ worker[w].at \in Processes
  BY <1>1, Zenon DEF TaskTyped, OnToken, Checking
<1>3. PICK b \in 0..now : b = worker[w].began
  BY <1>2, Zenon
<1>4. b \in Nat /\ b \in Time /\ b + RefreshExpiry \in Rows /\ b # Never /\ b <= now
      /\ b + RefreshExpiry # Never /\ b + RefreshExpiry >= b + RefreshExpiry /\ now \in 0..now
  BY <1>1, <1>3, SessionsAssumption DEF Rows, Time, Never
<1>5. /\ row' = [row EXCEPT ![s] = b + RefreshExpiry]
      /\ logout' = [logout EXCEPT ![s] = Logout(b, now, {})]
      /\ raced' = [raced EXCEPT ![s] = @ \union InFlight(s)]
  BY <1>3, Zenon DEF Revoked
<1>6. /\ Logout(b, now, {}) \in Logouts /\ Logout(b, now, {}).asked = b
      /\ Logout(b, now, {}).wrote = now /\ Logout(b, now, {}).honoured = {}
  BY <1>1, <1>4 DEF Logout, Logouts
<1>7. InFlight(s) \subseteq Processes
  BY Zenon DEF IInv, TaskTyped, InFlight
<1>8. /\ worker' \in [Workers -> Tasks]
      /\ \A v \in Workers : v # w => worker'[v] = worker[v]
      /\ worker'[w].step = "honour"
      /\ worker'[w].at = worker[w].at /\ worker'[w].began = worker[w].began
      /\ worker'[w].tok = worker[w].tok /\ worker'[w].owed = worker[w].owed
  <2>1. "honour" \in Steps
    BY Zenon DEF Steps
  <2> QED
    BY <1>1, <2>1, GoIs, Zenon
<1> HIDE DEF Logout
<1>9. Types'
  BY <1>1, <1>4, <1>5, <1>6, <1>7, <1>8, Zenon DEF Types
<1>10. /\ row'[s] = b + RefreshExpiry /\ logout'[s].asked = b /\ logout'[s].wrote = now
       /\ logout'[s].honoured = {} /\ raced'[s] = raced[s] \union InFlight(s)
       /\ \A z \in Sessions : z # s => /\ row'[z] = row[z] /\ logout'[z] = logout[z]
                                       /\ raced'[z] = raced[z]
  BY <1>1, <1>5, <1>6, Zenon DEF Types
<1>11. now <= now' /\ now' = now /\ Asked(s)'
  BY <1>1, <1>4, <1>10 DEF Asked
<1>12. \A z \in Sessions : z # s => Calm(z)
  BY <1>10, <1>11, Zenon DEF Calm
<1>13. \A z \in Sessions : RowGood(z)'
  <2>1. RowGood(s)'
    BY <1>4, <1>10, <1>11, Zenon DEF RowGood
  <2> QED
    BY <1>1, <1>9, <1>10, <1>12, <2>1, RowStays, Zenon DEF IInv
<1>14. \A p \in Processes, z \in Sessions : CacheGood(p, z)'
  <2>1. ASSUME NEW p \in Processes PROVE CacheGood(p, s)'
    <3>1. cache[p][s].checkedAt <= now /\ cache[p][s].checkedAt \in Int
      BY <1>1, EntryIs, Zenon DEF IInv, CacheGood
    <3>2. ~(cache[p][s].checkedAt > now)
      BY <1>1, <3>1
    <3> QED
      BY <1>10, <1>11, <3>1, <3>2, Zenon DEF CacheGood
  <2> QED
    BY <1>1, <1>9, <1>10, <1>12, <2>1, CacheStays, Zenon DEF IInv
<1>15. TaskTyped(w)' /\ TaskKept(w)'
  BY <1>2, <1>8, <1>11, Zenon DEF TaskTyped, TaskKept, Strict
<1>16. ASSUME NEW v \in Workers, v # w, worker[v].step \in OnToken, worker[v].tok.sid = s
       PROVE  TaskTyped(v)' /\ TaskKept(v)'
  <2>1. TaskTyped(v) /\ TaskKept(v) /\ worker'[v] = worker[v]
    BY <1>8, <1>16, Zenon DEF IInv
  <2>2. TaskTyped(v)'
    BY <1>11, <1>16, <2>1, Zenon DEF TaskTyped
  <2>3. worker[v].tok.iat \in Nat /\ worker[v].at \in Processes
    BY <1>16, <2>1, TokenIs, Zenon DEF TaskTyped, OnToken
  <2>4. ~(worker[v].step = "keepLive" /\ Promised(worker[v].at, s)')
    BY <1>10, <1>16, <2>1, Zenon DEF Promised, InFlight
  <2>5. ASSUME Strict(v), worker[v].at \notin raced'[s]
        PROVE  \/ now >= worker[v].tok.iat + RefreshExpiry
               \/ worker[v].tok.iat <= b /\ worker[v].step \notin {"keepLive", "pass"}
    <3> SUFFICES ASSUME ~(now >= worker[v].tok.iat + RefreshExpiry)
                 PROVE  worker[v].tok.iat <= b /\ worker[v].step \notin {"keepLive", "pass"}
      BY Zenon
    <3>1. worker[v].at \notin raced[s]
      BY <1>10, <2>5, Zenon
    <3>2. worker[v].tok.iat <= logout[s].asked /\ worker[v].step \notin {"keepLive", "pass"}
      BY <1>16, <2>1, <2>5, <3>1, Zenon DEF TaskKept
    <3>3. logout[s].asked \in Int
      BY <1>1, LogoutIs, Zenon
    <3>4. logout[s].asked # Never
      BY <2>3, <3>2, <3>3 DEF Never
    <3>5. Over(s) \/ logout[s].asked <= b
      BY <1>3, <2>3, <3>1, <3>4, Zenon DEF Promised, Asked
    <3>6. ~Over(s)
      BY <1>1, <2>3, <3>2, <3>3, Times DEF Over
    <3>7. worker[v].tok.iat <= b
      BY <1>4, <2>3, <3>2, <3>3, <3>5, <3>6
    <3> QED
      BY <3>2, <3>7, Zenon
  <2>6. TaskKept(v)'
    BY <1>10, <1>11, <1>16, <2>1, <2>4, <2>5, Zenon DEF TaskKept, Strict
  <2> QED
    BY <2>2, <2>6, Zenon
<1>17. ASSUME NEW v \in Workers, v # w, ~(worker[v].step \in OnToken /\ worker[v].tok.sid = s)
       PROVE  TaskTyped(v)' /\ TaskKept(v)'
  <2>1. TaskTyped(v) /\ TaskKept(v) /\ worker'[v] = worker[v]
    BY <1>8, <1>17, Zenon DEF IInv
  <2>2. worker[v].step \in OnToken => worker[v].tok.sid \in Sessions
    BY <2>1, TokenIs, Zenon DEF TaskTyped
  <2> QED
    BY <1>1, <1>9, <1>11, <1>12, <1>17, <2>1, <2>2, TaskStays, Zenon
<1> QED
  BY <1>9, <1>13, <1>14, <1>15, <1>16, <1>17, Zenon DEF IInv

\* FirstOrCreate inserts the row, and is refused if somebody else has.
LEMMA InsertKeeps ==
    ASSUME IInv, NEW w \in Workers, insert(w)
    PROVE  IInv'
<1>1. Types /\ TaskTyped(w) /\ worker[w].step = "insert" /\ UNCHANGED <<now, tokens, cache>>
  BY Zenon DEF IInv, insert
<1>2. worker[w].tok \in Tokens
  BY <1>1, Zenon DEF TaskTyped, OnToken
<1>3. PICK s \in Sessions : s = worker[w].tok.sid
  BY <1>2, TokenIs, Zenon
<1>4. CASE row[s] = Never
  <2>1. Revoked(w, s) /\ Go(w, "honour")
    BY <1>3, <1>4, Zenon DEF insert
  <2>2. \A p \in Processes : Promised(p, s) => Over(s)
    BY <1>4, Zenon DEF IInv, RowGood
  <2> QED
    BY <1>1, <1>3, <2>1, <2>2, RevokedKeeps, Zenon
<1>5. CASE row[s] # Never
  <2>1. Return(w) /\ UNCHANGED <<row, history>>
    BY <1>3, <1>5, Zenon DEF insert
  <2> QED
    BY <1>1, <2>1, ReturnIs, RequestMove, Zenon DEF Types
<1> QED
  BY <1>4, <1>5, Zenon

\* FirstOrCreate updates the row; an update that finds it gone or shortens it is a
\* race on every process.
LEMMA UpdateKeeps ==
    ASSUME IInv, NEW w \in Workers, update(w)
    PROVE  IInv'
<1>1. /\ Types /\ TaskTyped(w) /\ now \in Nat /\ worker[w].step = "update" /\ Go(w, "honour")
      /\ UNCHANGED <<now, tokens, cache>>
  BY Times, Zenon DEF IInv, Types, update
<1>2. /\ worker[w].tok \in Tokens /\ worker[w].began \in 0..now /\ worker[w].owed = {}
      /\ worker[w].at \in Processes /\ Asked(worker[w].tok.sid)
  BY <1>1, Zenon DEF TaskTyped, OnToken, Checking
<1>3. PICK s \in Sessions : s = worker[w].tok.sid
  BY <1>2, TokenIs, Zenon
<1>4. RowGood(s) /\ row[s] \in Int /\ logout[s].asked \in Int
  BY <1>1, RowIs, LogoutIs, Zenon DEF IInv
<1>5. CASE row[s] # Never /\ row[s] <= worker[w].began + RefreshExpiry
  <2>1. Revoked(w, s)
    BY <1>3, <1>5, Zenon DEF update
  <2>2. row[s] >= logout[s].asked + RefreshExpiry => logout[s].asked <= worker[w].began
    BY <1>1, <1>2, <1>4, <1>5, Times
  <2>3. \A p \in Processes : Promised(p, s) => logout[s].asked <= worker[w].began
    BY <1>4, <1>5, <2>2, Zenon DEF RowGood
  <2> QED
    BY <1>1, <1>3, <2>1, <2>3, RevokedKeeps, Zenon
<1>6. CASE ~(row[s] # Never /\ row[s] <= worker[w].began + RefreshExpiry)
  <2> DEFINE new == IF row[s] = Never THEN Never ELSE worker[w].began + RefreshExpiry
  <2>1. /\ row' = [row EXCEPT ![s] = new] /\ raced' = [raced EXCEPT ![s] = Processes]
        /\ UNCHANGED logout
    BY <1>3, <1>6, Zenon DEF update
  <2>2. new \in Rows
    <3>1. now <= MaxTime
      BY <1>1, SessionsAssumption DEF Types, Time
    <3> QED
      BY <1>1, <1>2, <3>1, SessionsAssumption DEF Rows
  <2> HIDE DEF new
  <2>3. /\ worker' \in [Workers -> Tasks]
        /\ \A v \in Workers : v # w => worker'[v] = worker[v]
        /\ worker'[w].step = "honour"
        /\ worker'[w].at = worker[w].at /\ worker'[w].began = worker[w].began
        /\ worker'[w].tok = worker[w].tok /\ worker'[w].owed = worker[w].owed
    <3>1. "honour" \in Steps
      BY Zenon DEF Steps
    <3> QED
      BY <1>1, <3>1, GoIs, Zenon
  <2>4. Types'
    BY <1>1, <2>1, <2>2, <2>3, Zenon DEF Types
  <2>5. now <= now' /\ now' = now
    BY <1>1
  <2>6. \A z \in Sessions : Calm(z)
    BY <1>1, <2>1, <2>5, Zenon DEF Calm, Types
  <2>7. TaskTyped(w)' /\ TaskKept(w)'
    BY <1>2, <2>1, <2>3, <2>5, Zenon DEF TaskTyped, TaskKept, Strict, Asked
  <2>8. RowGood(s)'
    <3>1. Asked(s)' /\ raced'[s] = Processes
      BY <1>1, <1>2, <1>3, <2>1, Zenon DEF Asked, Types
    <3> QED
      BY <1>2, <1>3, <1>4, <2>1, <2>5, <3>1, Zenon DEF RowGood, Promised, Asked
  <2>9. \A z \in Sessions : z # s => row'[z] = row[z]
    BY <1>1, <2>1, Zenon DEF Types
  <2> QED
    BY <1>1, <2>1, <2>3, <2>4, <2>5, <2>6, <2>7, <2>8, <2>9, CalmInv, Zenon
<1> QED
  BY <1>5, <1>6, Zenon

-----------------------------------------------------------------------------
(* The theorems.                                                             *)

\* The first state satisfies the invariant.
LEMMA InitInv == Init => IInv
<1> SUFFICES ASSUME Init PROVE IInv
  BY Zenon
<1>1. /\ now = 0 /\ tokens = {}
      /\ row = [s \in Sessions |-> Never]
      /\ cache = [p \in Processes |-> [s \in Sessions |-> NoEntry]]
      /\ worker = [w \in Workers |-> Idle]
      /\ logout = [s \in Sessions |-> NoLogout]
      /\ raced = [s \in Sessions |-> {}]
  BY Zenon DEF Init
<1>2. /\ 0 \in Time /\ Never \in Rows
  BY SessionsAssumption DEF Time, Rows
<1>3. /\ NoEntry \in Entries /\ NoEntry.answer = "none" /\ NoEntry.checkedAt = Never
  BY DEF NoEntry, Entry, Entries
<1>4. NoLogout \in Logouts /\ NoLogout.asked = Never
  BY DEF NoLogout, Logout, Logouts
<1>5. Never <= 0
  BY DEF Never
<1> HIDE DEF NoEntry, NoLogout, Idle
<1>6. Types
  BY <1>1, <1>2, <1>3, <1>4, IdleIs, Zenon DEF Types
<1>7. \A s \in Sessions : RowGood(s)
  BY <1>1, <1>4, Zenon DEF RowGood, Asked, Promised
<1>8. \A p \in Processes, s \in Sessions : CacheGood(p, s)
  BY <1>1, <1>3, <1>5, Zenon DEF CacheGood
<1>9. \A w \in Workers : TaskTyped(w) /\ TaskKept(w)
  BY <1>1, IdleIs, Zenon DEF TaskTyped, TaskKept, Strict, OnToken
<1> QED
  BY <1>6, <1>7, <1>8, <1>9, Zenon DEF IInv

\* Every step keeps the invariant.
LEMMA NextInv == IInv /\ [Next]_vars => IInv'
<1> SUFFICES ASSUME IInv, [Next]_vars PROVE IInv'
  BY Zenon
<1>1. CASE tick
  BY <1>1, TickKeeps, Zenon
<1>2. CASE \E s \in Sessions : CreateForTenant(s)
  BY <1>2, LoginKeeps, Zenon
<1>3. CASE \E p \in Processes : restart(p)
  BY <1>3, RestartKeeps, Zenon
<1>4. ASSUME NEW w \in Workers, Request(w)
      PROVE  IInv'
  <2>1. CASE \E p \in Processes : PurgeExpired(w, p) \/ \E tok \in tokens : Delete(w, p, tok)
    BY <2>1, BeginKeeps, Zenon
  <2>2. CASE \E p \in Processes, tok \in tokens : check(w, p, tok)
    BY <2>2, CheckKeeps, Zenon
  <2>3. CASE ask(w) \/ keep(w) \/ accept(w) \/ reissue(w) \/ queryFails(w)
    BY <2>3, AskKeeps, KeepKeeps, ReturnKeeps, Zenon
  <2>4. CASE find(w) \/ insert(w) \/ update(w) \/ honour(w)
    BY <2>4, FindKeeps, InsertKeeps, UpdateKeeps, HonourKeeps, Zenon
  <2>5. CASE erase(w) \/ forget(w)
    BY <2>5, EraseKeeps, ForgetKeeps, Zenon
  <2> QED
    BY <1>4, <2>1, <2>2, <2>3, <2>4, <2>5, Zenon DEF Request
<1>5. CASE UNCHANGED vars
  <2>1. UNCHANGED <<now, tokens, row, cache, worker, logout, raced>> /\ UNCHANGED <<now, history>>
    BY <1>5, Zenon DEF vars, store, history
  <2>2. Types /\ Types'
    BY <2>1, Zenon DEF IInv, Types
  <2>3. now <= now' /\ \A s \in Sessions : Calm(s)
    BY <2>1, <2>2, CalmSame, Zenon
  <2> QED
    BY <2>1, <2>2, <2>3, CalmInv, Zenon
<1> QED
  BY <1>1, <1>2, <1>3, <1>4, <1>5, Zenon DEF Next

\* Logins, checks, logouts, purges and restarts keep the invariant.
THEOREM SessionsInvariance == Spec => []IInv
  BY InitInv, NextInv, PTL DEF Spec

\* The table, the caches and the requests stay in their types: no logout, however
\* often it is repeated, extends a row beyond the last token's life.
THEOREM SessionsTypes == Spec => []TypeOK
<1>1. IInv => TypeOK
  BY TypesNamed, Zenon DEF IInv
<1> QED
  BY <1>1, SessionsInvariance, PTL

\* No row, cached answer or check in progress calls a session revoked that nobody
\* logged out.
THEOREM OnlyAskedRevoked == Spec => []RevokedWasAsked
<1>1. IInv => RevokedWasAsked
  <2> SUFFICES ASSUME IInv, NEW s \in Sessions, logout[s] = NoLogout
               PROVE  /\ row[s] = Never
                      /\ \A p \in Processes : cache[p][s].answer # "revoked"
                      /\ \A w \in Workers : worker[w].step = "keepRevoked" => worker[w].tok.sid # s
    BY Zenon DEF RevokedWasAsked
  <2>1. ~Asked(s)
    BY DEF Asked, NoLogout, Logout
  <2> QED
    BY <2>1, Zenon DEF IInv, RowGood, CacheGood, TaskTyped
<1> QED
  BY <1>1, SessionsInvariance, PTL

\* A token that a request is owed a refusal of is not accepted or refreshed.
LEMMA RefusedSteps ==
    ASSUME IInv, NEW w \in Workers, Honours(w)
    PROVE  "here" \notin worker[w].owed /\ "everywhere" \notin worker[w].owed
<1>1. /\ worker[w].step = "pass" /\ now < worker[w].tok.iat + RefreshExpiry
      /\ worker[w].at \notin raced[worker[w].tok.sid]
  BY Zenon DEF Honours, accept, reissue, parse
<1>2. worker[w].tok.iat \in Nat /\ now \in Nat
  BY <1>1, TokenIs, Times, Zenon DEF IInv, Types, TaskTyped, OnToken
<1>3. ~(now >= worker[w].tok.iat + RefreshExpiry)
  BY <1>1, <1>2, Times
<1>4. ~Strict(w)
  BY <1>1, <1>3, Zenon DEF IInv, TaskKept
<1> QED
  BY <1>4, Zenon DEF Strict

\* Once Delete has returned, its process refuses every token issued before the
\* logout, in every interleaving with checks, further logouts, purges and restarts.
THEOREM LogoutHere == Spec => LogoutIsImmediate
<1>1. IInv /\ [Next]_vars => [\A w \in Workers : Honours(w) => "here" \notin worker[w].owed]_vars
  BY RefusedSteps, Zenon
<1> QED
  BY <1>1, SessionsInvariance, PTL DEF Spec, LogoutIsImmediate

\* From RevocationTTL after a logout wrote its row, every process refuses those tokens.
THEOREM LogoutEverywhere == Spec => LogoutReachesAll
<1>1. IInv /\ [Next]_vars
        => [\A w \in Workers : Honours(w) => "everywhere" \notin worker[w].owed]_vars
  BY RefusedSteps, Zenon
<1> QED
  BY <1>1, SessionsInvariance, PTL DEF Spec, LogoutReachesAll

=============================================================================
