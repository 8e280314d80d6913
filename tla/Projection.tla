----------------------------- MODULE Projection -----------------------------
(***************************************************************************)
(* A read model kept by modulekit.Project from a durable consumer, and       *)
(* rebuilt by modulekit.Rebuild.                                             *)
(*                                                                           *)
(* Transact opens the database's default transaction, and openDatabase       *)
(* chooses the database.  Under SQLite a transaction that read before another*)
(* one wrote cannot write any more; under PostgreSQL's read committed it     *)
(* waits for the other one's rows and then writes them as they are.          *)
(***************************************************************************)
EXTENDS Naturals, FiniteSets

CONSTANTS
    Keys, Messages, Workers, NoMessage,
    KeyOf, SequenceOf,      \* ProjectionKey and SourceSequence of an event's row
    Earlier,                \* sequences that rows projected before may hold
    Rebuilders,             \* the callers of Rebuild
    Engines,                \* the databases the deployment may be opened with
    MaxFaults,              \* bound: crashes and failed store calls
    MaxRebuilds             \* bound: calls of Rebuild

ASSUME ProjectionAssumption ==
    /\ KeyOf \in [Messages -> Keys]
    /\ SequenceOf \in [Messages -> Nat \ {0}]
    /\ Earlier \subseteq Nat \ {0}
    /\ \A m, n \in Messages : KeyOf[m] = KeyOf[n] /\ SequenceOf[m] = SequenceOf[n] => m = n
    /\ NoMessage \notin Messages
    /\ Workers \cap Rebuilders = {}
    /\ Engines \subseteq {"sqlite", "postgres"}
    /\ MaxFaults \in Nat /\ MaxRebuilds \in Nat

VARIABLES
    message, holding,
    engine,         \* what openDatabase opened
    row,            \* the committed sequence of each key, 0 when there is no row
    at,             \* where each process stands
    stale,          \* processes whose transaction began before another one's writes
    gone,           \* workers whose UPDATE waits for a row that was deleted
    emptied,        \* the keys whose rows each rebuild has deleted
    replayed,       \* the rows it writes instead
    overtaken,      \* keys written by a transaction that had become stale (history)
    mark,           \* the ProjectionState row, and whether RebuildingSince is set
    rebuilds, faults

Stream == INSTANCE EventStream WITH Parseable <- Messages

Processes == Workers \cup Rebuilders
txVars == <<at, stale, gone, emptied, replayed>>
fixed == <<engine, overtaken>>
vars == <<message, holding, row, txVars, fixed, mark, rebuilds, faults>>

TypeOK ==
    /\ Stream!TypeOK
    /\ engine \in Engines
    /\ row \in [Keys -> Nat]
    /\ at \in [Processes -> {"idle", "read", "create", "update", "updating", "wrote", "ack",
                             "look", "first_mark", "mark", "truncate", "replay", "replayed",
                             "clear"}]
    /\ stale \subseteq Processes /\ gone \subseteq Workers
    /\ emptied \in [Rebuilders -> SUBSET Keys]
    /\ replayed \in [Rebuilders -> [Keys -> Nat]]
    /\ overtaken \subseteq Keys
    /\ mark \in {"none", "clear", "set"}
    /\ rebuilds \in Nat /\ faults \in Nat

Init ==
    /\ Stream!Init
    /\ engine \in Engines
    /\ row \in [Keys -> {0} \cup Earlier]
    /\ at = [p \in Processes |-> "idle"]
    /\ stale = {} /\ gone = {}
    /\ emptied = [r \in Rebuilders |-> {}]
    /\ replayed = [r \in Rebuilders |-> [k \in Keys |-> 0]]
    /\ overtaken = {}
    /\ mark = "none"
    /\ rebuilds = 0 /\ faults = 0

Goto(p, where) == at' = [at EXCEPT ![p] = where]

\* The transaction of p ends: nothing of it is left.
Close(p, where) ==
    /\ Goto(p, where)
    /\ stale' = stale \ {p} /\ gone' = gone \ {p}

\* p has written, deleted or inserted the row of k and not committed.
Holds(p, k) ==
    \/ p \in Workers /\ at[p] = "wrote" /\ KeyOf[holding[p]] = k
    \/ /\ p \in Rebuilders /\ at[p] \in {"replay", "replayed"}
       /\ k \in emptied[p] \cup {j \in Keys : replayed[p][j] # 0}

\* What p writes waits for the rows of other transactions, and under SQLite for
\* the one transaction that writes.
Writing(p) == at[p] \in {"wrote", "replay", "replayed"}
Locked(p, k) == \E q \in Processes \ {p} :
    Holds(q, k) \/ (engine = "sqlite" /\ Writing(q))

\* The committed writes of p make every other open transaction stale, ...
Outdate(p) == stale' = (stale \cup {q \in Processes : at[q] \notin {"idle", "ack"}}) \ {p}

\* ... and one that began before can no longer write.
Refused(p) == engine = "sqlite" /\ p \in stale

-----------------------------------------------------------------------------
(* The event handler: Project.                                              *)

Publish(m) == Stream!Publish(m) /\ UNCHANGED <<fixed, row, txVars, mark, rebuilds, faults>>

AckWait(m) == Stream!AckWait(m) /\ UNCHANGED <<fixed, row, txVars, mark, rebuilds, faults>>

receive(w, m) ==
    /\ Stream!Deliver(w, m)
    /\ Goto(w, "read")
    /\ UNCHANGED <<fixed, row, stale, gone, emptied, replayed, mark, rebuilds, faults>>

Key(w) == KeyOf[holding[w]]
Sequence(w) == SequenceOf[holding[w]]

\* tx.First, and what its answer makes of the event: the first row of the key, a
\* newer one, or ErrStaleProjection, which the caller acknowledges.
readBranch(w, isStale) ==
    /\ at[w] = "read"
    /\ Goto(w, IF row[Key(w)] = 0 THEN "create" ELSE IF isStale THEN "ack" ELSE "update")
    /\ stale' = stale \ {w}
    /\ UNCHANGED <<fixed, message, holding, row, gone, emptied, replayed, mark, rebuilds, faults>>

\* Mutant: every event is taken (breaks NeverBack).
readNoCompare(w) == readBranch(w, FALSE)

read(w) == readBranch(w, row[Key(w)] >= Sequence(w))

\* tx.Update is sent: it addresses the row the key has now.
update(w) ==
    /\ at[w] = "update"
    /\ Goto(w, "updating")
    /\ UNCHANGED <<fixed, message, holding, row, stale, gone, emptied, replayed, mark,
                   rebuilds, faults>>

\* Create or Update goes through once nobody else has written the row.
write(w) ==
    /\ at[w] \in {"create", "updating"}
    /\ at[w] = "create" => row[Key(w)] = 0
    /\ ~Locked(w, Key(w)) /\ ~Refused(w)
    /\ Goto(w, "wrote")
    /\ overtaken' = IF w \in stale THEN overtaken \cup {Key(w)} ELSE overtaken
    /\ UNCHANGED <<engine, message, holding, row, stale, gone, emptied, replayed, mark, rebuilds,
                   faults>>

\* The Create is a duplicate key, or the database refuses to write.
Conflicts(w) ==
    \/ at[w] = "create" /\ ~Locked(w, Key(w)) /\ row[Key(w)] # 0
    \/ at[w] \in {"create", "updating"} /\ Refused(w)

\* Mutant: the duplicate is taken for an event that was already projected
\* (breaks AckedIsProjected).
conflictAcknowledged(w) ==
    /\ Conflicts(w)
    /\ Stream!Ack(w)
    /\ Close(w, "idle")
    /\ UNCHANGED <<fixed, row, emptied, replayed, mark, rebuilds, faults>>

\* Project returns the error.
conflict(w) ==
    /\ Conflicts(w)
    /\ Stream!Nak(w)
    /\ Close(w, "idle")
    /\ UNCHANGED <<fixed, row, emptied, replayed, mark, rebuilds, faults>>

\* The transaction commits.  An Update that found no row is no error.
commit(w) ==
    /\ at[w] = "wrote"
    /\ row' = IF w \in gone THEN row ELSE [row EXCEPT ![Key(w)] = Sequence(w)]
    /\ Goto(w, "ack")
    /\ Outdate(w)
    /\ gone' = gone \ {w}
    /\ UNCHANGED <<fixed, message, holding, emptied, replayed, mark, rebuilds, faults>>

acknowledge(w) ==
    /\ at[w] = "ack"
    /\ Stream!Ack(w)
    /\ Close(w, "idle")
    /\ UNCHANGED <<fixed, row, emptied, replayed, mark, rebuilds, faults>>

Fault == faults < MaxFaults /\ faults' = faults + 1

\* Mutant: the error is logged and the message acknowledged (breaks CatchesUp).
projectFailsQuietly(w) ==
    /\ Fault
    /\ at[w] \notin {"idle", "ack"}
    /\ Stream!Ack(w)
    /\ Close(w, "idle")
    /\ UNCHANGED <<fixed, row, emptied, replayed, mark, rebuilds>>

\* A store call fails, and Project returns its error.
projectFails(w) ==
    /\ Fault
    /\ at[w] \notin {"idle", "ack"}
    /\ Stream!Nak(w)
    /\ Close(w, "idle")
    /\ UNCHANGED <<fixed, row, emptied, replayed, mark, rebuilds>>

\* The process dies, or its acknowledgement is lost.
crash(w) ==
    /\ Fault
    /\ Stream!Crash(w)
    /\ Close(w, "idle")
    /\ UNCHANGED <<fixed, row, emptied, replayed, mark, rebuilds>>

-----------------------------------------------------------------------------
(* Rebuild.                                                                 *)

Rebuild(r) ==
    /\ at[r] = "idle"
    /\ rebuilds < MaxRebuilds /\ rebuilds' = rebuilds + 1
    /\ Goto(r, "look")
    /\ UNCHANGED <<fixed, message, holding, row, stale, gone, emptied, replayed, mark, faults>>

\* markRebuilding reads the state row, ...
look(r) ==
    /\ at[r] = "look"
    /\ Goto(r, IF mark = "none" THEN "first_mark" ELSE "mark")
    /\ UNCHANGED <<fixed, message, holding, row, stale, gone, emptied, replayed, mark,
                   rebuilds, faults>>

\* ... and creates or updates it; a second first mark is a duplicate key.
markRebuilding(r) ==
    /\ at[r] \in {"first_mark", "mark"}
    /\ \A k \in Keys : engine = "sqlite" => ~Locked(r, k)
    /\ IF at[r] = "first_mark" /\ mark # "none"
         THEN Goto(r, "idle") /\ UNCHANGED <<mark, stale>>
         ELSE Goto(r, "truncate") /\ mark' = "set" /\ Outdate(r)
    /\ UNCHANGED <<fixed, message, holding, row, gone, emptied, replayed, rebuilds, faults>>

\* truncate deletes every row.
truncate(r) ==
    /\ at[r] = "truncate"
    /\ \A k \in Keys : (row[k] # 0 \/ engine = "sqlite") => ~Locked(r, k)
    /\ Goto(r, "replay")
    /\ emptied' = [emptied EXCEPT ![r] = {k \in Keys : row[k] # 0}]
    /\ stale' = stale \ {r}
    /\ UNCHANGED <<fixed, message, holding, row, gone, replayed, mark, rebuilds, faults>>

\* What the source knows of a key: its latest published event, or the one the
\* row was made from.
Source(k) ==
    LET known == {row[k]} \cup {SequenceOf[m] : m \in {n \in Messages :
                                    KeyOf[n] = k /\ message[n] # "unpublished"}}
    IN  CHOOSE s \in known : \A t \in known : t <= s

Fresh(r) == {k \in Keys : Source(k) # 0 /\ k \notin emptied[r]}

\* replay writes the source's history.
replay(r) ==
    /\ at[r] = "replay"
    /\ \A k \in Fresh(r) : ~Locked(r, k) /\ row[k] = 0
    /\ Goto(r, "replayed")
    /\ replayed' = [replayed EXCEPT ![r] = [k \in Keys |-> Source(k)]]
    /\ UNCHANGED <<fixed, message, holding, row, stale, gone, emptied, mark, rebuilds, faults>>

\* Whatever the transaction did is undone.
Rollback(r) ==
    /\ Close(r, "idle")
    /\ emptied' = [emptied EXCEPT ![r] = {}]
    /\ replayed' = [replayed EXCEPT ![r] = [k \in Keys |-> 0]]

\* A row that truncate did not see is a duplicate key: the rebuild fails, and the
\* mark stays.
replayConflict(r) ==
    /\ at[r] = "replay"
    /\ \E k \in Fresh(r) : ~Locked(r, k) /\ row[k] # 0
    /\ Rollback(r)
    /\ UNCHANGED <<fixed, message, holding, row, mark, rebuilds, faults>>

commitRebuild(r) ==
    /\ at[r] = "replayed"
    /\ row' = [k \in Keys |-> IF k \in emptied[r] \/ replayed[r][k] # 0 THEN replayed[r][k]
                              ELSE row[k]]
    /\ gone' = gone \cup {w \in Workers : at[w] = "updating" /\ Key(w) \in emptied[r]}
    /\ Goto(r, "clear")
    /\ Outdate(r)
    /\ emptied' = [emptied EXCEPT ![r] = {}]
    /\ replayed' = [replayed EXCEPT ![r] = [k \in Keys |-> 0]]
    /\ UNCHANGED <<fixed, message, holding, mark, rebuilds, faults>>

\* Mutant: the rebuild is marked as over by a value nobody reads (breaks TypeOK).
clearUnknown(r) ==
    /\ at[r] = "clear"
    /\ mark' = "done"
    /\ Goto(r, "idle")
    /\ Outdate(r)
    /\ UNCHANGED <<fixed, message, holding, row, gone, emptied, replayed, rebuilds, faults>>

clear(r) ==
    /\ at[r] = "clear"
    /\ \A k \in Keys : engine = "sqlite" => ~Locked(r, k)
    /\ mark' = "clear"
    /\ Goto(r, "idle")
    /\ Outdate(r)
    /\ UNCHANGED <<fixed, message, holding, row, gone, emptied, replayed, rebuilds, faults>>

\* A store call of the rebuild fails or its process dies: on failure the mark is
\* left set.
rebuildFails(r) ==
    /\ Fault
    /\ at[r] # "idle"
    /\ Rollback(r)
    /\ UNCHANGED <<fixed, message, holding, row, mark, rebuilds>>

-----------------------------------------------------------------------------
Project(w) == read(w) \/ update(w) \/ write(w) \/ conflict(w) \/ commit(w) \/ acknowledge(w)

RebuildStep(r) ==
    \/ look(r) \/ markRebuilding(r) \/ truncate(r) \/ replay(r) \/ replayConflict(r)
    \/ commitRebuild(r) \/ clear(r)

Next ==
    \/ \E m \in Messages : Publish(m) \/ AckWait(m) \/ \E w \in Workers : receive(w, m)
    \/ \E w \in Workers : Project(w) \/ projectFails(w) \/ crash(w)
    \/ \E r \in Rebuilders : Rebuild(r) \/ RebuildStep(r) \/ rebuildFails(r)

Spec == Init /\ [][Next]_vars

\* The server redelivers, callbacks and rebuilds run.
FairSpec ==
    /\ Spec
    /\ \A w \in Workers : WF_vars(Project(w))
    /\ \A r \in Rebuilders : WF_vars(RebuildStep(r))
    /\ \A m \in Messages : WF_vars(AckWait(m)) /\ WF_vars(\E w \in Workers : receive(w, m))

-----------------------------------------------------------------------------
(* Properties.                                                              *)

\* An acknowledged event is in the projection, or a later one of its key is: no
\* redelivery, crash or rebuild loses it, unless PostgreSQL let a transaction
\* write that another one had overtaken.
AckedIsProjected == \A m \in Messages :
    (message[m] = "acked" /\ KeyOf[m] \notin overtaken) => row[KeyOf[m]] >= SequenceOf[m]

\* What readers see of a key never goes back, through redeliveries, out-of-order
\* events and rebuilds, as long as no overtaken transaction writes.
NeverBack == [][\A k \in Keys \ overtaken' : row'[k] >= row[k]]_vars

\* "A stale update must not overwrite a fresh one": NeverBack without its
\* condition.  Two deliveries that overlap break it under PostgreSQL.
FreshIsKept == [][\A k \in Keys : row'[k] >= row[k]]_vars

\* The projection catches up with every published event.
CatchesUp == \A m \in Messages :
    (message[m] = "waiting") ~> (row[KeyOf[m]] >= SequenceOf[m] \/ KeyOf[m] \in overtaken)
=============================================================================
