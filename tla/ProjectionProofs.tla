-------------------------- MODULE ProjectionProofs --------------------------
(***************************************************************************)
(* Proofs about Projection, for any set of keys, events, workers and         *)
(* rebuilders, under either database, and any number of faults and rebuilds. *)
(***************************************************************************)
EXTENDS Projection, WellFoundedInduction, TLAPS

-----------------------------------------------------------------------------
(* The inductive invariant, in parts.                                        *)

\* The source's history ends somewhere.
Bounded ==
    \E b \in Nat : \A m \in Messages : message[m] # "unpublished" => SequenceOf[m] <= b

\* A worker is in Project exactly while its callback holds an event.
Calling(w) ==
    /\ at[w] \in {"idle", "read", "create", "update", "updating", "wrote", "ack"}
    /\ at[w] = "idle" <=> holding[w] = NoMessage

\* What a worker has compared its event with is what the key still holds: until it
\* writes unless it is stale, from then on unless the key was overtaken.
Compared(w) ==
    /\ at[w] \in {"create", "update", "updating"} /\ w \notin stale => row[Key(w)] < Sequence(w)
    /\ at[w] = "wrote" /\ Key(w) \notin overtaken => row[Key(w)] < Sequence(w)
    /\ at[w] = "ack" /\ Key(w) \notin overtaken => row[Key(w)] >= Sequence(w)

\* An UPDATE whose row a rebuild deleted comes from an overtaken transaction.
GoneIsStale(w) ==
    w \in gone =>
        /\ at[w] \in {"updating", "wrote"}
        /\ at[w] = "updating" => w \in stale
        /\ at[w] = "wrote" => Key(w) \in overtaken

WorkerGood(w) == Calling(w) /\ Compared(w) /\ GoneIsStale(w)

\* A rebuild has touched rows only in its transaction, and replaces those it holds
\* by nothing older.
RebuildGood(r) ==
    /\ at[r] \in {"idle", "look", "first_mark", "mark", "truncate", "replay", "replayed", "clear"}
    /\ at[r] \notin {"replay", "replayed"} => emptied[r] = {}
    /\ at[r] # "replayed" => \A k \in Keys : replayed[r][k] = 0
    /\ at[r] = "replayed" => \A k \in Keys : Holds(r, k) => row[k] <= replayed[r][k]

\* No two transactions hold the same row.
Exclusive == \A p, q \in Processes, k \in Keys : Holds(p, k) /\ Holds(q, k) => p = q

IInv ==
    /\ TypeOK
    /\ Bounded
    /\ \A w \in Workers : WorkerGood(w)
    /\ \A r \in Rebuilders : RebuildGood(r)
    /\ Exclusive
    /\ AckedIsProjected

USE DEF Key, Sequence, Goto, Close, txVars, fixed

-----------------------------------------------------------------------------
(* The source.                                                               *)

Below == {pair \in Nat \X Nat : pair[1] < pair[2]}

\* The least-number principle, for sets.
LEMMA Least ==
    ASSUME NEW T, T \subseteq Nat, T # {}
    PROVE  \E x \in T : \A y \in T : ~(y < x)
<1>1. OpToRel(<, Nat) = Below
  BY DEF OpToRel, Below
<1>2. IsWellFoundedOn(Below, Nat)
  BY <1>1, NatLessThanWellFounded, Zenon
<1>3. PICK x \in T : \A y \in T : ~(<<y, x>> \in Below)
  BY <1>2, WFMin, Zenon
<1> QED
  BY <1>3 DEF Below

\* A set of numbers with a bound has a greatest element.
LEMMA Greatest ==
    ASSUME NEW T, T \subseteq Nat, T # {}, NEW b \in Nat, \A x \in T : x <= b
    PROVE  \E s \in T : \A t \in T : t <= s
<1> DEFINE U == {u \in Nat : \A x \in T : x <= u}
<1>1. PICK u \in U : \A v \in U : ~(v < u)
  <2>1. b \in U /\ U \subseteq Nat
    BY Zenon
  <2> HIDE DEF U
  <2> QED
    BY <2>1, Least, Zenon
<1>2. u \in Nat /\ \A x \in T : x <= u
  BY Zenon
<1>3. u \in T
  <2> SUFFICES ASSUME u \notin T PROVE FALSE
    BY Zenon
  <2>1. \A x \in T : x \in Nat /\ x < u
    BY <1>2
  <2>2. u - 1 \in Nat /\ u - 1 < u
    <3>1. PICK x : x \in T
      BY Zenon
    <3> QED
      BY <1>2, <2>1, <3>1
  <2>3. \A x \in T : x <= u - 1
    BY <1>2, <2>1
  <2> QED
    BY <1>1, <2>2, <2>3, Zenon
<1> QED
  BY <1>2, <1>3, Zenon

\* What a replay writes for a key is at least what its row holds.
LEMMA SourceIsLater ==
    ASSUME IInv, NEW k \in Keys
    PROVE  Source(k) \in Nat /\ row[k] <= Source(k)
<1> DEFINE known == {row[k]} \cup {SequenceOf[m] : m \in {n \in Messages :
                                      KeyOf[n] = k /\ message[n] # "unpublished"}}
<1>1. row[k] \in Nat /\ SequenceOf \in [Messages -> Nat]
  BY ProjectionAssumption, Zenon DEF IInv, TypeOK
<1>2. PICK b \in Nat : \A m \in Messages : message[m] # "unpublished" => SequenceOf[m] <= b
  BY Zenon DEF IInv, Bounded
<1>3. known \subseteq Nat /\ row[k] \in known
  BY <1>1, Zenon
<1>4. \A x \in known : x <= b + row[k]
  BY <1>1, <1>2
<1>5. \E s \in known : \A t \in known : t <= s
  <2>1. b + row[k] \in Nat
    BY <1>1, <1>2
  <2> HIDE DEF known
  <2> QED
    BY <1>3, <1>4, <2>1, Greatest, Zenon
<1>6. Source(k) = CHOOSE s \in known : \A t \in known : t <= s
  BY Zenon DEF Source
<1> HIDE DEF known
<1> QED
  BY <1>3, <1>5, <1>6, Zenon

-----------------------------------------------------------------------------
(* One process moves, and the others do not notice.                          *)

\* p stands where it stood, in the same transaction.
Still(p) ==
    /\ at'[p] = at[p]
    /\ p \in Workers => holding'[p] = holding[p]
    /\ p \in Rebuilders => emptied'[p] = emptied[p] /\ replayed'[p] = replayed[p]

\* What a transaction holds depends on its own step only.
LEMMA StillHolds ==
    ASSUME NEW p, Still(p), NEW k
    PROVE  Holds(p, k)' <=> Holds(p, k)
  BY DEF Still, Holds

\* A worker that a step leaves alone stays good if its key's row and marks do.
LEMMA WorkerStill ==
    ASSUME NEW w \in Workers, WorkerGood(w), Still(w), UNCHANGED row, overtaken \subseteq overtaken',
           w \in gone' => w \in gone, w \in stale' <=> w \in stale
    PROVE  WorkerGood(w)'
<1>1. Calling(w)'
  BY Zenon DEF WorkerGood, Still, Calling
<1>2. Compared(w)'
  BY Zenon DEF WorkerGood, Still, Compared
<1>3. GoneIsStale(w)'
  BY Zenon DEF WorkerGood, Still, GoneIsStale
<1> QED
  BY <1>1, <1>2, <1>3, Zenon DEF WorkerGood

\* A rebuild that a step leaves alone stays good if the rows it holds do.
LEMMA RebuildStill ==
    ASSUME NEW r \in Rebuilders, RebuildGood(r), Still(r), UNCHANGED row
    PROVE  RebuildGood(r)'
<1>1. \A k \in Keys : Holds(r, k)' <=> Holds(r, k)
  BY StillHolds, Zenon
<1> QED
  BY <1>1, Zenon DEF RebuildGood, Still

\* What p gains, nobody else holds.
LEMMA ExclusiveMove ==
    ASSUME Exclusive, NEW p \in Processes, \A q \in Processes : q # p => Still(q),
           \A k \in Keys : Holds(p, k)' /\ ~Holds(p, k) =>
               \A q \in Processes : q # p => ~Holds(q, k)
    PROVE  Exclusive'
<1>1. \A q \in Processes, k \in Keys : q # p => (Holds(q, k)' <=> Holds(q, k))
  BY StillHolds, Zenon
<1> QED
  BY <1>1, Zenon DEF Exclusive

\* One message moves on: the history still ends somewhere.
LEMMA BoundedMove ==
    ASSUME TypeOK, Bounded, NEW m \in Messages, NEW s, message' = [message EXCEPT ![m] = s]
    PROVE  Bounded'
<1>1. PICK b \in Nat : \A n \in Messages : message[n] # "unpublished" => SequenceOf[n] <= b
  BY Zenon DEF Bounded
<1>2. SequenceOf \in [Messages -> Nat] /\ message \in [Messages -> Stream!MessageState]
  BY ProjectionAssumption, Zenon DEF TypeOK, Stream!TypeOK
<1>3. b + SequenceOf[m] \in Nat
  BY <1>1, <1>2
<1>4. ASSUME NEW n \in Messages, message'[n] # "unpublished"
      PROVE  SequenceOf[n] <= b + SequenceOf[m]
  <2>1. n = m \/ message[n] # "unpublished"
    BY <1>2, <1>4, Zenon
  <2>2. n = m \/ SequenceOf[n] <= b
    BY <1>1, <2>1, Zenon
  <2> QED
    BY <1>1, <1>2, <2>2
<1> QED
  BY <1>3, <1>4, Zenon DEF Bounded

\* Acknowledged events stay projected when a message moves on that is not
\* acknowledged, or projected.
LEMMA AckedMove ==
    ASSUME IInv, UNCHANGED row, overtaken \subseteq overtaken', NEW m \in Messages, NEW s,
           message' = [message EXCEPT ![m] = s],
           s = "acked" => \/ message[m] = "acked"
                          \/ KeyOf[m] \in overtaken
                          \/ row[KeyOf[m]] >= SequenceOf[m]
    PROVE  AckedIsProjected'
<1>1. message \in [Messages -> Stream!MessageState]
  BY Zenon DEF IInv, TypeOK, Stream!TypeOK
<1> QED
  BY <1>1, Zenon DEF IInv, AckedIsProjected

\* No message moves.
LEMMA StreamStill ==
    ASSUME IInv, UNCHANGED <<row, message>>, overtaken \subseteq overtaken'
    PROVE  Bounded' /\ AckedIsProjected'
  BY Zenon DEF IInv, Bounded, AckedIsProjected

\* A worker's step that commits nothing.
LEMMA WorkerMove ==
    ASSUME IInv, NEW w \in Workers, TypeOK', Bounded', AckedIsProjected', WorkerGood(w)',
           NEW s, at' = [at EXCEPT ![w] = s],
           \A v \in Workers : v # w => holding'[v] = holding[v],
           UNCHANGED <<row, emptied, replayed>>,
           stale' \in {stale, stale \ {w}}, gone' \in {gone, gone \ {w}},
           overtaken \subseteq overtaken',
           \A k \in Keys : Holds(w, k)' => \A q \in Processes : q # w => ~Holds(q, k)
    PROVE  IInv'
<1>1. \A p \in Processes : p # w => Still(p)
  BY Zenon DEF IInv, TypeOK, Still
<1>2. \A v \in Workers : v # w => WorkerGood(v)'
  <2> SUFFICES ASSUME NEW v \in Workers, v # w PROVE WorkerGood(v)'
    BY Zenon
  <2>1. WorkerGood(v) /\ Still(v) /\ (v \in gone' => v \in gone) /\ (v \in stale' <=> v \in stale)
    BY <1>1, Zenon DEF IInv, Processes
  <2> QED
    BY <2>1, WorkerStill, Zenon
<1>3. \A r \in Rebuilders : RebuildGood(r)'
  <2> SUFFICES ASSUME NEW r \in Rebuilders PROVE RebuildGood(r)'
    BY Zenon
  <2>1. RebuildGood(r) /\ Still(r)
    BY <1>1, ProjectionAssumption, Zenon DEF IInv, Processes
  <2> QED
    BY <2>1, RebuildStill, Zenon
<1>4. Exclusive'
  BY <1>1, ExclusiveMove, Zenon DEF IInv, Processes
<1> QED
  BY <1>2, <1>3, <1>4, Zenon DEF IInv

\* A rebuild's step that commits nothing to the rows.  It may make the open
\* transactions stale.
LEMMA RebuildMove ==
    ASSUME IInv, NEW r \in Rebuilders, TypeOK', RebuildGood(r)',
           NEW s, at' = [at EXCEPT ![r] = s],
           UNCHANGED <<message, holding, row, gone, overtaken>>,
           \A q \in Rebuilders : q # r => emptied'[q] = emptied[q] /\ replayed'[q] = replayed[q],
           stale \ {r} \subseteq stale',
           \A k \in Keys : Holds(r, k)' /\ ~Holds(r, k) => \A q \in Processes : q # r => ~Holds(q, k)
    PROVE  IInv'
<1>1. \A p \in Processes : p # r => Still(p)
  BY Zenon DEF IInv, TypeOK, Still
<1>2. \A w \in Workers : WorkerGood(w)'
  <2> SUFFICES ASSUME NEW w \in Workers PROVE WorkerGood(w)'
    BY Zenon
  <2>1. WorkerGood(w) /\ Still(w) /\ (w \in stale => w \in stale')
    BY <1>1, ProjectionAssumption, Zenon DEF IInv, Processes
  <2>2. Calling(w)'
    BY <2>1, Zenon DEF WorkerGood, Still, Calling
  <2>3. Compared(w)'
    BY <2>1, Zenon DEF WorkerGood, Still, Compared
  <2>4. GoneIsStale(w)'
    BY <2>1, Zenon DEF WorkerGood, Still, GoneIsStale
  <2> QED
    BY <2>2, <2>3, <2>4, Zenon DEF WorkerGood
<1>3. \A q \in Rebuilders : q # r => RebuildGood(q)'
  <2> SUFFICES ASSUME NEW q \in Rebuilders, q # r PROVE RebuildGood(q)'
    BY Zenon
  <2>1. RebuildGood(q) /\ Still(q)
    BY <1>1, Zenon DEF IInv, Processes
  <2> QED
    BY <2>1, RebuildStill, Zenon
<1>4. Exclusive'
  BY <1>1, ExclusiveMove, Zenon DEF IInv, Processes
<1>5. Bounded' /\ AckedIsProjected'
  BY StreamStill, Zenon
<1> QED
  BY <1>2, <1>3, <1>4, <1>5, Zenon DEF IInv

-----------------------------------------------------------------------------
(* The event handler.                                                        *)

\* The source's history goes on.
LEMMA StreamKeeps ==
    ASSUME IInv, NEW m \in Messages, Publish(m) \/ AckWait(m)
    PROVE  IInv'
<1>1. /\ message' = [message EXCEPT ![m] = "waiting"]
      /\ UNCHANGED <<holding, row, at, stale, gone, emptied, replayed, overtaken>>
      /\ UNCHANGED <<engine, mark, rebuilds, faults>>
  BY Zenon DEF Publish, AckWait, Stream!Publish, Stream!AckWait
<1>2. TypeOK'
  BY <1>1, Zenon DEF IInv, TypeOK, Stream!TypeOK, Stream!MessageState
<1>3. \A p \in Processes : Still(p)
  BY <1>1, Zenon DEF Still
<1>4. \A w \in Workers : WorkerGood(w)'
  BY <1>1, <1>3, WorkerStill, Zenon DEF IInv, Processes
<1>5. \A r \in Rebuilders : RebuildGood(r)'
  BY <1>1, <1>3, RebuildStill, Zenon DEF IInv, Processes
<1>6. Exclusive'
  BY <1>3, StillHolds, Zenon DEF IInv, Exclusive
<1>7. Bounded' /\ AckedIsProjected'
  BY <1>1, BoundedMove, AckedMove, Zenon DEF IInv
<1> QED
  BY <1>2, <1>4, <1>5, <1>6, <1>7, Zenon DEF IInv

\* Workers are not rebuilders.
LEMMA WorkerIs ==
    ASSUME NEW w \in Workers
    PROVE  w \in Processes /\ w \notin Rebuilders
  BY ProjectionAssumption, Zenon DEF Processes

\* A callback begins.
LEMMA ReceiveKeeps ==
    ASSUME IInv, NEW w \in Workers, NEW m \in Messages, receive(w, m)
    PROVE  IInv'
<1>1. /\ message[m] = "waiting" /\ message' = [message EXCEPT ![m] = "out"]
      /\ holding[w] = NoMessage /\ holding' = [holding EXCEPT ![w] = m]
      /\ at' = [at EXCEPT ![w] = "read"]
      /\ UNCHANGED <<row, stale, gone, emptied, replayed, overtaken>>
      /\ UNCHANGED <<engine, mark, rebuilds, faults>>
  BY Zenon DEF receive, Stream!Deliver
<1>2. /\ TypeOK /\ WorkerGood(w) /\ w \in Processes /\ w \notin Rebuilders
  BY WorkerIs, Zenon DEF IInv
<1>3. TypeOK'
  BY <1>1, <1>2, Zenon DEF TypeOK, Stream!TypeOK, Stream!MessageState
<1>4. at'[w] = "read" /\ holding'[w] = m /\ \A v \in Workers : v # w => holding'[v] = holding[v]
  BY <1>1, <1>2, Zenon DEF TypeOK, Stream!TypeOK
<1>5. WorkerGood(w)'
  <2>1. w \notin gone
    BY <1>1, <1>2, Zenon DEF WorkerGood, GoneIsStale, Calling
  <2>2. m # NoMessage
    BY ProjectionAssumption, Zenon
  <2> QED
    BY <1>1, <1>4, <2>1, <2>2, Zenon DEF WorkerGood, Calling, Compared, GoneIsStale
<1>6. Bounded' /\ AckedIsProjected'
  BY <1>1, BoundedMove, AckedMove, Zenon DEF IInv
<1>7. \A k \in Keys : ~Holds(w, k)'
  BY <1>2, <1>4, Zenon DEF Holds
<1> QED
  BY <1>1, <1>3, <1>4, <1>5, <1>6, <1>7, WorkerMove, Zenon

\* The event a worker works on, and what the database holds of its key.
LEMMA InCall ==
    ASSUME IInv, NEW w \in Workers, at[w] # "idle"
    PROVE  /\ holding[w] \in Messages /\ holding[w] # NoMessage
           /\ Key(w) \in Keys /\ Sequence(w) \in Nat \ {0} /\ row[Key(w)] \in Nat
<1>1. holding[w] \in Messages
  BY Zenon DEF IInv, TypeOK, Stream!TypeOK, WorkerGood, Calling
<1>2. KeyOf[holding[w]] \in Keys /\ SequenceOf[holding[w]] \in Nat \ {0}
  BY <1>1, ProjectionAssumption, Zenon
<1> QED
  BY <1>1, <1>2, ProjectionAssumption, Zenon DEF IInv, TypeOK

\* The comparison.
LEMMA ReadKeeps ==
    ASSUME IInv, NEW w \in Workers, read(w)
    PROVE  IInv'
<1> DEFINE s == IF row[Key(w)] = 0 THEN "create"
                ELSE IF row[Key(w)] >= Sequence(w) THEN "ack" ELSE "update"
<1>1. /\ at[w] = "read" /\ at' = [at EXCEPT ![w] = s] /\ stale' = stale \ {w}
      /\ UNCHANGED <<message, holding, row, gone, emptied, replayed, overtaken>>
      /\ UNCHANGED <<engine, mark, rebuilds, faults>>
  BY Zenon DEF read, readBranch
<1>2. /\ TypeOK /\ WorkerGood(w) /\ w \in Processes /\ w \notin Rebuilders
  BY WorkerIs, Zenon DEF IInv
<1>3. TypeOK'
  BY <1>1, <1>2, Zenon DEF TypeOK, Stream!TypeOK
<1>4. at'[w] = s
  BY <1>1, <1>2, Zenon DEF TypeOK
<1>5. WorkerGood(w)'
  <2>1. /\ s = "create" => row[Key(w)] < Sequence(w)
        /\ s = "update" => row[Key(w)] < Sequence(w)
        /\ s = "ack" => row[Key(w)] >= Sequence(w)
    <3>1. Sequence(w) \in Nat \ {0} /\ row[Key(w)] \in Nat
      BY <1>1, InCall, Zenon
    <3> QED
      BY <3>1
  <2>2. s \in {"create", "update", "ack"} /\ holding[w] # NoMessage /\ w \notin gone
    BY <1>1, <1>2, InCall, Zenon DEF WorkerGood, GoneIsStale
  <2> HIDE DEF s
  <2> QED
    BY <1>1, <1>4, <2>1, <2>2, Zenon DEF WorkerGood, Calling, Compared, GoneIsStale
<1>6. Bounded' /\ AckedIsProjected'
  BY <1>1, StreamStill, Zenon
<1>7. \A k \in Keys : ~Holds(w, k)'
  BY <1>2, <1>4, Zenon DEF Holds
<1> HIDE DEF s
<1> QED
  BY <1>1, <1>3, <1>5, <1>6, <1>7, WorkerMove, Zenon

\* The UPDATE is sent.
LEMMA UpdateKeeps ==
    ASSUME IInv, NEW w \in Workers, update(w)
    PROVE  IInv'
<1>1. /\ at[w] = "update" /\ at' = [at EXCEPT ![w] = "updating"]
      /\ UNCHANGED <<message, holding, row, stale, gone, emptied, replayed, overtaken>>
      /\ UNCHANGED <<engine, mark, rebuilds, faults>>
  BY Zenon DEF update
<1>2. /\ TypeOK /\ WorkerGood(w) /\ w \in Processes /\ w \notin Rebuilders
  BY WorkerIs, Zenon DEF IInv
<1>3. TypeOK'
  BY <1>1, <1>2, Zenon DEF TypeOK, Stream!TypeOK
<1>4. at'[w] = "updating"
  BY <1>1, <1>2, Zenon DEF TypeOK
<1>5. WorkerGood(w)'
  BY <1>1, <1>2, <1>4, Zenon DEF WorkerGood, Calling, Compared, GoneIsStale
<1>6. Bounded' /\ AckedIsProjected'
  BY <1>1, StreamStill, Zenon
<1>7. \A k \in Keys : ~Holds(w, k)'
  BY <1>2, <1>4, Zenon DEF Holds
<1> QED
  BY <1>1, <1>3, <1>5, <1>6, <1>7, WorkerMove, Zenon

\* The row is written once no other transaction holds it; by a stale one, the key is
\* overtaken.
LEMMA WriteKeeps ==
    ASSUME IInv, NEW w \in Workers, write(w)
    PROVE  IInv'
<1>1. /\ at[w] \in {"create", "updating"} /\ at' = [at EXCEPT ![w] = "wrote"]
      /\ overtaken' = IF w \in stale THEN overtaken \cup {Key(w)} ELSE overtaken
      /\ ~Locked(w, Key(w))
      /\ UNCHANGED <<message, holding, row, stale, gone, emptied, replayed>>
      /\ UNCHANGED <<engine, mark, rebuilds, faults>>
  BY Zenon DEF write
<1>2. /\ TypeOK /\ WorkerGood(w) /\ w \in Processes /\ w \notin Rebuilders
  BY WorkerIs, Zenon DEF IInv
<1>3. Key(w) \in Keys /\ holding[w] # NoMessage
  BY <1>1, InCall, Zenon
<1>4. TypeOK'
  BY <1>1, <1>2, <1>3, Zenon DEF TypeOK, Stream!TypeOK
<1>5. at'[w] = "wrote" /\ overtaken \subseteq overtaken'
  BY <1>1, <1>2, Zenon DEF TypeOK
<1>6. WorkerGood(w)'
  BY <1>1, <1>2, <1>3, <1>5, Zenon DEF WorkerGood, Calling, Compared, GoneIsStale
<1>7. Bounded' /\ AckedIsProjected'
  BY <1>1, <1>5, StreamStill, Zenon
<1>8. \A k \in Keys : Holds(w, k)' => k = Key(w)
  BY <1>1, <1>2, Zenon DEF Holds
<1>9. \A q \in Processes : q # w => ~Holds(q, Key(w))
  BY <1>1, Zenon DEF Locked
<1> QED
  BY <1>1, <1>4, <1>5, <1>6, <1>7, <1>8, <1>9, WorkerMove, Zenon

\* Project returns: acknowledged only after its commit or its comparison.
LEMMA LeaveKeeps ==
    ASSUME IInv, NEW w \in Workers,
           conflict(w) \/ projectFails(w) \/ crash(w) \/ acknowledge(w)
    PROVE  IInv'
<1>1. /\ holding[w] # NoMessage /\ holding' = [holding EXCEPT ![w] = NoMessage]
      /\ at' = [at EXCEPT ![w] = "idle"] /\ stale' = stale \ {w} /\ gone' = gone \ {w}
      /\ UNCHANGED <<row, emptied, replayed, overtaken>>
      /\ UNCHANGED <<engine, mark, rebuilds>>
  BY Zenon DEF conflict, projectFails, crash, acknowledge, Stream!Nak, Stream!Crash, Stream!Ack,
     Stream!Return
<1>2. /\ TypeOK /\ WorkerGood(w) /\ w \in Processes /\ w \notin Rebuilders
  BY WorkerIs, Zenon DEF IInv
<1>3. holding[w] \in Messages /\ at[w] # "idle"
  BY <1>1, <1>2, Zenon DEF TypeOK, Stream!TypeOK, WorkerGood, Calling
<1>4. PICK s \in Stream!MessageState :
        /\ message' = [message EXCEPT ![holding[w]] = s]
        /\ s = "acked" => at[w] = "ack" \/ message[holding[w]] = "acked"
  <2>1. message[holding[w]] \in Stream!MessageState
    BY <1>2, <1>3, Zenon DEF TypeOK, Stream!TypeOK
  <2>2. CASE conflict(w) \/ projectFails(w)
    BY <2>1, <2>2, Zenon DEF conflict, projectFails, Stream!Nak, Stream!Return, Stream!MessageState
  <2>3. CASE crash(w)
    <3>1. message' = [message EXCEPT ![holding[w]] = message[holding[w]]]
      BY <1>2, <1>3, <2>3 DEF crash, Stream!Crash, TypeOK, Stream!TypeOK
    <3> QED
      BY <2>1, <3>1, Zenon
  <2>4. CASE acknowledge(w)
    BY <2>4, Zenon DEF acknowledge, Stream!Ack, Stream!Return, Stream!MessageState
  <2> QED
    BY <2>2, <2>3, <2>4, Zenon
<1>5. TypeOK'
  <2>1. faults' \in Nat
    BY <1>2 DEF conflict, projectFails, crash, acknowledge, Fault, TypeOK
  <2> QED
    BY <1>1, <1>2, <1>3, <1>4, <2>1, Zenon DEF TypeOK, Stream!TypeOK
<1>6. /\ at'[w] = "idle" /\ holding'[w] = NoMessage
      /\ \A v \in Workers : v # w => holding'[v] = holding[v]
  BY <1>1, <1>2, Zenon DEF TypeOK, Stream!TypeOK
<1>7. WorkerGood(w)'
  BY <1>1, <1>6, Zenon DEF WorkerGood, Calling, Compared, GoneIsStale
<1>8. Bounded' /\ AckedIsProjected'
  <2>1. at[w] = "ack" => Key(w) \in overtaken \/ row[Key(w)] >= Sequence(w)
    BY <1>2, Zenon DEF WorkerGood, Compared
  <2> QED
    BY <1>1, <1>3, <1>4, <2>1, BoundedMove, AckedMove, Zenon DEF IInv
<1>9. \A k \in Keys : ~Holds(w, k)'
  BY <1>2, <1>6, Zenon DEF Holds
<1> QED
  BY <1>1, <1>5, <1>6, <1>7, <1>8, <1>9, WorkerMove, Zenon

-----------------------------------------------------------------------------
(* Transactions that commit rows.                                            *)

\* p commits rows that only it holds, to nothing older unless their key is overtaken;
\* every other transaction is stale from then on.
LEMMA CommitMove ==
    ASSUME IInv, TypeOK', NEW p \in Processes, NEW s, at' = [at EXCEPT ![p] = s],
           p \in Workers => WorkerGood(p)', p \in Rebuilders => RebuildGood(p)',
           \A k \in Keys : ~Holds(p, k)',
           UNCHANGED <<message, holding, overtaken>>,
           \A r \in Rebuilders : r # p => emptied'[r] = emptied[r] /\ replayed'[r] = replayed[r],
           \A q \in Processes : q # p /\ at[q] \notin {"idle", "ack"} => q \in stale',
           \A w \in Workers : w \in gone' => w \in gone \/ at[w] = "updating",
           \A k \in Keys : row'[k] # row[k] => Holds(p, k),
           \A k \in Keys \ overtaken : row'[k] >= row[k]
    PROVE  IInv'
<1>1. \A q \in Processes : q # p => Still(q)
  BY Zenon DEF IInv, TypeOK, Still
<1>2. \A q \in Processes, k \in Keys : q # p /\ Holds(q, k) => row'[k] = row[k]
  BY Zenon DEF IInv, Exclusive
<1>3. ASSUME NEW w \in Workers, w # p PROVE WorkerGood(w)'
  <2>1. /\ WorkerGood(w) /\ Still(w) /\ w \in Processes
        /\ at[w] \notin {"idle", "ack"} => w \in stale'
        /\ w \in gone' => w \in gone \/ at[w] = "updating"
    BY <1>1, <1>3, Zenon DEF IInv, Processes
  <2>2. Calling(w)'
    BY <2>1, Zenon DEF WorkerGood, Still, Calling
  <2>3. Compared(w)'
    <3>1. at[w] = "wrote" => row'[Key(w)] = row[Key(w)]
      <4>1. at[w] = "wrote" => Key(w) \in Keys
        BY InCall, Zenon
      <4> QED
        BY <1>2, <1>3, <2>1, <4>1, Zenon DEF Holds
    <3>2. at[w] = "ack" /\ Key(w) \notin overtaken => row'[Key(w)] >= Sequence(w)
      <4> SUFFICES ASSUME at[w] = "ack", Key(w) \notin overtaken
                   PROVE  row'[Key(w)] >= Sequence(w)
        BY Zenon
      <4>1. Key(w) \in Keys /\ Sequence(w) \in Nat /\ row[Key(w)] \in Nat
        BY InCall, Zenon
      <4>2. row'[Key(w)] >= row[Key(w)] /\ row[Key(w)] >= Sequence(w) /\ row'[Key(w)] \in Nat
        BY <2>1, <4>1, Zenon DEF WorkerGood, Compared, TypeOK
      <4> QED
        BY <4>1, <4>2
    <3> QED
      BY <2>1, <3>1, <3>2, Zenon DEF WorkerGood, Still, Compared
  <2>4. GoneIsStale(w)'
    BY <2>1, Zenon DEF WorkerGood, Still, GoneIsStale
  <2> QED
    BY <2>2, <2>3, <2>4, Zenon DEF WorkerGood
<1>4. ASSUME NEW r \in Rebuilders, r # p PROVE RebuildGood(r)'
  <2>1. RebuildGood(r) /\ Still(r) /\ r \in Processes
    BY <1>1, <1>4, Zenon DEF IInv, Processes
  <2>2. \A k \in Keys : /\ Holds(r, k)' <=> Holds(r, k)
                        /\ Holds(r, k) => row'[k] = row[k]
    BY <1>2, <1>4, <2>1, StillHolds, Zenon
  <2> QED
    BY <2>1, <2>2, Zenon DEF RebuildGood, Still
<1>5. Exclusive'
  BY <1>1, ExclusiveMove, Zenon DEF IInv
<1>6. Bounded'
  BY Zenon DEF IInv, Bounded
<1>7. AckedIsProjected'
  <2> SUFFICES ASSUME NEW m \in Messages, message[m] = "acked", KeyOf[m] \notin overtaken
               PROVE  row'[KeyOf[m]] >= SequenceOf[m]
    BY Zenon DEF AckedIsProjected
  <2>1. KeyOf[m] \in Keys /\ SequenceOf[m] \in Nat
    BY ProjectionAssumption, Zenon
  <2>2. /\ row[KeyOf[m]] \in Nat /\ row'[KeyOf[m]] \in Nat
        /\ row'[KeyOf[m]] >= row[KeyOf[m]] /\ row[KeyOf[m]] >= SequenceOf[m]
    BY <2>1, Zenon DEF IInv, TypeOK, AckedIsProjected
  <2> QED
    BY <2>1, <2>2
<1> QED
  BY <1>3, <1>4, <1>5, <1>6, <1>7, Zenon DEF IInv

\* An event's row commits.
LEMMA CommitKeeps ==
    ASSUME IInv, NEW w \in Workers, commit(w)
    PROVE  IInv' /\ \A k \in Keys \ overtaken : row'[k] >= row[k]
<1>1. /\ at[w] = "wrote" /\ at' = [at EXCEPT ![w] = "ack"]
      /\ row' = IF w \in gone THEN row ELSE [row EXCEPT ![Key(w)] = Sequence(w)]
      /\ stale' = (stale \cup {q \in Processes : at[q] \notin {"idle", "ack"}}) \ {w}
      /\ gone' = gone \ {w}
      /\ UNCHANGED <<message, holding, emptied, replayed, overtaken>>
      /\ UNCHANGED <<engine, mark, rebuilds, faults>>
  BY Zenon DEF commit, Outdate
<1>2. /\ TypeOK /\ WorkerGood(w) /\ w \in Processes /\ w \notin Rebuilders
  BY WorkerIs, Zenon DEF IInv
<1>3. /\ holding[w] # NoMessage /\ Key(w) \in Keys
      /\ Sequence(w) \in Nat /\ row[Key(w)] \in Nat /\ row \in [Keys -> Nat]
  BY <1>1, <1>2, InCall, Zenon DEF TypeOK
<1>4. TypeOK'
  BY <1>1, <1>2, <1>3, Zenon DEF TypeOK, Stream!TypeOK
<1>5. at'[w] = "ack"
  BY <1>1, <1>2, Zenon DEF TypeOK
<1>6. /\ w \in gone => Key(w) \in overtaken
      /\ Key(w) \notin overtaken => row[Key(w)] < Sequence(w)
  BY <1>1, <1>2, Zenon DEF WorkerGood, GoneIsStale, Compared
<1>7. \A k \in Keys \ overtaken : row'[k] >= row[k]
  BY <1>1, <1>3, <1>6
<1>8. WorkerGood(w)'
  <2>1. Key(w) \notin overtaken => row'[Key(w)] >= Sequence(w)
    BY <1>1, <1>3, <1>6
  <2> QED
    BY <1>1, <1>3, <1>5, <2>1, Zenon DEF WorkerGood, Calling, Compared, GoneIsStale
<1>9. /\ \A k \in Keys : ~Holds(w, k)'
      /\ \A k \in Keys : row'[k] # row[k] => Holds(w, k)
  BY <1>1, <1>2, <1>3, <1>5, Zenon DEF Holds
<1>10. /\ \A q \in Processes : q # w /\ at[q] \notin {"idle", "ack"} => q \in stale'
       /\ \A v \in Workers : v \in gone' => v \in gone \/ at[v] = "updating"
  BY <1>1, Zenon
<1>11. IInv'
  BY <1>1, <1>2, <1>4, <1>7, <1>8, <1>9, <1>10, CommitMove, Zenon
<1> QED
  BY <1>7, <1>11, Zenon

\* Rebuilders are not workers.
LEMMA RebuilderIs ==
    ASSUME NEW r \in Rebuilders
    PROVE  r \in Processes /\ r \notin Workers
  BY ProjectionAssumption, Zenon DEF Processes

\* The replayed history commits, in place of what was there.
LEMMA CommitRebuildKeeps ==
    ASSUME IInv, NEW r \in Rebuilders, commitRebuild(r)
    PROVE  IInv' /\ \A k \in Keys \ overtaken : row'[k] >= row[k]
<1>1. /\ at[r] = "replayed" /\ at' = [at EXCEPT ![r] = "clear"]
      /\ row' = [k \in Keys |-> IF k \in emptied[r] \/ replayed[r][k] # 0 THEN replayed[r][k]
                                ELSE row[k]]
      /\ stale' = (stale \cup {q \in Processes : at[q] \notin {"idle", "ack"}}) \ {r}
      /\ gone' = gone \cup {w \in Workers : at[w] = "updating" /\ Key(w) \in emptied[r]}
      /\ emptied' = [emptied EXCEPT ![r] = {}]
      /\ replayed' = [replayed EXCEPT ![r] = [k \in Keys |-> 0]]
      /\ UNCHANGED <<message, holding, overtaken>>
      /\ UNCHANGED <<engine, mark, rebuilds, faults>>
  BY Zenon DEF commitRebuild, Outdate
<1>2. /\ TypeOK /\ RebuildGood(r) /\ r \in Processes /\ r \notin Workers
  BY RebuilderIs, Zenon DEF IInv
<1>3. replayed[r] \in [Keys -> Nat] /\ row \in [Keys -> Nat]
  BY <1>2, Zenon DEF TypeOK
<1>4. TypeOK'
  <2>1. row' \in [Keys -> Nat] /\ [k \in Keys |-> 0] \in [Keys -> Nat]
    BY <1>1, <1>3
  <2> QED
    BY <1>1, <1>2, <2>1, Zenon DEF TypeOK, Stream!TypeOK
<1>5. at'[r] = "clear" /\ emptied'[r] = {} /\ \A k \in Keys : replayed'[r][k] = 0
  BY <1>1, <1>2, Zenon DEF TypeOK
<1>6. \A k \in Keys : /\ ~Holds(r, k) => row'[k] = row[k]
                      /\ Holds(r, k) => row'[k] = replayed[r][k] /\ row[k] <= replayed[r][k]
  BY <1>1, <1>2, Zenon DEF Holds, RebuildGood
<1>7. \A k \in Keys \ overtaken : row'[k] >= row[k]
  BY <1>3, <1>6
<1>8. RebuildGood(r)' /\ \A k \in Keys : ~Holds(r, k)'
  BY <1>2, <1>5, Zenon DEF RebuildGood, Holds
<1>9. /\ \A q \in Processes : q # r /\ at[q] \notin {"idle", "ack"} => q \in stale'
      /\ \A w \in Workers : w \in gone' => w \in gone \/ at[w] = "updating"
      /\ \A q \in Rebuilders : q # r => emptied'[q] = emptied[q] /\ replayed'[q] = replayed[q]
  BY <1>1, <1>2, Zenon DEF TypeOK
<1>10. IInv'
  BY <1>1, <1>2, <1>4, <1>6, <1>7, <1>8, <1>9, CommitMove, Zenon
<1> QED
  BY <1>7, <1>10, Zenon

-----------------------------------------------------------------------------
(* The other steps of a rebuild.                                             *)

\* A step outside the transaction that touches the rows: the call, the look at the
\* state row, its two marks.
LEMMA MarkKeeps ==
    ASSUME IInv, NEW r \in Rebuilders,
           Rebuild(r) \/ look(r) \/ markRebuilding(r) \/ clear(r)
    PROVE  IInv'
<1>1. PICK s \in {"idle", "look", "first_mark", "mark", "truncate"} :
        /\ at[r] \notin {"replay", "replayed"} /\ at' = [at EXCEPT ![r] = s]
        /\ UNCHANGED <<message, holding, row, gone, emptied, replayed, overtaken, engine, faults>>
  BY Zenon DEF Rebuild, look, markRebuilding, clear
<1>2. /\ TypeOK /\ RebuildGood(r) /\ r \in Processes /\ r \notin Workers
  BY RebuilderIs, Zenon DEF IInv
<1>3. stale \ {r} \subseteq stale' /\ stale' \subseteq Processes
  BY <1>2, Zenon DEF Rebuild, look, markRebuilding, clear, Outdate, TypeOK
<1>4. rebuilds' \in Nat /\ mark' \in {"none", "clear", "set"}
  BY <1>2 DEF Rebuild, look, markRebuilding, clear, TypeOK
<1>5. TypeOK'
  BY <1>1, <1>2, <1>3, <1>4, Zenon DEF TypeOK, Stream!TypeOK
<1>6. at'[r] = s
  BY <1>1, <1>2, Zenon DEF TypeOK
<1>7. RebuildGood(r)' /\ \A k \in Keys : ~Holds(r, k)'
  BY <1>1, <1>2, <1>6, Zenon DEF RebuildGood, Holds
<1> QED
  BY <1>1, <1>3, <1>5, <1>7, RebuildMove, Zenon

\* The rows are deleted once no other transaction holds one.
LEMMA TruncateKeeps ==
    ASSUME IInv, NEW r \in Rebuilders, truncate(r)
    PROVE  IInv'
<1>1. /\ at[r] = "truncate" /\ at' = [at EXCEPT ![r] = "replay"]
      /\ \A k \in Keys : row[k] # 0 => ~Locked(r, k)
      /\ emptied' = [emptied EXCEPT ![r] = {k \in Keys : row[k] # 0}]
      /\ stale' = stale \ {r}
      /\ UNCHANGED <<message, holding, row, gone, replayed, overtaken>>
      /\ UNCHANGED <<engine, mark, rebuilds, faults>>
  BY Zenon DEF truncate
<1>2. /\ TypeOK /\ RebuildGood(r) /\ r \in Processes /\ r \notin Workers
  BY RebuilderIs, Zenon DEF IInv
<1>3. TypeOK'
  BY <1>1, <1>2, Zenon DEF TypeOK, Stream!TypeOK
<1>4. at'[r] = "replay" /\ emptied'[r] = {k \in Keys : row[k] # 0}
  BY <1>1, <1>2, Zenon DEF TypeOK
<1>5. \A k \in Keys : replayed'[r][k] = 0
  BY <1>1, <1>2, Zenon DEF RebuildGood
<1>6. RebuildGood(r)'
  BY <1>4, <1>5, Zenon DEF RebuildGood
<1>7. \A k \in Keys : Holds(r, k)' => row[k] # 0
  BY <1>2, <1>4, <1>5, Zenon DEF Holds
<1>8. \A k \in Keys : Holds(r, k)' => \A q \in Processes : q # r => ~Holds(q, k)
  BY <1>1, <1>7, Zenon DEF Locked
<1>9. \A q \in Rebuilders : q # r => emptied'[q] = emptied[q] /\ replayed'[q] = replayed[q]
  BY <1>1, <1>2, Zenon DEF TypeOK
<1> QED
  BY <1>1, <1>3, <1>6, <1>8, <1>9, RebuildMove, Zenon

\* The history is written over the emptied rows, and beside them.
LEMMA ReplayKeeps ==
    ASSUME IInv, NEW r \in Rebuilders, replay(r)
    PROVE  IInv'
<1>1. /\ at[r] = "replay" /\ at' = [at EXCEPT ![r] = "replayed"]
      /\ \A k \in Fresh(r) : ~Locked(r, k)
      /\ replayed' = [replayed EXCEPT ![r] = [k \in Keys |-> Source(k)]]
      /\ UNCHANGED <<message, holding, row, stale, gone, emptied, overtaken>>
      /\ UNCHANGED <<engine, mark, rebuilds, faults>>
  BY Zenon DEF replay
<1>2. /\ TypeOK /\ RebuildGood(r) /\ r \in Processes /\ r \notin Workers
  BY RebuilderIs, Zenon DEF IInv
<1>3. \A k \in Keys : Source(k) \in Nat /\ row[k] <= Source(k)
  BY SourceIsLater, Zenon
<1>4. TypeOK'
  BY <1>1, <1>2, <1>3, Zenon DEF TypeOK, Stream!TypeOK
<1>5. at'[r] = "replayed" /\ emptied'[r] = emptied[r] /\ \A k \in Keys : replayed'[r][k] = Source(k)
  BY <1>1, <1>2, Zenon DEF TypeOK
<1>6. RebuildGood(r)'
  BY <1>1, <1>3, <1>5, Zenon DEF RebuildGood
<1>7. \A k \in Keys : Holds(r, k)' /\ ~Holds(r, k) => k \in Fresh(r)
  BY <1>1, <1>2, <1>5, Zenon DEF Holds, Fresh
<1>8. \A k \in Keys : Holds(r, k)' /\ ~Holds(r, k) => \A q \in Processes : q # r => ~Holds(q, k)
  BY <1>1, <1>7, Zenon DEF Locked
<1>9. \A q \in Rebuilders : q # r => emptied'[q] = emptied[q] /\ replayed'[q] = replayed[q]
  BY <1>1, <1>2, Zenon DEF TypeOK
<1> QED
  BY <1>1, <1>4, <1>6, <1>8, <1>9, RebuildMove, Zenon

\* The transaction is undone.
LEMMA RollbackKeeps ==
    ASSUME IInv, NEW r \in Rebuilders, replayConflict(r) \/ rebuildFails(r)
    PROVE  IInv'
<1>1. /\ at' = [at EXCEPT ![r] = "idle"] /\ stale' = stale \ {r} /\ gone' = gone \ {r}
      /\ emptied' = [emptied EXCEPT ![r] = {}]
      /\ replayed' = [replayed EXCEPT ![r] = [k \in Keys |-> 0]]
      /\ UNCHANGED <<message, holding, row, overtaken>>
      /\ UNCHANGED <<engine, mark, rebuilds>>
  BY Zenon DEF replayConflict, rebuildFails, Rollback
<1>2. /\ TypeOK /\ RebuildGood(r) /\ r \in Processes /\ r \notin Workers
  BY RebuilderIs, Zenon DEF IInv
<1>3. UNCHANGED gone
  BY <1>1, <1>2 DEF TypeOK
<1>4. TypeOK'
  <2>1. faults' \in Nat /\ [k \in Keys |-> 0] \in [Keys -> Nat]
    BY <1>2 DEF replayConflict, rebuildFails, Fault, TypeOK
  <2> QED
    BY <1>1, <1>2, <1>3, <2>1, Zenon DEF TypeOK, Stream!TypeOK
<1>5. at'[r] = "idle" /\ emptied'[r] = {} /\ \A k \in Keys : replayed'[r][k] = 0
  BY <1>1, <1>2, Zenon DEF TypeOK
<1>6. RebuildGood(r)' /\ \A k \in Keys : ~Holds(r, k)'
  BY <1>2, <1>5, Zenon DEF RebuildGood, Holds
<1>7. \A q \in Rebuilders : q # r => emptied'[q] = emptied[q] /\ replayed'[q] = replayed[q]
  BY <1>1, <1>2, Zenon DEF TypeOK
<1> QED
  BY <1>1, <1>3, <1>4, <1>6, <1>7, RebuildMove, Zenon

-----------------------------------------------------------------------------
(* The theorems.                                                             *)

\* The first state satisfies the invariant.
LEMMA InitInv == Init => IInv
<1> SUFFICES ASSUME Init PROVE IInv
  BY Zenon
<1>1. /\ message = [m \in Messages |-> "unpublished"] /\ holding = [w \in Workers |-> NoMessage]
      /\ at = [p \in Processes |-> "idle"] /\ gone = {}
      /\ emptied = [r \in Rebuilders |-> {}]
      /\ replayed = [r \in Rebuilders |-> [k \in Keys |-> 0]]
  BY Zenon DEF Init, Stream!Init
<1>2. TypeOK
  <2>1. {0} \cup Earlier \subseteq Nat
    BY ProjectionAssumption
  <2>2. row \in [Keys -> Nat] /\ rebuilds \in Nat /\ faults \in Nat /\ 0 \in Nat
    BY <2>1 DEF Init
  <2>3. replayed \in [Rebuilders -> [Keys -> Nat]]
    BY <1>1, <2>2, Zenon
  <2> QED
    BY <1>1, <2>2, <2>3, Zenon DEF Init, TypeOK, Stream!TypeOK, Stream!MessageState
<1>3. Bounded
  <2>1. 0 \in Nat
    OBVIOUS
  <2> QED
    BY <1>1, <2>1, Zenon DEF Bounded
<1>4. \A p \in Processes, k \in Keys : ~Holds(p, k)
  BY <1>1, Zenon DEF Holds, Processes
<1>5. \A w \in Workers : WorkerGood(w)
  BY <1>1, Zenon DEF WorkerGood, Calling, Compared, GoneIsStale, Processes
<1>6. \A r \in Rebuilders : RebuildGood(r)
  BY <1>1, Zenon DEF RebuildGood, Processes
<1>7. AckedIsProjected
  BY <1>1, Zenon DEF AckedIsProjected
<1> QED
  BY <1>2, <1>3, <1>4, <1>5, <1>6, <1>7, Zenon DEF IInv, Exclusive

\* Every step keeps the invariant, and takes no key back that was not overtaken.
LEMMA NextInv ==
    ASSUME IInv, Next
    PROVE  IInv' /\ \A k \in Keys \ overtaken' : row'[k] >= row[k]
<1>1. (UNCHANGED row) => \A k \in Keys \ overtaken' : row'[k] >= row[k]
  <2>1. \A k \in Keys : row[k] \in Nat
    BY Zenon DEF IInv, TypeOK
  <2> QED
    BY <2>1
<1>2. CASE \E m \in Messages : Publish(m) \/ AckWait(m)
  <2>1. UNCHANGED row
    BY <1>2, Zenon DEF Publish, AckWait
  <2> QED
    BY <1>1, <1>2, <2>1, StreamKeeps, Zenon
<1>3. CASE \E m \in Messages, w \in Workers : receive(w, m)
  <2>1. UNCHANGED row
    BY <1>3, Zenon DEF receive
  <2> QED
    BY <1>1, <1>3, <2>1, ReceiveKeeps, Zenon
<1>4. CASE \E w \in Workers : read(w) \/ update(w) \/ write(w)
  <2>1. UNCHANGED row
    BY <1>4, Zenon DEF read, readBranch, update, write
  <2> QED
    BY <1>1, <1>4, <2>1, ReadKeeps, UpdateKeeps, WriteKeeps, Zenon
<1>5. CASE \E w \in Workers : conflict(w) \/ projectFails(w) \/ crash(w) \/ acknowledge(w)
  <2>1. UNCHANGED row
    BY <1>5, Zenon DEF conflict, projectFails, crash, acknowledge
  <2> QED
    BY <1>1, <1>5, <2>1, LeaveKeeps, Zenon
<1>6. CASE \E w \in Workers : commit(w)
  <2>1. UNCHANGED overtaken
    BY <1>6, Zenon DEF commit
  <2> QED
    BY <1>6, <2>1, CommitKeeps, Zenon
<1>7. CASE \E r \in Rebuilders : Rebuild(r) \/ look(r) \/ markRebuilding(r) \/ clear(r)
  <2>1. UNCHANGED row
    BY <1>7, Zenon DEF Rebuild, look, markRebuilding, clear
  <2> QED
    BY <1>1, <1>7, <2>1, MarkKeeps, Zenon
<1>8. CASE \E r \in Rebuilders : truncate(r) \/ replay(r)
  <2>1. UNCHANGED row
    BY <1>8, Zenon DEF truncate, replay
  <2> QED
    BY <1>1, <1>8, <2>1, TruncateKeeps, ReplayKeeps, Zenon
<1>9. CASE \E r \in Rebuilders : replayConflict(r) \/ rebuildFails(r)
  <2>1. UNCHANGED row
    BY <1>9, Zenon DEF replayConflict, rebuildFails
  <2> QED
    BY <1>1, <1>9, <2>1, RollbackKeeps, Zenon
<1>10. CASE \E r \in Rebuilders : commitRebuild(r)
  <2>1. UNCHANGED overtaken
    BY <1>10, Zenon DEF commitRebuild
  <2> QED
    BY <1>10, <2>1, CommitRebuildKeeps, Zenon
<1> QED
  BY <1>2, <1>3, <1>4, <1>5, <1>6, <1>7, <1>8, <1>9, <1>10, Zenon DEF Next, Project, RebuildStep

\* Nothing happens.
LEMMA StutterInv ==
    ASSUME IInv, UNCHANGED vars
    PROVE  IInv'
<1>1. UNCHANGED <<message, holding, row, at, stale, gone, emptied, replayed, engine, overtaken,
                  mark, rebuilds, faults>>
  BY Zenon DEF vars
<1>2. \A p \in Processes : Still(p)
  BY <1>1, Zenon DEF Still
<1>3. \A w \in Workers : WorkerGood(w)'
  BY <1>1, <1>2, WorkerStill, Zenon DEF IInv, Processes
<1>4. \A r \in Rebuilders : RebuildGood(r)'
  BY <1>1, <1>2, RebuildStill, Zenon DEF IInv, Processes
<1>5. Exclusive'
  BY <1>2, StillHolds, Zenon DEF IInv, Exclusive
<1>6. Bounded' /\ AckedIsProjected'
  BY <1>1, StreamStill, Zenon
<1> QED
  BY <1>1, <1>3, <1>4, <1>5, <1>6, Zenon DEF IInv, TypeOK, Stream!TypeOK

\* Project and Rebuild keep the invariant, under either database.
THEOREM ProjectionInvariance == Spec => []IInv
<1>1. IInv /\ [Next]_vars => IInv'
  BY NextInv, StutterInv, Zenon
<1> QED
  BY <1>1, InitInv, PTL DEF Spec

\* The state of the read model and of its transactions stays in its types.
THEOREM ProjectionTypes == Spec => []TypeOK
<1>1. IInv => TypeOK
  BY Zenon DEF IInv
<1> QED
  BY <1>1, ProjectionInvariance, PTL

\* An acknowledged event, or a later one of its key, is in the read model for good:
\* Project acknowledges after its commit, and Rebuild replays nothing older.
THEOREM AckedProjected == Spec => []AckedIsProjected
<1>1. IInv => AckedIsProjected
  BY Zenon DEF IInv
<1> QED
  BY <1>1, ProjectionInvariance, PTL

\* No commit of Project or Rebuild takes a key back, unless a transaction that had
\* become stale was let through.
THEOREM RowsNeverGoBack == Spec => NeverBack
<1>1. IInv /\ [Next]_vars => [\A k \in Keys \ overtaken' : row'[k] >= row[k]]_vars
  BY NextInv, Zenon
<1> QED
  BY <1>1, ProjectionInvariance, PTL DEF Spec, NeverBack

=============================================================================
