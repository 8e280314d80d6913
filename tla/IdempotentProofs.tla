-------------------------- MODULE IdempotentProofs --------------------------
(***************************************************************************)
(* Proofs about IdempotentConsumer, for any number of events, workers,       *)
(* faults and forgotten markers.                                             *)
(***************************************************************************)
EXTENDS IdempotentConsumer, TLAPS

-----------------------------------------------------------------------------
(* The inductive invariant, in parts.                                       *)

\* A worker in a transaction, or about to acknowledge, has a message that parses.
HasMessage == \A w \in Workers : tx[w] # "none" => holding[w] \in Parseable

\* The insert of the marker excludes other inserts and committed markers of it.
OneClaim == \A w \in Workers : tx[w] = "handle" =>
    /\ holding[w] \notin marker
    /\ \A v \in Workers : tx[v] = "handle" /\ holding[v] = holding[w] => v = w

\* Whoever is about to acknowledge found the work committed.
AcksAreEarned == \A w \in Workers : tx[w] = "acknowledge" => applied[holding[w]] > 0

IInv ==
    /\ TypeOK
    /\ HasMessage
    /\ OneClaim
    /\ AcksAreEarned
    /\ MarkerIsWork
    /\ AckedIsApplied

USE IdempotentAssumption DEF db, Stream!TypeOK, Stream!MessageState

-----------------------------------------------------------------------------
\* A committed marker comes with its work.
LEMMA MarkedIsApplied ==
    ASSUME TypeOK, MarkerIsWork, NEW m \in marker
    PROVE  m \in Messages /\ applied[m] > 0
  BY DEF TypeOK, MarkerIsWork

\* A message that settles as acknowledged has its work committed; any other
\* return of a callback changes neither the markers nor the work.
LEMMA LeavePreserves ==
    ASSUME IInv, NEW w \in Workers, NEW s \in Stream!MessageState,
           message' = [message EXCEPT ![holding[w]] = s] \/ UNCHANGED message,
           holding' = [holding EXCEPT ![w] = NoMessage],
           tx' = [tx EXCEPT ![w] = "none"],
           s = "acked" => (tx[w] = "acknowledge" \/ message[holding[w]] = "acked"),
           faults' \in Nat,
           UNCHANGED db
    PROVE  IInv'
<1>1. TypeOK'
  BY Zenon DEF IInv, TypeOK
<1>2. HasMessage'
  BY Zenon DEF IInv, TypeOK, HasMessage
<1>3. OneClaim'
  BY Zenon DEF IInv, TypeOK, OneClaim
<1>4. AcksAreEarned'
  BY Zenon DEF IInv, TypeOK, AcksAreEarned
<1>5. MarkerIsWork'
  BY Zenon DEF IInv, MarkerIsWork
<1>6. AckedIsApplied'
  BY Zenon DEF IInv, TypeOK, AcksAreEarned, AckedIsApplied
<1>7. QED
  BY <1>1, <1>2, <1>3, <1>4, <1>5, <1>6, Zenon DEF IInv

\* A published message is nobody's yet.
LEMMA PublishPreserves ==
    ASSUME IInv, NEW m \in Messages, Publish(m)
    PROVE  IInv'
<1> USE DEF Publish, Stream!Publish
<1>1. TypeOK'
  BY Zenon DEF IInv, TypeOK
<1>2. HasMessage'
  BY Zenon DEF IInv, TypeOK, HasMessage
<1>3. OneClaim'
  BY Zenon DEF IInv, TypeOK, OneClaim
<1>4. AcksAreEarned'
  BY Zenon DEF IInv, TypeOK, AcksAreEarned
<1>5. MarkerIsWork'
  BY Zenon DEF IInv, TypeOK, MarkerIsWork
<1>6. AckedIsApplied'
  BY Zenon DEF IInv, TypeOK, AckedIsApplied
<1>7. QED
  BY <1>1, <1>2, <1>3, <1>4, <1>5, <1>6, Zenon DEF IInv

\* Redelivery changes nothing in the database.
LEMMA AckWaitPreserves ==
    ASSUME IInv, NEW m \in Messages, AckWait(m)
    PROVE  IInv'
<1> USE DEF AckWait, Stream!AckWait
<1>1. TypeOK'
  BY Zenon DEF IInv, TypeOK
<1>2. HasMessage'
  BY Zenon DEF IInv, TypeOK, HasMessage
<1>3. OneClaim'
  BY Zenon DEF IInv, TypeOK, OneClaim
<1>4. AcksAreEarned'
  BY Zenon DEF IInv, TypeOK, AcksAreEarned
<1>5. MarkerIsWork'
  BY Zenon DEF IInv, TypeOK, MarkerIsWork
<1>6. AckedIsApplied'
  BY Zenon DEF IInv, TypeOK, AckedIsApplied
<1>7. QED
  BY <1>1, <1>2, <1>3, <1>4, <1>5, <1>6, Zenon DEF IInv

\* A forgotten marker is accounted for.
LEMMA ForgetProcessedPreserves ==
    ASSUME IInv, NEW m \in Messages, ForgetProcessed(m)
    PROVE  IInv'
<1> USE DEF ForgetProcessed
<1>1. TypeOK'
  BY DEF IInv, TypeOK
<1>2. HasMessage'
  BY Zenon DEF IInv, TypeOK, HasMessage
<1>3. OneClaim'
  BY Zenon DEF IInv, TypeOK, OneClaim
<1>4. AcksAreEarned'
  BY Zenon DEF IInv, TypeOK, AcksAreEarned
<1>5. MarkerIsWork'
  BY DEF IInv, TypeOK, MarkerIsWork
<1>6. AckedIsApplied'
  BY Zenon DEF IInv, TypeOK, AckedIsApplied
<1>7. QED
  BY <1>1, <1>2, <1>3, <1>4, <1>5, <1>6, Zenon DEF IInv

\* A callback begins without a claim.
LEMMA ReceivePreserves ==
    ASSUME IInv, NEW w \in Workers, NEW m \in Messages, receive(w, m)
    PROVE  IInv'
<1> USE DEF receive, Stream!Deliver
<1>1. TypeOK'
  BY Zenon DEF IInv, TypeOK
<1>2. HasMessage'
  BY Zenon DEF IInv, TypeOK, HasMessage
<1>3. OneClaim'
  BY Zenon DEF IInv, TypeOK, HasMessage, OneClaim
<1>4. AcksAreEarned'
  BY Zenon DEF IInv, TypeOK, HasMessage, AcksAreEarned
<1>5. MarkerIsWork'
  BY Zenon DEF IInv, TypeOK, MarkerIsWork
<1>6. AckedIsApplied'
  BY Zenon DEF IInv, TypeOK, AckedIsApplied
<1>7. QED
  BY <1>1, <1>2, <1>3, <1>4, <1>5, <1>6, Zenon DEF IInv

\* A claim is the only one.
LEMMA ClaimPreserves ==
    ASSUME IInv, NEW w \in Workers, claim(w)
    PROVE  IInv'
<1> USE DEF claim, Claimed
<1>1. TypeOK'
  BY Zenon DEF IInv, TypeOK
<1>2. HasMessage'
  BY Zenon DEF IInv, TypeOK, HasMessage
<1>3. OneClaim'
  BY Zenon DEF IInv, TypeOK, OneClaim
<1>4. AcksAreEarned'
  BY Zenon DEF IInv, TypeOK, AcksAreEarned
<1>5. MarkerIsWork'
  BY Zenon DEF IInv, TypeOK, MarkerIsWork
<1>6. AckedIsApplied'
  BY Zenon DEF IInv, TypeOK, AckedIsApplied
<1>7. QED
  BY <1>1, <1>2, <1>3, <1>4, <1>5, <1>6, Zenon DEF IInv

\* A duplicate finds the work committed.
LEMMA DuplicatePreserves ==
    ASSUME IInv, NEW w \in Workers, duplicate(w)
    PROVE  IInv'
<1> USE DEF duplicate, Claimed
<1>1. TypeOK'
  BY Zenon DEF IInv, TypeOK
<1>2. HasMessage'
  BY Zenon DEF IInv, TypeOK, HasMessage
<1>3. OneClaim'
  BY Zenon DEF IInv, TypeOK, OneClaim
<1>4. AcksAreEarned'
  BY MarkedIsApplied, Zenon DEF IInv, TypeOK, AcksAreEarned
<1>5. MarkerIsWork'
  BY Zenon DEF IInv, TypeOK, MarkerIsWork
<1>6. AckedIsApplied'
  BY Zenon DEF IInv, TypeOK, AckedIsApplied
<1>7. QED
  BY <1>1, <1>2, <1>3, <1>4, <1>5, <1>6, Zenon DEF IInv

\* The work and the marker are committed together.
LEMMA CommitPreserves ==
    ASSUME IInv, NEW w \in Workers, commit(w)
    PROVE  IInv'
<1> USE DEF commit, Apply
<1>1. TypeOK'
  BY DEF IInv, TypeOK, HasMessage
<1>2. HasMessage'
  BY Zenon DEF IInv, TypeOK, HasMessage
<1>3. OneClaim'
  BY Zenon DEF IInv, TypeOK, OneClaim
<1>4. AcksAreEarned'
  BY DEF IInv, TypeOK, HasMessage, AcksAreEarned
<1>5. MarkerIsWork'
  BY DEF IInv, TypeOK, OneClaim, MarkerIsWork
<1>6. AckedIsApplied'
  BY DEF IInv, TypeOK, AckedIsApplied
<1>7. QED
  BY <1>1, <1>2, <1>3, <1>4, <1>5, <1>6, Zenon DEF IInv

\* A callback that ends without a commit leaves the database as it was, and
\* acknowledges only earned messages.
LEMMA EndPreserves ==
    ASSUME IInv, NEW w \in Workers,
           acknowledge(w) \/ terminate(w) \/ handleFails(w) \/ crash(w)
    PROVE  IInv'
<1>1. CASE acknowledge(w)
  BY <1>1, LeavePreserves, Zenon DEF acknowledge, Stream!Ack, Stream!Return, IInv, TypeOK
<1>2. CASE terminate(w)
  <2>1. /\ tx[w] = "none" /\ tx' = [tx EXCEPT ![w] = "none"]
        /\ faults' \in Nat /\ UNCHANGED db
    BY <1>2, Zenon DEF terminate, Stream!Term, IInv, TypeOK, HasMessage
  <2>2. /\ message' = [message EXCEPT ![holding[w]] = "terminated"]
        /\ holding' = [holding EXCEPT ![w] = NoMessage]
    BY <1>2, Zenon DEF terminate, Stream!Term, Stream!Return
  <2>3. QED
    BY <2>1, <2>2, LeavePreserves, Zenon
<1>3. CASE handleFails(w)
  <2>1. /\ tx' = [tx EXCEPT ![w] = "none"] /\ holding' = [holding EXCEPT ![w] = NoMessage]
        /\ faults' \in Nat /\ UNCHANGED db /\ holding[w] \in Messages
    BY <1>3 DEF handleFails, Fault, Stream!Nak, Stream!Return, IInv, TypeOK
  <2>2. PICK s \in Stream!MessageState :
          /\ message' = [message EXCEPT ![holding[w]] = s]
          /\ s = "acked" => message[holding[w]] = "acked"
    BY <1>3, <2>1, Zenon DEF handleFails, Stream!Nak, Stream!Return, IInv, TypeOK
  <2>3. QED
    BY <2>1, <2>2, LeavePreserves, Zenon
<1>4. CASE crash(w)
  <2>1. /\ tx' = [tx EXCEPT ![w] = "none"] /\ holding' = [holding EXCEPT ![w] = NoMessage]
        /\ faults' \in Nat /\ UNCHANGED db /\ UNCHANGED message
    BY <1>4 DEF crash, Fault, Stream!Crash, IInv, TypeOK
  <2>2. "waiting" \in Stream!MessageState
    BY Zenon
  <2>3. QED
    BY <2>1, <2>2, LeavePreserves, Zenon
<1>5. QED
  BY <1>1, <1>2, <1>3, <1>4, Zenon

\* A commit whose answer was lost is a commit followed by a refusal.
LEMMA CommitUnansweredPreserves ==
    ASSUME IInv, NEW w \in Workers, commitUnanswered(w)
    PROVE  IInv'
<1> USE DEF commitUnanswered, Apply, Fault, Stream!Nak, Stream!Return
<1>1. TypeOK'
  BY DEF IInv, TypeOK
<1>2. HasMessage'
  BY Zenon DEF IInv, TypeOK, HasMessage
<1>3. OneClaim'
  BY Zenon DEF IInv, TypeOK, OneClaim
<1>4. AcksAreEarned'
  BY DEF IInv, TypeOK, AcksAreEarned
<1>5. MarkerIsWork'
  BY DEF IInv, TypeOK, OneClaim, MarkerIsWork
<1>6. AckedIsApplied'
  BY DEF IInv, TypeOK, AckedIsApplied
<1>7. QED
  BY <1>1, <1>2, <1>3, <1>4, <1>5, <1>6, Zenon DEF IInv

-----------------------------------------------------------------------------
\* Nothing is published, claimed or committed at first.
LEMMA InitEstablishes == Init => IInv
  BY DEF Init, Stream!Init, IInv, TypeOK, HasMessage, OneClaim, AcksAreEarned, MarkerIsWork,
     AckedIsApplied

\* Every action preserves the invariant.
LEMMA NextPreserves == IInv /\ [Next]_vars => IInv'
<1> SUFFICES ASSUME IInv, [Next]_vars PROVE IInv'
  BY Zenon
<1>1. ASSUME NEW m \in Messages, Publish(m) \/ AckWait(m) \/ ForgetProcessed(m) PROVE IInv'
  BY <1>1, PublishPreserves, AckWaitPreserves, ForgetProcessedPreserves, Zenon
<1>2. ASSUME NEW m \in Messages, NEW w \in Workers, receive(w, m) PROVE IInv'
  BY <1>2, ReceivePreserves, Zenon
<1>3. ASSUME NEW w \in Workers, Handle(w) \/ handleFails(w) \/ crash(w) PROVE IInv'
  BY <1>3, ClaimPreserves, DuplicatePreserves, CommitPreserves, EndPreserves, Zenon DEF Handle
<1>4. ASSUME NEW w \in Workers, commitUnanswered(w) PROVE IInv'
  BY <1>4, CommitUnansweredPreserves, Zenon
<1>5. ASSUME UNCHANGED vars PROVE IInv'
  BY <1>5, Zenon DEF vars, IInv, TypeOK, HasMessage, OneClaim, AcksAreEarned, MarkerIsWork,
     AckedIsApplied
<1>6. QED
  BY <1>1, <1>2, <1>3, <1>4, <1>5, Zenon DEF Next

\* The invariant of markers, work and acknowledgements holds in every state.
THEOREM Invariance == Spec => []IInv
<1>1. QED
  BY InitEstablishes, NextPreserves, PTL DEF Spec

\* Markers, transactions and messages keep their types.
THEOREM TypeCorrect == Spec => []TypeOK
<1>1. IInv => TypeOK
  BY Zenon DEF IInv
<1>2. QED
  BY <1>1, Invariance, PTL

\* Idempotent commits an event's work exactly when it commits its marker, under
\* any overlap of deliveries.
THEOREM ExactlyOnce == Spec => []MarkerIsWork
<1>1. IInv => MarkerIsWork
  BY Zenon DEF IInv
<1>2. QED
  BY <1>1, Invariance, PTL

\* No event is acknowledged whose work was not committed.
THEOREM NothingLost == Spec => []AckedIsApplied
<1>1. IInv => AckedIsApplied
  BY Zenon DEF IInv
<1>2. QED
  BY <1>1, Invariance, PTL

-----------------------------------------------------------------------------
(* Refinement of IdempotentPromise.                                          *)

\* What was acknowledged parses, and what was terminated does not.
Fated == \A m \in Messages :
    /\ message[m] = "acked" => m \in Parseable
    /\ message[m] = "terminated" => m \notin Parseable

\* A step that settles nothing and unsettles nothing leaves every fate as it was.
LEMMA FateStays ==
    ASSUME \A m \in Messages : /\ message'[m] = "acked" <=> message[m] = "acked"
                               /\ message'[m] = "terminated" <=> message[m] = "terminated"
    PROVE  Fate' = Fate /\ (Fated => Fated')
<1>1. Fate' = Fate
  BY Zenon DEF Fate
<1>2. Fated => Fated'
  BY Zenon DEF Fated
<1> QED
  BY <1>1, <1>2, Zenon

\* A message comes to its end s, or is there already: its fate is as.
LEMMA FateMoves ==
    ASSUME TypeOK, Fated, NEW m \in Messages, NEW s, NEW as,
           message' = [message EXCEPT ![m] = s],
           \/ s = "acked" /\ as = "settled" /\ m \in Parseable
           \/ s = "terminated" /\ as = "dropped" /\ m \notin Parseable
    PROVE  /\ Fated'
           /\ Fate' = Fate \/ (Fate[m] = "open" /\ Fate' = [Fate EXCEPT ![m] = as])
<1>1. /\ message \in [Messages -> Stream!MessageState] /\ message'[m] = s
      /\ \A n \in Messages : n # m => message'[n] = message[n]
  BY Zenon DEF TypeOK
<1>2. Fated'
  BY <1>1, Zenon DEF Fated
<1>3. CASE message[m] = s
  <2>1. \A n \in Messages : message'[n] = message[n]
    BY <1>1, <1>3, Zenon
  <2>2. Fate' = Fate
    BY <2>1, Zenon DEF Fate
  <2> QED
    BY <1>2, <2>2, Zenon
<1>4. CASE message[m] # s
  <2>1. message[m] # "acked" /\ message[m] # "terminated"
    BY <1>4, Zenon DEF Fated
  <2>2. Fate[m] = "open"
    BY <2>1, Zenon DEF Fate
  <2> DEFINE f == [Fate EXCEPT ![m] = as]
  <2>3. \A n \in Messages : Fate'[n] = f[n]
    <3>1. ASSUME NEW n \in Messages, n # m PROVE Fate'[n] = Fate[n] /\ f[n] = Fate[n]
      BY <1>1, <3>1, Zenon DEF Fate
    <3>2. Fate'[m] = f[m]
      <4>1. Fate'[m] = as
        BY <1>1, Zenon DEF Fate
      <4>2. f[m] = as
        BY Zenon DEF Fate
      <4> QED
        BY <4>1, <4>2, Zenon
    <3> QED
      BY <3>1, <3>2, Zenon
  <2>4. Fate' = f
    <3>1. Fate' = [n \in Messages |-> Fate'[n]] /\ f = [n \in Messages |-> f[n]]
      BY Zenon DEF Fate
    <3> HIDE DEF f
    <3> QED
      BY <2>3, <3>1, Zenon
  <2> QED
    BY <1>2, <2>2, <2>4, Zenon
<1> QED
  BY <1>3, <1>4, Zenon

\* A callback that is refused or dies settles nothing, and leaves a message that
\* another delivery settled meanwhile where it is.
LEMMA RefusalStays ==
    ASSUME IInv, NEW w \in Workers, Stream!Nak(w) \/ Stream!Crash(w)
    PROVE  \A m \in Messages : /\ message'[m] = "acked" <=> message[m] = "acked"
                               /\ message'[m] = "terminated" <=> message[m] = "terminated"
<1>1. holding[w] \in Messages /\ message \in [Messages -> Stream!MessageState]
  BY Zenon DEF IInv, TypeOK, Stream!Nak, Stream!Return, Stream!Crash
<1> QED
  BY <1>1, Zenon DEF Stream!Nak, Stream!Return, Stream!Crash

\* A commit, answered or not, puts in place work that is not there: OneClaim.
LEMMA CommitPerforms ==
    ASSUME IInv, NEW w \in Workers, tx[w] = "handle", Apply(holding[w]), Fate' = Fate
    PROVE  holding[w] \in Messages /\ Promise!Perform(holding[w])
<1>1. holding[w] \in Parseable /\ holding[w] \notin marker
  BY Zenon DEF IInv, HasMessage, OneClaim
<1> QED
  BY <1>1, Zenon DEF Apply, Promise!Perform

\* An acknowledgement settles an event whose work was done, or one that is settled.
LEMMA AcknowledgeSettles ==
    ASSUME IInv, Fated, NEW w \in Workers, acknowledge(w)
    PROVE  Fated' /\ [Promise!Next]_(Promise!pvars)
<1> DEFINE m == holding[w]
<1>1. m \in Parseable /\ m \in Messages /\ applied[m] > 0 /\ TypeOK
  BY Zenon DEF acknowledge, IInv, HasMessage, AcksAreEarned
<1>2. message' = [message EXCEPT ![m] = "acked"] /\ UNCHANGED <<marker, applied>>
  BY Zenon DEF acknowledge, Stream!Ack, Stream!Return
<1>3. PICK n : n = m
  BY Zenon
<1>4. /\ Fated'
      /\ Fate' = Fate \/ (Fate[n] = "open" /\ Fate' = [Fate EXCEPT ![n] = "settled"])
  <2>1. n \in Messages /\ n \in Parseable /\ message' = [message EXCEPT ![n] = "acked"] /\ TypeOK
    BY <1>1, <1>2, <1>3, Zenon
  <2> HIDE DEF m
  <2> QED
    BY <2>1, FateMoves, Zenon
<1>5. CASE Fate' = Fate
  BY <1>2, <1>4, <1>5, Zenon DEF Promise!pvars
<1>6. CASE Fate[n] = "open" /\ Fate' = [Fate EXCEPT ![n] = "settled"]
  <2>1. Promise!Settle(n)
    BY <1>1, <1>2, <1>3, <1>6, Zenon DEF Promise!Settle, Promise!Leave
  <2> QED
    BY <1>1, <1>3, <1>4, <2>1, Zenon DEF Promise!Next
<1> QED
  BY <1>4, <1>5, <1>6, Zenon

\* A message that does not parse is dropped.
LEMMA TerminateDrops ==
    ASSUME IInv, Fated, NEW w \in Workers, terminate(w)
    PROVE  Fated' /\ [Promise!Next]_(Promise!pvars)
<1> DEFINE m == holding[w]
<1>1. m \notin Parseable /\ m \in Messages /\ TypeOK
  BY Zenon DEF terminate, Stream!Term, IInv, TypeOK
<1>2. message' = [message EXCEPT ![m] = "terminated"] /\ UNCHANGED <<marker, applied>>
  BY Zenon DEF terminate, Stream!Term, Stream!Return
<1>3. PICK n : n = m
  BY Zenon
<1>4. /\ Fated'
      /\ Fate' = Fate \/ (Fate[n] = "open" /\ Fate' = [Fate EXCEPT ![n] = "dropped"])
  <2>1. n \in Messages /\ n \notin Parseable /\ message' = [message EXCEPT ![n] = "terminated"] /\ TypeOK
    BY <1>1, <1>2, <1>3, Zenon
  <2> HIDE DEF m
  <2> QED
    BY <2>1, FateMoves, Zenon
<1>5. CASE Fate' = Fate
  BY <1>2, <1>4, <1>5, Zenon DEF Promise!pvars
<1>6. CASE Fate[n] = "open" /\ Fate' = [Fate EXCEPT ![n] = "dropped"]
  <2>1. Promise!Drop(n)
    BY <1>1, <1>2, <1>3, <1>6, Zenon DEF Promise!Drop, Promise!Leave
  <2> QED
    BY <1>1, <1>3, <1>4, <2>1, Zenon DEF Promise!Next
<1> QED
  BY <1>4, <1>5, <1>6, Zenon

\* Every step of the consumer is a step of the promise, or none.
LEMMA StepRefines ==
    ASSUME IInv, Fated, [Next]_vars
    PROVE  Fated' /\ [Promise!Next]_(Promise!pvars)
<1> DEFINE Same == \A m \in Messages : /\ message'[m] = "acked" <=> message[m] = "acked"
                                       /\ message'[m] = "terminated" <=> message[m] = "terminated"
           Goal == Fated' /\ [Promise!Next]_(Promise!pvars)
<1>0. TypeOK
  BY Zenon DEF IInv
<1>1. ASSUME Same, UNCHANGED <<marker, applied>> PROVE Goal
  BY <1>1, FateStays, Zenon DEF Promise!pvars
<1>2. ASSUME NEW m \in Messages, Publish(m) \/ AckWait(m) PROVE Goal
  <2>1. Same
    BY <1>0, <1>2, Zenon DEF TypeOK, Publish, AckWait, Stream!Publish, Stream!AckWait
  <2> QED
    BY <1>1, <1>2, <2>1, Zenon DEF Publish, AckWait
<1>3. ASSUME NEW m \in Messages, NEW w \in Workers, receive(w, m) PROVE Goal
  <2>1. Same
    BY <1>0, <1>3, Zenon DEF TypeOK, receive, Stream!Deliver
  <2> QED
    BY <1>1, <1>3, <2>1, Zenon DEF receive
<1>4. ASSUME NEW m \in Messages, ForgetProcessed(m) PROVE Goal
  <2>1. Fate' = Fate /\ Fated'
    BY <1>4, FateStays, Zenon DEF ForgetProcessed
  <2>2. Promise!Forget(m)
    BY <1>4, <2>1, Zenon DEF ForgetProcessed, Promise!Forget
  <2> QED
    BY <2>1, <2>2, Zenon DEF Promise!Next
<1>5. ASSUME NEW w \in Workers, claim(w) \/ duplicate(w) PROVE Goal
  BY <1>1, <1>5, Zenon DEF claim, duplicate
<1>6. ASSUME NEW w \in Workers, commit(w) PROVE Goal
  <2>1. Fate' = Fate /\ Fated'
    BY <1>6, FateStays, Zenon DEF commit
  <2> QED
    BY <1>6, <2>1, CommitPerforms, Zenon DEF commit, Promise!Next
<1>7. ASSUME NEW w \in Workers, commitUnanswered(w) PROVE Goal
  <2>1. Fate' = Fate /\ Fated'
    BY <1>7, RefusalStays, FateStays, Zenon DEF commitUnanswered
  <2> QED
    BY <1>7, <2>1, CommitPerforms, Zenon DEF commitUnanswered, Promise!Next
<1>8. ASSUME NEW w \in Workers, handleFails(w) \/ crash(w) PROVE Goal
  BY <1>1, <1>8, RefusalStays, Zenon DEF handleFails, crash
<1>9. ASSUME UNCHANGED vars PROVE Goal
  BY <1>1, <1>9, Zenon DEF vars
<1> QED
  BY <1>2, <1>3, <1>4, <1>5, <1>6, <1>7, <1>8, <1>9, AcknowledgeSettles, TerminateDrops, Zenon
  DEF Next, Handle

\* The consumer implements IdempotentPromise for any number of events, workers, faults
\* and forgotten markers: its commits and settlements are those the promise allows.
THEOREM Refinement == Spec => PromiseSpec
<1>1. Init => Fated /\ Promise!Init
  <2> SUFFICES ASSUME Init PROVE Fated /\ Promise!Init
    BY Zenon
  <2>1. \A m \in Messages : message[m] = "unpublished"
    BY Zenon DEF Init, Stream!Init
  <2>2. Fated
    BY <2>1, Zenon DEF Fated
  <2>3. Fate = [m \in Messages |-> "open"]
    BY <2>1, Zenon DEF Fate
  <2> QED
    BY <2>2, <2>3, Zenon DEF Init, Promise!Init
<1>2. IInv /\ Fated /\ [Next]_vars => Fated' /\ [Promise!Next]_(Promise!pvars)
  BY StepRefines, Zenon
<1> QED
  BY <1>1, <1>2, Invariance, PTL DEF Spec, PromiseSpec, Promise!Spec
=============================================================================
