--------------------------- MODULE WebhookProofs ----------------------------
(***************************************************************************)
(* Proofs about WebhookDrain and about WebhookPipeline, for any number of    *)
(* events, deliveries, endpoints, consuming and draining processes,          *)
(* attempts, faults, replays and edits.  First the queue alone; then the     *)
(* pipeline, whose intake keeps the queue's invariant, so that what is       *)
(* proved of the queue holds of the composition.                             *)
(***************************************************************************)
EXTENDS WebhookPipeline, FiniteSetTheorems, TLAPS

-----------------------------------------------------------------------------
(* The queue: its inductive invariant, in parts.                             *)

\* A pass holds only rows that had an attempt left when it read them, and a
\* process outside a pass holds none.
Batches == \A d \in Drainers :
    /\ pc[d] \in {"off", "idle"} => batch[d] = {}
    /\ \A k \in batch[d] : copy[d][k] < MaxAttempts

\* A row that does not exist yet has no attempts.
Unqueued == \A k \in Deliveries : status[k] = "none" => attempts[k] = 0

\* The columns of one row agree.
Agrees(s, n, why) ==
    /\ s = "pending" => n < MaxAttempts
    /\ s = "dead" => why \in {"gone", "refused"} \/ (why = "retry" /\ n >= MaxAttempts)

\* What a pass is about to save is as sound as the row it will overwrite.
Outcomes == \A d \in Drainers :
    /\ pc[d] \in {"off", "idle", "next"} => result[d].status = "pending"
    /\ pc[d] \in {"post", "save"} => result[d].key \in batch[d]
    /\ pc[d] = "post" =>
         /\ result[d].attempts < MaxAttempts
         /\ result[d].status = "pending"
    /\ pc[d] = "save" =>
         /\ Agrees(result[d].status, result[d].attempts, result[d].reason)
         /\ result[d].status = "delivered" => accepted[result[d].key] > 0

\* A row that was never in two hands is in one pass or in none, is pending while
\* it is in one, and is not delivered while Replay holds it.
UnracedAt(k) ==
    /\ \A d, e \in Drainers : k \in batch[d] /\ k \in batch[e] => d = e
    /\ \A d \in Drainers : k \in batch[d] => status[k] = "pending" /\ replaying # k
    /\ replaying = k => status[k] # "delivered"
Unraced == \A k \in Deliveries \ raced : UnracedAt(k)

\* Every acceptance of such a row is recorded, unconfirmed, or about to be saved
\* by the one pass that holds it.
AccountedAt(k) ==
    /\ \A d \in Drainers :
         result[d].status = "delivered" /\ result[d].key = k => accepted[k] = unconfirmed[k] + 1
    /\ (\A d \in Drainers : ~(result[d].status = "delivered" /\ result[d].key = k)) =>
         accepted[k] = unconfirmed[k] + (IF status[k] = "delivered" THEN 1 ELSE 0)
Accounted == \A k \in Deliveries \ raced : AccountedAt(k)

IInv ==
    /\ TypeOK
    /\ Batches
    /\ Unqueued
    /\ Outcomes
    /\ RowsAgree
    /\ DeliveredWasAccepted
    /\ Unraced
    /\ Accounted

USE WebhookDrainAssumption
    DEF Status, Reasons, rowVars, drainVars, replayVars, worldVars, Agrees

-----------------------------------------------------------------------------
(* How many passes hold an unsaved acceptance of a delivery.                 *)

\* None, when no pass has it.
LEMMA HeldNone ==
    ASSUME NEW k \in Deliveries,
           \A d \in Drainers : ~(result[d].status = "delivered" /\ result[d].key = k)
    PROVE  Held(k) = 0
<1>1. {d \in Drainers : result[d].status = "delivered" /\ result[d].key = k} = {}
  BY Zenon
<1>2. QED
  BY <1>1, FS_EmptySet, Zenon DEF Held

\* One, when a single pass has it.
LEMMA HeldOne ==
    ASSUME NEW k \in Deliveries, NEW d \in Drainers,
           result[d].status = "delivered", result[d].key = k,
           \A e \in Drainers : result[e].status = "delivered" /\ result[e].key = k => e = d
    PROVE  Held(k) = 1
<1>1. {e \in Drainers : result[e].status = "delivered" /\ result[e].key = k} = {d}
  BY Zenon
<1>2. QED
  BY <1>1, FS_Singleton, Zenon DEF Held

-----------------------------------------------------------------------------
(* What a pass carries.                                                      *)

\* The columns of a delivery under way are of their types.
LEMMA ResultFields ==
    ASSUME TypeOK, NEW d \in Drainers
    PROVE  /\ result[d] \in Results
           /\ result[d].key \in Deliveries \cup {NoDelivery}
           /\ result[d].status \in {"pending", "delivered", "dead"}
           /\ result[d].attempts \in Nat
           /\ result[d].reason \in Reasons
<1>1. result[d] \in Results
  BY Zenon DEF TypeOK
<1>2. QED
  BY <1>1, Zenon DEF Results

\* An unsaved acceptance is of a delivery in the pass's batch.
LEMMA UnsavedInBatch ==
    ASSUME IInv, NEW d \in Drainers, result[d].status = "delivered"
    PROVE  pc[d] = "save" /\ result[d].key \in batch[d] /\ result[d].key \in Deliveries
  BY Zenon DEF IInv, TypeOK, Outcomes

\* While one pass has a row that was never raced, no other has an acceptance of it.
LEMMA OneHolder ==
    ASSUME IInv, NEW k \in Deliveries \ raced, NEW d \in Drainers, k \in batch[d],
           NEW e \in Drainers, e # d
    PROVE  ~(result[e].status = "delivered" /\ result[e].key = k)
  BY UnsavedInBatch DEF IInv, Unraced, UnracedAt

-----------------------------------------------------------------------------
(* The invariant is inductive.                                              *)

\* A new row is sound, and no pass holds it.
LEMMA CreateRowPreserves ==
    ASSUME IInv, NEW k \in Deliveries, createRow(k)
    PROVE  IInv'
<1> USE DEF createRow
<1>1. TypeOK'
  BY Zenon DEF IInv, TypeOK
<1>2. Batches'
  BY Zenon DEF IInv, TypeOK, Batches
<1>3. Unqueued'
  BY Zenon DEF IInv, TypeOK, Unqueued
<1>4. Outcomes'
  BY Zenon DEF IInv, TypeOK, Outcomes
<1>5. RowsAgree'
  BY DEF IInv, TypeOK, RowsAgree, Unqueued
<1>6. DeliveredWasAccepted'
  BY Zenon DEF IInv, TypeOK, DeliveredWasAccepted
<1>7. Unraced'
  BY Zenon DEF IInv, TypeOK, Unraced, UnracedAt
<1>8. Accounted'
  BY Zenon DEF IInv, TypeOK, Accounted, AccountedAt
<1>9. QED
  BY <1>1, <1>2, <1>3, <1>4, <1>5, <1>6, <1>7, <1>8, Zenon DEF IInv

\* Time changes only when a row is due.
LEMMA ElapsePreserves ==
    ASSUME IInv, NEW k \in Deliveries, Elapse(k)
    PROVE  IInv'
<1> USE DEF Elapse
<1>1. TypeOK'
  BY Zenon DEF IInv, TypeOK
<1>2. Batches'
  BY Zenon DEF IInv, TypeOK, Batches
<1>3. Unqueued'
  BY Zenon DEF IInv, TypeOK, Unqueued
<1>4. Outcomes'
  BY Zenon DEF IInv, TypeOK, Outcomes
<1>5. RowsAgree'
  BY Zenon DEF IInv, TypeOK, RowsAgree
<1>6. DeliveredWasAccepted'
  BY Zenon DEF IInv, TypeOK, DeliveredWasAccepted
<1>7. Unraced'
  BY Zenon DEF IInv, TypeOK, Unraced, UnracedAt
<1>8. Accounted'
  BY Zenon DEF IInv, TypeOK, Accounted, AccountedAt
<1>9. QED
  BY <1>1, <1>2, <1>3, <1>4, <1>5, <1>6, <1>7, <1>8, Zenon DEF IInv

\* A pass takes pending rows; one that somebody holds is raced from now on.
LEMMA FindDuePreserves ==
    ASSUME IInv, NEW d \in Drainers, findDue(d)
    PROVE  IInv'
<1> USE DEF findDue, pick, Drained
<1>a. PICK picked \in SUBSET {k \in Deliveries : status[k] = "pending" /\ k \in due} :
        /\ batch' = [batch EXCEPT ![d] = picked]
        /\ copy' = [copy EXCEPT ![d] =
                      [k \in Deliveries |-> IF k \in picked THEN attempts[k] ELSE 0]]
        /\ raced' = raced \cup {k \in picked : k = replaying \/ Drained(k)}
  BY Zenon
<1>1. TypeOK'
  BY DEF IInv, TypeOK
<1>2. Batches'
  <2>1. pc'[d] = "next" /\ batch'[d] = picked /\ \A k \in picked : copy'[d][k] = attempts[k]
    BY <1>a DEF IInv, TypeOK
  <2>2. \A e \in Drainers \ {d} : pc'[e] = pc[e] /\ batch'[e] = batch[e] /\ copy'[e] = copy[e]
    BY <1>a DEF IInv, TypeOK
  <2>3. \A k \in picked : attempts[k] < MaxAttempts
    BY <1>a, Zenon DEF IInv, RowsAgree
  <2>4. \A e \in Drainers : pc'[e] \in {"off", "idle"} => batch'[e] = {}
    BY <2>1, <2>2 DEF IInv, Batches
  <2>5. ASSUME NEW e \in Drainers, NEW k \in batch'[e] PROVE copy'[e][k] < MaxAttempts
    <3> HIDE DEF findDue, pick, Drained
    <3>1. CASE e = d
      BY <2>1, <2>3, <2>5, <3>1, Zenon
    <3>2. CASE e # d
      BY <2>2, <2>5, <3>2, Zenon DEF IInv, Batches
    <3>3. QED
      BY <3>1, <3>2, Zenon
  <2>6. QED
    BY <2>4, <2>5, Zenon DEF Batches
<1>3. Unqueued'
  BY Zenon DEF IInv, TypeOK, Unqueued
<1>4. Outcomes'
  BY DEF IInv, TypeOK, Outcomes
<1>5. RowsAgree'
  BY Zenon DEF IInv, TypeOK, RowsAgree
<1>6. DeliveredWasAccepted'
  BY Zenon DEF IInv, TypeOK, DeliveredWasAccepted
<1>7. Unraced'
  BY DEF IInv, TypeOK, Unraced, UnracedAt
<1>8. Accounted'
  BY Zenon DEF IInv, TypeOK, Accounted, AccountedAt
<1>9. QED
  BY <1>1, <1>2, <1>3, <1>4, <1>5, <1>6, <1>7, <1>8, Zenon DEF IInv

\* The end of a pass.
LEMMA DrainedPreserves ==
    ASSUME IInv, NEW d \in Drainers, drained(d)
    PROVE  IInv'
<1> USE DEF drained
<1>1. TypeOK'
  BY Zenon DEF IInv, TypeOK
<1>2. Batches'
  BY Zenon DEF IInv, TypeOK, Batches
<1>3. Unqueued'
  BY Zenon DEF IInv, TypeOK, Unqueued
<1>4. Outcomes'
  BY Zenon DEF IInv, TypeOK, Outcomes
<1>5. RowsAgree'
  BY Zenon DEF IInv, TypeOK, RowsAgree
<1>6. DeliveredWasAccepted'
  BY Zenon DEF IInv, TypeOK, DeliveredWasAccepted
<1>7. Unraced'
  BY Zenon DEF IInv, TypeOK, Unraced, UnracedAt
<1>8. Accounted'
  BY Zenon DEF IInv, TypeOK, Accounted, AccountedAt
<1>9. QED
  BY <1>1, <1>2, <1>3, <1>4, <1>5, <1>6, <1>7, <1>8, Zenon DEF IInv

\* The copy about to be posted has an attempt left.
LEMMA ReadEndpointPreserves ==
    ASSUME IInv, NEW d \in Drainers, NEW k \in Deliveries, readEndpoint(d, k)
    PROVE  IInv'
<1> USE DEF readEndpoint
<1> DEFINE r == Row(k, "pending", copy[d][k], "none")
<1>a. copy[d][k] \in Nat /\ k \in Deliveries
  BY DEF IInv, TypeOK
<1>b. result' = [result EXCEPT ![d] = r]
  BY Zenon
<1>c. /\ r \in Results /\ r.key = k /\ r.status # "delivered" /\ r.attempts = copy[d][k]
      /\ r.status = "pending" /\ r.reason = "none"
  BY <1>a, Zenon DEF Results, Row
<1> HIDE DEF r
<1>d. /\ result'[d] = r
      /\ \A e \in Drainers \ {d} : result'[e] = result[e]
  BY <1>b, Zenon DEF IInv, TypeOK
<1>e. result[d].status # "delivered"
  BY Zenon DEF IInv, Outcomes
<1>1. TypeOK'
  <2>1. result' \in [Drainers -> Results]
    BY <1>b, <1>c DEF IInv, TypeOK
  <2>2. QED
    BY <2>1, Zenon DEF IInv, TypeOK
<1>2. Batches'
  BY Zenon DEF IInv, TypeOK, Batches
<1>3. Unqueued'
  BY Zenon DEF IInv, TypeOK, Unqueued
<1>4. Outcomes'
  <2>1. pc'[d] = "post" /\ \A e \in Drainers \ {d} : pc'[e] = pc[e]
    BY Zenon DEF IInv, TypeOK
  <2>2. copy[d][k] < MaxAttempts
    BY Zenon DEF IInv, Batches
  <2>3. QED
    BY <1>c, <1>d, <2>1, <2>2 DEF IInv, Outcomes
<1>5. RowsAgree'
  BY Zenon DEF IInv, TypeOK, RowsAgree
<1>6. DeliveredWasAccepted'
  BY Zenon DEF IInv, TypeOK, DeliveredWasAccepted
<1>7. Unraced'
  BY Zenon DEF IInv, TypeOK, Unraced, UnracedAt
<1>8. Accounted'
  <2>1. \A e \in Drainers : \A j \in Deliveries :
          (result'[e].status = "delivered" /\ result'[e].key = j)
            <=> (result[e].status = "delivered" /\ result[e].key = j)
    BY <1>c, <1>d, <1>e, Zenon
  <2>2. UNCHANGED <<raced, accepted, unconfirmed, status>>
    BY Zenon
  <2>3. QED
    BY <2>1, <2>2 DEF IInv, Accounted, AccountedAt
<1>9. QED
  BY <1>1, <1>2, <1>3, <1>4, <1>5, <1>6, <1>7, <1>8, Zenon DEF IInv

\* A dead letter gives its reason.
LEMMA EndpointGonePreserves ==
    ASSUME IInv, NEW d \in Drainers, NEW k \in Deliveries, endpointGone(d, k)
    PROVE  IInv'
<1> USE DEF endpointGone, deadLetter
<1> DEFINE r == Row(k, "dead", copy[d][k], "gone")
<1>a. copy[d][k] \in Nat /\ k \in Deliveries
  BY DEF IInv, TypeOK
<1>b. result' = [result EXCEPT ![d] = r]
  BY Zenon
<1>c. /\ r \in Results /\ r.key = k /\ r.status # "delivered" /\ r.attempts = copy[d][k]
      /\ r.status = "dead" /\ r.reason = "gone"
  BY <1>a, Zenon DEF Results, Row
<1> HIDE DEF r
<1>d. /\ result'[d] = r
      /\ \A e \in Drainers \ {d} : result'[e] = result[e]
  BY <1>b, Zenon DEF IInv, TypeOK
<1>e. result[d].status # "delivered"
  BY Zenon DEF IInv, Outcomes
<1>1. TypeOK'
  <2>1. result' \in [Drainers -> Results]
    BY <1>b, <1>c DEF IInv, TypeOK
  <2>2. QED
    BY <2>1, Zenon DEF IInv, TypeOK
<1>2. Batches'
  BY Zenon DEF IInv, TypeOK, Batches
<1>3. Unqueued'
  BY Zenon DEF IInv, TypeOK, Unqueued
<1>4. Outcomes'
  <2>1. pc'[d] = "save" /\ \A e \in Drainers \ {d} : pc'[e] = pc[e]
    BY Zenon DEF IInv, TypeOK
  <2>2. copy[d][k] < MaxAttempts
    BY Zenon DEF IInv, Batches
  <2>3. QED
    BY <1>c, <1>d, <2>1, <2>2 DEF IInv, Outcomes
<1>5. RowsAgree'
  BY Zenon DEF IInv, TypeOK, RowsAgree
<1>6. DeliveredWasAccepted'
  BY Zenon DEF IInv, TypeOK, DeliveredWasAccepted
<1>7. Unraced'
  BY Zenon DEF IInv, TypeOK, Unraced, UnracedAt
<1>8. Accounted'
  <2>1. \A e \in Drainers : \A j \in Deliveries :
          (result'[e].status = "delivered" /\ result'[e].key = j)
            <=> (result[e].status = "delivered" /\ result[e].key = j)
    BY <1>c, <1>d, <1>e, Zenon
  <2>2. UNCHANGED <<raced, accepted, unconfirmed, status>>
    BY Zenon
  <2>3. QED
    BY <2>1, <2>2 DEF IInv, Accounted, AccountedAt
<1>9. QED
  BY <1>1, <1>2, <1>3, <1>4, <1>5, <1>6, <1>7, <1>8, Zenon DEF IInv

\* So does one whose endpoint could not be read.
LEMMA EndpointUnreadPreserves ==
    ASSUME IInv, NEW d \in Drainers, NEW k \in Deliveries, endpointUnread(d, k)
    PROVE  IInv'
<1> USE DEF endpointUnread, deadLetter
<1> DEFINE r == Row(k, "dead", copy[d][k], "gone")
<1>a. copy[d][k] \in Nat /\ k \in Deliveries
  BY DEF IInv, TypeOK
<1>b. result' = [result EXCEPT ![d] = r]
  BY Zenon
<1>c. /\ r \in Results /\ r.key = k /\ r.status # "delivered" /\ r.attempts = copy[d][k]
      /\ r.status = "dead" /\ r.reason = "gone"
  BY <1>a, Zenon DEF Results, Row
<1> HIDE DEF r
<1>d. /\ result'[d] = r
      /\ \A e \in Drainers \ {d} : result'[e] = result[e]
  BY <1>b, Zenon DEF IInv, TypeOK
<1>e. result[d].status # "delivered"
  BY Zenon DEF IInv, Outcomes
<1>1. TypeOK'
  <2>1. result' \in [Drainers -> Results]
    BY <1>b, <1>c DEF IInv, TypeOK
  <2>2. QED
    BY <2>1 DEF IInv, TypeOK
<1>2. Batches'
  BY Zenon DEF IInv, TypeOK, Batches
<1>3. Unqueued'
  BY Zenon DEF IInv, TypeOK, Unqueued
<1>4. Outcomes'
  <2>1. pc'[d] = "save" /\ \A e \in Drainers \ {d} : pc'[e] = pc[e]
    BY Zenon DEF IInv, TypeOK
  <2>2. copy[d][k] < MaxAttempts
    BY Zenon DEF IInv, Batches
  <2>3. QED
    BY <1>c, <1>d, <2>1, <2>2 DEF IInv, Outcomes
<1>5. RowsAgree'
  BY Zenon DEF IInv, TypeOK, RowsAgree
<1>6. DeliveredWasAccepted'
  BY Zenon DEF IInv, TypeOK, DeliveredWasAccepted
<1>7. Unraced'
  BY Zenon DEF IInv, TypeOK, Unraced, UnracedAt
<1>8. Accounted'
  <2>1. \A e \in Drainers : \A j \in Deliveries :
          (result'[e].status = "delivered" /\ result'[e].key = j)
            <=> (result[e].status = "delivered" /\ result[e].key = j)
    BY <1>c, <1>d, <1>e, Zenon
  <2>2. UNCHANGED <<raced, accepted, unconfirmed, status>>
    BY Zenon
  <2>3. QED
    BY <2>1, <2>2 DEF IInv, Accounted, AccountedAt
<1>9. QED
  BY <1>1, <1>2, <1>3, <1>4, <1>5, <1>6, <1>7, <1>8, Zenon DEF IInv

\* Whatever the receiver does, what Advance makes of it can be saved.
LEMMA AttemptPreserves ==
    ASSUME IInv, NEW d \in Drainers, Attempt(d)
    PROVE  IInv'
<1> USE DEF Attempt, Advance
<1> DEFINE k == result[d].key
           n == result[d].attempts + 1
<1>a. /\ k \in batch[d] /\ k \in Deliveries /\ n \in Nat /\ n <= MaxAttempts
      /\ result[d].status = "pending"
  BY ResultFields DEF IInv, TypeOK, Outcomes
<1>b. PICK o \in {"none", "retry", "refused"} :
        /\ result' = [result EXCEPT ![d] = Advance(result[d], o)]
        /\ \/ o = "none" /\ accepted' = [accepted EXCEPT ![k] = @ + 1] /\ unconfirmed' = unconfirmed
           \/ /\ o = "retry" /\ accepted' = [accepted EXCEPT ![k] = @ + 1]
              /\ unconfirmed' = [unconfirmed EXCEPT ![k] = @ + 1]
           \/ o # "none" /\ accepted' = accepted /\ unconfirmed' = unconfirmed
  <2> HIDE DEF Advance
  <2>1. QED
    BY Zenon
<1> DEFINE r == Advance(result[d], o)
<1>c. /\ r \in Results /\ r.key = k /\ r.attempts = n /\ r.reason = o
      /\ o = "none" <=> r.status = "delivered"
      /\ Agrees(r.status, n, o)
  BY <1>a DEF Results, Row
<1> HIDE DEF r
<1>d. /\ result'[d] = r /\ \A e \in Drainers \ {d} : result'[e] = result[e]
      /\ pc'[d] = "save" /\ \A e \in Drainers \ {d} : pc'[e] = pc[e]
  BY <1>b, Zenon DEF IInv, TypeOK, r
<1>e. /\ faults' \in Nat
      /\ pc' = [pc EXCEPT ![d] = "save"]
      /\ UNCHANGED <<batch, copy, rowVars, replayVars, raced, endpoint, edits>>
  BY DEF IInv, TypeOK
<1>f. /\ \A j \in Deliveries \ {k} : accepted'[j] = accepted[j] /\ unconfirmed'[j] = unconfirmed[j]
      /\ accepted' \in [Deliveries -> Nat] /\ unconfirmed' \in [Deliveries -> Nat]
      /\ \A j \in Deliveries : accepted'[j] >= accepted[j]
      /\ accepted'[k] = unconfirmed'[k] + (accepted[k] - unconfirmed[k])
                          + (IF r.status = "delivered" THEN 1 ELSE 0)
      /\ r.status = "delivered" => accepted'[k] > 0
  <2>1. accepted \in [Deliveries -> Nat] /\ unconfirmed \in [Deliveries -> Nat]
    BY Zenon DEF IInv, TypeOK
  <2> HIDE DEF Attempt, Advance, k, n
  <2>2. CASE o = "none" /\ accepted' = [accepted EXCEPT ![k] = @ + 1] /\ unconfirmed' = unconfirmed
    BY <1>a, <1>c, <2>1, <2>2
  <2>3. CASE /\ o = "retry" /\ accepted' = [accepted EXCEPT ![k] = @ + 1]
             /\ unconfirmed' = [unconfirmed EXCEPT ![k] = @ + 1]
    BY <1>a, <1>c, <2>1, <2>3
  <2>4. CASE o # "none" /\ accepted' = accepted /\ unconfirmed' = unconfirmed
    BY <1>a, <1>c, <2>1, <2>4
  <2>5. QED
    BY <1>b, <2>2, <2>3, <2>4, Zenon DEF k
<1> HIDE DEF Attempt, Advance, k, n
<1>1. TypeOK'
  <2>1. result' \in [Drainers -> Results]
    BY <1>b, <1>c, Zenon DEF IInv, TypeOK, r
  <2>2. QED
    BY <2>1, <1>e, <1>f, Zenon DEF IInv, TypeOK
<1>2. Batches'
  BY <1>d, <1>e, Zenon DEF IInv, Batches
<1>3. Unqueued'
  BY <1>e, Zenon DEF IInv, Unqueued
<1>4. Outcomes'
  <2>1. \A e \in Drainers : pc[e] = "save" /\ result[e].status = "delivered" =>
          result[e].key \in Deliveries
    BY Zenon DEF IInv, TypeOK, Outcomes
  <2>2. \A e \in Drainers \ {d} : pc[e] = "save" /\ result[e].status = "delivered" =>
          accepted'[result[e].key] > 0
    BY <2>1, <1>f DEF IInv, TypeOK, Outcomes
  <2>3. QED
    BY <2>2, <1>a, <1>c, <1>d, <1>e, <1>f DEF IInv, Outcomes
<1>5. RowsAgree'
  BY <1>e, Zenon DEF IInv, RowsAgree
<1>6. DeliveredWasAccepted'
  BY <1>e, <1>f DEF IInv, TypeOK, DeliveredWasAccepted
<1>7. Unraced'
  BY <1>e, Zenon DEF IInv, Unraced, UnracedAt
<1>8. Accounted'
  <2> SUFFICES ASSUME NEW j \in Deliveries \ raced PROVE AccountedAt(j)'
    BY <1>e, Zenon DEF Accounted
  <2>1. AccountedAt(j) /\ accepted[j] \in Nat /\ unconfirmed[j] \in Nat
    BY Zenon DEF IInv, TypeOK, Accounted
  <2>2. CASE j # k
    BY <2>1, <2>2, <1>a, <1>c, <1>d, <1>e, <1>f DEF AccountedAt
  <2>3. CASE j = k
    <3>1. \A e \in Drainers \ {d} : ~(result[e].status = "delivered" /\ result[e].key = j)
      BY <2>3, <1>a, OneHolder, Zenon
    <3>2. status[j] = "pending"
      BY <2>3, <1>a, Zenon DEF IInv, Unraced, UnracedAt
    <3>3. accepted[j] = unconfirmed[j]
      BY <2>1, <2>3, <3>1, <3>2, <1>a DEF AccountedAt
    <3>4. QED
      BY <2>1, <2>3, <3>1, <3>2, <3>3, <1>c, <1>d, <1>e, <1>f DEF AccountedAt
  <2>4. QED
    BY <2>2, <2>3, Zenon
<1>9. QED
  BY <1>1, <1>2, <1>3, <1>4, <1>5, <1>6, <1>7, <1>8, Zenon DEF IInv

\* Saving the outcome keeps the row sound.
LEMMA SavePreserves ==
    ASSUME IInv, NEW d \in Drainers, save(d)
    PROVE  IInv'
<1> USE DEF save
<1> DEFINE k == result[d].key
           s == result[d].status
<1>a. /\ k \in batch[d] /\ k \in Deliveries /\ result[d].attempts \in Nat
      /\ s \in {"pending", "delivered", "dead"} /\ result[d].reason \in Reasons
  BY ResultFields, Zenon DEF IInv, TypeOK, Outcomes
<1>i. Idle \in Results /\ Idle.status = "pending" /\ Idle.key = NoDelivery
  BY Zenon DEF Idle, Row, Results
<1>d. /\ result'[d] = Idle /\ \A e \in Drainers \ {d} : result'[e] = result[e]
      /\ pc'[d] = "next" /\ \A e \in Drainers \ {d} : pc'[e] = pc[e]
      /\ batch'[d] \in SUBSET batch[d] /\ \A e \in Drainers \ {d} : batch'[e] = batch[e]
  BY Zenon DEF IInv, TypeOK
<1>s. status'[k] = s /\ \A j \in Deliveries \ {k} : status'[j] = status[j]
  BY <1>a, Zenon DEF IInv, TypeOK
<1>1. TypeOK'
  <2>1. result' \in [Drainers -> Results]
    BY <1>i, Zenon DEF IInv, TypeOK
  <2>2. copy' \in [Drainers -> [Deliveries -> Nat]]
    BY Zenon DEF IInv, TypeOK
  <2>3. status' \in [Deliveries -> Status] /\ attempts' \in [Deliveries -> Nat]
        /\ reason' \in [Deliveries -> Reasons] /\ due' \in SUBSET Deliveries
    BY <1>a, Zenon DEF IInv, TypeOK
  <2>4. QED
    BY <2>1, <2>2, <2>3, Zenon DEF IInv, TypeOK
<1>2. Batches'
  BY Zenon DEF IInv, TypeOK, Batches
<1>3. Unqueued'
  BY <1>a, Zenon DEF IInv, TypeOK, Unqueued
<1>4. Outcomes'
  <2>1. UNCHANGED accepted
    BY Zenon
  <2>2. QED
    BY <2>1, <1>i, <1>d DEF IInv, Outcomes
<1>5. RowsAgree'
  BY Zenon DEF IInv, TypeOK, RowsAgree, Outcomes
<1>6. DeliveredWasAccepted'
  BY Zenon DEF IInv, TypeOK, DeliveredWasAccepted, Outcomes
<1>7. Unraced'
  BY DEF IInv, TypeOK, Outcomes, Unraced, UnracedAt
<1>8. Accounted'
  <2> SUFFICES ASSUME NEW j \in Deliveries \ raced PROVE AccountedAt(j)'
    BY Zenon DEF Accounted
  <2>1. AccountedAt(j) /\ UNCHANGED <<accepted, unconfirmed>>
    BY Zenon DEF IInv, Accounted
  <2>2. CASE j # k
    BY <2>1, <2>2, <1>d, <1>i, <1>s DEF AccountedAt
  <2>3. CASE j = k
    <3>1. \A e \in Drainers \ {d} : ~(result[e].status = "delivered" /\ result[e].key = j)
      BY <2>3, <1>a, OneHolder, Zenon
    <3>2. status[j] = "pending"
      BY <2>3, <1>a, Zenon DEF IInv, Unraced, UnracedAt
    <3>3. \A e \in Drainers : ~(result'[e].status = "delivered" /\ result'[e].key = j)
      BY <3>1, <1>d, <1>i, Zenon
    <3>4. accepted[j] = unconfirmed[j] + (IF s = "delivered" THEN 1 ELSE 0)
      BY <2>1, <2>3, <3>1, <3>2, Zenon DEF AccountedAt
    <3>5. QED
      BY <2>1, <2>3, <3>3, <3>4, <1>s, Zenon DEF AccountedAt
  <2>4. QED
    BY <2>2, <2>3, Zenon
<1>9. QED
  BY <1>1, <1>2, <1>3, <1>4, <1>5, <1>6, <1>7, <1>8, Zenon DEF IInv

\* An acceptance lost with its pass is unconfirmed.
LEMMA PassLostPreserves ==
    ASSUME IInv, NEW d \in Drainers, passLost(d)
    PROVE  IInv'
<1> USE DEF passLost
<1> DEFINE k == result[d].key
<1>a. result[d].status = "delivered" => k \in batch[d] /\ k \in Deliveries
  BY UnsavedInBatch, Zenon
<1>i. Idle \in Results /\ Idle.status = "pending" /\ Idle.key = NoDelivery
  BY Zenon DEF Idle, Row, Results
<1>d. /\ result'[d] = Idle /\ \A e \in Drainers \ {d} : result'[e] = result[e]
      /\ pc'[d] = "idle" /\ \A e \in Drainers \ {d} : pc'[e] = pc[e]
      /\ batch'[d] \in SUBSET batch[d] /\ \A e \in Drainers \ {d} : batch'[e] = batch[e]
  BY Zenon DEF IInv, TypeOK
<1>1. TypeOK'
  <2>1. result' \in [Drainers -> Results]
    BY <1>i, Zenon DEF IInv, TypeOK
  <2>2. copy' \in [Drainers -> [Deliveries -> Nat]]
    BY Zenon DEF IInv, TypeOK
  <2>3. unconfirmed' \in [Deliveries -> Nat]
    BY <1>a DEF IInv, TypeOK
  <2>4. QED
    BY <2>1, <2>2, <2>3 DEF IInv, TypeOK
<1>2. Batches'
  BY Zenon DEF IInv, TypeOK, Batches
<1>3. Unqueued'
  BY Zenon DEF IInv, TypeOK, Unqueued
<1>4. Outcomes'
  <2>1. UNCHANGED accepted
    BY Zenon
  <2>2. QED
    BY <2>1, <1>i, <1>d DEF IInv, Outcomes
<1>5. RowsAgree'
  BY Zenon DEF IInv, TypeOK, RowsAgree
<1>6. DeliveredWasAccepted'
  BY Zenon DEF IInv, TypeOK, DeliveredWasAccepted
<1>7. Unraced'
  BY Zenon DEF IInv, TypeOK, Unraced, UnracedAt
<1>8. Accounted'
  <2> SUFFICES ASSUME NEW j \in Deliveries \ raced PROVE AccountedAt(j)'
    BY Zenon DEF Accounted
  <2>1. /\ AccountedAt(j) /\ UNCHANGED <<accepted, status>>
        /\ accepted[j] \in Nat /\ unconfirmed[j] \in Nat
    BY Zenon DEF IInv, TypeOK, Accounted
  <2>2. CASE ~(result[d].status = "delivered" /\ j = k)
    <3>1. unconfirmed'[j] = unconfirmed[j]
      BY <2>2, <1>a, Zenon DEF IInv, TypeOK
    <3>2. QED
      BY <2>1, <2>2, <3>1, <1>d, <1>i DEF AccountedAt
  <2>3. CASE result[d].status = "delivered" /\ j = k
    <3>1. \A e \in Drainers \ {d} : ~(result[e].status = "delivered" /\ result[e].key = j)
      BY <2>3, <1>a, OneHolder, Zenon
    <3>2. status[j] = "pending"
      BY <2>3, <1>a, Zenon DEF IInv, Unraced, UnracedAt
    <3>3. unconfirmed'[j] = unconfirmed[j] + 1
      BY <2>3, <1>a, Zenon DEF IInv, TypeOK
    <3>4. accepted[j] = unconfirmed[j] + 1
      BY <2>1, <2>3, Zenon DEF AccountedAt
    <3>5. QED
      BY <2>1, <3>1, <3>2, <3>3, <3>4, <1>d, <1>i DEF AccountedAt
  <2>4. QED
    BY <2>2, <2>3, Zenon
<1>9. QED
  BY <1>1, <1>2, <1>3, <1>4, <1>5, <1>6, <1>7, <1>8, Zenon DEF IInv

\* Replay of one delivery begins.
LEMMA ReplayPreserves ==
    ASSUME IInv, NEW k \in Deliveries, Replay(k)
    PROVE  IInv'
<1> USE DEF Replay
<1>1. TypeOK'
  BY DEF IInv, TypeOK
<1>2. Batches'
  BY Zenon DEF IInv, TypeOK, Batches
<1>3. Unqueued'
  BY Zenon DEF IInv, TypeOK, Unqueued
<1>4. Outcomes'
  BY Zenon DEF IInv, TypeOK, Outcomes
<1>5. RowsAgree'
  BY Zenon DEF IInv, TypeOK, RowsAgree
<1>6. DeliveredWasAccepted'
  BY Zenon DEF IInv, TypeOK, DeliveredWasAccepted
<1>7. Unraced'
  BY Zenon DEF IInv, TypeOK, Unraced, UnracedAt
<1>8. Accounted'
  BY Zenon DEF IInv, TypeOK, Accounted, AccountedAt
<1>9. QED
  BY <1>1, <1>2, <1>3, <1>4, <1>5, <1>6, <1>7, <1>8, Zenon DEF IInv

\* Replay of an endpoint begins.
LEMMA ReplayEndpointPreserves ==
    ASSUME IInv, NEW e \in Endpoints, ReplayEndpoint(e)
    PROVE  IInv'
<1> USE DEF ReplayEndpoint
<1>1. TypeOK'
  BY DEF IInv, TypeOK
<1>2. Batches'
  BY Zenon DEF IInv, TypeOK, Batches
<1>3. Unqueued'
  BY Zenon DEF IInv, TypeOK, Unqueued
<1>4. Outcomes'
  BY Zenon DEF IInv, TypeOK, Outcomes
<1>5. RowsAgree'
  BY Zenon DEF IInv, TypeOK, RowsAgree
<1>6. DeliveredWasAccepted'
  BY Zenon DEF IInv, TypeOK, DeliveredWasAccepted
<1>7. Unraced'
  BY Zenon DEF IInv, TypeOK, Unraced, UnracedAt
<1>8. Accounted'
  BY Zenon DEF IInv, TypeOK, Accounted, AccountedAt
<1>9. QED
  BY <1>1, <1>2, <1>3, <1>4, <1>5, <1>6, <1>7, <1>8, Zenon DEF IInv

\* Replay looks at the row.
LEMMA ReadDeliveryPreserves ==
    ASSUME IInv, NEW k \in Deliveries, readDelivery(k)
    PROVE  IInv'
<1> USE DEF readDelivery, Drained
<1>1. TypeOK'
  BY Zenon DEF IInv, TypeOK
<1>2. Batches'
  BY Zenon DEF IInv, TypeOK, Batches
<1>3. Unqueued'
  BY Zenon DEF IInv, TypeOK, Unqueued
<1>4. Outcomes'
  BY Zenon DEF IInv, TypeOK, Outcomes
<1>5. RowsAgree'
  BY Zenon DEF IInv, TypeOK, RowsAgree
<1>6. DeliveredWasAccepted'
  BY Zenon DEF IInv, TypeOK, DeliveredWasAccepted
<1>7. Unraced'
  BY DEF IInv, TypeOK, Unraced, UnracedAt
<1>8. Accounted'
  BY Zenon DEF IInv, TypeOK, Accounted, AccountedAt
<1>9. QED
  BY <1>1, <1>2, <1>3, <1>4, <1>5, <1>6, <1>7, <1>8, Zenon DEF IInv

\* Replay puts a row back that was not delivered.
LEMMA RequeuePreserves ==
    ASSUME IInv, requeue
    PROVE  IInv'
<1> USE DEF requeue
<1>1. TypeOK'
  BY Zenon DEF IInv, TypeOK
<1>2. Batches'
  BY Zenon DEF IInv, TypeOK, Batches
<1>3. Unqueued'
  BY Zenon DEF IInv, TypeOK, Unqueued
<1>4. Outcomes'
  BY Zenon DEF IInv, TypeOK, Outcomes
<1>5. RowsAgree'
  BY DEF IInv, TypeOK, RowsAgree
<1>6. DeliveredWasAccepted'
  BY Zenon DEF IInv, TypeOK, DeliveredWasAccepted
<1>7. Unraced'
  BY Zenon DEF IInv, TypeOK, Unraced, UnracedAt
<1>8. Accounted'
  BY Zenon DEF IInv, TypeOK, Unraced, UnracedAt, Accounted, AccountedAt
<1>9. QED
  BY <1>1, <1>2, <1>3, <1>4, <1>5, <1>6, <1>7, <1>8, Zenon DEF IInv

\* A replay that stops half way holds nothing any more.
LEMMA ReplayLostPreserves ==
    ASSUME IInv, replayLost
    PROVE  IInv'
<1> USE DEF replayLost
<1>1. TypeOK'
  BY DEF IInv, TypeOK
<1>2. Batches'
  BY Zenon DEF IInv, TypeOK, Batches
<1>3. Unqueued'
  BY Zenon DEF IInv, TypeOK, Unqueued
<1>4. Outcomes'
  BY Zenon DEF IInv, TypeOK, Outcomes
<1>5. RowsAgree'
  BY Zenon DEF IInv, TypeOK, RowsAgree
<1>6. DeliveredWasAccepted'
  BY Zenon DEF IInv, TypeOK, DeliveredWasAccepted
<1>7. Unraced'
  BY Zenon DEF IInv, TypeOK, Unraced, UnracedAt
<1>8. Accounted'
  BY Zenon DEF IInv, TypeOK, Accounted, AccountedAt
<1>9. QED
  BY <1>1, <1>2, <1>3, <1>4, <1>5, <1>6, <1>7, <1>8, Zenon DEF IInv

\* Endpoints change beside the rows.
LEMMA ChangePreserves ==
    ASSUME IInv, NEW e \in Endpoints, NEW to \in {"active", "paused", "deleted"}, change(e, to)
    PROVE  IInv'
<1> USE DEF change
<1>1. TypeOK'
  BY DEF IInv, TypeOK
<1>2. Batches'
  BY Zenon DEF IInv, TypeOK, Batches
<1>3. Unqueued'
  BY Zenon DEF IInv, TypeOK, Unqueued
<1>4. Outcomes'
  BY Zenon DEF IInv, TypeOK, Outcomes
<1>5. RowsAgree'
  BY Zenon DEF IInv, TypeOK, RowsAgree
<1>6. DeliveredWasAccepted'
  BY Zenon DEF IInv, TypeOK, DeliveredWasAccepted
<1>7. Unraced'
  BY Zenon DEF IInv, TypeOK, Unraced, UnracedAt
<1>8. Accounted'
  BY Zenon DEF IInv, TypeOK, Accounted, AccountedAt
<1>9. QED
  BY <1>1, <1>2, <1>3, <1>4, <1>5, <1>6, <1>7, <1>8, Zenon DEF IInv

-----------------------------------------------------------------------------
\* Nobody holds anything before the first event.
LEMMA InitEstablishes == Init => IInv
<1> SUFFICES ASSUME Init PROVE IInv
  BY Zenon
<1>1. Idle \in Results /\ Idle.status = "pending"
  BY Zenon DEF Idle, Row, Results
<1>2. TypeOK
  <2>1. faults \in Nat /\ replays \in Nat /\ edits \in Nat
    BY DEF Init
  <2>2. pc \in [Drainers -> {"off", "idle", "next", "post", "save"}] /\ status \in [Deliveries -> Status]
    BY SMT DEF Init
  <2>3. due \in SUBSET Deliveries
    BY Zenon DEF Init
  <2> QED
    BY <1>1, <2>1, <2>2, <2>3, Zenon DEF Init, TypeOK
<1>3. Batches /\ Unqueued /\ Outcomes /\ RowsAgree /\ DeliveredWasAccepted
  <2>1. \A d \in Drainers : pc[d] \in {"off", "idle"} /\ batch[d] = {} /\ result[d] = Idle
    BY Zenon DEF Init
  <2>2. Batches /\ Outcomes
    BY <1>1, <2>1, Zenon DEF Batches, Outcomes
  <2>3. \A k \in Deliveries : attempts[k] = 0 /\ status[k] \in {"none", "pending"}
    BY Zenon DEF Init
  <2>4. Unqueued /\ DeliveredWasAccepted
    BY <2>3, Zenon DEF Unqueued, DeliveredWasAccepted
  <2>5. 0 < MaxAttempts
    BY SMT
  <2> QED
    BY <2>2, <2>3, <2>4, <2>5, Zenon DEF RowsAgree
<1>4. Unraced
  BY Zenon DEF Init, Unraced, UnracedAt
<1>5. Accounted
  BY <1>1 DEF Init, Accounted, AccountedAt
<1>6. QED
  BY <1>2, <1>3, <1>4, <1>5, Zenon DEF IInv

\* Every action of the queue, the drainers, the operator and the owners of
\* endpoints preserves the invariant.
LEMMA NextPreserves == IInv /\ [Next]_vars => IInv'
<1> SUFFICES ASSUME IInv, [Next]_vars PROVE IInv'
  BY Zenon
<1>1. ASSUME NEW k \in Deliveries, Enqueue(k) PROVE IInv'
  BY <1>1, CreateRowPreserves, Zenon DEF Enqueue
<1>2. ASSUME NEW k \in Deliveries, Elapse(k) \/ Replay(k) PROVE IInv'
  BY <1>2, ElapsePreserves, ReplayPreserves, Zenon
<1>3. ASSUME NEW d \in Drainers, Drain(d) PROVE IInv'
  BY <1>3, FindDuePreserves, DrainedPreserves, AttemptPreserves, SavePreserves,
     ReadEndpointPreserves, EndpointGonePreserves, Zenon DEF Drain
<1>4. ASSUME NEW d \in Drainers, passLost(d) PROVE IInv'
  BY <1>4, PassLostPreserves, Zenon
<1>5. ASSUME NEW d \in Drainers, NEW k \in Deliveries, endpointUnread(d, k) PROVE IInv'
  BY <1>5, EndpointUnreadPreserves, Zenon
<1>6. ASSUME ReplayStep \/ replayLost PROVE IInv'
  BY <1>6, RequeuePreserves, ReadDeliveryPreserves, ReplayLostPreserves, Zenon DEF ReplayStep
<1>7. ASSUME NEW e \in Endpoints, ReplayEndpoint(e) PROVE IInv'
  BY <1>7, ReplayEndpointPreserves, Zenon
<1>8. ASSUME NEW e \in Endpoints, DeleteEndpoint(e) PROVE IInv'
  BY <1>8, ChangePreserves, Zenon DEF DeleteEndpoint
<1>9. ASSUME NEW e \in Endpoints, NEW a \in BOOLEAN, UpdateEndpoint(e, a) PROVE IInv'
  <2>1. PICK to \in {"active", "paused", "deleted"} : change(e, to)
    BY <1>9, Zenon DEF UpdateEndpoint
  <2>2. QED
    BY <2>1, ChangePreserves, Zenon
<1>10. ASSUME UNCHANGED vars PROVE IInv'
  BY <1>10 DEF vars, IInv, TypeOK, Batches, Unqueued, Outcomes, RowsAgree, DeliveredWasAccepted,
     Unraced, UnracedAt, Accounted, AccountedAt
<1>11. QED
  BY <1>1, <1>2, <1>3, <1>4, <1>5, <1>6, <1>7, <1>8, <1>9, <1>10, Zenon DEF Next, QueueNext

\* The invariant of the delivery rows holds in every state.
THEOREM Invariance == Spec => []IInv
<1>1. QED
  BY InitEstablishes, NextPreserves, PTL DEF Spec

-----------------------------------------------------------------------------
(* What the invariant gives.                                                 *)

\* Every column keeps its type, whatever DrainOnce, Replay and the endpoints do.
THEOREM TypeCorrect == Spec => []TypeOK
<1>1. IInv => TypeOK
  BY Zenon DEF IInv
<1>2. QED
  BY <1>1, Invariance, PTL

\* The columns of a row agree however many passes save stale copies of it.
THEOREM RowsCorrect == Spec => []RowsAgree
<1>1. IInv => RowsAgree
  BY Zenon DEF IInv
<1>2. QED
  BY <1>1, Invariance, PTL

\* A delivery is marked delivered only if its receiver took it.
THEOREM DeliveredCorrect == Spec => []DeliveredWasAccepted
<1>1. IInv => DeliveredWasAccepted
  BY Zenon DEF IInv
<1>2. QED
  BY <1>1, Invariance, PTL

\* The acceptances of an unraced row add up.
LEMMA Explained == IInv => DuplicatesAreExplained
<1> SUFFICES ASSUME IInv, NEW k \in Deliveries \ raced
             PROVE  accepted[k] = unconfirmed[k] + Held(k)
                                    + (IF status[k] = "delivered" THEN 1 ELSE 0)
  BY Zenon DEF DuplicatesAreExplained
<1>1. AccountedAt(k) /\ accepted[k] \in Nat /\ unconfirmed[k] \in Nat
  BY Zenon DEF IInv, TypeOK, Accounted
<1>2. CASE \A d \in Drainers : ~(result[d].status = "delivered" /\ result[d].key = k)
  BY <1>1, <1>2, HeldNone DEF AccountedAt
<1>3. ASSUME NEW d \in Drainers, result[d].status = "delivered", result[d].key = k
      PROVE  accepted[k] = unconfirmed[k] + Held(k)
                             + (IF status[k] = "delivered" THEN 1 ELSE 0)
  <2>1. k \in batch[d]
    BY <1>3, UnsavedInBatch, Zenon
  <2>2. Held(k) = 1
    BY <1>3, <2>1, OneHolder, HeldOne, Zenon
  <2>3. status[k] = "pending"
    BY <2>1, Zenon DEF IInv, Unraced, UnracedAt
  <2>4. QED
    BY <1>1, <1>3, <2>2, <2>3 DEF AccountedAt
<1>4. QED
  BY <1>2, <1>3, Zenon

\* A duplicate is explained by an unrecorded acceptance or by a race.
THEOREM DuplicatesCorrect == Spec => []DuplicatesAreExplained
<1>1. QED
  BY Explained, Invariance, PTL

\* Which steps write the status of a row.
LEMMA StatusSteps ==
    ASSUME Next
    PROVE  \/ status' = status
           \/ \E d \in Drainers : save(d)
           \/ requeue
           \/ \E j \in Deliveries : createRow(j)
  BY Zenon DEF Next, QueueNext, Enqueue, Elapse, Replay, Drain, findDue, pick, drained, Attempt,
     readEndpoint, endpointGone, endpointUnread, passLost, ReplayStep, readDelivery, replayLost,
     ReplayEndpoint, DeleteEndpoint, UpdateEndpoint, change

\* No step takes an unraced row out of "delivered".
LEMMA FinalStep ==
    ASSUME IInv, Next \/ (\E j \in Deliveries : createRow(j)),
           NEW k \in Deliveries \ raced', status[k] = "delivered"
    PROVE  status'[k] = "delivered"
<1>1. CASE status' = status
  BY <1>1, Zenon
<1>2. ASSUME NEW d \in Drainers, save(d) PROVE status'[k] = "delivered"
  <2>1. k \notin raced
    BY <1>2, Zenon DEF save, worldVars
  <2>2. k # result[d].key
    BY <1>2, <2>1 DEF save, IInv, Outcomes, Unraced, UnracedAt
  <2>3. QED
    BY <1>2, <2>2, Zenon DEF save, IInv, TypeOK
<1>3. ASSUME requeue PROVE status'[k] = "delivered"
  <2>1. k \notin raced
    BY <1>3, Zenon DEF requeue, worldVars
  <2>2. k # replaying
    BY <2>1, Zenon DEF IInv, Unraced, UnracedAt
  <2>3. QED
    BY <1>3, <2>2, Zenon DEF requeue, IInv, TypeOK
<1>4. ASSUME NEW j \in Deliveries, createRow(j) PROVE status'[k] = "delivered"
  BY <1>4, Zenon DEF createRow, IInv, TypeOK
<1>5. QED
  BY <1>1, <1>2, <1>3, <1>4, StatusSteps, Zenon

\* Delivered is final where only one actor held the row at a time.
THEOREM FinalCorrect == Spec => UnracedIsFinal
<1>1. ASSUME IInv, [Next]_vars
      PROVE  [\A k \in Deliveries \ raced' : status[k] = "delivered" => status'[k] = "delivered"]_vars
  BY <1>1, FinalStep, Zenon
<1>2. QED
  BY <1>1, Invariance, PTL DEF Spec, UnracedIsFinal

-----------------------------------------------------------------------------
(* The pipeline: its inductive invariant, in parts.                          *)

IntakeTypeOK ==
    /\ Stream!TypeOK
    /\ stage \in [Workers -> {"idle", "list", "create"}]
    /\ listed \in [Workers -> SUBSET Deliveries]
    /\ touched \subseteq Endpoints

\* A worker is in Enqueue exactly while its callback holds a message.
Callbacks == \A w \in Workers : stage[w] = "idle" <=> holding[w] = NoMessage

\* An endpoint nobody changed is as it was created.
Untouched == \A e \in Endpoints \ touched : endpoint[e] = "active"

\* A worker past the listing still has every row on its list that is missing.
Listed == \A w \in Workers : stage[w] = "create" =>
    \A k \in Deliveries : EventOf[k] = holding[w] /\ EndpointOf[k] \notin touched =>
        k \in listed[w] \/ status[k] # "none"

IntakeInv == IntakeTypeOK /\ Callbacks /\ Untouched /\ Listed /\ AckedIsQueued

PipelineInv == IInv /\ IntakeInv

-----------------------------------------------------------------------------
(* The queue in the composition.                                             *)

\* A fault of a worker is none of the queue's business.
LEMMA FaultPreserves ==
    ASSUME IInv, faults' \in Nat,
           UNCHANGED <<rowVars, drainVars, replayVars, worldVars, endpoint, edits>>
    PROVE  IInv'
<1> USE DEF rowVars, drainVars, replayVars, worldVars
<1>1. TypeOK'
  BY Zenon DEF IInv, TypeOK
<1>2. Batches' /\ Unqueued' /\ Outcomes' /\ RowsAgree' /\ DeliveredWasAccepted'
  BY Zenon DEF IInv, Batches, Unqueued, Outcomes, Agrees, RowsAgree, DeliveredWasAccepted
<1>3. Unraced' /\ Accounted'
  BY Zenon DEF IInv, Unraced, UnracedAt, Accounted, AccountedAt
<1> QED
  BY <1>1, <1>2, <1>3, Zenon DEF IInv

\* Rows are created, and never removed.
LEMMA RowsStay ==
    ASSUME IInv, Next \/ (\E j \in Deliveries : createRow(j)) \/ UNCHANGED status,
           NEW k \in Deliveries, status[k] # "none"
    PROVE  status'[k] # "none"
<1>1. ASSUME NEW d \in Drainers, save(d) PROVE status'[k] # "none"
  <2>1. result[d] \in Results /\ status \in [Deliveries -> Status]
    BY Zenon DEF IInv, TypeOK
  <2>2. result[d].status # "none"
    BY <2>1 DEF Results
  <2> QED
    BY <1>1, <2>1, <2>2, Zenon DEF save
<1>2. ASSUME requeue PROVE status'[k] # "none"
  BY <1>2, Zenon DEF requeue, IInv, TypeOK
<1>3. ASSUME NEW j \in Deliveries, createRow(j) PROVE status'[k] # "none"
  BY <1>3, Zenon DEF createRow, IInv, TypeOK
<1> QED
  BY <1>1, <1>2, <1>3, StatusSteps, Zenon

-----------------------------------------------------------------------------
(* Each step of the intake.                                                  *)

\* The stream's own steps: a message becomes available, or available again.
LEMMA StreamKeeps ==
    ASSUME IInv, IntakeInv, NEW m \in Messages, Publish(m) \/ AckWait(m)
    PROVE  IntakeInv'
<1> USE DEF IntakeInv, IntakeTypeOK
<1>1. PICK s \in {"waiting"} : /\ message' = [message EXCEPT ![m] = s]
                               /\ UNCHANGED <<holding, vars, stage, listed, touched>>
  BY Zenon DEF Publish, AckWait, Stream!Publish, Stream!AckWait
<1>2. UNCHANGED <<status, endpoint>>
  BY <1>1, Zenon DEF vars, rowVars
<1>3. IntakeTypeOK'
  BY <1>1, Zenon DEF Stream!TypeOK, Stream!MessageState
<1>4. Callbacks' /\ Untouched' /\ Listed'
  BY <1>1, <1>2, Zenon DEF Callbacks, Untouched, Listed
<1>5. AckedIsQueued'
  <2>1. \A n \in Messages : message'[n] = "acked" => message[n] = "acked"
    BY <1>1, Zenon DEF Stream!TypeOK
  <2> QED
    BY <1>1, <1>2, <2>1, PipelineAssumption, Zenon DEF AckedIsQueued
<1> QED
  BY <1>3, <1>4, <1>5, Zenon

\* A callback begins.
LEMMA ReceiveKeeps ==
    ASSUME IInv, IntakeInv, NEW w \in Workers, NEW m \in Messages, receive(w, m)
    PROVE  IntakeInv'
<1> USE DEF IntakeInv, IntakeTypeOK
<1>1. /\ message' = [message EXCEPT ![m] = "out"] /\ holding' = [holding EXCEPT ![w] = m]
      /\ stage' = [stage EXCEPT ![w] = "list"]
      /\ UNCHANGED <<status, endpoint, listed, touched>>
  BY Zenon DEF receive, Stream!Deliver, vars, rowVars
<1>2. IntakeTypeOK'
  BY <1>1, Zenon DEF Stream!TypeOK, Stream!MessageState
<1>3. Callbacks'
  BY <1>1, PipelineAssumption, Zenon DEF Callbacks, Stream!TypeOK
<1>4. Untouched' /\ Listed'
  BY <1>1, Zenon DEF Untouched, Listed, Stream!TypeOK
<1>5. AckedIsQueued'
  <2>1. \A n \in Messages : message'[n] = "acked" => message[n] = "acked"
    BY <1>1, Zenon DEF Stream!TypeOK
  <2> QED
    BY <1>1, <2>1, PipelineAssumption, Zenon DEF AckedIsQueued
<1> QED
  BY <1>2, <1>3, <1>4, <1>5, Zenon

\* The listing sees every endpoint that nobody changed.
LEMMA ListKeeps ==
    ASSUME IInv, IntakeInv, NEW w \in Workers, listEndpoints(w)
    PROVE  IntakeInv'
<1> USE DEF IntakeInv, IntakeTypeOK
<1> DEFINE found == {k \in Deliveries : EventOf[k] = holding[w] /\ endpoint[EndpointOf[k]] = "active"}
<1>1. /\ stage[w] = "list" /\ stage' = [stage EXCEPT ![w] = "create"]
      /\ listed' = [listed EXCEPT ![w] = found]
      /\ UNCHANGED <<status, endpoint, message, holding, touched>>
  BY Zenon DEF listEndpoints, vars, rowVars
<1>2. IntakeTypeOK'
  BY <1>1, Zenon DEF Stream!TypeOK
<1>3. Callbacks'
  BY <1>1, Zenon DEF Callbacks
<1>4. Untouched' /\ AckedIsQueued'
  BY <1>1, Zenon DEF Untouched, AckedIsQueued
<1>5. \A k \in Deliveries : EventOf[k] = holding[w] /\ EndpointOf[k] \notin touched => k \in found
  BY WebhookDrainAssumption, Zenon DEF Untouched
<1>6. Listed'
  BY <1>1, <1>5, Zenon DEF Listed
<1> QED
  BY <1>2, <1>3, <1>4, <1>6, Zenon

\* A row leaves the list once it exists.
LEMMA EnqueueKeeps ==
    ASSUME IInv, IntakeInv, NEW w \in Workers, NEW k \in Deliveries,
           enqueueRow(w, k) \/ enqueueDuplicate(w, k)
    PROVE  IntakeInv'
<1> USE DEF IntakeInv, IntakeTypeOK
<1>1. /\ listed' = [listed EXCEPT ![w] = @ \ {k}]
      /\ UNCHANGED <<endpoint, message, holding, stage, touched>>
  BY Zenon DEF enqueueRow, enqueueDuplicate, createRow, vars
<1>2. status'[k] # "none"
  BY Zenon DEF enqueueRow, enqueueDuplicate, createRow, vars, rowVars, IInv, TypeOK
<1>3. (\E j \in Deliveries : createRow(j)) \/ UNCHANGED status
  BY Zenon DEF enqueueRow, enqueueDuplicate, vars, rowVars
<1>4. \A j \in Deliveries : status[j] # "none" => status'[j] # "none"
  BY <1>3, RowsStay, Zenon
<1>5. IntakeTypeOK'
  BY <1>1, Zenon DEF Stream!TypeOK
<1>6. Callbacks' /\ Untouched'
  BY <1>1, Zenon DEF Callbacks, Untouched
<1>7. AckedIsQueued'
  BY <1>1, <1>4, Zenon DEF AckedIsQueued
<1>8. Listed'
  <2> SUFFICES ASSUME NEW v \in Workers, stage[v] = "create", NEW j \in Deliveries,
                      EventOf[j] = holding[v], EndpointOf[j] \notin touched
               PROVE  j \in listed'[v] \/ status'[j] # "none"
    BY <1>1, Zenon DEF Listed
  <2>1. j \in listed[v] \/ status[j] # "none"
    BY Zenon DEF Listed
  <2> QED
    BY <1>1, <1>2, <1>4, <2>1, Zenon
<1> QED
  BY <1>5, <1>6, <1>7, <1>8, Zenon

\* A callback returns, having acknowledged with nothing left to create, or not
\* having acknowledged.
LEMMA LeaveKeeps ==
    ASSUME IInv, IntakeInv, NEW w \in Workers, queued(w) \/ enqueueFails(w) \/ workerCrash(w)
    PROVE  IntakeInv'
<1> USE DEF IntakeInv, IntakeTypeOK
<1>1. /\ stage' = [stage EXCEPT ![w] = "idle"] /\ listed' = [listed EXCEPT ![w] = {}]
      /\ holding[w] # NoMessage /\ holding' = [holding EXCEPT ![w] = NoMessage]
      /\ UNCHANGED <<status, endpoint, touched>>
  BY Zenon DEF queued, enqueueFails, workerCrash, leave, Stream!Ack, Stream!Nak, Stream!Crash,
     Stream!Return, vars, rowVars
<1>2. holding[w] \in Messages
  BY <1>1, Zenon DEF Stream!TypeOK
<1>3. PICK s \in Stream!MessageState :
        /\ message' = [message EXCEPT ![holding[w]] = s]
        /\ s = "acked" => queued(w) \/ message[holding[w]] = "acked"
  <2>1. CASE queued(w)
    BY <2>1, Zenon DEF queued, Stream!Ack, Stream!Return, Stream!MessageState
  <2>2. CASE enqueueFails(w)
    BY <1>2, <2>2, Zenon DEF enqueueFails, Stream!Nak, Stream!Return, Stream!TypeOK, Stream!MessageState
  <2>3. CASE workerCrash(w)
    <3>1. message' = [message EXCEPT ![holding[w]] = message[holding[w]]]
      BY <1>2, <2>3 DEF workerCrash, Stream!Crash, Stream!TypeOK
    <3> QED
      BY <1>2, <3>1, Zenon DEF Stream!TypeOK
  <2> QED
    BY <2>1, <2>2, <2>3, Zenon
<1>4. IntakeTypeOK'
  BY <1>1, <1>2, <1>3, Zenon DEF Stream!TypeOK
<1>5. Callbacks' /\ Untouched' /\ Listed'
  BY <1>1, Zenon DEF Callbacks, Untouched, Listed, Stream!TypeOK
<1>6. AckedIsQueued'
  <2> SUFFICES ASSUME NEW k \in Deliveries, message'[EventOf[k]] = "acked", EndpointOf[k] \notin touched
               PROVE  status[k] # "none"
    BY <1>1, Zenon DEF AckedIsQueued
  <2>1. CASE message[EventOf[k]] = "acked"
    BY <2>1, Zenon DEF AckedIsQueued
  <2>2. CASE message[EventOf[k]] # "acked"
    <3>1. EventOf[k] = holding[w] /\ queued(w)
      BY <1>2, <1>3, <2>2, PipelineAssumption, Zenon DEF Stream!TypeOK
    <3> QED
      BY <3>1, Zenon DEF queued, Listed
  <2> QED
    BY <2>1, <2>2, Zenon
<1> QED
  BY <1>4, <1>5, <1>6, Zenon

\* A step of the queue.  Whoever changes an endpoint has touched it.
LEMMA QueueKeeps ==
    ASSUME IInv, IntakeInv, QueueNext, IInv',
           touched' = touched \cup {e \in Endpoints : endpoint'[e] # endpoint[e]},
           UNCHANGED <<message, holding, stage, listed>>
    PROVE  IntakeInv'
<1> USE DEF IntakeInv, IntakeTypeOK
<1>1. \A j \in Deliveries : status[j] # "none" => status'[j] # "none"
  BY RowsStay, Zenon DEF Next
<1>2. IntakeTypeOK'
  BY Zenon DEF Stream!TypeOK
<1>3. Callbacks' /\ Untouched'
  BY Zenon DEF Callbacks, Untouched
<1>4. Listed' /\ AckedIsQueued'
  BY <1>1, Zenon DEF Listed, AckedIsQueued
<1> QED
  BY <1>2, <1>3, <1>4, Zenon

-----------------------------------------------------------------------------
(* The composition.                                                          *)

\* The queue's invariant survives the intake.
LEMMA QueueInv == IInv /\ [PipelineNext]_pipelineVars => IInv'
<1> SUFFICES ASSUME IInv, [PipelineNext]_pipelineVars PROVE IInv'
  BY Zenon
<1>1. CASE UNCHANGED vars
  BY <1>1, NextPreserves, Zenon
<1>2. ASSUME NEW w \in Workers, NEW k \in Deliveries, enqueueRow(w, k) PROVE IInv'
  BY <1>2, CreateRowPreserves, Zenon DEF enqueueRow
<1>3. ASSUME NEW w \in Workers, enqueueFails(w) \/ workerCrash(w) PROVE IInv'
  <2>1. faults' \in Nat
    BY <1>3 DEF enqueueFails, workerCrash, IInv, TypeOK
  <2> QED
    BY <1>3, <2>1, FaultPreserves, Zenon DEF enqueueFails, workerCrash
<1>4. CASE QueueNext
  BY <1>4, NextPreserves, Zenon DEF Next
<1> QED
  BY <1>1, <1>2, <1>3, <1>4, Zenon DEF PipelineNext, pipelineVars, Publish, AckWait, receive, Intake,
     listEndpoints, enqueueDuplicate, queued

\* Every step keeps the invariant of the whole.
LEMMA PipelinePreserves == PipelineInv /\ [PipelineNext]_pipelineVars => PipelineInv'
<1> SUFFICES ASSUME IInv, IntakeInv, [PipelineNext]_pipelineVars PROVE IInv' /\ IntakeInv'
  BY Zenon DEF PipelineInv
<1>1. IInv'
  BY QueueInv, Zenon
<1>2. CASE UNCHANGED pipelineVars
  <2>1. UNCHANGED <<status, endpoint, message, holding, stage, listed, touched>>
    BY <1>2, Zenon DEF pipelineVars, intakeVars, vars, rowVars
  <2>2. IntakeTypeOK'
    BY <2>1, Zenon DEF IntakeInv, IntakeTypeOK, Stream!TypeOK
  <2>3. Callbacks' /\ Untouched' /\ Listed' /\ AckedIsQueued'
    BY <2>1, Zenon DEF IntakeInv, Callbacks, Untouched, Listed, AckedIsQueued
  <2> QED
    BY <1>1, <2>2, <2>3, Zenon DEF IntakeInv
<1>3. ASSUME NEW m \in Messages, Publish(m) \/ AckWait(m) PROVE IntakeInv'
  BY <1>3, StreamKeeps, Zenon
<1>4. ASSUME NEW m \in Messages, NEW w \in Workers, receive(w, m) PROVE IntakeInv'
  BY <1>4, ReceiveKeeps, Zenon
<1>5. ASSUME NEW w \in Workers, Intake(w) PROVE IntakeInv'
  BY <1>5, ListKeeps, LeaveKeeps, EnqueueKeeps, Zenon DEF Intake
<1>6. ASSUME NEW w \in Workers, enqueueFails(w) \/ workerCrash(w) PROVE IntakeInv'
  BY <1>6, LeaveKeeps, Zenon
<1>7. CASE /\ QueueNext
           /\ touched' = touched \cup {e \in Endpoints : endpoint'[e] # endpoint[e]}
           /\ UNCHANGED <<message, holding, stage, listed>>
  BY <1>1, <1>7, QueueKeeps, Zenon
<1> QED
  BY <1>1, <1>2, <1>3, <1>4, <1>5, <1>6, <1>7, Zenon DEF PipelineNext

\* From a published event to a settled delivery, the rows and the workers agree.
THEOREM PipelineInvariance == PipelineSpec => []PipelineInv
<1>1. PipelineInit => PipelineInv
  <2> SUFFICES ASSUME PipelineInit PROVE IInv /\ IntakeInv
    BY Zenon DEF PipelineInv
  <2>1. IInv
    BY InitEstablishes, Zenon DEF PipelineInit
  <2>2. IntakeTypeOK
    <3>1. message \in [Messages -> Stream!MessageState]
      BY SMT DEF PipelineInit, Stream!MessageState
    <3> QED
      BY <3>1, Zenon DEF PipelineInit, Stream!TypeOK, IntakeTypeOK
  <2>3. Callbacks /\ Untouched /\ Listed
    BY Zenon DEF PipelineInit, Init, Callbacks, Untouched, Listed
  <2>4. AckedIsQueued
    <3> SUFFICES ASSUME NEW k \in Deliveries, message[EventOf[k]] = "acked",
                        EndpointOf[k] \notin touched
                 PROVE  status[k] # "none"
      BY Zenon DEF AckedIsQueued
    <3>1. EndpointOf[k] \in Endpoints
      BY Zenon
    <3>2. endpoint[EndpointOf[k]] = "active"
      BY <3>1, Zenon DEF PipelineInit
    <3>3. status[k] = "pending"
      BY <3>2, Zenon DEF PipelineInit
    <3> QED
      BY <3>3
  <2> QED
    BY <2>1, <2>2, <2>3, <2>4, Zenon DEF IntakeInv
<1> QED
  BY <1>1, PipelinePreserves, PTL DEF PipelineSpec

-----------------------------------------------------------------------------
(* What the invariant gives.                                                 *)

\* Every variable of the stream, the workers and the queue keeps its type.
THEOREM PipelineTypes == PipelineSpec => []PipelineTypeOK
<1>1. PipelineInv => PipelineTypeOK
  BY Zenon DEF PipelineInv, IInv, IntakeInv, IntakeTypeOK, PipelineTypeOK
<1> QED
  BY <1>1, PipelineInvariance, PTL

\* An acknowledged event has its row for every endpoint that wanted it all along,
\* however Enqueue's calls of several workers, their crashes and the drain interleave.
THEOREM AckedQueued == PipelineSpec => []AckedIsQueued
<1>1. PipelineInv => AckedIsQueued
  BY Zenon DEF PipelineInv, IntakeInv
<1> QED
  BY <1>1, PipelineInvariance, PTL

\* Fed by the stream instead of by Enqueue alone, the queue keeps its promises: the
\* columns of a row agree, a delivered row was accepted, and duplicates are explained.
THEOREM QueueInPipeline ==
    PipelineSpec => [](RowsAgree /\ DeliveredWasAccepted /\ DuplicatesAreExplained)
<1>1. PipelineInv => RowsAgree /\ DeliveredWasAccepted /\ DuplicatesAreExplained
  BY Explained, Zenon DEF PipelineInv, IInv
<1> QED
  BY <1>1, PipelineInvariance, PTL

\* ... and delivered is final for the rows that only one actor held at a time.
THEOREM FinalInPipeline == PipelineSpec => UnracedIsFinal
<1>1. ASSUME PipelineInv, [PipelineNext]_pipelineVars
      PROVE  [\A k \in Deliveries \ raced' : status[k] = "delivered" => status'[k] = "delivered"]_vars
  <2>1. CASE UNCHANGED status
    BY <2>1, Zenon
  <2>2. CASE Next \/ \E j \in Deliveries : createRow(j)
    BY <1>1, <2>2, FinalStep, Zenon DEF PipelineInv
  <2> QED
    BY <1>1, <2>1, <2>2, Zenon DEF PipelineNext, pipelineVars, vars, rowVars, Next, Publish, AckWait,
       receive, Intake, listEndpoints, enqueueRow, enqueueDuplicate, queued, enqueueFails, workerCrash
<1> QED
  BY <1>1, PipelineInvariance, PTL DEF PipelineSpec, UnracedIsFinal
=============================================================================
