----------------------------- MODULE SagaProofs -----------------------------
(***************************************************************************)
(* Proofs about Saga, for every set of coordinators, every number of steps, *)
(* every choice of undoable steps and every number of crashes.              *)
(***************************************************************************)
EXTENDS Saga, TLAPS, WellFoundedInduction

-----------------------------------------------------------------------------
(* The inductive invariant, in parts.                                       *)

\* At most one coordinator is inside a call, and none before the saga began or
\* after it ended.
OneDriver ==
    /\ \A c, d \in Coordinators : pc[c] # "idle" /\ pc[d] # "idle" => c = d
    /\ head \in Terminal \cup {"none"} => Unattended

\* What a step's record says about its effect.
StepEffect == \A i \in Steps :
    /\ step[i] = "pending" => ~effect[i]
    /\ step[i] = "completed" => effect[i]
    /\ step[i] = "compensating" => i \in Undoable
    /\ step[i] = "compensated" /\ i \in Undoable => ~effect[i]
    /\ step[i] = "compensation_failed" => i \in Undoable /\ effect[i]

\* The completed steps are always the first ones.
Prefix == \A i, j \in Steps : i < j /\ step[j] = "completed" => step[i] = "completed"

\* What the head says about the steps.
HeadShape ==
    /\ head = "none" => \A i \in Steps : step[i] = "pending"
    /\ head \in {"none", "running"} =>
         /\ \A i \in Steps : step[i] \in {"pending", "running", "completed", "failed"}
         /\ \A i, j \in Steps : i < j /\ step[i] # "completed" => step[j] = "pending"
    /\ head \notin {"none", "running"} => \A i \in Steps : step[i] # "running"
    /\ head = "completed" => \A i \in Steps : step[i] = "completed"
    /\ head \in {"compensated", "failed"} => \A i \in Steps : step[i] # "completed"
    /\ head = "failed" => \E i \in Steps : step[i] = "compensation_failed"

\* A coordinator going forward stands at the first step not completed.
ForwardAt(c) ==
    /\ pc[c] \in Forward => head = "running"
    /\ pc[c] \in {"attempts", "running", "do", "completed", "failed"} =>
         /\ pos[c] \in Steps
         /\ step[pos[c]] # "completed"
         /\ \A j \in Steps : j < pos[c] => step[j] = "completed"
    /\ pc[c] \in {"do", "completed", "failed"} => step[pos[c]] = "running"
    /\ pc[c] = "completed" => effect[pos[c]]
    /\ pc[c] = "finish" => \A j \in Steps : step[j] = "completed"

\* A coordinator that turns back stands below the failed step, or at the top of
\* an unwind it resumes.
UnwindAt(c) ==
    pc[c] = "unwind" =>
        \/ /\ head = "running"
           /\ pos[c] \in 0..N-1
           /\ step[pos[c] + 1] = "failed"
           /\ \A j \in Steps : j <= pos[c] => step[j] = "completed"
        \/ head = "compensating" /\ pos[c] = N

\* A coordinator going backwards has nothing committed above it.
BackwardAt(c) ==
    /\ pc[c] \in Backward =>
         /\ head = "compensating"
         /\ \A j \in Steps : j > pos[c] => step[j] # "completed"
    /\ pc[c] \in Backward \ {"settle"} => pos[c] \in Steps
    /\ pc[c] = "settle" => pos[c] = 0
    /\ pc[c] \in {"nothing", "compensating"} => step[pos[c]] = "completed"
    /\ pc[c] = "nothing" => pos[c] \notin Undoable
    /\ pc[c] \in {"undo", "compensated", "compensation_failed"} =>
         /\ step[pos[c]] = "compensating"
         /\ \A j \in Steps : j < pos[c] => step[j] = "completed"
         /\ effect[pos[c]] = (pc[c] # "compensated")
    /\ pc[c] = "compensating" => pos[c] \in Undoable
    /\ pc[c] = "compensation_failed" => failures[c]
    /\ failures[c] => pc[c] \in Backward
    /\ failures[c] /\ pc[c] # "compensation_failed" =>
         \E i \in Steps : step[i] = "compensation_failed"

\* The attempts of the step about to be entered are one ahead of its entries.
Counted ==
    /\ \A i \in Steps : entered[i] <= attempts[i]
    /\ \A c \in Coordinators :
         /\ pc[c] = "running" => seen[c] = attempts[pos[c]]
         /\ pc[c] = "do" => entered[pos[c]] < attempts[pos[c]]

\* Without a crash a begun saga stays attended, a failed step has no effect, and
\* what an unwind leaves behind is in the list of failures of its call.
Clean == crashes = 0 =>
    /\ head \in {"running", "compensating"} => ~Unattended
    /\ \A i \in Steps : step[i] = "failed" => ~effect[i]
    /\ \A c \in Coordinators :
         /\ pc[c] # "resume"
         /\ pc[c] = "unwind" => head = "running"
         /\ pc[c] \in {"attempts", "running", "do", "failed"} => ~effect[pos[c]]
         /\ pc[c] # "idle" => \A i \in Steps :
              /\ step[i] = "compensating" =>
                   pos[c] = i /\ pc[c] \in {"undo", "compensated", "compensation_failed"}
              /\ step[i] = "compensation_failed" => failures[c]
    /\ head = "compensated" =>
         \A i \in Steps : step[i] \notin {"compensating", "compensation_failed"}

IInv ==
    /\ TypeOK
    /\ OneDriver
    /\ StepEffect
    /\ Prefix
    /\ HeadShape
    /\ \A c \in Coordinators : ForwardAt(c) /\ UnwindAt(c) /\ BackwardAt(c)
    /\ Counted
    /\ Clean
-----------------------------------------------------------------------------
(* The invariant is inductive.                                              *)

USE SagaAssumption DEF Steps, SagaStatus, Terminal, StepStatus, Forward, Backward,
    Labels, rows, world, Goto, Return, markStep, markSaga, DriveFrom, UnwindFrom

\* Every set of naturals that is not empty has a least element.
LEMMA LeastNatural ==
    ASSUME NEW T, T \subseteq Nat, T # {}
    PROVE  \E x \in T : \A y \in T : x <= y
<1>1. PICK x \in T : \A y \in T : ~(<<y, x>> \in OpToRel(<, Nat))
  BY NatLessThanWellFounded, WFMin, Zenon
<1>2. ASSUME NEW y \in T PROVE ~(y < x)
  BY <1>1, <1>2, Zenon DEF OpToRel
<1>3. QED
  BY <1>2

\* RecoverSaga's resume position exists: a first step that is not completed, or
\* one past the last step.
LEMMA ResumePosition ==
    /\ Resume \in 1..N+1
    /\ Resume \in Steps => step[Resume] # "completed"
    /\ \A j \in Steps : j < Resume => step[j] = "completed"
<1> DEFINE T == {i \in 1..N+1 : i \in Steps => step[i] # "completed"}
<1>1. N + 1 \in T /\ T \subseteq Nat
  OBVIOUS
<1>2. PICK x \in T : \A y \in T : x <= y
  BY <1>1, LeastNatural, Zenon
<1>3. \A j \in 1..x-1 : step[j] = "completed"
  BY <1>2
<1>4. \E i \in 1..N+1 : /\ i \in Steps => step[i] # "completed"
                        /\ \A j \in 1..i-1 : step[j] = "completed"
  BY <1>2, <1>3, Zenon
<1>5. /\ Resume \in 1..N+1
      /\ Resume \in Steps => step[Resume] # "completed"
      /\ \A j \in 1..Resume-1 : step[j] = "completed"
  BY <1>4, Zenon DEF Resume
<1>6. QED
  BY <1>5

\* When coordinator c moves, every other one is idle and stays so: what holds of
\* c after the step is all there is to show.
LEMMA OthersIdle ==
    ASSUME IInv, NEW c \in Coordinators, pc[c] # "idle" \/ Unattended,
           \A d \in Coordinators \ {c} : pc'[d] = pc[d] /\ failures'[d] = failures[d],
           ForwardAt(c)', UnwindAt(c)', BackwardAt(c)'
    PROVE  \A d \in Coordinators : (ForwardAt(d) /\ UnwindAt(d) /\ BackwardAt(d))'
<1> TAKE d \in Coordinators
<1>1. CASE d = c
  BY <1>1, Zenon
<1>2. CASE d # c
  <2>0. pc[d] = "idle"
    BY <1>2, Zenon DEF IInv, OneDriver, Unattended
  <2>1. pc[d] = "idle" /\ ~failures[d]
    BY <2>0, Zenon DEF IInv, BackwardAt
  <2>2. pc'[d] = "idle" /\ ~failures'[d]
    BY <2>1, <1>2, Zenon
  <2>3. QED
    BY <2>2, Zenon DEF ForwardAt, UnwindAt, BackwardAt
<1>3. QED
  BY <1>1, <1>2, Zenon

LEMMA BeginSagaPreserves ==
    ASSUME IInv, NEW c \in Coordinators, beginSaga(c)
    PROVE  IInv'
<1> USE DEF beginSaga
<1>1. TypeOK'
  BY DEF IInv, TypeOK
<1>2. OneDriver'
  BY Zenon DEF IInv, TypeOK, OneDriver, Unattended
<1>3. StepEffect' /\ Prefix'
  BY Zenon DEF IInv, TypeOK, StepEffect, Prefix
<1>4. HeadShape'
  BY Zenon DEF IInv, TypeOK, HeadShape
<1>5. ForwardAt(c)'
  BY DEF IInv, TypeOK, HeadShape, ForwardAt
<1>6. UnwindAt(c)'
  BY Zenon DEF IInv, TypeOK, UnwindAt
<1>7. BackwardAt(c)'
  BY Zenon DEF IInv, TypeOK, BackwardAt
<1>8. Counted'
  BY Zenon DEF IInv, TypeOK, Counted
<1>9. Clean'
  BY DEF IInv, Unattended, TypeOK, StepEffect, HeadShape, Clean
<1>10. QED
  BY <1>1, <1>2, <1>3, <1>4, <1>5, <1>6, <1>7, <1>8, <1>9, OthersIdle, Zenon DEF IInv,
     TypeOK, OneDriver

LEMMA ReadAttemptsPreserves ==
    ASSUME IInv, NEW c \in Coordinators, readAttempts(c)
    PROVE  IInv'
<1> USE DEF readAttempts
<1>1. TypeOK'
  BY Zenon DEF IInv, TypeOK, ForwardAt
<1>2. OneDriver'
  BY DEF IInv, TypeOK, OneDriver, ForwardAt
<1>3. StepEffect' /\ Prefix'
  BY Zenon DEF IInv, TypeOK, StepEffect, Prefix
<1>4. HeadShape'
  BY Zenon DEF IInv, TypeOK, HeadShape
<1>5. ForwardAt(c)'
  BY Zenon DEF IInv, TypeOK, ForwardAt
<1>6. UnwindAt(c)'
  BY Zenon DEF IInv, TypeOK, UnwindAt
<1>7. BackwardAt(c)'
  BY Zenon DEF IInv, TypeOK, BackwardAt
<1>8. Counted'
  BY Zenon DEF IInv, TypeOK, Counted
<1>9. Clean'
  BY DEF IInv, Unattended, TypeOK, Clean
<1>10. QED
  BY <1>1, <1>2, <1>3, <1>4, <1>5, <1>6, <1>7, <1>8, <1>9, OthersIdle, Zenon DEF IInv, TypeOK

LEMMA MarkStepRunningPreserves ==
    ASSUME IInv, NEW c \in Coordinators, markStepRunning(c)
    PROVE  IInv'
<1> USE DEF markStepRunning
<1>1. TypeOK'
  BY DEF IInv, TypeOK, ForwardAt
<1>2. OneDriver'
  BY DEF IInv, TypeOK, OneDriver, ForwardAt
<1>3. StepEffect' /\ Prefix'
  BY Zenon DEF IInv, TypeOK, StepEffect, Prefix, ForwardAt
<1>4. HeadShape'
  BY DEF IInv, TypeOK, HeadShape, ForwardAt
<1>5. ForwardAt(c)'
  BY Zenon DEF IInv, TypeOK, ForwardAt
<1>6. UnwindAt(c)'
  BY Zenon DEF IInv, TypeOK, UnwindAt
<1>7. BackwardAt(c)'
  BY Zenon DEF IInv, TypeOK, BackwardAt
<1>8. Counted'
  <2>1. pos[c] \in Steps /\ entered \in [Steps -> Nat] /\ attempts \in [Steps -> Nat]
    BY Zenon DEF IInv, TypeOK, ForwardAt
  <2>2. \A d \in Coordinators : d # c => pc'[d] = "idle"
    BY Zenon DEF IInv, TypeOK, OneDriver
  <2>3. attempts'[pos[c]] = attempts[pos[c]] + 1
    BY <2>1, Zenon DEF IInv, TypeOK, Counted
  <2>4. /\ \A i \in Steps : entered'[i] <= attempts'[i]
        /\ pc'[c] = "do" /\ pos' = pos /\ entered'[pos[c]] < attempts'[pos[c]]
    BY <2>1, <2>3 DEF IInv, TypeOK, Counted
  <2>5. QED
    BY <2>2, <2>3, <2>4, Zenon DEF Counted
<1>9. Clean'
  BY DEF IInv, Unattended, TypeOK, Clean
<1>10. QED
  BY <1>1, <1>2, <1>3, <1>4, <1>5, <1>6, <1>7, <1>8, <1>9, OthersIdle, Zenon DEF IInv, TypeOK

LEMMA DoPreserves ==
    ASSUME IInv, NEW c \in Coordinators, Do(c)
    PROVE  IInv'
<1> USE DEF Do
<1>1. TypeOK'
  BY DEF IInv, TypeOK, ForwardAt, UnwindAt
<1>2. OneDriver'
  BY DEF IInv, TypeOK, OneDriver, ForwardAt
<1>3. StepEffect' /\ Prefix'
  BY Zenon DEF IInv, TypeOK, StepEffect, Prefix, ForwardAt
<1>4. HeadShape'
  BY Zenon DEF IInv, TypeOK, HeadShape
<1>5. ForwardAt(c)'
  BY Zenon DEF IInv, TypeOK, ForwardAt
<1>6. UnwindAt(c)'
  BY Zenon DEF IInv, TypeOK, UnwindAt
<1>7. BackwardAt(c)'
  BY Zenon DEF IInv, TypeOK, BackwardAt
<1>8. Counted'
  <2>1. pos[c] \in Steps /\ entered \in [Steps -> Nat] /\ attempts \in [Steps -> Nat]
    BY Zenon DEF IInv, TypeOK, ForwardAt
  <2>2. \A d \in Coordinators : d # c => pc'[d] = "idle"
    BY Zenon DEF IInv, TypeOK, OneDriver
  <2>3. entered[pos[c]] < attempts[pos[c]]
    BY Zenon DEF IInv, Counted
  <2>4. /\ \A i \in Steps : entered'[i] <= attempts'[i]
        /\ pc'[c] \in {"completed", "failed"}
    BY <2>1, <2>3 DEF IInv, TypeOK, Counted
  <2>5. QED
    BY <2>2, <2>3, <2>4, Zenon DEF Counted
<1>9. Clean'
  <2>1. pos[c] \in Steps /\ step[pos[c]] = "running" /\ head = "running"
    BY Zenon DEF IInv, ForwardAt, Forward
  <2>2. /\ pc'[c] = "completed" /\ \A d \in Coordinators : d # c => pc'[d] = "idle"
        /\ \A i \in Steps : i # pos[c] => effect'[i] = effect[i]
    BY <2>1, Zenon DEF IInv, TypeOK, OneDriver, Goto
  <2>3. UNCHANGED <<head, step, pos, failures, crashes>>
    BY Zenon DEF rows
  <2>4. /\ "completed" # "idle" /\ "completed" \notin {"attempts", "running", "do", "failed"}
        /\ "completed" # "resume" /\ "completed" # "unwind" /\ "running" # "failed"
        /\ "running" # "compensating" /\ "idle" # "resume" /\ "idle" # "unwind"
        /\ "idle" \notin {"attempts", "running", "do", "failed"} /\ "running" # "compensated"
        /\ "do" # "idle" /\ "do" \notin {"undo", "compensated", "compensation_failed"}
    OBVIOUS
  <2>5. ~Unattended'
    BY <2>2, <2>4, Zenon DEF Unattended
  <2>6. crashes = 0 => \A i \in Steps : step'[i] = "failed" => ~effect'[i]
    <3>1. crashes = 0 => \A i \in Steps : step[i] = "failed" => ~effect[i]
      BY Zenon DEF IInv, Clean
    <3>2. \A i \in Steps : step'[i] = "failed" => i # pos[c] /\ step[i] = "failed"
      BY <2>1, <2>3, <2>4, Zenon
    <3>3. QED
      BY <2>2, <3>1, <3>2, Zenon
  <2>7. crashes = 0 => \A i \in Steps :
            step[i] # "compensating" /\ (step[i] = "compensation_failed" => failures[c])
    BY <2>4, Zenon DEF IInv, Clean
  <2>8. ASSUME crashes = 0, NEW d \in Coordinators
        PROVE  /\ pc'[d] # "resume" /\ pc'[d] # "unwind"
               /\ pc'[d] \notin {"attempts", "running", "do", "failed"}
               /\ pc'[d] # "idle" => \A i \in Steps :
                      step'[i] # "compensating" /\ (step'[i] = "compensation_failed" => failures'[d])
    BY <2>2, <2>3, <2>4, <2>7, <2>8, Zenon
  <2>9. QED
    BY <2>1, <2>3, <2>4, <2>5, <2>6, <2>8, Zenon DEF Clean
<1>10. QED
  BY <1>1, <1>2, <1>3, <1>4, <1>5, <1>6, <1>7, <1>8, <1>9, OthersIdle, Zenon DEF IInv, TypeOK

LEMMA DoFailsPreserves ==
    ASSUME IInv, NEW c \in Coordinators, DoFails(c)
    PROVE  IInv'
<1> USE DEF DoFails
<1>1. TypeOK'
  BY DEF IInv, TypeOK, ForwardAt, BackwardAt
<1>2. OneDriver'
  BY DEF IInv, TypeOK, OneDriver, ForwardAt
<1>3. StepEffect' /\ Prefix'
  BY Zenon DEF IInv, TypeOK, StepEffect, Prefix
<1>4. HeadShape'
  BY Zenon DEF IInv, TypeOK, HeadShape
<1>5. ForwardAt(c)'
  BY Zenon DEF IInv, TypeOK, ForwardAt
<1>6. UnwindAt(c)'
  BY Zenon DEF IInv, TypeOK, UnwindAt
<1>7. BackwardAt(c)'
  BY Zenon DEF IInv, TypeOK, BackwardAt
<1>8. Counted'
  <2>1. pos[c] \in Steps /\ entered \in [Steps -> Nat] /\ attempts \in [Steps -> Nat]
    BY Zenon DEF IInv, TypeOK, ForwardAt
  <2>2. \A d \in Coordinators : d # c => pc'[d] = "idle"
    BY Zenon DEF IInv, TypeOK, OneDriver
  <2>3. entered[pos[c]] < attempts[pos[c]]
    BY Zenon DEF IInv, Counted
  <2>4. /\ \A i \in Steps : entered'[i] <= attempts'[i]
        /\ pc'[c] \in {"completed", "failed"}
    BY <2>1, <2>3 DEF IInv, TypeOK, Counted
  <2>5. QED
    BY <2>2, <2>3, <2>4, Zenon DEF Counted
<1>9. Clean'
  BY DEF IInv, Unattended, TypeOK, Clean
<1>10. QED
  BY <1>1, <1>2, <1>3, <1>4, <1>5, <1>6, <1>7, <1>8, <1>9, OthersIdle, Zenon DEF IInv, TypeOK

LEMMA MarkCompletedPreserves ==
    ASSUME IInv, NEW c \in Coordinators, markCompleted(c)
    PROVE  IInv'
<1> USE DEF markCompleted
<1>1. TypeOK'
  BY DEF IInv, TypeOK, ForwardAt, UnwindAt
<1>2. OneDriver'
  BY DEF IInv, TypeOK, OneDriver, ForwardAt
<1>3. StepEffect' /\ Prefix'
  <2>1. StepEffect'
    BY Zenon DEF IInv, TypeOK, StepEffect, ForwardAt
  <2>2. Prefix'
    BY DEF IInv, TypeOK, Prefix, ForwardAt
  <2>3. QED
    BY <2>1, <2>2, Zenon
<1>4. HeadShape'
  BY DEF IInv, TypeOK, HeadShape, ForwardAt
<1>5. ForwardAt(c)'
  <2>1. /\ pos[c] \in Steps /\ step[pos[c]] = "running"
        /\ head = "running" /\ head' = "running"
        /\ \A j \in Steps : j < pos[c] => step[j] = "completed"
    BY Zenon DEF IInv, ForwardAt
  <2>2. \A j \in Steps : j <= pos[c] => step'[j] = "completed"
    BY <2>1 DEF IInv, TypeOK
  <2>3. \A j \in Steps : j > pos[c] => step'[j] = "pending"
    BY <2>1, Zenon DEF IInv, TypeOK, HeadShape
  <2>4. /\ pos'[c] = pos[c] + 1
        /\ pc'[c] = IF pos[c] + 1 > N THEN "finish" ELSE "attempts"
    BY Zenon DEF IInv, TypeOK
  <2>5. CASE pos[c] + 1 > N
    BY <2>1, <2>2, <2>4, <2>5 DEF ForwardAt
  <2>6. CASE pos[c] + 1 <= N
    <3>1. pos'[c] \in Steps /\ step'[pos'[c]] = "pending" /\ pc'[c] = "attempts"
      BY <2>1, <2>3, <2>4, <2>6
    <3>2. \A j \in Steps : j < pos'[c] => step'[j] = "completed"
      BY <2>1, <2>2, <2>4
    <3>3. QED
      BY <2>1, <3>1, <3>2, Zenon DEF ForwardAt
  <2>7. QED
    BY <2>1, <2>5, <2>6
<1>6. UnwindAt(c)'
  BY Zenon DEF IInv, TypeOK, UnwindAt
<1>7. BackwardAt(c)'
  BY Zenon DEF IInv, TypeOK, BackwardAt
<1>8. Counted'
  BY Zenon DEF IInv, TypeOK, Counted
<1>9. Clean'
  <2> SUFFICES ASSUME crashes = 0 PROVE Clean'
    BY Zenon DEF Clean
  <2>1. /\ pos[c] \in Steps /\ head = "running" /\ head' = "running"
        /\ pos'[c] = pos[c] + 1 /\ pc'[c] \in {"finish", "attempts"}
        /\ \A d \in Coordinators \ {c} : pc[d] = "idle" /\ pc'[d] = "idle"
    BY DEF IInv, TypeOK, ForwardAt, OneDriver
  <2>2. ~Unattended'
    BY <2>1, Zenon DEF Unattended
  <2>3. \A i \in Steps :
          /\ step'[i] \in {"pending", "running", "completed", "failed"}
          /\ step'[i] = "failed" => ~effect'[i]
    BY DEF IInv, TypeOK, HeadShape, ForwardAt, Clean
  <2>4. pc'[c] = "attempts" => ~effect'[pos'[c]]
    <3> SUFFICES ASSUME pc'[c] = "attempts" PROVE ~effect[pos[c] + 1]
      BY <2>1, Zenon
    <3>1. pos[c] + 1 \in Steps
      BY <2>1 DEF IInv, TypeOK
    <3>2. step[pos[c] + 1] = "pending"
      BY <2>1, <3>1 DEF IInv, HeadShape, ForwardAt
    <3>3. QED
      BY <3>1, <3>2, Zenon DEF IInv, StepEffect
  <2>5. \A d \in Coordinators :
          /\ pc'[d] \notin {"resume", "unwind"}
          /\ pc'[d] \in {"attempts", "running", "do", "failed"} => ~effect'[pos'[d]]
    BY <2>1, <2>4, Zenon
  <2>6. QED
    BY <2>1, <2>2, <2>3, <2>5, Zenon DEF Clean
<1>10. QED
  BY <1>1, <1>2, <1>3, <1>4, <1>5, <1>6, <1>7, <1>8, <1>9, OthersIdle, Zenon DEF IInv, TypeOK

LEMMA MarkFailedPreserves ==
    ASSUME IInv, NEW c \in Coordinators, markFailed(c)
    PROVE  IInv'
<1> USE DEF markFailed
<1>1. TypeOK'
  <2>1. pos[c] \in 1..N
    BY Zenon DEF IInv, ForwardAt
  <2>2. pos[c] - 1 \in 0..N+1
    BY <2>1
  <2>3. QED
    BY <2>1, <2>2, Zenon DEF IInv, TypeOK
<1>2. OneDriver'
  BY DEF IInv, TypeOK, OneDriver, ForwardAt
<1>3. StepEffect' /\ Prefix'
  BY Zenon DEF IInv, TypeOK, StepEffect, Prefix, ForwardAt
<1>0. /\ pos[c] \in Steps /\ head = "running" /\ head' = "running"
      /\ step[pos[c]] = "running"
      /\ \A j \in Steps : j < pos[c] => step[j] = "completed"
  BY Zenon DEF IInv, ForwardAt
<1>s. /\ step'[pos[c]] = "failed"
      /\ \A j \in Steps : j # pos[c] => step'[j] = step[j]
  BY <1>0, Zenon DEF IInv, TypeOK
<1>4. HeadShape'
  <2>1. \A i \in Steps : step'[i] \in {"pending", "running", "completed", "failed"}
    BY <1>0, <1>s, Zenon DEF IInv, HeadShape
  <2>2. ASSUME NEW i \in Steps, NEW j \in Steps, i < j, step'[i] # "completed"
        PROVE  step'[j] = "pending"
    <3>1. step[i] # "completed"
      BY <1>0, <1>s, <2>2, Zenon
    <3>2. j # pos[c]
      BY <1>0, <2>2, <3>1, Zenon
    <3>3. QED
      BY <1>0, <1>s, <2>2, <3>1, <3>2, Zenon DEF IInv, HeadShape
  <2>3. QED
    BY <1>0, <2>1, <2>2, Zenon DEF HeadShape
<1>5. ForwardAt(c)'
  BY Zenon DEF IInv, TypeOK, ForwardAt
<1>6. UnwindAt(c)'
  <2>1. pos'[c] = pos[c] - 1 /\ pos'[c] \in 0..N-1 /\ pos'[c] + 1 = pos[c]
    BY <1>0 DEF IInv, TypeOK
  <2>2. step'[pos'[c] + 1] = "failed"
    BY <1>s, <2>1, Zenon
  <2>3. \A j \in Steps : j <= pos'[c] => step'[j] = "completed"
    BY <1>0, <1>s, <2>1
  <2>4. QED
    BY <1>0, <2>1, <2>2, <2>3, Zenon DEF UnwindAt
<1>7. BackwardAt(c)'
  BY Zenon DEF IInv, TypeOK, BackwardAt
<1>8. Counted'
  BY Zenon DEF IInv, TypeOK, Counted
<1>9. Clean'
  BY DEF IInv, Unattended, TypeOK, OneDriver, StepEffect, HeadShape, ForwardAt,
     UnwindAt, BackwardAt, Clean
<1>10. QED
  BY <1>1, <1>2, <1>3, <1>4, <1>5, <1>6, <1>7, <1>8, <1>9, OthersIdle, Zenon DEF IInv, TypeOK

LEMMA FinishPreserves ==
    ASSUME IInv, NEW c \in Coordinators, finish(c)
    PROVE  IInv'
<1> USE DEF finish
<1>1. TypeOK'
  BY DEF IInv, TypeOK, BackwardAt
<1>2. OneDriver'
  BY Zenon DEF IInv, TypeOK, OneDriver, Unattended
<1>3. StepEffect' /\ Prefix'
  BY Zenon DEF IInv, TypeOK, StepEffect, Prefix
<1>4. HeadShape'
  BY Zenon DEF IInv, TypeOK, HeadShape, ForwardAt
<1>5. ForwardAt(c)'
  BY Zenon DEF IInv, TypeOK, ForwardAt
<1>6. UnwindAt(c)'
  BY Zenon DEF IInv, TypeOK, UnwindAt
<1>7. BackwardAt(c)'
  BY Zenon DEF IInv, TypeOK, BackwardAt
<1>8. Counted'
  BY Zenon DEF IInv, TypeOK, Counted
<1>9. Clean'
  <2>1. head' = "completed" /\ (\A i \in Steps : step'[i] = "completed")
    BY Zenon DEF IInv, ForwardAt
  <2>2. \A d \in Coordinators : pc'[d] = "idle"
    BY Zenon DEF IInv, TypeOK, OneDriver
  <2>3. QED
    BY <2>1, <2>2, Zenon DEF Clean
<1>10. QED
  BY <1>1, <1>2, <1>3, <1>4, <1>5, <1>6, <1>7, <1>8, <1>9, OthersIdle, Zenon DEF IInv, TypeOK

LEMMA BeginCompensatePreserves ==
    ASSUME IInv, NEW c \in Coordinators, beginCompensate(c)
    PROVE  IInv'
<1> USE DEF beginCompensate
<1>1. TypeOK'
  BY Zenon DEF IInv, TypeOK
<1>2. OneDriver'
  BY Zenon DEF IInv, TypeOK, OneDriver
<1>3. StepEffect' /\ Prefix'
  BY Zenon DEF IInv, TypeOK, StepEffect, Prefix
<1>4. HeadShape'
  <2>1. \A i \in Steps : step[i] # "running"
    <3>1. CASE head = "running"
      <4>1. PICK p \in 0..N-1 : /\ step[p + 1] = "failed"
                               /\ \A j \in Steps : j <= p => step[j] = "completed"
        BY <3>1, Zenon DEF IInv, UnwindAt
      <4>2. \A j \in Steps : j > p + 1 => step[j] = "pending"
        BY <3>1, <4>1 DEF IInv, HeadShape
      <4>3. QED
        BY <4>1, <4>2
    <3>2. CASE head = "compensating"
      BY <3>2, Zenon DEF IInv, HeadShape
    <3>3. QED
      BY <3>1, <3>2, Zenon DEF IInv, UnwindAt
  <2>2. QED
    BY <2>1, Zenon DEF HeadShape
<1>5. ForwardAt(c)'
  BY Zenon DEF IInv, TypeOK, ForwardAt
<1>6. UnwindAt(c)'
  BY Zenon DEF IInv, TypeOK, UnwindAt
<1>7. BackwardAt(c)'
  <2>1. \A j \in Steps : j > pos[c] => step[j] # "completed"
    <3>1. CASE head = "running"
      <4>1. /\ pos[c] \in 0..N-1 /\ pos[c] + 1 \in Steps
            /\ step[pos[c] + 1] = "failed"
        BY <3>1 DEF IInv, UnwindAt
      <4>2. \A j \in Steps : j > pos[c] + 1 => step[j] = "pending"
        BY <3>1, <4>1, Zenon DEF IInv, HeadShape
      <4>3. QED
        BY <4>1, <4>2
    <3>2. CASE pos[c] = N
      BY <3>2
    <3>3. QED
      BY <3>1, <3>2, Zenon DEF IInv, UnwindAt
  <2>2. pos[c] \in 0..N /\ ~failures[c]
    BY DEF IInv, UnwindAt, BackwardAt
  <2>3. /\ pc'[c] = IF pos[c] = 0 THEN "settle" ELSE "status"
        /\ pos'[c] = pos[c]
        /\ ~failures'[c]
    BY <2>2, Zenon DEF IInv, TypeOK
  <2>4. QED
    BY <2>1, <2>2, <2>3 DEF BackwardAt
<1>8. Counted'
  BY Zenon DEF IInv, TypeOK, Counted
<1>9. Clean'
  BY DEF IInv, Unattended, TypeOK, OneDriver, HeadShape, ForwardAt, BackwardAt, Clean
<1>10. QED
  BY <1>1, <1>2, <1>3, <1>4, <1>5, <1>6, <1>7, <1>8, <1>9, OthersIdle, Zenon DEF IInv, TypeOK

LEMMA SkipStepPreserves ==
    ASSUME IInv, NEW c \in Coordinators, skipStep(c)
    PROVE  IInv'
<1> USE DEF skipStep
<1>1. TypeOK'
  BY DEF IInv, TypeOK, ForwardAt, UnwindAt, BackwardAt
<1>2. OneDriver'
  BY DEF IInv, TypeOK, OneDriver, BackwardAt
<1>3. StepEffect' /\ Prefix'
  BY Zenon DEF IInv, TypeOK, StepEffect, Prefix
<1>4. HeadShape'
  BY Zenon DEF IInv, TypeOK, HeadShape
<1>5. ForwardAt(c)'
  BY Zenon DEF IInv, TypeOK, ForwardAt
<1>6. UnwindAt(c)'
  BY Zenon DEF IInv, TypeOK, UnwindAt
<1>7. BackwardAt(c)'
  <2>1. /\ pos[c] \in Steps /\ head = "compensating" /\ step[pos[c]] # "completed"
        /\ \A j \in Steps : j > pos[c] => step[j] # "completed"
    BY Zenon DEF IInv, BackwardAt
  <2>2. pos'[c] = pos[c] - 1 /\ pc'[c] = IF pos[c] - 1 = 0 THEN "settle" ELSE "status"
    BY Zenon DEF IInv, TypeOK
  <2>3. \A j \in Steps : j > pos'[c] => step'[j] # "completed"
    BY <2>1, <2>2
  <2>4. pc'[c] = "status" => pos'[c] \in Steps
    BY <2>1, <2>2
  <2>5. pc'[c] = "settle" => pos'[c] = 0
    BY <2>2, Zenon
  <2>6. failures'[c] => \E i \in Steps : step'[i] = "compensation_failed"
    BY Zenon DEF IInv, BackwardAt
  <2>7. QED
    BY <2>1, <2>2, <2>3, <2>4, <2>5, <2>6 DEF BackwardAt
<1>8. Counted'
  BY Zenon DEF IInv, TypeOK, Counted
<1>9. Clean'
  BY DEF IInv, Unattended, TypeOK, Clean
<1>10. QED
  BY <1>1, <1>2, <1>3, <1>4, <1>5, <1>6, <1>7, <1>8, <1>9, OthersIdle, Zenon DEF IInv, TypeOK

LEMMA ChooseStepPreserves ==
    ASSUME IInv, NEW c \in Coordinators, chooseStep(c)
    PROVE  IInv'
<1> USE DEF chooseStep
<1>1. TypeOK'
  BY Zenon DEF IInv, TypeOK
<1>2. OneDriver'
  BY DEF IInv, TypeOK, OneDriver, BackwardAt
<1>3. StepEffect' /\ Prefix'
  BY Zenon DEF IInv, TypeOK, StepEffect, Prefix
<1>4. HeadShape'
  BY Zenon DEF IInv, TypeOK, HeadShape
<1>5. ForwardAt(c)'
  BY Zenon DEF IInv, TypeOK, ForwardAt
<1>6. UnwindAt(c)'
  BY Zenon DEF IInv, TypeOK, UnwindAt
<1>7. BackwardAt(c)'
  BY DEF IInv, TypeOK, HeadShape, BackwardAt
<1>8. Counted'
  BY Zenon DEF IInv, TypeOK, Counted
<1>9. Clean'
  BY DEF IInv, Unattended, TypeOK, Clean
<1>10. QED
  BY <1>1, <1>2, <1>3, <1>4, <1>5, <1>6, <1>7, <1>8, <1>9, OthersIdle, Zenon DEF IInv, TypeOK

LEMMA MarkNothingPreserves ==
    ASSUME IInv, NEW c \in Coordinators, markNothing(c)
    PROVE  IInv'
<1> USE DEF markNothing
<1>1. TypeOK'
  BY DEF IInv, TypeOK, UnwindAt, BackwardAt
<1>2. OneDriver'
  BY DEF IInv, TypeOK, OneDriver, BackwardAt
<1>3. StepEffect' /\ Prefix'
  <2>1. /\ pos[c] \in Steps /\ pos[c] \notin Undoable
        /\ \A j \in Steps : j > pos[c] => step[j] # "completed"
    BY Zenon DEF IInv, BackwardAt
  <2>2. /\ step'[pos[c]] = "compensated"
        /\ \A j \in Steps : j # pos[c] => step'[j] = step[j]
    BY <2>1, Zenon DEF IInv, TypeOK
  <2>3. StepEffect'
    BY <2>1, <2>2, Zenon DEF IInv, StepEffect
  <2>4. Prefix'
    BY <2>1, <2>2, Zenon DEF IInv, Prefix
  <2>5. QED
    BY <2>3, <2>4, Zenon
<1>4. HeadShape'
  BY DEF IInv, TypeOK, HeadShape, BackwardAt
<1>5. ForwardAt(c)'
  BY Zenon DEF IInv, TypeOK, ForwardAt
<1>6. UnwindAt(c)'
  BY Zenon DEF IInv, TypeOK, UnwindAt
<1>7. BackwardAt(c)'
  BY DEF IInv, TypeOK, Prefix, StepEffect, ForwardAt, UnwindAt, BackwardAt
<1>8. Counted'
  BY Zenon DEF IInv, TypeOK, Counted
<1>9. Clean'
  BY DEF IInv, Unattended, TypeOK, Clean
<1>10. QED
  BY <1>1, <1>2, <1>3, <1>4, <1>5, <1>6, <1>7, <1>8, <1>9, OthersIdle, Zenon DEF IInv, TypeOK

LEMMA MarkCompensatingPreserves ==
    ASSUME IInv, NEW c \in Coordinators, markCompensating(c)
    PROVE  IInv'
<1> USE DEF markCompensating
<1>1. TypeOK'
  BY Zenon DEF IInv, TypeOK
<1>2. OneDriver'
  BY DEF IInv, TypeOK, OneDriver, BackwardAt
<1>3. StepEffect' /\ Prefix'
  BY DEF IInv, TypeOK, StepEffect, Prefix, BackwardAt
<1>4. HeadShape'
  BY DEF IInv, TypeOK, HeadShape, BackwardAt
<1>5. ForwardAt(c)'
  BY Zenon DEF IInv, TypeOK, ForwardAt
<1>6. UnwindAt(c)'
  BY Zenon DEF IInv, TypeOK, UnwindAt
<1>7. BackwardAt(c)'
  BY DEF IInv, TypeOK, Prefix, StepEffect, ForwardAt, UnwindAt, BackwardAt
<1>8. Counted'
  BY Zenon DEF IInv, TypeOK, Counted
<1>9. Clean'
  BY DEF IInv, Unattended, TypeOK, OneDriver, StepEffect, HeadShape, ForwardAt,
     UnwindAt, Counted, Clean
<1>10. QED
  BY <1>1, <1>2, <1>3, <1>4, <1>5, <1>6, <1>7, <1>8, <1>9, OthersIdle, Zenon DEF IInv, TypeOK

LEMMA CompensatePreserves ==
    ASSUME IInv, NEW c \in Coordinators, Compensate(c)
    PROVE  IInv'
<1> USE DEF Compensate
<1>1. TypeOK'
  BY Zenon DEF IInv, TypeOK
<1>2. OneDriver'
  BY DEF IInv, TypeOK, OneDriver, BackwardAt
<1>3. StepEffect' /\ Prefix'
  BY DEF IInv, TypeOK, StepEffect, Prefix, BackwardAt
<1>4. HeadShape'
  BY Zenon DEF IInv, TypeOK, HeadShape
<1>5. ForwardAt(c)'
  BY Zenon DEF IInv, TypeOK, ForwardAt
<1>6. UnwindAt(c)'
  BY Zenon DEF IInv, TypeOK, UnwindAt
<1>7. BackwardAt(c)'
  <2>1. /\ pos[c] \in Steps /\ head = "compensating" /\ step[pos[c]] = "compensating"
        /\ \A j \in Steps : j > pos[c] => step[j] # "completed"
        /\ \A j \in Steps : j < pos[c] => step[j] = "completed"
    BY Zenon DEF IInv, BackwardAt
  <2>2. pc'[c] = "compensated" /\ effect'[pos[c]] = FALSE
    BY <2>1, Zenon DEF IInv, TypeOK
  <2>3. failures[c] => \E i \in Steps : step[i] = "compensation_failed"
    BY Zenon DEF IInv, BackwardAt
  <2>4. QED
    BY <2>1, <2>2, <2>3, Zenon DEF BackwardAt
<1>8. Counted'
  BY Zenon DEF IInv, TypeOK, Counted
<1>9. Clean'
  BY DEF IInv, Unattended, TypeOK, Clean
<1>10. QED
  BY <1>1, <1>2, <1>3, <1>4, <1>5, <1>6, <1>7, <1>8, <1>9, OthersIdle, Zenon DEF IInv, TypeOK

LEMMA CompensateFailsPreserves ==
    ASSUME IInv, NEW c \in Coordinators, CompensateFails(c)
    PROVE  IInv'
<1> USE DEF CompensateFails
<1>1. TypeOK'
  BY Zenon DEF IInv, TypeOK
<1>2. OneDriver'
  BY DEF IInv, TypeOK, OneDriver, BackwardAt
<1>3. StepEffect' /\ Prefix'
  BY Zenon DEF IInv, TypeOK, StepEffect, Prefix
<1>4. HeadShape'
  BY Zenon DEF IInv, TypeOK, HeadShape
<1>5. ForwardAt(c)'
  BY Zenon DEF IInv, TypeOK, ForwardAt
<1>6. UnwindAt(c)'
  BY Zenon DEF IInv, TypeOK, UnwindAt
<1>7. BackwardAt(c)'
  <2>1. /\ pos[c] \in Steps /\ head = "compensating" /\ step[pos[c]] = "compensating"
        /\ \A j \in Steps : j > pos[c] => step[j] # "completed"
        /\ \A j \in Steps : j < pos[c] => step[j] = "completed"
        /\ effect[pos[c]] = TRUE
    BY Zenon DEF IInv, TypeOK, BackwardAt
  <2>2. pc'[c] = "compensation_failed" /\ failures'[c] = TRUE
    BY Zenon DEF IInv, TypeOK
  <2>3. QED
    BY <2>1, <2>2, Zenon DEF BackwardAt
<1>8. Counted'
  BY Zenon DEF IInv, TypeOK, Counted
<1>9. Clean'
  BY DEF IInv, Unattended, TypeOK, Clean
<1>10. QED
  BY <1>1, <1>2, <1>3, <1>4, <1>5, <1>6, <1>7, <1>8, <1>9, OthersIdle, Zenon DEF IInv, TypeOK

LEMMA MarkCompensatedPreserves ==
    ASSUME IInv, NEW c \in Coordinators, markCompensated(c)
    PROVE  IInv'
<1> USE DEF markCompensated
<1>1. TypeOK'
  BY DEF IInv, TypeOK, BackwardAt
<1>2. OneDriver'
  BY DEF IInv, TypeOK, OneDriver, BackwardAt
<1>3. StepEffect' /\ Prefix'
  <2>1. /\ pos[c] \in Steps /\ ~effect[pos[c]]
        /\ \A j \in Steps : j > pos[c] => step[j] # "completed"
    BY Zenon DEF IInv, BackwardAt
  <2>2. /\ step'[pos[c]] = "compensated"
        /\ \A j \in Steps : j # pos[c] => step'[j] = step[j]
    BY <2>1, Zenon DEF IInv, TypeOK
  <2>3. StepEffect'
    BY <2>1, <2>2, Zenon DEF IInv, StepEffect
  <2>4. Prefix'
    BY <2>1, <2>2, Zenon DEF IInv, Prefix
  <2>5. QED
    BY <2>3, <2>4, Zenon
<1>4. HeadShape'
  BY DEF IInv, TypeOK, HeadShape, BackwardAt
<1>5. ForwardAt(c)'
  BY Zenon DEF IInv, TypeOK, ForwardAt
<1>6. UnwindAt(c)'
  BY Zenon DEF IInv, TypeOK, UnwindAt
<1>7. BackwardAt(c)'
  BY DEF IInv, TypeOK, HeadShape, Prefix, StepEffect, ForwardAt, UnwindAt, BackwardAt
<1>8. Counted'
  BY Zenon DEF IInv, TypeOK, Counted
<1>9. Clean'
  BY DEF IInv, Unattended, TypeOK, OneDriver, StepEffect, HeadShape, ForwardAt,
     UnwindAt, Clean
<1>10. QED
  BY <1>1, <1>2, <1>3, <1>4, <1>5, <1>6, <1>7, <1>8, <1>9, OthersIdle, Zenon DEF IInv, TypeOK

LEMMA MarkCompensationFailedPreserves ==
    ASSUME IInv, NEW c \in Coordinators, markCompensationFailed(c)
    PROVE  IInv'
<1> USE DEF markCompensationFailed
<1>1. TypeOK'
  BY DEF IInv, TypeOK, UnwindAt, BackwardAt
<1>2. OneDriver'
  BY DEF IInv, TypeOK, OneDriver, BackwardAt
<1>3. StepEffect' /\ Prefix'
  <2>1. /\ pos[c] \in Steps /\ step[pos[c]] = "compensating" /\ effect[pos[c]]
        /\ step' = [step EXCEPT ![pos[c]] = "compensation_failed"]
        /\ \A j \in Steps : j > pos[c] => step[j] # "completed"
    BY Zenon DEF IInv, BackwardAt
  <2>2. StepEffect'
    BY <2>1, Zenon DEF IInv, TypeOK, StepEffect
  <2>3. Prefix'
    BY <2>1, Zenon DEF IInv, TypeOK, Prefix
  <2>4. QED
    BY <2>2, <2>3, Zenon
<1>4. HeadShape'
  BY DEF IInv, TypeOK, HeadShape, BackwardAt
<1>5. ForwardAt(c)'
  BY Zenon DEF IInv, TypeOK, ForwardAt
<1>6. UnwindAt(c)'
  BY Zenon DEF IInv, TypeOK, UnwindAt
<1>7. BackwardAt(c)'
  BY DEF IInv, TypeOK, HeadShape, Prefix, ForwardAt, UnwindAt, BackwardAt
<1>8. Counted'
  BY Zenon DEF IInv, TypeOK, Counted
<1>9. Clean'
  <2> SUFFICES ASSUME crashes = 0 PROVE Clean'
    BY Zenon DEF Clean
  <2>1. /\ pos[c] \in Steps /\ head = "compensating" /\ failures[c]
        /\ step' = [step EXCEPT ![pos[c]] = "compensation_failed"]
    BY Zenon DEF IInv, BackwardAt
  <2>2. \A d \in Coordinators : d # c => pc'[d] = "idle"
    BY Zenon DEF IInv, TypeOK, OneDriver
  <2>3. pc'[c] \in {"settle", "status"}
    BY Zenon DEF IInv, TypeOK
  <2>4. ASSUME NEW i \in Steps
        PROVE  step'[i] # "compensating" /\ (step'[i] = "failed" => ~effect'[i])
    <3>1. CASE i = pos[c]
      BY <2>1, <3>1, Zenon DEF IInv, TypeOK
    <3>2. CASE i # pos[c]
      <4>1. step'[i] = step[i]
        BY <2>1, <3>2, Zenon DEF IInv, TypeOK
      <4>2. step[i] # "compensating" /\ (step[i] = "failed" => ~effect[i])
        BY <2>1, <3>2, Zenon DEF IInv, Clean
      <4>3. QED
        BY <4>1, <4>2, Zenon
    <3>3. QED
      BY <3>1, <3>2, Zenon
  <2>5. QED
    BY <2>1, <2>2, <2>3, <2>4, Zenon DEF Clean, Unattended
<1>10. QED
  BY <1>1, <1>2, <1>3, <1>4, <1>5, <1>6, <1>7, <1>8, <1>9, OthersIdle, Zenon DEF IInv, TypeOK

LEMMA SettlePreserves ==
    ASSUME IInv, NEW c \in Coordinators, settle(c)
    PROVE  IInv'
<1> USE DEF settle
<1>1. TypeOK'
  BY Zenon DEF IInv, TypeOK, BackwardAt
<1>2. OneDriver'
  BY DEF IInv, TypeOK, OneDriver, Unattended
<1>3. StepEffect' /\ Prefix'
  BY Zenon DEF IInv, TypeOK, StepEffect, Prefix
<1>4. HeadShape'
  BY DEF IInv, TypeOK, HeadShape, BackwardAt
<1>5. ForwardAt(c)'
  BY Zenon DEF IInv, TypeOK, ForwardAt
<1>6. UnwindAt(c)'
  BY Zenon DEF IInv, TypeOK, UnwindAt
<1>7. BackwardAt(c)'
  BY Zenon DEF IInv, TypeOK, BackwardAt
<1>8. Counted'
  BY Zenon DEF IInv, TypeOK, Counted
<1>9. Clean'
  BY DEF IInv, TypeOK, OneDriver, BackwardAt, Clean
<1>10. QED
  BY <1>1, <1>2, <1>3, <1>4, <1>5, <1>6, <1>7, <1>8, <1>9, OthersIdle, Zenon DEF IInv, TypeOK

LEMMA RecoverAlonePreserves ==
    ASSUME IInv, NEW c \in Coordinators, RecoverAlone(c)
    PROVE  IInv'
<1> USE DEF RecoverAlone, RecoverSaga
<1>1. TypeOK'
  <2>1. N \in 0..N+1
    OBVIOUS
  <2>2. QED
    BY <2>1, Zenon DEF IInv, TypeOK
<1>2. OneDriver'
  BY DEF IInv, TypeOK, OneDriver, Unattended
<1>3. StepEffect' /\ Prefix'
  BY Zenon DEF IInv, TypeOK, StepEffect, Prefix
<1>4. HeadShape'
  BY Zenon DEF IInv, TypeOK, HeadShape
<1>5. ForwardAt(c)'
  BY Zenon DEF IInv, TypeOK, ForwardAt
<1>6. UnwindAt(c)'
  BY Zenon DEF IInv, TypeOK, UnwindAt
<1>7. BackwardAt(c)'
  BY DEF IInv, TypeOK, StepEffect, ForwardAt, UnwindAt, BackwardAt
<1>8. Counted'
  BY Zenon DEF IInv, TypeOK, Counted
<1>9. Clean'
  BY Zenon DEF IInv, TypeOK, Clean
<1>10. QED
  BY <1>1, <1>2, <1>3, <1>4, <1>5, <1>6, <1>7, <1>8, <1>9, OthersIdle, Zenon DEF IInv, TypeOK

LEMMA ResumePreserves ==
    ASSUME IInv, NEW c \in Coordinators, resume(c)
    PROVE  IInv'
<1> USE DEF resume
<1>1. TypeOK'
  <2>1. Resume \in 0..N+1
    BY ResumePosition
  <2>2. QED
    BY <2>1, Zenon DEF IInv, TypeOK
<1>2. OneDriver'
  BY DEF IInv, TypeOK, OneDriver, ForwardAt
<1>3. StepEffect' /\ Prefix'
  BY Zenon DEF IInv, TypeOK, StepEffect, Prefix
<1>4. HeadShape'
  BY Zenon DEF IInv, TypeOK, HeadShape
<1>5. ForwardAt(c)'
  <2>1. /\ pos'[c] = Resume
        /\ pc'[c] = IF Resume > N THEN "finish" ELSE "attempts"
    BY Zenon DEF IInv, TypeOK
  <2>2. head = "running"
    BY Zenon DEF IInv, ForwardAt
  <2>3. QED
    BY <2>1, <2>2, ResumePosition DEF ForwardAt
<1>6. UnwindAt(c)'
  BY Zenon DEF IInv, TypeOK, UnwindAt
<1>7. BackwardAt(c)'
  BY Zenon DEF IInv, TypeOK, BackwardAt
<1>8. Counted'
  BY Zenon DEF IInv, TypeOK, Counted
<1>9. Clean'
  BY Zenon DEF IInv, TypeOK, Clean
<1>10. QED
  BY <1>1, <1>2, <1>3, <1>4, <1>5, <1>6, <1>7, <1>8, <1>9, OthersIdle, Zenon DEF IInv, TypeOK

LEMMA AbandonPreserves ==
    ASSUME IInv, NEW c \in Coordinators, Abandon(c)
    PROVE  IInv'
<1> USE DEF Abandon
<1>1. TypeOK'
  BY DEF IInv, TypeOK
<1>2. OneDriver'
  BY Zenon DEF IInv, TypeOK, OneDriver, Unattended
<1>3. StepEffect' /\ Prefix'
  BY Zenon DEF IInv, TypeOK, StepEffect, Prefix
<1>4. HeadShape'
  BY Zenon DEF IInv, TypeOK, HeadShape
<1>5. ForwardAt(c)'
  BY Zenon DEF IInv, TypeOK, ForwardAt
<1>6. UnwindAt(c)'
  BY Zenon DEF IInv, TypeOK, UnwindAt
<1>7. BackwardAt(c)'
  BY Zenon DEF IInv, TypeOK, BackwardAt
<1>8. Counted'
  BY Zenon DEF IInv, TypeOK, Counted
<1>9. Clean'
  BY DEF IInv, TypeOK, OneDriver, Clean
<1>10. QED
  BY <1>1, <1>2, <1>3, <1>4, <1>5, <1>6, <1>7, <1>8, <1>9, OthersIdle, Zenon DEF IInv, TypeOK

-----------------------------------------------------------------------------
(* The theorems.                                                            *)

\* Every step of the saga keeps the invariant.
LEMMA StepPreserves == IInv /\ [Next]_vars => IInv'
<1> SUFFICES ASSUME IInv, [Next]_vars PROVE IInv'
  BY Zenon
<1>1. CASE Next
  <2>1. PICK c \in Coordinators : beginSaga(c) \/ Advance(c) \/ RecoverAlone(c) \/ Abandon(c)
    BY <1>1, Zenon DEF Next
  <2>2. QED
    BY <2>1,
       BeginSagaPreserves, ReadAttemptsPreserves, MarkStepRunningPreserves,
       DoPreserves, DoFailsPreserves, MarkCompletedPreserves, MarkFailedPreserves,
       FinishPreserves, BeginCompensatePreserves, SkipStepPreserves,
       ChooseStepPreserves, MarkNothingPreserves, MarkCompensatingPreserves,
       CompensatePreserves, CompensateFailsPreserves, MarkCompensatedPreserves,
       MarkCompensationFailedPreserves, SettlePreserves, RecoverAlonePreserves,
       ResumePreserves, AbandonPreserves, Zenon DEF Advance
<1>2. CASE UNCHANGED vars
  <2>1. TypeOK' /\ OneDriver'
    BY <1>2, Zenon DEF vars, IInv, TypeOK, OneDriver, Unattended
  <2>2. StepEffect' /\ Prefix' /\ HeadShape'
    BY <1>2, Zenon DEF vars, IInv, StepEffect, Prefix, HeadShape
  <2>3. \A c \in Coordinators : ForwardAt(c)' /\ UnwindAt(c)'
    BY <1>2, Zenon DEF vars, IInv, ForwardAt, UnwindAt
  <2>4. \A c \in Coordinators : BackwardAt(c)'
    BY <1>2 DEF vars, IInv, BackwardAt
  <2>5. Counted' /\ Clean'
    BY <1>2, Zenon DEF vars, IInv, Counted, Clean, Unattended
  <2>6. QED
    BY <2>1, <2>2, <2>3, <2>4, <2>5, Zenon DEF IInv
<1>3. QED
  BY <1>1, <1>2, Zenon

LEMMA InitEstablishes == Init => IInv
  BY DEF Init, IInv, TypeOK, OneDriver, Unattended, StepEffect, Prefix, HeadShape,
         ForwardAt, UnwindAt, BackwardAt, Counted, Clean

\* The inductive invariant holds of every behaviour of a saga that is driven by
\* one coordinator at a time, with any number of crashes and recoveries.
THEOREM Invariance == Spec => []IInv
  BY InitEstablishes, StepPreserves, PTL DEF Spec

\* Every reachable state of the coordinator's tables and locals is well formed.
THEOREM TypeCorrect == Spec => []TypeOK
<1>1. IInv => TypeOK
  BY Zenon DEF IInv
<1>2. QED
  BY <1>1, Invariance, PTL

\* driveSaga records SagaCompleted only when every step is completed and in
\* place; compensate records an outcome only when no step is left committed,
\* reports a broken compensation and never loses track of an effect.
THEOREM OutcomeCorrect == Spec => []OutcomeIsTrue
<1>1. IInv => CompletedIsWhole
  BY Zenon DEF IInv, HeadShape, StepEffect, CompletedIsWhole
<1>2. IInv => UnwindIsWhole
  BY Zenon DEF IInv, HeadShape, UnwindIsWhole
<1>3. IInv => LeakIsRecorded
  BY Zenon DEF IInv, TypeOK, HeadShape, StepEffect, LeakIsRecorded
<1>4. IInv => OutcomeIsTrue
  BY <1>1, <1>2, <1>3, Zenon DEF OutcomeIsTrue
<1>5. QED
  BY <1>4, Invariance, PTL

\* markStepRunning's read and write never under-count under one coordinator.
THEOREM AttemptsCorrect == Spec => []AttemptsCoverEntries
<1>1. IInv => AttemptsCoverEntries
  BY Zenon DEF IInv, Counted, AttemptsCoverEntries
<1>2. QED
  BY <1>1, Invariance, PTL

\* When no call was cut short, SagaCompensated and SagaFailed mean exactly what
\* their comments say.
THEOREM CleanUnwindCorrect == Spec => []CleanUnwind
<1>1. IInv => CleanUnwind
  <2> SUFFICES ASSUME IInv, crashes = 0 PROVE CleanUnwind
    BY Zenon DEF CleanUnwind
  <2>1. head = "compensated" => \A i \in Undoable : ~effect[i]
    BY DEF IInv, TypeOK, HeadShape, StepEffect, Clean
  <2>2. head = "failed" => \E i \in Undoable : effect[i] /\ step[i] = "compensation_failed"
    BY Zenon DEF IInv, HeadShape, StepEffect
  <2>3. QED
    BY <2>1, <2>2, Zenon DEF CleanUnwind
<1>2. QED
  BY <1>1, Invariance, PTL

\* A terminal saga never changes again: RecoverSaga leaves it alone and nobody
\* else is still driving it.
THEOREM TerminalCorrect == Spec => TerminalIsFrozen
<1>1. IInv /\ [Next]_vars => [(head \in Terminal) => UNCHANGED <<head, step, effect>>]_vars
  <2> SUFFICES ASSUME IInv, Next, head \in Terminal
               PROVE  UNCHANGED <<head, step, effect>>
    BY Zenon
  <2>1. \A c \in Coordinators : pc[c] = "idle"
    BY Zenon DEF IInv, OneDriver, Unattended
  <2>2. PICK c \in Coordinators : beginSaga(c) \/ Advance(c) \/ RecoverAlone(c) \/ Abandon(c)
    BY Zenon DEF Next
  <2>3. ~beginSaga(c) /\ ~RecoverAlone(c) /\ ~Abandon(c)
    BY <2>1, Zenon DEF beginSaga, RecoverAlone, RecoverSaga, Abandon
  <2>4. ~Advance(c)
    BY <2>1, Zenon DEF Advance, readAttempts, markStepRunning, Do, DoFails, markCompleted,
         markFailed, finish, beginCompensate, skipStep, chooseStep, markNothing,
         markCompensating, Compensate, CompensateFails, markCompensated,
         markCompensationFailed, settle, resume
  <2>5. QED
    BY <2>2, <2>3, <2>4, Zenon
<1>2. QED
  BY <1>1, Invariance, PTL DEF Spec, TerminalIsFrozen

-----------------------------------------------------------------------------
(* Refinement of SagaPromise.                                               *)

\* A step that leaves the head, the records and the effects alone is a stutter.
LEMMA RowsStutter ==
    ASSUME UNCHANGED <<head, step, effect>>
    PROVE  UNCHANGED Promise!pvars
  BY Zenon DEF Promise!pvars, Live, Tried

\* While the saga runs, a change of step records alone is a stutter.
LEMMA RunningStutter ==
    ASSUME head = "running", UNCHANGED <<head, effect>>
    PROVE  UNCHANGED Promise!pvars
<1>1. Tried = {} /\ Tried' = {}
  BY Zenon DEF Tried
<1>2. QED
  BY <1>1, Zenon DEF Promise!pvars, Live

LEMMA DoCommits ==
    ASSUME IInv, NEW c \in Coordinators, Do(c)
    PROVE  (\E i \in 1..N : Promise!Commit(i)) \/ UNCHANGED Promise!pvars
<1>1. /\ pos[c] \in Steps /\ head = "running" /\ UNCHANGED head
      /\ effect' = [effect EXCEPT ![pos[c]] = TRUE]
      /\ \A j \in Steps : j < pos[c] => step[j] = "completed"
      /\ \A j \in Steps : j > pos[c] => step[j] = "pending"
  BY Zenon DEF Do, IInv, ForwardAt, HeadShape
<1>2. /\ \A j \in Steps : j < pos[c] => effect[j]
      /\ \A j \in Steps : j > pos[c] => ~effect[j]
  BY <1>1, Zenon DEF IInv, StepEffect
<1>3. Tried = {} /\ Tried' = {}
  BY <1>1, Zenon DEF Tried
<1>4. CASE effect[pos[c]]
  <2>1. effect' = effect
    BY <1>1, <1>4, Zenon DEF IInv, TypeOK
  <2>2. QED
    BY <2>1, <1>1, RunningStutter, Zenon
<1>5. CASE ~effect[pos[c]]
  <2>1. Live = 1..pos[c]-1
    BY <1>1, <1>2, <1>5 DEF Live
  <2>2. Live' = 1..pos[c]
    BY <1>1, <1>2 DEF IInv, TypeOK, Live
  <2>3. Promise!Commit(pos[c])
    BY <2>1, <2>2, <1>1, <1>3, Zenon DEF Promise!Commit
  <2>4. QED
    BY <2>3, <1>1, Zenon
<1>6. QED
  BY <1>4, <1>5, Zenon

LEMMA FinishCompletes ==
    ASSUME IInv, NEW c \in Coordinators, finish(c)
    PROVE  Promise!Complete
<1>1. head = "running" /\ head' = "completed" /\ step' = step /\ effect' = effect
  BY Zenon DEF finish, IInv, ForwardAt
<1>2. \A j \in Steps : step[j] = "completed" /\ effect[j]
  BY Zenon DEF finish, IInv, ForwardAt, StepEffect
<1>3. Live = 1..N /\ Live' = Live
  BY <1>1, <1>2, Zenon DEF Live
<1>4. Tried = {} /\ Tried' = {}
  BY <1>1, <1>2, Zenon DEF Tried, Live
<1>5. QED
  BY <1>1, <1>3, <1>4, Zenon DEF Promise!Complete

LEMMA UnwindTurnsBack ==
    ASSUME IInv, NEW c \in Coordinators, beginCompensate(c)
    PROVE  Promise!TurnBack \/ UNCHANGED Promise!pvars
<1>1. head' = "compensating" /\ step' = step /\ effect' = effect
  BY Zenon DEF beginCompensate
<1>2. CASE head = "compensating"
  BY <1>1, <1>2, RowsStutter, Zenon
<1>3. CASE head = "running"
  <2> DEFINE f == pos[c] + 1
  <2>1. f \in Steps /\ step[f] = "failed" /\ \A j \in Steps : j < f => step[j] = "completed"
    BY <1>3 DEF beginCompensate, IInv, UnwindAt
  <2>2. \A j \in Steps : j > f => step[j] = "pending"
    BY <2>1, <1>3, Zenon DEF IInv, HeadShape
  <2>3. \A j \in Steps : (j < f => effect[j]) /\ (j > f => ~effect[j])
    BY <2>1, <2>2, Zenon DEF IInv, StepEffect
  <2>4. Live' = Live
    BY <1>1, Zenon DEF Live
  <2>5. CASE effect[f]
    <3>1. Live = 1..f /\ Tried' = {f}
      BY <2>1, <2>2, <2>3, <2>5, <1>1 DEF Live, Tried
    <3>2. QED
      BY <3>1, <2>1, <2>4, <1>1, <1>3, Zenon DEF Promise!TurnBack
  <2>6. CASE ~effect[f]
    <3>1. Tried' = {}
      BY <2>1, <2>2, <2>3, <2>6, <1>1 DEF Live, Tried
    <3>2. QED
      BY <3>1, <2>4, <1>1, <1>3, Zenon DEF Promise!TurnBack
  <2>7. QED
    BY <2>5, <2>6, Zenon
<1>4. QED
  BY <1>2, <1>3, Zenon DEF beginCompensate, IInv, UnwindAt

LEMMA NothingStutters ==
    ASSUME IInv, NEW c \in Coordinators, markNothing(c)
    PROVE  UNCHANGED Promise!pvars
<1>1. /\ pos[c] \in Steps /\ UNCHANGED <<head, effect>>
      /\ step[pos[c]] = "completed"
      /\ step' = [step EXCEPT ![pos[c]] = "compensated"]
  BY Zenon DEF markNothing, IInv, BackwardAt
<1>2. Live' = Live
  BY <1>1, Zenon DEF Live
<1>3. Tried' = Tried
  BY <1>1, <1>2 DEF IInv, TypeOK, Tried
<1>4. QED
  BY <1>1, <1>2, <1>3, Zenon DEF Promise!pvars

LEMMA CompensatingTries ==
    ASSUME IInv, NEW c \in Coordinators, markCompensating(c)
    PROVE  \E i \in 1..N : Promise!Try(i)
<1>1. /\ pos[c] \in Steps /\ pos[c] \in Undoable /\ UNCHANGED <<head, effect>>
      /\ head = "compensating" /\ step[pos[c]] = "completed"
      /\ step' = [step EXCEPT ![pos[c]] = "compensating"]
      /\ \A j \in Steps : j > pos[c] => step[j] # "completed"
  BY Zenon DEF markCompensating, IInv, BackwardAt
<1>2. Live' = Live /\ pos[c] \in Live \ Tried
  BY <1>1, Zenon DEF IInv, StepEffect, Live, Tried
<1>3. \A j \in Undoable \cap Live : j > pos[c] => j \in Tried
  <2> SUFFICES ASSUME NEW j \in Steps, j \in Undoable, effect[j], j > pos[c]
               PROVE  j \in Tried
    BY Zenon DEF Live
  <2>1. step[j] \notin {"completed", "running", "pending", "compensated"}
    BY <1>1, Zenon DEF IInv, HeadShape, StepEffect
  <2>2. QED
    BY <2>1, <1>1, Zenon DEF IInv, TypeOK, Tried, Live
<1>4. Tried' = Tried \cup {pos[c]}
  BY <1>1, <1>2 DEF IInv, TypeOK, Tried
<1>5. Promise!Try(pos[c])
  BY <1>1, <1>2, <1>3, <1>4, Zenon DEF Promise!Try
<1>6. QED
  BY <1>1, <1>5, Zenon

LEMMA CompensateUndoes ==
    ASSUME IInv, NEW c \in Coordinators, Compensate(c)
    PROVE  \E i \in 1..N : Promise!Undo(i)
<1>1. /\ pos[c] \in Steps /\ UNCHANGED <<head, step>>
      /\ head = "compensating" /\ step[pos[c]] = "compensating" /\ effect[pos[c]] = TRUE
      /\ effect' = [effect EXCEPT ![pos[c]] = FALSE]
      /\ \A j \in Steps : j < pos[c] => step[j] = "completed"
  BY Zenon DEF Compensate, IInv, BackwardAt
<1>2. pos[c] \in Tried /\ \A j \in Tried : j >= pos[c]
  BY <1>1 DEF Tried, Live
<1>3. Live' = Live \ {pos[c]}
  BY <1>1, Zenon DEF IInv, TypeOK, Live
<1>4. Tried' = Tried \ {pos[c]}
  BY <1>1, <1>3, Zenon DEF Tried
<1>5. Promise!Undo(pos[c])
  BY <1>1, <1>2, <1>3, <1>4, Zenon DEF Promise!Undo
<1>6. QED
  BY <1>1, <1>5, Zenon

LEMMA CompensatedStutters ==
    ASSUME IInv, NEW c \in Coordinators, markCompensated(c) \/ markCompensationFailed(c)
    PROVE  UNCHANGED Promise!pvars
<1>1. /\ pos[c] \in Steps /\ UNCHANGED <<head, effect>> /\ step[pos[c]] = "compensating"
      /\ \/ ~effect[pos[c]]
            /\ step' = [step EXCEPT ![pos[c]] = "compensated"]
         \/ step' = [step EXCEPT ![pos[c]] = "compensation_failed"]
  BY Zenon DEF markCompensated, markCompensationFailed, IInv, BackwardAt
<1>2. Live' = Live
  BY <1>1, Zenon DEF Live
<1>3. Tried' = Tried
  <2>1. /\ \A i \in Steps : i # pos[c] => step'[i] = step[i]
        /\ step'[pos[c]] = "compensation_failed" \/ pos[c] \notin Live
    BY <1>1, Zenon DEF IInv, TypeOK, Live
  <2>2. Live \subseteq Steps
    BY Zenon DEF Live
  <2>3. QED
    BY <1>1, <1>2, <2>1, <2>2, Zenon DEF Tried
<1>4. QED
  BY <1>1, <1>2, <1>3, Zenon DEF Promise!pvars

LEMMA SettleEnds ==
    ASSUME IInv, NEW c \in Coordinators, settle(c)
    PROVE  Promise!End
<1>1. /\ head = "compensating" /\ UNCHANGED <<step, effect>>
      /\ \A j \in Steps : step[j] \notin {"completed", "running"}
      /\ head' = IF failures[c] THEN "failed" ELSE "compensated"
      /\ failures[c] => \E i \in Steps : step[i] = "compensation_failed"
  BY DEF settle, IInv, BackwardAt, HeadShape
<1>2. Live' = Live /\ Tried' = Tried
  BY <1>1, Zenon DEF Live, Tried
<1>3. Undoable \cap Live \subseteq Tried
  BY <1>1, Zenon DEF IInv, TypeOK, StepEffect, Live, Tried
<1>4. failures[c] => Tried # {}
  BY <1>1, Zenon DEF IInv, StepEffect, Live, Tried
<1>5. QED
  BY <1>1, <1>2, <1>3, <1>4, Zenon DEF Promise!End

\* Each step of the coordinator is a step of the promise or a stutter.
LEMMA StepRefines == IInv /\ [Next]_vars => [Promise!Next]_(Promise!pvars)
<1> SUFFICES ASSUME IInv, [Next]_vars PROVE [Promise!Next]_(Promise!pvars)
  BY Zenon
<1>1. CASE UNCHANGED vars
  BY <1>1, RowsStutter, Zenon DEF vars
<1>2. CASE Next
  <2>1. PICK c \in Coordinators : beginSaga(c) \/ Advance(c) \/ RecoverAlone(c) \/ Abandon(c)
    BY <1>2, Zenon DEF Next
  <2>2. CASE beginSaga(c)
    BY <2>2, Zenon DEF beginSaga, Promise!Next, Promise!Begin, Live, Tried
  <2>3. CASE \/ readAttempts(c) \/ DoFails(c) \/ skipStep(c) \/ chooseStep(c)
             \/ CompensateFails(c) \/ resume(c) \/ RecoverAlone(c) \/ Abandon(c)
    BY <2>3, RowsStutter, Zenon DEF readAttempts, DoFails, skipStep, chooseStep,
         CompensateFails, resume, RecoverAlone, RecoverSaga, Abandon
  <2>4. CASE markStepRunning(c) \/ markCompleted(c) \/ markFailed(c)
    <3>1. head = "running"
      BY <2>4, Zenon DEF markStepRunning, markCompleted, markFailed, IInv, ForwardAt
    <3>2. QED
      BY <2>4, <3>1, RunningStutter, Zenon DEF markStepRunning, markCompleted, markFailed
  <2>5. CASE Do(c) \/ finish(c) \/ beginCompensate(c)
    BY <2>5, DoCommits, FinishCompletes, UnwindTurnsBack, Zenon DEF Promise!Next
  <2>6. CASE \/ markNothing(c) \/ markCompensating(c) \/ Compensate(c)
             \/ markCompensated(c) \/ markCompensationFailed(c) \/ settle(c)
    BY <2>6, NothingStutters, CompensatingTries, CompensateUndoes,
       CompensatedStutters, SettleEnds, Zenon DEF Promise!Next
  <2>7. QED
    BY <2>1, <2>2, <2>3, <2>4, <2>5, <2>6, Zenon DEF Advance
<1>3. QED
  BY <1>1, <1>2, Zenon

\* The coordinator of saga.go, crashes and recoveries included, implements the
\* promise: in-order commits, a reverse unwind that tries every undoable effect,
\* and an end only when one of the two is done.
THEOREM Refinement == Spec => PromiseSpec
<1>1. Init => Promise!Init
  BY Zenon DEF Init, Promise!Init, Live, Tried
<1>2. QED
  BY <1>1, StepRefines, Invariance, PTL DEF Spec, PromiseSpec, Promise!Spec
=============================================================================
