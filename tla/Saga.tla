-------------------------------- MODULE Saga --------------------------------
(***************************************************************************)
(* One saga instance of pkg/modulekit/saga.go: its durable rows (the head   *)
(* and one row per step), the coordinators that drive it, and the effects   *)
(* its steps have outside the coordinator's tables.                         *)
(*                                                                          *)
(* Every store call and every Do or Compensate is an action of its own, so  *)
(* a crash, a failed store call or another coordinator can come between any *)
(* two of them.  A step's position is 1..N here and 0..N-1 in the code.     *)
(***************************************************************************)
EXTENDS Naturals

CONSTANTS
    Coordinators,   \* processes that may call RunSaga or RecoverSaga
    N,              \* len(saga.Steps)
    Undoable,       \* the steps whose Compensate is not nil
    MaxCrashes      \* bound: how often a call is cut short

\* Validate refuses a saga without steps.
ASSUME SagaAssumption ==
    /\ N \in Nat \ {0}
    /\ Undoable \subseteq 1..N
    /\ MaxCrashes \in Nat

VARIABLES
    head,       \* SagaRecord.Status, "none" while there is no record
    step,       \* SagaStepRecord.Status by position
    attempts,   \* SagaStepRecord.Attempts by position
    effect,     \* is what the step's Do committed still in place?
    entered,    \* how often the step's Do was entered (history)
    pc,         \* what each coordinator does next, "idle" outside a call
    pos,        \* the loop variable i of driveSaga and compensate
    seen,       \* rec.Attempts as markStepRunning read it
    failures,   \* is compensate's list of failures non-empty?
    crashes     \* how many calls were cut short

vars == <<head, step, attempts, effect, entered, pc, pos, seen, failures, crashes>>
rows == <<head, step, attempts>>
world == <<effect, entered>>

Steps == 1..N

SagaStatus == {"none", "running", "completed", "compensating", "compensated", "failed"}
Terminal == {"completed", "compensated", "failed"}

StepStatus == {"pending", "running", "completed", "failed",
               "compensating", "compensated", "compensation_failed"}

\* Where a coordinator stands in driveSaga, and in compensate.
Forward == {"resume", "attempts", "running", "do", "completed", "failed", "finish"}
Backward == {"status", "nothing", "compensating", "undo", "compensated",
             "compensation_failed", "settle"}
Labels == {"idle", "unwind"} \cup Forward \cup Backward

TypeOK ==
    /\ head \in SagaStatus
    /\ step \in [Steps -> StepStatus]
    /\ attempts \in [Steps -> Nat]
    /\ effect \in [Steps -> BOOLEAN]
    /\ entered \in [Steps -> Nat]
    /\ pc \in [Coordinators -> Labels]
    /\ pos \in [Coordinators -> 0..N+1]
    /\ seen \in [Coordinators -> Nat]
    /\ failures \in [Coordinators -> BOOLEAN]
    /\ crashes \in Nat

Init ==
    /\ head = "none"
    /\ step = [i \in Steps |-> "pending"]
    /\ attempts = [i \in Steps |-> 0]
    /\ effect = [i \in Steps |-> FALSE]
    /\ entered = [i \in Steps |-> 0]
    /\ pc = [c \in Coordinators |-> "idle"]
    /\ pos = [c \in Coordinators |-> 0]
    /\ seen = [c \in Coordinators |-> 0]
    /\ failures = [c \in Coordinators |-> FALSE]
    /\ crashes = 0

-----------------------------------------------------------------------------
(* Helpers.                                                                 *)

Goto(c, label) == pc' = [pc EXCEPT ![c] = label]

\* The call of coordinator c returns and its local variables are gone.
Return(c) ==
    /\ pc' = [pc EXCEPT ![c] = "idle"]
    /\ pos' = [pos EXCEPT ![c] = 0]
    /\ seen' = [seen EXCEPT ![c] = 0]
    /\ failures' = [failures EXCEPT ![c] = FALSE]

\* markStep, for the step the coordinator stands at.
markStep(c, status) ==
    /\ step' = [step EXCEPT ![pos[c]] = status]
    /\ UNCHANGED <<head, attempts>>

\* markSaga.
markSaga(status) ==
    /\ head' = status
    /\ UNCHANGED <<step, attempts>>

\* The head of driveSaga's loop: i < len(saga.Steps), or the saga is done.
DriveFrom(c, i) ==
    /\ pos' = [pos EXCEPT ![c] = i]
    /\ Goto(c, IF i > N THEN "finish" ELSE "attempts")

\* The head of compensate's loop: i >= 0, or the outcome is recorded.
UnwindFrom(c, i) ==
    /\ pos' = [pos EXCEPT ![c] = i]
    /\ Goto(c, IF i = 0 THEN "settle" ELSE "status")

\* Mutant: the step after the first one not completed (breaks TypeOK).
ResumeTooFar == 1 + CHOOSE i \in 1..N+1 :
    /\ i \in Steps => step[i] # "completed"
    /\ \A j \in 1..i-1 : step[j] = "completed"

\* RecoverSaga's resume position: the first step not recorded as completed.
Resume == CHOOSE i \in 1..N+1 :
    /\ i \in Steps => step[i] # "completed"
    /\ \A j \in 1..i-1 : step[j] = "completed"

-----------------------------------------------------------------------------
(* RunSaga and driveSaga.                                                   *)

\* beginSaga: one transaction creates the head and all the steps; a head that
\* exists is a duplicate key, and the call returns having changed nothing.
beginSaga(c) ==
    /\ pc[c] = "idle"
    /\ head = "none"
    /\ markSaga("running")
    /\ DriveFrom(c, 1)
    /\ UNCHANGED <<world, seen, failures, crashes>>

\* markStepRunning reads the row ...
readAttempts(c) ==
    /\ pc[c] = "attempts"
    /\ seen' = [seen EXCEPT ![c] = attempts[pos[c]]]
    /\ Goto(c, "running")
    /\ UNCHANGED <<rows, world, pos, failures, crashes>>

\* Mutant: the row is written with a first attempt (breaks AttemptsCoverEntries).
markStepRunningFirst(c) ==
    /\ pc[c] = "running"
    /\ step' = [step EXCEPT ![pos[c]] = "running"]
    /\ attempts' = [attempts EXCEPT ![pos[c]] = 1]
    /\ Goto(c, "do")
    /\ UNCHANGED <<head, world, pos, seen, failures, crashes>>

\* ... and writes it back in a second store call.
markStepRunning(c) ==
    /\ pc[c] = "running"
    /\ step' = [step EXCEPT ![pos[c]] = "running"]
    /\ attempts' = [attempts EXCEPT ![pos[c]] = seen[c] + 1]
    /\ Goto(c, "do")
    /\ UNCHANGED <<head, world, pos, seen, failures, crashes>>

\* The step's Do returns nil: its work is committed (again, if it was before).
Do(c) ==
    /\ pc[c] = "do"
    /\ effect' = [effect EXCEPT ![pos[c]] = TRUE]
    /\ entered' = [entered EXCEPT ![pos[c]] = @ + 1]
    /\ Goto(c, "completed")
    /\ UNCHANGED <<rows, pos, seen, failures, crashes>>

\* The step's Do returns an error: this entry committed nothing.
DoFails(c) ==
    /\ pc[c] = "do"
    /\ entered' = [entered EXCEPT ![pos[c]] = @ + 1]
    /\ Goto(c, "failed")
    /\ UNCHANGED <<rows, effect, pos, seen, failures, crashes>>

markCompleted(c) ==
    /\ pc[c] = "completed"
    /\ markStep(c, "completed")
    /\ DriveFrom(c, pos[c] + 1)
    /\ UNCHANGED <<world, seen, failures, crashes>>

\* Mutant: the unwind starts one step too low (breaks PromiseSpec).
markFailedOffByOne(c) ==
    /\ pc[c] = "failed"
    /\ markStep(c, "failed")
    /\ pos' = [pos EXCEPT ![c] = IF @ > 1 THEN @ - 2 ELSE 0]
    /\ Goto(c, "unwind")
    /\ UNCHANGED <<world, seen, failures, crashes>>

\* The step is marked failed and compensate is called for the steps before it.
markFailed(c) ==
    /\ pc[c] = "failed"
    /\ markStep(c, "failed")
    /\ pos' = [pos EXCEPT ![c] = @ - 1]
    /\ Goto(c, "unwind")
    /\ UNCHANGED <<world, seen, failures, crashes>>

finish(c) ==
    /\ pc[c] = "finish"
    /\ markSaga("completed")
    /\ Return(c)
    /\ UNCHANGED <<world, crashes>>

-----------------------------------------------------------------------------
(* compensate.                                                              *)

beginCompensate(c) ==
    /\ pc[c] = "unwind"
    /\ markSaga("compensating")
    /\ UnwindFrom(c, pos[c])
    /\ UNCHANGED <<world, seen, failures, crashes>>

\* stepStatus: only a completed or a running step has something to undo.
skipStep(c) ==
    /\ pc[c] = "status"
    /\ step[pos[c]] \notin {"completed", "running"}
    /\ UnwindFrom(c, pos[c] - 1)
    /\ UNCHANGED <<rows, world, seen, failures, crashes>>

chooseStep(c) ==
    /\ pc[c] = "status"
    /\ step[pos[c]] \in {"completed", "running"}
    /\ Goto(c, IF pos[c] \in Undoable THEN "compensating" ELSE "nothing")
    /\ UNCHANGED <<rows, world, pos, seen, failures, crashes>>

\* A nil Compensate: the step is recorded as compensated.
markNothing(c) ==
    /\ pc[c] = "nothing"
    /\ markStep(c, "compensated")
    /\ UnwindFrom(c, pos[c] - 1)
    /\ UNCHANGED <<world, seen, failures, crashes>>

markCompensating(c) ==
    /\ pc[c] = "compensating"
    /\ markStep(c, "compensating")
    /\ Goto(c, "undo")
    /\ UNCHANGED <<world, pos, seen, failures, crashes>>

\* The step's Compensate returns nil: what Do committed is undone.
Compensate(c) ==
    /\ pc[c] = "undo"
    /\ effect' = [effect EXCEPT ![pos[c]] = FALSE]
    /\ Goto(c, "compensated")
    /\ UNCHANGED <<rows, entered, pos, seen, failures, crashes>>

\* Mutant: the error is swallowed (breaks OutcomeIsTrue and CleanUnwind).
CompensateSwallowed(c) ==
    /\ pc[c] = "undo"
    /\ Goto(c, "compensated")
    /\ UNCHANGED <<rows, world, pos, seen, failures, crashes>>

\* The step's Compensate returns an error, which joins the list of failures.
CompensateFails(c) ==
    /\ pc[c] = "undo"
    /\ failures' = [failures EXCEPT ![c] = TRUE]
    /\ Goto(c, "compensation_failed")
    /\ UNCHANGED <<rows, world, pos, seen, crashes>>

markCompensated(c) ==
    /\ pc[c] = "compensated"
    /\ markStep(c, "compensated")
    /\ UnwindFrom(c, pos[c] - 1)
    /\ UNCHANGED <<world, seen, failures, crashes>>

markCompensationFailed(c) ==
    /\ pc[c] = "compensation_failed"
    /\ markStep(c, "compensation_failed")
    /\ UnwindFrom(c, pos[c] - 1)
    /\ UNCHANGED <<world, seen, failures, crashes>>

\* The outcome depends on the failures of this call, and on nothing else.
settle(c) ==
    /\ pc[c] = "settle"
    /\ markSaga(IF failures[c] THEN "failed" ELSE "compensated")
    /\ Return(c)
    /\ UNCHANGED <<world, crashes>>

-----------------------------------------------------------------------------
(* RecoverSaga, and calls cut short.                                        *)

\* Mutants: a compensated saga is driven again (breaks TerminalIsFrozen); only
\* running sagas are resumed (breaks Settles).
RecoverTerminal(c) ==
    /\ pc[c] = "idle"
    /\ head \in {"running", "compensated"}
    /\ Goto(c, "resume")
    /\ UNCHANGED <<rows, world, pos, seen, failures, crashes>>
RecoverRunning(c) ==
    /\ pc[c] = "idle"
    /\ head = "running"
    /\ Goto(c, "resume")
    /\ UNCHANGED <<rows, world, pos, seen, failures, crashes>>

\* A head that is terminal, absent or of another name ends the call with no
\* change.  A saga already unwinding resumes its unwind from the last step.
RecoverSaga(c) ==
    /\ pc[c] = "idle"
    /\ \/ /\ head = "running"
          /\ Goto(c, "resume")
          /\ UNCHANGED pos
       \/ /\ head = "compensating"
          /\ Goto(c, "unwind")
          /\ pos' = [pos EXCEPT ![c] = N]
    /\ UNCHANGED <<rows, world, seen, failures, crashes>>

\* recordedSteps, and forward from the first step not yet completed.
resume(c) ==
    /\ pc[c] = "resume"
    /\ DriveFrom(c, Resume)
    /\ UNCHANGED <<rows, world, seen, failures, crashes>>

\* The process crashes, or a store call fails and its error is returned: the
\* rows and the effects stay as they are.
Abandon(c) ==
    /\ pc[c] # "idle"
    /\ crashes < MaxCrashes
    /\ crashes' = crashes + 1
    /\ Return(c)
    /\ UNCHANGED <<rows, world>>

-----------------------------------------------------------------------------
(* The specifications.                                                      *)

Advance(c) ==
    \/ readAttempts(c) \/ markStepRunning(c) \/ Do(c) \/ DoFails(c)
    \/ markCompleted(c) \/ markFailed(c) \/ finish(c)
    \/ beginCompensate(c) \/ skipStep(c) \/ chooseStep(c) \/ markNothing(c)
    \/ markCompensating(c) \/ Compensate(c) \/ CompensateFails(c)
    \/ markCompensated(c) \/ markCompensationFailed(c) \/ settle(c)
    \/ resume(c)

\* No coordinator is inside a call for this saga.
Unattended == \A c \in Coordinators : pc[c] = "idle"

\* The documented use: recovery runs at startup, when the process that drove
\* the saga is gone ("one saga instance is driven by one coordinator at a time").
RecoverAlone(c) == Unattended /\ RecoverSaga(c)

Next == \E c \in Coordinators :
    beginSaga(c) \/ Advance(c) \/ RecoverAlone(c) \/ Abandon(c)

Spec == Init /\ [][Next]_vars

\* A call that is not cut short takes its next step, and a saga left in flight
\* is recovered by some process.
Fairness ==
    /\ \A c \in Coordinators : WF_vars(Advance(c))
    /\ WF_vars(\E c \in Coordinators : RecoverAlone(c))

FairSpec == Spec /\ Fairness

-----------------------------------------------------------------------------
(* Properties.                                                              *)

\* A saga recorded as completed has every step recorded as completed and every
\* step's effect in place.
CompletedIsWhole ==
    head = "completed" => \A i \in Steps : step[i] = "completed" /\ effect[i]

\* An unwind that ended left no step recorded as committed or possibly so, and
\* one that ended badly left a record of the compensation that broke.
UnwindIsWhole ==
    /\ head \in {"compensated", "failed"} =>
         \A i \in Steps : step[i] \notin {"completed", "running"}
    /\ head = "failed" => \E i \in Steps : step[i] = "compensation_failed"

\* An undoable effect that outlives an unwind belongs to a step whose own record
\* shows it: never to one recorded as compensated, or as never started.
LeakIsRecorded ==
    head \in {"compensated", "failed"} =>
        \A i \in Undoable : effect[i] =>
            step[i] \in {"failed", "compensating", "compensation_failed"}

\* The outcome in the head is true of the steps and of their effects, whatever
\* was interrupted and resumed on the way.
OutcomeIsTrue == CompletedIsWhole /\ UnwindIsWhole /\ LeakIsRecorded

\* A terminal saga is final: neither its record, its steps nor their effects
\* change again.
TerminalIsFrozen ==
    [][(head \in Terminal) => UNCHANGED <<head, step, effect>>]_vars

\* Without an interruption the outcome is exact: the saga ends as compensated
\* only with every undoable effect gone, and as failed only with one that is
\* still there and whose record says its compensation failed.
CleanUnwind ==
    crashes = 0 =>
        /\ head = "compensated" => \A i \in Undoable : ~effect[i]
        /\ head = "failed" =>
             \E i \in Undoable : effect[i] /\ step[i] = "compensation_failed"

\* Attempts never under-counts: a step was entered at most as often as its
\* record says, across crashes and recoveries.
AttemptsCoverEntries == \A i \in Steps : entered[i] <= attempts[i]

\* A saga that was begun ends, given recovery and finitely many crashes.
Settles == (head # "none") ~> (head \in Terminal)

\* The effects in place, and those of them that an unwind tried or gave up.
Live == {i \in Steps : effect[i]}
Tried == {i \in Live : /\ head \notin {"none", "running"}
                      /\ step[i] \in {"failed", "compensating", "compensation_failed"}}

Promise == INSTANCE SagaPromise WITH phase <- head, live <- Live, tried <- Tried

\* The coordinator, crashes and recoveries included, implements the promise of
\* SagaPromise: in-order commits, then a reverse unwind that tries everything.
PromiseSpec == Promise!Spec

\* SagaCompensated: "every committed step was successfully undone", asked of the
\* undoable steps that did not fail.  A crash while a step is compensating
\* breaks it: the recovered unwind skips that step.
CompensatedIsUndone ==
    head = "compensated" =>
        \A i \in Undoable : step[i] # "failed" => ~effect[i]
=============================================================================
