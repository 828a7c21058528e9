----------------------------- MODULE CaseSteps ------------------------------
(***************************************************************************)
(* A test case and its steps: the operations of TestCase and TestStep, as  *)
(* operators on the record c of a case (fields state, errors, index of the *)
(* current step, steps and failures), which return the new record.         *)
(***************************************************************************)
EXTENDS Naturals, TestStates

CONSTANT NumSteps   \* steps of a case

ASSUME StepsAssumption == NumSteps \in Nat \ {0}

StepIds == 1..NumSteps

StateSet(f) == {f[i] : i \in DOMAIN f}

CompleteCase(c) ==
    IF CaseCompleted(c.state) THEN c
    ELSE [c EXCEPT !.state = CaseVerdict(c.errors, c.state, StateSet(c.steps))]

CancelStep(state) == IF Completed(state) THEN state ELSE "CANCELLED"

CancelCase(c) ==
    IF CaseCompleted(c.state) THEN c
    ELSE CompleteCase([c EXCEPT !.steps = [i \in StepIds |-> CancelStep(c.steps[i])]])

\* Mutant: the failures of the step are not looked at.
CompleteStepForgets(c, i) ==
    [c EXCEPT !.steps[i] = IF Completed(@) THEN @ ELSE StepVerdict(FALSE)]

\* TestStep.mark_as_completed: a no-op on a step that is already completed.
CompleteStep(c, i) ==
    [c EXCEPT !.steps[i] = IF Completed(@) THEN @ ELSE StepVerdict(i \in c.failures)]

ExecuteStep(c, i) == [c EXCEPT !.steps[i] = "EXECUTING", !.index = i]

RecordCaseError(c) == [c EXCEPT !.errors = TRUE]

NextStepOf(c) ==
    LET closed == IF c.steps[c.index] = "EXECUTING" THEN CompleteStep(c, c.index) ELSE c
    IN IF c.index < NumSteps THEN ExecuteStep(closed, c.index + 1) ELSE c

FailStepOf(c) == [c EXCEPT !.steps[c.index] = "FAILED", !.failures = @ \cup {c.index}]

\* The state is set whatever it was, a recorded failure stays recorded.
SkipStepOf(c) == [c EXCEPT !.steps[c.index] = "NOT_APPLICABLE"]

CaseNotApplicableOf(c) == [c EXCEPT !.state = "NOT_APPLICABLE"]

CompleteStepOf(c) == CompleteStep(c, c.index)

\* At the last step it starts that step once more.
SkipToLastStepOf(c) == ExecuteStep(CompleteStep(c, c.index), NumSteps)
=============================================================================
