----------------------------- MODULE TestStates -----------------------------
(***************************************************************************)
(* The states a test step, test case, test suite and test run share        *)
(* (TestStateEnum), and the roll-up that computes the state of a level     *)
(* from the states of the level below: pure functions of the code, used by *)
(* every module of the test engine.                                        *)
(***************************************************************************)

TestState == {"PENDING", "EXECUTING", "PASSED", "FAILED", "ERROR",
              "NOT_APPLICABLE", "CANCELLED"}

(***************************************************************************)
(* completed() of the run, the suite and the step.  A test case differs:   *)
(* NOT_APPLICABLE may be set while the case still runs, so the case does   *)
(* not count as completed in it.                                           *)
(***************************************************************************)
Completed(state) == state \notin {"PENDING", "EXECUTING"}

CaseCompleted(state) == state \notin {"PENDING", "EXECUTING", "NOT_APPLICABLE"}

\* Mutant: the roll-up does not look for failures.
RollUpIgnoresFailed(states) ==
    IF "CANCELLED" \in states THEN "CANCELLED"
    ELSE IF "ERROR" \in states THEN "ERROR"
    ELSE IF "PENDING" \in states THEN "PENDING"
    ELSE IF states \subseteq {"NOT_APPLICABLE"} THEN "NOT_APPLICABLE"
    ELSE "PASSED"

(***************************************************************************)
(* __compute_state of the run and the suite from the SET of the states     *)
(* below: the first of these that occurs.  EXECUTING is not looked for, so *)
(* a level below that is still executing counts as passed.                 *)
(***************************************************************************)
RollUp(states) ==
    IF "CANCELLED" \in states THEN "CANCELLED"
    ELSE IF "ERROR" \in states THEN "ERROR"
    ELSE IF "FAILED" \in states THEN "FAILED"
    ELSE IF "PENDING" \in states THEN "PENDING"
    ELSE IF states \subseteq {"NOT_APPLICABLE"} THEN "NOT_APPLICABLE"
    ELSE "PASSED"

RunVerdict(suiteStates) == RollUp(suiteStates)

SuiteVerdict(hasErrors, caseStates) ==
    IF hasErrors THEN "ERROR" ELSE RollUp(caseStates)

\* The case keeps a NOT_APPLICABLE it was given, and steps that do not apply
\* do not make the case not applicable.
CaseVerdict(hasErrors, state, stepStates) ==
    IF hasErrors THEN "ERROR"
    ELSE IF state = "NOT_APPLICABLE" THEN "NOT_APPLICABLE"
    ELSE IF stepStates \subseteq {"NOT_APPLICABLE"} THEN "PASSED"
    ELSE RollUp(stepStates)

\* Only a step without recorded errors is still open when it is completed.
StepVerdict(hasFailures) == IF hasFailures THEN "FAILED" ELSE "PASSED"
=============================================================================
