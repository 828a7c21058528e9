--------------------------- MODULE TestExecution ----------------------------
(***************************************************************************)
(* The execution of one loaded test run: TestRun.run and, below it,        *)
(* TestSuite.run and TestCase.run.  One asyncio task walks the suites, the *)
(* cases of a suite and the steps of a case, and calls the setup, execute  *)
(* and cleanup hooks the test collections supply.  A hook may return,      *)
(* raise, or never end; while it is suspended the task can be cancelled    *)
(* by an abort, which comes from another thread at any moment.             *)
(*                                                                         *)
(* Between two actions the task is suspended in a hook, or between two     *)
(* bytecodes where the abort thread can run.                               *)
(***************************************************************************)
EXTENDS Naturals, CaseSteps

CONSTANTS NumSuites,      \* suites of the run, run in the order 1, 2, ...
          CaseCount,      \* CaseCount[s]: cases of suite s
          MaxCases,       \* the largest of them
          Mandatory,      \* the mandatory suites
          Certification   \* the run executes in certification mode

SuiteIds == 1..NumSuites

ASSUME PlanAssumption ==
    /\ NumSuites \in Nat
    /\ MaxCases \in Nat
    /\ CaseCount \in [SuiteIds -> 0..MaxCases]
    /\ Mandatory \subseteq SuiteIds
    /\ Certification \in BOOLEAN

CaseIds == {t \in SuiteIds \X (1..MaxCases) : t[2] <= CaseCount[t[1]]}

CasesOf(s) == {t \in CaseIds : t[1] = s}

VARIABLES
    run,        \* state of the run
    suites,     \* suite -> [state, errors, setups, cleanups]
    cases,      \* case -> [state, errors, index, steps, failures, setups, cleanups]
    pc,         \* where the testing task is
    suite,      \* current_test_suite (0: none yet)
    case,       \* position in its cases (0: none yet)
    unwinding,  \* a CancelledError is on its way out
    cancelled,  \* cancel() was called on the testing task
    task,       \* __current_testing_task is not None
    cancelledAt \* history: where the CancelledError was raised

vars == <<run, suites, cases, pc, suite, case, unwinding, cancelled, task, cancelledAt>>
control == <<suite, case, unwinding, cancelled, task, cancelledAt>>

PC == {"idle", "created", "next_suite", "suite_setup", "next_case", "case_setup",
       "case_execute", "case_cleanup", "yield", "suite_cleanup", "mandatory_prompt",
       "returned", "raised", "done"}

Init ==
    /\ run = "PENDING"
    /\ suites = [s \in SuiteIds |->
                    [state |-> "PENDING", errors |-> FALSE, setups |-> 0, cleanups |-> 0]]
    /\ cases = [t \in CaseIds |->
                   [state |-> "PENDING", errors |-> FALSE, index |-> 1,
                    steps |-> [i \in StepIds |-> "PENDING"], failures |-> {},
                    setups |-> 0, cleanups |-> 0]]
    /\ pc = "idle"
    /\ suite = 0
    /\ case = 0
    /\ unwinding = FALSE
    /\ cancelled = FALSE
    /\ task = FALSE
    /\ cancelledAt = "nowhere"

-----------------------------------------------------------------------------
(***************************************************************************)
(* Operations on the suites: the cases and the suites after the call.      *)
(* CaseStates reads the cases AFTER the operation (cs).                     *)
(***************************************************************************)
CaseStates(cs, s) == {cs[t].state : t \in CasesOf(s)}

CompleteSuite(su, caseStates) ==
    IF Completed(su.state) THEN su
    ELSE [su EXCEPT !.state = SuiteVerdict(su.errors, caseStates)]

\* cancel_remaining_tests of one suite.
CancelCasesOf(cs, s) ==
    [t \in CaseIds |-> IF t[1] = s THEN CancelCase(cs[t]) ELSE cs[t]]

\* TestSuite.cancel of the suites in S: a no-op on a completed suite.
CasesAfterCancel(cs, S) ==
    [t \in CaseIds |-> IF t[1] \in S /\ ~Completed(suites[t[1]].state)
                       THEN CancelCase(cs[t]) ELSE cs[t]]

SuitesAfterCancel(cs, S) ==
    [s \in SuiteIds |-> IF s \in S
                        THEN CompleteSuite(suites[s], CaseStates(CasesAfterCancel(cs, S), s))
                        ELSE suites[s]]

RecordSuiteError(su) == [su EXCEPT !.errors = TRUE]

EnterCleanup(su) == [su EXCEPT !.cleanups = @ + 1]

-----------------------------------------------------------------------------
(***************************************************************************)
(* TestRun.run and the loop over the suites.                               *)
(***************************************************************************)
StartRun ==
    /\ pc = "idle"
    /\ run' = "EXECUTING"
    /\ task' = TRUE
    /\ pc' = "created"
    /\ UNCHANGED <<suites, cases, suite, case, unwinding, cancelled, cancelledAt>>

\* A task cancelled before its first step never enters its coroutine.
TaskStarts ==
    /\ pc = "created"
    /\ pc' = IF cancelled THEN "raised" ELSE "next_suite"
    /\ cancelledAt' = IF cancelled THEN "created" ELSE cancelledAt
    /\ UNCHANGED <<run, suites, cases, suite, case, unwinding, cancelled, task>>

\* A suite without cases is completed at once: no hook of it is called.
BeginSuite ==
    /\ pc = "next_suite"
    /\ suite < NumSuites
    /\ suite' = suite + 1
    /\ case' = 0
    /\ IF CasesOf(suite + 1) = {}
       THEN /\ suites' = [suites EXCEPT ![suite + 1] =
                             CompleteSuite([@ EXCEPT !.state = "EXECUTING"], {})]
            /\ pc' = "next_suite"
       ELSE /\ suites' = [suites EXCEPT ![suite + 1].state = "EXECUTING",
                                        ![suite + 1].setups = @ + 1]
            /\ pc' = "suite_setup"
    /\ UNCHANGED <<run, cases, unwinding, cancelled, task, cancelledAt>>

\* A cancellation that no await delivered ends the task as cancelled.
EndSuites ==
    /\ pc = "next_suite"
    /\ suite = NumSuites
    /\ pc' = IF cancelled THEN "raised" ELSE "returned"
    /\ cancelledAt' = IF cancelled THEN "end" ELSE cancelledAt
    /\ UNCHANGED <<run, suites, cases, suite, case, unwinding, cancelled, task>>

\* Mutant: the except clause does not cancel the remaining suites.
FinishRunForgetsRemaining ==
    /\ pc \in {"returned", "raised"}
    /\ run' = RunVerdict({suites[s].state : s \in SuiteIds})
    /\ task' = FALSE
    /\ pc' = "done"
    /\ UNCHANGED <<suites, cases, suite, case, unwinding, cancelled, cancelledAt>>

\* The except and finally clauses of TestRun.run, once the task has ended.
FinishRun ==
    /\ pc \in {"returned", "raised"}
    /\ IF pc = "raised"
       THEN /\ cases' = CasesAfterCancel(cases, SuiteIds)
            /\ suites' = SuitesAfterCancel(cases, SuiteIds)
       ELSE UNCHANGED <<suites, cases>>
    /\ run' = IF Completed(run) THEN run
              ELSE RunVerdict({suites'[s].state : s \in SuiteIds})
    /\ task' = FALSE
    /\ pc' = "done"
    /\ UNCHANGED <<suite, case, unwinding, cancelled, cancelledAt>>


(***************************************************************************)
(* TestRun.cancel, called by an API thread: only the first call reaches    *)
(* the task, which is forgotten; it raises at the next suspension point.   *)
(***************************************************************************)
Abort ==
    /\ task
    /\ task' = FALSE
    /\ cancelled' = TRUE
    /\ UNCHANGED <<run, suites, cases, pc, suite, case, unwinding, cancelledAt>>

-----------------------------------------------------------------------------
(***************************************************************************)
(* TestSuite.run.  Raising(at): the CancelledError is raised in the task,   *)
(* suspended in a hook (a cleanup that unwinds already cannot get another). *)
(***************************************************************************)
Raising ==
    /\ cancelled
    /\ ~unwinding
    /\ cancelledAt = "nowhere"
    /\ cancelledAt' = pc

SuiteSetupReturns ==
    /\ pc = "suite_setup"
    /\ pc' = "next_case"
    /\ UNCHANGED <<run, suites, cases, control>>

SuiteSetupRaises ==
    /\ pc = "suite_setup"
    /\ cases' = CancelCasesOf(cases, suite)
    /\ suites' = [suites EXCEPT ![suite] = EnterCleanup(RecordSuiteError(@))]
    /\ pc' = "suite_cleanup"
    /\ UNCHANGED <<run, control>>

\* The user answers the commissioning prompt with FAIL: the setup cancels its
\* own suite and raises.
SuiteSetupDeclined ==
    /\ pc = "suite_setup"
    /\ cases' = CasesAfterCancel(cases, {suite})
    /\ suites' = [SuitesAfterCancel(cases, {suite}) EXCEPT ![suite] =
                     EnterCleanup(RecordSuiteError(@))]
    /\ pc' = "suite_cleanup"
    /\ UNCHANGED <<run, control>>

SuiteSetupCancelled ==
    /\ pc = "suite_setup"
    /\ Raising
    /\ cases' = CasesAfterCancel(cases, {suite})
    /\ suites' = [SuitesAfterCancel(cases, {suite}) EXCEPT ![suite] = EnterCleanup(@)]
    /\ pc' = "suite_cleanup"
    /\ unwinding' = TRUE
    /\ UNCHANGED <<run, suite, case, cancelled, task>>

EnterCaseSetup(c) == [c EXCEPT !.state = "EXECUTING", !.setups = @ + 1]

BeginCase ==
    /\ pc = "next_case"
    /\ case < CaseCount[suite]
    /\ case' = case + 1
    /\ cases' = [cases EXCEPT ![<<suite, case + 1>>] = EnterCaseSetup(@)]
    /\ pc' = "case_setup"
    /\ UNCHANGED <<run, suites, suite, unwinding, cancelled, task, cancelledAt>>

EndCases ==
    /\ pc = "next_case"
    /\ case = CaseCount[suite]
    /\ suites' = [suites EXCEPT ![suite] = EnterCleanup(@)]
    /\ pc' = "suite_cleanup"
    /\ UNCHANGED <<run, cases, control>>

(***************************************************************************)
(* sleep(0) after each case.  A cancellation raised here is outside the    *)
(* try of the case and of the suite's cleanup: it leaves the suite at once.*)
(***************************************************************************)
Yield ==
    /\ pc = "yield"
    /\ IF cancelled
       THEN /\ Raising
            /\ pc' = "raised"
       ELSE /\ pc' = "next_case"
            /\ UNCHANGED cancelledAt
    /\ UNCHANGED <<run, suites, cases, suite, case, unwinding, cancelled, task>>

\* Mutant: only a case that ended FAILED counts.
MandatoryFailedOnlyFailed(cs) ==
    /\ Certification
    /\ suite \in Mandatory
    /\ \E t \in CasesOf(suite) : cs[t].state = "FAILED"

\* The mandatory check of the run's loop, after suite.run() returned.
MandatoryFailed(cs) ==
    /\ Certification
    /\ suite \in Mandatory
    /\ \E t \in CasesOf(suite) : cs[t].state # "PASSED"

\* The cleanup hook ended, with an error or without.
SuiteCleanupEnds(error) ==
    LET su == IF error THEN RecordSuiteError(suites[suite]) ELSE suites[suite]
        after == [suites EXCEPT ![suite] =
                     IF unwinding THEN su ELSE CompleteSuite(su, CaseStates(cases, suite))]
    IN /\ pc = "suite_cleanup"
       /\ IF ~unwinding /\ MandatoryFailed(cases)
          THEN /\ cases' = [t \in CaseIds |-> IF ~Completed(after[t[1]].state)
                                              THEN CancelCase(cases[t]) ELSE cases[t]]
               /\ suites' = [s \in SuiteIds |->
                                CompleteSuite(after[s], CaseStates(cases', s))]
               /\ cancelled' = (cancelled \/ task)
               /\ task' = FALSE
               /\ pc' = "mandatory_prompt"
          ELSE /\ suites' = after
               /\ pc' = IF unwinding THEN "raised" ELSE "next_suite"
               /\ UNCHANGED <<cases, cancelled, task>>
       /\ UNCHANGED <<run, suite, case, unwinding, cancelledAt>>

SuiteCleanupCancelled ==
    /\ pc = "suite_cleanup"
    /\ Raising
    /\ cases' = CasesAfterCancel(cases, {suite})
    /\ suites' = SuitesAfterCancel(cases, {suite})
    /\ pc' = "raised"
    /\ unwinding' = TRUE
    /\ UNCHANGED <<run, suite, case, cancelled, task>>

\* The run cancelled its own task before prompting: the prompt is interrupted
\* when it first waits.
MandatoryPromptCancelled ==
    /\ pc = "mandatory_prompt"
    /\ Raising
    /\ pc' = "raised"
    /\ UNCHANGED <<run, suites, cases, suite, case, unwinding, cancelled, task>>

-----------------------------------------------------------------------------
(***************************************************************************)
(* TestCase.run.                                                           *)
(***************************************************************************)
Current == <<suite, case>>

EnterCaseCleanup(c) == [c EXCEPT !.cleanups = @ + 1]

CaseSetupReturns ==
    /\ pc = "case_setup"
    /\ cases' = [cases EXCEPT ![Current] = ExecuteStep(@, @.index)]
    /\ pc' = "case_execute"
    /\ UNCHANGED <<run, suites, control>>

\* Mutant: a case whose setup raised is completed without its cleanup.
CaseSetupRaisesNoCleanup ==
    /\ pc = "case_setup"
    /\ cases' = [cases EXCEPT ![Current] = CompleteCase(RecordCaseError(@))]
    /\ pc' = "yield"
    /\ UNCHANGED <<run, suites, control>>

CaseSetupRaises ==
    /\ pc = "case_setup"
    /\ cases' = [cases EXCEPT ![Current] = EnterCaseCleanup(RecordCaseError(@))]
    /\ pc' = "case_cleanup"
    /\ UNCHANGED <<run, suites, control>>

\* The user declines in a commissioning prompt of the case's own setup.
CaseSetupDeclined ==
    /\ pc = "case_setup"
    /\ cases' = [cases EXCEPT ![Current] =
                    EnterCaseCleanup(RecordCaseError(CancelCase(@)))]
    /\ pc' = "case_cleanup"
    /\ UNCHANGED <<run, suites, control>>

\* Mutant: execute catches the cancellation and carries on.
CaseHookCancelledSetupOnly ==
    /\ pc = "case_setup"
    /\ Raising
    /\ cases' = [cases EXCEPT ![Current] = EnterCaseCleanup(CancelCase(@))]
    /\ pc' = "case_cleanup"
    /\ unwinding' = TRUE
    /\ UNCHANGED <<run, suites, suite, case, cancelled, task>>

\* Cancelled in setup or in execute: the same handling (the finally clause of
\* execute finds a completed step).
CaseHookCancelled ==
    /\ pc \in {"case_setup", "case_execute"}
    /\ Raising
    /\ cases' = [cases EXCEPT ![Current] = EnterCaseCleanup(CancelCase(@))]
    /\ pc' = "case_cleanup"
    /\ unwinding' = TRUE
    /\ UNCHANGED <<run, suites, suite, case, cancelled, task>>

\* What the execute hook calls on its case.
StepOperation(updated) ==
    /\ pc = "case_execute"
    /\ cases' = [cases EXCEPT ![Current] = updated]
    /\ UNCHANGED <<run, suites, pc, control>>

NextStep == StepOperation(NextStepOf(cases[Current]))

MarkStepFailure == StepOperation(FailStepOf(cases[Current]))

\* The hook reports a step as skipped, or the operator says so of a step that has
\* failed already (a prompt cancelled with that answer).
MarkStepNotApplicable == StepOperation(SkipStepOf(cases[Current]))

MarkStepCompleted == StepOperation(CompleteStepOf(cases[Current]))

MarkCaseNotApplicable == StepOperation(CaseNotApplicableOf(cases[Current]))

SkipToLastStep == StepOperation(SkipToLastStepOf(cases[Current]))

CaseExecuteReturns ==
    /\ pc = "case_execute"
    /\ cases' = [cases EXCEPT ![Current] = EnterCaseCleanup(CompleteStep(@, @.index))]
    /\ pc' = "case_cleanup"
    /\ UNCHANGED <<run, suites, control>>

\* The error is recorded on the step, not on the case.
CaseExecuteRaises ==
    /\ pc = "case_execute"
    /\ cases' = [cases EXCEPT ![Current] =
                    EnterCaseCleanup([@ EXCEPT !.steps[@.index] = "ERROR"])]
    /\ pc' = "case_cleanup"
    /\ UNCHANGED <<run, suites, control>>

\* Mutant: the case is completed first and its cleanup called then.
CaseCleanupEndsLate(error) ==
    LET done == CompleteCase(cases[Current])
        c == IF error THEN RecordCaseError(done) ELSE done
    IN /\ pc = "case_cleanup"
       /\ IF unwinding
          THEN /\ cases' = [CasesAfterCancel(cases, {suite}) EXCEPT ![Current] = c]
               /\ suites' = [SuitesAfterCancel(cases, {suite}) EXCEPT ![suite] =
                                EnterCleanup(@)]
               /\ pc' = "suite_cleanup"
          ELSE /\ cases' = [cases EXCEPT ![Current] = c]
               /\ pc' = "yield"
               /\ UNCHANGED suites
       /\ UNCHANGED <<run, control>>

\* The cleanup hook ended.  While unwinding, the suite is cancelled next and
\* its own cleanup called.
CaseCleanupEnds(error) ==
    LET c == IF error THEN RecordCaseError(cases[Current]) ELSE cases[Current]
        after == [cases EXCEPT ![Current] = IF unwinding THEN c ELSE CompleteCase(c)]
    IN /\ pc = "case_cleanup"
       /\ IF unwinding
          THEN /\ cases' = CasesAfterCancel(after, {suite})
               /\ suites' = [SuitesAfterCancel(after, {suite}) EXCEPT ![suite] =
                                EnterCleanup(@)]
               /\ pc' = "suite_cleanup"
          ELSE /\ cases' = after
               /\ pc' = "yield"
               /\ UNCHANGED suites
       /\ UNCHANGED <<run, control>>

CaseCleanupCancelled ==
    LET after == [cases EXCEPT ![Current] = CancelCase(@)]
    IN /\ pc = "case_cleanup"
       /\ Raising
       /\ cases' = CasesAfterCancel(after, {suite})
       /\ suites' = [SuitesAfterCancel(after, {suite}) EXCEPT ![suite] = EnterCleanup(@)]
       /\ pc' = "suite_cleanup"
       /\ unwinding' = TRUE
       /\ UNCHANGED <<run, suite, case, cancelled, task>>

-----------------------------------------------------------------------------
Terminated == pc = "done" /\ UNCHANGED vars

SuiteStep ==
    \/ TaskStarts \/ BeginSuite \/ EndSuites
    \/ SuiteSetupReturns \/ SuiteSetupRaises \/ SuiteSetupDeclined \/ SuiteSetupCancelled
    \/ BeginCase \/ EndCases \/ Yield
    \/ \E error \in BOOLEAN : SuiteCleanupEnds(error)
    \/ SuiteCleanupCancelled \/ MandatoryPromptCancelled

CaseStep ==
    \/ CaseSetupReturns \/ CaseSetupRaises \/ CaseSetupDeclined \/ CaseHookCancelled
    \/ NextStep \/ MarkStepFailure \/ MarkStepNotApplicable
    \/ MarkStepCompleted \/ MarkCaseNotApplicable \/ SkipToLastStep
    \/ CaseExecuteReturns \/ CaseExecuteRaises
    \/ \E error \in BOOLEAN : CaseCleanupEnds(error)
    \/ CaseCleanupCancelled

Next == StartRun \/ FinishRun \/ Abort \/ SuiteStep \/ CaseStep \/ Terminated

(***************************************************************************)
(* Fairness.  The event loop runs a task that is ready (the steps of the   *)
(* loops), delivers a cancellation to a suspended hook, and cleanup hooks  *)
(* end.  Setup and execute hooks may wait forever.                         *)
(***************************************************************************)
Cancelling ==
    \/ SuiteSetupCancelled \/ SuiteCleanupCancelled \/ MandatoryPromptCancelled
    \/ CaseHookCancelled \/ CaseCleanupCancelled

Cleaning ==
    \E error \in BOOLEAN : SuiteCleanupEnds(error) \/ CaseCleanupEnds(error)

Looping == TaskStarts \/ BeginSuite \/ EndSuites \/ BeginCase \/ EndCases \/ Yield \/ FinishRun

Spec == Init /\ [][Next]_vars

FairSpec == Spec /\ WF_vars(Cancelling) /\ WF_vars(Cleaning) /\ WF_vars(Looping)

-----------------------------------------------------------------------------
(***************************************************************************)
(* Properties.                                                             *)
(***************************************************************************)
(* A run reported PASSED hides nothing: no suite or case of it failed,     *)
(* errored, was cancelled or was left open, and every step of a case that  *)
(* counts as passed has passed or does not apply.  A failure recorded on   *)
(* it was overruled: its step was marked not applicable afterwards.  A run *)
(* ends PENDING, and would be offered for execution again, only when the   *)
(* execute hook of some case returned with steps it never reached          *)
(* (TestRun.__compute_state and those below it).                           *)
PassedRunIsClean ==
    run = "PASSED" =>
        /\ \A s \in SuiteIds : suites[s].state \in {"PASSED", "NOT_APPLICABLE"}
        /\ \A t \in CaseIds :
              /\ cases[t].state \in {"PASSED", "NOT_APPLICABLE"}
              /\ cases[t].state = "PASSED" =>
                    /\ StateSet(cases[t].steps) \subseteq {"PASSED", "NOT_APPLICABLE"}
                    /\ \A i \in cases[t].failures : cases[t].steps[i] = "NOT_APPLICABLE"

PendingRunHasSkippedSteps ==
    run = "PENDING" =>
        \E t \in CaseIds : /\ cases[t].state = "PENDING"
                           /\ cases[t].setups = 1
                           /\ "PENDING" \in StateSet(cases[t].steps)

(* An error recorded on a suite or a case is its outcome, or it was        *)
(* cancelled.  The one exception: an error of the cleanup hooks while an   *)
(* abort unwinds comes after cancel() has computed the outcome, which may  *)
(* be PASSED.                                                              *)
ErrorsAreReported ==
    /\ \A s \in SuiteIds :
          suites[s].errors =>
             \/ suites[s].state \in {"ERROR", "CANCELLED"}
             \/ unwinding /\ s = suite
    /\ \A t \in CaseIds :
          cases[t].errors =>
             \/ cases[t].state \in {"ERROR", "CANCELLED"}
             \/ unwinding /\ t = Current

(* What the verdicts of a run, its suites and cases say about each other   *)
(* when it has ended: the three above.                                     *)
VerdictOfRun ==
    pc = "done" => PassedRunIsClean /\ PendingRunHasSkippedSteps /\ ErrorsAreReported

(* A case whose setup hook was called has its cleanup hook called exactly  *)
(* once before the task goes on to anything else, whichever of its hooks   *)
(* raised or was cancelled; a case that was never set up is never cleaned. *)
(* The same of a suite, except the one a cancellation leaves at the yield  *)
(* between two of its cases.                                               *)
CaseCleanedUp ==
    \A t \in CaseIds :
        /\ cases[t].cleanups <= cases[t].setups
        /\ t # Current \/ pc \notin {"case_setup", "case_execute"} =>
              cases[t].cleanups = cases[t].setups

SuiteCleanedUp ==
    \A s \in SuiteIds :
        /\ suites[s].cleanups <= suites[s].setups
        /\ s < suite \/ pc \in {"next_suite", "returned", "raised", "done"} =>
              \/ suites[s].cleanups = suites[s].setups
              \/ s = suite /\ cancelledAt = "yield"

CleanedUpOnce == CaseCleanedUp /\ SuiteCleanedUp

(* In certification mode nothing runs after a mandatory suite in which a   *)
(* case did not pass: every later suite was never set up.                  *)
MandatoryFailureStopsRun ==
    \A s \in SuiteIds \cap Mandatory :
        Certification /\ s < suite => \A t \in CasesOf(s) : cases[t].state = "PASSED"

(* Once a cancelled run is over, nothing of what it had not finished is    *)
(* left open: every suite, and every case of a later suite or of the one   *)
(* it was in (if that had not finished), has a final state.                *)
NothingLeftOpen ==
    pc = "done" /\ cancelledAt # "nowhere" =>
        /\ Completed(run)
        /\ \A s \in SuiteIds : Completed(suites[s].state)
        /\ \A t \in CaseIds :
              \/ t[1] > suite
              \/ t[1] = suite /\ cancelledAt \notin {"end", "mandatory_prompt"}
              => Completed(cases[t].state)

(* No completion, cancellation or error handling revises a bad outcome.    *)
(* Only the execute hook of a case revises a step of its own that failed:  *)
(* it may mark it not applicable (a manual prompt), or start it again (a   *)
(* python script that fails at its last step), but a failure is never      *)
(* forgotten: no order of step operations makes such a step PASSED.  A bad *)
(* case keeps its state, and so does a finished suite.                     *)
Bad == {"FAILED", "ERROR", "CANCELLED"}

VerdictsStand ==
    [][/\ \A t \in CaseIds, i \in StepIds :
             /\ cases[t].steps[i] \in Bad =>
                   \/ cases'[t].steps[i] = cases[t].steps[i]
                   \/ t = Current /\ pc = "case_execute"
             /\ i \in cases[t].failures => cases'[t].steps[i] \notin {"PASSED", "PENDING"}
       /\ \A t \in CaseIds : cases[t].state \in Bad => cases'[t].state = cases[t].state
       /\ \A s \in SuiteIds :
             Completed(suites[s].state) => suites'[s].state = suites[s].state]_vars

(* An abort that reached the task ends the run, even if the hook it was in *)
(* would never have returned.                                              *)
AbortEndsRun == cancelled ~> pc = "done"
=============================================================================
