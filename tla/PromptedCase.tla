---------------------------- MODULE PromptedCase ----------------------------
(***************************************************************************)
(* A test case that asks the operator: a manual one (ManualTestCase) and   *)
(* the YAML ones, automated and semi-automated with chip-tool and          *)
(* simulated with an app (ChipTest, ChipManualPromptTest).                 *)
(*                                                                         *)
(* Each step of a case is of a kind: "start" and "automated" steps of a    *)
(* YAML test, "manual" ones the operator is asked about, an "upload" step  *)
(* at the end where a log is to be attached, and "plain" ones that a       *)
(* manual case cannot do anything with.                                    *)
(*                                                                         *)
(* The runner of YAML tests is a library: it calls the hooks of the case   *)
(* for each step of the test, and an exception of a hook ends its run.     *)
(***************************************************************************)
EXTENDS Naturals, Sequences, TestStates

CONSTANT Cases   \* records [kind, steps]: kind "manual", "tool", "semi" or "app"

\* The steps a case is created with: those of a YAML test are between its start
\* and, where the operator is asked for a log, the upload of that.
WellFormed(small) ==
    LET length == Len(small.steps)
    IN  /\ small.steps \in Seq({"start", "automated", "manual", "plain", "upload"})
        /\ length > 0
        /\ \/ /\ small.kind = "manual"
              /\ \A i \in 1..length : small.steps[i] \in
                    (IF i = length THEN {"upload"} ELSE {"manual", "plain"})
           \/ /\ small.kind = "semi" /\ length > 1
              /\ \A i \in 1..length : small.steps[i] \in
                    (IF i = 1 THEN {"start"}
                     ELSE IF i = length THEN {"upload"} ELSE {"automated", "manual"})
           \/ /\ small.kind \in {"tool", "app"}
              /\ \A i \in 1..length : small.steps[i] \in
                    (IF i = 1 THEN {"start"} ELSE {"automated", "manual"})

VARIABLES
    case,        \* the case that runs
    c,           \* its state and steps, as in CaseSteps
    pc,          \* what the case does
    position,    \* the step of the YAML test the runner is at
    scheduled,   \* steps whose prompt for a controller action is a new task
    shown,       \* steps with such a prompt on display
    current,     \* the step of the current prompt exchange, 0 for none
    file,        \* the file a client uploads: "none", "log", "image", "handled"
    bad,         \* the steps something bad was said of
    aborted

vars == <<case, c, pc, position, scheduled, shown, current, file, bad, aborted>>
prompts == <<scheduled, shown, current>>

StepCount == Len(case.steps)

Steps(n) == INSTANCE CaseSteps WITH NumSteps <- n

Kind(i) == case.steps[i]

Next1(r) == Steps(StepCount)!NextStepOf(r)
Fail(r) == Steps(StepCount)!FailStepOf(r)
Skip(r) == Steps(StepCount)!SkipStepOf(r)
CompleteCurrent(r) == Steps(StepCount)!CompleteStepOf(r)

Init ==
    /\ case \in Cases
    /\ c = [state |-> "EXECUTING", errors |-> FALSE, failures |-> {}, index |-> 1,
            steps |-> [i \in 1..Len(case.steps) |-> "PENDING"]]
    /\ pc = "setup"
    /\ position = 0
    /\ scheduled = {} /\ shown = {} /\ current = 0
    /\ file = "none"
    /\ bad = {}
    /\ aborted = FALSE

\* The case goes from one point to another, and its record becomes r.
Goes(from, to, r) ==
    /\ pc = from
    /\ pc' = to
    /\ c' = r
    /\ UNCHANGED <<case, aborted>>

\* An exception leaves execute: the step gets the error, whatever it was.
Raised(from, blamed) ==
    /\ Goes(from, "cleanup", [c EXCEPT !.steps[c.index] = "ERROR"])
    /\ bad' = bad \cup blamed

----------------------------------------------------------------------------
(* Setup and cleanup.                                                      *)

SetUp ==
    /\ Goes("setup", IF case.kind = "manual" THEN "next" ELSE "start",
            Steps(StepCount)!ExecuteStep(c, 1))
    /\ UNCHANGED <<position, prompts, file, bad>>

\* Without the SDK container there is nothing to run a YAML test in.
SetUpRaises ==
    /\ case.kind # "manual"
    /\ Goes("setup", "cleanup", Steps(StepCount)!RecordCaseError(c))
    /\ UNCHANGED <<position, prompts, file, bad>>

CleanUp ==
    /\ Goes("cleanup", "done", Steps(StepCount)!CompleteCase(c))
    /\ UNCHANGED <<position, prompts, file, bad>>

Waiting == {"start", "asked", "in step", "verifying", "uploading"}

Abort ==
    /\ pc \in Waiting
    /\ pc' = "done"
    /\ c' = Steps(StepCount)!CancelCase(c)
    /\ aborted' = TRUE
    /\ UNCHANGED <<case, position, prompts, file, bad>>

----------------------------------------------------------------------------
(* The question about a manual step.  A response without an answer is an   *)
(* error, also when the prompt timed out or was cancelled; one that was    *)
(* cancelled and has an answer fails the step and then counts like any.    *)

Responses == [cancelled : BOOLEAN, answer : {"PASS", "FAIL", "NOT_APPLICABLE", "unknown", "none"}]

TimedOut == [cancelled |-> FALSE, answer |-> "none"]

Unusable(response) == response.answer \in {"unknown", "none"}

IsBad(response) == response.cancelled \/ response.answer \notin {"PASS", "NOT_APPLICABLE"}

Judged(response) ==
    LET r == IF response.cancelled THEN Fail(c) ELSE c
    IN CASE response.answer = "PASS" -> r
         [] response.answer = "FAIL" -> Fail(r)
         [] response.answer = "NOT_APPLICABLE" -> Skip(r)

\* What a response does at the point from, which goes on at the point to.
Respond(from, to, response) ==
    /\ IF Unusable(response)
       THEN Raised(from, {c.index})
       ELSE /\ Goes(from, to, Next1(Judged(response)))
            /\ bad' = IF IsBad(response) THEN bad \cup {c.index} ELSE bad
    /\ UNCHANGED <<position, prompts, file>>

----------------------------------------------------------------------------
(* ManualTestCase.execute: all steps but the last, then the upload.        *)

PassOver ==
    /\ c.index < StepCount /\ Kind(c.index) # "manual"
    /\ Goes("next", "next", Next1(c))
    /\ UNCHANGED <<position, prompts, file, bad>>

Ask ==
    /\ c.index < StepCount /\ Kind(c.index) = "manual"
    /\ Goes("next", "asked", c)
    /\ UNCHANGED <<position, prompts, file, bad>>

Answer(response) == Respond("asked", "next", response)

EndOfSteps ==
    /\ c.index = StepCount
    /\ Goes("next", "upload", c)
    /\ UNCHANGED <<position, prompts, file, bad>>

----------------------------------------------------------------------------
(* The upload of a log, which both kinds of cases end with.  Its step is   *)
(* not asked for when the operator skipped all the manual ones.            *)

ManualSteps == {i \in 1..(StepCount - 1) : case.kind = "manual" \/ Kind(i) = "manual"}

SkippedAllManualSteps == \A i \in ManualSteps : c.steps[i] = "NOT_APPLICABLE"

\* A semi-automated case whose run ended early is not at its last step.
EndWithoutUpload ==
    /\ Goes("upload", "cleanup",
            IF Kind(c.index) = "upload" THEN Skip(c) ELSE CompleteCurrent(c))
    /\ Kind(c.index) = "upload" => SkippedAllManualSteps
    /\ UNCHANGED <<position, prompts, file, bad>>

AskForUpload ==
    /\ Kind(c.index) = "upload" /\ ~SkippedAllManualSteps
    /\ Goes("upload", "uploading", c)
    /\ UNCHANGED <<position, prompts, file, bad>>

\* Nothing here looks whether a file has come.
UploadAnswered(status) ==
    /\ CASE status = "TIMEOUT" -> Raised("uploading", {c.index})
         [] status = "CANCELLED" -> /\ Goes("uploading", "cleanup", Fail(c))
                                    /\ bad' = bad \cup {c.index}
         [] status \in {"OKAY", "INVALID"} -> /\ Goes("uploading", "cleanup", CompleteCurrent(c))
                                              /\ bad' = bad
    /\ UNCHANGED <<position, prompts, file>>

\* The client sends its file when it is asked to; the request is a thread
\* of the server, which gets to the case whenever it does.
SendFile ==
    /\ pc = "uploading" /\ file = "none"
    /\ file' \in {"log", "image"}
    /\ UNCHANGED <<case, c, pc, position, prompts, bad, aborted>>

HandleUploadedFile ==
    /\ file \in {"log", "image"}
    /\ file' = "handled"
    /\ c' = IF file = "image" THEN Fail(c) ELSE c
    /\ bad' = IF file = "image" /\ pc = "uploading" THEN bad \cup {c.index} ELSE bad
    /\ UNCHANGED <<case, pc, position, prompts, aborted>>

----------------------------------------------------------------------------
(* The hooks of a YAML test.  The first step of the case is that of the    *)
(* start of the test, so the step of the case is one ahead of the test's.  *)

\* The steps of the test: not its start, and not the upload.
TestLength == StepCount - (IF case.kind = "semi" THEN 2 ELSE 1)

ParsingFails ==
    /\ Goes("start", "stopped", [c EXCEPT !.steps[c.index] = "ERROR"])
    /\ UNCHANGED <<position, prompts, file, bad>>

\* Mutant: the step for the start of the test is not left.
TestStartStays ==
    /\ Goes("start", "run", c)
    /\ UNCHANGED <<position, prompts, file, bad>>

TestStart ==
    /\ Goes("start", "run", Next1(c))
    /\ UNCHANGED <<position, prompts, file, bad>>

\* The prompt for the controller is left to a task of its own.
StepStart ==
    /\ position < TestLength
    /\ Goes("run", "in step", c)
    /\ position' = position + 1
    /\ scheduled' = IF case.kind = "app" /\ Kind(c.index) # "manual"
                    THEN scheduled \cup {position'} ELSE scheduled
    /\ UNCHANGED <<shown, current, file, bad>>

\* A hook that ends a step answers the current exchange, if that is open.
AnswerCurrent == shown' = shown \ {current} /\ UNCHANGED <<scheduled, current>>

StepSuccess ==
    /\ Kind(c.index) # "manual"
    /\ Goes("in step", "run", Next1(c))
    /\ AnswerCurrent
    /\ UNCHANGED <<position, file, bad>>

StepFailure ==
    /\ Kind(c.index) # "manual"
    /\ Goes("in step", "run", Next1(Fail(c)))
    /\ AnswerCurrent
    /\ bad' = bad \cup {position + 1}
    /\ UNCHANGED <<position, file>>

StepSkipped ==
    /\ position < TestLength
    /\ Goes("run", "run", Next1(Skip(c)))
    /\ position' = position + 1
    /\ AnswerCurrent
    /\ UNCHANGED <<file, bad>>

\* The current exchange is now that of the manual step.
StepManual ==
    /\ Kind(c.index) = "manual"
    /\ Goes("in step", "verifying", c)
    /\ current' = 0
    /\ UNCHANGED <<position, scheduled, shown, file, bad>>

Verified(response) == Respond("verifying", "run", response)

\* The hook waits no longer than its prompt does: which of the two timers
\* is first decides between a failed step and an exception.
OuterTimeout ==
    /\ Goes("verifying", "run", Next1(Fail(c)))
    /\ bad' = bad \cup {c.index}
    /\ UNCHANGED <<position, prompts, file>>

\* The connection to the server is lost, or the server gives no answer.
RunnerRaises ==
    /\ \E from \in {"start", "in step"} : Raised(from, {})
    /\ UNCHANGED <<position, prompts, file>>

\* With an upload step, that is the current step by now.
TestStop ==
    /\ position = TestLength
    /\ Goes("run", "stopped", CompleteCurrent(c))
    /\ UNCHANGED <<position, prompts, file, bad>>

RunTestReturns ==
    /\ Goes("stopped", IF case.kind = "semi" THEN "upload" ELSE "cleanup",
            IF case.kind = "semi" THEN Next1(c) ELSE CompleteCurrent(c))
    /\ UNCHANGED <<position, prompts, file, bad>>

PromptForAction(i) ==
    /\ i \in scheduled
    /\ scheduled' = scheduled \ {i}
    /\ shown' = shown \cup {i}
    /\ current' = i
    /\ UNCHANGED <<case, c, pc, position, file, bad, aborted>>

\* The controller is told to go on, or a minute has passed.
ActionPromptEnds(i) ==
    /\ i \in shown
    /\ shown' = shown \ {i}
    /\ UNCHANGED <<case, c, pc, position, scheduled, current, file, bad, aborted>>

----------------------------------------------------------------------------
\* Mutant: a prompt without a timer.
TimersNever == FALSE /\ UNCHANGED vars

Timers == Answer(TimedOut) \/ Verified(TimedOut) \/ OuterTimeout \/ UploadAnswered("TIMEOUT")

Engine ==
    \/ SetUp \/ SetUpRaises \/ CleanUp
    \/ PassOver \/ Ask \/ EndOfSteps
    \/ EndWithoutUpload \/ AskForUpload
    \/ ParsingFails \/ TestStart \/ StepStart \/ StepSuccess \/ StepFailure \/ StepSkipped
    \/ StepManual \/ RunnerRaises \/ TestStop \/ RunTestReturns

Operator ==
    \/ Abort
    \/ \E response \in Responses \ {TimedOut} : Answer(response) \/ Verified(response)
    \/ \E status \in {"OKAY", "INVALID", "CANCELLED"} : UploadAnswered(status)
    \/ SendFile \/ HandleUploadedFile

Next ==
    \/ Timers
    \/ Engine
    \/ Operator
    \/ \E i \in 1..StepCount : PromptForAction(i) \/ ActionPromptEnds(i)

\* The loop runs what is ready and the timers fire; the operator need not
\* do anything.
Spec == Init /\ [][Next]_vars /\ WF_vars(Engine) /\ WF_vars(Timers)

----------------------------------------------------------------------------
\* What the operator or the test says of a step is said of that step of the
\* case, a case passes only if nothing bad was said that the operator did
\* not take back as not applicable, and it passes only when no step is left
\* (ManualTestCase.execute, the hooks of ChipTest and their next_step).
BlameIsRight ==
    pc = "done" =>
        /\ \A i \in bad : c.steps[i] \in {"FAILED", "ERROR", "NOT_APPLICABLE"}
        /\ \A i \in 1..StepCount : c.steps[i] = "FAILED" => i \in bad \/ Kind(i) = "upload"
        /\ c.state = "PASSED" =>
              /\ \A i \in bad : c.steps[i] = "NOT_APPLICABLE"
              /\ \A i \in 1..StepCount : c.steps[i] \notin {"PENDING", "EXECUTING"}

\* Every case ends, though the operator may never answer (the timeouts of
\* the prompts and of step_manual).
CaseEnds == <>(pc = "done")
=============================================================================
