---------------------------- MODULE HarnessTest -----------------------------
(***************************************************************************)
(* A python test case and its test harness.  The test runs in a process of *)
(* its own, in the SDK container.  It reports through hooks (an object in  *)
(* a manager process, called over a socket), which put an update into a    *)
(* queue.  The execute hook of the test case polls the queue and maps the  *)
(* updates to operations on its steps.                                     *)
(*                                                                         *)
(* Each call of the hooks, by either side, is an action.  Which hooks a    *)
(* script calls in which order is the SDK's business and external.         *)
(***************************************************************************)
EXTENDS Naturals, Sequences, CaseSteps

CONSTANTS Flavours,   \* types of the python test: "commissioning", "legacy"
          ExtraSteps  \* steps a legacy script has beyond those it declares

\* "Start test", the declared steps, and "Show test logs".
ASSUME HarnessAssumption ==
    /\ NumSteps >= 2
    /\ Flavours \subseteq {"commissioning", "legacy"}
    /\ ExtraSteps \in Nat

VARIABLES
    flavour,  \* python_test_type of the test case
    case,     \* [state, errors, index, steps, failures]
    stopped,  \* test_stop_called
    loop,     \* where execute is
    queue,    \* SDKPythonTestRunnerHooks.results
    finished, \* SDKPythonTestRunnerHooks.finished
    harness,  \* state of the harness process
    last,     \* the hook the harness called last
    started,  \* number of steps its script started
    reports,  \* history: hooks called so far, without the late ones
    late      \* history: hooks called since execute found the queue empty

vars == <<flavour, case, stopped, loop, queue, finished, harness, last, started,
          reports, late>>
backend == <<flavour, case, stopped, loop>>
script == <<harness, last, started>>

Ended == {"over", "raised", "aborted"}

Init ==
    /\ flavour \in Flavours
    /\ case = [state |-> "EXECUTING", errors |-> FALSE, index |-> 1,
               steps |-> [i \in StepIds |-> IF i = 1 THEN "EXECUTING" ELSE "PENDING"],
               failures |-> {}]
    /\ stopped = FALSE
    /\ loop = "poll"
    /\ queue = <<>>
    /\ finished = FALSE
    /\ harness = "starting"
    /\ last = "connect"
    /\ started = 0
    /\ reports = {}
    /\ late = {}

-----------------------------------------------------------------------------
(***************************************************************************)
(* The harness.                                                            *)
(***************************************************************************)
\* What a script calls after what (external).
Follows ==
    [connect      |-> {"start"},
     start        |-> {"test_start"},
     test_start   |-> {"step_start", "step_failure", "test_skipped", "test_stop"},
     step_start   |-> {"step_success", "step_failure", "step_skipped", "show_prompt"},
     show_prompt  |-> {"step_success", "step_failure"},
     step_success |-> {"step_start", "test_stop"},
     step_skipped |-> {"step_start", "test_stop"},
     step_failure |-> {"test_stop"},
     test_skipped |-> {"test_stop"},
     test_stop    |-> {"stop"}]

ScriptSteps == NumSteps - 2 + (IF flavour = "legacy" THEN ExtraSteps ELSE 0)

Put(hook) ==
    /\ queue' = Append(queue, hook)
    /\ IF loop = "check"
       THEN late' = late \cup {hook} /\ UNCHANGED reports
       ELSE reports' = reports \cup {hook} /\ UNCHANGED late

\* The harness makes its own hooks object, which resets the shared class
\* attributes once more.
Connect ==
    /\ harness = "starting"
    /\ harness' = "running"
    /\ queue' = <<>>
    /\ finished' = FALSE
    /\ UNCHANGED <<backend, last, started, reports, late>>

\* A script that shows a prompt reads the answer from its standard input.
CallHook(hook) ==
    /\ harness = "running"
    /\ last \in DOMAIN Follows
    /\ hook \in Follows[last]
    /\ hook = "step_start" => started < ScriptSteps
    /\ Put(hook)
    /\ last' = hook
    /\ started' = IF hook = "step_start" THEN started + 1 ELSE started
    /\ harness' = CASE hook = "show_prompt" -> "input"
                    [] hook = "stop"        -> "stopping"
                    [] OTHER                -> "running"
    /\ UNCHANGED <<backend, finished>>

\* The except clause of run_test reports the failure, and then stops.
ScriptRaises ==
    /\ harness = "running"
    /\ last # "raised"
    /\ Put("step_failure")
    /\ last' = "raised"
    /\ UNCHANGED <<backend, finished, harness, started>>

StopAfterRaise ==
    /\ harness = "running"
    /\ last = "raised"
    /\ Put("stop")
    /\ harness' = "stopping"
    /\ UNCHANGED <<backend, finished, last, started>>

\* stop() sets the flag after it has put its update.
Finish ==
    /\ harness = "stopping"
    /\ finished' = TRUE
    /\ harness' = "ended"
    /\ UNCHANGED <<backend, queue, last, started, reports, late>>

\* The process is killed, or its connection breaks: no hook is called any more.
HarnessDies ==
    /\ harness \notin {"ended", "dead"}
    /\ harness' = "dead"
    /\ UNCHANGED <<backend, queue, finished, last, started, reports, late>>

-----------------------------------------------------------------------------
(***************************************************************************)
(* The reactions of the test case to an update.                            *)
(***************************************************************************)
\* A legacy script has more steps than the case shows.
StepSkipped(c) == IF flavour = "legacy" THEN c ELSE SkipStepOf(c)

StepFailure(c) == SkipToLastStepOf(FailStepOf(c))

TestSkipped(c) == SkipToLastStepOf(CaseNotApplicableOf(c))

React(hook, c) ==
    CASE hook = "step_start"            -> NextStepOf(c)
      [] hook = "step_skipped"          -> StepSkipped(c)
      [] hook = "step_failure"          -> StepFailure(c)
      [] hook = "test_skipped"          -> TestSkipped(c)
      [] hook = "stop" /\ ~stopped      -> CompleteStepOf(c)
      [] OTHER                          -> c

-----------------------------------------------------------------------------
(***************************************************************************)
(* execute.  Its loop asks for an update first and, if there is none, then *)
(* whether the harness has finished.  Only the sleep and a prompt suspend. *)
(***************************************************************************)
\* Mutant: the end is looked for although there are updates.
PollUnlessFinished ==
    /\ loop = "poll"
    /\ finished \/ queue = <<>>
    /\ loop' = "check"
    /\ UNCHANGED <<flavour, case, stopped, queue, finished, script, reports, late>>

FindNothing ==
    /\ loop = "poll"
    /\ queue = <<>>
    /\ loop' = "check"
    /\ UNCHANGED <<flavour, case, stopped, queue, finished, script, reports, late>>

HandleUpdate ==
    /\ loop = "poll"
    /\ queue # <<>>
    /\ Head(queue) # "show_prompt"
    /\ case' = React(Head(queue), case)
    /\ stopped' = (stopped \/ Head(queue) = "test_stop")
    /\ queue' = Tail(queue)
    /\ UNCHANGED <<flavour, loop, finished, script, reports, late>>

\* execute raises: the error is the current step's (TestCase).
Raise(c) ==
    /\ case' = CompleteCase([c EXCEPT !.steps[c.index] = "ERROR"])
    /\ loop' = "raised"

HandlePrompt ==
    /\ loop = "poll"
    /\ queue # <<>>
    /\ Head(queue) = "show_prompt"
    /\ loop' = "prompt"
    /\ queue' = Tail(queue)
    /\ UNCHANGED <<flavour, case, stopped, finished, script, reports, late>>

\* The user answered with a text: it is written to the script's input.
PromptAnswered ==
    /\ loop = "prompt"
    /\ harness # "dead"
    /\ loop' = "poll"
    /\ harness' = IF harness = "input" THEN "running" ELSE harness
    /\ UNCHANGED <<flavour, case, stopped, queue, finished, last, started, reports, late>>

\* An empty answer, or none within the timeout: nothing is written.
PromptUnanswered ==
    /\ loop = "prompt"
    /\ loop' = "poll"
    /\ UNCHANGED <<flavour, case, stopped, queue, finished, script, reports, late>>

\* Writing to a harness that is gone may raise.
PromptRaises ==
    /\ loop = "prompt"
    /\ harness = "dead"
    /\ Raise(case)
    /\ UNCHANGED <<flavour, stopped, queue, finished, script, reports, late>>

\* What was put since the queue was found empty is late only if the loop ends.
Check ==
    /\ loop = "check"
    /\ loop' = IF finished THEN "logs" ELSE "sleep"
    /\ IF finished
       THEN UNCHANGED <<reports, late>>
       ELSE reports' = reports \cup late /\ late' = {}
    /\ UNCHANGED <<flavour, case, stopped, queue, finished, script>>

Sleep ==
    /\ loop = "sleep"
    /\ loop' = "poll"
    /\ UNCHANGED <<flavour, case, stopped, queue, finished, script, reports, late>>

ShowLogs ==
    LET c == IF case.index < NumSteps THEN SkipToLastStepOf(case) ELSE case
    IN /\ loop = "logs"
       /\ \/ case' = CompleteCase(CompleteStepOf(c)) /\ loop' = "over"
          \/ Raise(c)     \* the file with the logs cannot be read
       /\ UNCHANGED <<flavour, stopped, queue, finished, script, reports, late>>

Abort ==
    /\ loop \in {"sleep", "prompt"}
    /\ case' = CancelCase(case)
    /\ loop' = "aborted"
    /\ UNCHANGED <<flavour, stopped, queue, finished, script, reports, late>>

-----------------------------------------------------------------------------
Script == Connect \/ (\E hook \in DOMAIN Follows \cup {"stop"} : CallHook(hook))
          \/ ScriptRaises \/ StopAfterRaise \/ Finish

Execute ==
    \/ FindNothing \/ HandleUpdate \/ HandlePrompt \/ Check \/ Sleep \/ ShowLogs
    \/ PromptAnswered \/ PromptUnanswered \/ PromptRaises

Next == Script \/ HarnessDies \/ Execute \/ Abort

Spec == Init /\ [][Next]_vars

(***************************************************************************)
(* The event loop resumes execute, and prompts time out; a script that is  *)
(* not killed and does not wait for input goes on to its end.              *)
(***************************************************************************)
FairSpec == Spec /\ WF_vars(Execute) /\ WF_vars(Script)

-----------------------------------------------------------------------------
(***************************************************************************)
(* Properties.                                                             *)
(***************************************************************************)
(* A failure the script reported is in the verdict.  The exception: execute*)
(* asks for updates first and for the end then, and what the script calls  *)
(* in between is dropped if its end is among it.  And a test case that     *)
(* PASSED ran to its end: its harness finished, and its script started     *)
(* every step the case declares (PythonTestCase.execute).                  *)
VerdictIsTheScripts ==
    loop = "over" /\ case.state = "PASSED" =>
        /\ "step_failure" \notin reports
        /\ finished /\ started >= NumSteps - 2

(* execute ends, unless the harness dies without a last word or waits for  *)
(* an answer nobody will send: then only an abort ends it.                 *)
ExecuteEnds ==
    \/ <>(loop \in Ended)
    \/ <>[](harness = "dead" \/ (harness = "input" /\ loop # "prompt"))
=============================================================================
