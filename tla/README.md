# Certification tool backend: verification project

The backend of the Matter certification tool executes certification tests. A
*test run* consists of suites, a suite of cases, a case of steps. Clients start,
abort and delete runs over an HTTP API, watch the progress over web sockets and
answer the prompts that tests put to the user. The tests drive a device under
test (DUT) with tools in docker containers.

This directory holds TLA+ modules that model the backend, configurations that
model-check them with TLC, and theorems that TLAPS proves. Paths below are
relative to `src/`; `PROJECT.json` maps every definition to the lines it models.

- [1 Inventory](#1-inventory)
- [2 Modules](#2-modules)
- [3 Runs, bounds and what they show](#3-runs-bounds-and-what-they-show)
- [4 Fairness](#4-fairness)
- [5 Proofs](#5-proofs)
- [6 Where the code does not keep what it says](#6-where-the-code-does-not-keep-what-it-says)
- [7 What is not modelled](#7-what-is-not-modelled)
- [8 Plan](#8-plan)
- [9 How to run](#9-how-to-run)

## 1 Inventory

The backend is one process. Web socket endpoints, background tasks and tests run
as asyncio tasks in the event loop's thread. HTTP endpoints declared with `def`
run in a thread of a pool each. So there are two kinds of interleaving: tasks
change places only where they await; threads anywhere.

| Component | State it keeps | Operations | Correct when |
|---|---|---|---|
| Test states (`app/models/test_enums.py`, `test_engine/models/*`) | state and errors of run, suites, cases, steps | roll-up of the verdict of each level from the level below | a verdict hides nothing of what is below |
| Test execution (`test_engine/models/test_run.py`, `test_suite.py`, `test_case.py`, `test_step.py`) | current suite, case and step; the testing task | setup, execute and cleanup hooks, step operations, cancel, mandatory suites | what was set up is cleaned up once, bad verdicts stand, an abort ends the run |
| Test runner (`test_engine/test_runner.py`, a singleton) and its requests (`endpoints/test_run_executions.py`) | `state`, `test_run`; rows of the database | start, abort, status, delete; the run as a background task | one run at a time, executed once, results recorded, becomes idle again |
| User prompts (`user_prompt_support/`) | active prompts, the current exchange | send, answer, timeout, cancellation | a sender gets its own outcome; a closed prompt takes no answer |
| Web sockets (`socket_connection_manager.py`, `sockets/web_sockets.py`) | list of connections | connect, disconnect, messages, broadcast | everybody connected gets every message once |
| Observers and log handler (`test_ui_observer.py`, `test_db_observer.py`, `test_log_handler.py`) | pending records, the log of the run, what was sent, open broadcasts, rows | notify, move records, flush, save | log complete, sent once and in order, saved as it ended |
| Log utilities (`log_utils.py`) | none | group the saved log, make the archive | every entry in the file it belongs to |
| Python test cases (`sdk_tests/support/python_testing/`) | queue of updates from the harness process, the steps | hook calls over a socket, the polling loop, prompts | a failure is never lost, execute ends |
| Manual and YAML test cases (`manual_test_case.py`, `yaml_tests/models/`) | steps, open prompts, an uploaded file | hooks of the YAML library, prompts with two timers, uploads | blame falls on the right step, the case ends |
| Suite resources (`sdk_container.py`, `container_manager.py`, `chip_server.py`, `chip_suite.py`, `matter_yaml_runner.py`, `otbr_manager.py`) | singletons with handles to a container, a server, a connection, a router; the stored commissioning | start, commission, reuse a commissioning, clean up | a suite uses what it set up, and leaves nothing; tests find the device |
| Projects, operators and execution records (`crud/`, `endpoints/`) | rows | create, update, upload and remove PICS, repeat, archive, import, delete | rows keep what clients were told |
| Test selection (`test_script_manager.py`, `utils.py`) | none | from selected tests to suites and cases, and back | repeating an execution repeats its tests |
| Discovery (`sdk_python_tests.py`, `sdk_yaml_tests.py` and their parsers) | the collections, built at start-up | declare collections, suites, cases | each test declared once, in the right suite |
| PICS (`pics_applicable_test_cases.py`, `pics_parser.py`) | none | applicable test cases | what applies is supported, what is skipped does not apply |
| Performance tests (`performance_tests/`) | none | the script, the report made of its log | the report adds up |
| Sample and unit test collections (`sample_tests`, `tool_unit_tests`) | none | cases with prompts, errors, sleeps | the verdicts their descriptions promise |
| Database set-up, configuration, e-mail, scripts | none | | not modelled, see section 7 |

How they interact: a start request calls `TestRunner.load_test_run` in its
thread, which builds a `TestRun` (selection) and then queues `TestRunner.run` as
a background task. `run` subscribes the observers, installs the log handler,
awaits `TestRun.run` (execution) and flushes log, rows and broadcasts. Hooks of
suites and cases start and stop the suite resources, send prompts, and for
python tests poll the queue of the harness. An abort request calls
`task.cancel()` from another thread. Observers send their news through the web
sockets, and answers to prompts come back through them.

The behaviours that are hard, and hard to test: a `CancelledError` can be raised
at every await of every nested level, and in the cleanup that the last one
caused; requests in threads interleave between any two of their reads and
writes; lists are changed while somebody iterates over them; an attribute is
read again after an await; results come through a queue whose emptiness and end
are asked for separately; singletons and containers outlive what set them up.
`PROJECT.json` lists each at its line ("hazards"), with the properties that would
catch it going wrong.

## 2 Modules

`MC*` modules only give values to constants.

**TestStates** is the roll-up of verdicts: the order of precedence that run,
suite and case share, as the operator `RollUp`. **CaseSteps** holds the
operations on the steps of a case (`NextStepOf`, `FailStepOf`, `SkipStepOf`,
`CompleteCase`, `CancelCase`, ...) that both execution modules use.

**TestExecution** models `TestRun.run` with everything below it: one task that
walks suites, cases and steps. `pc` is where the task is suspended: a hook, a
`sleep(0)` or a bytecode boundary where the abort's thread can run. Hooks return,
raise or never end; every step operation of `TestCase` is possible in an
execute hook. `Abort` sets `cancelled`; the `...Cancelled` actions are the
delivery of the `CancelledError` at each await, with the `except` clauses of the
three levels. `setups` and `cleanups` count calls of the hooks.

**TestRunner** models the singleton and the requests, each a small program of
its own: an action is a stretch of code that no other thread can interrupt with
an effect. `row` is the database row of a run; `Crash` is a restart of the
server, `DeleteProject` the endpoint that removes the rows of a project without a
look at the runner. Nothing restricts the clients: requests overlap in every way,
an abort comes in any state, loading raises anything (`StartFault`), and so do the
run, the flush of its log and the commit of its results (`RunRaises`). The runner
checks and acts in two steps without a lock, so two requests can both pass their
checks before either acts. `races` is a history variable that collects the kinds of such pairs
(`Race`): two starts that found the runner IDLE, an abort that found it READY while the
run begins or the next start loads, a delete that found the runner without the run that is
loaded. After a race the code promises nothing but its types, and the end of a RUNNING
state; each property names the races it excepts and holds under all other schedules.
`faulted` records the loads that raised what the code does not catch, for the one property
they refute. **TestEngine** is the abstract specification: claim, take, execute, then
record or lose the results, release; after a race it allows every step until the next
restart. TestRunner implements it (`EngineSpec`). The tests that TestExecution models are
one action here (`RunEnds`), which may come at any time.

**UserPrompts** models `UserPromptManager`. Each task is at an await of
`send_prompt_request` or at one of the turns of the event loop between an answer
and the resumption of its sender, since timers and cancellations can come
between these. **PromptPromise** is the abstract prompt: shown once, closed once.

**Connections** models the list of connections and broadcasts that walk it by
index while clients come and go. What the web socket library does to a
connection that is closed on either side is external and taken from how the code
uses it.

**HarnessTest** models a python test case: the script in its own process, which
calls hooks that put updates into a queue, and the polling loop of `execute`.
The order in which the SDK calls the hooks is external (`Follows`).

**PromptedCase** models the cases that ask the operator: manual ones, whose
execute hook asks about each step, and YAML ones, whose hooks the YAML library
calls for each step of a test (which step comes next, and when, is external).
`pc` is where the case is suspended, `current` the step whose prompt is open,
`scheduled` and `shown` the prompts for a controller action, which run as tasks
nobody awaits, and `file` an upload on its way through a thread. Both timers of
a prompt are actions, as are every answer and an abort. `bad` collects the steps
of which something bad was said, in the prompts and by the test. `WellFormed` is
what the code that builds these cases ensures of them. **TestCases** puts
HarnessTest and PromptedCase together: a case of either kind, chosen in the initial
state.

**Reporting** models the way of log records and states to clients and rows:
log handler, both observers, and the order in which `TestRunner.run` flushes
them, over several runs, because the list of open broadcasts belongs to the class
and outlives a run.

**SuiteResources** models what suites set up: `sdk`, `otbr`, `started` and
`runner` are attributes of singletons; `container`, `server` and `routers` are
what docker has. `pc` follows the setup and cleanup hooks of the four kinds of
suites. Every await can be aborted, every call that leaves the backend can
raise, what docker runs can die and the backend can restart. `pics` is where the PICS
files of a project were copied to, and of which suite the copies are. The cleanup that
follows is the contract TestExecution shows (`CleanedUpOnce`): once, unless the
abort came between two cases.

**Records** models the rows of projects, operators and executions, and the
requests on them. Each thread has a request in progress, its position and what it
has read; the reads and the commits of an endpoint are actions, so requests come
between them. `project` and `execution` are functions from ids to rows; `Free` and
`Gone` are ids not yet given and deleted. A run of the engine on an execution is
`RunStarts` and `RunEnds`. **Selection**, which Records uses, holds the
operators from selected tests to pending rows (`PendingSuites`) and from the rows
of an execution back to a selection (`SelectedTests`). It gives each sequence by the
positions of its elements in the order the code visits them (`InOrder`, `Turns`), where the
code appends to lists in loops, so that what they contain can be proved.

**Answers** models what the backend computes from data. It is asked for something
once (`asked`, `input`), works on one element of it after another, as the loops of the
code do (`done`, `output`), and answers: the collections declared, the cases that
apply to a project after its uploads, the archive of a log, the report of a
performance test, the suites of a session with the commissioning each leaves to the next.
Its properties relate the answer to the input, in terms of their own rather than those
of the code. The steps and answers are the operators of the data modules, with the code's
functions as definitions and data reduced to what the properties tell apart:

- **Discovery**: from YAML files and python scripts to collections and suites;
- **Applicability**: PICS files to clusters, clusters to applicable test cases;
- **ToolCases**: each case of the tool's own collections as the operations its
  hooks perform, and the verdict `TestCase.run` comes to, by the steps of CaseSteps;
- **RunLog**: the groups of a log and the files of the archive;
- **PerformanceReport**: the script's log lines and the parser and summary of them;
- **Commissioning**: what an accepted configuration tells the python tests and
  chip-tool, and what becomes of the stored commissioning from suite to suite.

ToolCases is a finite list; **MCData**, which gives Answers its inputs, asks for the verdict of
each of its cases too.

How they fit together: TestExecution justifies the assumption of TestRunner that
a cancelled run ends, and the assumption of SuiteResources about calls of the
hooks. HarnessTest, PromptedCase and ToolCases have the same step operations as
TestExecution (CaseSteps, TestStates). Connections shows what happens inside a
broadcast, which is one action that may raise in UserPrompts and Reporting.
UserPrompts shows what a prompt of PromptedCase may return. Records shows which
rows TestRunner may be asked to execute, Selection what of them are the suites of
TestExecution. Commissioning is what the commissioning steps of SuiteResources
tell the tools.

## 3 Runs, bounds and what they show

| Run | Bounds | Shows |
|---|---|---|
| `TestExecution_cleanup` | four suites with 2, 1 (mandatory), 0 and 1 cases of one step, certification mode | every interleaving of hook outcomes, step operations and an abort: each case and suite that is set up is cleaned up once; after an abort nothing is left open; nothing runs after a mandatory suite that did not pass |
| `TestExecution_verdicts` | two suites of one case with two steps | a PASSED run contains only what passed or does not apply, with each recorded failure overruled as not applicable, errors are in the verdict, a run ends PENDING only if a hook skipped steps (all three are `VerdictOfRun`); outcomes of cases and suites stand, those of steps are revised by the execute hook of their case only, and a recorded failure never passes; an abort ends the run |
| `TestRunner_any_schedule` | one run and two requests at once, each a start, an abort or a delete and then the next, in every order, with every exception, a deleted project and one restart | RUNNING has a task that ends it, whatever raced; the engine is not left busy, but for a race and a load that raised what nobody catches |
| `TestRunner_up_to_races` | the same freedom for two runs and three requests, up to a race of a start or an abort | one run at a time, executed again only if its results were lost or left it PENDING, its row kept, its results recorded, the engine implemented |
| `TestRunner_two_starts` | two starts that overlap | two runs execute at once (section 6) |
| `UserPrompts_prompts` | two tasks, three prompts, valid and invalid answers | own outcome unless overtaken, cancellation stops a sender, the abstract prompt implemented, nobody waits for ever |
| `Connections_broadcast` | three clients, two broadcasts, every fault | nobody gets a message twice; a broadcast nobody disturbs reaches all |
| `TestCases_cases` | a python case of four steps, with or without one that its script leaves undeclared, of two flavours; or one of six cases that ask the operator | a reported failure is in the verdict and PASSED means that the script ran to its end; what was said of a step is said of that step, and only a case of which nothing bad was said passes; every case ends |
| `Reporting_runs` | two runs, one record of the tests each and the final one, one from another thread, one broadcast that raises | log complete and sent once in order, saved as it ended, all sent when a run ends, idle in the end |
| `SuiteResources_suites` | three suites of any kind, five containers, one fault | a complete cleanup leaves nothing, a suite uses its own server and the PICS of its project, running routers are held |
| `Records_requests` | two threads, four requests of any kind, two projects, executions and clusters, one operator | a repeat has the tests of what it repeats, uploads are lost only to removals, a configuration that is not valid was given by no client |
| `MCData_answers` | small sets of files, uploads, logs, reports, configurations and outcomes of prompts, every one of them | each test is declared once; what does not apply is not offered; the tool's own cases end as described; every log entry is in its file; a performance report adds up; a device is commissioned as configured |

Why the bounds are enough. *Execution*: the interactions of levels are between
one suite or case and the next; four suites give each position (first, mandatory,
empty, last) once, a suite of two cases has the yield between cases, and two
steps give a step before and after each operation. *Runner*: a hazard of the
runner needs at most a run that executes or begins and one request beside it, and a
second run for a start or a delete of another one; a third request gives races of
two requests beside a run. Each request is free again after its
answer, or the end of its run, so any number of them follow each other.
`TestRunner_up_to_races` explores no state behind a race of a start or an abort
(`CONSTRAINT OneEngine`): its properties say nothing of them, and they are a hundred times as many.
What is said of them is in `TestRunner_any_schedule`, and also holds with
three requests, and with two runs (a million states, two million). *Prompts*: three prompts
are one that is overtaken, one that overtakes and a later one. *Connections*:
skipping needs a client before, at and after the index. *Cases*: four steps are
the first and last, which the backend adds, and two of the script; of the cases
that ask there is one of each kind, with the manual step in each position.
*Reporting*: what an earlier run leaves matters to the next, so two runs.
*Resources*: a suite that leaves something, one in between that destroys or
replaces it, and one that finds it; the same properties also hold with four
suites, six containers and two faults (15 million states). *Records*: a request
can be hurt by what another writes between its own read and its commit, so two
threads; a row for that takes up to two requests before, which makes four.
*Data*: a selection of two entries has an earlier and a later one, three suites
have one that stores a commissioning, one that overwrites or fails to, and one
that reuses it.

`CHECK_DEADLOCK FALSE` stands where the system may stop: every request was
answered and the bound on executions is reached, all clients have left, a case,
all runs or all suites are over. Symmetry is used for interchangeable requests,
clients, broadcasts, threads and ids in runs that check no liveness.

A property that excepts a case says so in its comment; section 6 lists these
cases, which are behaviours of the code.

## 4 Fairness

- TestRunner: a request in its thread goes on (the operating system schedules
  threads), and a background task goes on. That tests end is *not* assumed,
  only that they do once their task was cancelled, which
  `TestExecution!AbortEndsRun` shows. Clients and restarts are not fair.
- TestExecution: a cancellation is delivered to the hook the task is in, the
  engine's own code between hooks goes on, and cleanup hooks end (they stop what
  setup started, with timeouts). A setup or execute hook that is not cancelled
  may stay for ever.
- UserPrompts: the event loop resumes tasks that are ready and timers fire (every
  prompt has a timeout). Users need not answer; broadcasts end.
- HarnessTest: the polling loop goes on (it sleeps with a timeout), prompts time
  out, a script that is alive and not waiting for input goes on. Processes may die.
- PromptedCase: the event loop runs what is ready, the YAML library among it, and
  timers fire. The operator need do nothing, and no answer is fair.
- Reporting: the flush sequence goes on, a thread leaves the log sink, broadcasts
  end (the server closes connections that do not answer its pings).

All of it is weak fairness: each of these steps stays enabled until taken.
Connections, SuiteResources, Records and Answers state safety only.

## 5 Proofs

All safety properties but one are proved for every value of the constants, each by
an invariant that Init establishes and each action preserves, most with one step
per action. The proofs assume nothing but the named ASSUMEs of the modules.

| Module | Theorem | Property |
|---|---|---|
| TestExecutionProofs | `EverySetupIsCleanedUp` | `CleanedUpOnce` |
| | `AbortLeavesNothingOpen` | `NothingLeftOpen` |
| | `MandatoryStops` | `MandatoryFailureStopsRun` |
| | `VerdictsAgree` | `VerdictOfRun` |
| | `OutcomesStand` | `VerdictsStand` (action property) |
| TestRunnerProofs | `TypeCorrect` | `TypeOK` |
| | `RunnerHasTask` | `RunningHasTask` |
| | `OneRun` | `OneRunAtATime` |
| | `RunExecutedOnce` | `ExecutedOnce` |
| | `ExecutingRunKept` | `ExecutingRunIsKept` |
| | `ResultsRecorded` | `ResultsAreRecorded` (action property) |
| | `RunnerImplementsEngine` | `EngineSpec` (refinement of TestEngine) |
| UserPromptsProofs | `PromptsTypeCorrect` | `TypeOK` |
| | `OutcomeIsOwn` | `ReturnsOwnOutcome` |
| | `CancelledStops` | `CancelledSenderStops` |
| | `PromiseKept` | `PromiseSpec` (refinement of PromptPromise) |
| | `NeverTwice` | `DeliveredOnce` (of Connections) |
| | `UndisturbedReaches` | `UndisturbedReachesAll` (of Connections) |
| TestCasesProofs | `ScriptIsBelieved` | `VerdictIsTheScripts` |
| | `BlameIsTheStepsOwn` | `BlameIsRight` |
| ReportingProofs | `LogsArrive` | `LogIsComplete` |
| | `NothingComesAfterTheSave` | `SavedIsFinal` |
| | `EverythingIsSent` | `AllIsSent` |
| SuiteResourcesProofs | `NothingIsLeft` | `CleanupLeavesNothing` |
| | `OneRouterRuns` | `RunningRoutersAreHeld` |
| | `WorksWithItsOwn` | `SuiteHasItsOwn` |
| RecordsProofs | `UploadsStay` | `UploadsLostOnlyToRemovals` |
| | `ClientsConfigsAreValid` | `InvalidConfigIsAutomatic` |
| | `RepetitionsKeepTheirTests` | `RepeatKeepsTests` |
| AnswersProofs | `DeclaredOnce` | `EachTestDeclaredOnce` |
| | `AnswersAreApplicable` | `SkippedAreNotApplicable` |
| | `EntriesAreInTheirFiles` | `EveryEntryIsInItsFile` |
| | `ReportsAddUp` | `ReportAddsUp` |
| | `CommissionsAsConfigured` | `CommissionedAsConfigured` |

### Assumptions

- `PlanAssumption`: there are some suites, each with some cases, and some of the
  suites are mandatory; none of these need exist. `StepsAssumption`: a case has a step,
  since the code takes `test_steps[index]` for the current one.
- `RunnerAssumption`, `PromptAssumption`, `ConnectionsAssumption`,
  `ReportingAssumption`, `ResourcesAssumption`: bounds are natural numbers,
  what stands for "none" is no run or reply, and kinds and faults are those of the module.
- `RowAssumption`, `ExecutionAssumption`: "no row yet" and "deleted" are not rows.
- `CatalogueAssumption`: a suite is declared mandatory or not.
  `SelectionAssumption`: clients select dictionaries, which have no key twice; names need not
  exist, and numbers of iterations may be zero or negative.
- `PythonAssumption`, `YamlAssumption`: the names of tests and the ids of files are unique.
  `ApplicabilityAssumption`, `RunsAssumption`: the types of titles, uploads and rows, and that
  an entry of a log is of a suite and case the run has. `ReportAssumption`: a commissioning
  has ended, and one more may break off before its last line. `SessionsAssumption`: test parameters do
  not repeat what the configuration gives as one, as `--discriminator`.
- `HarnessAssumption`: a python case has the two steps the backend adds.
  `CasesAssumption`: the cases that ask are as the code builds them (`WellFormed`).

The theorems say nothing else about bounds: they hold for any number of runs,
requests, suites, cases, steps, prompts, clients, containers and faults. The
exceptions that section 6 lists are part of the properties.

### Arguments

Few of the properties are inductive. What had to be added says why the code is right:

**TestExecution.** That a case is cleaned up once does not say that its setup is
not called again. `IInv` gives every point of the testing task (`Control`) the
shape of what it has begun: a case is `Fresh`, `SettingUp`, `Executing`,
`CleaningUp` or `AtRest` (`CasesInPlace`), and the same for suites and the run
(`SuitesInPlace`, `RunInPlace`): what lies before the current one is at rest, what lies
after it is fresh. In execute, steps behind the current one have ended or
were never begun, and a case remembers its failures (`Remembers`): their steps are neither
passed nor as if they had not begun. That they are bad steps is not invariant, since a hook
may mark a failed step not applicable or start the last step again. The first section proves
of each operation on one case that it leads from shape to shape, without any state of
the engine; the rest puts cases in their places. `MandatoryPassed` says that in
certification mode each case of a mandatory suite that lies behind passed. `OutcomesStand` uses the same
operation lemmas: each relates a case before and after by `Stands`, or in the execute hook
by the weaker `Revises`.

**TestRunner.** Nothing the runner promises holds after a race, so the invariant is in
layers. `TypeOK`, `Named` (what a request at each position names) and `NoClash` (a race that
stands is in `races`) hold under every schedule; `OneEngine => Working` as long as no start
and no abort raced; `races = {} => Kept` as long as no request did. `Working` says why a second
start is refused: `OneBusy` and `Phase` tie the state of the runner to the
position of the one request it works for, `Known` that it knows the run of
that request, `Counted` that a run with recorded results is never taken again. `Kept` says
that a delete past its check is of another run. A step that would break a layer is one that
completes a race: `ClashStep` shows that `Enter` records it in that step, and
`RacesGrow` that it stays recorded. The refinement maps each action to a step of
TestEngine or a stutter, with `IInv` to know the run and its row.

**UserPrompts.** `OneSender` and `Awaited` say whose prompt each task waits for: its
own, or, if another was sent during its broadcast, one nobody else's timer will
close; `WaitEnded` says what the task finds when it resumes, `Closed` that an outcome
that was returned stands, `AbortedResumes` that a cancellation is not forgotten.
`PromiseKept` needs them for the two steps in which a late timer and an answer
meet: only one of them closes the prompt.

**Connections.** A broadcast keeps an index into a list that changes. `Listed` (no
connection twice, none before it was made) and `Ahead` (what lies at or after the
index has not had the message) give `DeliveredOnce`: a removal moves entries towards
the index from the right and never past it back. `Behind` is the other
direction, for a broadcast during which nothing was removed.

**TestCases.** For a python case, a failure is in the queue or in the case
(`FailureIsKnown`), only updates that end a script come after it
(`FailureIsLast`), the end that execute has seen is the end (`EndWasSeen`), and the
case is at a step its script has started (`CaseFollows`). For a case that asks,
`InStep` says that the position of the test and the current step move together
where the form of the case makes them (`WellFormed`), so what is said of a position is noted on
that step; `Fits` that a step something bad was said of is behind the current one
or it, and is marked; `FileFits` that an upload belongs to the current step, which was
not skipped; `Settles` that an open case has its steps in order, and one that passed no
step open and none that was blamed but those taken back as not applicable.

**Reporting.** Entries of log and pending list together are the records logged, in
order (`Complete`), whatever a move in one thread and an append in another do; once
the sink was removed no thread is in it (`SinkIsRemoved`), so after the
flush nothing is pending (`Flushed`), and what the save finds is final (`SavedLast`).
That each entry is sent once is stated without concatenation: `Parts` are
where each message begins and ends in the log, and they tile what was sent so
far (`LogIsSent`). A new broadcast begins where the last one ended (`TilesMore`).

**SuiteResources.** `Control` (who can have asked for the router, and where a kind
of suite can be) carries one invariant for each theorem: `HandedOver` (what
the container is when none is held), `RouterIds` and `OneRuns` (which routers run,
while one is awaited and otherwise), `StartedByThis` (a started server is this suite's,
after suites that were cleaned up) and `PicsKnown` (from `SetPics` on, the container
has the PICS of this suite).

**Records.** What a request has read is stale when it commits. `Seen` says what is
still true of it: ids are never given twice, so the row is the one that was
read or gone; the clusters it has read include the uploaded ones, unless an upload
overlapped. `OneUpload` is that uploads run in the event loop, which makes an upload
safe against another, but not against a removal.

For `RepeatKeepsTests` the lists of suites and cases are given by the positions they were
made from. `InOrder` numbers a finite set of positions; `InOrderIs` proves that the numbering is a
bijection and increasing, and from it follow what two nested loops visit (`LoopsVisit`), what a
filter keeps (`FilteredIs`), that the keys of a dictionary are each there once (`KeysAre`) and
how often a case occurs (`OccurrencesAre`). So a selection made from rows
(`SelectedTests`) is a dictionary again, and its rows have each case as often as those it was made from
(`RowsAreKept`). `WellFormed`, no two rows about one suite (and no case twice in that of
the performance suite), is what makes that true: the code would overwrite the first. `EInv` says that the rows of every execution are well
formed, those of an answered repetition have the tests of what it repeats, and
what a request in flight has selected still is what it will insert.

**Answers.** Since the loops are steps, what a fold computes becomes an invariant over
the elements it has worked on, and no induction over data is needed:
after n uploads a cluster is the last readable file of its name (`AreLatest`); after n
entries each group has the entries of its own among the first n, in order (`AreGroups`); after q
commissionings and r lines of another, the parser has q whole ones, and of
the last the times of its lines 2 to r (`Parsing`), which makes every duration a difference of
places; before suite i, the file on the host is of the last suite that commissioned
and whose copy touched it (`HostIsStored`). `Arguments` says of an argument when a
python test is told it, and `ToolIsTold` that these are enough for the tool to
commission, over every mode but WiFi PAF.

### Only model-checked

- Liveness, with all that rests on fairness: `AbortEndsRun`, `EngineBecomesIdle`,
  `SenderGoesOn`, `EveryCaseEnds`, `EndsIdle`. The prover does not do ENABLED.
- `VerdictsAreAsDescribed`: it is about a finite list of cases without a parameter, each
  with a few outcomes, and the run tries them all. A proof would unfold a fold for
  each of them and show no more.

## 6 Where the code does not keep what it says

A run with a counterexample of the smallest length:

- `TestRunner_two_starts`: `load_test_run` tests the state and sets it in two
  steps. Two start requests in two threads both pass, and two runs execute. The
  test in `tests/test_engine/test_runner.py` says the second is refused.

Exceptions that properties had to make, each a behaviour of the code:

- An abort delivered at the `sleep(0)` between two cases leaves a suite without
  its cleanup, although the comment in `TestSuite.run` says "always run test
  suite clean up" (`CleanedUpOnce`). A suite of chip tests that is left so keeps
  its server flagged as started; the next one takes it for its own, even if its
  container has been destroyed since or its type is another
  (`SuiteHasItsOwn`). That next suite fails and, in failing, repairs the flag.
- A step that failed may be marked not applicable: a manual prompt that was cancelled
  records a failure and then an answer NOT_APPLICABLE is applied
  (`manual_test_case.py:108`, `:85`; `test_step.py:68` asks for nothing). The case may pass with a
  failure recorded (`VerdictOfRun`). A failed last step that a python test fails or skips once
  more is EXECUTING again (`sdk_tests/support/python_testing/models/test_case.py:131`,
  `:311`), though it does not pass then (`VerdictsStand`).
- An error raised by a cleanup hook while an abort unwinds comes after the
  verdict was computed, which may be PASSED (`VerdictOfRun`). An abort during the
  cleanup of a case leaves it PASSED, which `test_runner_abort_testing.py`
  asserts, and so does one during the upload of the log of a semi-automated case.
- An abort of a run that is READY may clean up the runner while the background task begins
  (`test_runner.py:119`): the run executes, the runner is IDLE without it, a second one may start
  and no abort reaches the first. If the abort meets the next start
  instead, the runner stays READY without a run and refuses every start. A delete that
  read the runner before a start set its run removes the row the run needs. All three are races
  of two requests, the only schedules that TestRunner's properties except.
- A load that raises anything but the two exceptions it catches leaves the runner LOADING
  until a restart (`test_runner.py:88`, `EngineBecomesIdle`).
- A run, flush or commit that raises records nothing: the row stays PENDING, and the
  run can be executed again (`test_runner.py:176`, `ExecutedOnce`, `ResultsAreRecorded`). So can
  one whose verdict is PENDING.
- `send_prompt_request` reads the attribute of the current exchange again after
  its broadcast (`user_prompt_manager.py:139`). A second sender may have replaced
  it, and the first waits for and returns the other's answer (`ReturnsOwnOutcome`).
- A client that leaves during a broadcast makes the next one in the list miss it
  (`UndisturbedReachesAll`).
- A python test's last updates are dropped if they come between the question for
  updates and the question for the end (`VerdictIsTheScripts`). A script that
  waits for an input after its prompt timed out, or a harness that dies, keeps execute
  in its loop until an abort (`EveryCaseEnds`).
- A broadcast that raised stays in the class's list of open broadcasts
  (`test_ui_observer.py:40`), so every later run stops waiting for its own
  (`AllIsSent`).
- A record of a thread may be lost when the handler moves the pending list while
  the thread appends to it (`test_log_handler.py:135`, `LogIsComplete`).
- An abort while a container is being created leaves one nobody holds. The SDK
  container is found again by its name; a router is not and runs on
  (`RunningRoutersAreHeld`). A router whose network could not be formed is kept
  by a chip suite (`CleanupLeavesNothing`) and reused, unformed, by the next.
- The removal of a PICS cluster writes back the whole column it has read and may
  undo an upload answered in between (`UploadsLostOnlyToRemovals`).
- The project made for an execution without one has a configuration that is not
  valid (`InvalidConfigIsAutomatic`): renaming or archiving it is refused until it
  is given a valid one.
- A title with both suffixes, "(Semi-automated) (Steps Disabled)", is not removed
  by a skip of its test (`SkippedAreNotApplicable`).
- A python test is told no credentials for the network over WiFi PAF, a suite of
  chip-tool is. A copy of the stored commissioning that fails is only printed:
  a later suite may reuse a file that is cut off, and then has none, or an older
  commissioning (`CommissionedAsConfigured`).

In the model, with no property that forbids it:

- The runner is RUNNING before `TestRun.run` has created its task. An abort in
  between finds no task; the docstring (`test_run_executions.py:170`) says that it
  cancels the current testing, and the tests go on.
- `delete_project` removes the rows of its executions without a look at the
  runner, that of the active run too, of which the comment in
  `test_run_executions.py:355` says that it cannot be deleted: the results of
  that run are lost (`ExecutingRunIsKept` and `ResultsAreRecorded` except it).
- Requests from the command line share one project, and each overwrites its
  configuration: an execution runs with that of the last request.
- `pairing()` counts results, not errors (`matter_yaml_runner.py:181`): an answer
  with results fails whatever they say, one with none succeeds.
- A manual step whose prompt timed out or was cancelled raises a `ValueError` for
  the missing response before the code that would name the reason
  (`manual_test_case.py:96`). A file that arrives late fails a step after the verdict
  of its case.
- The performance report raises when another case of the run completed before a
  commissioning ended, or none ended; a failed case reports all its
  iterations as failed. Nothing calls `create_summary_report`.
- A custom python test with the name of a mandatory one is in no collection.

## 7 What is not modelled

- The execution of performance tests: each case calls `send_command` with a
  parameter it does not have and raises; the modules of its suite are not in the
  repository. Their script and their report are modelled.
- Reading of python, YAML and PICS files, e-mail, version, settings, logger set-up:
  text processing and input/output. Discovery begins with the parsed files.
- Database set-up and migrations, start-up scripts, gunicorn: no behaviour here. A
  deployment with several workers would have several runners; the code assumes
  one process.
- The content of prompts, logs and datasets; timestamps. Records are numbered,
  answers are valid or invalid, values of a configuration have names.
- Listing and statistics of executions, renaming, export, devices, run
  configurations, and the status of the runner: single statements or requests that
  only read.
- Running a command in a container.

External, modelled from how the code uses it: web sockets, docker, the database,
the YAML library of the SDK (an exception of a hook ends its run), the script in
the container that commissions and runs python tests, and the order in which it
calls the hooks. Test names of the SDK are taken to be unique.

## 8 Plan

The order is that of importance for the verdict of a certification:

1. Execution and its verdicts (TestStates, CaseSteps, TestExecution). *Done.*
2. The runner and its requests, with the engine as abstract specification
   (TestRunner, TestEngine) and their theorems. *Done.*
3. Prompts and web sockets (UserPrompts, PromptPromise, Connections). *Done.*
4. Python test cases, reporting, suite resources. *Done.*
5. Manual and YAML cases with their prompts and uploads (PromptedCase). *Done.*
6. Rows of projects, operators and executions and the requests on them, with the
   selection of tests (Records, Selection). *Done.*
7. The data modules, against relations stated over all small inputs (Discovery,
   Applicability, ToolCases, RunLog, PerformanceReport, Commissioning). *Done.*
8. Proofs of the safety properties of these modules, and of the second
   refinement (section 5). *Done.*
9. `RepeatKeepsTests`, with selections restated by positions, and the data modules
   as a system that works on one element after another (Answers), with their
   theorems. *Done.*

A sequence of messages per client is a candidate for an abstract specification
of Reporting and Connections together.

## 9 How to run

    tlc -workers 2 -config TestRunner_up_to_races.cfg MCTestRunner
    tlapm TestRunnerProofs.tla

The module with the proofs about `M` is `MProofs`; those about Connections are in
UserPromptsProofs, since its broadcasts carry the prompts (it extends both modules, so the
specification of the sockets is `SocketsSpec`). Most take a minute or two,
TestExecutionProofs, TestCasesProofs, RecordsProofs and AnswersProofs more.
`PROJECT.json` ("runs") gives the module of every configuration. The longest run
takes about two minutes on two cores. Definitions after a "Mutant:" comment are
plausible bugs; put in the place of the definition that follows, each makes TLC
violate the property it is listed with ("mutants").
