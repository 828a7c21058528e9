----------------------------- MODULE TestRunner -----------------------------
(***************************************************************************)
(* The TestRunner singleton and the API requests that use it.              *)
(*                                                                         *)
(* The endpoints are plain functions: FastAPI runs each in a thread of its *)
(* own, so several may be inside TestRunner at once.  A start request       *)
(* loads the run in its thread and then executes TestRunner.run as its      *)
(* background task, on the event loop.  Every read and write of the shared  *)
(* attributes that another thread can come between is an action of its own.*)
(*                                                                         *)
(* The runner checks its state and acts on it in two steps, under no lock. *)
(* Requests may overlap in every way here; races is a history of the pairs *)
(* of requests that both passed their checks before either acted.  Every   *)
(* property holds of every schedule up to such a race, and says so.        *)
(***************************************************************************)
EXTENDS Naturals, FiniteSets

CONSTANTS Runs,         \* test run executions in the database
          NoRun,        \* None
          Requests,     \* API requests that can be in progress at once
          Kinds,        \* endpoints the clients use
          MaxCrashes    \* bound on the server's restarts

RunnerState == {"IDLE", "LOADING", "READY", "RUNNING"}

ASSUME RunnerAssumption ==
    /\ NoRun \notin Runs
    /\ Kinds \subseteq {"start", "abort", "delete", "delete_project"}
    /\ MaxCrashes \in Nat

VARIABLES
    state,       \* TestRunner.__state
    testRun,     \* TestRunner.test_run
    row,         \* run -> "pending", "final" or "unfinished" (saved, the state being
                 \* PENDING again), "deleted" or "dropped" (with its project)
    pc,          \* request -> where it is
    arg,         \* request -> the run it names
    executing,   \* request -> the TestRun its background task awaits
    aborted,     \* runs whose testing task was cancelled while it ran
    executions,  \* history: run -> executions begun that go on or gave final results
    crashes,     \* history: restarts of the server
    faulted,     \* history: runs whose load raised an exception nobody expected
    races        \* history: the kinds of requests that raced since the last restart

vars == <<state, testRun, row, pc, arg, executing, aborted, executions, crashes,
          faulted, races>>
history == <<aborted, executions, crashes, faulted>>

StartPC == {"start_check", "start_claim", "start_fetch", "start_build", "start_ready"}
AbortPC == {"abort_idle", "abort_ready", "abort_cleanup", "abort_running", "abort_cancel"}
DeletePC == {"delete_check", "delete_remove"}
RunPC == {"run_check", "run_begin", "run_start", "run_await", "run_finish", "run_cleanup",
          "run_failed"}
ThreadPC == StartPC \cup AbortPC \cup DeletePC
PC == {"free"} \cup ThreadPC \cup RunPC

Init ==
    /\ state = "IDLE"
    /\ testRun = NoRun
    /\ row = [r \in Runs |-> "pending"]
    /\ pc = [q \in Requests |-> "free"]
    /\ arg = [q \in Requests |-> NoRun]
    /\ executing = [q \in Requests |-> NoRun]
    /\ aborted = {}
    /\ executions = [r \in Runs |-> 0]
    /\ crashes = 0
    /\ faulted = {}
    /\ races = {}

(***************************************************************************)
(* Two requests race when both have passed a check of the runner that the  *)
(* act of the other makes void: two starts that found it IDLE; an abort    *)
(* that found it READY, and a run that begins, or the next start; a delete *)
(* that found the runner without its run, and the start that loads it.     *)
(***************************************************************************)
RaceKinds == {"start", "abort", "delete"}

Race(kind, at) ==
    \/ /\ kind = "start"
       /\ \E p, q \in Requests : p # q /\ at[p] = "start_claim" /\ at[q] = "start_claim"
    \/ /\ kind = "abort"
       /\ \E p, q \in Requests : at[p] = "abort_cleanup" /\ at[q] \in {"start_claim", "run_begin"}
    \/ /\ kind = "delete"
       /\ \E p, q \in Requests : at[p] = "delete_remove" /\ at[q] = "start_build" /\ arg[p] = arg[q]

Enter(q, label) ==
    /\ pc' = [pc EXCEPT ![q] = label]
    /\ races' = races \cup {kind \in RaceKinds : Race(kind, pc')}

\* The answer, and the background task, no longer know the run that was named.
Goto(q, label) ==
    /\ Enter(q, label)
    /\ arg' = [arg EXCEPT ![q] = IF label \in {"free", "run_check"} THEN NoRun ELSE @]

\* Executions are counted up to this bound, which is more than ExecutedOnce allows.
MaxExecutions == 2

Begun(r) == [executions EXCEPT ![r] = IF @ < MaxExecutions THEN @ + 1 ELSE @]

Forgotten(r) == [executions EXCEPT ![r] = IF @ > 0 THEN @ - 1 ELSE @]

Present(r) == row[r] \notin {"deleted", "dropped"}

-----------------------------------------------------------------------------
(***************************************************************************)
(* A client sends a request.  404 answers (no such row) change nothing and *)
(* are left out.                                                           *)
(***************************************************************************)
Arrive(q, kind, r) ==
    /\ pc[q] = "free"
    /\ kind \in Kinds
    /\ \/ kind = "start" /\ r \in Runs /\ Present(r) /\ Enter(q, "start_check")
       \/ kind = "abort" /\ r = NoRun /\ Enter(q, "abort_idle")
       \/ kind = "delete" /\ r \in Runs /\ Present(r) /\ Enter(q, "delete_check")
    /\ arg' = [arg EXCEPT ![q] = r]
    /\ UNCHANGED <<state, testRun, row, executing, history>>

-----------------------------------------------------------------------------
(***************************************************************************)
(* start_test_run_execution and load_test_run.                             *)
(***************************************************************************)
\* Mutant: only a run that executes already is in the way.
StartCheckAllowsReady(q) ==
    /\ pc[q] = "start_check"
    /\ Goto(q, IF state # "RUNNING" THEN "start_claim" ELSE "free")
    /\ UNCHANGED <<state, testRun, row, executing, history>>

StartCheck(q) ==
    /\ pc[q] = "start_check"
    /\ Goto(q, IF state = "IDLE" THEN "start_claim" ELSE "free")
    /\ UNCHANGED <<state, testRun, row, executing, history>>

StartClaim(q) ==
    /\ pc[q] = "start_claim"
    /\ state' = "LOADING"
    /\ Goto(q, "start_fetch")
    /\ UNCHANGED <<testRun, row, executing, history>>

\* Mutant: a run that was executed before is loaded again.
StartFetchAnyState(q) ==
    /\ pc[q] = "start_fetch"
    /\ IF Present(arg[q])
       THEN /\ Goto(q, "start_build")
            /\ UNCHANGED state
       ELSE /\ Goto(q, "free")
            /\ state' = "IDLE"
    /\ UNCHANGED <<testRun, row, executing, history>>

\* A run that is gone or whose state is not PENDING any more is refused.
StartFetch(q) ==
    /\ pc[q] = "start_fetch"
    /\ IF row[arg[q]] \in {"pending", "unfinished"}
       THEN /\ Goto(q, "start_build")
            /\ UNCHANGED state
       ELSE /\ Goto(q, "free")
            /\ state' = "IDLE"
    /\ UNCHANGED <<testRun, row, executing, history>>

StartBuild(q) ==
    /\ pc[q] = "start_build"
    /\ testRun' = arg[q]
    /\ Goto(q, "start_ready")
    /\ UNCHANGED <<state, row, executing, history>>

\* Mutant: the except clause forgets to go back to IDLE.
StartTestNotFoundStaysLoading(q) ==
    /\ pc[q] = "start_build"
    /\ Goto(q, "free")
    /\ UNCHANGED <<state, testRun, row, executing, history>>

\* A test of the run is not known any more.
StartTestNotFound(q) ==
    /\ pc[q] = "start_build"
    /\ state' = "IDLE"
    /\ Goto(q, "free")
    /\ UNCHANGED <<testRun, row, executing, history>>

\* Any other exception passes the except clause: the state stays LOADING.
StartFault(q) ==
    /\ pc[q] \in {"start_fetch", "start_build"}
    /\ faulted' = faulted \cup {arg[q]}
    /\ Goto(q, "free")
    /\ UNCHANGED <<state, testRun, row, executing, aborted, executions, crashes>>

StartReady(q) ==
    /\ pc[q] = "start_ready"
    /\ state' = "READY"
    /\ Goto(q, "run_check")
    /\ UNCHANGED <<testRun, row, executing, history>>

-----------------------------------------------------------------------------
(***************************************************************************)
(* TestRunner.run, the background task.  From its check to the creation of *)
(* the testing task it does not await: nothing else runs on the event loop.*)
(***************************************************************************)
LoopIsFree(q) == \A p \in Requests \ {q} : pc[p] \notin {"run_begin", "run_start"}

RunCheck(q) ==
    /\ pc[q] = "run_check"
    /\ Goto(q, IF state = "READY" /\ testRun # NoRun THEN "run_begin" ELSE "free")
    /\ UNCHANGED <<state, testRun, row, executing, history>>

\* Without a test run, logging its project or subscribing to it raises.
RunBegin(q) ==
    /\ pc[q] = "run_begin"
    /\ IF testRun = NoRun
       THEN /\ Goto(q, "run_failed")
            /\ state' \in {state, "RUNNING"}
            /\ UNCHANGED <<executing, executions>>
       ELSE /\ Goto(q, "run_start")
            /\ state' = "RUNNING"
            /\ executing' = [executing EXCEPT ![q] = testRun]
            /\ executions' = Begun(testRun)
    /\ UNCHANGED <<testRun, row, aborted, crashes, faulted>>

\* TestRun.run has created the testing task, which an abort can reach from now.
RunStart(q) ==
    /\ pc[q] = "run_start"
    /\ Goto(q, "run_await")
    /\ UNCHANGED <<state, testRun, row, executing, history>>

\* TestRun.run returns: the tests are over (TestExecution models how).
RunEnds(q) ==
    /\ pc[q] = "run_await"
    /\ Goto(q, "run_finish")
    /\ UNCHANGED <<state, testRun, row, executing, history>>

\* Mutant: the request does not let go of the run it has executed.
RunFinishKeepsRun(q) ==
    /\ pc[q] = "run_finish"
    /\ row' = [row EXCEPT ![executing[q]] = "final"]
    /\ Goto(q, "run_cleanup")
    /\ UNCHANGED <<state, testRun, executing, history>>

\* Mutant: the runner is cleaned up before the results are saved.
RunFinishAfterCleanup(q) ==
    /\ pc[q] = "run_finish"
    /\ testRun' = NoRun
    /\ state' = "IDLE"
    /\ executing' = [executing EXCEPT ![q] = NoRun]
    /\ Goto(q, "run_cleanup")
    /\ UNCHANGED <<row, history>>

\* The queued updates are saved, with the verdict of the run, which may be
\* PENDING.  unsubscribe reads test_run again, and raises if it is gone; the
\* commit raises if the row is gone.
RunFinish(q) ==
    /\ pc[q] = "run_finish"
    /\ IF testRun # NoRun /\ Present(executing[q])
       THEN \E verdict \in {"final", "unfinished"} :
               /\ row' = [row EXCEPT ![executing[q]] = verdict]
               /\ executions' = IF verdict = "final" THEN executions
                                ELSE Forgotten(executing[q])
       ELSE UNCHANGED <<row, executions>>
    /\ executing' = [executing EXCEPT ![q] = NoRun]
    /\ aborted' = aborted \ {executing[q]}
    /\ Goto(q, "run_cleanup")
    /\ UNCHANGED <<state, testRun, crashes, faulted>>

\* The run, the flush of its log or the commit raises: nothing is saved.
RunRaises(q) ==
    /\ pc[q] = "run_finish"
    /\ executing' = [executing EXCEPT ![q] = NoRun]
    /\ executions' = Forgotten(executing[q])
    /\ aborted' = aborted \ {executing[q]}
    /\ Goto(q, "run_failed")
    /\ UNCHANGED <<state, testRun, row, crashes, faulted>>

\* Mutant: an exception skips the cleanup.
RunCleanupSkipped(q) ==
    /\ pc[q] \in {"run_cleanup", "run_failed"}
    /\ testRun' = NoRun
    /\ Goto(q, "free")
    /\ UNCHANGED <<state, row, executing, history>>

RunCleanup(q) ==
    /\ pc[q] \in {"run_cleanup", "run_failed"}
    /\ testRun' = NoRun
    /\ state' = "IDLE"
    /\ Goto(q, "free")
    /\ UNCHANGED <<row, executing, history>>

-----------------------------------------------------------------------------
(***************************************************************************)
(* abort_testing reads the state once per condition.                       *)
(***************************************************************************)
AbortIdle(q) ==
    /\ pc[q] = "abort_idle"
    /\ Goto(q, IF state = "IDLE" THEN "free" ELSE "abort_ready")
    /\ UNCHANGED <<state, testRun, row, executing, history>>

AbortReady(q) ==
    /\ pc[q] = "abort_ready"
    /\ Goto(q, IF state = "READY" THEN "abort_cleanup" ELSE "abort_running")
    /\ UNCHANGED <<state, testRun, row, executing, history>>

AbortCleanup(q) ==
    /\ pc[q] = "abort_cleanup"
    /\ testRun' = NoRun
    /\ state' = "IDLE"
    /\ Goto(q, "free")
    /\ UNCHANGED <<row, executing, history>>

\* Neither ready nor running: nothing is done, and the request succeeds.
AbortRunning(q) ==
    /\ pc[q] = "abort_running"
    /\ Goto(q, IF state = "RUNNING" THEN "abort_cancel" ELSE "free")
    /\ UNCHANGED <<state, testRun, row, executing, history>>

\* Mutant: the abort cleans up the runner, as it does for a run that is READY.
AbortCancelCleansUp(q) ==
    /\ pc[q] = "abort_cancel"
    /\ Goto(q, "free")
    /\ testRun' = NoRun
    /\ UNCHANGED <<state, row, executing, history>>

\* TestRun.cancel does nothing unless the run's testing task exists.
AbortCancel(q) ==
    /\ pc[q] = "abort_cancel"
    /\ Goto(q, "free")
    /\ aborted' = IF \E p \in Requests : pc[p] = "run_await" /\ executing[p] = testRun
                  THEN aborted \cup {testRun} ELSE aborted
    /\ UNCHANGED <<state, testRun, row, executing, executions, crashes, faulted>>

-----------------------------------------------------------------------------
(***************************************************************************)
(* remove_test_run_execution; delete_project, which removes the rows of    *)
(* the project's runs and does not look at the runner; and a restart of    *)
(* the server: everything but the database is lost.                        *)
(***************************************************************************)
\* Mutant: the run the runner works on is not looked at.
DeleteCheckNothing(q) ==
    /\ pc[q] = "delete_check"
    /\ Goto(q, "delete_remove")
    /\ UNCHANGED <<state, testRun, row, executing, history>>

DeleteCheck(q) ==
    /\ pc[q] = "delete_check"
    /\ Goto(q, IF testRun = arg[q] THEN "free" ELSE "delete_remove")
    /\ UNCHANGED <<state, testRun, row, executing, history>>

DeleteRemove(q) ==
    /\ pc[q] = "delete_remove"
    /\ row' = [row EXCEPT ![arg[q]] = IF Present(arg[q]) THEN "deleted" ELSE @]
    /\ Goto(q, "free")
    /\ UNCHANGED <<state, testRun, executing, history>>

DeleteProject(R) ==
    /\ "delete_project" \in Kinds
    /\ R # {}
    /\ \A r \in R : Present(r)
    /\ row' = [r \in Runs |-> IF r \in R THEN "dropped" ELSE row[r]]
    /\ UNCHANGED <<state, testRun, pc, arg, executing, races, history>>

Crash ==
    /\ crashes < MaxCrashes
    /\ crashes' = crashes + 1
    /\ state' = "IDLE"
    /\ testRun' = NoRun
    /\ pc' = [q \in Requests |-> "free"]
    /\ arg' = [q \in Requests |-> NoRun]
    /\ aborted' = {}
    /\ executing' = [q \in Requests |-> NoRun]
    /\ executions' = [r \in Runs |-> IF row[r] = "final" THEN 1 ELSE 0]
    /\ faulted' = {}
    /\ races' = {}
    /\ UNCHANGED row

-----------------------------------------------------------------------------
Thread(q) ==
    \/ StartCheck(q) \/ StartClaim(q) \/ StartFetch(q) \/ StartBuild(q)
    \/ StartTestNotFound(q) \/ StartFault(q) \/ StartReady(q)
    \/ AbortIdle(q) \/ AbortReady(q) \/ AbortCleanup(q) \/ AbortRunning(q) \/ AbortCancel(q)
    \/ DeleteCheck(q) \/ DeleteRemove(q)

Background(q) ==
    /\ LoopIsFree(q)
    /\ \/ RunCheck(q) \/ RunBegin(q) \/ RunStart(q) \/ RunEnds(q) \/ RunFinish(q)
       \/ RunRaises(q) \/ RunCleanup(q)

Next ==
    \/ \E q \in Requests, kind \in Kinds, r \in Runs \cup {NoRun} : Arrive(q, kind, r)
    \/ \E q \in Requests : Thread(q) \/ Background(q)
    \/ \E R \in SUBSET Runs : DeleteProject(R)
    \/ Crash

Spec == Init /\ [][Next]_vars

(***************************************************************************)
(* Fairness: threads and the event loop are scheduled.  The tests of a run *)
(* need not end unless its testing task was cancelled (TestExecution shows *)
(* that they do then).  Clients and crashes are not fair.                  *)
(***************************************************************************)
AbortedRunEnds(q) == executing[q] \in aborted /\ RunEnds(q)

Running(q) ==
    /\ LoopIsFree(q)
    /\ \/ RunCheck(q) \/ RunBegin(q) \/ RunStart(q) \/ AbortedRunEnds(q) \/ RunFinish(q)
       \/ RunRaises(q) \/ RunCleanup(q)

FairSpec == Spec /\ \A q \in Requests : WF_vars(Thread(q)) /\ WF_vars(Running(q))

-----------------------------------------------------------------------------
(***************************************************************************)
(* Properties.                                                             *)
(***************************************************************************)
(* Every variable has its type, and a request executes a run exactly while *)
(* its background task is between RunBegin and RunFinish.                  *)
TypeOK ==
    /\ state \in RunnerState
    /\ testRun \in Runs \cup {NoRun}
    /\ row \in [Runs -> {"pending", "unfinished", "final", "deleted", "dropped"}]
    /\ pc \in [Requests -> PC]
    /\ arg \in [Requests -> Runs \cup {NoRun}]
    /\ executing \in [Requests -> Runs \cup {NoRun}]
    /\ aborted \subseteq Runs
    /\ executions \in [Runs -> 0..MaxExecutions]
    /\ crashes \in 0..MaxCrashes
    /\ faulted \subseteq Runs \cup {NoRun}
    /\ races \subseteq RaceKinds
    /\ \A q \in Requests :
          executing[q] # NoRun <=> pc[q] \in {"run_start", "run_await", "run_finish"}

(* At most one test run executes: the engine refuses a second one.         *)
AtMostOneExecutes ==
    \A p, q \in Requests : executing[p] # NoRun /\ executing[q] # NoRun => p = q

\* Since the last restart no start met another, and no abort a run that began.
OneEngine == races \cap {"start", "abort"} = {}

(* Up to such a race the run that executes is the only one, the runner is  *)
(* RUNNING and knows it, so that a status request names it and an abort    *)
(* reaches it: whatever else overlaps, loads that fail, aborts of a loaded *)
(* run that come before its task, deletes of runs and projects.            *)
OneRunAtATime ==
    OneEngine =>
        /\ AtMostOneExecutes
        /\ \A q \in Requests : executing[q] # NoRun =>
              state = "RUNNING" /\ testRun = executing[q]

(* A run is executed again only after its results were lost, by a restart  *)
(* or an exception in saving them, or left it PENDING: what was recorded   *)
(* is not executed again, nor what still executes.                         *)
ExecutedOnce == OneEngine => \A r \in Runs : executions[r] <= 1

(* In whatever order requests overlap, an abort comes or loading fails, the *)
(* runner does not report RUNNING with no task left to make it IDLE again. *)
RunningHasTask ==
    state = "RUNNING" =>
        \E q \in Requests :
            pc[q] \in {"run_start", "run_await", "run_finish", "run_cleanup", "run_failed"}

(* The endpoint that deletes a run leaves the one that executes its row to *)
(* record its results in, unless the delete raced with its start (or       *)
(* several runs execute).  The one that deletes a project does not look.   *)
ExecutingRunIsKept ==
    races = {} =>
        \A q \in Requests : executing[q] # NoRun => row[executing[q]] # "deleted"

(* When an execution ends without an exception of its own, its results are *)
(* recorded whatever requests came while it ran, up to a race or the       *)
(* deletion of its project.                                                *)
ResultsAreRecorded ==
    [][\A q \in Requests :
          pc[q] = "run_finish" /\ pc'[q] = "run_cleanup" =>
              \/ row'[executing[q]] \in {"final", "unfinished"}
              \/ row[executing[q]] = "dropped"
              \/ races # {}]_vars

(* The engine does not stay busy: it becomes idle, or it is executing      *)
(* tests that nobody has aborted.  Exceptions: a load that raised what     *)
(* load_test_run does not catch, which leaves it LOADING for ever, and     *)
(* races (an abort that meets the next start leaves it READY with no task).*)
EngineBecomesIdle ==
    state # "IDLE" ~>
        \/ state = "IDLE"
        \/ \E q \in Requests : pc[q] = "run_await" /\ executing[q] \notin aborted
        \/ faulted # {}
        \/ ~OneEngine

(* The runner implements the engine its clients count on, up to a race.    *)
Outcome ==
    IF \E q \in Requests : pc[q] = "run_failed" THEN "lost"
    ELSE IF \E q \in Requests : pc[q] = "run_cleanup" THEN "recorded" ELSE "none"

Engine == INSTANCE TestEngine
             WITH current <- testRun, outcome <- Outcome, restarts <- crashes,
                  disturbed <- races # {}

EngineSpec == Engine!Spec
=============================================================================
