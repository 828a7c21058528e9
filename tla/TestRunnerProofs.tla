-------------------------- MODULE TestRunnerProofs --------------------------
(***************************************************************************)
(* Theorems about TestRunner, for every set of runs and of requests, and   *)
(* every schedule of them.                                                 *)
(*                                                                         *)
(* TypeOK and RunningHasTask are inductive as they stand.  Everything else *)
(* needs an inductive invariant, IInv: that races has every race there is, *)
(* and, as long as no start met another and no abort a run that begins,    *)
(* what the engine is doing, for which request, and what it has done.      *)
(***************************************************************************)
EXTENDS TestRunner, TLAPS

LoadingPC == {"start_fetch", "start_build", "start_ready"}
ExecutingPC == {"run_start", "run_await", "run_finish"}
EndingPC == {"run_cleanup", "run_failed"}
RunningPC == ExecutingPC \cup EndingPC
BusyPC == LoadingPC \cup {"run_begin"} \cup RunningPC

-----------------------------------------------------------------------------
(***************************************************************************)
(* The inductive invariant.                                                *)
(***************************************************************************)
\* Start and delete requests name a run.
Named == \A q \in Requests : pc[q] \in StartPC \cup DeletePC => arg[q] \in Runs

\* What races does not record is not there.
NoClash ==
    /\ "start" \notin races =>
          \A p, q \in Requests : pc[p] = "start_claim" /\ pc[q] = "start_claim" => p = q
    /\ "abort" \notin races =>
          \A p, q \in Requests :
             pc[p] = "abort_cleanup" => pc[q] \notin {"start_claim", "run_begin"}
    /\ "delete" \notin races =>
          \A p, q \in Requests :
             pc[p] = "delete_remove" /\ pc[q] = "start_build" => arg[p] # arg[q]

\* The engine works for one request at a time ...
OneBusy == \A p, q \in Requests : pc[p] \in BusyPC /\ pc[q] \in BusyPC => p = q

\* ... and its state is that of this request.  A background task that has not
\* checked the state yet may be left over from a run that was aborted.
Phase ==
    \A q \in Requests :
        /\ pc[q] = "start_claim" => state = "IDLE"
        /\ pc[q] \in LoadingPC => state = "LOADING"
        /\ pc[q] = "run_begin" => state = "READY"
        /\ pc[q] \in RunningPC => state = "RUNNING"
        /\ pc[q] = "abort_cleanup" => state \in {"READY", "IDLE"}

\* The runner knows the run it works on, from when it is built.
Known ==
    /\ state = "IDLE" => testRun = NoRun
    /\ state = "LOADING" =>
          testRun = NoRun \/ \E q \in Requests : pc[q] = "start_ready"
    /\ state \in {"READY", "RUNNING"} => testRun \in Runs
    /\ \A q \in Requests :
          /\ pc[q] \in {"start_fetch", "start_build"} => testRun = NoRun
          /\ pc[q] = "start_ready" => testRun = arg[q]
          /\ executing[q] # NoRun => executing[q] = testRun

\* A run the engine has taken, and whose execution has not ended.
Fresh(r) ==
    \/ \E q \in Requests : pc[q] = "start_build" /\ arg[q] = r
    \/ testRun = r /\ \A q \in Requests : pc[q] \notin EndingPC

Executes(r) == \E q \in Requests : executing[q] = r

\* It has no final results, and was not executed unless it executes; nor was
\* a run that can be taken.
Counted ==
    \A r \in Runs :
        /\ executions[r] <= 1
        /\ Fresh(r) => row[r] # "final"
        /\ Fresh(r) \/ row[r] \in {"pending", "unfinished"} =>
              Executes(r) \/ executions[r] = 0

Working == OneBusy /\ Phase /\ Known /\ Counted

\* A delete that passed its check is not of the run the runner knows.
Kept ==
    /\ \A q \in Requests : pc[q] = "delete_remove" => testRun # arg[q]
    /\ \A r \in Runs : Fresh(r) => row[r] # "deleted"

IInv ==
    /\ TypeOK /\ Named /\ NoClash
    /\ OneEngine => Working
    /\ races = {} => Kept

-----------------------------------------------------------------------------
(***************************************************************************)
(* Types, and the task of a RUNNING runner.                                *)
(***************************************************************************)
USE DEF RunnerState, PC, ThreadPC, StartPC, AbortPC, DeletePC, RunPC

(* TypeOK is inductive: no step, of whatever request in whatever order,    *)
(* takes a variable out of its type.                                       *)
LEMMA TypeStep == TypeOK /\ [Next]_vars => TypeOK'
<1> SUFFICES ASSUME TypeOK, [Next]_vars PROVE TypeOK'
  OBVIOUS
<1> USE RunnerAssumption
    DEF TypeOK, Goto, Enter, history, MaxExecutions, Begun, Forgotten
<1>1. CASE UNCHANGED vars
  BY <1>1 DEF vars
<1>2. ASSUME NEW q \in Requests, NEW kind \in Kinds, NEW r \in Runs \cup {NoRun},
             Arrive(q, kind, r)
      PROVE  TypeOK'
  BY <1>2 DEF Arrive
<1>3. ASSUME NEW q \in Requests, Thread(q)
      PROVE  TypeOK'
  <2>1. CASE StartCheck(q) \/ StartClaim(q) \/ StartFetch(q) \/ StartBuild(q)
             \/ StartTestNotFound(q) \/ StartFault(q) \/ StartReady(q)
    BY <2>1 DEF StartCheck, StartClaim, StartFetch, StartBuild, StartTestNotFound,
                StartFault, StartReady
  <2>2. CASE AbortIdle(q) \/ AbortReady(q) \/ AbortCleanup(q) \/ AbortRunning(q)
    BY <2>2 DEF AbortIdle, AbortReady, AbortCleanup, AbortRunning
  <2>3. CASE AbortCancel(q)
    BY <2>3 DEF AbortCancel
  <2>4. CASE DeleteCheck(q) \/ DeleteRemove(q)
    BY <2>4 DEF DeleteCheck, DeleteRemove
  <2> QED
    BY <1>3, <2>1, <2>2, <2>3, <2>4 DEF Thread
<1>4. ASSUME NEW q \in Requests, Background(q)
      PROVE  TypeOK'
  <2>1. CASE RunCheck(q) \/ RunStart(q) \/ RunEnds(q) \/ RunCleanup(q)
    BY <2>1 DEF RunCheck, RunStart, RunEnds, RunCleanup
  <2>2. CASE RunBegin(q)
    BY <2>2 DEF RunBegin
  <2>3. CASE RunFinish(q)
    BY <2>3 DEF RunFinish
  <2>4. CASE RunRaises(q)
    BY <2>4 DEF RunRaises
  <2> QED
    BY <1>4, <2>1, <2>2, <2>3, <2>4 DEF Background
<1>5. ASSUME NEW R \in SUBSET Runs, DeleteProject(R)
      PROVE  TypeOK'
  BY <1>5 DEF DeleteProject
<1>6. CASE Crash
  BY <1>6 DEF Crash
<1> QED
  BY <1>1, <1>2, <1>3, <1>4, <1>5, <1>6 DEF Next

(* Type correctness of the runner and its requests, under any schedule.    *)
THEOREM TypeCorrect == Spec => []TypeOK
<1>1. Init => TypeOK
  BY RunnerAssumption DEF Init, TypeOK, MaxExecutions
<1> QED
  BY <1>1, TypeStep, PTL DEF Spec

(* A RUNNING runner has a task that will make it IDLE (TestRunner.run      *)
(* cleans up after whatever it caught), however requests overlap and       *)
(* whatever raises.                                                        *)
THEOREM RunnerHasTask == Spec => []RunningHasTask
<1>1. Init => RunningHasTask
  BY DEF Init, RunningHasTask
<1>2. TypeOK /\ RunningHasTask /\ [Next]_vars => RunningHasTask'
  <2> SUFFICES ASSUME TypeOK, RunningHasTask, [Next]_vars PROVE RunningHasTask'
    OBVIOUS
  <2> USE DEF TypeOK, RunningHasTask, Goto, Enter, history
  <2>1. CASE UNCHANGED vars
    BY <2>1 DEF vars
  <2>2. ASSUME NEW q \in Requests, NEW kind \in Kinds, NEW r \in Runs \cup {NoRun},
               Arrive(q, kind, r)
        PROVE  RunningHasTask'
    BY <2>2 DEF Arrive
  <2>3. ASSUME NEW q \in Requests, Thread(q)
        PROVE  RunningHasTask'
    BY <2>3 DEF Thread, StartCheck, StartClaim, StartFetch, StartBuild,
                StartTestNotFound, StartFault, StartReady, AbortIdle, AbortReady,
                AbortCleanup, AbortRunning, AbortCancel, DeleteCheck, DeleteRemove
  <2>4. ASSUME NEW q \in Requests, Background(q)
        PROVE  RunningHasTask'
    BY <2>4 DEF Background, RunCheck, RunBegin, RunStart, RunEnds, RunFinish,
                RunRaises, RunCleanup
  <2>5. ASSUME NEW R \in SUBSET Runs, DeleteProject(R)
        PROVE  RunningHasTask'
    BY <2>5 DEF DeleteProject
  <2>6. CASE Crash
    BY <2>6 DEF Crash
  <2> QED
    BY <2>1, <2>2, <2>3, <2>4, <2>5, <2>6 DEF Next
<1> QED
  BY <1>1, <1>2, TypeCorrect, PTL DEF Spec

-----------------------------------------------------------------------------
(***************************************************************************)
(* Races: which there are, and what a step adds.                           *)
(***************************************************************************)
(* Nothing but a restart takes a race back.                                *)
LEMMA RacesGrow == TypeOK /\ [Next]_vars /\ ~Crash => races \subseteq races'
<1> SUFFICES ASSUME TypeOK, [Next]_vars, ~Crash PROVE races \subseteq races'
  OBVIOUS
<1> USE DEF Goto, Enter
<1>1. ASSUME NEW q \in Requests, NEW kind \in Kinds, NEW r \in Runs \cup {NoRun},
             Arrive(q, kind, r)
      PROVE  races \subseteq races'
  BY <1>1 DEF Arrive
<1>2. ASSUME NEW q \in Requests, Thread(q)
      PROVE  races \subseteq races'
  BY <1>2 DEF Thread, StartCheck, StartClaim, StartFetch, StartBuild,
              StartTestNotFound, StartFault, StartReady, AbortIdle, AbortReady,
              AbortCleanup, AbortRunning, AbortCancel, DeleteCheck, DeleteRemove
<1>3. ASSUME NEW q \in Requests, Background(q)
      PROVE  races \subseteq races'
  BY <1>3 DEF Background, RunCheck, RunBegin, RunStart, RunEnds, RunFinish,
              RunRaises, RunCleanup
<1>4. ASSUME NEW R \in SUBSET Runs, DeleteProject(R)
      PROVE  races \subseteq races'
  BY <1>4 DEF DeleteProject
<1> QED
  BY <1>1, <1>2, <1>3, <1>4 DEF Next, vars

(* A request that goes somewhere finds the races there are.                *)
LEMMA EnterSeesRaces ==
  ASSUME TypeOK, NEW q \in Requests, NEW label \in PC, Enter(q, label),
         \A p \in Requests : pc'[p] \in {"start_build", "delete_remove"} => arg'[p] = arg[p]
  PROVE  NoClash'
<1>1. ASSUME NEW kind \in RaceKinds, kind \notin races'
      PROVE  ~Race(kind, pc')
  BY <1>1 DEF Enter
<1>2. ASSUME "start" \notin races'
      PROVE  \A p, s \in Requests : pc'[p] = "start_claim" /\ pc'[s] = "start_claim" => p = s
  BY <1>1, <1>2 DEF RaceKinds, Race
<1>3. ASSUME "abort" \notin races'
      PROVE  \A p, s \in Requests :
                pc'[p] = "abort_cleanup" => pc'[s] \notin {"start_claim", "run_begin"}
  BY <1>1, <1>3 DEF RaceKinds, Race
<1>4. ASSUME "delete" \notin races'
      PROVE  \A p, s \in Requests :
                pc'[p] = "delete_remove" /\ pc'[s] = "start_build" => arg'[p] # arg'[s]
  BY <1>1, <1>4 DEF RaceKinds, Race
<1> QED
  BY <1>2, <1>3, <1>4 DEF NoClash

(* After any step the requests that name a run do, and races has its races. *)
LEMMA ClashStep == TypeOK /\ Named /\ NoClash /\ [Next]_vars => Named' /\ NoClash'
<1> SUFFICES ASSUME TypeOK, Named, NoClash, [Next]_vars PROVE Named' /\ NoClash'
  OBVIOUS
<1>1. ASSUME NEW q \in Requests, NEW kind \in Kinds, NEW r \in Runs \cup {NoRun},
             Arrive(q, kind, r)
      PROVE  Named' /\ NoClash'
  <2>1. PICK label \in {"start_check", "abort_idle", "delete_check"} :
           Enter(q, label) /\ (label # "abort_idle" => r \in Runs)
    BY <1>1 DEF Arrive
  <2>2. \A p \in Requests : pc'[p] \in {"start_build", "delete_remove"} => arg'[p] = arg[p]
    BY <1>1, <2>1 DEF Arrive, Enter, TypeOK
  <2>3. NoClash'
    BY <2>1, <2>2, EnterSeesRaces
  <2>4. Named'
    BY <1>1, <2>1 DEF Arrive, Enter, TypeOK, Named
  <2> QED
    BY <2>3, <2>4
<1>2. ASSUME NEW q \in Requests, NEW label \in PC, Goto(q, label),
             label \in StartPC \cup DeletePC => pc[q] \in StartPC \cup DeletePC
      PROVE  Named' /\ NoClash'
  <2>1. \A p \in Requests : pc'[p] \in StartPC \cup DeletePC => arg'[p] = arg[p]
    BY <1>2 DEF Goto, Enter, TypeOK
  <2>2. NoClash'
    BY <1>2, <2>1, EnterSeesRaces DEF Goto
  <2>3. Named'
    BY <1>2, <2>1 DEF Goto, Enter, TypeOK, Named
  <2> QED
    BY <2>2, <2>3
<1>3. ASSUME NEW q \in Requests, Thread(q)
      PROVE  Named' /\ NoClash'
  <2>1. \E label \in PC :
           Goto(q, label) /\ (label \in StartPC \cup DeletePC => pc[q] \in StartPC \cup DeletePC)
    BY <1>3 DEF Thread, StartCheck, StartClaim, StartFetch, StartBuild,
                StartTestNotFound, StartFault, StartReady, AbortIdle, AbortReady,
                AbortCleanup, AbortRunning, AbortCancel, DeleteCheck, DeleteRemove
  <2> QED
    BY <1>2, <2>1
<1>4. ASSUME NEW q \in Requests, Background(q)
      PROVE  Named' /\ NoClash'
  <2>1. \E label \in PC : Goto(q, label) /\ label \notin StartPC \cup DeletePC
    BY <1>4 DEF Background, RunCheck, RunBegin, RunStart, RunEnds, RunFinish,
                RunRaises, RunCleanup
  <2> QED
    BY <1>2, <2>1
<1>5. ASSUME NEW R \in SUBSET Runs, DeleteProject(R)
      PROVE  Named' /\ NoClash'
  BY <1>5 DEF DeleteProject, Named, NoClash
<1>6. CASE Crash
  BY <1>6 DEF Crash, Named, NoClash
<1>7. CASE UNCHANGED vars
  BY <1>7 DEF vars, Named, NoClash
<1> QED
  BY <1>1, <1>3, <1>4, <1>5, <1>6, <1>7 DEF Next

-----------------------------------------------------------------------------
(***************************************************************************)
(* The invariant.                                                          *)
(***************************************************************************)
LEMMA InitIInv == Init => IInv
<1> SUFFICES ASSUME Init PROVE IInv
  OBVIOUS
<1> USE RunnerAssumption DEF Init
<1>1. TypeOK
  BY DEF TypeOK, MaxExecutions
<1>2. Named /\ NoClash
  BY DEF Named, NoClash
<1>3. OneBusy /\ Phase /\ Known
  BY DEF OneBusy, BusyPC, LoadingPC, RunningPC, ExecutingPC, EndingPC, Phase, Known
<1>4. Counted
  BY DEF Counted, Fresh
<1>5. Kept
  BY DEF Kept, Fresh
<1> QED
  BY <1>1, <1>2, <1>3, <1>4, <1>5 DEF IInv, Working

(* As long as no start met another and no abort a run that begins, every   *)
(* step keeps the engine to one request, and its state to that request's.  *)
LEMMA PhaseStep ==
  ASSUME TypeOK, TypeOK', Named, NoClash, NoClash', OneEngine, OneEngine',
         OneBusy, Phase, Known, [Next]_vars
  PROVE  OneBusy' /\ Phase' /\ Known'
<1> USE RunnerAssumption DEF TypeOK, OneBusy, Phase, Known, Goto, Enter, history,
        BusyPC, LoadingPC, RunningPC, ExecutingPC, EndingPC
<1>0. /\ "start" \notin races /\ "abort" \notin races
      /\ "start" \notin races' /\ "abort" \notin races'
  BY DEF OneEngine
<1>a. /\ \A p, q \in Requests : pc[p] = "start_claim" /\ pc[q] = "start_claim" => p = q
      /\ \A p, q \in Requests :
            pc[p] = "abort_cleanup" => pc[q] \notin {"start_claim", "run_begin"}
      /\ \A p, q \in Requests :
            pc'[p] = "abort_cleanup" => pc'[q] \notin {"start_claim", "run_begin"}
  BY <1>0 DEF NoClash
<1>1. CASE UNCHANGED vars
  BY <1>1 DEF vars
<1>2. ASSUME NEW q \in Requests, NEW kind \in Kinds, NEW r \in Runs \cup {NoRun},
             Arrive(q, kind, r)
      PROVE  OneBusy' /\ Phase' /\ Known'
  BY <1>2 DEF Arrive
<1>3. ASSUME NEW q \in Requests, Thread(q)
      PROVE  OneBusy' /\ Phase' /\ Known'
  <2>1. CASE StartCheck(q)
    BY <2>1 DEF StartCheck
  <2>2. CASE StartClaim(q)
    BY <1>a, <2>2 DEF StartClaim
  <2>3. CASE StartFetch(q)
    BY <2>3 DEF StartFetch
  <2>4. CASE StartBuild(q)
    BY <2>4 DEF StartBuild
  <2>5. CASE StartTestNotFound(q)
    BY <2>5 DEF StartTestNotFound
  <2>6. CASE StartFault(q)
    BY <2>6 DEF StartFault
  <2>7. CASE StartReady(q)
    BY <2>7 DEF StartReady, Named
  <2>8. CASE AbortIdle(q)
    BY <2>8 DEF AbortIdle
  <2>9. CASE AbortReady(q)
    BY <2>9 DEF AbortReady
  <2>10. CASE AbortCleanup(q)
    BY <1>a, <2>10 DEF AbortCleanup
  <2>11. CASE AbortRunning(q)
    BY <2>11 DEF AbortRunning
  <2>12. CASE AbortCancel(q)
    BY <2>12 DEF AbortCancel
  <2>13. CASE DeleteCheck(q)
    BY <2>13 DEF DeleteCheck
  <2>14. CASE DeleteRemove(q)
    BY <2>14 DEF DeleteRemove
  <2> QED
    BY <1>3, <2>1, <2>2, <2>3, <2>4, <2>5, <2>6, <2>7, <2>8, <2>9, <2>10, <2>11,
       <2>12, <2>13, <2>14 DEF Thread
<1>4. ASSUME NEW q \in Requests, Background(q)
      PROVE  OneBusy' /\ Phase' /\ Known'
  <2>0. LoopIsFree(q)
    BY <1>4 DEF Background
  <2>1. CASE RunCheck(q)
    BY <2>0, <2>1 DEF RunCheck, LoopIsFree
  <2>2. CASE RunBegin(q)
    BY <1>a, <2>2 DEF RunBegin
  <2>3. CASE RunStart(q)
    BY <2>3 DEF RunStart
  <2>4. CASE RunEnds(q)
    BY <2>4 DEF RunEnds
  <2>5. CASE RunFinish(q)
    BY <2>5 DEF RunFinish
  <2>6. CASE RunRaises(q)
    BY <2>6 DEF RunRaises
  <2>7. CASE RunCleanup(q)
    BY <2>7 DEF RunCleanup
  <2> QED
    BY <1>4, <2>1, <2>2, <2>3, <2>4, <2>5, <2>6, <2>7 DEF Background
<1>5. ASSUME NEW R \in SUBSET Runs, DeleteProject(R)
      PROVE  OneBusy' /\ Phase' /\ Known'
  BY <1>5 DEF DeleteProject
<1>6. CASE Crash
  BY <1>6 DEF Crash
<1> QED
  BY <1>1, <1>2, <1>3, <1>4, <1>5, <1>6 DEF Next

(* The runs the engine has taken stay countable, however long it works for *)
(* a request.                                                              *)
LEMMA CountedStep ==
  ASSUME TypeOK, TypeOK', Named, OneBusy, Phase, Known, Counted, [Next]_vars, ~Crash
  PROVE  Counted'
<1> USE RunnerAssumption DEF TypeOK, Goto, Enter, history
\* Most steps execute nothing, save nothing and take no run.
<1>a. ASSUME UNCHANGED <<executing, executions>>,
             \A r \in Runs : Fresh(r)' => Fresh(r) /\ row'[r] # "final",
             \A r \in Runs :
                row'[r] \in {"pending", "unfinished"} => row[r] \in {"pending", "unfinished"}
      PROVE  Counted'
  BY <1>a DEF Counted, Executes
<1>b. ASSUME UNCHANGED <<row, executing, executions>>,
             \A r \in Runs : Fresh(r)' => Fresh(r)
      PROVE  Counted'
  BY <1>a, <1>b DEF Counted
<1>1. CASE UNCHANGED vars
  BY <1>b, <1>1 DEF vars, Fresh
<1>2. ASSUME NEW q \in Requests, NEW kind \in Kinds, NEW r \in Runs \cup {NoRun},
             Arrive(q, kind, r)
      PROVE  Counted'
  BY <1>b, <1>2 DEF Arrive, Fresh, EndingPC
<1>3. ASSUME NEW q \in Requests, Thread(q)
      PROVE  Counted'
  <2>1. CASE \/ StartCheck(q) \/ StartClaim(q) \/ StartTestNotFound(q) \/ StartFault(q)
             \/ StartReady(q)
    BY <1>b, <2>1 DEF StartCheck, StartClaim, StartTestNotFound, StartFault, StartReady,
                      Fresh, EndingPC
  <2>2. CASE StartFetch(q)
    \* The engine is LOADING: nobody executes a run.
    <3>1. ASSUME NEW r \in Runs, Fresh(r)', ~Fresh(r)
          PROVE  r = arg[q] /\ row[r] \in {"pending", "unfinished"}
      BY <2>2, <3>1 DEF StartFetch, Fresh, EndingPC
    <3>2. UNCHANGED <<row, executing, executions>>
      BY <2>2 DEF StartFetch
    <3> QED
      BY <3>1, <3>2 DEF Counted, Executes
  <2>3. CASE StartBuild(q)
    <3>1. ASSUME NEW r \in Runs, Fresh(r)'
          PROVE  Fresh(r)
      BY <2>3, <3>1 DEF StartBuild, Fresh, EndingPC
    <3> QED
      BY <1>b, <2>3, <3>1 DEF StartBuild
  <2>4. CASE AbortIdle(q) \/ AbortReady(q) \/ AbortRunning(q)
    BY <1>b, <2>4 DEF AbortIdle, AbortReady, AbortRunning, Fresh, EndingPC
  <2>5. CASE AbortCleanup(q)
    BY <1>b, <2>5 DEF AbortCleanup, Fresh, EndingPC
  <2>6. CASE AbortCancel(q)
    BY <1>b, <2>6 DEF AbortCancel, Fresh, EndingPC
  <2>7. CASE DeleteCheck(q)
    BY <1>b, <2>7 DEF DeleteCheck, Fresh, EndingPC
  <2>8. CASE DeleteRemove(q)
    <3>1. ASSUME NEW r \in Runs, Fresh(r)'
          PROVE  Fresh(r)
      BY <2>8, <3>1 DEF DeleteRemove, Fresh, EndingPC
    <3>2. \A r \in Runs : row'[r] \in {row[r], "deleted"}
      BY <2>8 DEF DeleteRemove
    <3> QED
      BY <1>a, <2>8, <3>1, <3>2 DEF DeleteRemove, Counted
  <2> QED
    BY <1>3, <2>1, <2>2, <2>3, <2>4, <2>5, <2>6, <2>7, <2>8 DEF Thread
<1>4. ASSUME NEW q \in Requests, Background(q)
      PROVE  Counted'
  <2> USE DEF BusyPC, RunningPC, ExecutingPC, EndingPC
  <2>1. CASE RunCheck(q) \/ RunStart(q) \/ RunEnds(q)
    BY <1>b, <2>1 DEF RunCheck, RunStart, RunEnds, Fresh
  <2>2. CASE RunBegin(q)
    <3>1. testRun \in Runs /\ state = "READY"
      BY <2>2 DEF RunBegin, Phase, Known
    \* Its run is fresh, and nobody executes.
    <3>2. /\ \A p \in Requests : executing[p] = NoRun
          /\ Fresh(testRun)
      BY <3>1 DEF Phase, Fresh
    <3>3. executions[testRun] = 0
      BY <3>1, <3>2 DEF Counted, Executes
    <3>4. /\ \A r \in Runs : Fresh(r)' => Fresh(r)
          /\ executing' = [executing EXCEPT ![q] = testRun]
          /\ executions' = [executions EXCEPT ![testRun] = 1]
          /\ row' = row
      BY <2>2, <3>1, <3>3 DEF RunBegin, Fresh, Begun, MaxExecutions
    <3> QED
      BY <3>1, <3>2, <3>4 DEF Counted, Executes
  <2>3. CASE RunFinish(q)
    <3>1. executing[q] = testRun /\ testRun \in Runs
      BY <2>3 DEF RunFinish, Known
    \* No other request executes, and none loads: no run is fresh any more.
    <3>2. /\ \A p \in Requests : executing'[p] = NoRun
          /\ \A r \in Runs : ~Fresh(r)'
      BY <2>3, <3>1 DEF RunFinish, OneBusy, LoadingPC, Fresh
    <3>3. \A r \in Runs \ {testRun} : row'[r] = row[r] /\ executions'[r] = executions[r]
      BY <2>3, <3>1 DEF RunFinish, Forgotten
    <3>4. \A r \in Runs \ {testRun} : ~Executes(r)
      BY <3>1 DEF Known, Executes
    <3>5. /\ executions[testRun] <= 1
          /\ executions'[testRun] \in {0, executions[testRun]}
          /\ row'[testRun] \in {"pending", "unfinished"} => executions'[testRun] = 0
      BY <2>3, <3>1 DEF RunFinish, Forgotten, Present, Counted
    <3> QED
      BY <3>2, <3>3, <3>4, <3>5 DEF Counted
  <2>4. CASE RunRaises(q)
    <3>1. executing[q] = testRun /\ testRun \in Runs
      BY <2>4 DEF RunRaises, Known
    <3>2. /\ \A p \in Requests : executing'[p] = NoRun
          /\ \A r \in Runs : ~Fresh(r)'
      BY <2>4, <3>1 DEF RunRaises, OneBusy, LoadingPC, Fresh
    <3>3. /\ row' = row
          /\ \A r \in Runs \ {testRun} : executions'[r] = executions[r]
      BY <2>4, <3>1 DEF RunRaises, Forgotten
    <3>4. \A r \in Runs \ {testRun} : ~Executes(r)
      BY <3>1 DEF Known, Executes
    <3>5. executions'[testRun] = 0
      BY <2>4, <3>1 DEF RunRaises, Forgotten, Counted
    <3> QED
      BY <3>2, <3>3, <3>4, <3>5 DEF Counted
  <2>5. CASE RunCleanup(q)
    BY <1>b, <2>5 DEF RunCleanup, Fresh
  <2> QED
    BY <1>4, <2>1, <2>2, <2>3, <2>4, <2>5 DEF Background
<1>5. ASSUME NEW R \in SUBSET Runs, DeleteProject(R)
      PROVE  Counted'
  <2>1. ASSUME NEW r \in Runs, Fresh(r)'
        PROVE  Fresh(r)
    BY <1>5, <2>1 DEF DeleteProject, Fresh
  <2>2. \A r \in Runs : row'[r] \in {row[r], "dropped"}
    BY <1>5 DEF DeleteProject
  <2> QED
    BY <1>a, <1>5, <2>1, <2>2 DEF DeleteProject, Counted
<1> QED
  BY <1>1, <1>2, <1>3, <1>4, <1>5 DEF Next

(* Until a delete meets the start of its run, deletes are of other runs.   *)
LEMMA KeptStep ==
  ASSUME TypeOK, TypeOK', Named, NoClash, NoClash', OneBusy, Phase, Known, Kept,
         races = {}, races' = {}, [Next]_vars, ~Crash
  PROVE  Kept'
<1> USE RunnerAssumption DEF TypeOK, Goto, Enter, history
<1>0. /\ \A p, q \in Requests :
            pc[p] = "delete_remove" /\ pc[q] = "start_build" => arg[p] # arg[q]
      /\ \A p, q \in Requests :
            pc'[p] = "delete_remove" /\ pc'[q] = "start_build" => arg'[p] # arg'[q]
  BY DEF NoClash
\* Most steps remove nothing, and no delete passes its check.
<1>a. ASSUME row' = row, testRun' \in {testRun, NoRun},
             \A q \in Requests : pc'[q] = "delete_remove" =>
                pc[q] = "delete_remove" /\ arg'[q] = arg[q],
             \A r \in Runs : Fresh(r)' => Fresh(r)
      PROVE  Kept'
  BY <1>a DEF Kept, Named
<1>1. CASE UNCHANGED vars
  BY <1>a, <1>1 DEF vars, Fresh
<1>2. ASSUME NEW q \in Requests, NEW kind \in Kinds, NEW r \in Runs \cup {NoRun},
             Arrive(q, kind, r)
      PROVE  Kept'
  BY <1>a, <1>2 DEF Arrive, Fresh, EndingPC
<1>3. ASSUME NEW q \in Requests, Thread(q)
      PROVE  Kept'
  <2>1. CASE \/ StartCheck(q) \/ StartClaim(q) \/ StartTestNotFound(q) \/ StartFault(q)
             \/ StartReady(q)
    BY <1>a, <2>1 DEF StartCheck, StartClaim, StartTestNotFound, StartFault, StartReady,
                      Fresh, EndingPC
  <2>2. CASE StartFetch(q)
    <3>1. /\ row' = row /\ testRun' = testRun
          /\ \A p \in Requests : pc'[p] = "delete_remove" =>
                pc[p] = "delete_remove" /\ arg'[p] = arg[p]
      BY <2>2 DEF StartFetch
    <3>2. \A r \in Runs : Fresh(r)' => Fresh(r) \/ row[r] \in {"pending", "unfinished"}
      BY <2>2 DEF StartFetch, Fresh, EndingPC
    <3> QED
      BY <3>1, <3>2 DEF Kept
  <2>3. CASE StartBuild(q)
    \* A delete of this run would have raced with its start.
    <3>1. /\ row' = row /\ testRun' = arg[q]
          /\ \A p \in Requests : pc'[p] = "delete_remove" =>
                pc[p] = "delete_remove" /\ arg'[p] = arg[p] /\ arg[p] # arg[q]
      BY <1>0, <2>3 DEF StartBuild
    <3>2. \A r \in Runs : Fresh(r)' => Fresh(r)
      BY <2>3 DEF StartBuild, Fresh, EndingPC
    <3> QED
      BY <3>1, <3>2 DEF Kept
  <2>4. CASE AbortIdle(q) \/ AbortReady(q) \/ AbortRunning(q)
    BY <1>a, <2>4 DEF AbortIdle, AbortReady, AbortRunning, Fresh, EndingPC
  <2>5. CASE AbortCleanup(q)
    BY <1>a, <2>5 DEF AbortCleanup, Fresh, EndingPC
  <2>6. CASE AbortCancel(q)
    BY <1>a, <2>6 DEF AbortCancel, Fresh, EndingPC
  <2>7. CASE DeleteCheck(q)
    <3>1. /\ row' = row /\ testRun' = testRun
          /\ \A p \in Requests : pc'[p] = "delete_remove" =>
                \/ pc[p] = "delete_remove" /\ arg'[p] = arg[p]
                \/ testRun # arg'[p]
          /\ \A r \in Runs : Fresh(r)' => Fresh(r)
      BY <2>7 DEF DeleteCheck, Fresh, EndingPC
    <3> QED
      BY <3>1 DEF Kept
  <2>8. CASE DeleteRemove(q)
    <3>1. /\ \A r \in Runs : Fresh(r)' => Fresh(r)
          /\ \A r \in Runs \ {arg[q]} : row'[r] = row[r]
          /\ testRun' = testRun
          /\ \A p \in Requests : pc'[p] = "delete_remove" =>
                pc[p] = "delete_remove" /\ arg'[p] = arg[p]
      BY <2>8 DEF DeleteRemove, Fresh, EndingPC
    <3>2. ~Fresh(arg[q])
      BY <1>0, <2>8 DEF DeleteRemove, Fresh, Kept
    <3> QED
      BY <3>1, <3>2 DEF Kept
  <2> QED
    BY <1>3, <2>1, <2>2, <2>3, <2>4, <2>5, <2>6, <2>7, <2>8 DEF Thread
<1>4. ASSUME NEW q \in Requests, Background(q)
      PROVE  Kept'
  <2> USE DEF BusyPC, RunningPC, ExecutingPC, EndingPC
  <2>1. CASE RunCheck(q) \/ RunBegin(q) \/ RunStart(q) \/ RunEnds(q)
    BY <1>a, <2>1 DEF RunCheck, RunBegin, RunStart, RunEnds, Fresh
  <2>2. CASE RunFinish(q) \/ RunRaises(q)
    <3>1. /\ testRun' = testRun
          /\ \A p \in Requests : pc'[p] = "delete_remove" =>
                pc[p] = "delete_remove" /\ arg'[p] = arg[p]
      BY <2>2 DEF RunFinish, RunRaises
    <3>2. \A r \in Runs : ~Fresh(r)'
      BY <2>2 DEF RunFinish, RunRaises, OneBusy, LoadingPC, Fresh
    <3> QED
      BY <3>1, <3>2 DEF Kept
  <2>3. CASE RunCleanup(q)
    BY <1>a, <2>3 DEF RunCleanup, Fresh
  <2> QED
    BY <1>4, <2>1, <2>2, <2>3 DEF Background
<1>5. ASSUME NEW R \in SUBSET Runs, DeleteProject(R)
      PROVE  Kept'
  <2>1. /\ UNCHANGED <<testRun, pc, arg>>
        /\ \A r \in Runs : row'[r] \in {row[r], "dropped"}
    BY <1>5 DEF DeleteProject
  <2>2. \A r \in Runs : Fresh(r)' => Fresh(r)
    BY <2>1 DEF Fresh
  <2> QED
    BY <2>1, <2>2 DEF Kept
<1> QED
  BY <1>1, <1>2, <1>3, <1>4, <1>5 DEF Next

(* A restart leaves an idle engine, and what was recorded.                 *)
LEMMA CrashStep == ASSUME TypeOK, Crash PROVE Working' /\ Kept'
<1> USE DEF TypeOK, Crash
<1>1. OneBusy' /\ Phase' /\ Known'
  BY DEF OneBusy, BusyPC, LoadingPC, RunningPC, ExecutingPC, EndingPC, Phase, Known
<1>2. \A r \in Runs : ~Fresh(r)'
  BY RunnerAssumption DEF Fresh
<1>3. Counted' /\ Kept'
  BY <1>2 DEF Counted, Kept
<1> QED
  BY <1>1, <1>3 DEF Working

(* Every step of the requests, of the engine and of a restart preserves    *)
(* the invariant.                                                          *)
LEMMA IInvStep == IInv /\ [Next]_vars => IInv'
<1> SUFFICES ASSUME IInv, [Next]_vars PROVE IInv'
  OBVIOUS
<1>1. TypeOK /\ TypeOK' /\ Named /\ NoClash /\ Named' /\ NoClash'
  BY TypeStep, ClashStep DEF IInv
<1>2. CASE Crash
  BY <1>1, <1>2, CrashStep DEF IInv
<1>3. CASE ~Crash
  <2>1. races \subseteq races'
    BY <1>1, <1>3, RacesGrow
  <2>2. ASSUME OneEngine'
        PROVE  Working'
    <3>1. OneEngine
      BY <2>1, <2>2 DEF OneEngine
    <3>2. OneBusy /\ Phase /\ Known /\ Counted
      BY <3>1 DEF IInv, Working
    <3> QED
      BY <1>1, <1>3, <2>2, <3>1, <3>2, PhaseStep, CountedStep DEF Working
  <2>3. ASSUME races' = {}
        PROVE  Kept'
    <3>1. races = {}
      BY <2>1, <2>3
    <3>2. OneBusy /\ Phase /\ Known /\ Kept
      BY <3>1 DEF IInv, Working, OneEngine
    <3> QED
      BY <1>1, <1>3, <2>3, <3>1, <3>2, KeptStep
  <2> QED
    BY <1>1, <2>2, <2>3 DEF IInv
<1> QED
  BY <1>2, <1>3

(* The invariant from which the theorems on the engine follow.             *)
LEMMA Invariance == Spec => []IInv
BY InitIInv, IInvStep, PTL DEF Spec

-----------------------------------------------------------------------------
(***************************************************************************)
(* The theorems.                                                           *)
(***************************************************************************)
(* However requests overlap, until a start meets another or an abort a run *)
(* that begins, no two runs execute, and one that executes is the one the  *)
(* RUNNING runner names (load_test_run refuses while the runner is busy).  *)
THEOREM OneRun == Spec => []OneRunAtATime
<1>1. IInv => OneRunAtATime
  BY DEF IInv, Working, TypeOK, OneBusy, Phase, Known, OneRunAtATime, AtMostOneExecutes,
         BusyPC, LoadingPC, RunningPC, ExecutingPC
<1> QED
  BY <1>1, Invariance, PTL

(* Under the same schedules a run is executed again only if its results    *)
(* were lost, by a restart or an exception, or left it PENDING.            *)
THEOREM RunExecutedOnce == Spec => []ExecutedOnce
<1>1. IInv => ExecutedOnce
  BY DEF IInv, Working, Counted, ExecutedOnce
<1> QED
  BY <1>1, Invariance, PTL

(* The row of a run that executes is not deleted under it by the endpoint  *)
(* that deletes runs, up to a race.                                        *)
THEOREM ExecutingRunKept == Spec => []ExecutingRunIsKept
<1>1. IInv => ExecutingRunIsKept
  <2> SUFFICES ASSUME IInv, races = {}, NEW q \in Requests, executing[q] # NoRun
               PROVE  row[executing[q]] # "deleted"
    BY DEF ExecutingRunIsKept
  <2> USE DEF IInv, TypeOK
  <2>1. Working /\ Kept
    BY DEF OneEngine
  <2>2. executing[q] \in Runs /\ testRun = executing[q]
    BY <2>1 DEF Working, Known
  <2>3. \A p \in Requests : pc[p] \notin EndingPC
    BY <2>1 DEF Working, OneBusy, BusyPC, RunningPC, ExecutingPC, EndingPC
  <2> QED
    BY <2>1, <2>2, <2>3 DEF Kept, Fresh
<1> QED
  BY <1>1, Invariance, PTL

(* An execution that ends without an exception of its own has its results  *)
(* recorded: other requests take neither its run from the runner nor its   *)
(* row from the database, up to a race or the deletion of its project.     *)
THEOREM ResultsRecorded == Spec => ResultsAreRecorded
<1>1. IInv /\ [Next]_vars =>
        [\A q \in Requests :
            pc[q] = "run_finish" /\ pc'[q] = "run_cleanup" =>
                \/ row'[executing[q]] \in {"final", "unfinished"}
                \/ row[executing[q]] = "dropped"
                \/ races # {}]_vars
  <2> SUFFICES ASSUME IInv, [Next]_vars, NEW q \in Requests,
                      pc[q] = "run_finish", pc'[q] = "run_cleanup",
                      races = {}, row[executing[q]] # "dropped"
               PROVE  row'[executing[q]] \in {"final", "unfinished"}
    OBVIOUS
  <2> USE DEF IInv, TypeOK
  \* No other action takes this request to run_cleanup.
  <2>1. RunFinish(q)
    <3>1. ASSUME NEW p \in Requests, NEW kind \in Kinds, NEW r \in Runs \cup {NoRun}
          PROVE  ~Arrive(p, kind, r)
      BY DEF Arrive, Enter
    <3>2. ASSUME NEW p \in Requests, Thread(p)
          PROVE  FALSE
      BY <3>2 DEF Thread, Goto, Enter, StartCheck, StartClaim, StartFetch, StartBuild,
                  StartTestNotFound, StartFault, StartReady, AbortIdle, AbortReady,
                  AbortCleanup, AbortRunning, AbortCancel, DeleteCheck, DeleteRemove
    <3>3. ASSUME NEW p \in Requests, Background(p)
          PROVE  p = q /\ RunFinish(p)
      BY <3>3 DEF Background, Goto, Enter, RunCheck, RunBegin, RunStart, RunEnds,
                  RunFinish, RunRaises, RunCleanup
    <3>4. ~Crash /\ ~UNCHANGED vars /\ \A R \in SUBSET Runs : ~DeleteProject(R)
      BY DEF Crash, vars, DeleteProject
    <3> QED
      BY <3>1, <3>2, <3>3, <3>4 DEF Next
  \* Its run has its row, and the runner knows the run.
  <2>2. executing[q] \in Runs /\ testRun = executing[q]
    BY DEF OneEngine, Working, Known
  <2>3. row[executing[q]] # "deleted"
    <3>1. \A p \in Requests : pc[p] \notin EndingPC
      BY DEF OneEngine, Working, OneBusy, BusyPC, RunningPC, ExecutingPC, EndingPC
    <3> QED
      BY <2>2, <3>1 DEF Kept, Fresh
  <2> QED
    BY <2>1, <2>2, <2>3, RunnerAssumption DEF RunFinish, Present
<1> QED
  BY <1>1, Invariance, PTL DEF Spec, ResultsAreRecorded

(* The runner implements the engine its clients count on: each of its      *)
(* steps is a step of TestEngine or changes nothing a client sees, under   *)
(* every schedule, where a race frees the engine of its promise.           *)
THEOREM RunnerImplementsEngine == Spec => EngineSpec
<1>1. Init => Engine!Init
  <2> SUFFICES ASSUME Init PROVE Engine!Init
    OBVIOUS
  <2>1. races = {} /\ \A q \in Requests : pc[q] = "free"
    BY DEF Init
  <2>2. (races # {}) = FALSE
    BY <2>1
  <2>3. Outcome = "none"
    BY <2>1 DEF Outcome
  <2> QED
    BY <2>2, <2>3 DEF Init, Engine!Init
<1>2. IInv /\ [Next]_vars => [Engine!Next]_Engine!vars
  <2> SUFFICES ASSUME IInv, [Next]_vars PROVE [Engine!Next]_Engine!vars
    OBVIOUS
  \* A step that races, or comes after a race.
  <2>1. CASE races' # {}
    <3>1. (races' # {}) = TRUE
      BY <2>1
    <3> QED
      BY <3>1 DEF Engine!Next
  <2>2. CASE Crash
    <3>1. /\ state' = "IDLE" /\ testRun' = NoRun /\ crashes' = crashes + 1 /\ row' = row
          /\ races' = {} /\ \A q \in Requests : pc'[q] = "free"
      BY <2>2 DEF Crash
    <3>2. (races' # {}) = FALSE
      BY <3>1
    <3>3. Outcome' = "none"
      BY <3>1 DEF Outcome
    <3> QED
      BY <3>1, <3>2, <3>3 DEF Engine!Next, Engine!Restart
  <2>3. CASE UNCHANGED vars
    <3>1. Outcome' = Outcome /\ (races' # {}) = (races # {})
      BY <2>3 DEF vars, Outcome
    <3> QED
      BY <2>3, <3>1 DEF vars, Engine!vars
  <2>4. CASE races' = {} /\ ~Crash /\ ~UNCHANGED vars
    <3>0. races = {}
      BY <2>4, RacesGrow DEF IInv
    <3>a. (races # {}) = FALSE /\ (races' # {}) = FALSE
      BY <2>4, <3>0
    <3>b. TypeOK /\ Named /\ OneBusy /\ Phase /\ Known /\ Counted /\ Kept
      BY <3>0 DEF IInv, OneEngine, Working
    <3> HIDE DEF IInv
    <3> USE <3>b DEF TypeOK, history
    \* Work of the engine, or nothing it shows.
    <3>c. ASSUME Engine!Work, crashes' = crashes
          PROVE  [Engine!Next]_Engine!vars
      BY <3>a, <3>c DEF Engine!Next
    <3>d. ASSUME UNCHANGED <<state, testRun, row, crashes>>, Outcome' = Outcome
          PROVE  [Engine!Next]_Engine!vars
      BY <3>a, <3>d DEF Engine!vars
    \* What a request does that does not end an execution leaves the outcome.
    <3>e. ASSUME NEW q \in Requests, NEW label \in PC,
                 pc' = [pc EXCEPT ![q] = label], pc[q] \notin EndingPC, label \notin EndingPC
          PROVE  Outcome' = Outcome
      <4>1. \A p \in Requests : /\ pc'[p] = "run_failed" <=> pc[p] = "run_failed"
                                /\ pc'[p] = "run_cleanup" <=> pc[p] = "run_cleanup"
        BY <3>e DEF EndingPC
      <4> QED
        BY <4>1 DEF Outcome
    <3> USE DEF Goto, Enter
    <3>1. ASSUME NEW q \in Requests, NEW kind \in Kinds, NEW r \in Runs \cup {NoRun},
                 Arrive(q, kind, r)
          PROVE  [Engine!Next]_Engine!vars
      <4>1. Outcome' = Outcome
        BY <3>1, <3>e DEF Arrive, EndingPC
      <4> QED
        BY <3>1, <3>d, <4>1 DEF Arrive
    <3>2. ASSUME NEW q \in Requests, Thread(q)
          PROVE  [Engine!Next]_Engine!vars
      <4>0. Outcome' = Outcome /\ crashes' = crashes
        BY <3>2, <3>e DEF Thread, StartCheck, StartClaim, StartFetch, StartBuild,
              StartTestNotFound, StartFault, StartReady, AbortIdle, AbortReady,
              AbortCleanup, AbortRunning, AbortCancel, DeleteCheck, DeleteRemove, EndingPC
      <4>1. CASE StartClaim(q)
        <5>1. Engine!Claim
          BY <4>0, <4>1 DEF StartClaim, Phase, Engine!Claim
        <5> QED
          BY <5>1, <4>0, <3>c DEF Engine!Work
      <4>2. CASE StartFetch(q)
        <5>1. Engine!Refuse \/ UNCHANGED <<state, testRun, row>>
          BY <4>0, <4>2 DEF StartFetch, Phase, LoadingPC, Known, Engine!Refuse
        <5> QED
          BY <5>1, <4>0, <3>c, <3>d DEF Engine!Work
      <4>3. CASE StartBuild(q)
        <5>1. arg[q] \in Runs /\ row[arg[q]] # "final" /\ testRun = NoRun /\ state = "LOADING"
          BY <4>3 DEF StartBuild, Named, Phase, LoadingPC, Known, Counted, Fresh
        <5>2. Engine!Take(arg[q])
          BY <4>0, <4>3, <5>1 DEF StartBuild, Engine!Take
        <5> QED
          BY <5>1, <5>2, <4>0, <3>c DEF Engine!Work
      <4>4. CASE StartTestNotFound(q)
        <5>1. Engine!Refuse
          BY <4>0, <4>4 DEF StartTestNotFound, Phase, LoadingPC, Known, Engine!Refuse
        <5> QED
          BY <5>1, <4>0, <3>c DEF Engine!Work
      <4>5. CASE StartReady(q)
        <5>1. Engine!Loaded
          BY <4>0, <4>5, RunnerAssumption
             DEF StartReady, Named, Phase, LoadingPC, Known, Engine!Loaded
        <5> QED
          BY <5>1, <4>0, <3>c DEF Engine!Work
      <4>6. CASE AbortCleanup(q)
        <5>1. Engine!Discard \/ UNCHANGED <<state, testRun, row>>
          BY <4>0, <4>6 DEF AbortCleanup, Phase, Known, Engine!Discard
        <5> QED
          BY <5>1, <4>0, <3>c, <3>d DEF Engine!Work
      <4>7. CASE DeleteRemove(q)
        <5>1. arg[q] \in Runs /\ arg[q] # testRun
          BY <4>7 DEF DeleteRemove, Named, Kept
        <5>2. Engine!Remove(arg[q]) \/ UNCHANGED <<state, testRun, row>>
          BY <4>0, <4>7, <5>1 DEF DeleteRemove, Engine!Remove
        <5> QED
          BY <5>1, <5>2, <4>0, <3>c, <3>d DEF Engine!Work
      <4>8. CASE \/ StartCheck(q) \/ StartFault(q) \/ AbortIdle(q) \/ AbortReady(q)
                 \/ AbortRunning(q) \/ AbortCancel(q) \/ DeleteCheck(q)
        <5>1. UNCHANGED <<state, testRun, row>>
          BY <4>8 DEF StartCheck, StartFault, AbortIdle, AbortReady, AbortRunning,
                      AbortCancel, DeleteCheck
        <5> QED
          BY <5>1, <4>0, <3>d
      <4> QED
        BY <3>2, <4>1, <4>2, <4>3, <4>4, <4>5, <4>6, <4>7, <4>8 DEF Thread
    <3>3. ASSUME NEW q \in Requests, Background(q)
          PROVE  [Engine!Next]_Engine!vars
      <4> USE DEF BusyPC, RunningPC, ExecutingPC, EndingPC
      <4>1. CASE RunCheck(q) \/ RunStart(q) \/ RunEnds(q)
        <5>1. Outcome' = Outcome
          BY <4>1, <3>e DEF RunCheck, RunStart, RunEnds
        <5>2. UNCHANGED <<state, testRun, row, crashes>>
          BY <4>1 DEF RunCheck, RunStart, RunEnds
        <5> QED
          BY <5>1, <5>2, <3>d
      <4>2. CASE RunBegin(q)
        <5>1. testRun \in Runs /\ state = "READY"
          BY <4>2 DEF RunBegin, Phase, Known
        <5>2. Outcome' = Outcome
          BY <4>2, <5>1, <3>e, RunnerAssumption DEF RunBegin
        <5>3. Engine!Execute /\ crashes' = crashes
          BY <4>2, <5>1, <5>2, RunnerAssumption DEF RunBegin, Engine!Execute
        <5> QED
          BY <5>3, <3>c DEF Engine!Work
      <4>3. CASE RunFinish(q)
        <5>1. /\ state = "RUNNING" /\ testRun \in Runs /\ executing[q] = testRun
              /\ \A p \in Requests : pc[p] \notin EndingPC
          BY <4>3 DEF RunFinish, Phase, Known, OneBusy
        <5>2. row[testRun] \notin {"final", "deleted"}
          BY <5>1 DEF Counted, Kept, Fresh
        <5>3. Outcome = "none" /\ Outcome' = "recorded"
          BY <4>3, <5>1 DEF RunFinish, Outcome
        <5>4. IF row[testRun] = "dropped" THEN row' = row
              ELSE \E verdict \in {"final", "unfinished"} :
                      row' = [row EXCEPT ![testRun] = verdict]
          BY <4>3, <5>1, <5>2, RunnerAssumption DEF RunFinish, Present
        <5>5. Engine!Record /\ crashes' = crashes
          BY <4>3, <5>1, <5>2, <5>3, <5>4 DEF RunFinish, Engine!Record
        <5> QED
          BY <5>5, <3>c DEF Engine!Work
      <4>4. CASE RunRaises(q)
        <5>1. /\ state = "RUNNING"
              /\ \A p \in Requests : pc[p] \notin EndingPC
          BY <4>4 DEF RunRaises, Phase, OneBusy
        <5>2. Outcome = "none" /\ Outcome' = "lost"
          BY <4>4, <5>1 DEF RunRaises, Outcome
        <5>3. Engine!Lose /\ crashes' = crashes
          BY <4>4, <5>1, <5>2 DEF RunRaises, Engine!Lose
        <5> QED
          BY <5>3, <3>c DEF Engine!Work
      <4>5. CASE RunCleanup(q)
        <5>1. /\ state = "RUNNING"
              /\ \A p \in Requests \ {q} : pc[p] \notin EndingPC
          BY <4>5 DEF RunCleanup, Phase, OneBusy
        <5>2. Outcome # "none" /\ Outcome' = "none"
          BY <4>5, <5>1 DEF RunCleanup, Outcome
        <5>3. Engine!Release /\ crashes' = crashes
          BY <4>5, <5>1, <5>2 DEF RunCleanup, Engine!Release
        <5> QED
          BY <5>3, <3>c DEF Engine!Work
      <4> QED
        BY <3>3, <4>1, <4>2, <4>3, <4>4, <4>5 DEF Background
    <3>4. ASSUME NEW R \in SUBSET Runs, DeleteProject(R)
          PROVE  [Engine!Next]_Engine!vars
      <4>1. Outcome' = Outcome
        BY <3>4 DEF DeleteProject, Outcome
      <4>2. Engine!Drop(R) /\ crashes' = crashes
        BY <3>4, <4>1 DEF DeleteProject, Engine!Drop
      <4> QED
        BY <4>2, <3>c DEF Engine!Work
    <3> QED
      BY <2>4, <3>1, <3>2, <3>3, <3>4 DEF Next
  <2> QED
    BY <2>1, <2>2, <2>3, <2>4
<1> QED
  BY <1>1, <1>2, Invariance, PTL DEF Spec, EngineSpec, Engine!Spec
=============================================================================
