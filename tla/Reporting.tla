----------------------------- MODULE Reporting ------------------------------
(***************************************************************************)
(* How a run's log and states reach its clients and its database row.      *)
(*                                                                         *)
(* Log records of the tests go into the pending list of TestLogHandler,    *)
(* whose task moves them to the log of the run twice a second.  A change   *)
(* of the log or of a state notifies two observers: TestUIObserver starts  *)
(* a task that broadcasts the news, TestDBObserver copies them into the    *)
(* rows and queues the rows.  When the tests are over, TestRunner.run      *)
(* flushes the three in turn.                                              *)
(*                                                                         *)
(* Runs are executed one after another; Connections models what happens in *)
(* a broadcast, here it ends or raises.                                    *)
(***************************************************************************)
EXTENDS Naturals, Sequences, FiniteSets

CONSTANTS NumRuns,    \* runs executed one after another
          MaxEntries, \* records the tests of a run log
          MaxRaised,  \* broadcasts that raise
          FromThread  \* the record a request's thread logs (an abort that is late)

ASSUME ReportingAssumption ==
    /\ {NumRuns, MaxEntries, MaxRaised} \subseteq Nat
    /\ FromThread \notin Nat

VARIABLES
    run,     \* how many runs were started
    phase,   \* where TestRunner.run is
    state,   \* state of the run and of one of its tests
    logged,  \* number of records the tests have logged
    thread,  \* where the thread that logs is
    pending, \* TestLogHandler.__pending_log_entries
    log,     \* TestRun.log
    seen,    \* what TestUIObserver saw last: [state, length of the log]
    tasks,   \* the broadcasts of all runs: [run, news, status]
    row,     \* the states in the rows (their log is the log of the run)
    saved,   \* what was committed for the run: [state, log], or NotSaved
    raised   \* did run catch an exception?

vars == <<run, phase, state, logged, thread, pending, log, seen, tasks, row, saved, raised>>

Levels == {"run", "test"}
NotSaved == [state |-> [l \in Levels |-> "PENDING"], log |-> <<>>]
News(kind, what) == [run |-> run, kind |-> kind, what |-> what, status |-> "sending"]

Init ==
    /\ run = 0
    /\ phase = "idle"
    /\ state = [l \in Levels |-> "PENDING"]
    /\ logged = 0
    /\ thread = "out"
    /\ pending = <<>>
    /\ log = <<>>
    /\ seen = [state |-> "none", length |-> 0]
    /\ tasks = <<>>
    /\ row = [l \in Levels |-> "PENDING"]
    /\ saved = NotSaved
    /\ raised = FALSE

-----------------------------------------------------------------------------
(***************************************************************************)
(* The observers.  A run that changed is reported with its state, if it is *)
(* news, and with the part of its log that is news.                        *)
(***************************************************************************)
StateNews(value) == IF seen.state = value THEN <<>> ELSE <<News("run", value)>>

LogNews(entries) ==
    IF Len(entries) > seen.length
    THEN <<News("log", SubSeq(entries, seen.length + 1, Len(entries)))>>
    ELSE <<>>

NotifyRun(value, entries) ==
    /\ tasks' = tasks \o StateNews(value) \o LogNews(entries)
    /\ seen' = [state |-> value, length |-> Len(entries)]
    /\ row' = [row EXCEPT !["run"] = value]

NotifyTest(value) ==
    /\ tasks' = Append(tasks, News("test", value))
    /\ row' = [row EXCEPT !["test"] = value]
    /\ UNCHANGED seen

-----------------------------------------------------------------------------
(***************************************************************************)
(* The log handler.  Records of the event loop's thread are appended at    *)
(* once.  Another thread can be interrupted between loading the list and   *)
(* appending to it; if the list has been replaced, its record is lost.     *)
(***************************************************************************)
Log ==
    /\ phase = "testing"
    /\ logged < MaxEntries
    /\ logged' = logged + 1
    /\ pending' = Append(pending, logged + 1)
    /\ UNCHANGED <<run, phase, state, thread, log, seen, tasks, row, saved, raised>>

ThreadLoads ==
    /\ phase = "testing"
    /\ thread = "out"
    /\ thread' = "loaded"
    /\ UNCHANGED <<run, phase, state, logged, pending, log, seen, tasks, row, saved, raised>>

ThreadAppends ==
    /\ thread \in {"loaded", "stale"}
    /\ pending' = IF thread = "loaded" THEN Append(pending, FromThread) ELSE pending
    /\ thread' = "done"
    /\ UNCHANGED <<run, phase, state, logged, log, seen, tasks, row, saved, raised>>

\* __process_pending_entries
ProcessPending ==
    IF pending = <<>>
    THEN UNCHANGED <<pending, thread, log, seen, tasks, row>>
    ELSE /\ log' = log \o pending
         /\ pending' = <<>>
         /\ thread' = IF thread = "loaded" THEN "stale" ELSE thread
         /\ NotifyRun(state["run"], log \o pending)

HandlerWakes ==
    /\ phase \in {"testing", "finish"}
    /\ pending # <<>>
    /\ ProcessPending
    /\ UNCHANGED <<run, phase, state, logged, saved, raised>>

-----------------------------------------------------------------------------
(***************************************************************************)
(* TestRunner.run.                                                         *)
(***************************************************************************)
\* The broadcasts of earlier runs stay in the list; what they say is over.
Earlier ==
    [i \in DOMAIN tasks |-> [tasks[i] EXCEPT !.kind = "earlier", !.what = "-"]]

StartRun ==
    /\ phase = "idle"
    /\ run < NumRuns
    /\ run' = run + 1
    /\ phase' = "testing"
    /\ state' = [l \in Levels |-> IF l = "run" THEN "EXECUTING" ELSE "PENDING"]
    /\ logged' = 0
    /\ thread' = "out"
    /\ pending' = <<>>
    /\ log' = <<>>
    /\ seen' = [state |-> "EXECUTING", length |-> 0]
    /\ tasks' = Append(Earlier, [News("run", "EXECUTING") EXCEPT !.run = run + 1])
    /\ row' = [l \in Levels |-> IF l = "run" THEN "EXECUTING" ELSE "PENDING"]
    /\ saved' = NotSaved
    /\ raised' = FALSE

TestChanges ==
    /\ phase = "testing"
    /\ \E value \in {"EXECUTING", "PASSED"} :
          /\ <<state["test"], value>> \in {<<"PENDING", "EXECUTING">>, <<"EXECUTING", "PASSED">>}
          /\ state' = [state EXCEPT !["test"] = value]
          /\ NotifyTest(value)
    /\ UNCHANGED <<run, phase, logged, thread, pending, log, saved, raised>>

\* The run is marked as completed, which it logs too.
TestsEnd ==
    /\ phase = "testing"
    /\ state["test"] = "PASSED"
    /\ phase' = "finish"
    /\ state' = [state EXCEPT !["run"] = "PASSED"]
    /\ NotifyRun("PASSED", log)
    /\ logged' = logged + 1
    /\ pending' = Append(pending, logged + 1)
    /\ UNCHANGED <<run, thread, log, saved, raised>>

\* Removing the sink waits for a thread that is in it; then the task is
\* cancelled.
FinishCancels ==
    /\ phase = "finish"
    /\ thread \in {"out", "done"}
    /\ phase' = "flush"
    /\ UNCHANGED <<run, state, logged, thread, pending, log, seen, tasks, row, saved, raised>>

\* Mutant: finish only cancels the task.
FlushForgotten ==
    /\ phase = "flush"
    /\ phase' = "save"
    /\ UNCHANGED <<run, state, logged, thread, pending, log, seen, tasks, row, saved, raised>>

FinishFlushes ==
    /\ phase = "flush"
    /\ ProcessPending
    /\ phase' = "save"
    /\ UNCHANGED <<run, state, logged, saved, raised>>

\* Mutant: the updates are applied while the observers still get news.
SaveBeforeFlush ==
    /\ phase = "finish"
    /\ saved' = [state |-> row, log |-> log]
    /\ phase' = "flush"
    /\ UNCHANGED <<run, state, logged, thread, pending, log, seen, tasks, row, raised>>

\* The first commit takes all the rows of the session with it.
Save ==
    /\ phase = "save"
    /\ saved' = [state |-> row, log |-> log]
    /\ phase' = "send"
    /\ UNCHANGED <<run, state, logged, thread, pending, log, seen, tasks, row, raised>>

SaveRaises ==
    /\ phase = "save"
    /\ raised' = TRUE
    /\ phase' = "idle"
    /\ UNCHANGED <<run, state, logged, thread, pending, log, seen, tasks, row, saved>>

\* The list of tasks is an attribute of the CLASS, and the observers of all
\* runs append to it: complete_tasks replaces it in the instance only.
AsyncUpdates == DOMAIN tasks

\* Mutant: complete_tasks does not wait.
DoNotWait ==
    /\ phase = "send"
    /\ phase' = "idle"
    /\ UNCHANGED <<run, state, logged, thread, pending, log, seen, tasks, row, saved, raised>>

\* gather returns when all tasks are done,
GatherReturns ==
    /\ phase = "send"
    /\ \A i \in AsyncUpdates : tasks[i].status = "sent"
    /\ phase' = "idle"
    /\ UNCHANGED <<run, state, logged, thread, pending, log, seen, tasks, row, saved, raised>>

\* Mutant: an exception skips the cleanup of the runner.
GatherRaisesStaysBusy ==
    /\ phase = "send"
    /\ \E i \in AsyncUpdates : tasks[i].status = "raised"
    /\ phase' = "raised"
    /\ raised' = TRUE
    /\ UNCHANGED <<run, state, logged, thread, pending, log, seen, tasks, row, saved>>

\* or raises as soon as one has raised.
GatherRaises ==
    /\ phase = "send"
    /\ \E i \in AsyncUpdates : tasks[i].status = "raised"
    /\ phase' = "idle"
    /\ raised' = TRUE
    /\ UNCHANGED <<run, state, logged, thread, pending, log, seen, tasks, row, saved>>

\* A broadcast comes to its end.  They end in the order they were started:
\* each sends to the clients in the order of one list, and a connection lets
\* those that wait for it go on one after another.
BroadcastEnds ==
    /\ \E i \in DOMAIN tasks, outcome \in {"sent", "raised"} :
          /\ tasks[i].status = "sending"
          /\ \A j \in 1..(i - 1) : tasks[j].status # "sending"
          /\ outcome = "raised" =>
                Cardinality({j \in DOMAIN tasks : tasks[j].status = "raised"}) < MaxRaised
          /\ tasks' = [tasks EXCEPT ![i].status = outcome]
    /\ UNCHANGED <<run, phase, state, logged, thread, pending, log, seen, row, saved, raised>>

-----------------------------------------------------------------------------
Finish == FinishCancels \/ FinishFlushes \/ Save \/ SaveRaises \/ GatherReturns \/ GatherRaises

Next ==
    \/ StartRun \/ TestChanges \/ TestsEnd \/ Finish
    \/ Log \/ ThreadLoads \/ ThreadAppends \/ HandlerWakes
    \/ BroadcastEnds

Spec == Init /\ [][Next]_vars

(***************************************************************************)
(* The event loop goes on, a thread leaves the sink, and a broadcast ends: *)
(* the server closes connections that do not answer its pings.  That the   *)
(* tests end is not assumed.                                               *)
(***************************************************************************)
FairSpec == Spec /\ WF_vars(Finish) /\ WF_vars(ThreadAppends) /\ WF_vars(BroadcastEnds)

-----------------------------------------------------------------------------
(***************************************************************************)
(* Properties.                                                             *)
(***************************************************************************)
Entries == log \o pending

(* No record of the tests is lost, repeated or moved on its way: those in  *)
(* the log and in the list that is pending are the numbers of the records  *)
(* logged so far, in their order.  The log of a run that is over is        *)
(* complete.                                                               *)
LogIsComplete ==
    /\ \A n \in 1..logged : \E i \in DOMAIN Entries : Entries[i] = n
    /\ \A i \in DOMAIN Entries : Entries[i] \in (1..logged) \cup {FromThread}
    /\ \A i, j \in DOMAIN Entries :
          i < j /\ FromThread \notin {Entries[i], Entries[j]} => Entries[i] < Entries[j]
    /\ phase \in {"save", "send"} => pending = <<>>

(* What a run that was saved left in the database is how it ended.         *)
SavedIsFinal ==
    saved # NotSaved => saved.log = log /\ saved.state = state /\ pending = <<>>

\* The broadcasts of parts of the log of the run.
Parts == {i \in DOMAIN tasks : tasks[i].run = run /\ tasks[i].kind = "log"}

\* The parts, in the order they were sent, are those of the log one after the
\* other: the part i begins behind the entry from[i].
LogIsSent ==
    \E from \in [Parts -> 0..Len(log)] :
        /\ \A i \in Parts :
              /\ from[i] + Len(tasks[i].what) <= Len(log)
              /\ \A k \in 1..Len(tasks[i].what) : tasks[i].what[k] = log[from[i] + k]
        /\ \A i, j \in Parts : i < j => from[i] + Len(tasks[i].what) <= from[j]
        /\ \A n \in 1..Len(log) :
              \E i \in Parts : from[i] < n /\ n <= from[i] + Len(tasks[i].what)

(* When run ends without an exception, its rows are saved and every client *)
(* has its updates.  The exception may be due to an EARLIER run: a         *)
(* broadcast that raised stays in the list of the class, and every later   *)
(* run stops waiting because of it.                                        *)
EndsSaved ==
    phase = "idle" /\ run > 0 /\ ~raised =>
        /\ saved # NotSaved
        /\ \A i \in DOMAIN tasks : tasks[i].run = run => tasks[i].status = "sent"

(* Clients are sent each entry of the log exactly once and in order, and   *)
(* a run that ends has sent all of them.                                   *)
AllIsSent == LogIsSent /\ EndsSaved

(* Once its tests are over, a run leaves the engine idle.                  *)
EndsIdle == phase = "finish" ~> phase = "idle"
=============================================================================
