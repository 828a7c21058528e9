--------------------------- MODULE ReportingProofs ---------------------------
(***************************************************************************)
(* Theorems about Reporting, for every number of runs, of records, and of  *)
(* broadcasts that raise.                                                  *)
(*                                                                         *)
(* The records of a run are in the log of the run or pending, and moving   *)
(* them keeps their order.  What is saved is final because nothing can     *)
(* come between the flush of the handler and the commit: the sink of the   *)
(* handler was removed before, which waits for the thread that is in it,   *)
(* and the states in the rows are those of the run at any time.            *)
(***************************************************************************)
EXTENDS Reporting, TLAPS

Record == Nat \cup {FromThread}
Phases == {"idle", "testing", "finish", "flush", "save", "send"}

Types ==
    /\ run \in Nat
    /\ phase \in Phases
    /\ state \in [Levels -> {"PENDING", "EXECUTING", "PASSED"}]
    /\ logged \in Nat
    /\ thread \in {"out", "loaded", "stale", "done"}
    /\ log \in Seq(Record)
    /\ pending \in Seq(Record)
    /\ raised \in BOOLEAN

\* The records logged so far are the elements of entries, in their order.
Complete(entries, count) ==
    /\ \A n \in 1..count : \E i \in DOMAIN entries : entries[i] = n
    /\ \A i \in DOMAIN entries : entries[i] \in (1..count) \cup {FromThread}
    /\ \A i, j \in DOMAIN entries :
          i < j /\ FromThread \notin {entries[i], entries[j]} => entries[i] < entries[j]

\* No thread is in the sink once the handler has been told to finish ...
SinkIsRemoved == phase \notin {"testing", "finish"} => thread \in {"out", "done"}

\* ... and nothing is pending once it has flushed.
Flushed == phase \in {"save", "send", "idle"} => pending = <<>>

\* Nothing changes in a run after its rows were committed.
SavedLast ==
    saved # NotSaved =>
        phase \in {"send", "idle"} /\ saved = [state |-> state, log |-> log]

IInv ==
    /\ Types /\ Complete(Entries, logged) /\ SinkIsRemoved /\ Flushed
    /\ row = state /\ SavedLast

-----------------------------------------------------------------------------
(***************************************************************************)
(* The records on their way.                                               *)
(***************************************************************************)
(* Moving the pending records to the end of the log keeps all of them in   *)
(* their order (__process_pending_entries).                                *)
LEMMA MovingKeeps ==
    ASSUME NEW a \in Seq(Record), NEW b \in Seq(Record)
    PROVE  /\ a \o b \in Seq(Record)
           /\ (a \o b) \o <<>> = a \o b
    OBVIOUS

(* A record appended to the pending ones is the last of all.               *)
LEMMA AppendedLast ==
    ASSUME NEW a \in Seq(Record), NEW b \in Seq(Record), NEW e \in Record
    PROVE  /\ Append(b, e) \in Seq(Record)
           /\ a \o Append(b, e) = Append(a \o b, e)
    OBVIOUS

(* The next record of the tests continues the records logged so far        *)
(* (TestLogHandler.__log_handler, called in the event loop's thread).      *)
LEMMA NextRecord ==
    ASSUME NEW s \in Seq(Record), NEW count \in Nat, Complete(s, count),
           FromThread \notin Nat
    PROVE  Complete(Append(s, count + 1), count + 1)
  <1> DEFINE t == Append(s, count + 1)
  <1>1. /\ DOMAIN t = 1..(Len(s) + 1)
        /\ DOMAIN s = 1..Len(s)
        /\ Len(s) \in Nat
        /\ t[Len(s) + 1] = count + 1
        /\ \A i \in DOMAIN s : t[i] = s[i]
    OBVIOUS
  <1> HIDE DEF t
  <1>2. \A n \in 1..(count + 1) : \E i \in DOMAIN t : t[i] = n
    <2> SUFFICES ASSUME NEW n \in 1..(count + 1) PROVE \E i \in DOMAIN t : t[i] = n
      OBVIOUS
    <2>1. CASE n = count + 1 BY <1>1, <2>1
    <2>2. CASE n \in 1..count BY <1>1, <2>2 DEF Complete
    <2> QED BY <2>1, <2>2
  <1>3. \A i \in DOMAIN t : t[i] \in (1..(count + 1)) \cup {FromThread}
    <2> SUFFICES ASSUME NEW i \in DOMAIN t
                 PROVE  t[i] \in (1..(count + 1)) \cup {FromThread}
      OBVIOUS
    <2>1. CASE i = Len(s) + 1 BY <1>1, <2>1
    <2>2. CASE i \in DOMAIN s BY <1>1, <2>2 DEF Complete
    <2> QED BY <1>1, <2>1, <2>2
  <1>4. \A i, j \in DOMAIN t :
          i < j /\ FromThread \notin {t[i], t[j]} => t[i] < t[j]
    <2> SUFFICES ASSUME NEW i \in DOMAIN t, NEW j \in DOMAIN t,
                        i < j, FromThread \notin {t[i], t[j]}
                 PROVE  t[i] < t[j]
      OBVIOUS
    <2>1. i \in DOMAIN s BY <1>1
    <2>2. t[i] = s[i] BY <1>1, <2>1
    <2>3. s[i] \in 1..count BY <2>1, <2>2 DEF Complete
    <2>4. CASE j = Len(s) + 1 BY <1>1, <2>2, <2>3, <2>4
    <2>5. CASE j \in DOMAIN s
      <3>1. t[j] = s[j] BY <1>1, <2>5
      <3> QED BY <2>1, <2>2, <2>5, <3>1 DEF Complete
    <2> QED BY <1>1, <2>4, <2>5
  <1> QED BY <1>2, <1>3, <1>4 DEF Complete, t

(* The record of another thread comes anywhere among them.                 *)
LEMMA ThreadRecord ==
    ASSUME NEW s \in Seq(Record), NEW count \in Nat, Complete(s, count)
    PROVE  Complete(Append(s, FromThread), count)
  <1> DEFINE t == Append(s, FromThread)
  <1>1. /\ DOMAIN t = 1..(Len(s) + 1)
        /\ DOMAIN s = 1..Len(s)
        /\ Len(s) \in Nat
        /\ t[Len(s) + 1] = FromThread
        /\ \A i \in DOMAIN s : t[i] = s[i]
    BY DEF Record
  <1> HIDE DEF t
  <1>2. \A n \in 1..count : \E i \in DOMAIN t : t[i] = n
    BY <1>1 DEF Complete
  <1>3. \A i \in DOMAIN t : t[i] \in (1..count) \cup {FromThread}
    <2> SUFFICES ASSUME NEW i \in DOMAIN t PROVE t[i] \in (1..count) \cup {FromThread}
      OBVIOUS
    <2>1. CASE i = Len(s) + 1 BY <1>1, <2>1
    <2>2. CASE i \in DOMAIN s BY <1>1, <2>2 DEF Complete
    <2> QED BY <1>1, <2>1, <2>2
  <1>4. \A i, j \in DOMAIN t :
          i < j /\ FromThread \notin {t[i], t[j]} => t[i] < t[j]
    <2> SUFFICES ASSUME NEW i \in DOMAIN t, NEW j \in DOMAIN t,
                        i < j, FromThread \notin {t[i], t[j]}
                 PROVE  t[i] < t[j]
      OBVIOUS
    <2>1. i \in DOMAIN s /\ j \in DOMAIN s BY <1>1
    <2>2. t[i] = s[i] /\ t[j] = s[j] BY <1>1, <2>1
    <2> QED BY <2>1, <2>2 DEF Complete
  <1> QED BY <1>2, <1>3, <1>4 DEF Complete, t

-----------------------------------------------------------------------------
(***************************************************************************)
(* The steps.                                                              *)
(***************************************************************************)
(* Processing the pending records leaves none, keeps all of them, and      *)
(* changes no state.                                                       *)
LEMMA Processed ==
    ASSUME IInv, ProcessPending, UNCHANGED state
    PROVE  /\ pending' = <<>>
           /\ log' \in Seq(Record)
           /\ log' \o pending' = Entries
           /\ row' = row
           /\ thread' \in {"out", "loaded", "stale", "done"}
           /\ thread \in {"out", "done"} => thread' = thread
  <1>1. CASE pending = <<>>
    BY <1>1 DEF IInv, Types, ProcessPending, Entries
  <1>2. CASE pending # <<>>
    <2>1. /\ log' = log \o pending
          /\ pending' = <<>>
          /\ thread' = IF thread = "loaded" THEN "stale" ELSE thread
          /\ row' = [row EXCEPT !["run"] = state["run"]]
      BY <1>2 DEF ProcessPending, NotifyRun
    <2>2. row' = row
      BY <2>1 DEF IInv, Types
    <2>3. log' \in Seq(Record) /\ log' \o pending' = Entries
      BY <2>1, MovingKeeps DEF IInv, Types, Entries
    <2> QED BY <2>1, <2>2, <2>3 DEF IInv, Types
  <1> QED BY <1>1, <1>2

(* A step that leaves the run and its records alone needs only its phase   *)
(* looked at.                                                              *)
LEMMA OnlyPhase ==
    ASSUME IInv, UNCHANGED <<run, state, logged, thread, pending, log, row, saved>>,
           phase' \in Phases, raised' \in BOOLEAN,
           phase' \notin {"testing", "finish"} => thread \in {"out", "done"},
           phase' \in {"save", "send", "idle"} => pending = <<>>,
           phase \in {"send", "idle"} => phase' \in {"send", "idle"}
    PROVE  IInv'
    BY DEF IInv, Types, Complete, Entries, SinkIsRemoved, Flushed, SavedLast, NotSaved, Levels

(* A run starts with nothing logged and nothing saved.                     *)
LEMMA Starts == IInv /\ StartRun => IInv'
  <1> SUFFICES ASSUME IInv, StartRun PROVE IInv'
    OBVIOUS
  <1>1. Types'
    <2>1. state' \in [Levels -> {"PENDING", "EXECUTING", "PASSED"}]
      BY DEF StartRun
    <2>2. log' = <<>> /\ pending' = <<>> BY DEF StartRun
    <2>3. log' \in Seq(Record) /\ pending' \in Seq(Record) BY <2>2
    <2>4. /\ run \in Nat /\ run' = run + 1 /\ phase' = "testing"
          /\ logged' = 0 /\ thread' = "out" /\ raised' = FALSE
      BY DEF IInv, Types, StartRun
    <2>5. run' \in Nat /\ logged' \in Nat BY <2>4
    <2>6. raised' \in BOOLEAN BY <2>4
    <2> QED BY <2>1, <2>3, <2>4, <2>5, <2>6 DEF Types, Phases
  <1>2. Complete(Entries, logged)'
    <2>1. Entries' = <<>> BY DEF StartRun, Entries
    <2>2. logged' = 0 BY DEF StartRun
    <2> QED BY <2>1, <2>2 DEF Complete
  <1>3. SinkIsRemoved' /\ Flushed' /\ (row = state)'
    BY DEF StartRun, SinkIsRemoved, Flushed
  <1>4. SavedLast' BY DEF StartRun, SavedLast, NotSaved, Levels
  <1> QED BY <1>1, <1>2, <1>3, <1>4 DEF IInv

(* A test that changes its state is copied to its row.                     *)
LEMMA Changes == IInv /\ TestChanges => IInv'
  <1> SUFFICES ASSUME IInv, TestChanges PROVE IInv'
    OBVIOUS
  <1>1. PICK value \in {"EXECUTING", "PASSED"} :
          /\ state' = [state EXCEPT !["test"] = value]
          /\ row' = [row EXCEPT !["test"] = value]
    BY DEF TestChanges, NotifyTest
  <1>2. phase = "testing" /\ UNCHANGED <<run, phase, logged, thread, pending, log, saved, raised>>
    BY DEF TestChanges
  <1>3. state' \in [Levels -> {"PENDING", "EXECUTING", "PASSED"}] /\ row' = state'
    BY <1>1 DEF IInv, Types
  <1>4. saved' = NotSaved
    BY <1>2 DEF IInv, SavedLast
  <1>5. Complete(Entries, logged)'
    BY <1>2 DEF IInv, Complete, Entries
  <1> QED BY <1>2, <1>3, <1>4, <1>5
          DEF IInv, Types, SinkIsRemoved, Flushed, SavedLast, NotSaved, Levels

(* The tests log a record, the completion of the run is the last of them.  *)
LEMMA Logs == IInv /\ Log => IInv'
  <1> SUFFICES ASSUME IInv, Log PROVE IInv'
    OBVIOUS
  <1>1. /\ phase = "testing"
        /\ logged' = logged + 1
        /\ pending' = Append(pending, logged + 1)
        /\ UNCHANGED <<run, phase, state, thread, log, row, saved, raised>>
    BY DEF Log
  <1>2. logged' \in Nat /\ logged + 1 \in Record
    BY <1>1 DEF IInv, Types, Record
  <1>3. pending' \in Seq(Record) /\ Entries' = Append(Entries, logged + 1)
    BY <1>1, <1>2, AppendedLast DEF IInv, Types, Entries
  <1>4. Complete(Entries, logged)'
    <2>1. Entries \in Seq(Record) BY MovingKeeps DEF IInv, Types, Entries
    <2>2. logged \in Nat /\ Complete(Entries, logged) BY DEF IInv, Types
    <2>3. FromThread \notin Nat BY ReportingAssumption
    <2>4. Complete(Append(Entries, logged + 1), logged + 1)
      BY <2>1, <2>2, <2>3, NextRecord
    <2> QED BY <1>1, <1>3, <2>4
  <1>5. saved' = NotSaved
    BY <1>1 DEF IInv, SavedLast
  <1> QED BY <1>1, <1>2, <1>3, <1>4, <1>5
          DEF IInv, Types, SinkIsRemoved, Flushed, SavedLast, NotSaved, Levels

(* The run is marked as completed, in its row too.                         *)
LEMMA Ends == IInv /\ TestsEnd => IInv'
  <1> SUFFICES ASSUME IInv, TestsEnd PROVE IInv'
    OBVIOUS
  <1>1. /\ phase = "testing"
        /\ phase' = "finish"
        /\ logged' = logged + 1
        /\ pending' = Append(pending, logged + 1)
        /\ state' = [state EXCEPT !["run"] = "PASSED"]
        /\ row' = [row EXCEPT !["run"] = "PASSED"]
        /\ UNCHANGED <<run, thread, log, saved, raised>>
    BY DEF TestsEnd, NotifyRun
  <1>2. logged' \in Nat /\ logged + 1 \in Record
    BY <1>1 DEF IInv, Types, Record
  <1>3. pending' \in Seq(Record) /\ Entries' = Append(Entries, logged + 1)
    BY <1>1, <1>2, AppendedLast DEF IInv, Types, Entries
  <1>4. Complete(Entries, logged)'
    <2>1. Entries \in Seq(Record) BY MovingKeeps DEF IInv, Types, Entries
    <2>2. logged \in Nat /\ Complete(Entries, logged) BY DEF IInv, Types
    <2>3. FromThread \notin Nat BY ReportingAssumption
    <2>4. Complete(Append(Entries, logged + 1), logged + 1)
      BY <2>1, <2>2, <2>3, NextRecord
    <2> QED BY <1>1, <1>3, <2>4
  <1>5. saved' = NotSaved
    BY <1>1 DEF IInv, SavedLast
  <1>6. state' \in [Levels -> {"PENDING", "EXECUTING", "PASSED"}] /\ row' = state'
    BY <1>1 DEF IInv, Types
  <1> QED BY <1>1, <1>2, <1>3, <1>4, <1>5, <1>6
          DEF IInv, Types, Phases, SinkIsRemoved, Flushed, SavedLast, NotSaved, Levels

(* Another thread is in the sink while the tests run only.                 *)
LEMMA ThreadGoesOn == IInv /\ (ThreadLoads \/ ThreadAppends) => IInv'
  <1> SUFFICES ASSUME IInv, ThreadLoads \/ ThreadAppends PROVE IInv'
    OBVIOUS
  <1>1. CASE ThreadLoads
    BY <1>1 DEF ThreadLoads, IInv, Types, Complete, Entries, SinkIsRemoved, Flushed,
                SavedLast, NotSaved, Levels
  <1>2. CASE ThreadAppends
    <2>1. /\ phase \in {"testing", "finish"}
          /\ thread' = "done"
          /\ UNCHANGED <<run, phase, state, logged, log, row, saved, raised>>
      BY <1>2 DEF ThreadAppends, IInv, Types, Phases, SinkIsRemoved
    <2>2. pending' \in Seq(Record) /\ Complete(Entries, logged)'
      <3>1. CASE thread = "loaded"
        <4>1. pending' = Append(pending, FromThread) /\ FromThread \in Record
          BY <1>2, <3>1 DEF ThreadAppends, Record
        <4>2. pending' \in Seq(Record) /\ Entries' = Append(Entries, FromThread)
          BY <2>1, <4>1, AppendedLast DEF IInv, Types, Entries
        <4>3. Entries \in Seq(Record) BY MovingKeeps DEF IInv, Types, Entries
        <4> QED BY <2>1, <4>2, <4>3, ThreadRecord DEF IInv, Types, Complete
      <3>2. CASE thread # "loaded"
        <4>1. pending' = pending BY <1>2, <3>2 DEF ThreadAppends
        <4> QED BY <2>1, <4>1 DEF IInv, Types, Complete, Entries
      <3> QED BY <3>1, <3>2
    <2>3. saved' = NotSaved
      BY <2>1 DEF IInv, SavedLast
    <2> QED BY <2>1, <2>2, <2>3
            DEF IInv, Types, SinkIsRemoved, Flushed, SavedLast, NotSaved, Levels
  <1> QED BY <1>1, <1>2

(* The handler moves the records, when it wakes and when it finishes.      *)
LEMMA HandlerGoesOn == IInv /\ (HandlerWakes \/ FinishFlushes) => IInv'
  <1> SUFFICES ASSUME IInv, HandlerWakes \/ FinishFlushes PROVE IInv'
    OBVIOUS
  <1>1. ProcessPending /\ UNCHANGED <<run, state, logged, saved, raised>>
    BY DEF HandlerWakes, FinishFlushes
  <1>2. \/ phase \in {"testing", "finish"} /\ phase' = phase
        \/ phase = "flush" /\ phase' = "save"
    BY DEF HandlerWakes, FinishFlushes
  <1>3. /\ pending' = <<>>
        /\ log' \in Seq(Record)
        /\ Entries' = Entries
        /\ row' = row
        /\ thread' \in {"out", "loaded", "stale", "done"}
        /\ thread \in {"out", "done"} => thread' = thread
    BY <1>1, Processed DEF Entries
  <1>4. pending' \in Seq(Record)
    BY <1>3
  <1>5. Complete(Entries, logged)'
    BY <1>1, <1>3 DEF IInv, Complete
  <1>6. saved' = NotSaved
    BY <1>1, <1>2 DEF IInv, SavedLast
  <1> QED BY <1>1, <1>2, <1>3, <1>4, <1>5, <1>6
          DEF IInv, Types, Phases, SinkIsRemoved, Flushed, SavedLast, NotSaved, Levels

(* The commit takes the states of the run and its whole log.               *)
LEMMA Saves == IInv /\ Save => IInv'
  <1> SUFFICES ASSUME IInv, Save PROVE IInv'
    OBVIOUS
  <1>1. /\ saved' = [state |-> state, log |-> log]
        /\ phase = "save" /\ phase' = "send"
        /\ UNCHANGED <<run, state, logged, thread, pending, log, row, raised>>
    BY DEF Save, IInv
  <1>2. Complete(Entries, logged)'
    BY <1>1 DEF IInv, Complete, Entries
  <1> QED BY <1>1, <1>2 DEF IInv, Types, Phases, SinkIsRemoved, Flushed, SavedLast

(* The other steps of the runner, and the broadcasts, change none of it.   *)
LEMMA OthersGoOn ==
    IInv /\ (\/ FinishCancels \/ SaveRaises \/ GatherReturns \/ GatherRaises
             \/ BroadcastEnds \/ UNCHANGED vars) => IInv'
  <1> SUFFICES ASSUME IInv, \/ FinishCancels \/ SaveRaises \/ GatherReturns \/ GatherRaises
                            \/ BroadcastEnds \/ UNCHANGED vars
               PROVE  IInv'
    OBVIOUS
  <1>1. CASE FinishCancels
    BY <1>1, OnlyPhase DEF FinishCancels, IInv, Types, Phases
  <1>2. CASE SaveRaises
    BY <1>2, OnlyPhase DEF SaveRaises, IInv, Types, Phases, SinkIsRemoved, Flushed
  <1>3. CASE GatherReturns \/ GatherRaises
    BY <1>3, OnlyPhase
       DEF GatherReturns, GatherRaises, IInv, Types, Phases, SinkIsRemoved, Flushed
  <1>4. CASE BroadcastEnds
    BY <1>4, OnlyPhase DEF BroadcastEnds, IInv, Types, Phases, SinkIsRemoved, Flushed
  <1>5. CASE UNCHANGED vars
    BY <1>5, OnlyPhase DEF vars, IInv, Types, Phases, SinkIsRemoved, Flushed
  <1> QED BY <1>1, <1>2, <1>3, <1>4, <1>5

(* The invariant holds of every schedule.                                  *)
LEMMA Invariant == Spec => []IInv
  <1>1. Init => IInv
    <2> SUFFICES ASSUME Init PROVE IInv
      OBVIOUS
    <2>1. log = <<>> /\ pending = <<>> /\ logged = 0
      BY DEF Init
    <2>2. Entries = <<>>
      BY <2>1 DEF Entries
    <2>3. Complete(Entries, logged)
      BY <2>1, <2>2 DEF Complete
    <2>4. Types
      <3>1. log \in Seq(Record) /\ pending \in Seq(Record) BY <2>1
      <3>2. state \in [Levels -> {"PENDING", "EXECUTING", "PASSED"}] BY DEF Init
      <3>3. raised \in BOOLEAN BY DEF Init
      <3>4. run \in Nat /\ logged \in Nat BY <2>1 DEF Init
      <3> QED BY <3>1, <3>2, <3>3, <3>4 DEF Init, Types, Phases
    <2> QED BY <2>3, <2>4 DEF Init, IInv, SinkIsRemoved, Flushed, SavedLast
  <1>2. IInv /\ [Next]_vars => IInv'
    BY Starts, Changes, Logs, Ends, ThreadGoesOn, HandlerGoesOn, Saves, OthersGoOn
       DEF Next, Finish
  <1> QED BY <1>1, <1>2, PTL DEF Spec

-----------------------------------------------------------------------------
(* Every record that the tests log stays on its way, once and in order,    *)
(* until it is in the log of the run, and none is left when the run is     *)
(* saved: whatever a request's thread logs meanwhile, and whenever the     *)
(* handler wakes.                                                          *)
THEOREM LogsArrive == Spec => []LogIsComplete
  <1>1. IInv => LogIsComplete
    BY DEF IInv, Complete, Flushed, LogIsComplete
  <1> QED BY <1>1, Invariant, PTL

(* What the first commit saves is what the run ended with.                 *)
THEOREM NothingComesAfterTheSave == Spec => []SavedIsFinal
  <1>1. IInv => SavedIsFinal
    BY DEF IInv, Flushed, SavedLast, SavedIsFinal
  <1> QED BY <1>1, Invariant, PTL

(* A run that ends without an exception was saved, and every client has    *)
(* been sent its log and its states.                                       *)
THEOREM EndsWithAllSent == Spec => []EndsSaved
  <1> DEFINE Sent ==
        /\ phase \in {"finish", "flush", "save"} => state["run"] = "PASSED"
        /\ phase = "send" => saved # NotSaved
        /\ phase = "idle" /\ run > 0 /\ ~raised =>
              saved # NotSaved /\ \A i \in DOMAIN tasks : tasks[i].status = "sent"
  <1>1. Init => Sent
    BY DEF Init
  <1>2. IInv /\ Sent /\ [Next]_vars => Sent'
    <2> SUFFICES ASSUME IInv, Sent, [Next]_vars PROVE Sent'
      OBVIOUS
    <2>1. phase' \in {"finish", "flush", "save"} => state'["run"] = "PASSED"
      <3> SUFFICES ASSUME phase' \in {"finish", "flush", "save"}
                   PROVE  state'["run"] = "PASSED"
        OBVIOUS
      <3>1. \/ TestsEnd
            \/ phase \in {"finish", "flush", "save"} /\ UNCHANGED state
        BY DEF Next, Finish, vars, StartRun, TestChanges, TestsEnd, FinishCancels,
             FinishFlushes, Save, SaveRaises, GatherReturns, GatherRaises, Log, ThreadLoads,
             ThreadAppends, HandlerWakes, BroadcastEnds
      <3>2. CASE TestsEnd
        BY <3>2 DEF TestsEnd, IInv, Types, Levels
      <3> QED BY <3>1, <3>2
    <2>2. phase' = "send" => (saved # NotSaved)'
      <3> SUFFICES ASSUME phase' = "send" PROVE (saved # NotSaved)'
        OBVIOUS
      <3>1. Save \/ (phase = "send" /\ UNCHANGED saved)
        BY DEF Next, Finish, vars, StartRun, TestChanges, TestsEnd, FinishCancels,
             FinishFlushes, Save, SaveRaises, GatherReturns, GatherRaises, Log, ThreadLoads,
             ThreadAppends, HandlerWakes, BroadcastEnds
      <3>2. CASE Save
        <4>1. saved'.state["run"] = "PASSED"
          BY <3>2 DEF Save, IInv
        <4> QED BY <4>1 DEF NotSaved, Levels
      <3> QED BY <3>1, <3>2 DEF NotSaved
    <2>3. (phase = "idle" /\ run > 0 /\ ~raised)' =>
              (saved # NotSaved /\ \A i \in DOMAIN tasks : tasks[i].status = "sent")'
      <3> SUFFICES ASSUME phase' = "idle", run' > 0, ~raised'
                   PROVE  (saved # NotSaved)' /\ \A i \in DOMAIN tasks' : tasks'[i].status = "sent"
        OBVIOUS
      <3>1. \/ GatherReturns
            \/ BroadcastEnds
            \/ phase = "idle" /\ UNCHANGED <<run, raised, saved, tasks>>
        BY DEF Next, Finish, vars, StartRun, TestChanges, TestsEnd, FinishCancels,
             FinishFlushes, Save, SaveRaises, GatherReturns, GatherRaises, Log, ThreadLoads,
             ThreadAppends, HandlerWakes
      <3>2. CASE GatherReturns
        BY <3>2 DEF GatherReturns, AsyncUpdates, NotSaved
      <3>3. ~BroadcastEnds
        <4> SUFFICES ASSUME BroadcastEnds PROVE FALSE
          OBVIOUS
        <4>1. \E i \in DOMAIN tasks : tasks[i].status = "sending"
          BY DEF BroadcastEnds
        <4>2. phase = "idle" /\ run > 0 /\ ~raised
          BY DEF BroadcastEnds
        <4> QED BY <4>1, <4>2
      <3> QED BY <3>1, <3>2, <3>3 DEF NotSaved
    <2> QED BY <2>1, <2>2, <2>3
  <1>3. Sent => EndsSaved
    BY DEF EndsSaved
  <1> QED BY <1>1, <1>2, <1>3, Invariant, PTL DEF Spec

-----------------------------------------------------------------------------
(***************************************************************************)
(* What is sent of the log.  The parts of it that were sent are in the     *)
(* order of the log, because the observer is told of every change of it.   *)
(***************************************************************************)
Broadcast == [run : Nat, kind : {"run", "test", "log", "earlier"},
              what : {"PENDING", "EXECUTING", "PASSED", "-"} \cup Seq(Record),
              status : {"sending", "sent", "raised"}]

\* The parts p among the broadcasts t are those of the log l, each behind from.
Tiles(t, p, l, from) ==
    /\ from \in [p -> 0..Len(l)]
    /\ \A i \in p :
          /\ from[i] + Len(t[i].what) <= Len(l)
          /\ \A k \in 1..Len(t[i].what) : t[i].what[k] = l[from[i] + k]
    /\ \A i, j \in p : i < j => from[i] + Len(t[i].what) <= from[j]
    /\ \A n \in 1..Len(l) : \E i \in p : from[i] < n /\ n <= from[i] + Len(t[i].what)

PartTypes == \A i \in Parts : tasks[i].what \in Seq(Record)

SendInv ==
    /\ tasks \in Seq(Broadcast) /\ PartTypes
    /\ seen.length = Len(log)
    /\ LogIsSent

(* A part that is sent after all others and holds what is new of the log   *)
(* goes on where they end.                                                 *)
LEMMA TilesMore ==
    ASSUME NEW t, NEW u, NEW l \in Seq(Record), NEW add \in Seq(Record), add # <<>>,
           NEW n \in Nat, NEW p \in SUBSET (1..n), NEW new \in Nat, new > n,
           \A i \in p : t[i].what \in Seq(Record) /\ u[i].what = t[i].what,
           u[new].what = add,
           NEW from, Tiles(t, p, l, from)
    PROVE  \E g : Tiles(u, p \cup {new}, l \o add, g)
  <1> DEFINE g == [i \in p \cup {new} |-> IF i = new THEN Len(l) ELSE from[i]]
             m == l \o add
  <1>1. /\ Len(l) \in Nat /\ Len(add) \in Nat /\ Len(add) > 0 /\ Len(m) = Len(l) + Len(add)
        /\ \A k \in 1..Len(l) : m[k] = l[k]
        /\ \A k \in 1..Len(add) : m[Len(l) + k] = add[k]
    OBVIOUS
  <1>2. /\ new \notin p /\ g[new] = Len(l)
        /\ \A i \in p : g[i] = from[i] /\ i # new
    OBVIOUS
  <1>3. ASSUME NEW i \in p
        PROVE  /\ from[i] \in 0..Len(l) /\ Len(u[i].what) \in Nat /\ i \in Nat /\ i < new
               /\ from[i] + Len(u[i].what) <= Len(l)
               /\ \A k \in 1..Len(u[i].what) : u[i].what[k] = l[from[i] + k]
    <2>1. u[i].what = t[i].what /\ Len(t[i].what) \in Nat
      OBVIOUS
    <2> QED BY <2>1 DEF Tiles
  <1> HIDE DEF m, g
  <1>4. g \in [p \cup {new} -> 0..Len(m)]
    <2>1. ASSUME NEW i \in p \cup {new} PROVE g[i] \in 0..Len(m)
      <3>1. CASE i = new
        BY <1>1, <1>2, <3>1
      <3>2. CASE i \in p
        <4>1. from[i] \in 0..Len(l) /\ g[i] = from[i]
          BY <1>2, <1>3, <3>2
        <4> QED BY <1>1, <4>1
      <3> QED BY <3>1, <3>2
    <2> QED BY <2>1 DEF g
  <1>5. ASSUME NEW i \in p \cup {new}
        PROVE  /\ g[i] + Len(u[i].what) <= Len(m)
               /\ \A k \in 1..Len(u[i].what) : u[i].what[k] = m[g[i] + k]
    <2>1. CASE i = new
      <3>1. u[i].what = add /\ g[i] = Len(l)
        BY <1>2, <2>1
      <3>2. g[i] + Len(u[i].what) <= Len(m)
        BY <1>1, <3>1
      <3>3. \A k \in 1..Len(add) : add[k] = m[Len(l) + k]
        BY <1>1
      <3> QED BY <3>1, <3>2, <3>3
    <2>2. CASE i \in p
      <3>1. g[i] + Len(u[i].what) <= Len(m)
        <4>1. /\ from[i] \in 0..Len(l) /\ Len(u[i].what) \in Nat
              /\ from[i] + Len(u[i].what) <= Len(l)
          BY <1>3, <2>2
        <4>2. g[i] = from[i]
          BY <1>2, <2>2
        <4>3. Len(l) <= Len(m) /\ Len(l) \in Nat /\ Len(m) \in Nat
          BY <1>1
        <4> QED BY <4>1, <4>2, <4>3
      <3>2. ASSUME NEW k \in 1..Len(u[i].what)
            PROVE  u[i].what[k] = m[g[i] + k]
        <4>1. /\ from[i] \in 0..Len(l) /\ Len(u[i].what) \in Nat
              /\ from[i] + Len(u[i].what) <= Len(l)
              /\ u[i].what[k] = l[from[i] + k]
          BY <1>3, <2>2
        <4>2. from[i] + k \in 1..Len(l)
          <5>1. \A a, b, c, x : a \in Nat /\ b \in Nat /\ c \in Nat /\ x \in 1..b
                                  /\ a + b <= c => a + x \in 1..c
            OBVIOUS
          <5>2. from[i] \in Nat /\ Len(l) \in Nat
            BY <1>1, <4>1
          <5> QED BY <4>1, <5>1, <5>2
        <4>3. m[from[i] + k] = l[from[i] + k]
          BY <1>1, <4>2
        <4>4. g[i] = from[i]
          BY <1>2, <2>2
        <4> QED BY <4>1, <4>3, <4>4
      <3> QED BY <3>1, <3>2
    <2> QED BY <2>1, <2>2
  <1>6. ASSUME NEW i \in p \cup {new}, NEW j \in p \cup {new}, i < j
        PROVE  g[i] + Len(u[i].what) <= g[j]
    <2>1. CASE i \in p /\ j \in p
      <3>1. from[i] + Len(t[i].what) <= from[j]
        BY <1>6, <2>1 DEF Tiles
      <3> QED BY <1>2, <2>1, <3>1
    <2>2. CASE i \in p /\ j = new
      BY <1>2, <1>3, <2>2
    <2>3. CASE i = new
      BY <1>3, <1>6, <2>3
    <2> QED BY <2>1, <2>2, <2>3
  <1>7. ASSUME NEW k \in 1..Len(m)
        PROVE  \E i \in p \cup {new} : g[i] < k /\ k <= g[i] + Len(u[i].what)
    <2>1. CASE k <= Len(l)
      <3>1. PICK i \in p : from[i] < k /\ k <= from[i] + Len(t[i].what)
        BY <1>1, <2>1 DEF Tiles
      <3> QED BY <1>2, <3>1
    <2>2. CASE k > Len(l)
      BY <1>1, <1>2, <2>2
    <2> QED BY <1>1, <2>1, <2>2
  <1>8. Tiles(u, p \cup {new}, m, g)
    BY <1>4, <1>5, <1>6, <1>7 DEF Tiles
  <1> QED BY <1>8 DEF m

(* Where the parts lie depends on nothing else of the broadcasts.          *)
LEMMA SameTiles ==
    ASSUME NEW t, NEW u, NEW p, NEW l, NEW from,
           Tiles(t, p, l, from), \A i \in p : u[i].what = t[i].what
    PROVE  Tiles(u, p, l, from)
  BY DEF Tiles

(* Steps that change no part and not the log.                              *)
LEMMA SentKept ==
    ASSUME SendInv, tasks' \in Seq(Broadcast), Parts' = Parts, UNCHANGED log,
           \A i \in Parts : tasks'[i].what = tasks[i].what, seen'.length = seen.length
    PROVE  SendInv'
  <1>1. PartTypes'
    BY DEF SendInv, PartTypes
  <1>2. PICK from : Tiles(tasks, Parts, log, from)
    BY DEF SendInv, LogIsSent, Tiles
  <1>3. Tiles(tasks', Parts, log, from)
    BY <1>2, SameTiles
  <1>4. Tiles(tasks', Parts', log', from)
    BY <1>3
  <1>5. LogIsSent'
    BY <1>4 DEF LogIsSent, Tiles
  <1> QED BY <1>1, <1>5 DEF SendInv

(* News that is not of the log is not one of its parts.                    *)
LEMMA OtherNews ==
    ASSUME run \in Nat, NEW t \in Seq(Broadcast),
           NEW e \in Broadcast, e.kind # "log"
    PROVE  /\ Append(t, e) \in Seq(Broadcast)
           /\ \A i \in DOMAIN t : Append(t, e)[i] = t[i]
           /\ {i \in DOMAIN Append(t, e) : Append(t, e)[i].run = run /\ Append(t, e)[i].kind = "log"}
                = {i \in DOMAIN t : t[i].run = run /\ t[i].kind = "log"}
  <1> DEFINE u == Append(t, e)
  <1>1. /\ u \in Seq(Broadcast) /\ DOMAIN t = 1..Len(t) /\ DOMAIN u = 1..(Len(t) + 1)
        /\ Len(t) \in Nat /\ u[Len(t) + 1] = e /\ \A i \in DOMAIN t : u[i] = t[i]
    OBVIOUS
  <1> HIDE DEF u
  <1>2. ASSUME NEW i \in DOMAIN u, u[i].kind = "log" PROVE i \in DOMAIN t
    BY <1>1, <1>2
  <1>3. {i \in DOMAIN u : u[i].run = run /\ u[i].kind = "log"}
          = {i \in DOMAIN t : t[i].run = run /\ t[i].kind = "log"}
    BY <1>1, <1>2
  <1> QED BY <1>1, <1>3 DEF u

(* TestUIObserver is told of the state of the run and of its log: it sends *)
(* the part of the log that it has not seen.                               *)
LEMMA Notified ==
    ASSUME IInv, SendInv, NEW value \in {"PENDING", "EXECUTING", "PASSED"},
           NEW add \in Seq(Record), log' = log \o add, NotifyRun(value, log'), UNCHANGED run
    PROVE  SendInv'
  <1> DEFINE a == tasks \o StateNews(value)
  <1>1. /\ run \in Nat /\ log \in Seq(Record) /\ tasks \in Seq(Broadcast) /\ seen.length = Len(log)
        /\ run' = run
    BY DEF IInv, Types, SendInv
  <1>2. /\ tasks' = a \o LogNews(log')
        /\ seen' = [state |-> value, length |-> Len(log')]
    BY DEF NotifyRun
  <1>3. /\ a \in Seq(Broadcast)
        /\ \A i \in DOMAIN tasks : i \in DOMAIN a /\ a[i] = tasks[i]
        /\ {i \in DOMAIN a : a[i].run = run /\ a[i].kind = "log"} = Parts
    <2>1. CASE StateNews(value) = <<>>
      <3>1. a = tasks
        BY <1>1, <2>1
      <3> QED BY <1>1, <3>1 DEF Parts
    <2>2. CASE StateNews(value) # <<>>
      <3> DEFINE e == News("run", value)
      <3>1. StateNews(value) = <<e>>
        BY <2>2 DEF StateNews
      <3>2. e \in Broadcast /\ e.kind # "log"
        BY <1>1 DEF News, Broadcast
      <3> HIDE DEF e
      <3>3. a = Append(tasks, e)
        BY <1>1, <3>1, <3>2
      <3>4. DOMAIN tasks \subseteq DOMAIN Append(tasks, e)
        BY <1>1, <3>2
      <3> QED BY <1>1, <3>2, <3>3, <3>4, OtherNews DEF Parts
    <2> QED BY <2>1, <2>2
  <1> HIDE DEF a
  <1>4. CASE add = <<>>
    <2>1. log' = log /\ Len(log) \in Nat
      BY <1>1, <1>4
    <2>2. LogNews(log') = <<>>
      BY <1>1, <2>1 DEF LogNews
    <2>3. tasks' = a
      BY <1>2, <1>3, <2>2
    <2>4. Parts' = Parts
      BY <1>1, <1>3, <2>3 DEF Parts
    <2>5. \A i \in Parts : tasks'[i].what = tasks[i].what
      BY <1>3, <2>3 DEF Parts
    <2>6. seen'.length = seen.length
      BY <1>1, <1>2, <2>1
    <2> QED BY <1>3, <2>1, <2>3, <2>4, <2>5, <2>6, SentKept
  <1>5. CASE add # <<>>
    <2> DEFINE e == News("log", add)
    <2>1. Len(log) \in Nat /\ Len(add) \in Nat /\ Len(add) > 0 /\ Len(log') = Len(log) + Len(add)
      BY <1>1, <1>5
    <2>2. SubSeq(log', seen.length + 1, Len(log')) = add
      <3>1. SubSeq(log \o add, Len(log) + 1, Len(log) + Len(add)) = add
        BY <1>1, <2>1
      <3> QED BY <1>1, <2>1, <3>1
    <2>3. LogNews(log') = <<e>>
      <3>1. Len(log') > seen.length
        BY <1>1, <2>1
      <3>2. LogNews(log') = <<News("log", SubSeq(log', seen.length + 1, Len(log')))>>
        BY <3>1 DEF LogNews
      <3> QED BY <2>2, <3>2
    <2>4. e \in Broadcast /\ e.kind = "log" /\ e.run = run /\ e.what = add
      BY <1>1 DEF News, Broadcast
    <2> HIDE DEF e
    <2>5. tasks' = Append(a, e)
      BY <1>2, <1>3, <2>3, <2>4
    <2> DEFINE new == Len(a) + 1
    <2>6. /\ tasks' \in Seq(Broadcast) /\ DOMAIN tasks' = 1..new /\ DOMAIN a = 1..Len(a)
          /\ Len(a) \in Nat /\ new \in Nat /\ new > Len(a)
          /\ tasks'[new] = e /\ \A i \in DOMAIN a : tasks'[i] = a[i]
      BY <1>3, <2>4, <2>5
    <2> HIDE DEF new
    <2>7. Parts \in SUBSET (1..Len(a)) /\ \A i \in Parts : tasks'[i] = tasks[i]
      BY <1>3, <2>6 DEF Parts
    <2>8. Parts' = Parts \cup {new}
      <3>1. Parts' = {i \in DOMAIN tasks' : tasks'[i].run = run /\ tasks'[i].kind = "log"}
        BY <1>1 DEF Parts
      <3>2. ASSUME NEW i PROVE i \in Parts' <=> i \in Parts \cup {new}
        <4>1. CASE i = new
          BY <2>4, <2>6, <3>1, <4>1
        <4>2. CASE i # new
          <5>1. i \in DOMAIN tasks' <=> i \in DOMAIN a
            BY <2>6, <4>2 DEF new
          <5> QED BY <1>3, <2>6, <3>1, <4>2, <5>1
        <4> QED BY <4>1, <4>2
      <3> QED BY <3>2
    <2>9. PICK from : Tiles(tasks, Parts, log, from)
      BY DEF SendInv, LogIsSent, Tiles
    <2>10. \A i \in Parts : tasks[i].what \in Seq(Record) /\ tasks'[i].what = tasks[i].what
      BY <2>7 DEF SendInv, PartTypes
    <2>11. tasks'[new].what = add
      BY <2>4, <2>6
    <2>12. PICK g : Tiles(tasks', Parts \cup {new}, log \o add, g)
      BY <1>1, <1>5, <2>6, <2>7, <2>9, <2>10, <2>11, TilesMore
    <2>13. LogIsSent'
      BY <2>8, <2>12 DEF LogIsSent, Tiles
    <2>14. PartTypes'
      BY <2>8, <2>10, <2>11 DEF PartTypes
    <2>15. (seen.length = Len(log))'
      BY <1>2
    <2> QED BY <2>6, <2>13, <2>14, <2>15 DEF SendInv
  <1> QED BY <1>4, <1>5

(* Every step sends what is new of the log, and nothing else of it.        *)
LEMMA SendStep == IInv /\ SendInv /\ [Next]_vars => SendInv'
  <1> SUFFICES ASSUME IInv, SendInv, [Next]_vars PROVE SendInv'
    OBVIOUS
  <1>1. /\ run \in Nat /\ tasks \in Seq(Broadcast)
        /\ log \in Seq(Record) /\ pending \in Seq(Record)
        /\ state \in [Levels -> {"PENDING", "EXECUTING", "PASSED"}]
    BY DEF IInv, Types, SendInv
  <1>2. CASE UNCHANGED <<run, log, seen, tasks>>
    BY <1>1, <1>2, SentKept DEF Parts
  <1>3. CASE StartRun
    <2> DEFINE e == [News("run", "EXECUTING") EXCEPT !.run = run + 1]
    <2>1. Earlier \in Seq(Broadcast) /\ \A i \in DOMAIN Earlier : Earlier[i].kind = "earlier"
      <3> DEFINE x(i) == [tasks[i] EXCEPT !.kind = "earlier", !.what = "-"]
      <3>1. ASSUME NEW i \in DOMAIN tasks
            PROVE  x(i) \in Broadcast /\ x(i).kind = "earlier"
        <4>1. tasks[i] \in Broadcast
          BY <1>1
        <4> QED BY <4>1 DEF Broadcast
      <3>2. DOMAIN tasks = 1..Len(tasks) /\ Len(tasks) \in Nat
        BY <1>1
      <3>3. Earlier = [i \in 1..Len(tasks) |-> x(i)]
        BY <3>2 DEF Earlier
      <3> HIDE DEF x
      <3>4. Earlier \in Seq(Broadcast)
        BY <3>1, <3>2, <3>3
      <3>5. \A i \in DOMAIN Earlier : Earlier[i].kind = "earlier"
        BY <3>1, <3>2, <3>3
      <3> QED BY <3>4, <3>5
    <2>2. e \in Broadcast /\ e.kind = "run"
      BY <1>1 DEF News, Broadcast
    <2>3. /\ tasks' = Append(Earlier, e) /\ log' = <<>> /\ seen'.length = 0
      BY <1>3 DEF StartRun
    <2> HIDE DEF e
    <2>4. tasks' \in Seq(Broadcast) /\ \A i \in DOMAIN tasks' : tasks'[i].kind # "log"
      BY <2>1, <2>2, <2>3
    <2>5. Parts' = {}
      BY <2>4 DEF Parts
    <2>6. Len(log') = 0
      BY <2>3
    <2>7. LogIsSent'
      <3> DEFINE from == [i \in {} |-> 0]
      <3>1. from \in [{} -> 0..0]
        OBVIOUS
      <3>2. Tiles(tasks', Parts', log', from)
        BY <2>5, <2>6, <3>1 DEF Tiles
      <3> QED BY <3>2 DEF LogIsSent, Tiles
    <2> QED BY <2>3, <2>4, <2>5, <2>6, <2>7 DEF SendInv, PartTypes
  <1>4. CASE TestChanges
    <2>1. PICK value \in {"EXECUTING", "PASSED"} : NotifyTest(value)
      BY <1>4 DEF TestChanges
    <2> DEFINE e == News("test", value)
    <2>2. e \in Broadcast /\ e.kind # "log"
      BY <1>1 DEF News, Broadcast
    <2>3. tasks' = Append(tasks, e) /\ UNCHANGED <<run, log, seen>>
      BY <1>4, <2>1 DEF NotifyTest, TestChanges
    <2> HIDE DEF e
    <2>4. tasks' \in Seq(Broadcast) /\ \A i \in DOMAIN tasks : tasks'[i] = tasks[i]
      BY <1>1, <2>2, <2>3, OtherNews
    <2>5. Parts' = Parts
      BY <1>1, <2>2, <2>3, OtherNews DEF Parts
    <2>6. \A i \in Parts : tasks'[i].what = tasks[i].what
      BY <2>4 DEF Parts
    <2> QED BY <2>3, <2>4, <2>5, <2>6, SentKept
  <1>5. CASE TestsEnd
    <2>1. <<>> \in Seq(Record) /\ log \o <<>> = log
      BY <1>1
    <2>2. log' = log /\ NotifyRun("PASSED", log') /\ UNCHANGED run
      BY <1>5 DEF TestsEnd
    <2> QED BY <2>1, <2>2, Notified
  <1>6. CASE HandlerWakes \/ FinishFlushes
    <2>1. ProcessPending /\ UNCHANGED <<run, state>>
      BY <1>6 DEF HandlerWakes, FinishFlushes
    <2>2. CASE pending = <<>>
      BY <1>2, <2>1, <2>2 DEF ProcessPending
    <2>3. CASE pending # <<>>
      <3>1. log' = log \o pending /\ NotifyRun(state["run"], log')
        BY <2>1, <2>3 DEF ProcessPending
      <3>2. state["run"] \in {"PENDING", "EXECUTING", "PASSED"}
        BY <1>1 DEF Levels
      <3> QED BY <1>1, <2>1, <3>1, <3>2, Notified
    <2> QED BY <2>2, <2>3
  <1>7. CASE BroadcastEnds
    <2>1. PICK i \in DOMAIN tasks, outcome \in {"sent", "raised"} :
             tasks' = [tasks EXCEPT ![i].status = outcome]
      BY <1>7 DEF BroadcastEnds
    <2>2. UNCHANGED <<run, log, seen>>
      BY <1>7 DEF BroadcastEnds
    <2>3. /\ tasks[i] \in Broadcast /\ DOMAIN tasks' = DOMAIN tasks
          /\ tasks'[i] = [tasks[i] EXCEPT !.status = outcome]
          /\ \A j \in DOMAIN tasks : j # i => tasks'[j] = tasks[j]
      BY <1>1, <2>1
    <2>4. /\ tasks'[i] \in Broadcast /\ tasks'[i].run = tasks[i].run
          /\ tasks'[i].kind = tasks[i].kind /\ tasks'[i].what = tasks[i].what
      BY <2>3 DEF Broadcast
    <2>5. tasks' \in Seq(Broadcast)
      BY <1>1, <2>1, <2>3, <2>4
    <2>6. \A j \in DOMAIN tasks : /\ tasks'[j].run = tasks[j].run
                                  /\ tasks'[j].kind = tasks[j].kind
                                  /\ tasks'[j].what = tasks[j].what
      BY <2>3, <2>4
    <2>7. Parts' = Parts
      BY <2>2, <2>3, <2>6 DEF Parts
    <2>8. \A j \in Parts : tasks'[j].what = tasks[j].what
      BY <2>6 DEF Parts
    <2> QED BY <2>2, <2>5, <2>7, <2>8, SentKept
  <1> QED
    BY <1>2, <1>3, <1>4, <1>5, <1>6, <1>7
       DEF Next, Finish, vars, FinishCancels, Save, SaveRaises, GatherReturns, GatherRaises,
           Log, ThreadLoads, ThreadAppends

(* Clients are sent each entry of the log once and in order, and a run     *)
(* that ends without an exception has sent all that it had to.             *)
THEOREM EverythingIsSent == Spec => []AllIsSent
  <1>1. Init => SendInv
    <2> SUFFICES ASSUME Init PROVE SendInv
      OBVIOUS
    <2>1. tasks = <<>> /\ log = <<>> /\ seen.length = 0
      BY DEF Init
    <2>2. Parts = {} /\ Len(log) = 0 /\ tasks \in Seq(Broadcast)
      BY <2>1 DEF Parts
    <2>3. LogIsSent
      <3> DEFINE from == [i \in {} |-> 0]
      <3>1. from \in [{} -> 0..0]
        OBVIOUS
      <3>2. Tiles(tasks, Parts, log, from)
        BY <2>2, <3>1 DEF Tiles
      <3> QED BY <3>2 DEF LogIsSent, Tiles
    <2> QED BY <2>1, <2>2, <2>3 DEF SendInv, PartTypes
  <1>2. SendInv => LogIsSent
    BY DEF SendInv
  <1>3. Spec => []SendInv
    BY <1>1, SendStep, Invariant, PTL DEF Spec
  <1> QED BY <1>2, <1>3, EndsWithAllSent, PTL DEF AllIsSent
=============================================================================
