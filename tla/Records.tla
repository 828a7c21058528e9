------------------------------ MODULE Records -------------------------------
(***************************************************************************)
(* Projects, operators and executions in the database, and the requests    *)
(* that read and write them.                                               *)
(*                                                                         *)
(* Each request has a session of its own.  An endpoint declared with def   *)
(* runs in a thread: other requests come between its reads and its commit, *)
(* and between one commit and the next.  upload_pics is declared with      *)
(* async def and does not await: it may be overtaken by threads, but not   *)
(* by another upload.                                                      *)
(*                                                                         *)
(* A commit writes the columns the request has changed, each as a whole,   *)
(* and raises when the row is gone.  The database refuses a row that names *)
(* a missing project or operator, and the removal of one that is named.    *)
(***************************************************************************)
EXTENDS Naturals, FiniteSets, Sequences, Selection

CONSTANTS
    Threads,      \* requests served at a time
    MaxRequests,  \* requests in total
    Operations,   \* the requests clients make
    Projects, Executions, Operators,   \* ids
    Clusters,     \* PICS clusters of a file
    Selections,   \* what clients select
    None, Free, Gone   \* no value; an id not given yet; a row that was deleted

ASSUME SelectionAssumption ==
    \A selection \in Selections : selection \in TestSelection /\ IsDictionary(selection)

VARIABLES
    project,    \* rows of the projects
    execution,  \* rows of the executions
    operator,   \* rows of the operators
    active,     \* the execution TestRunner().test_run is about, or None
    req,        \* what each thread is doing
    requests,   \* how many requests there were
    uploaded,   \* clusters whose upload was answered, and not undone since
    overlapped  \* projects where an upload overlapped the removal of a cluster

vars == <<project, execution, operator, active, req, requests, uploaded, overlapped>>

Idle == [op |-> "idle"]
Rows(table) == {i \in DOMAIN table : table[i] \notin {Free, Gone}}

Init ==
    /\ project = [p \in Projects |-> Free]
    /\ execution = [e \in Executions |-> Free]
    /\ operator = [o \in Operators |-> Free]
    /\ active = None
    /\ req = [t \in Threads |-> Idle]
    /\ requests = 0
    /\ uploaded = [p \in Projects |-> {}]
    /\ overlapped = {}

\* A free thread takes a request.
Serve(t, op) ==
    /\ req[t] = Idle
    /\ op \in Operations
    /\ requests < MaxRequests
    /\ requests' = requests + 1

Begin(t, r) ==
    /\ Serve(t, r.op)
    /\ req' = [req EXCEPT ![t] = r]
    /\ UNCHANGED <<project, execution, operator, active, uploaded, overlapped>>

At(t, op, at) == req[t].op = op /\ req[t].at = at
Goto(t, r) == req' = [req EXCEPT ![t] = r] /\ UNCHANGED requests
Answer(t) == Goto(t, Idle)
Ghosts == <<uploaded, overlapped>>

\* The request ends in an error: nothing (more) is committed.
Raises(t) == Answer(t) /\ UNCHANGED <<project, execution, operator, active, Ghosts>>

-----------------------------------------------------------------------------
(* Projects                                                                *)

\* The column of the configuration: its value ("valid", "invalid", or
\* "empty", the {} of the column), and whether it has a dmp_test_skip list.
Config(value) == [value |-> value, skips |-> FALSE]
Valid(config) == config.value = "valid"

\* A row of the table; Free and Gone are not rows.
ProjectRow ==
    [config : [value : {"valid", "invalid", "empty"}, skips : BOOLEAN],
     clusters : SUBSET Clusters, archived : BOOLEAN, cli : BOOLEAN, automatic : BOOLEAN]

ASSUME RowAssumption == Free # Gone /\ {Free, Gone} \cap ProjectRow = {}

Project(config, clusters) ==
    [config |-> config, clusters |-> clusters, archived |-> FALSE,
     cli |-> FALSE, automatic |-> FALSE]

\* CRUDProject.create: a missing configuration becomes the default one, an
\* invalid one is refused and leaves nothing.
InsertProject(config, clusters) ==
    IF config = Config("invalid") THEN UNCHANGED project
    ELSE \E p \in Projects :
            /\ project[p] = Free
            /\ project' = [project EXCEPT ![p] = Project(Config("valid"), clusters)]

CreateProject(t) ==
    /\ Serve(t, "create_project")
    /\ \E config \in {Config("empty"), Config("invalid")} : InsertProject(config, {})
    /\ UNCHANGED <<execution, operator, active, req, Ghosts>>

\* The file has the fields of a project that was exported.
ImportProject(t) ==
    /\ Serve(t, "create_project")
    /\ InsertProject(Config("valid"), Clusters)
    /\ UNCHANGED <<execution, operator, active, req, Ghosts>>

\* PUT sets the fields it is given, archive and unarchive the date.
Put == [config : {None, Config("valid"), Config("invalid")}, clusters : {None, {}}, archived : {None}]
Archive == [config : {None}, clusters : {None}, archived : BOOLEAN]

Given(new, old) == IF new = None THEN old ELSE new

ReadToChange(t) ==
    \E p \in Rows(project), change \in Put \cup Archive :
        Begin(t, [op |-> "change", at |-> "commit", p |-> p, seen |-> project[p], set |-> change])

Changed(row, set) ==
    [row EXCEPT !.config = Given(set.config, @),
                !.clusters = Given(set.clusters, @),
                !.archived = Given(set.archived, @)]

WriteChange(t) ==
    LET r == req[t]
    IN /\ project' = [project EXCEPT ![r.p] = Changed(@, r.set)]
       /\ uploaded' = IF r.set.clusters = None THEN uploaded ELSE [uploaded EXCEPT ![r.p] = {}]
       /\ Answer(t)
       /\ UNCHANGED <<execution, operator, active, overlapped>>

\* Mutant: the configuration is not validated.
ChangeUnchecked(t) ==
    /\ At(t, "change", "commit")
    /\ IF req[t].p \in Rows(project) THEN WriteChange(t) ELSE Raises(t)

\* CRUDProject.update validates what the configuration will be, which is the
\* one it has read when the request gives none.
Change(t) ==
    /\ At(t, "change", "commit")
    /\ IF /\ Valid(Given(req[t].set.config, req[t].seen.config))
          /\ req[t].p \in Rows(project)
       THEN WriteChange(t)
       ELSE Raises(t)

\* The whole column is written, marked as modified.
Persist(p, row) == project' = [project EXCEPT ![p] = row]

\* Mutant: the endpoint is declared with def, and runs in a thread.
LoopIsAlwaysFree == TRUE

LoopIsFree == \A t \in Threads : req[t].op # "upload"

\* The file is a cluster, or (None) a list of tests to skip.
ReadToUpload(t) ==
    /\ LoopIsFree
    /\ \E p \in Rows(project), file \in Clusters \cup {None} :
          Begin(t, [op |-> "upload", at |-> "commit", p |-> p, seen |-> project[p], file |-> file])

Removing(p) == \E t \in Threads : req[t].op = "remove_cluster" /\ req[t].p = p

Upload(t) ==
    LET r == req[t]
    IN /\ At(t, "upload", "commit")
       /\ IF r.p \notin Rows(project) THEN Raises(t)
          ELSE /\ Answer(t)
               /\ UNCHANGED <<execution, operator, active>>
               /\ IF r.file = None
                  THEN /\ Persist(r.p, [project[r.p] EXCEPT !.config = [r.seen.config EXCEPT !.skips = TRUE]])
                       /\ UNCHANGED Ghosts
                  ELSE /\ Persist(r.p, [project[r.p] EXCEPT !.clusters = r.seen.clusters \cup {r.file}])
                       /\ uploaded' = [uploaded EXCEPT ![r.p] = @ \cup {r.file}]
                       /\ overlapped' = IF Removing(r.p) THEN overlapped \cup {r.p} ELSE overlapped

\* A cluster that is not there is a PICSError.
ReadToRemove(t) ==
    \E p \in Rows(project) : \E c \in project[p].clusters :
        Begin(t, [op |-> "remove_cluster", at |-> "commit", p |-> p, seen |-> project[p], cluster |-> c])

RemoveCluster(t) ==
    LET r == req[t]
    IN /\ At(t, "remove_cluster", "commit")
       /\ IF r.p \notin Rows(project) THEN Raises(t)
          ELSE /\ Persist(r.p, [project[r.p] EXCEPT !.clusters = r.seen.clusters \ {r.cluster}])
               /\ uploaded' = [uploaded EXCEPT ![r.p] = @ \ {r.cluster}]
               /\ Answer(t)
               /\ UNCHANGED <<execution, operator, active, overlapped>>

Of(p) == {e \in Rows(execution) : execution[e].project = p}

\* The session loads the executions it has to delete with the project.
ReadToDelete(t) ==
    \E p \in Rows(project) :
        Begin(t, [op |-> "delete_project", at |-> "commit", p |-> p, children |-> Of(p)])

DeleteProject(t) ==
    LET r == req[t]
    IN /\ At(t, "delete_project", "commit")
       /\ IF Of(r.p) \ r.children # {} THEN Raises(t)
          ELSE /\ project' = [project EXCEPT ![r.p] = Gone]
               /\ execution' = [e \in Executions |-> IF e \in r.children THEN Gone ELSE execution[e]]
               /\ uploaded' = [uploaded EXCEPT ![r.p] = {}]
               /\ Answer(t)
               /\ UNCHANGED <<operator, active, overlapped>>

-----------------------------------------------------------------------------
(* Executions                                                              *)

\* A request to create an execution.  "like" are the rows of the execution it
\* repeats, when that one was answered to a client.
Creation(at, p, o, selection, like) ==
    [op |-> "create", at |-> at, p |-> p, o |-> o, e |-> None, config |-> None,
     selection |-> selection, like |-> like]

CreateExecution(t) ==
    \E p \in Rows(project) \cup {None}, o \in Rows(operator) \cup {None}, s \in Selections :
        Begin(t, Creation(IF p = None THEN "find" ELSE "insert", p, o, s, None))

CreateCliExecution(t) ==
    \E s \in Selections, config \in {Config("valid"), Config("invalid")} :
        Begin(t, [Creation("find_cli", None, None, s, None) EXCEPT !.config = config])

RepeatExecution(t) ==
    \E e \in Rows(execution) :
        LET row == execution[e]
        IN Begin(t, Creation("insert", row.project, row.operator, SelectedTests(row.suites),
                             IF row.answered THEN row.suites ELSE None))

\* Any project will do; without one, a project is made whose configuration is
\* the default of the column.
FindFirstProject(t) ==
    /\ At(t, "create", "find")
    /\ IF Rows(project) = {} THEN Goto(t, [req[t] EXCEPT !.at = "first"])
       ELSE \E p \in Rows(project) : Goto(t, [req[t] EXCEPT !.at = "insert", !.p = p])
    /\ UNCHANGED <<project, execution, operator, active, Ghosts>>

CreateFirstProject(t) ==
    /\ At(t, "create", "first")
    /\ \E p \in Projects :
          /\ project[p] = Free
          /\ project' = [project EXCEPT ![p] = [Project(Config("empty"), {}) EXCEPT !.automatic = TRUE]]
          /\ Goto(t, [req[t] EXCEPT !.at = "insert", !.p = p])
    /\ UNCHANGED <<execution, operator, active, Ghosts>>

FindCliProject(t) ==
    LET found == {p \in Rows(project) : project[p].cli}
    IN /\ At(t, "create", "find_cli")
       /\ IF found = {} THEN Goto(t, [req[t] EXCEPT !.at = "cli"])
          ELSE \E p \in found : Goto(t, [req[t] EXCEPT !.at = "cli", !.p = p])
       /\ UNCHANGED <<project, execution, operator, active, Ghosts>>

\* The project of the command line is created, or given the configuration.
SetCliProject(t) ==
    LET r == req[t]
    IN /\ At(t, "create", "cli")
       /\ \/ /\ Valid(r.config)
             /\ \E p \in Projects :
                   /\ IF r.p = None THEN project[p] = Free ELSE p = r.p /\ p \in Rows(project)
                   /\ project' = [project EXCEPT ![p] =
                                    IF r.p = None THEN [Project(r.config, {}) EXCEPT !.cli = TRUE]
                                    ELSE [@ EXCEPT !.config = r.config]]
                   /\ Goto(t, [r EXCEPT !.at = "insert", !.p = p])
             /\ UNCHANGED <<execution, operator, active, Ghosts>>
          \/ /\ ~Valid(r.config) \/ (r.p # None /\ r.p \notin Rows(project))
             /\ Raises(t)

\* A row of the table, with the suites it has and those of the execution it
\* repeats; Free and Gone are not rows.
ExecutionRow ==
    [project : Projects, operator : Operators \cup {None}, suites : Seq(SuiteRow),
     archived : BOOLEAN, answered : BOOLEAN, like : Seq(SuiteRow) \cup {None}]

ASSUME ExecutionAssumption == Free \notin ExecutionRow /\ Gone \notin ExecutionRow

Refers(row) == row.project \in Rows(project) /\ row.operator \in Rows(operator) \cup {None}

Execution(p, o, suites, like) ==
    [project |-> p, operator |-> o, suites |-> suites, archived |-> FALSE,
     answered |-> FALSE, like |-> like]

\* The row is committed before the selected tests are looked up.
InsertExecution(t) ==
    LET r == req[t]
        row == Execution(r.p, r.o, <<>>, r.like)
    IN /\ At(t, "create", "insert")
       /\ IF ~Refers(row) THEN Raises(t)
          ELSE /\ \E e \in Executions :
                     /\ execution[e] = Free
                     /\ execution' = [execution EXCEPT ![e] = row]
                     /\ Goto(t, [r EXCEPT !.at = "suites", !.e = e])
               /\ UNCHANGED <<project, operator, active, Ghosts>>

InsertSuites(t) ==
    LET r == req[t]
    IN /\ At(t, "create", "suites")
       /\ IF ~Known(r.selection) \/ r.e \notin Rows(execution) THEN Raises(t)
          ELSE /\ execution' = [execution EXCEPT
                                   ![r.e].suites = SortSelected(PendingSuites(r.selection)),
                                   ![r.e].answered = TRUE]
               /\ Answer(t)
               /\ UNCHANGED <<project, operator, active, Ghosts>>

\* One statement each; the row is not read for anything but its id.
ArchiveExecution(t) ==
    /\ Serve(t, "archive")
    /\ \E e \in Rows(execution), archived \in BOOLEAN :
          execution' = [execution EXCEPT ![e].archived = archived]
    /\ UNCHANGED <<project, operator, active, req, Ghosts>>

CheckToRemove(t) ==
    \E e \in Rows(execution) \ {active} :
        Begin(t, [op |-> "remove", at |-> "commit", e |-> e])

RemoveExecution(t) ==
    /\ At(t, "remove", "commit")
    /\ execution' = [execution EXCEPT ![req[t].e] = Gone]
    /\ Answer(t)
    /\ UNCHANGED <<project, operator, active, Ghosts>>

\* An imported execution has its suites with it, perhaps an operator (found by
\* its name, or added) and a configuration, whose tests must be known.
ReadToImport(t) ==
    \E p \in Rows(project), s \in {s \in Selections : Known(s)},
       named \in BOOLEAN, config \in {None} \cup Selections :
        \E o \in IF named /\ Rows(operator) # {} THEN Rows(operator) ELSE {None} :
            Begin(t, [op |-> "import", at |-> IF config = None THEN "insert" ELSE "config",
                      p |-> p, o |-> o, add |-> named /\ o = None, selection |-> s, config |-> config])

AddOperator(add, o) ==
    IF add THEN operator[o] = Free /\ operator' = [operator EXCEPT ![o] = "operator"]
    ELSE UNCHANGED operator

\* The commit of the configuration commits the operator.
ImportConfig(t) ==
    LET r == req[t]
    IN /\ At(t, "import", "config")
       /\ IF ~Known(r.config) THEN Raises(t)
          ELSE /\ \E o \in IF r.add THEN Operators ELSE {r.o} :
                     /\ AddOperator(r.add, o)
                     /\ Goto(t, [r EXCEPT !.at = "insert", !.o = o, !.add = FALSE])
               /\ UNCHANGED <<project, execution, active, Ghosts>>

ImportExecution(t) ==
    LET r == req[t]
        row == [Execution(r.p, r.o, PendingSuites(r.selection), None) EXCEPT !.answered = TRUE]
    IN /\ At(t, "import", "insert")
       /\ IF ~Refers(row) THEN Raises(t)
          ELSE /\ \E e \in Executions, o \in IF r.add THEN Operators ELSE {r.o} :
                     /\ execution[e] = Free
                     /\ AddOperator(r.add, o)
                     /\ execution' = [execution EXCEPT ![e] = [row EXCEPT !.operator = o]]
               /\ Answer(t)
               /\ UNCHANGED <<project, active, Ghosts>>

-----------------------------------------------------------------------------
(* Operators, and the runner                                               *)

CreateOperator(t) ==
    /\ Serve(t, "create_operator")
    /\ \E o \in Operators : AddOperator(TRUE, o)
    /\ UNCHANGED <<project, execution, active, req, Ghosts>>

By(o) == {e \in Rows(execution) : execution[e].operator = o}

ReadToDeleteOperator(t) ==
    \E o \in Rows(operator) :
        Begin(t, [op |-> "delete_operator", at |-> "commit", o |-> o, children |-> By(o)])

\* Its executions lose their operator; one that is gone, or new, raises.
DeleteOperator(t) ==
    LET r == req[t]
    IN /\ At(t, "delete_operator", "commit")
       /\ IF ~(r.children \subseteq Rows(execution)) \/ By(r.o) \ r.children # {} THEN Raises(t)
          ELSE /\ operator' = [operator EXCEPT ![r.o] = Gone]
               /\ execution' = [e \in Executions |->
                                  IF e \in r.children THEN [execution[e] EXCEPT !.operator = None]
                                  ELSE execution[e]]
               /\ Answer(t)
               /\ UNCHANGED <<project, active, Ghosts>>

\* What TestRunner does to the executions, see that module.
RunStarts ==
    /\ active = None
    /\ active' \in Rows(execution)
    /\ UNCHANGED <<project, execution, operator, req, requests, Ghosts>>

RunEnds ==
    /\ active # None
    /\ active' = None
    /\ UNCHANGED <<project, execution, operator, req, requests, Ghosts>>

ProjectStep(t) ==
    \/ CreateProject(t) \/ ImportProject(t) \/ ReadToChange(t) \/ Change(t) \/ ReadToUpload(t) \/ Upload(t)
    \/ ReadToRemove(t) \/ RemoveCluster(t) \/ ReadToDelete(t) \/ DeleteProject(t)

ExecutionStep(t) ==
    \/ CreateExecution(t) \/ CreateCliExecution(t) \/ RepeatExecution(t)
    \/ FindFirstProject(t) \/ CreateFirstProject(t) \/ FindCliProject(t) \/ SetCliProject(t)
    \/ InsertExecution(t) \/ InsertSuites(t) \/ ArchiveExecution(t)
    \/ CheckToRemove(t) \/ RemoveExecution(t)
    \/ ReadToImport(t) \/ ImportConfig(t) \/ ImportExecution(t)

OperatorStep(t) == CreateOperator(t) \/ ReadToDeleteOperator(t) \/ DeleteOperator(t)

Next ==
    \/ \E t \in Threads : ProjectStep(t) \/ ExecutionStep(t) \/ OperatorStep(t)
    \/ RunStarts
    \/ RunEnds

Spec == Init /\ [][Next]_vars

-----------------------------------------------------------------------------
(* Properties                                                              *)

\* The positions of the cases of an execution, and the test at one.
Places(suites) == Turns([i \in DOMAIN suites |-> Len(suites[i].cases)])
Test(suites, p) == <<suites[p[1]].collection, suites[p[1]].suite, suites[p[1]].cases[p[2]]>>
Times(suites, test) == Cardinality({p \in Places(suites) : Test(suites, p) = test})

SameTests(new, old) ==
    \A test \in {Test(new, p) : p \in Places(new)} \cup {Test(old, p) : p \in Places(old)} :
        Times(new, test) = Times(old, test)

MandatoryFirst(suites) ==
    \A i, j \in DOMAIN suites : i < j /\ suites[j].mandatory => suites[i].mandatory

\* Repeating an execution that was answered to a client selects each of its
\* cases as often as it has them, and mandatory suites stay in front:
\* selected_tests_from_execution and the creation of the pending rows undo
\* each other, whatever other requests do to the executions meanwhile.
RepeatKeepsTests ==
    \A e \in Rows(execution) :
        (execution[e].answered /\ execution[e].like # None) =>
            SameTests(execution[e].suites, execution[e].like) /\ MandatoryFirst(execution[e].suites)

\* A cluster whose upload was answered is in the project until it is removed
\* or replaced by name: the uploads that write the whole column do not undo
\* each other.  Only the removal of another cluster that has read the column
\* before the upload may (remove_pics_cluster_type runs in a thread).
UploadsLostOnlyToRemovals ==
    \A p \in Rows(project) \ overlapped : uploaded[p] \subseteq project[p].clusters

\* Every configuration that a client gave is valid, whatever was overtaken by
\* what: only the project made for an execution without one has none (and
\* keeps refusing to be renamed or archived until it is given one).
InvalidConfigIsAutomatic ==
    \A p \in Rows(project) : ~Valid(project[p].config) => project[p].automatic
=============================================================================
