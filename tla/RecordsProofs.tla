---------------------------- MODULE RecordsProofs ----------------------------
(***************************************************************************)
(* Theorems about the projects and executions of Records, for every number *)
(* of threads and requests and all sets of ids, clusters and selections,   *)
(* and every catalogue.                                                    *)
(*                                                                         *)
(* What a request has read is stale when it commits.  IInv says what is    *)
(* still true of it: an id is never given twice, so that the row is the    *)
(* one that was read or is gone; and the clusters it has read are all the  *)
(* uploaded ones, unless an upload has overlapped.                         *)
(*                                                                         *)
(* EInv says the same of the executions: whoever has inserted one finds    *)
(* it without suites, or gone, and what a repetition will create is the    *)
(* selection from rows that each name a case of the catalogue's suites.    *)
(* That the suites it creates are those it repeats is a fact about the     *)
(* operators of Selection, of any size, proved without induction: each is  *)
(* given by the positions of its elements, and two of them are compared by *)
(* a bijection of their positions.                                         *)
(***************************************************************************)
EXTENDS Records, FiniteSetTheorems, SequenceTheorems, TLAPS

ConfigRow == [value : {"valid", "invalid", "empty"}, skips : BOOLEAN]

Types ==
    /\ project \in [Projects -> ProjectRow \cup {Free, Gone}]
    /\ uploaded \in [Projects -> SUBSET Clusters]
    /\ req = [t \in Threads |-> req[t]]

\* The fields of the requests that are about a project.
Fields(r) ==
    /\ "op" \in DOMAIN r
    /\ r.op \in {"change", "upload", "remove_cluster", "delete_project"} => r.p \in Projects
    /\ r.op = "change" => r.set \in Put \cup Archive
    /\ r.op \in {"upload", "remove_cluster"} => r.seen \in ProjectRow
    /\ r.op = "upload" => r.file \in Clusters \cup {None}
    /\ r.op = "create" =>
          /\ {"at", "p"} \subseteq DOMAIN r
          /\ r.at \in {"find_cli", "cli"} => "config" \in DOMAIN r /\ r.config \in ConfigRow

RequestFields == \A t \in Threads : Fields(req[t])

\* A request that has read a project does not find another one under its id, and
\* knows of every uploaded cluster but for an overlap.
SeenHolds(r) ==
    /\ project[r.p] # Free
    /\ r.op = "upload" /\ r.p \in Rows(project) /\ ~Valid(r.seen.config) => project[r.p].automatic
    /\ r.p \notin overlapped => uploaded[r.p] \subseteq r.seen.clusters

Seen == \A t \in Threads : req[t].op \in {"upload", "remove_cluster"} => SeenHolds(req[t])

\* Uploads run in the event loop, one at a time.
OneUpload == \A t, u \in Threads : req[t].op = "upload" /\ req[u].op = "upload" => t = u

\* Nothing was uploaded to a project that is not there.
NoUploadElsewhere == \A p \in Projects \ Rows(project) : uploaded[p] = {}

IInv ==
    /\ Types /\ RequestFields /\ Seen /\ OneUpload /\ NoUploadElsewhere
    /\ UploadsLostOnlyToRemovals /\ InvalidConfigIsAutomatic

-----------------------------------------------------------------------------
(***************************************************************************)
(* Requests that leave the projects alone.                                 *)
(***************************************************************************)
\* Requests go on or end; those that begin or go on here have read no project.
OthersGoOn ==
    /\ req' = [t \in Threads |-> req'[t]]
    /\ \A t \in Threads :
          \/ req'[t] = req[t]
          \/ Fields(req'[t]) /\ req'[t].op \notin {"upload", "remove_cluster"}

(* The steps of a thread that leave the other threads alone.               *)
LEMMA GoesOn ==
    ASSUME Types, NEW t \in Threads, NEW r, req' = [req EXCEPT ![t] = r],
           Fields(r), r.op \notin {"upload", "remove_cluster"}
    PROVE  OthersGoOn
BY DEF Types, OthersGoOn

(* A request that has ended holds nothing.                                 *)
LEMMA IdleFields == Fields(Idle) /\ Idle.op \notin {"upload", "remove_cluster"}
BY DEF Fields, Idle

(* The invariant stays when only such requests move.                       *)
LEMMA ProjectsAlone ==
    ASSUME IInv, OthersGoOn, UNCHANGED <<project, uploaded, overlapped>>
    PROVE  IInv'
BY DEF IInv, Types, RequestFields, Seen, SeenHolds, OneUpload, NoUploadElsewhere,
       UploadsLostOnlyToRemovals, InvalidConfigIsAutomatic, OthersGoOn, Rows, Valid

(* Steps about the executions and operators.                               *)
LEMMA ExecutionsStep ==
    ASSUME IInv, NEW t \in Threads,
           \/ CreateExecution(t) \/ CreateCliExecution(t) \/ RepeatExecution(t)
           \/ FindFirstProject(t) \/ FindCliProject(t)
           \/ InsertExecution(t) \/ InsertSuites(t) \/ ArchiveExecution(t)
           \/ CheckToRemove(t) \/ RemoveExecution(t)
           \/ ReadToImport(t) \/ ImportConfig(t) \/ ImportExecution(t)
           \/ OperatorStep(t)
    PROVE  IInv'
<1> USE DEF Begin, Serve, At, Goto, Answer, Raises, Ghosts
<1>1. Types /\ Fields(req[t])
  BY DEF IInv, RequestFields
<1>2. CASE CreateExecution(t)
  <2>1. PICK p \in Rows(project) \cup {None}, o \in Rows(operator) \cup {None}, s \in Selections :
           Begin(t, Creation(IF p = None THEN "find" ELSE "insert", p, o, s, None))
    BY <1>2 DEF CreateExecution
  <2>2. Fields(Creation(IF p = None THEN "find" ELSE "insert", p, o, s, None))
    BY DEF Fields, Creation
  <2>3. Creation(IF p = None THEN "find" ELSE "insert", p, o, s, None).op = "create"
    BY DEF Creation
  <2> QED
    BY <1>1, <2>1, <2>2, <2>3, GoesOn, ProjectsAlone
<1>3. CASE CreateCliExecution(t)
  <2>1. PICK s \in Selections, config \in {Config("valid"), Config("invalid")} :
           Begin(t, [Creation("find_cli", None, None, s, None) EXCEPT !.config = config])
    BY <1>3 DEF CreateCliExecution
  <2> DEFINE r == [Creation("find_cli", None, None, s, None) EXCEPT !.config = config]
  <2>2. /\ {"op", "at", "p", "config"} \subseteq DOMAIN r
        /\ r.op = "create" /\ r.at = "find_cli" /\ r.config = config
    BY DEF Creation
  <2> HIDE DEF r
  <2>3. config \in ConfigRow
    <3>1. Config("valid") \in ConfigRow /\ Config("invalid") \in ConfigRow
      BY DEF Config, ConfigRow
    <3> QED
      BY <3>1
  <2>4. Fields(r)
    BY <2>2, <2>3 DEF Fields
  <2> QED
    BY <1>1, <2>1, <2>2, <2>4, GoesOn, ProjectsAlone DEF r
<1>4. CASE RepeatExecution(t)
  <2>1. PICK e \in Rows(execution) :
           Begin(t, Creation("insert", execution[e].project, execution[e].operator,
                             SelectedTests(execution[e].suites),
                             IF execution[e].answered THEN execution[e].suites ELSE None))
    BY <1>4 DEF RepeatExecution
  <2> DEFINE r == Creation("insert", execution[e].project, execution[e].operator,
                           SelectedTests(execution[e].suites),
                           IF execution[e].answered THEN execution[e].suites ELSE None)
  <2>2. Fields(r) /\ r.op = "create"
    BY DEF Fields, Creation
  <2> QED
    BY <1>1, <2>1, <2>2, GoesOn, ProjectsAlone
<1>5. CASE FindFirstProject(t) \/ FindCliProject(t)
  <2>1. PICK r : /\ req' = [req EXCEPT ![t] = r] /\ Fields(r) /\ r.op = "create"
                 /\ UNCHANGED <<project, uploaded, overlapped>>
    BY <1>1, <1>5 DEF FindFirstProject, FindCliProject, Fields
  <2> QED
    BY <1>1, <2>1, GoesOn, ProjectsAlone
<1>6. CASE InsertExecution(t)
  <2>1. CASE Raises(t)
    BY <1>1, <2>1, IdleFields, GoesOn, ProjectsAlone
  <2>2. CASE ~Raises(t)
    <3>1. PICK e \in Executions :
             /\ req' = [req EXCEPT ![t] = [req[t] EXCEPT !.at = "suites", !.e = e]]
             /\ UNCHANGED <<project, uploaded, overlapped>>
      BY <1>6, <2>2 DEF InsertExecution
    <3> DEFINE r == [req[t] EXCEPT !.at = "suites", !.e = e]
    <3>2. Fields(r) /\ r.op = "create"
      BY <1>1, <1>6 DEF InsertExecution, Fields
    <3> QED
      BY <1>1, <3>1, <3>2, GoesOn, ProjectsAlone
  <2> QED
    BY <2>1, <2>2
<1>10. CASE ImportConfig(t)
  <2>1. CASE Raises(t)
    BY <1>1, <2>1, IdleFields, GoesOn, ProjectsAlone
  <2>2. CASE ~Raises(t)
    <3>1. PICK o \in IF req[t].add THEN Operators ELSE {req[t].o} :
             /\ req' = [req EXCEPT ![t] = [req[t] EXCEPT !.at = "insert", !.o = o, !.add = FALSE]]
             /\ UNCHANGED <<project, uploaded, overlapped>>
      BY <1>10, <2>2 DEF ImportConfig
    <3> DEFINE r == [req[t] EXCEPT !.at = "insert", !.o = o, !.add = FALSE]
    <3>2. Fields(r) /\ r.op = "import"
      BY <1>1, <1>10 DEF ImportConfig, Fields
    <3> QED
      BY <1>1, <3>1, <3>2, GoesOn, ProjectsAlone
  <2> QED
    BY <2>1, <2>2
<1>7. CASE InsertSuites(t) \/ RemoveExecution(t) \/ ImportExecution(t) \/ DeleteOperator(t)
  <2>1. req' = [req EXCEPT ![t] = Idle] /\ UNCHANGED <<project, uploaded, overlapped>>
    BY <1>7 DEF InsertSuites, RemoveExecution, ImportExecution, DeleteOperator
  <2> QED
    BY <1>1, <2>1, IdleFields, GoesOn, ProjectsAlone
<1>8. CASE ArchiveExecution(t) \/ CreateOperator(t)
  <2>1. UNCHANGED <<req, project, uploaded, overlapped>>
    BY <1>8 DEF ArchiveExecution, CreateOperator
  <2>2. OthersGoOn
    BY <1>1, <2>1 DEF OthersGoOn, Types
  <2> QED
    BY <2>1, <2>2, ProjectsAlone
<1>9. ASSUME NEW r, Begin(t, r), "op" \in DOMAIN r,
             r.op \in {"remove", "import", "delete_operator"}
      PROVE  IInv'
  <2>1. Fields(r)
    BY <1>9 DEF Fields
  <2> QED
    BY <1>1, <1>9, <2>1, GoesOn, ProjectsAlone
<1>11. CASE CheckToRemove(t)
  <2>1. PICK e \in Rows(execution) \ {active} :
           Begin(t, [op |-> "remove", at |-> "commit", e |-> e])
    BY <1>11 DEF CheckToRemove
  <2> DEFINE r == [op |-> "remove", at |-> "commit", e |-> e]
  <2>2. Begin(t, r) /\ "op" \in DOMAIN r /\ r.op \in {"remove", "import", "delete_operator"}
    BY <2>1
  <2> HIDE DEF r
  <2> QED
    BY <1>9, <2>2
<1>12. CASE ReadToImport(t)
  <2>1. PICK p \in Rows(project), s \in {s \in Selections : Known(s)},
             named \in BOOLEAN, config \in {None} \cup Selections :
          \E o \in IF named /\ Rows(operator) # {} THEN Rows(operator) ELSE {None} :
             Begin(t, [op |-> "import", at |-> IF config = None THEN "insert" ELSE "config",
                       p |-> p, o |-> o, add |-> named /\ o = None, selection |-> s,
                       config |-> config])
    BY <1>12, Zenon DEF ReadToImport
  <2>3. PICK o \in IF named /\ Rows(operator) # {} THEN Rows(operator) ELSE {None} :
             Begin(t, [op |-> "import", at |-> IF config = None THEN "insert" ELSE "config",
                       p |-> p, o |-> o, add |-> named /\ o = None, selection |-> s,
                       config |-> config])
    BY <2>1
  <2> DEFINE r == [op |-> "import", at |-> IF config = None THEN "insert" ELSE "config",
                  p |-> p, o |-> o, add |-> named /\ o = None, selection |-> s,
                  config |-> config]
  <2>2. Begin(t, r) /\ "op" \in DOMAIN r /\ r.op \in {"remove", "import", "delete_operator"}
    BY <2>3
  <2> HIDE DEF r
  <2> QED
    BY <1>9, <2>2
<1>13. CASE ReadToDeleteOperator(t)
  <2>1. PICK o \in Rows(operator) :
           Begin(t, [op |-> "delete_operator", at |-> "commit", o |-> o, children |-> By(o)])
    BY <1>13 DEF ReadToDeleteOperator
  <2> DEFINE r == [op |-> "delete_operator", at |-> "commit", o |-> o, children |-> By(o)]
  <2>2. Begin(t, r) /\ "op" \in DOMAIN r /\ r.op \in {"remove", "import", "delete_operator"}
    BY <2>1
  <2> HIDE DEF r
  <2> QED
    BY <1>9, <2>2
<1> QED
  BY <1>2, <1>3, <1>4, <1>5, <1>6, <1>7, <1>8, <1>10, <1>11, <1>12, <1>13 DEF OperatorStep
-----------------------------------------------------------------------------
(***************************************************************************)
(* Requests that change a project.                                         *)
(***************************************************************************)
(* A new project has a valid configuration, or is the automatic one.       *)
LEMMA RowIsNew ==
    ASSUME IInv, OthersGoOn, UNCHANGED <<uploaded, overlapped>>,
           NEW p \in Projects, project[p] = Free,
           NEW row \in ProjectRow, Valid(row.config) \/ row.automatic,
           project' = [project EXCEPT ![p] = row]
    PROVE  IInv'
<1> USE RowAssumption DEF IInv, Types, OthersGoOn, Rows
<1>1. p \notin Rows(project) /\ uploaded[p] = {}
  BY DEF NoUploadElsewhere
<1>2. Types' /\ RequestFields' /\ OneUpload'
  BY DEF RequestFields, OneUpload
<1>3. Seen'
  BY <1>1 DEF Seen, SeenHolds
<1>4. NoUploadElsewhere' /\ UploadsLostOnlyToRemovals' /\ InvalidConfigIsAutomatic'
  BY <1>1 DEF NoUploadElsewhere, UploadsLostOnlyToRemovals, InvalidConfigIsAutomatic, Valid
<1> QED
  BY <1>2, <1>3, <1>4

\* A row keeps how it came to be; its configuration is valid, unless it was made
\* without one.  Its clusters are still the uploaded ones, but for an overlap;
\* and so are those that others have read.
RowChange(p, row, up) ==
    /\ p \in Rows(project) /\ row \in ProjectRow /\ up \subseteq Clusters
    /\ project' = [project EXCEPT ![p] = row]
    /\ row.automatic = project[p].automatic
    /\ Valid(row.config) \/ row.automatic
    /\ uploaded' = [uploaded EXCEPT ![p] = up]
    /\ overlapped \subseteq overlapped'
    /\ p \in overlapped' \/ up \subseteq row.clusters
    /\ \A u \in Threads :
          \/ req'[u].op \notin {"upload", "remove_cluster"} \/ req'[u].p # p
          \/ p \in overlapped' \/ up \subseteq req'[u].seen.clusters

(* Such a change of a row keeps the invariant.                             *)
LEMMA RowChanges ==
    ASSUME IInv, OthersGoOn, NEW p, NEW row, NEW up, RowChange(p, row, up)
    PROVE  IInv'
<1> USE RowAssumption DEF IInv, Types, OthersGoOn, Rows, RowChange
<1>1. Types' /\ RequestFields' /\ OneUpload'
  BY DEF RequestFields, OneUpload
<1>2. Seen'
  BY DEF Seen, SeenHolds, RequestFields, Fields, Valid
<1>3. NoUploadElsewhere' /\ UploadsLostOnlyToRemovals' /\ InvalidConfigIsAutomatic'
  BY DEF NoUploadElsewhere, UploadsLostOnlyToRemovals, InvalidConfigIsAutomatic, Valid
<1> QED
  BY <1>1, <1>2, <1>3

(* A new project's row.                                                    *)
LEMMA ProjectIsRow ==
    ASSUME NEW config \in ConfigRow, NEW clusters \in SUBSET Clusters
    PROVE  Project(config, clusters) \in ProjectRow
BY DEF Project, ProjectRow, ConfigRow
(* Projects made by a client, or for an execution.                         *)
LEMMA CreationStep ==
    ASSUME IInv, NEW t \in Threads,
           \/ CreateProject(t) \/ ImportProject(t) \/ CreateFirstProject(t) \/ SetCliProject(t)
    PROVE  IInv'
<1> USE DEF Serve, At, Goto, Ghosts
<1>1. Types /\ Fields(req[t])
  BY DEF IInv, RequestFields
<1>2. /\ Config("valid") \in ConfigRow /\ Config("empty") \in ConfigRow
      /\ Valid(Config("valid"))
  BY DEF Config, ConfigRow, Valid
<1>3. CASE CreateProject(t) \/ ImportProject(t)
  <2>1. OthersGoOn /\ UNCHANGED <<uploaded, overlapped>>
    BY <1>1, <1>3 DEF CreateProject, ImportProject, OthersGoOn, Types
  <2>2. PICK clusters \in SUBSET Clusters : \E config : InsertProject(config, clusters)
    <3>1. CASE CreateProject(t)
      <4>1. \E config : InsertProject(config, {})
        BY <3>1 DEF CreateProject
      <4> QED
        BY <4>1
    <3>2. CASE ImportProject(t)
      BY <3>2 DEF ImportProject
    <3> QED
      BY <1>3, <3>1, <3>2
  <2>3. CASE UNCHANGED project
    BY <2>1, <2>3, ProjectsAlone
  <2>4. CASE ~UNCHANGED project
    <3>1. PICK p \in Projects :
             /\ project[p] = Free
             /\ project' = [project EXCEPT ![p] = Project(Config("valid"), clusters)]
      BY <2>2, <2>4 DEF InsertProject
    <3>2. /\ Project(Config("valid"), clusters) \in ProjectRow
          /\ Valid(Project(Config("valid"), clusters).config)
      BY <1>2, ProjectIsRow DEF Project
    <3> QED
      BY <2>1, <3>1, <3>2, RowIsNew
  <2> QED
    BY <2>3, <2>4
<1>4. CASE CreateFirstProject(t)
  <2> DEFINE row == [Project(Config("empty"), {}) EXCEPT !.automatic = TRUE]
  <2>1. PICK p \in Projects :
           /\ project[p] = Free
           /\ project' = [project EXCEPT ![p] = row]
           /\ req' = [req EXCEPT ![t] = [req[t] EXCEPT !.at = "insert", !.p = p]]
    BY <1>4 DEF CreateFirstProject
  <2>2. UNCHANGED <<uploaded, overlapped>>
    BY <1>4 DEF CreateFirstProject
  <2> DEFINE r == [req[t] EXCEPT !.at = "insert", !.p = p]
  <2>3. Fields(r) /\ r.op = "create"
    BY <1>1, <1>4 DEF CreateFirstProject, Fields
  <2>4. OthersGoOn
    BY <1>1, <2>1, <2>3, GoesOn
  <2>5. row \in ProjectRow /\ row.automatic
    BY <1>2, ProjectIsRow DEF ProjectRow, Project
  <2> HIDE DEF row
  <2> QED
    BY <2>1, <2>2, <2>4, <2>5, RowIsNew
<1>5. CASE SetCliProject(t)
  <2> DEFINE config == req[t].config
  <2>1. CASE Raises(t)
    BY <1>1, <2>1, IdleFields, GoesOn, ProjectsAlone DEF Raises, Answer
  <2>2. CASE ~Raises(t)
    <3>1. PICK p \in Projects :
             /\ IF req[t].p = None THEN project[p] = Free ELSE p = req[t].p /\ p \in Rows(project)
             /\ project' = [project EXCEPT ![p] =
                              IF req[t].p = None THEN [Project(config, {}) EXCEPT !.cli = TRUE]
                              ELSE [@ EXCEPT !.config = config]]
             /\ req' = [req EXCEPT ![t] = [req[t] EXCEPT !.at = "insert", !.p = p]]
      BY <1>5, <2>2 DEF SetCliProject
    <3>2. /\ UNCHANGED <<uploaded, overlapped>> /\ Valid(config)
          /\ req[t].op = "create" /\ req[t].at = "cli"
      BY <1>5, <2>2 DEF SetCliProject
    <3>3. config \in ConfigRow
      BY <1>1, <3>2 DEF Fields
    <3> DEFINE r == [req[t] EXCEPT !.at = "insert", !.p = p]
    <3>4. Fields(r) /\ r.op = "create"
      BY <1>1, <3>2 DEF Fields
    <3>5. OthersGoOn
      BY <1>1, <3>1, <3>4, GoesOn
    <3>6. CASE req[t].p = None
      <4> DEFINE row == [Project(config, {}) EXCEPT !.cli = TRUE]
      <4>1. row \in ProjectRow /\ Valid(row.config)
        BY <3>2, <3>3, ProjectIsRow DEF ProjectRow, Project
      <4>2. project[p] = Free /\ project' = [project EXCEPT ![p] = row]
        BY <3>1, <3>6
      <4> HIDE DEF row
      <4> QED
        BY <3>2, <3>5, <4>1, <4>2, RowIsNew
    <3>7. CASE req[t].p # None
      <4> DEFINE row == [project[p] EXCEPT !.config = config]
      <4>1. p \in Rows(project) /\ project[p] \in ProjectRow
        BY <1>1, <3>1, <3>7 DEF Types, Rows
      <4>2. /\ row \in ProjectRow /\ Valid(row.config)
            /\ row.automatic = project[p].automatic /\ row.clusters = project[p].clusters
        BY <3>2, <3>3, <4>1 DEF ProjectRow, ConfigRow
      <4>3. project' = [project EXCEPT ![p] = row]
        BY <3>1, <3>7
      <4>4. /\ uploaded[p] \in SUBSET Clusters /\ uploaded' = [uploaded EXCEPT ![p] = uploaded[p]]
            /\ p \notin overlapped' => uploaded[p] \subseteq row.clusters
        BY <1>1, <3>2, <4>1, <4>2 DEF Types, Rows, IInv, UploadsLostOnlyToRemovals
      <4>5. ASSUME NEW u \in Threads, req'[u].op \in {"upload", "remove_cluster"},
                   req'[u].p = p, p \notin overlapped'
            PROVE  uploaded[p] \subseteq req'[u].seen.clusters
        BY <3>2, <3>5, <4>5 DEF OthersGoOn, IInv, Seen, SeenHolds
      <4>6. RowChange(p, row, uploaded[p])
        BY <3>2, <4>1, <4>2, <4>3, <4>4, <4>5 DEF RowChange
      <4> QED
        BY <3>5, <4>6, RowChanges
    <3> QED
      BY <3>6, <3>7
  <2> QED
    BY <2>1, <2>2
<1> QED
  BY <1>3, <1>4, <1>5
(* A request that reads a project: what it has seen is true then.          *)
LEMMA ReadStep ==
    ASSUME IInv, NEW t \in Threads,
           ReadToChange(t) \/ ReadToUpload(t) \/ ReadToRemove(t) \/ ReadToDelete(t)
    PROVE  IInv'
<1> USE DEF Begin, Serve
<1>1. Types
  BY DEF IInv
<1>2. CASE ReadToChange(t)
  <2>1. PICK p \in Rows(project), change \in Put \cup Archive :
           Begin(t, [op |-> "change", at |-> "commit", p |-> p, seen |-> project[p], set |-> change])
    BY <1>2 DEF ReadToChange
  <2> DEFINE r == [op |-> "change", at |-> "commit", p |-> p, seen |-> project[p], set |-> change]
  <2>2. Fields(r) /\ r.op = "change"
    BY <1>1 DEF Fields, Rows, Types
  <2> HIDE DEF r
  <2> QED
    BY <1>1, <2>1, <2>2, GoesOn, ProjectsAlone DEF r
<1>3. CASE ReadToDelete(t)
  <2>1. PICK p \in Rows(project) :
           Begin(t, [op |-> "delete_project", at |-> "commit", p |-> p, children |-> Of(p)])
    BY <1>3 DEF ReadToDelete
  <2> DEFINE r == [op |-> "delete_project", at |-> "commit", p |-> p, children |-> Of(p)]
  <2>2. Fields(r) /\ r.op = "delete_project"
    BY <1>1 DEF Fields, Rows, Types
  <2> HIDE DEF r
  <2> QED
    BY <1>1, <2>1, <2>2, GoesOn, ProjectsAlone DEF r
<1>4. ASSUME NEW r, NEW p \in Rows(project), Begin(t, r), Fields(r), r.p = p, r.seen = project[p],
             r.op \in {"upload", "remove_cluster"}, r.op = "upload" => LoopIsFree
      PROVE  IInv'
  <2>1. /\ req' = [req EXCEPT ![t] = r] /\ p \in Projects
        /\ UNCHANGED <<project, uploaded, overlapped>>
    BY <1>1, <1>4 DEF Rows, Types
  <2>2. Types' /\ RequestFields'
    BY <1>4, <2>1 DEF IInv, Types, RequestFields
  <2>3. OneUpload'
    BY <1>1, <1>4, <2>1 DEF IInv, Types, OneUpload, LoopIsFree
  <2>4. SeenHolds(r)'
    BY <1>4, <2>1 DEF SeenHolds, IInv, Rows, UploadsLostOnlyToRemovals, InvalidConfigIsAutomatic
  <2>5. Seen'
    BY <1>1, <2>1, <2>4 DEF IInv, Seen, SeenHolds, Types, Rows
  <2> QED
    BY <2>1, <2>2, <2>3, <2>5 DEF IInv, NoUploadElsewhere, UploadsLostOnlyToRemovals,
                                  InvalidConfigIsAutomatic, Rows
<1>5. CASE ReadToUpload(t)
  <2>1. PICK p \in Rows(project), file \in Clusters \cup {None} :
           Begin(t, [op |-> "upload", at |-> "commit", p |-> p, seen |-> project[p], file |-> file])
    BY <1>5 DEF ReadToUpload
  <2> DEFINE r == [op |-> "upload", at |-> "commit", p |-> p, seen |-> project[p], file |-> file]
  <2>2. Fields(r) /\ r.op = "upload" /\ r.p = p /\ r.seen = project[p]
    BY <1>1 DEF Fields, Rows, Types
  <2>3. LoopIsFree /\ Begin(t, r)
    BY <1>5, <2>1 DEF ReadToUpload
  <2> HIDE DEF r
  <2> QED
    BY <1>4, <2>2, <2>3
<1>6. CASE ReadToRemove(t)
  <2>1. PICK p \in Rows(project) : \E c \in project[p].clusters :
           Begin(t, [op |-> "remove_cluster", at |-> "commit", p |-> p,
                     seen |-> project[p], cluster |-> c])
    BY <1>6 DEF ReadToRemove
  <2>2. PICK c \in project[p].clusters :
           Begin(t, [op |-> "remove_cluster", at |-> "commit", p |-> p,
                     seen |-> project[p], cluster |-> c])
    BY <2>1
  <2> DEFINE r == [op |-> "remove_cluster", at |-> "commit", p |-> p,
                   seen |-> project[p], cluster |-> c]
  <2>3. Fields(r) /\ r.op = "remove_cluster" /\ r.p = p /\ r.seen = project[p] /\ Begin(t, r)
    BY <1>1, <2>2 DEF Fields, Rows, Types
  <2> HIDE DEF r
  <2> QED
    BY <1>4, <2>3
<1> QED
  BY <1>2, <1>3, <1>5, <1>6

(* A thread that answers, or raises, leaves what the others have read.     *)
LEMMA Answers ==
    ASSUME Types, NEW t \in Threads, Answer(t)
    PROVE  /\ OthersGoOn
           /\ \A u \in Threads : req'[u].op \in {"upload", "remove_cluster"} =>
                 u # t /\ req'[u] = req[u]
BY IdleFields, GoesOn DEF Answer, Goto, Types, Idle

(* A request that writes what it has read, changed.                        *)
LEMMA WriteStep ==
    ASSUME IInv, NEW t \in Threads,
           Change(t) \/ Upload(t) \/ RemoveCluster(t) \/ DeleteProject(t)
    PROVE  IInv'
<1> DEFINE r == req[t]
           p == r.p
<1> USE DEF At, Ghosts
<1>1. Types /\ Fields(r) /\ p \in Projects
  BY DEF IInv, RequestFields, Fields, Change, Upload, RemoveCluster, DeleteProject
<1>2. CASE Raises(t)
  BY <1>1, <1>2, Answers, ProjectsAlone DEF Raises
<1>3. Answer(t)
  BY DEF Change, WriteChange, Upload, RemoveCluster, DeleteProject, Raises
<1>4. OthersGoOn
  BY <1>1, <1>3, Answers
<1>5. ASSUME NEW u \in Threads, req'[u].op \in {"upload", "remove_cluster"}, req'[u].p = p
      PROVE  /\ u # t /\ req'[u] = req[u]
             /\ p \notin overlapped => uploaded[p] \subseteq req'[u].seen.clusters
  BY <1>1, <1>3, <1>5, Answers DEF IInv, Seen, SeenHolds
<1>6. p \in Rows(project) /\ p \notin overlapped => uploaded[p] \subseteq project[p].clusters
  BY DEF IInv, UploadsLostOnlyToRemovals
<1>7. p \in Rows(project) => /\ project[p] \in ProjectRow /\ uploaded[p] \subseteq Clusters
                             /\ ~Valid(project[p].config) => project[p].automatic
  BY <1>1 DEF Types, Rows, IInv, InvalidConfigIsAutomatic
<1> HIDE DEF p
<1>8. CASE Change(t) /\ ~Raises(t)
  <2>1. WriteChange(t) /\ p \in Rows(project) /\ r.set \in Put \cup Archive
        /\ Valid(Given(r.set.config, r.seen.config))
    BY <1>1, <1>8 DEF Change, Fields, p
  <2> DEFINE row == Changed(project[p], r.set)
             up == IF r.set.clusters = None THEN uploaded[p] ELSE {}
  <2>2. row \in ProjectRow /\ row.automatic = project[p].automatic
    <3>1. /\ r.set.config \in {None} \cup ConfigRow
          /\ r.set.clusters \in {None, {}} /\ r.set.archived \in {None} \cup BOOLEAN
      <4>1. Config("valid") \in ConfigRow /\ Config("invalid") \in ConfigRow
        BY DEF Config, ConfigRow
      <4>2. CASE r.set \in Put
        BY <4>1, <4>2 DEF Put
      <4>3. CASE r.set \in Archive
        BY <4>3 DEF Archive
      <4> QED
        BY <2>1, <4>2, <4>3
    <3>2. /\ Given(r.set.config, project[p].config) \in ConfigRow
          /\ Given(r.set.clusters, project[p].clusters) \in SUBSET Clusters
          /\ Given(r.set.archived, project[p].archived) \in BOOLEAN
      BY <1>7, <2>1, <3>1 DEF Given, ProjectRow, ConfigRow
    <3> QED
      BY <1>7, <2>1, <3>2 DEF Changed, ProjectRow, ConfigRow
  <2>3. Valid(row.config) \/ row.automatic
    BY <1>7, <2>1, <2>2 DEF Changed, Given, ProjectRow
  <2>4. /\ project' = [project EXCEPT ![p] = row]
        /\ uploaded' = [uploaded EXCEPT ![p] = up] /\ overlapped' = overlapped
    <3>1. project' = [project EXCEPT ![p] = row]
      BY <2>1 DEF WriteChange, p
    <3>2. /\ uploaded' = IF r.set.clusters = None THEN uploaded ELSE [uploaded EXCEPT ![p] = {}]
          /\ overlapped' = overlapped
      BY <2>1 DEF WriteChange, p
    <3> QED
      BY <1>1, <3>1, <3>2 DEF Types
  <2>5. up \subseteq Clusters /\ (p \notin overlapped => up \subseteq row.clusters)
    BY <1>6, <1>7, <2>1 DEF Changed, Given, ProjectRow
  <2>6. up \subseteq uploaded[p]
    OBVIOUS
  <2>7. RowChange(p, row, up)
    BY <1>5, <2>1, <2>2, <2>3, <2>4, <2>5, <2>6 DEF RowChange
  <2> QED
    BY <1>4, <2>7, RowChanges
<1>9. CASE Upload(t) /\ ~Raises(t)
  <2>1. r.op = "upload" /\ p \in Rows(project) /\ r.seen \in ProjectRow
    BY <1>1, <1>9 DEF Upload, Fields, p
  <2>2. /\ ~Valid(r.seen.config) => project[p].automatic
        /\ p \notin overlapped => uploaded[p] \subseteq r.seen.clusters
    BY <2>1 DEF IInv, Seen, SeenHolds, p
  <2>3. CASE r.file = None
    <3> DEFINE row == [project[p] EXCEPT !.config = [r.seen.config EXCEPT !.skips = TRUE]]
    <3>1. /\ project' = [project EXCEPT ![p] = row]
          /\ UNCHANGED <<uploaded, overlapped>>
      BY <1>9, <2>1, <2>3 DEF Upload, Persist, p
    <3>2. /\ row \in ProjectRow /\ row.automatic = project[p].automatic
          /\ row.clusters = project[p].clusters /\ (Valid(row.config) <=> Valid(r.seen.config))
      BY <1>7, <2>1 DEF ProjectRow, Valid
    <3>3. uploaded' = [uploaded EXCEPT ![p] = uploaded[p]]
      BY <1>1, <3>1 DEF Types
    <3>4. RowChange(p, row, uploaded[p])
      BY <1>5, <1>6, <1>7, <2>1, <2>2, <3>1, <3>2, <3>3 DEF RowChange
    <3> QED
      BY <1>4, <3>4, RowChanges
  <2>4. CASE r.file # None
    <3> DEFINE row == [project[p] EXCEPT !.clusters = r.seen.clusters \cup {r.file}]
               up == uploaded[p] \cup {r.file}
    <3>1. /\ project' = [project EXCEPT ![p] = row]
          /\ uploaded' = [uploaded EXCEPT ![p] = up]
          /\ overlapped' = IF Removing(p) THEN overlapped \cup {p} ELSE overlapped
      BY <1>9, <2>1, <2>4 DEF Upload, Persist, p
    <3>2. r.file \in Clusters
      BY <1>1, <2>1, <2>4 DEF Fields
    <3>3. /\ row \in ProjectRow /\ row.automatic = project[p].automatic
          /\ row.config = project[p].config /\ row.clusters = r.seen.clusters \cup {r.file}
      BY <1>7, <2>1, <3>2 DEF ProjectRow
    <3>4. up \subseteq Clusters /\ (p \notin overlapped' => up \subseteq row.clusters)
      BY <1>7, <2>1, <2>2, <3>1, <3>2, <3>3
    <3>5. ASSUME NEW u \in Threads, req'[u].op \in {"upload", "remove_cluster"}, req'[u].p = p
          PROVE  p \in overlapped'
      <4>1. u # t /\ req'[u] = req[u]
        BY <1>5, <3>5
      <4>2. req[u].op = "remove_cluster"
        BY <2>1, <3>5, <4>1 DEF IInv, OneUpload
      <4> QED
        BY <3>1, <3>5, <4>1, <4>2 DEF Removing
    <3>6. RowChange(p, row, up)
      BY <1>7, <2>1, <3>1, <3>3, <3>4, <3>5 DEF RowChange
    <3> QED
      BY <1>4, <3>6, RowChanges
  <2> QED
    BY <2>3, <2>4
<1>10. CASE RemoveCluster(t) /\ ~Raises(t)
  <2>1. r.op = "remove_cluster" /\ p \in Rows(project) /\ r.seen \in ProjectRow
    BY <1>1, <1>10 DEF RemoveCluster, Fields, p
  <2>2. p \notin overlapped => uploaded[p] \subseteq r.seen.clusters
    BY <2>1 DEF IInv, Seen, SeenHolds, p
  <2> DEFINE row == [project[p] EXCEPT !.clusters = r.seen.clusters \ {r.cluster}]
             up == uploaded[p] \ {r.cluster}
  <2>3. /\ project' = [project EXCEPT ![p] = row]
        /\ uploaded' = [uploaded EXCEPT ![p] = up] /\ overlapped' = overlapped
    BY <1>10, <2>1 DEF RemoveCluster, Persist, p
  <2>4. /\ row \in ProjectRow /\ row.automatic = project[p].automatic
        /\ row.config = project[p].config /\ row.clusters = r.seen.clusters \ {r.cluster}
    BY <1>7, <2>1 DEF ProjectRow
  <2>5. RowChange(p, row, up)
    BY <1>5, <1>7, <2>1, <2>2, <2>3, <2>4 DEF RowChange
  <2> QED
    BY <1>4, <2>5, RowChanges
<1>11. CASE DeleteProject(t) /\ ~Raises(t)
  <2>1. /\ project' = [project EXCEPT ![p] = Gone]
        /\ uploaded' = [uploaded EXCEPT ![p] = {}] /\ overlapped' = overlapped
    BY <1>11 DEF DeleteProject, p
  <2>2. Types' /\ RequestFields' /\ OneUpload'
    BY <1>1, <1>4, <2>1 DEF IInv, Types, RequestFields, OneUpload, OthersGoOn
  <2>3. Seen'
    BY <1>1, <1>4, <2>1, RowAssumption
       DEF IInv, Types, Seen, SeenHolds, OthersGoOn, Rows, RequestFields, Fields
  <2>4. NoUploadElsewhere' /\ UploadsLostOnlyToRemovals' /\ InvalidConfigIsAutomatic'
    BY <1>1, <2>1 DEF IInv, Types, NoUploadElsewhere, UploadsLostOnlyToRemovals,
                      InvalidConfigIsAutomatic, Rows, Valid
  <2> QED
    BY <2>2, <2>3, <2>4 DEF IInv
<1> QED
  BY <1>2, <1>8, <1>9, <1>10, <1>11

(* IInv holds of every run.                                                *)
LEMMA RecordsInvariant == Spec => []IInv
<1>1. Init => IInv
  BY RowAssumption
     DEF Init, IInv, Types, RequestFields, Fields, Idle, Seen, OneUpload, NoUploadElsewhere,
         UploadsLostOnlyToRemovals, InvalidConfigIsAutomatic, Rows
<1>2. IInv /\ [Next]_vars => IInv'
  <2> SUFFICES ASSUME IInv, [Next]_vars PROVE IInv'
    OBVIOUS
  <2>1. ASSUME NEW t \in Threads, ProjectStep(t) \/ ExecutionStep(t) \/ OperatorStep(t)
        PROVE  IInv'
    BY <2>1, CreationStep, ReadStep, WriteStep, ExecutionsStep DEF ProjectStep, ExecutionStep
  <2>2. CASE RunStarts \/ RunEnds \/ UNCHANGED vars
    <3>1. UNCHANGED <<project, uploaded, overlapped, req>>
      BY <2>2 DEF RunStarts, RunEnds, Ghosts, vars
    <3>2. OthersGoOn
      BY <3>1 DEF OthersGoOn, IInv, Types
    <3> QED
      BY <3>1, <3>2, ProjectsAlone
  <2> QED
    BY <2>1, <2>2 DEF Next
<1> QED
  BY <1>1, <1>2, PTL DEF Spec

-----------------------------------------------------------------------------
(***************************************************************************)
(* Positions in order.                                                     *)
(***************************************************************************)
(* A finite set of pairs of numbers is put in order: each of its elements  *)
(* gets the number of the elements that are not after it.                  *)
LEMMA InOrderIs ==
    ASSUME NEW S \in SUBSET (Int \X Int), IsFiniteSet(S)
    PROVE  /\ Cardinality(S) \in Nat
           /\ InOrder(S) \in Bijection(1..Cardinality(S), S)
           /\ \A m, n \in 1..Cardinality(S) : m < n => Before(InOrder(S)[m], InOrder(S)[n])
<1> DEFINE N == Cardinality(S)
           To(p) == {q \in S : Before(q, p)}
           rank == [p \in S |-> Cardinality(To(p))]
<1>1. N \in Nat /\ IsFiniteSet(1..N) /\ Cardinality(1..N) = N
  BY FS_CardinalityType, FS_Interval
<1>2. ASSUME NEW p \in S, NEW q \in S
      PROVE  /\ Before(p, p)
             /\ Before(p, q) \/ Before(q, p)
             /\ Before(p, q) /\ Before(q, p) => p = q
             /\ \A r \in S : Before(r, p) /\ Before(p, q) => Before(r, q)
  BY DEF Before
<1>3. ASSUME NEW p \in S
      PROVE  IsFiniteSet(To(p)) /\ rank[p] \in 1..N
  <2>1. To(p) \in SUBSET S /\ To(p) # {}
    BY <1>2
  <2>2. IsFiniteSet(To(p)) /\ Cardinality(To(p)) <= N
    BY <2>1, FS_Subset
  <2>3. Cardinality(To(p)) \in Nat /\ Cardinality(To(p)) # 0
    BY <2>1, <2>2, FS_CardinalityType, FS_EmptySet
  <2> QED
    BY <1>1, <2>2, <2>3
<1>4. ASSUME NEW p \in S, NEW q \in S, Before(p, q), p # q
      PROVE  rank[p] < rank[q]
  <2>1. To(p) \in SUBSET To(q) /\ q \in To(q) /\ q \notin To(p)
    BY <1>2, <1>4
  <2>2. /\ Cardinality(To(p)) <= Cardinality(To(q))
        /\ Cardinality(To(p)) # Cardinality(To(q))
    BY <1>3, <2>1, FS_Subset
  <2>3. rank[p] <= rank[q] /\ rank[p] # rank[q]
    BY <2>2
  <2>4. rank[p] \in 1..N /\ rank[q] \in 1..N
    BY <1>3
  <2> QED
    BY <2>3, <2>4, <1>1
<1>5. rank \in Bijection(S, 1..N)
  <2>1. rank \in [S -> 1..N]
    BY <1>3
  <2>2. ASSUME NEW p \in S, NEW q \in S, rank[p] = rank[q] PROVE p = q
    <3>1. ~(rank[p] < rank[q]) /\ ~(rank[q] < rank[p])
      BY <1>1, <2>1, <2>2
    <3> QED
      BY <1>2, <1>4, <3>1
  <2>3. rank \in Injection(S, 1..N)
    BY <2>1, <2>2 DEF Injection, IsInjective
  <2>4. rank \in Surjection(S, 1..N)
    BY <1>1, <2>3, FS_Injection
  <2> QED
    BY <2>3, <2>4 DEF Bijection
<1>6. ASSUME NEW n \in 1..N
      PROVE  InOrder(S)[n] \in S /\ rank[InOrder(S)[n]] = n
  <2>1. PICK p \in S : rank[p] = n
    BY <1>5 DEF Bijection, Surjection
  <2>2. InOrder(S)[n] = CHOOSE q \in S : Cardinality(To(q)) = n
    BY DEF InOrder
  <2>3. \E q \in S : Cardinality(To(q)) = n
    BY <2>1
  <2>4. InOrder(S)[n] \in S /\ Cardinality(To(InOrder(S)[n])) = n
    BY <2>2, <2>3
  <2> QED
    BY <2>4
<1>7. InOrder(S) \in [1..N -> S]
  BY <1>6 DEF InOrder
<1>8. InOrder(S) \in Injection(1..N, S)
  <2>1. ASSUME NEW m \in 1..N, NEW n \in 1..N, InOrder(S)[m] = InOrder(S)[n] PROVE m = n
    <3>1. rank[InOrder(S)[m]] = m /\ rank[InOrder(S)[n]] = n
      BY <1>6
    <3> QED
      BY <2>1, <3>1
  <2> QED
    BY <1>7, <2>1 DEF Injection, IsInjective
<1>9. ASSUME NEW p \in S PROVE \E n \in 1..N : InOrder(S)[n] = p
  <2>1. rank[p] \in 1..N /\ rank[InOrder(S)[rank[p]]] = rank[p]
    BY <1>3, <1>6
  <2> QED
    BY <1>5, <1>6, <2>1 DEF Bijection, Injection, IsInjective
<1>10. InOrder(S) \in Bijection(1..N, S)
  BY <1>7, <1>8, <1>9 DEF Bijection, Surjection
<1>11. ASSUME NEW m \in 1..N, NEW n \in 1..N, m < n
       PROVE  Before(InOrder(S)[m], InOrder(S)[n])
  <2>1. /\ InOrder(S)[m] \in S /\ InOrder(S)[n] \in S
        /\ rank[InOrder(S)[m]] = m /\ rank[InOrder(S)[n]] = n
    BY <1>6
  <2>2. ~(rank[InOrder(S)[n]] < rank[InOrder(S)[m]])
    BY ONLY <1>1, <1>11, <2>1, m \in 1..N, n \in 1..N
  <2>3. InOrder(S)[m] # InOrder(S)[n]
    <3>1. rank[InOrder(S)[m]] # rank[InOrder(S)[n]]
      BY ONLY <1>1, <1>11, <2>1, m \in 1..N, n \in 1..N
    <3> QED
      BY <3>1
  <2> QED
    BY <1>2, <1>4, <2>1, <2>2, <2>3
<1> QED
  BY <1>1, <1>10, <1>11

(* The turns of two nested loops are finitely many pairs.                  *)
LEMMA TurnsAreFinite ==
    ASSUME NEW N \in Nat, NEW n \in [1..N -> Int]
    PROVE  Turns(n) \in SUBSET (Int \X Int) /\ IsFiniteSet(Turns(n))
<1> DEFINE F == {{k} \X (1..n[k]) : k \in 1..N}
           f == [k \in 1..N |-> {k} \X (1..n[k])]
<1>1. Turns(n) = UNION F
  BY DEF Turns
<1>2. f \in Surjection(1..N, F)
  BY DEF Surjection
<1>3. IsFiniteSet(F)
  BY <1>2, FS_Interval, FS_Surjection
<1>4. ASSUME NEW k \in 1..N
      PROVE  IsFiniteSet({k} \X (1..n[k])) /\ {k} \X (1..n[k]) \subseteq Int \X Int
  <2>1. IsFiniteSet({k}) /\ IsFiniteSet(1..n[k])
    <3>1. n[k] \in Int
      OBVIOUS
    <3>2. IsFiniteSet(1..n[k])
      BY <3>1, FS_Interval
    <3>3. IsFiniteSet({k})
      BY FS_Singleton, Zenon
    <3> QED
      BY <3>2, <3>3
  <2>2. IsFiniteSet({k} \X (1..n[k]))
    BY <2>1, FS_Product
  <2> QED
    BY <2>2
<1>5. IsFiniteSet(UNION F)
  <2>1. \A T \in F : IsFiniteSet(T)
    BY <1>4
  <2> QED
    BY <1>3, <2>1, FS_UNION
<1>6. UNION F \subseteq Int \X Int
  BY <1>4
<1> QED
  BY <1>1, <1>5, <1>6

(* Pairs of numbers are such pairs.                                        *)
LEMMA PairsOfNumbers ==
    ASSUME NEW A \in SUBSET Int, NEW B \in SUBSET Int
    PROVE  A \X B \in SUBSET (Int \X Int)
OBVIOUS

\* Element n of Filtered(s, I), which has M elements, is the one at f[n]; and
\* the f[n] are in order.
Keeps(s, I, M, f) ==
    /\ DOMAIN Filtered(s, I) = 1..M
    /\ \A n \in 1..M : Filtered(s, I)[n] = s[f[n]]
    /\ \A m, n \in 1..M : m < n => f[m] <= f[n]

(* Filtered keeps the elements at the positions, once each and in order.   *)
LEMMA FilteredIs ==
    ASSUME NEW N \in Nat, NEW I \in SUBSET (1..N), NEW s
    PROVE  \E M \in Nat : \E f \in Bijection(1..M, I) : Keeps(s, I, M, f)
<1> DEFINE S == {0} \X I
           M == Cardinality(S)
           f == [n \in 1..M |-> InOrder(S)[n][2]]
<1>1. S \in SUBSET (Int \X Int) /\ IsFiniteSet(S)
  <2>1. IsFiniteSet({0}) /\ IsFiniteSet(I)
    <3>1. IsFiniteSet(1..N)
      BY FS_Interval
    <3>2. IsFiniteSet(I)
      BY <3>1, FS_Subset
    <3>3. IsFiniteSet({0})
      BY FS_Singleton, Zenon
    <3> QED
      BY <3>2, <3>3
  <2>2. IsFiniteSet(S)
    BY <2>1, FS_Product
  <2>3. S \in SUBSET (Int \X Int)
    <3>1. I \in SUBSET Int /\ {0} \in SUBSET Int
      OBVIOUS
    <3> QED
      BY <3>1, PairsOfNumbers
  <2> QED
    BY <2>2, <2>3
<1>2. /\ M \in Nat
      /\ InOrder(S) \in Bijection(1..M, S)
      /\ \A m, n \in 1..M : m < n => Before(InOrder(S)[m], InOrder(S)[n])
  BY <1>1, InOrderIs
<1> HIDE DEF M
<1>3. InOrder(S) \in [1..M -> S]
  BY <1>2 DEF Bijection, Injection
<1>4. f \in [1..M -> I]
  BY <1>3
<1>5. f \in Injection(1..M, I)
  <2>1. ASSUME NEW m \in 1..M, NEW n \in 1..M, f[m] = f[n] PROVE m = n
    <3>1. InOrder(S)[m] = InOrder(S)[n]
      <4>1. InOrder(S)[m] \in {0} \X I /\ InOrder(S)[n] \in {0} \X I
        BY <1>3
      <4>2. InOrder(S)[m][2] = InOrder(S)[n][2]
        BY <2>1
      <4> QED
        BY <4>1, <4>2
    <3> QED
      BY <1>2, <3>1 DEF Bijection, Injection, IsInjective
  <2> QED
    BY <1>4, <2>1 DEF Injection, IsInjective
<1>6. f \in Surjection(1..M, I)
  <2>1. ASSUME NEW i \in I PROVE \E n \in 1..M : f[n] = i
    <3>1. <<0, i>> \in S
      OBVIOUS
    <3>2. PICK n \in 1..M : InOrder(S)[n] = <<0, i>>
      BY <1>2, <3>1 DEF Bijection, Surjection
    <3> QED
      BY <3>2
  <2> QED
    BY <1>4, <2>1 DEF Surjection
<1>7. DOMAIN Filtered(s, I) = 1..M /\ \A n \in 1..M : Filtered(s, I)[n] = s[f[n]]
  BY <1>3 DEF Filtered
<1>8. ASSUME NEW m \in 1..M, NEW n \in 1..M, m < n PROVE f[m] <= f[n]
  <2>1. Before(InOrder(S)[m], InOrder(S)[n])
    BY <1>2, <1>8
  <2>2. InOrder(S)[m] \in {0} \X I /\ InOrder(S)[n] \in {0} \X I
    BY <1>3
  <2> QED
    BY <2>1, <2>2 DEF Before
<1> QED
  BY <1>2, <1>5, <1>6, <1>7, <1>8 DEF Bijection, Keeps

\* The M elements of a sequence of N, once each.
HasOnce(keys, M, s, N) ==
    /\ DOMAIN keys = 1..M
    /\ \A m, n \in 1..M : keys[m] = keys[n] => m = n
    /\ \A n \in 1..M : \E i \in 1..N : keys[n] = s[i]
    /\ \A i \in 1..N : \E n \in 1..M : keys[n] = s[i]

(* Keys has each element of a sequence once.                               *)
LEMMA KeysAre ==
    ASSUME NEW N \in Nat, NEW s, DOMAIN s = 1..N
    PROVE  \E M \in Nat : HasOnce(Keys(s), M, s, N)
<1> DEFINE I == {i \in DOMAIN s : \A j \in 1..(i - 1) : s[j] # s[i]}
<1>9. I \in SUBSET (1..N) /\ Keys(s) = Filtered(s, I)
  BY DEF Keys
<1> HIDE DEF I
<1>1. PICK M \in Nat : \E f \in Bijection(1..M, I) : Keeps(s, I, M, f)
  BY <1>9, FilteredIs
<1>7. PICK f \in Bijection(1..M, I) : Keeps(s, I, M, f)
  BY <1>1
<1>8. DOMAIN Keys(s) = 1..M /\ \A n \in 1..M : Keys(s)[n] = s[f[n]]
  BY <1>7, <1>9 DEF Keeps
<1> USE DEF I
<1>2. f \in [1..M -> I]
  BY DEF Bijection, Injection
<1>3. ASSUME NEW i \in 1..N PROVE \E j \in I : s[j] = s[i]
  <2> DEFINE J == {j \in 1..N : s[j] = s[i]}
  <2>7. J \in SUBSET (1..N)
    OBVIOUS
  <2>1. PICK K \in Nat : \E g \in Bijection(1..K, J) : Keeps(s, J, K, g)
    BY <2>7, FilteredIs
  <2>6. PICK g \in Bijection(1..K, J) : Keeps(s, J, K, g)
    BY <2>1
  <2>2. g \in [1..K -> J] /\ \A j \in J : \E n \in 1..K : g[n] = j
    BY DEF Bijection, Injection, Surjection
  <2>3. 1 \in 1..K
    BY <2>2
  <2>4. g[1] \in J /\ \A j \in J : g[1] <= j
    <3>1. ASSUME NEW n \in 1..K PROVE g[1] <= g[n]
      <4>1. g[1] \in Int /\ (1 < n => g[1] <= g[n])
        BY <2>2, <2>3, <2>6 DEF Keeps
      <4> QED
        BY <4>1
    <3> QED
      BY <2>2, <2>3, <3>1
  <2>5. ASSUME NEW j \in 1..(g[1] - 1) PROVE s[j] # s[g[1]]
    BY <2>4
  <2> QED
    BY <2>4, <2>5
<1>4. ASSUME NEW m \in 1..M, NEW n \in 1..M, Keys(s)[m] = Keys(s)[n] PROVE m = n
  <2>1. f[m] \in I /\ f[n] \in I /\ s[f[m]] = s[f[n]]
    BY <1>8, <1>2, <1>4
  <2>2. f[m] = f[n]
    BY <2>1
  <2> QED
    BY <2>2 DEF Bijection, Injection, IsInjective
<1>5. ASSUME NEW i \in 1..N PROVE \E n \in 1..M : Keys(s)[n] = s[i]
  <2>1. PICK j \in I : s[j] = s[i]
    BY <1>3
  <2>2. PICK n \in 1..M : f[n] = j
    BY DEF Bijection, Surjection
  <2> QED
    BY <1>8, <2>1, <2>2
<1>6. \A n \in 1..M : \E i \in 1..N : Keys(s)[n] = s[i]
  BY <1>8, <1>2
<1> QED
  BY <1>4, <1>5, <1>6, <1>8 DEF HasOnce

(* Sets with a bijection between them have as many elements.               *)
LEMMA SameCount ==
    ASSUME NEW A, NEW B, IsFiniteSet(B), NEW f \in Bijection(A, B)
    PROVE  IsFiniteSet(A) /\ Cardinality(A) = Cardinality(B)
BY FS_Injection DEF Bijection

\* f lists the turns of a loop of which turn k has a loop of n[k] turns.
Visits(n, M, f) ==
    /\ M \in Nat /\ DOMAIN f = 1..M
    /\ \A j \in 1..M : f[j][1] \in DOMAIN n /\ f[j][2] \in 1..n[f[j][1]]
    /\ \A i, j \in 1..M : f[i][1] = f[j][1] /\ f[i][2] = f[j][2] => i = j
    /\ \A k \in DOMAIN n : \A l \in 1..n[k] : \E j \in 1..M : f[j][1] = k /\ f[j][2] = l

(* The turns in order are all the turns, each of them once.                *)
LEMMA LoopsVisit ==
    ASSUME NEW N \in Nat, NEW n \in [1..N -> Int]
    PROVE  \E M : Visits(n, M, InOrder(Turns(n)))
<1> DEFINE T == Turns(n)
           M == Cardinality(T)
           f == InOrder(T)
<1>1. /\ M \in Nat /\ f \in [1..M -> T]
      /\ \A i, j \in 1..M : f[i] = f[j] => i = j
      /\ \A p \in T : \E j \in 1..M : f[j] = p
  <2>1. M \in Nat /\ f \in Bijection(1..M, T)
    BY TurnsAreFinite, InOrderIs
  <2> QED
    BY <2>1 DEF Bijection, Injection, Surjection, IsInjective
<1> HIDE DEF M, f
<1>2. ASSUME NEW p \in T
      PROVE  p[1] \in 1..N /\ p[2] \in 1..n[p[1]] /\ p = <<p[1], p[2]>>
  BY DEF Turns
<1>3. ASSUME NEW k \in 1..N, NEW l \in 1..n[k] PROVE <<k, l>> \in T
  BY DEF Turns
<1>4. ASSUME NEW j \in 1..M PROVE f[j][1] \in DOMAIN n /\ f[j][2] \in 1..n[f[j][1]]
  BY <1>1, <1>2
<1>5. ASSUME NEW i \in 1..M, NEW j \in 1..M, f[i][1] = f[j][1], f[i][2] = f[j][2] PROVE i = j
  <2>1. f[i] = <<f[i][1], f[i][2]>> /\ f[j] = <<f[j][1], f[j][2]>>
    BY <1>1, <1>2
  <2>2. f[i] = f[j]
    BY <1>5, <2>1
  <2> QED
    BY <1>1, <2>2
<1>6. ASSUME NEW k \in DOMAIN n, NEW l \in 1..n[k] PROVE \E j \in 1..M : f[j][1] = k /\ f[j][2] = l
  <2>1. PICK j \in 1..M : f[j] = <<k, l>>
    BY <1>1, <1>3
  <2> QED
    BY <2>1
<1>7. Visits(n, M, f)
  BY <1>1, <1>4, <1>5, <1>6 DEF Visits
<1> QED
  BY <1>7 DEF f

(* A number of occurrences is one, and bounds the sequence.                *)
LEMMA OccurrencesAre ==
    ASSUME NEW N \in Nat, NEW s, DOMAIN s = 1..N, NEW e
    PROVE  IsFiniteSet({i \in DOMAIN s : s[i] = e}) /\ Occurrences(s, e) \in Nat
<1>1. {i \in DOMAIN s : s[i] = e} \in SUBSET (1..N) /\ IsFiniteSet(1..N)
  BY FS_Interval
<1>2. IsFiniteSet({i \in DOMAIN s : s[i] = e})
  BY <1>1, FS_Subset
<1> QED
  BY <1>2, FS_CardinalityType DEF Occurrences

\* The iterations of the cases of a suite that is selected.
Rounds(entry) == [k \in DOMAIN entry.cases |-> Iterations(entry.suite, entry.cases[k])]

\* Case j of a suite is the one of turn f[j].
Expands(cases, entry, M, f) ==
    /\ Visits(Rounds(entry), M, f)
    /\ DOMAIN cases = 1..M
    /\ \A j \in 1..M : cases[j] = entry.cases[f[j][1]].case

(* A pending suite has each case of its entry, once for each iteration.    *)
LEMMA PendingSuiteIs ==
    ASSUME NEW K \in Nat, NEW entry, DOMAIN entry.cases = 1..K,
           \A k \in 1..K : entry.cases[k].times \in Int, NEW c
    PROVE  \E M, f : Expands(PendingSuite(c, entry).cases, entry, M, f)
<1>1. Rounds(entry) \in [1..K -> Int]
  BY DEF Rounds, Iterations
<1>2. \E M : Visits(Rounds(entry), M, InOrder(Turns(Rounds(entry))))
  BY <1>1, LoopsVisit
<1> QED
  BY <1>2 DEF PendingSuite, Rounds, Expands, Visits

(* Counting the cases of a suite and expanding them keeps how often each   *)
(* case is there.                                                          *)
LEMMA CasesKept ==
    ASSUME NEW N \in Nat, NEW cs, DOMAIN cs = 1..N, NEW suite, NEW c, NEW x,
           suite = PerformanceSuite => \A k, l \in 1..N : cs[k] = cs[l] => k = l
    PROVE  Occurrences(PendingSuite(c, [suite |-> suite, cases |-> CountedCases(cs)]).cases, x)
             = Occurrences(cs, x)
<1> DEFINE entry == [suite |-> suite, cases |-> CountedCases(cs)]
           keys == Keys(cs)
           n == Rounds(entry)
           new == PendingSuite(c, entry).cases
           A == {j \in DOMAIN new : new[j] = x}
<1>8. PICK K \in Nat : HasOnce(keys, K, cs, N)
  BY KeysAre
<1>1. /\ DOMAIN keys = 1..K
      /\ \A k, l \in 1..K : keys[k] = keys[l] => k = l
      /\ \A k \in 1..K : \E i \in 1..N : keys[k] = cs[i]
      /\ \A i \in 1..N : \E k \in 1..K : keys[k] = cs[i]
  BY <1>8 DEF HasOnce
<1>2. /\ DOMAIN entry.cases = 1..K
      /\ \A k \in 1..K : /\ entry.cases[k].case = keys[k]
                         /\ entry.cases[k].times = Occurrences(cs, keys[k])
  BY <1>1 DEF CountedCases
<1>3. \A k \in 1..K : entry.cases[k].times \in Nat
  <2>1. ASSUME NEW k \in 1..K PROVE Occurrences(cs, keys[k]) \in Nat
    BY OccurrencesAre
  <2> QED
    BY <1>2, <2>1
<1>4. DOMAIN n = 1..K /\ \A k \in 1..K : n[k] = Occurrences(cs, keys[k])
  <2>1. ASSUME NEW k \in 1..K, suite = PerformanceSuite PROVE Occurrences(cs, keys[k]) = 1
    <3>1. PICK i \in 1..N : keys[k] = cs[i]
      BY <1>1
    <3>2. {j \in DOMAIN cs : cs[j] = keys[k]} = {i}
      BY <2>1, <3>1
    <3> QED
      BY <3>2, FS_Singleton, Zenon DEF Occurrences
  <2> QED
    BY <1>2, <2>1 DEF Rounds, Iterations
<1>5. PICK M, f : Visits(n, M, f) /\ DOMAIN new = 1..M /\ \A j \in 1..M : new[j] = keys[f[j][1]]
  <2> HIDE DEF entry
  <2>1. PICK M, f : Expands(new, entry, M, f)
    <3>1. DOMAIN entry.cases = 1..K /\ \A k \in 1..K : entry.cases[k].times \in Int
      BY <1>2, <1>3
    <3> QED
      BY <3>1, PendingSuiteIs
  <2>2. \A j \in 1..M : f[j][1] \in 1..K
    BY <1>4, <2>1 DEF Visits, Expands
  <2> QED
    BY <1>2, <2>1, <2>2 DEF Expands
<1> HIDE DEF new, n, keys
<1>6. CASE \E k \in 1..K : keys[k] = x
  <2>1. PICK k \in 1..K : keys[k] = x
    BY <1>6
  <2>2. A = {j \in 1..M : f[j][1] = k}
    BY <1>1, <1>4, <1>5, <2>1 DEF Visits
  <2> DEFINE g == [j \in A |-> f[j][2]]
  <2>3. g \in [A -> 1..n[k]]
    BY <1>5, <2>2 DEF Visits
  <2>4. \A i, j \in A : g[i] = g[j] => i = j
    BY <1>5, <2>2 DEF Visits
  <2>5. ASSUME NEW l \in 1..n[k] PROVE \E j \in A : g[j] = l
    <3>1. PICK j \in 1..M : f[j][1] = k /\ f[j][2] = l
      <4>1. k \in DOMAIN n /\ \A m \in DOMAIN n : \A i \in 1..n[m] :
                                \E j \in 1..M : f[j][1] = m /\ f[j][2] = i
        BY <1>4, <1>5 DEF Visits
      <4> QED
        BY <4>1
    <3> QED
      BY <2>2, <3>1
  <2>6. g \in Bijection(A, 1..n[k])
    BY <2>3, <2>4, <2>5 DEF Bijection, Injection, Surjection, IsInjective
  <2>7. n[k] = Occurrences(cs, x) /\ n[k] \in Nat
    <3>1. Occurrences(cs, x) \in Nat
      BY OccurrencesAre
    <3> QED
      BY <1>4, <2>1, <3>1
  <2>8. IsFiniteSet(1..n[k]) /\ Cardinality(1..n[k]) = n[k]
    BY <2>7, FS_Interval
  <2>9. Cardinality(A) = n[k]
    BY <2>6, <2>8, SameCount
  <2> QED
    BY <2>7, <2>9 DEF Occurrences, new
<1>7. CASE ~\E k \in 1..K : keys[k] = x
  <2>1. A = {}
    BY <1>4, <1>5, <1>7 DEF Visits
  <2>2. {i \in DOMAIN cs : cs[i] = x} = {}
    BY <1>1, <1>7
  <2> QED
    BY <2>1, <2>2 DEF Occurrences, new
<1> QED
  BY <1>6, <1>7

-----------------------------------------------------------------------------
(***************************************************************************)
(* From a selection to its rows.                                           *)
(***************************************************************************)
Case == [case : STRING, times : Int]
Entry == [suite : STRING, cases : Seq(Case)]

(* What a sequence is.                                                     *)
LEMMA ElementsOf ==
    ASSUME NEW S, NEW s \in Seq(S)
    PROVE  /\ Len(s) \in Nat /\ DOMAIN s = 1..Len(s)
           /\ \A i \in DOMAIN s : s[i] \in S
OBVIOUS

(* Functions on the first numbers are sequences.                           *)
LEMMA Sequences ==
    ASSUME NEW N \in Nat, NEW S, NEW s \in [1..N -> S]
    PROVE  s \in Seq(S) /\ Len(s) = N
OBVIOUS

(* A row that is made is one of the table.  When no case is selected twice, *)
(* none of the performance suite has two rows.                             *)
LEMMA PendingRow ==
    ASSUME NEW c \in STRING, NEW entry \in Entry, Suite(c, entry.suite).mandatory \in BOOLEAN,
           \A k, l \in DOMAIN entry.cases : entry.cases[k].case = entry.cases[l].case => k = l
    PROVE  /\ PendingSuite(c, entry) \in SuiteRow
           /\ entry.suite = PerformanceSuite =>
                LET cases == PendingSuite(c, entry).cases
                IN \A k, l \in DOMAIN cases : cases[k] = cases[l] => k = l
<1> DEFINE cases == PendingSuite(c, entry).cases
           K == Len(entry.cases)
<1>1. /\ K \in Nat /\ DOMAIN entry.cases = 1..K
      /\ \A k \in 1..K : entry.cases[k].case \in STRING /\ entry.cases[k].times \in Int
  <2>1. entry.cases \in Seq(Case)
    BY DEF Entry
  <2>2. K \in Nat /\ DOMAIN entry.cases = 1..K /\ \A k \in 1..K : entry.cases[k] \in Case
    BY <2>1, ElementsOf
  <2> QED
    BY <2>2 DEF Case
<1>2. PICK M, f : Expands(cases, entry, M, f)
  BY <1>1, PendingSuiteIs
<1>3. /\ M \in Nat /\ DOMAIN cases = 1..M
      /\ \A j \in 1..M : f[j][1] \in 1..K /\ f[j][2] \in 1..Rounds(entry)[f[j][1]]
      /\ \A i, j \in 1..M : f[i][1] = f[j][1] /\ f[i][2] = f[j][2] => i = j
      /\ \A j \in 1..M : cases[j] = entry.cases[f[j][1]].case
  BY <1>1, <1>2 DEF Expands, Visits, Rounds
<1>4. cases = [j \in 1..M |-> cases[j]]
  BY <1>3 DEF PendingSuite
<1> HIDE DEF cases
<1>5. cases \in Seq(STRING)
  <2>1. cases \in [1..M -> STRING]
    BY <1>1, <1>3, <1>4
  <2> QED
    BY <1>3, <2>1, Sequences
<1>6. PendingSuite(c, entry) = [collection |-> c, suite |-> entry.suite,
                               mandatory |-> Suite(c, entry.suite).mandatory, cases |-> cases]
  BY DEF PendingSuite, cases
<1>7. PendingSuite(c, entry) \in SuiteRow
  BY <1>5, <1>6 DEF SuiteRow, Entry
<1>8. ASSUME entry.suite = PerformanceSuite, NEW k \in 1..M, NEW l \in 1..M, cases[k] = cases[l]
      PROVE  k = l
  <2>1. f[k][1] \in DOMAIN entry.cases /\ f[l][1] \in DOMAIN entry.cases
    BY <1>1, <1>3
  <2>2. f[k][2] = 1 /\ f[l][2] = 1
    <3>1. \A i \in DOMAIN entry.cases : Rounds(entry)[i] = 1
      BY <1>8 DEF Rounds, Iterations
    <3>2. Rounds(entry)[f[k][1]] = 1 /\ Rounds(entry)[f[l][1]] = 1
      BY <2>1, <3>1
    <3> QED
      BY <1>3, <3>2
  <2>3. f[k][1] = f[l][1]
    <3>1. entry.cases[f[k][1]].case = entry.cases[f[l][1]].case
      BY <1>3, <1>8
    <3> QED
      BY <2>1, <3>1
  <2> QED
    BY <1>3, <2>2, <2>3
<1> QED
  BY <1>3, <1>7, <1>8 DEF cases

\* How many suites are selected of each collection.
Sizes(selection) == [i \in DOMAIN selection |-> Len(selection[i].suites)]

\* Row j is the one of turn f[j].
Pends(rows, selection, M, f) ==
    /\ Visits(Sizes(selection), M, f)
    /\ rows = [j \in 1..M |-> PendingSuite(selection[f[j][1]].collection,
                                           selection[f[j][1]].suites[f[j][2]])]

(* The types of a selection.                                               *)
LEMMA SelectionHas ==
    ASSUME NEW selection \in TestSelection
    PROVE  /\ Len(selection) \in Nat /\ DOMAIN selection = 1..Len(selection)
           /\ \A i \in DOMAIN selection :
                 /\ selection[i].collection \in STRING
                 /\ Len(selection[i].suites) \in Nat
                 /\ DOMAIN selection[i].suites = 1..Len(selection[i].suites)
                 /\ \A j \in DOMAIN selection[i].suites : selection[i].suites[j] \in Entry
<1>1. selection \in Seq([collection : STRING, suites : Seq(Entry)])
  BY DEF TestSelection, Entry, Case
<1>2. /\ Len(selection) \in Nat /\ DOMAIN selection = 1..Len(selection)
      /\ \A i \in DOMAIN selection : selection[i] \in [collection : STRING, suites : Seq(Entry)]
  BY <1>1, ElementsOf
<1>3. ASSUME NEW i \in DOMAIN selection
      PROVE  selection[i].collection \in STRING /\ selection[i].suites \in Seq(Entry)
  BY <1>2
<1> QED
  BY <1>2, <1>3, ElementsOf

(* The rows of a selection are those of its suites, each of them once.     *)
LEMMA PendingSuitesAre ==
    ASSUME NEW selection \in TestSelection
    PROVE  \E M, f : Pends(PendingSuites(selection), selection, M, f)
<1>1. Sizes(selection) \in [1..Len(selection) -> Int] /\ Len(selection) \in Nat
  BY SelectionHas DEF Sizes
<1>2. PICK M : Visits(Sizes(selection), M, InOrder(Turns(Sizes(selection))))
  BY <1>1, LoopsVisit
<1>3. Pends(PendingSuites(selection), selection, M, InOrder(Turns(Sizes(selection))))
  BY <1>2 DEF Pends, PendingSuites, Visits, Sizes
<1> QED
  BY <1>3

\* No suite has two rows; in the performance suite, no case has.
WellFormed(rows) ==
    /\ \A i, j \in DOMAIN rows :
          rows[i].collection = rows[j].collection /\ rows[i].suite = rows[j].suite => i = j
    /\ \A i \in DOMAIN rows : rows[i].suite = PerformanceSuite =>
          \A k, l \in DOMAIN rows[i].cases : rows[i].cases[k] = rows[i].cases[l] => k = l

(* The rows of what a client selects are well formed.                      *)
LEMMA PendingIsWellFormed ==
    ASSUME NEW selection \in TestSelection, IsDictionary(selection), Known(selection)
    PROVE  PendingSuites(selection) \in Seq(SuiteRow) /\ WellFormed(PendingSuites(selection))
<1> DEFINE rows == PendingSuites(selection)
<1>1. PICK M, f : Pends(rows, selection, M, f)
  BY PendingSuitesAre
<1> DEFINE c(j) == selection[f[j][1]].collection
           entry(j) == selection[f[j][1]].suites[f[j][2]]
<1>2. /\ M \in Nat /\ rows = [j \in 1..M |-> PendingSuite(c(j), entry(j))]
      /\ \A j \in 1..M : /\ f[j][1] \in DOMAIN selection
                         /\ f[j][2] \in 1..Len(selection[f[j][1]].suites)
      /\ \A i, j \in 1..M : f[i][1] = f[j][1] /\ f[i][2] = f[j][2] => i = j
  BY <1>1 DEF Pends, Visits, Sizes
<1> HIDE DEF rows
<1>3. ASSUME NEW j \in 1..M
      PROVE  /\ c(j) \in STRING /\ entry(j) \in Entry
             /\ f[j][2] \in DOMAIN selection[f[j][1]].suites
             /\ rows[j] = PendingSuite(c(j), entry(j))
             /\ rows[j].collection = c(j) /\ rows[j].suite = entry(j).suite
             /\ rows[j] \in SuiteRow
             /\ entry(j).suite = PerformanceSuite =>
                  \A k, l \in DOMAIN rows[j].cases : rows[j].cases[k] = rows[j].cases[l] => k = l
  <2>1. f[j][1] \in DOMAIN selection /\ f[j][2] \in DOMAIN selection[f[j][1]].suites
    BY <1>2, SelectionHas
  <2>2. c(j) \in STRING /\ entry(j) \in Entry
    BY <2>1, SelectionHas
  <2>3. Suite(c(j), entry(j).suite).mandatory \in BOOLEAN
    <3>1. c(j) \in DOMAIN Catalogue /\ entry(j).suite \in DOMAIN Catalogue[c(j)]
      BY <2>1 DEF Known
    <3> QED
      BY <3>1, CatalogueAssumption
  <2>4. \A k, l \in DOMAIN entry(j).cases :
           entry(j).cases[k].case = entry(j).cases[l].case => k = l
    BY <2>1, SMTT(30) DEF IsDictionary
  <2>5. rows[j] = PendingSuite(c(j), entry(j))
    BY <1>2
  <2> HIDE DEF c, entry
  <2>6. rows[j].collection = c(j) /\ rows[j].suite = entry(j).suite
    BY <2>5 DEF PendingSuite
  <2>7. /\ PendingSuite(c(j), entry(j)) \in SuiteRow
        /\ entry(j).suite = PerformanceSuite =>
             LET cases == PendingSuite(c(j), entry(j)).cases
             IN \A k, l \in DOMAIN cases : cases[k] = cases[l] => k = l
    BY <2>2, <2>3, <2>4, PendingRow
  <2> QED
    BY <2>1, <2>2, <2>5, <2>6, <2>7
<1>4. rows \in Seq(SuiteRow)
  <2>1. rows \in [1..M -> SuiteRow]
    BY <1>2, <1>3
  <2> QED
    BY <1>2, <2>1, Sequences
<1>5. ASSUME NEW i \in 1..M, NEW j \in 1..M,
             rows[i].collection = rows[j].collection, rows[i].suite = rows[j].suite
      PROVE  i = j
  <2>1. f[i][1] \in DOMAIN selection /\ f[j][1] \in DOMAIN selection
    BY <1>2
  <2>2. f[i][1] = f[j][1]
    BY <1>3, <1>5, <2>1 DEF IsDictionary
  <2>3. f[i][2] = f[j][2]
    BY <1>3, <1>5, <2>1, <2>2 DEF IsDictionary
  <2> QED
    BY <1>2, <2>2, <2>3
<1>6. DOMAIN rows = 1..M
  BY <1>2
<1>7. WellFormed(rows)
  BY <1>3, <1>5, <1>6 DEF WellFormed
<1> QED
  BY <1>4, <1>7 DEF rows

-----------------------------------------------------------------------------
(***************************************************************************)
(* From the rows back to a selection.                                      *)
(***************************************************************************)
\* The entry for a row.
Counted(row) == [suite |-> row.suite, cases |-> CountedCases(row.cases)]

\* The suites of a group are those of the rows of its collection: suite l is
\* that of row f[l].
IsGroup(group, rows, M, f) ==
    /\ M \in Nat
    /\ f \in Bijection(1..M, {i \in DOMAIN rows : rows[i].collection = group.collection})
    /\ group = [collection |-> group.collection, suites |-> [l \in 1..M |-> Counted(rows[f[l]])]]

\* There is one group for each collection that a row has.
AreGroups(groups, K, rows) ==
    /\ K \in Nat /\ groups = [c \in 1..K |-> groups[c]]
    /\ \A c, d \in 1..K : groups[c].collection = groups[d].collection => c = d
    /\ \A c \in 1..K : \E i \in DOMAIN rows : groups[c].collection = rows[i].collection
    /\ \A i \in DOMAIN rows : \E c \in 1..K : groups[c].collection = rows[i].collection
    /\ \A c \in 1..K : \E M, f : IsGroup(groups[c], rows, M, f)

(* A repetition selects the suites of the rows by their collections.       *)
LEMMA SelectedTestsAre ==
    ASSUME NEW N \in Nat, NEW rows, DOMAIN rows = 1..N
    PROVE  \E K : AreGroups(SelectedTests(rows), K, rows)
<1> DEFINE names == [i \in DOMAIN rows |-> rows[i].collection]
           groups == SelectedTests(rows)
           OfName(c) == {i \in DOMAIN rows : rows[i].collection = c}
<1>1. PICK K \in Nat : HasOnce(Keys(names), K, names, N)
  <2>1. DOMAIN names = 1..N
    OBVIOUS
  <2> QED
    BY <2>1, KeysAre
<1>2. groups = [c \in 1..K |->
         [collection |-> Keys(names)[c],
          suites |-> [l \in DOMAIN Filtered(rows, OfName(Keys(names)[c])) |->
                        Counted(Filtered(rows, OfName(Keys(names)[c]))[l])]]]
  <2>1. DOMAIN Keys(names) = 1..K
    BY <1>1 DEF HasOnce
  <2> QED
    BY <2>1 DEF SelectedTests, Counted
<1> HIDE DEF groups
<1>3. groups = [c \in 1..K |-> groups[c]] /\ \A c \in 1..K : groups[c].collection = Keys(names)[c]
  BY <1>2
<1>4. /\ \A c, d \in 1..K : groups[c].collection = groups[d].collection => c = d
      /\ \A c \in 1..K : \E i \in DOMAIN rows : groups[c].collection = rows[i].collection
      /\ \A i \in DOMAIN rows : \E c \in 1..K : groups[c].collection = rows[i].collection
  <2>1. /\ \A m, n \in 1..K : Keys(names)[m] = Keys(names)[n] => m = n
        /\ \A n \in 1..K : \E i \in 1..N : Keys(names)[n] = names[i]
        /\ \A i \in 1..N : \E n \in 1..K : Keys(names)[n] = names[i]
    BY <1>1 DEF HasOnce
  <2>2. \A i \in DOMAIN rows : names[i] = rows[i].collection
    OBVIOUS
  <2> HIDE DEF names
  <2> QED
    BY <1>3, <2>1, <2>2
<1>5. ASSUME NEW c \in 1..K PROVE \E M, f : IsGroup(groups[c], rows, M, f)
  <2> DEFINE I == OfName(groups[c].collection)
  <2>1. I \in SUBSET (1..N)
    OBVIOUS
  <2>2. PICK M \in Nat : \E f \in Bijection(1..M, I) : Keeps(rows, I, M, f)
    <3> HIDE DEF I
    <3> QED
      BY <2>1, FilteredIs
  <2>3. PICK f \in Bijection(1..M, I) : Keeps(rows, I, M, f)
    BY <2>2
  <2>4. groups[c] = [collection |-> groups[c].collection,
                     suites |-> [l \in DOMAIN Filtered(rows, I) |-> Counted(Filtered(rows, I)[l])]]
    BY <1>2, <1>3
  <2>5. groups[c] = [collection |-> groups[c].collection,
                     suites |-> [l \in 1..M |-> Counted(rows[f[l]])]]
    <3> HIDE DEF I
    <3> QED
      BY <2>3, <2>4 DEF Keeps
  <2>6. IsGroup(groups[c], rows, M, f)
    BY <2>3, <2>5 DEF IsGroup
  <2> QED
    BY <2>6
<1>6. AreGroups(groups, K, rows)
  BY <1>1, <1>3, <1>4, <1>5 DEF AreGroups
<1> QED
  BY <1>6 DEF groups

(* The suites of a group.                                                  *)
LEMMA GroupHas ==
    ASSUME NEW rows, NEW group, NEW M, NEW f, IsGroup(group, rows, M, f)
    PROVE  /\ M \in Nat /\ DOMAIN group.suites = 1..M
           /\ \A l \in 1..M : /\ f[l] \in DOMAIN rows /\ rows[f[l]].collection = group.collection
                              /\ group.suites[l] = Counted(rows[f[l]])
           /\ \A k, l \in 1..M : f[k] = f[l] => k = l
           /\ \A i \in DOMAIN rows : rows[i].collection = group.collection =>
                 \E l \in 1..M : f[l] = i
BY DEF IsGroup, Bijection, Injection, Surjection, IsInjective

(* Counted cases are a dictionary.                                         *)
LEMMA CountedAre ==
    ASSUME NEW cases \in Seq(STRING)
    PROVE  /\ CountedCases(cases) \in Seq(Case)
           /\ \A k, l \in DOMAIN CountedCases(cases) :
                 CountedCases(cases)[k].case = CountedCases(cases)[l].case => k = l
<1> DEFINE N == Len(cases)
           keys == Keys(cases)
<1>1. N \in Nat /\ DOMAIN cases = 1..N /\ \A i \in 1..N : cases[i] \in STRING
  BY ElementsOf
<1>2. PICK K \in Nat : HasOnce(keys, K, cases, N)
  BY <1>1, KeysAre
<1>3. /\ DOMAIN keys = 1..K
      /\ \A k, l \in 1..K : keys[k] = keys[l] => k = l
      /\ \A k \in 1..K : keys[k] \in STRING
  BY <1>1, <1>2 DEF HasOnce
<1>4. CountedCases(cases) =
        [k \in 1..K |-> [case |-> keys[k], times |-> Occurrences(cases, keys[k])]]
  BY <1>3 DEF CountedCases
<1> HIDE DEF keys
<1>5. ASSUME NEW k \in 1..K PROVE Occurrences(cases, keys[k]) \in Int
  <2>1. Occurrences(cases, keys[k]) \in Nat
    BY <1>1, OccurrencesAre
  <2> QED
    BY <2>1
<1>6. CountedCases(cases) \in [1..K -> Case]
  BY <1>3, <1>4, <1>5 DEF Case
<1>7. CountedCases(cases) \in Seq(Case)
  BY <1>6, Sequences
<1> QED
  BY <1>3, <1>4, <1>7

(* What is selected to repeat an execution is a dictionary.                *)
LEMMA SelectedIsDictionary ==
    ASSUME NEW rows \in Seq(SuiteRow), WellFormed(rows)
    PROVE  SelectedTests(rows) \in TestSelection /\ IsDictionary(SelectedTests(rows))
<1> DEFINE groups == SelectedTests(rows)
<1>1. Len(rows) \in Nat /\ DOMAIN rows = 1..Len(rows) /\ \A i \in DOMAIN rows : rows[i] \in SuiteRow
  BY ElementsOf
<1>2. PICK K : AreGroups(groups, K, rows)
  BY <1>1, SelectedTestsAre
<1> HIDE DEF groups
<1>3. ASSUME NEW i \in DOMAIN rows
      PROVE  /\ Counted(rows[i]) \in Entry /\ Counted(rows[i]).suite = rows[i].suite
             /\ \A k, l \in DOMAIN Counted(rows[i]).cases :
                   Counted(rows[i]).cases[k].case = Counted(rows[i]).cases[l].case => k = l
  <2>1. rows[i].suite \in STRING /\ rows[i].cases \in Seq(STRING)
    BY <1>1 DEF SuiteRow
  <2> QED
    BY <2>1, CountedAre DEF Counted, Entry
<1>4. ASSUME NEW c \in 1..K
      PROVE  /\ groups[c] \in [collection : STRING, suites : Seq(Entry)]
             /\ \A j, k \in DOMAIN groups[c].suites :
                   groups[c].suites[j].suite = groups[c].suites[k].suite => j = k
             /\ \A j \in DOMAIN groups[c].suites : \A k, l \in DOMAIN groups[c].suites[j].cases :
                   groups[c].suites[j].cases[k].case = groups[c].suites[j].cases[l].case => k = l
  <2>1. PICK M, f : IsGroup(groups[c], rows, M, f)
    BY <1>2 DEF AreGroups
  <2>2. /\ M \in Nat /\ DOMAIN groups[c].suites = 1..M
        /\ \A l \in 1..M : /\ f[l] \in DOMAIN rows
                           /\ rows[f[l]].collection = groups[c].collection
                           /\ groups[c].suites[l] = Counted(rows[f[l]])
        /\ \A k, l \in 1..M : f[k] = f[l] => k = l
    BY <2>1, GroupHas
  <2>3. groups[c] = [collection |-> groups[c].collection, suites |-> groups[c].suites]
        /\ groups[c].suites = [l \in 1..M |-> groups[c].suites[l]]
    BY <2>1 DEF IsGroup
  <2>4. groups[c].collection \in STRING
    <3>1. PICK i \in DOMAIN rows : groups[c].collection = rows[i].collection
      BY <1>2 DEF AreGroups
    <3> QED
      BY <1>1, <3>1 DEF SuiteRow
  <2>5. groups[c].suites \in Seq(Entry)
    <3>1. groups[c].suites \in [1..M -> Entry]
      <4>1. \A l \in 1..M : groups[c].suites[l] \in Entry
        BY <1>3, <2>2
      <4> QED
        BY <2>3, <4>1
    <3> QED
      BY <2>2, <3>1, Sequences
  <2>6. ASSUME NEW j \in 1..M, NEW k \in 1..M,
               groups[c].suites[j].suite = groups[c].suites[k].suite
        PROVE  j = k
    <3>1. rows[f[j]].suite = rows[f[k]].suite /\ rows[f[j]].collection = rows[f[k]].collection
      BY <1>3, <2>2, <2>6
    <3>2. f[j] = f[k]
      BY <2>2, <3>1 DEF WellFormed
    <3> QED
      BY <2>2, <3>2
  <2>7. ASSUME NEW j \in 1..M
        PROVE  \A k, l \in DOMAIN groups[c].suites[j].cases :
                  groups[c].suites[j].cases[k].case = groups[c].suites[j].cases[l].case => k = l
    <3>1. f[j] \in DOMAIN rows /\ groups[c].suites[j] = Counted(rows[f[j]])
      BY <2>2
    <3> QED
      BY <1>3, <3>1
  <2> QED
    BY <2>2, <2>3, <2>4, <2>5, <2>6, <2>7
<1>5. K \in Nat /\ groups = [c \in 1..K |-> groups[c]]
      /\ \A c, d \in 1..K : groups[c].collection = groups[d].collection => c = d
  BY <1>2 DEF AreGroups
<1>6. groups \in TestSelection
  <2>1. groups \in [1..K -> [collection : STRING, suites : Seq(Entry)]]
    BY <1>4, <1>5
  <2>2. groups \in Seq([collection : STRING, suites : Seq(Entry)])
    BY <1>5, <2>1, Sequences
  <2> QED
    BY <2>2 DEF TestSelection, Entry, Case
<1>7. IsDictionary(groups)
  <2>1. DOMAIN groups = 1..K
    BY <1>5
  <2> QED
    BY <1>4, <1>5, <2>1 DEF IsDictionary
<1> QED
  BY <1>6, <1>7 DEF groups

-----------------------------------------------------------------------------
(***************************************************************************)
(* The rows of a repetition, one by one and as often.                      *)
(***************************************************************************)
\* The same suite, with each case as often.
Matches(new, old) ==
    /\ new.collection = old.collection /\ new.suite = old.suite
    /\ \A c : Occurrences(new.cases, c) = Occurrences(old.cases, c)

Correspond(new, old) ==
    /\ \A i \in DOMAIN old : \E j \in DOMAIN new : Matches(new[j], old[i])
    /\ \A j \in DOMAIN new : \E i \in DOMAIN old : Matches(new[j], old[i])

(* The row made of the entry for a row is like it.                         *)
LEMMA RowKept ==
    ASSUME NEW rows \in Seq(SuiteRow), WellFormed(rows), NEW i \in DOMAIN rows
    PROVE  Matches(PendingSuite(rows[i].collection, Counted(rows[i])), rows[i])
<1>1. /\ Len(rows[i].cases) \in Nat /\ DOMAIN rows[i].cases = 1..Len(rows[i].cases)
  <2>1. rows[i] \in SuiteRow
    BY ElementsOf
  <2>2. rows[i].cases \in Seq(STRING)
    BY <2>1 DEF SuiteRow
  <2> QED
    BY <2>2, ElementsOf
<1>2. rows[i].suite = PerformanceSuite =>
        \A k, l \in DOMAIN rows[i].cases : rows[i].cases[k] = rows[i].cases[l] => k = l
  BY DEF WellFormed
<1>3. ASSUME NEW c
      PROVE  Occurrences(PendingSuite(rows[i].collection, Counted(rows[i])).cases, c)
               = Occurrences(rows[i].cases, c)
  BY <1>1, <1>2, CasesKept DEF Counted
<1> QED
  BY <1>3 DEF Matches, PendingSuite, Counted

(* The rows of a repetition correspond to those of what it repeats.        *)
LEMMA RowsAreKept ==
    ASSUME NEW rows \in Seq(SuiteRow), WellFormed(rows)
    PROVE  Correspond(PendingSuites(SelectedTests(rows)), rows)
<1> DEFINE groups == SelectedTests(rows)
           new == PendingSuites(groups)
<1>1. Len(rows) \in Nat /\ DOMAIN rows = 1..Len(rows)
  BY ElementsOf
<1>2. PICK K : AreGroups(groups, K, rows)
  BY <1>1, SelectedTestsAre
<1>3. groups \in TestSelection
  BY SelectedIsDictionary
<1>4. PICK M, f : Pends(new, groups, M, f)
  BY <1>3, PendingSuitesAre
<1> HIDE DEF groups, new
<1>5. /\ M \in Nat /\ DOMAIN new = 1..M /\ DOMAIN groups = 1..K
      /\ \A j \in 1..M : /\ f[j][1] \in DOMAIN groups
                         /\ f[j][2] \in DOMAIN groups[f[j][1]].suites
                         /\ new[j] = PendingSuite(groups[f[j][1]].collection,
                                                  groups[f[j][1]].suites[f[j][2]])
      /\ \A c \in DOMAIN groups : \A l \in DOMAIN groups[c].suites :
            \E j \in 1..M : f[j][1] = c /\ f[j][2] = l
  <2>1. DOMAIN groups = 1..K
    BY <1>2 DEF AreGroups
  <2>2. DOMAIN Sizes(groups) = DOMAIN groups
        /\ \A c \in DOMAIN groups : DOMAIN groups[c].suites = 1..Sizes(groups)[c]
    BY <1>3, SelectionHas DEF Sizes
  <2>3. Visits(Sizes(groups), M, f)
    BY <1>4 DEF Pends
  <2>4. M \in Nat /\ \A j \in 1..M : f[j][1] \in DOMAIN groups
                                    /\ f[j][2] \in DOMAIN groups[f[j][1]].suites
    <3>1. M \in Nat /\ \A j \in 1..M : /\ f[j][1] \in DOMAIN Sizes(groups)
                                      /\ f[j][2] \in 1..Sizes(groups)[f[j][1]]
      BY <2>3 DEF Visits
    <3> QED
      BY <2>2, <3>1
  <2>5. ASSUME NEW c \in DOMAIN groups, NEW l \in DOMAIN groups[c].suites
        PROVE  \E j \in 1..M : f[j][1] = c /\ f[j][2] = l
    <3>1. c \in DOMAIN Sizes(groups) /\ l \in 1..Sizes(groups)[c]
      BY <2>2
    <3>2. \A k \in DOMAIN Sizes(groups) : \A i \in 1..Sizes(groups)[k] :
             \E j \in 1..M : f[j][1] = k /\ f[j][2] = i
      BY <2>3 DEF Visits
    <3> QED
      BY <3>1, <3>2
  <2> QED
    BY <1>4, <2>1, <2>4, <2>5 DEF Pends
<1>6. ASSUME NEW c \in DOMAIN groups
      PROVE  /\ \A l \in DOMAIN groups[c].suites : \E i \in DOMAIN rows :
                   /\ rows[i].collection = groups[c].collection
                   /\ groups[c].suites[l] = Counted(rows[i])
             /\ \A i \in DOMAIN rows : rows[i].collection = groups[c].collection =>
                   \E l \in DOMAIN groups[c].suites : groups[c].suites[l] = Counted(rows[i])
  <2>1. PICK L, g : IsGroup(groups[c], rows, L, g)
    BY <1>2, <1>5 DEF AreGroups
  <2>2. /\ DOMAIN groups[c].suites = 1..L
        /\ \A l \in 1..L : /\ g[l] \in DOMAIN rows /\ rows[g[l]].collection = groups[c].collection
                           /\ groups[c].suites[l] = Counted(rows[g[l]])
        /\ \A i \in DOMAIN rows : rows[i].collection = groups[c].collection =>
              \E l \in 1..L : g[l] = i
    BY <2>1, GroupHas
  <2>3. ASSUME NEW i \in DOMAIN rows, rows[i].collection = groups[c].collection
        PROVE  \E l \in DOMAIN groups[c].suites : groups[c].suites[l] = Counted(rows[i])
    <3>1. PICK l \in 1..L : g[l] = i
      BY <2>2, <2>3
    <3> QED
      BY <2>2, <3>1
  <2> QED
    BY <2>2, <2>3
<1>7. ASSUME NEW i \in DOMAIN rows PROVE \E j \in DOMAIN new : Matches(new[j], rows[i])
  <2>1. PICK c \in DOMAIN groups : groups[c].collection = rows[i].collection
    BY <1>2, <1>5 DEF AreGroups
  <2>2. PICK l \in DOMAIN groups[c].suites : groups[c].suites[l] = Counted(rows[i])
    BY <1>6, <2>1
  <2>3. PICK j \in 1..M : f[j][1] = c /\ f[j][2] = l
    BY <1>5
  <2>4. new[j] = PendingSuite(rows[i].collection, Counted(rows[i]))
    BY <1>5, <2>1, <2>2, <2>3
  <2> QED
    BY <1>5, <2>4, RowKept
<1>8. ASSUME NEW j \in DOMAIN new PROVE \E i \in DOMAIN rows : Matches(new[j], rows[i])
  <2>1. PICK i \in DOMAIN rows : /\ rows[i].collection = groups[f[j][1]].collection
                                 /\ groups[f[j][1]].suites[f[j][2]] = Counted(rows[i])
    <3>1. f[j][1] \in DOMAIN groups /\ f[j][2] \in DOMAIN groups[f[j][1]].suites
      BY <1>5
    <3> QED
      BY <1>6, <3>1
  <2>2. new[j] = PendingSuite(rows[i].collection, Counted(rows[i]))
    BY <1>5, <2>1
  <2> QED
    BY <2>2, RowKept
<1> QED
  BY <1>7, <1>8 DEF Correspond, new, groups

\* Row n of the sorted ones is row f[n].
Sorts(sorted, rows, M, f) ==
    /\ M \in Nat /\ sorted = [n \in 1..M |-> rows[f[n]]]
    /\ \A n \in 1..M : f[n] \in DOMAIN rows
    /\ \A m, n \in 1..M : f[m] = f[n] => m = n
    /\ \A i \in DOMAIN rows : \E n \in 1..M : f[n] = i
    /\ \A m, n \in 1..M : m < n /\ rows[f[n]].mandatory => rows[f[m]].mandatory

(* Sorting keeps each row, and has the mandatory ones in front.            *)
LEMMA SortedAre ==
    ASSUME NEW N \in Nat, NEW rows, DOMAIN rows = 1..N, \A i \in 1..N : rows[i].mandatory \in BOOLEAN
    PROVE  \E M, f : Sorts(SortSelected(rows), rows, M, f)
<1> DEFINE rank(i) == IF rows[i].mandatory THEN 0 ELSE 1
           S == {<<rank(i), i>> : i \in DOMAIN rows}
           M == Cardinality(S)
           g == InOrder(S)
           f == [n \in 1..M |-> g[n][2]]
<1>1. S \in SUBSET (Int \X Int) /\ IsFiniteSet(S)
  <2>1. IsFiniteSet(1..N)
    BY FS_Interval
  <2>2. [i \in 1..N |-> <<rank(i), i>>] \in Surjection(1..N, S)
    BY DEF Surjection
  <2>3. IsFiniteSet(S)
    BY <2>1, <2>2, FS_Surjection
  <2>4. ASSUME NEW i \in 1..N PROVE <<rank(i), i>> \in Int \X Int
    OBVIOUS
  <2> QED
    BY <2>3, <2>4
<1>2. M \in Nat /\ g \in Bijection(1..M, S) /\ \A m, n \in 1..M : m < n => Before(g[m], g[n])
  BY <1>1, InOrderIs
<1>3. /\ g \in [1..M -> S] /\ \A m, n \in 1..M : g[m] = g[n] => m = n
      /\ \A p \in S : \E n \in 1..M : g[n] = p
  BY <1>2 DEF Bijection, Injection, Surjection, IsInjective
<1>4. SortSelected(rows) = [n \in 1..M |-> rows[f[n]]]
  <2>1. DOMAIN g = 1..M
    BY <1>3
  <2> QED
    BY <2>1 DEF SortSelected
<1> HIDE DEF M, g
<1>5. ASSUME NEW n \in 1..M PROVE f[n] \in DOMAIN rows /\ g[n] = <<rank(f[n]), f[n]>>
  <2>1. PICK i \in DOMAIN rows : g[n] = <<rank(i), i>>
    BY <1>3
  <2> QED
    BY <2>1
<1>6. ASSUME NEW i \in DOMAIN rows PROVE \E n \in 1..M : f[n] = i
  <2>1. <<rank(i), i>> \in S
    OBVIOUS
  <2>2. PICK n \in 1..M : g[n] = <<rank(i), i>>
    BY <1>3, <2>1
  <2> QED
    BY <2>2
<1>7. ASSUME NEW m \in 1..M, NEW n \in 1..M, f[m] = f[n] PROVE m = n
  BY <1>3, <1>5, <1>7
<1>8. ASSUME NEW m \in 1..M, NEW n \in 1..M, m < n, rows[f[n]].mandatory
      PROVE  rows[f[m]].mandatory
  <2>1. Before(g[m], g[n])
    BY <1>2, <1>8
  <2>2. rank(f[m]) <= rank(f[n])
    BY <1>5, <2>1 DEF Before
  <2> QED
    BY <1>8, <2>2
<1>9. Sorts(SortSelected(rows), rows, M, f)
  BY <1>2, <1>4, <1>5, <1>6, <1>7, <1>8 DEF Sorts
<1> QED
  BY <1>9

(* The sorted rows are well formed and correspond to what the rows did.    *)
LEMMA SortKeeps ==
    ASSUME NEW rows \in Seq(SuiteRow), WellFormed(rows)
    PROVE  LET sorted == SortSelected(rows)
           IN /\ sorted \in Seq(SuiteRow) /\ WellFormed(sorted) /\ MandatoryFirst(sorted)
              /\ \A old : Correspond(rows, old) => Correspond(sorted, old)
<1> DEFINE sorted == SortSelected(rows)
<1>1. /\ Len(rows) \in Nat /\ DOMAIN rows = 1..Len(rows)
      /\ \A i \in DOMAIN rows : rows[i] \in SuiteRow /\ rows[i].mandatory \in BOOLEAN
  <2>1. /\ Len(rows) \in Nat /\ DOMAIN rows = 1..Len(rows)
        /\ \A i \in DOMAIN rows : rows[i] \in SuiteRow
    BY ElementsOf
  <2> QED
    BY <2>1 DEF SuiteRow
<1>2. PICK M, f : Sorts(sorted, rows, M, f)
  BY <1>1, SortedAre
<1> HIDE DEF sorted
<1>3. /\ M \in Nat /\ sorted = [n \in 1..M |-> rows[f[n]]] /\ DOMAIN sorted = 1..M
      /\ \A n \in 1..M : f[n] \in DOMAIN rows /\ sorted[n] = rows[f[n]]
      /\ \A m, n \in 1..M : f[m] = f[n] => m = n
      /\ \A i \in DOMAIN rows : \E n \in 1..M : f[n] = i
  BY <1>2 DEF Sorts
<1>4. sorted \in Seq(SuiteRow)
  <2>1. sorted \in [1..M -> SuiteRow]
    BY <1>1, <1>3
  <2> QED
    BY <1>3, <2>1, Sequences
<1>5. WellFormed(sorted)
  <2>1. ASSUME NEW m \in DOMAIN sorted, NEW n \in DOMAIN sorted,
               sorted[m].collection = sorted[n].collection, sorted[m].suite = sorted[n].suite
        PROVE  m = n
    <3>1. f[m] = f[n]
      BY <1>3, <2>1 DEF WellFormed
    <3> QED
      BY <1>3, <3>1
  <2>2. ASSUME NEW n \in DOMAIN sorted, sorted[n].suite = PerformanceSuite
        PROVE  \A k, l \in DOMAIN sorted[n].cases :
                  sorted[n].cases[k] = sorted[n].cases[l] => k = l
    <3>1. f[n] \in DOMAIN rows /\ sorted[n] = rows[f[n]]
      BY <1>3
    <3> QED
      BY <2>2, <3>1 DEF WellFormed
  <2> QED
    BY <2>1, <2>2 DEF WellFormed
<1>6. MandatoryFirst(sorted)
  BY <1>2, <1>3 DEF MandatoryFirst, Sorts
<1>7. ASSUME NEW old, Correspond(rows, old) PROVE Correspond(sorted, old)
  BY <1>3, <1>7 DEF Correspond
<1> QED
  BY <1>4, <1>5, <1>6, <1>7 DEF sorted

(* How often rows have a test is what the row of its suite says.           *)
LEMMA TimesOfRow ==
    ASSUME NEW rows \in Seq(SuiteRow), WellFormed(rows), NEW i \in DOMAIN rows, NEW c
    PROVE  Times(rows, <<rows[i].collection, rows[i].suite, c>>) = Occurrences(rows[i].cases, c)
<1> DEFINE test == <<rows[i].collection, rows[i].suite, c>>
           A == {p \in Places(rows) : Test(rows, p) = test}
           B == {k \in DOMAIN rows[i].cases : rows[i].cases[k] = c}
           g == [p \in A |-> p[2]]
<1>1. ASSUME NEW j \in DOMAIN rows
      PROVE  Len(rows[j].cases) \in Nat /\ DOMAIN rows[j].cases = 1..Len(rows[j].cases)
  <2>1. rows[j] \in SuiteRow
    BY ElementsOf
  <2>2. rows[j].cases \in Seq(STRING)
    BY <2>1 DEF SuiteRow
  <2> QED
    BY <2>2, ElementsOf
<1>2. ASSUME NEW p \in A PROVE p = <<i, p[2]>> /\ p[2] \in B
  <2>1. p = <<p[1], p[2]>> /\ p[1] \in DOMAIN rows /\ p[2] \in 1..Len(rows[p[1]].cases)
    BY DEF Places, Turns
  <2>2. /\ rows[p[1]].collection = rows[i].collection /\ rows[p[1]].suite = rows[i].suite
        /\ rows[p[1]].cases[p[2]] = c
    BY DEF Test
  <2>3. p[1] = i
    BY <2>1, <2>2 DEF WellFormed
  <2> QED
    BY <1>1, <2>1, <2>2, <2>3
<1>3. ASSUME NEW k \in B PROVE <<i, k>> \in A
  <2>1. k \in 1..Len(rows[i].cases)
    BY <1>1
  <2>2. <<i, k>> \in Places(rows)
    BY <2>1 DEF Places, Turns
  <2> QED
    BY <2>2 DEF Test
<1> HIDE DEF A, B
<1>4. g \in Bijection(A, B)
  <2>1. g \in [A -> B] /\ \A p, q \in A : g[p] = g[q] => p = q
    BY <1>2
  <2>2. ASSUME NEW k \in B PROVE \E p \in A : g[p] = k
    BY <1>3
  <2> QED
    BY <2>1, <2>2 DEF Bijection, Injection, Surjection, IsInjective
<1>5. IsFiniteSet(B)
  BY <1>1, OccurrencesAre DEF B
<1>6. Cardinality(A) = Cardinality(B)
  BY <1>4, <1>5, SameCount
<1> QED
  BY <1>6 DEF Times, Occurrences, A, B

(* Executions with corresponding rows have the same tests.                 *)
LEMMA SameTestsIf ==
    ASSUME NEW new \in Seq(SuiteRow), NEW old \in Seq(SuiteRow),
           WellFormed(new), WellFormed(old), Correspond(new, old)
    PROVE  SameTests(new, old)
<1>1. ASSUME NEW j \in DOMAIN new, NEW i \in DOMAIN old, Matches(new[j], old[i]), NEW c,
             NEW test, test = <<new[j].collection, new[j].suite, c>>
                    \/ test = <<old[i].collection, old[i].suite, c>>
      PROVE  Times(new, test) = Times(old, test)
  <2>1. /\ test = <<new[j].collection, new[j].suite, c>>
        /\ test = <<old[i].collection, old[i].suite, c>>
    BY <1>1 DEF Matches
  <2>2. Times(new, test) = Occurrences(new[j].cases, c) /\ Times(old, test) = Occurrences(old[i].cases, c)
    BY <2>1, TimesOfRow
  <2> QED
    BY <1>1, <2>2 DEF Matches
<1>2. ASSUME NEW p \in Places(new) PROVE Times(new, Test(new, p)) = Times(old, Test(new, p))
  <2>1. p[1] \in DOMAIN new
    BY DEF Places, Turns
  <2>2. PICK i \in DOMAIN old : Matches(new[p[1]], old[i])
    BY <2>1 DEF Correspond
  <2> QED
    BY <1>1, <2>1, <2>2 DEF Test
<1>3. ASSUME NEW p \in Places(old) PROVE Times(new, Test(old, p)) = Times(old, Test(old, p))
  <2>1. p[1] \in DOMAIN old
    BY DEF Places, Turns
  <2>2. PICK j \in DOMAIN new : Matches(new[j], old[p[1]])
    BY <2>1 DEF Correspond
  <2> QED
    BY <1>1, <2>1, <2>2 DEF Test
<1> QED
  BY <1>2, <1>3 DEF SameTests

(* A repetition has the tests of the execution it is like, and in order.   *)
LEMMA RepetitionKeeps ==
    ASSUME NEW like \in Seq(SuiteRow), WellFormed(like), Known(SelectedTests(like))
    PROVE  LET rows == SortSelected(PendingSuites(SelectedTests(like)))
           IN /\ rows \in Seq(SuiteRow) /\ WellFormed(rows)
              /\ SameTests(rows, like) /\ MandatoryFirst(rows)
<1> DEFINE pending == PendingSuites(SelectedTests(like))
           rows == SortSelected(pending)
<1>1. pending \in Seq(SuiteRow) /\ WellFormed(pending) /\ Correspond(pending, like)
  BY SelectedIsDictionary, PendingIsWellFormed, RowsAreKept
<1> HIDE DEF pending
<1>2. /\ rows \in Seq(SuiteRow) /\ WellFormed(rows) /\ MandatoryFirst(rows)
      /\ Correspond(rows, like)
  BY <1>1, SortKeeps
<1> QED
  BY <1>2, SameTestsIf DEF pending

-----------------------------------------------------------------------------
(***************************************************************************)
(* Requests that create executions.                                        *)
(*                                                                         *)
(* The rows of an execution are well formed whoever made them, which is    *)
(* what makes selecting its tests again undo their creation.  A request    *)
(* carries what it selects from one commit to the next: the execution it   *)
(* completes is the one it has inserted, or is gone, since no id is given  *)
(* twice.                                                                  *)
(***************************************************************************)
\* The rows of an execution, and of the one it repeats.
ExecutionHolds(row) ==
    /\ WellFormed(row.suites)
    /\ row.like # None => WellFormed(row.like)
    /\ row.answered /\ row.like # None =>
          SameTests(row.suites, row.like) /\ MandatoryFirst(row.suites)

\* What a request is about to create.
Selects(r) ==
    /\ r.op \in {"create", "import"} => r.selection \in TestSelection /\ IsDictionary(r.selection)
    /\ r.op = "create" =>
          /\ {"at", "o", "e", "selection", "like"} \subseteq DOMAIN r
          /\ r.like # None =>
                /\ r.like \in Seq(SuiteRow) /\ WellFormed(r.like)
                /\ r.selection = SelectedTests(r.like)
    /\ r.op = "import" => {"at", "o", "add", "selection"} \subseteq DOMAIN r /\ Known(r.selection)

AtSuites(r) == r.op = "create" /\ r.at = "suites"

\* What a request has inserted is there, without its suites, or gone.
Inserted(r) ==
    AtSuites(r) => /\ r.e \in Executions /\ execution[r.e] # Free
                   /\ r.e \in Rows(execution) => execution[r.e].like = r.like

EInv ==
    /\ execution \in [Executions -> ExecutionRow \cup {Free, Gone}]
    /\ operator = [o \in Operators |-> operator[o]]
    /\ \A e \in Rows(execution) : ExecutionHolds(execution[e])
    /\ \A t \in Threads : Selects(req[t]) /\ Inserted(req[t])

\* Executions stay, go, or keep their suites.
ExecutionsKept ==
    /\ execution' = [e \in Executions |-> execution'[e]]
    /\ operator' = [o \in Operators |-> operator'[o]]
    /\ \A e \in Executions :
          \/ execution'[e] = execution[e]
          \/ execution'[e] = Gone
          \/ /\ e \in Rows(execution) /\ execution'[e] \in ExecutionRow
             /\ execution'[e].suites = execution[e].suites
             /\ execution'[e].like = execution[e].like
             /\ execution'[e].answered = execution[e].answered

(* The invariant stays when the executions are left alone, and the thread  *)
(* has inserted none.                                                      *)
LEMMA ExecutionsAlone ==
    ASSUME IInv, EInv, NEW t \in Threads, NEW r, req' = [req EXCEPT ![t] = r],
           Selects(r), ~AtSuites(r), ExecutionsKept
    PROVE  EInv'
<1> USE RowAssumption, ExecutionAssumption
<1>1. execution' \in [Executions -> ExecutionRow \cup {Free, Gone}]
  BY DEF EInv, ExecutionsKept, Rows
<1>2. ASSUME NEW e \in Rows(execution') PROVE ExecutionHolds(execution'[e])
  <2>4. e \in Executions /\ execution'[e] # Gone /\ execution'[e] \notin {Free, Gone}
    BY <1>1, <1>2 DEF Rows
  <2>5. execution'[e] = execution[e] \/ e \in Rows(execution)
    BY <2>4 DEF ExecutionsKept
  <2>1. e \in Rows(execution)
    BY <2>4, <2>5 DEF Rows, EInv
  <2>2. ExecutionHolds(execution[e])
    BY <2>1 DEF EInv
  <2>3. /\ execution'[e].suites = execution[e].suites /\ execution'[e].like = execution[e].like
        /\ execution'[e].answered = execution[e].answered
    BY <2>4 DEF ExecutionsKept
  <2> QED
    BY <2>2, <2>3 DEF ExecutionHolds
<1>3. ASSUME NEW u \in Threads PROVE Selects(req'[u]) /\ Inserted(req[u])'
  <2>1. req'[u] = IF u = t THEN r ELSE req[u]
    BY DEF IInv, Types
  <2>2. CASE u = t
    BY <2>1, <2>2 DEF Inserted
  <2>3. CASE u # t
    <3>1. Selects(req[u]) /\ Inserted(req[u]) /\ req'[u] = req[u]
      BY <2>1, <2>3 DEF EInv
    <3>2. CASE AtSuites(req[u])
      <4>1. /\ req[u].e \in Executions /\ execution[req[u].e] # Free
            /\ req[u].e \in Rows(execution) => execution[req[u].e].like = req[u].like
        BY <3>1, <3>2 DEF Inserted
      <4> DEFINE e == req[u].e
      <4>2. \/ execution'[e] = execution[e]
            \/ execution'[e] = Gone
            \/ /\ e \in Rows(execution) /\ execution'[e] \in ExecutionRow
               /\ execution'[e].like = execution[e].like
        BY <4>1 DEF ExecutionsKept
      <4> HIDE DEF e
      <4>3. execution'[e] # Free
        BY <4>1, <4>2 DEF e
      <4>4. e \in Rows(execution') => execution'[e] # Gone
        BY DEF Rows
      <4>5. ASSUME e \in Rows(execution') PROVE execution'[e].like = req[u].like
        <5>1. execution'[e] = execution[e] => e \in Rows(execution)
          BY <4>1, <4>5 DEF Rows, EInv, e
        <5> QED
          BY <4>1, <4>2, <4>4, <4>5, <5>1 DEF e
      <4> QED
        BY <3>1, <4>1, <4>3, <4>5 DEF Inserted, e
    <3> QED
      BY <3>1, <3>2 DEF Inserted
  <2> QED
    BY <2>2, <2>3
<1> QED
  BY <1>1, <1>2, <1>3 DEF EInv, ExecutionsKept

(* When nothing is written, the executions are left alone.                 *)
LEMMA NothingWritten ==
    ASSUME EInv, UNCHANGED <<execution, operator>>
    PROVE  ExecutionsKept
BY DEF EInv, ExecutionsKept

(* Requests that create no execution.                                      *)
LEMMA OthersAlone ==
    ASSUME IInv, EInv, NEW t \in Threads, NEW r, req' = [req EXCEPT ![t] = r],
           r.op \notin {"create", "import"}, ExecutionsKept
    PROVE  EInv'
<1>1. Selects(r) /\ ~AtSuites(r)
  BY DEF Selects, AtSuites
<1> QED
  BY <1>1, ExecutionsAlone

(* A request that ends without a commit.                                   *)
LEMMA RaisingAlone ==
    ASSUME IInv, EInv, NEW t \in Threads, Answer(t), ExecutionsKept
    PROVE  EInv'
<1>1. Idle.op \notin {"create", "import"}
  BY DEF Idle
<1> QED
  BY <1>1, OthersAlone DEF Answer, Goto

(* Steps about the projects.                                               *)
LEMMA ProjectsStepKeeps ==
    ASSUME IInv, EInv, NEW t \in Threads, ProjectStep(t)
    PROVE  EInv'
<1> USE DEF Ghosts
<1>1. CASE CreateProject(t) \/ ImportProject(t)
  <2>1. UNCHANGED <<req, execution, operator>>
    BY <1>1 DEF CreateProject, ImportProject
  <2> QED
    BY <2>1 DEF EInv, Selects, Inserted, AtSuites, Rows, ExecutionHolds
<1>2. ASSUME NEW r, Begin(t, r), r.op \notin {"create", "import"} PROVE EInv'
  BY <1>2, NothingWritten, OthersAlone DEF Begin
<1>3. CASE ReadToChange(t)
  <2>1. PICK p, change :
           Begin(t, [op |-> "change", at |-> "commit", p |-> p, seen |-> project[p], set |-> change])
    BY <1>3 DEF ReadToChange
  <2> DEFINE r == [op |-> "change", at |-> "commit", p |-> p, seen |-> project[p], set |-> change]
  <2>2. Begin(t, r) /\ r.op \notin {"create", "import"}
    BY <2>1
  <2> HIDE DEF r
  <2> QED
    BY <1>2, <2>2
<1>4. CASE ReadToUpload(t)
  <2>1. PICK p, file :
           Begin(t, [op |-> "upload", at |-> "commit", p |-> p, seen |-> project[p], file |-> file])
    BY <1>4 DEF ReadToUpload
  <2> DEFINE r == [op |-> "upload", at |-> "commit", p |-> p, seen |-> project[p], file |-> file]
  <2>2. Begin(t, r) /\ r.op \notin {"create", "import"}
    BY <2>1
  <2> HIDE DEF r
  <2> QED
    BY <1>2, <2>2
<1>5. CASE ReadToRemove(t)
  <2>1. PICK p, c : Begin(t, [op |-> "remove_cluster", at |-> "commit", p |-> p,
                              seen |-> project[p], cluster |-> c])
    BY <1>5 DEF ReadToRemove
  <2> DEFINE r == [op |-> "remove_cluster", at |-> "commit", p |-> p,
                   seen |-> project[p], cluster |-> c]
  <2>2. Begin(t, r) /\ r.op \notin {"create", "import"}
    BY <2>1
  <2> HIDE DEF r
  <2> QED
    BY <1>2, <2>2
<1>6. CASE ReadToDelete(t)
  <2>1. PICK p : Begin(t, [op |-> "delete_project", at |-> "commit", p |-> p, children |-> Of(p)])
    BY <1>6 DEF ReadToDelete
  <2> DEFINE r == [op |-> "delete_project", at |-> "commit", p |-> p, children |-> Of(p)]
  <2>2. Begin(t, r) /\ r.op \notin {"create", "import"}
    BY <2>1
  <2> HIDE DEF r
  <2> QED
    BY <1>2, <2>2
<1>7. CASE Change(t) \/ Upload(t) \/ RemoveCluster(t)
  <2>1. Answer(t) /\ UNCHANGED <<execution, operator>>
    BY <1>7 DEF Change, WriteChange, Upload, RemoveCluster, Raises
  <2> QED
    BY <2>1, NothingWritten, RaisingAlone
<1>8. CASE DeleteProject(t)
  <2>1. Answer(t) /\ UNCHANGED operator
    BY <1>8 DEF DeleteProject, Raises
  <2>2. \/ UNCHANGED execution
        \/ execution' = [e \in Executions |-> IF e \in req[t].children THEN Gone ELSE execution[e]]
    BY <1>8 DEF DeleteProject, Raises
  <2>3. ExecutionsKept
    BY <2>1, <2>2 DEF ExecutionsKept, EInv
  <2> QED
    BY <2>1, <2>3, RaisingAlone
<1> QED
  BY <1>1, <1>3, <1>4, <1>5, <1>6, <1>7, <1>8 DEF ProjectStep

(* Steps about the operators, and those of a run.                          *)
LEMMA OperatorsStepKeeps ==
    ASSUME IInv, EInv, NEW t \in Threads, OperatorStep(t)
    PROVE  EInv'
<1> USE DEF Ghosts
<1>1. CASE CreateOperator(t)
  <2>1. UNCHANGED <<req, execution>> /\ operator' = [o \in Operators |-> operator'[o]]
    BY <1>1 DEF CreateOperator, AddOperator, EInv
  <2> QED
    BY <2>1 DEF EInv, Selects, Inserted, AtSuites, Rows, ExecutionHolds
<1>2. CASE ReadToDeleteOperator(t)
  <2>1. PICK o : Begin(t, [op |-> "delete_operator", at |-> "commit", o |-> o, children |-> By(o)])
    BY <1>2 DEF ReadToDeleteOperator
  <2> DEFINE r == [op |-> "delete_operator", at |-> "commit", o |-> o, children |-> By(o)]
  <2>2. Begin(t, r) /\ r.op \notin {"create", "import"}
    BY <2>1
  <2> HIDE DEF r
  <2> QED
    BY <2>2, NothingWritten, OthersAlone DEF Begin
<1>3. CASE DeleteOperator(t)
  <2>1. Answer(t)
    BY <1>3 DEF DeleteOperator, Raises
  <2>2. CASE Raises(t)
    BY <2>1, <2>2, NothingWritten, RaisingAlone DEF Raises
  <2>3. CASE ~Raises(t)
    <3>1. /\ req[t].children \subseteq Rows(execution)
          /\ operator' = [operator EXCEPT ![req[t].o] = Gone]
          /\ execution' = [e \in Executions |->
                              IF e \in req[t].children THEN [execution[e] EXCEPT !.operator = None]
                              ELSE execution[e]]
      BY <1>3, <2>3 DEF DeleteOperator
    <3>2. ASSUME NEW e \in Rows(execution)
          PROVE  /\ [execution[e] EXCEPT !.operator = None] \in ExecutionRow
                 /\ [execution[e] EXCEPT !.operator = None].suites = execution[e].suites
                 /\ [execution[e] EXCEPT !.operator = None].like = execution[e].like
                 /\ [execution[e] EXCEPT !.operator = None].answered = execution[e].answered
      <4>1. execution[e] \in ExecutionRow
        BY DEF EInv, Rows
      <4> QED
        BY <4>1 DEF ExecutionRow
    <3>3. operator' = [o \in Operators |-> operator'[o]]
      BY <3>1 DEF EInv
    <3>4. ExecutionsKept
      BY <3>1, <3>2, <3>3 DEF ExecutionsKept
    <3> QED
      BY <2>1, <3>4, RaisingAlone
  <2> QED
    BY <2>2, <2>3
<1> QED
  BY <1>1, <1>2, <1>3 DEF OperatorStep

(* A creation that has inserted nothing.                                   *)
LEMMA CreationSelects ==
    ASSUME NEW at, at # "suites", NEW p, NEW o, NEW selection \in TestSelection,
           IsDictionary(selection), NEW like,
           like # None => /\ like \in Seq(SuiteRow) /\ WellFormed(like)
                          /\ selection = SelectedTests(like)
    PROVE  LET r == Creation(at, p, o, selection, like)
           IN r.op = "create" /\ Selects(r) /\ ~AtSuites(r)
<1> DEFINE r == Creation(at, p, o, selection, like)
<1>1. /\ r.op = "create" /\ r.at = at /\ r.selection = selection /\ r.like = like
      /\ DOMAIN r = {"op", "at", "p", "o", "e", "config", "selection", "like"}
  BY DEF Creation
<1> HIDE DEF r
<1> QED
  BY <1>1 DEF Selects, AtSuites, r

(* Requests for an execution that begin.                                   *)
LEMMA BeginningKeeps ==
    ASSUME IInv, EInv, NEW t \in Threads,
           CreateExecution(t) \/ CreateCliExecution(t) \/ RepeatExecution(t) \/ ReadToImport(t)
    PROVE  EInv'
<1> USE DEF Begin
<1>1. ASSUME NEW r, Begin(t, r), Selects(r), ~AtSuites(r) PROVE EInv'
  BY <1>1, NothingWritten, ExecutionsAlone
<1>2. CASE CreateExecution(t)
  <2>1. PICK p \in Rows(project) \cup {None}, o \in Rows(operator) \cup {None}, s \in Selections :
           Begin(t, Creation(IF p = None THEN "find" ELSE "insert", p, o, s, None))
    BY <1>2 DEF CreateExecution
  <2> DEFINE at == IF p = None THEN "find" ELSE "insert"
             r == Creation(at, p, o, s, None)
  <2>2. at # "suites"
    OBVIOUS
  <2> HIDE DEF at
  <2>3. Selects(r) /\ ~AtSuites(r)
    BY <2>2, SelectionAssumption, CreationSelects
  <2> HIDE DEF r
  <2> QED
    BY <1>1, <2>1, <2>3 DEF r, at
<1>3. CASE CreateCliExecution(t)
  <2>1. PICK s \in Selections, config \in {Config("valid"), Config("invalid")} :
           Begin(t, [Creation("find_cli", None, None, s, None) EXCEPT !.config = config])
    BY <1>3 DEF CreateCliExecution
  <2> DEFINE r == [Creation("find_cli", None, None, s, None) EXCEPT !.config = config]
  <2>2. /\ r.op = "create" /\ r.at = "find_cli" /\ r.selection = s /\ r.like = None
        /\ DOMAIN r = {"op", "at", "p", "o", "e", "config", "selection", "like"}
    BY DEF Creation
  <2> HIDE DEF r
  <2>3. Selects(r) /\ ~AtSuites(r)
    BY <2>2, SelectionAssumption DEF Selects, AtSuites
  <2> QED
    BY <1>1, <2>1, <2>3 DEF r
<1>4. CASE RepeatExecution(t)
  <2>1. PICK e \in Rows(execution) :
           Begin(t, Creation("insert", execution[e].project, execution[e].operator,
                             SelectedTests(execution[e].suites),
                             IF execution[e].answered THEN execution[e].suites ELSE None))
    BY <1>4 DEF RepeatExecution
  <2>2. execution[e] \in ExecutionRow /\ ExecutionHolds(execution[e])
    BY DEF EInv, Rows
  <2>3. execution[e].suites \in Seq(SuiteRow) /\ WellFormed(execution[e].suites)
    BY <2>2 DEF ExecutionRow, ExecutionHolds
  <2> DEFINE selection == SelectedTests(execution[e].suites)
             like == IF execution[e].answered THEN execution[e].suites ELSE None
             r == Creation("insert", execution[e].project, execution[e].operator, selection, like)
  <2>4. selection \in TestSelection /\ IsDictionary(selection)
    BY <2>3, SelectedIsDictionary
  <2>5. like # None => like \in Seq(SuiteRow) /\ WellFormed(like) /\ selection = SelectedTests(like)
    BY <2>3
  <2>6. Selects(r) /\ ~AtSuites(r)
    <3> HIDE DEF selection, like
    <3> QED
      BY <2>4, <2>5, CreationSelects
  <2> HIDE DEF r
  <2> QED
    BY <1>1, <2>1, <2>6 DEF r
<1>5. CASE ReadToImport(t)
  <2>4. PICK p \in Rows(project), s \in {s \in Selections : Known(s)},
             named \in BOOLEAN, config \in {None} \cup Selections :
          \E o \in IF named /\ Rows(operator) # {} THEN Rows(operator) ELSE {None} :
             Begin(t, [op |-> "import", at |-> IF config = None THEN "insert" ELSE "config",
                       p |-> p, o |-> o, add |-> named /\ o = None, selection |-> s,
                       config |-> config])
    BY <1>5, Zenon DEF ReadToImport
  <2>1. PICK o :
             Begin(t, [op |-> "import", at |-> IF config = None THEN "insert" ELSE "config",
                       p |-> p, o |-> o, add |-> named /\ o = None, selection |-> s,
                       config |-> config])
    BY <2>4
  <2> DEFINE r == [op |-> "import", at |-> IF config = None THEN "insert" ELSE "config",
                  p |-> p, o |-> o, add |-> named /\ o = None, selection |-> s,
                  config |-> config]
  <2>2. /\ r.op = "import" /\ r.selection = s
        /\ {"at", "o", "add", "selection"} \subseteq DOMAIN r
    OBVIOUS
  <2> HIDE DEF r
  <2>3. Selects(r) /\ ~AtSuites(r)
    BY <2>2, SelectionAssumption DEF Selects, AtSuites
  <2> QED
    BY <1>1, <2>1, <2>3 DEF r
<1> QED
  BY <1>2, <1>3, <1>4, <1>5

(* Requests that look for the project of an execution, or make one.        *)
LEMMA FindingKeeps ==
    ASSUME IInv, EInv, NEW t \in Threads,
           FindFirstProject(t) \/ CreateFirstProject(t) \/ FindCliProject(t) \/ SetCliProject(t)
    PROVE  EInv'
<1> USE DEF At, Goto, Ghosts
<1>1. Selects(req[t]) /\ req[t].op = "create" /\ UNCHANGED <<execution, operator>>
  BY DEF EInv, FindFirstProject, CreateFirstProject, FindCliProject, SetCliProject, Raises
<1>2. /\ {"at", "o", "e", "selection", "like"} \subseteq DOMAIN req[t]
      /\ req[t].selection \in TestSelection /\ IsDictionary(req[t].selection)
      /\ req[t].like # None =>
            /\ req[t].like \in Seq(SuiteRow) /\ WellFormed(req[t].like)
            /\ req[t].selection = SelectedTests(req[t].like)
  BY <1>1 DEF Selects
<1>3. CASE Raises(t)
  BY <1>1, <1>3, NothingWritten, RaisingAlone DEF Raises
<1>4. CASE ~Raises(t)
  <2>1. PICK r : /\ req' = [req EXCEPT ![t] = r]
                 /\ r.op = "create" /\ r.at # "suites" /\ DOMAIN r = DOMAIN req[t]
                 /\ r.selection = req[t].selection /\ r.like = req[t].like
    <3>1. ASSUME NEW at, at # "suites", NEW p
          PROVE  LET r == [req[t] EXCEPT !.at = at, !.p = p]
                 IN /\ r.op = "create" /\ r.at # "suites" /\ DOMAIN r = DOMAIN req[t]
                    /\ r.selection = req[t].selection /\ r.like = req[t].like
      BY <1>1, <1>2, <3>1
    <3>2. ASSUME NEW at, at # "suites"
          PROVE  LET r == [req[t] EXCEPT !.at = at]
                 IN /\ r.op = "create" /\ r.at # "suites" /\ DOMAIN r = DOMAIN req[t]
                    /\ r.selection = req[t].selection /\ r.like = req[t].like
      BY <1>1, <1>2, <3>2
    <3>3. \/ \E at : at # "suites" /\ req' = [req EXCEPT ![t] = [req[t] EXCEPT !.at = at]]
          \/ \E at, p : at # "suites" /\ req' = [req EXCEPT ![t] = [req[t] EXCEPT !.at = at, !.p = p]]
      BY <1>4 DEF FindFirstProject, CreateFirstProject, FindCliProject, SetCliProject
    <3>4. CASE \E at : at # "suites" /\ req' = [req EXCEPT ![t] = [req[t] EXCEPT !.at = at]]
      <4>1. PICK at : at # "suites" /\ req' = [req EXCEPT ![t] = [req[t] EXCEPT !.at = at]]
        BY <3>4
      <4> QED
        BY <3>2, <4>1
    <3>5. CASE \E at, p : at # "suites" /\ req' = [req EXCEPT ![t] = [req[t] EXCEPT !.at = at, !.p = p]]
      <4>1. PICK at, p : /\ at # "suites"
                         /\ req' = [req EXCEPT ![t] = [req[t] EXCEPT !.at = at, !.p = p]]
        BY <3>5
      <4> DEFINE r == [req[t] EXCEPT !.at = at, !.p = p]
      <4>2. /\ r.op = "create" /\ r.at # "suites" /\ DOMAIN r = DOMAIN req[t]
            /\ r.selection = req[t].selection /\ r.like = req[t].like
        BY <3>1, <4>1
      <4>3. req' = [req EXCEPT ![t] = r]
        BY <4>1
      <4> HIDE DEF r
      <4> QED
        BY <4>2, <4>3
    <3> QED
      BY <3>3, <3>4, <3>5
  <2>2. Selects(r) /\ ~AtSuites(r)
    BY <1>2, <2>1 DEF Selects, AtSuites
  <2> QED
    BY <1>1, <2>1, <2>2, NothingWritten, ExecutionsAlone
<1> QED
  BY <1>3, <1>4

(* The invariant stays when a row is added, or gets its suites.            *)
LEMMA RowWritten ==
    ASSUME IInv, EInv, NEW t \in Threads, NEW r, req' = [req EXCEPT ![t] = r], Selects(r),
           NEW e \in Executions, NEW row \in ExecutionRow, ExecutionHolds(row),
           execution[e] = Free \/ (e \in Rows(execution) /\ row.like = execution[e].like),
           AtSuites(r) => r.e = e /\ row.like = r.like,
           execution' = [execution EXCEPT ![e] = row],
           operator' = [o \in Operators |-> operator'[o]]
    PROVE  EInv'
<1> USE RowAssumption, ExecutionAssumption
<1>1. /\ execution' \in [Executions -> ExecutionRow \cup {Free, Gone}]
      /\ execution'[e] = row /\ \A f \in Executions \ {e} : execution'[f] = execution[f]
      /\ row # Free /\ row # Gone
  BY DEF EInv
<1>2. ASSUME NEW f \in Rows(execution') PROVE ExecutionHolds(execution'[f])
  <2>1. f \in Executions
    BY <1>1 DEF Rows
  <2>2. CASE f # e
    <3>1. execution'[f] = execution[f] /\ f \in Rows(execution)
      BY <1>1, <2>1, <2>2 DEF Rows, EInv
    <3> QED
      BY <3>1 DEF EInv
  <2> QED
    BY <1>1, <2>2
<1>3. ASSUME NEW u \in Threads PROVE Selects(req'[u]) /\ Inserted(req[u])'
  <2>1. req'[u] = IF u = t THEN r ELSE req[u]
    BY DEF IInv, Types
  <2>2. CASE u = t
    BY <1>1, <2>1, <2>2 DEF Inserted
  <2>3. CASE u # t
    <3>1. Selects(req[u]) /\ Inserted(req[u]) /\ req'[u] = req[u]
      BY <2>1, <2>3 DEF EInv
    <3>2. CASE AtSuites(req[u])
      <4> DEFINE f == req[u].e
      <4>1. /\ f \in Executions /\ execution[f] # Free
            /\ f \in Rows(execution) => execution[f].like = req[u].like
        BY <3>1, <3>2 DEF Inserted
      <4> HIDE DEF f
      <4>2. CASE f = e
        <5>1. execution'[f] # Free /\ execution'[f].like = req[u].like
          BY <1>1, <4>1, <4>2
        <5> QED
          BY <3>1, <4>1, <5>1 DEF Inserted, f
      <4>3. CASE f # e
        <5>1. execution'[f] = execution[f] /\ (f \in Rows(execution') => f \in Rows(execution))
          BY <1>1, <4>1, <4>3 DEF Rows, EInv
        <5>2. execution'[f] # Free /\ (f \in Rows(execution') => execution'[f].like = req[u].like)
          BY <4>1, <5>1
        <5> QED
          BY <3>1, <4>1, <5>2 DEF Inserted, f
      <4> QED
        BY <4>2, <4>3
    <3> QED
      BY <3>1, <3>2 DEF Inserted
  <2> QED
    BY <2>2, <2>3
<1> QED
  BY <1>1, <1>2, <1>3 DEF EInv

(* An execution without suites is well formed.                             *)
LEMMA NoSuites == <<>> \in Seq(SuiteRow) /\ WellFormed(<<>>)
BY DEF WellFormed

(* Requests that insert an execution, without its suites.                  *)
LEMMA InsertionKeeps ==
    ASSUME IInv, EInv, NEW t \in Threads, InsertExecution(t)
    PROVE  EInv'
<1> USE DEF At, Goto, Ghosts
<1> DEFINE r == req[t]
           row == Execution(r.p, r.o, <<>>, r.like)
<1>1. r.op = "create" /\ Selects(r)
  BY DEF InsertExecution, EInv
<1>2. /\ {"at", "o", "e", "selection", "like"} \subseteq DOMAIN r
      /\ r.selection \in TestSelection /\ IsDictionary(r.selection)
      /\ r.like # None => /\ r.like \in Seq(SuiteRow) /\ WellFormed(r.like)
                          /\ r.selection = SelectedTests(r.like)
  BY <1>1 DEF Selects
<1>3. CASE Raises(t)
  BY <1>3, NothingWritten, RaisingAlone DEF Raises
<1>4. CASE ~Raises(t)
  <2>1. PICK e \in Executions :
           /\ execution[e] = Free /\ execution' = [execution EXCEPT ![e] = row]
           /\ req' = [req EXCEPT ![t] = [r EXCEPT !.at = "suites", !.e = e]]
           /\ UNCHANGED operator /\ Refers(row)
    BY <1>4 DEF InsertExecution
  <2> DEFINE new == [r EXCEPT !.at = "suites", !.e = e]
  <2>2. /\ new.op = "create" /\ new.e = e /\ new.selection = r.selection /\ new.like = r.like
        /\ DOMAIN new = DOMAIN r
    BY <1>1, <1>2
  <2> HIDE DEF new
  <2>3. Selects(new)
    BY <1>2, <2>2 DEF Selects
  <2>5. /\ row = [project |-> r.p, operator |-> r.o, suites |-> <<>>, archived |-> FALSE,
                  answered |-> FALSE, like |-> r.like]
        /\ row.project = r.p /\ row.operator = r.o /\ row.like = r.like
        /\ row.suites = <<>> /\ row.answered = FALSE
    BY DEF Execution
  <2> HIDE DEF row
  <2>4. r.p \in Projects /\ r.o \in Operators \cup {None}
    BY <2>1, <2>5 DEF Refers, Rows, IInv, Types, EInv
  <2>11. r.like \in Seq(SuiteRow) \cup {None}
    BY <1>2
  <2>6. row \in ExecutionRow
    BY <2>4, <2>5, <2>11, NoSuites DEF ExecutionRow
  <2>7. ExecutionHolds(row)
    BY <1>2, <2>5, NoSuites DEF ExecutionHolds
  <2>8. operator' = [o \in Operators |-> operator'[o]]
    BY <2>1 DEF EInv
  <2>9. req' = [req EXCEPT ![t] = new]
    BY <2>1 DEF new
  <2>10. AtSuites(new) => new.e = e /\ row.like = new.like
    BY <2>2, <2>5
  <2> QED
    BY <2>1, <2>3, <2>6, <2>7, <2>8, <2>9, <2>10, RowWritten
<1> QED
  BY <1>3, <1>4

(* A request that has ended has nothing to create.                         *)
LEMMA IdleSelects == Selects(Idle) /\ ~AtSuites(Idle)
<1>1. Idle.op = "idle"
  BY DEF Idle
<1> QED
  BY <1>1 DEF Selects, AtSuites

(* Requests that complete an execution: with the suites of what it repeats. *)
LEMMA CompletionKeeps ==
    ASSUME IInv, EInv, NEW t \in Threads, InsertSuites(t)
    PROVE  EInv'
<1> USE DEF At, Goto, Answer, Ghosts
<1> DEFINE r == req[t]
           e == r.e
           suites == SortSelected(PendingSuites(r.selection))
<1>1. AtSuites(r) /\ Selects(r) /\ Inserted(r)
  BY DEF InsertSuites, EInv, AtSuites
<1>2. /\ r.selection \in TestSelection /\ IsDictionary(r.selection)
      /\ r.like # None => /\ r.like \in Seq(SuiteRow) /\ WellFormed(r.like)
                          /\ r.selection = SelectedTests(r.like)
  BY <1>1 DEF Selects, AtSuites
<1>3. CASE Raises(t)
  BY <1>3, NothingWritten, RaisingAlone DEF Raises
<1>4. CASE ~Raises(t)
  <2>1. /\ Known(r.selection) /\ e \in Rows(execution)
        /\ execution' = [execution EXCEPT ![e].suites = suites, ![e].answered = TRUE]
        /\ req' = [req EXCEPT ![t] = Idle] /\ UNCHANGED operator
    BY <1>4 DEF InsertSuites
  <2>2. suites \in Seq(SuiteRow) /\ WellFormed(suites)
    BY <1>2, <2>1, PendingIsWellFormed, SortKeeps
  <2>3. r.like # None => SameTests(suites, r.like) /\ MandatoryFirst(suites)
    BY <1>2, <2>1, RepetitionKeeps
  <2> HIDE DEF suites
  <2>4. e \in Executions /\ execution[e] \in ExecutionRow /\ execution[e].like = r.like
        /\ ExecutionHolds(execution[e])
    BY <1>1, <2>1 DEF EInv, Rows, Inserted
  <2> DEFINE row == [execution[e] EXCEPT !.suites = suites, !.answered = TRUE]
  <2>5. row \in ExecutionRow /\ row.suites = suites /\ row.like = r.like
    BY <2>2, <2>4 DEF ExecutionRow
  <2>6. execution' = [execution EXCEPT ![e] = row]
    <3>1. execution = [f \in Executions |-> execution[f]]
      BY DEF EInv
    <3> QED
      BY <2>1, <2>4, <3>1
  <2> HIDE DEF row, e
  <2>7. ExecutionHolds(row)
    BY <1>2, <2>2, <2>3, <2>5 DEF ExecutionHolds
  <2>8. operator' = [o \in Operators |-> operator'[o]]
    BY <2>1 DEF EInv
  <2> QED
    BY <2>1, <2>4, <2>5, <2>6, <2>7, <2>8, IdleSelects, RowWritten
<1> QED
  BY <1>3, <1>4

(* An imported execution is answered to its client.                        *)
LEMMA ImportedIsAnswered ==
    ASSUME NEW p, NEW o, NEW suites, NEW base, NEW row,
           base = [project |-> p, operator |-> o, suites |-> suites, archived |-> FALSE,
                   answered |-> FALSE, like |-> None],
           row = [base EXCEPT !.answered = TRUE]
    PROVE  row = [project |-> p, operator |-> o, suites |-> suites, archived |-> FALSE,
                  answered |-> TRUE, like |-> None]
OBVIOUS

(* An imported execution is given its operator.                            *)
LEMMA ImportedHasOperator ==
    ASSUME NEW p, NEW o, NEW suites, NEW x, NEW row, NEW new,
           row = [project |-> p, operator |-> o, suites |-> suites, archived |-> FALSE,
                  answered |-> TRUE, like |-> None],
           new = [row EXCEPT !.operator = x]
    PROVE  new = [project |-> p, operator |-> x, suites |-> suites, archived |-> FALSE,
                  answered |-> TRUE, like |-> None]
OBVIOUS

(* Requests that import an execution.                                      *)
LEMMA ImportKeeps ==
    ASSUME IInv, EInv, NEW t \in Threads, ImportConfig(t) \/ ImportExecution(t)
    PROVE  EInv'
<1> USE DEF At, Goto, Answer, Ghosts
<1> DEFINE r == req[t]
<1>1. r.op = "import" /\ Selects(r)
  BY DEF ImportConfig, ImportExecution, EInv
<1>2. /\ {"at", "o", "add", "selection"} \subseteq DOMAIN r
      /\ r.selection \in TestSelection /\ IsDictionary(r.selection) /\ Known(r.selection)
  BY <1>1 DEF Selects
<1>3. CASE Raises(t)
  BY <1>3, NothingWritten, RaisingAlone DEF Raises
<1>4. ASSUME NEW add, NEW o, AddOperator(add, o) PROVE operator' = [x \in Operators |-> operator'[x]]
  BY <1>4 DEF AddOperator, EInv
<1>5. CASE ImportConfig(t) /\ ~Raises(t)
  <2>1. PICK o : /\ AddOperator(r.add, o) /\ UNCHANGED execution
                 /\ req' = [req EXCEPT ![t] = [r EXCEPT !.at = "insert", !.o = o, !.add = FALSE]]
    BY <1>5 DEF ImportConfig
  <2> DEFINE new == [r EXCEPT !.at = "insert", !.o = o, !.add = FALSE]
  <2>2. new.op = "import" /\ new.selection = r.selection /\ DOMAIN new = DOMAIN r
    BY <1>1, <1>2
  <2> HIDE DEF new
  <2>3. Selects(new) /\ ~AtSuites(new)
    BY <1>2, <2>2 DEF Selects, AtSuites
  <2>4. ExecutionsKept
    BY <1>4, <2>1 DEF ExecutionsKept, EInv
  <2>5. req' = [req EXCEPT ![t] = new]
    BY <2>1 DEF new
  <2> QED
    BY <2>3, <2>4, <2>5, ExecutionsAlone
<1>6. CASE ImportExecution(t) /\ ~Raises(t)
  <2> DEFINE suites == PendingSuites(r.selection)
             row == [Execution(r.p, r.o, suites, None) EXCEPT !.answered = TRUE]
  <2>1. suites \in Seq(SuiteRow) /\ WellFormed(suites)
    BY <1>2, PendingIsWellFormed
  <2>2. PICK e \in Executions, o \in IF r.add THEN Operators ELSE {r.o} :
           /\ execution[e] = Free /\ AddOperator(r.add, o)
           /\ execution' = [execution EXCEPT ![e] = [row EXCEPT !.operator = o]]
           /\ req' = [req EXCEPT ![t] = Idle] /\ Refers(row)
    BY <1>6 DEF ImportExecution
  <2> DEFINE new == [row EXCEPT !.operator = o]
  <2> HIDE DEF suites
  <2>3. Execution(r.p, r.o, suites, None) =
           [project |-> r.p, operator |-> r.o, suites |-> suites, archived |-> FALSE,
            answered |-> FALSE, like |-> None]
    BY DEF Execution
  <2>4. row = [project |-> r.p, operator |-> r.o, suites |-> suites, archived |-> FALSE,
                answered |-> TRUE, like |-> None]
    BY <2>3, ImportedIsAnswered
  <2>5. new = [row EXCEPT !.operator = o]
    OBVIOUS
  <2>6. execution' = [execution EXCEPT ![e] = new]
    BY <2>2
  <2> HIDE DEF row, new
  <2>7. new = [project |-> r.p, operator |-> o, suites |-> suites, archived |-> FALSE,
               answered |-> TRUE, like |-> None]
    BY <2>4, <2>5, ImportedHasOperator
  <2>8. row.project = r.p /\ row.operator = r.o
    BY <2>4
  <2>9. r.p \in Projects /\ o \in Operators \cup {None}
    BY <2>2, <2>8 DEF Refers, Rows, IInv, Types, EInv
  <2>10. new \in ExecutionRow /\ new.suites = suites /\ new.like = None
    BY <2>1, <2>7, <2>9 DEF ExecutionRow
  <2>11. ExecutionHolds(new)
    BY <2>1, <2>10 DEF ExecutionHolds
  <2>12. operator' = [x \in Operators |-> operator'[x]]
    BY <1>4, <2>2
  <2> QED
    BY <2>2, <2>10, <2>6, <2>11, <2>12, IdleSelects, RowWritten
<1> QED
  BY <1>3, <1>5, <1>6

(* Requests that archive or remove an execution.                           *)
LEMMA RemovalKeeps ==
    ASSUME IInv, EInv, NEW t \in Threads,
           ArchiveExecution(t) \/ CheckToRemove(t) \/ RemoveExecution(t)
    PROVE  EInv'
<1> USE DEF Ghosts
<1>1. CASE ArchiveExecution(t)
  <2>1. PICK e \in Rows(execution), archived \in BOOLEAN :
           /\ execution' = [execution EXCEPT ![e].archived = archived]
           /\ UNCHANGED <<req, operator>>
    BY <1>1 DEF ArchiveExecution
  <2>2. execution[e] \in ExecutionRow
    BY DEF EInv, Rows
  <2> DEFINE row == [execution[e] EXCEPT !.archived = archived]
  <2>3. /\ row \in ExecutionRow /\ row.suites = execution[e].suites
        /\ row.like = execution[e].like /\ row.answered = execution[e].answered
    BY <2>2 DEF ExecutionRow
  <2>4. execution' = [execution EXCEPT ![e] = row]
    <3>1. execution = [f \in Executions |-> execution[f]]
      BY DEF EInv
    <3> QED
      BY <2>1, <3>1
  <2> HIDE DEF row
  <2>5. ExecutionsKept
    BY <2>1, <2>3, <2>4 DEF ExecutionsKept, EInv
  <2>6. req' = [req EXCEPT ![t] = req[t]]
    BY <2>1 DEF IInv, Types
  <2>7. CASE ~AtSuites(req[t])
    BY <2>5, <2>6, <2>7, ExecutionsAlone DEF EInv
  <2>8. CASE AtSuites(req[t])
    <3>1. req[t] = Idle
      BY <1>1 DEF ArchiveExecution, Serve
    <3> QED
      BY <2>8, <3>1, IdleSelects
  <2> QED
    BY <2>7, <2>8
<1>2. CASE CheckToRemove(t)
  <2>1. PICK e : Begin(t, [op |-> "remove", at |-> "commit", e |-> e])
    BY <1>2 DEF CheckToRemove
  <2> DEFINE r == [op |-> "remove", at |-> "commit", e |-> e]
  <2>2. Begin(t, r) /\ r.op \notin {"create", "import"}
    BY <2>1
  <2> HIDE DEF r
  <2> QED
    BY <2>2, NothingWritten, OthersAlone DEF Begin
<1>3. CASE RemoveExecution(t)
  <2>1. Answer(t) /\ ExecutionsKept
    BY <1>3 DEF RemoveExecution, ExecutionsKept, EInv
  <2> QED
    BY <2>1, RaisingAlone
<1> QED
  BY <1>1, <1>2, <1>3

(* EInv holds of every run.                                                *)
LEMMA ExecutionsInvariant == Spec => []EInv
<1>1. Init => EInv
  <2> SUFFICES ASSUME Init PROVE EInv
    OBVIOUS
  <2>1. /\ execution = [e \in Executions |-> Free] /\ operator = [o \in Operators |-> Free]
        /\ \A t \in Threads : req[t] = Idle
    BY DEF Init
  <2>2. ASSUME NEW t \in Threads PROVE Selects(req[t]) /\ Inserted(req[t])
    BY <2>1, IdleSelects DEF Inserted
  <2> QED
    BY <2>1, <2>2 DEF EInv, Rows
<1>2. IInv /\ EInv /\ [Next]_vars => EInv'
  <2> SUFFICES ASSUME IInv, EInv, [Next]_vars PROVE EInv'
    OBVIOUS
  <2>1. ASSUME NEW t \in Threads, ProjectStep(t) \/ ExecutionStep(t) \/ OperatorStep(t)
        PROVE  EInv'
    <3>1. CASE ExecutionStep(t)
      BY <3>1, BeginningKeeps, FindingKeeps, InsertionKeeps, CompletionKeeps, ImportKeeps,
         RemovalKeeps DEF ExecutionStep
    <3> QED
      BY <2>1, <3>1, ProjectsStepKeeps, OperatorsStepKeeps
  <2>2. CASE RunStarts \/ RunEnds \/ UNCHANGED vars
    <3>1. UNCHANGED <<req, execution, operator>>
      BY <2>2 DEF RunStarts, RunEnds, vars
    <3> QED
      BY <3>1 DEF EInv, Selects, Inserted, AtSuites, Rows, ExecutionHolds
  <2> QED
    BY <2>1, <2>2 DEF Next
<1> QED
  BY <1>1, <1>2, RecordsInvariant, PTL DEF Spec

-----------------------------------------------------------------------------
(* However requests overlap, an answered upload is undone only by the      *)
(* removal or replacement of its cluster, or by the removal of another one *)
(* that overlapped it.                                                     *)
THEOREM UploadsStay == Spec => []UploadsLostOnlyToRemovals
BY RecordsInvariant, PTL DEF IInv

(* However requests overlap, a configuration that is not valid is that of  *)
(* the project made without one.                                           *)
THEOREM ClientsConfigsAreValid == Spec => []InvalidConfigIsAutomatic
BY RecordsInvariant, PTL DEF IInv

(* Repeating an execution that was answered selects each of its cases as   *)
(* often as it has them, whatever the selections and the catalogue, and    *)
(* however the requests overlap: selected_tests_from_execution undoes the  *)
(* creation of the pending rows.                                           *)
THEOREM RepetitionsKeepTheirTests == Spec => []RepeatKeepsTests
<1>1. EInv => RepeatKeepsTests
  BY DEF EInv, ExecutionHolds, RepeatKeepsTests
<1> QED
  BY <1>1, ExecutionsInvariant, PTL
=============================================================================
