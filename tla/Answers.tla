------------------------------ MODULE Answers -------------------------------
(***************************************************************************)
(* What the backend computes from data, as a system.  It is asked for      *)
(* something once, with an input, works on that one element after another  *)
(* and answers.  The properties relate each answer to its input.           *)
(***************************************************************************)
EXTENDS Integers, Sequences, FiniteSets

CONSTANTS
    PythonScripts,   \* what may be declared: sets of python scripts
    YamlFiles,       \* and of YAML files, see Discovery
    Tests, Mandatory, Performance, PlatformTests, PlatCert, Derived, Failure,
    Missing,         \* see Applicability
    PicsFiles,       \* files that may be uploaded
    Projects,        \* the files uploaded and the tests skipped: [uploads, skipped]
    Runs,            \* [rows, log], see RunLog
    Commissionings,  \* [complete, broken, verdict], see PerformanceReport
    Suites,          \* suites that commission a device, see Commissioning
    Sessions         \* suites one after another

D == INSTANCE Discovery
A == INSTANCE Applicability
L == INSTANCE RunLog
P == INSTANCE PerformanceReport
C == INSTANCE Commissioning

VARIABLES
    asked,     \* what it was asked for
    input,
    done,      \* how many elements of the input it has worked on
    answered,
    output     \* what it has made of them, or the answer

vars == <<asked, input, done, answered, output>>

Init == asked = "nothing" /\ input = <<>> /\ done = 0 /\ answered = FALSE /\ output = <<>>

Ask(what, given, empty) ==
    /\ asked = "nothing"
    /\ asked' = what
    /\ input' = given
    /\ output' = empty
    /\ UNCHANGED <<done, answered>>

WorkOn(what, elements) == asked = what /\ ~answered /\ done < Len(elements)

Become(result) ==
    /\ output' = result
    /\ done' = done + 1
    /\ UNCHANGED <<asked, input, answered>>

Answer(what, elements, answer) ==
    /\ asked = what /\ ~answered
    /\ done = Len(elements)
    /\ output' = answer
    /\ answered' = TRUE
    /\ UNCHANGED <<asked, input, done>>

-----------------------------------------------------------------------------
(* The collections declared for python scripts and for YAML files.         *)

TestsOf(scripts) == UNION {class.tests : class \in UNION scripts}

\* No two tests have a name, and no two files an id.
ASSUME PythonAssumption ==
    \A scripts \in PythonScripts :
        /\ \A t \in TestsOf(scripts) : t.mandatory \in BOOLEAN
        /\ \A t, u \in TestsOf(scripts) : t.name = u.name => t = u

ASSUME YamlAssumption ==
    \A files \in YamlFiles : \A f, g \in files : f.id = g.id => f = g

DeclarePython == \E scripts \in PythonScripts : Ask("python", scripts, D!PythonCollections(scripts, {}))

DeclareYaml == \E files \in YamlFiles : Ask("YAML", files, D!YamlSuites(files))

\* The suites with the case id.
SuitesWith(suites, id) == {s \in DOMAIN suites : id \in suites[s]}

\* One of the classes with the test is a test of the SDK and answers.
AskedFor(scripts, test) ==
    \E class \in UNION scripts : class.matter /\ class.answers /\ test \in class.tests

\* Every test of the SDK is a case once, though a script is read for two
\* collections and each has its own filter: of the python tests those with
\* a usable name of scripts that answer, the mandatory ones only in the
\* mandatory collection; of the YAML files those that can be parsed, the
\* manual ones with a step for the operator for each of theirs
\* (__parse_python_tests, _parse_all_yaml, _test_type).
EachTestDeclaredOnce ==
    /\ asked = "python" => \A t \in TestsOf(input) :
         /\ Cardinality(SuitesWith(output["mandatory"], t.name))
              + Cardinality(SuitesWith(output["sdk"], t.name))
              = IF t.prefixed /\ AskedFor(input, t) THEN 1 ELSE 0
         /\ SuitesWith(output["mandatory"], t.name) # {} => t.mandatory
    /\ asked = "YAML" => \A f \in input :
         /\ Cardinality(SuitesWith(output, f.id)) = IF f.valid THEN 1 ELSE 0
         /\ D!YamlSuiteOf(f) = "MANUAL" =>
              D!CreateTestSteps(f) = [i \in DOMAIN f.steps |-> "manual"]

-----------------------------------------------------------------------------
(* The cases that apply to a project, after the uploads of its PICS files. *)

ASSUME ApplicabilityAssumption ==
    /\ \A t \in Tests : t.title \in [id : STRING, semi : BOOLEAN, partial : BOOLEAN]
    /\ \A project \in Projects : project.uploads \in Seq(PicsFiles)

AskApplicable == \E project \in Projects : Ask("applicable", project, A!NoClusters)

Upload ==
    /\ WorkOn("applicable", input.uploads)
    /\ Become(A!AddCluster(output, input.uploads[done + 1]))

AnswerApplicable == Answer("applicable", input.uploads, A!Applicable(output, input.skipped))

\* What the last readable of the first n files of each cluster says is supported.
Supported(uploads, n) ==
    LET Read == {i \in 1..n : A!Readable(uploads[i])}
        Latest == {i \in Read : \A j \in Read : uploads[j].name = uploads[i].name => j <= i}
    IN UNION {A!EnabledItems(A!Items(uploads[i])) : i \in Latest}

\* A case the operator is told to run is one whose PICS the latest readable
\* file of each cluster supports, and never a performance test; one to be
\* skipped for a platform is told of under none of the names the YAML parser
\* can give it but that with both suffixes, whose base is not recognised
\* (applicable_test_cases_set with PICSParser.parse, upload_pics and the
\* title of a YAML test).
SkippedAreNotApplicable ==
    asked = "applicable" /\ answered /\ Failure \notin output =>
        LET enabled == Supported(input.uploads, Len(input.uploads))
        IN \A title \in output :
             /\ \E t \in Tests :
                   /\ t.title.id = title.id /\ t.collection # Performance
                   /\ PlatCert \notin enabled => t.title = title
                   /\ t.pics \subseteq enabled /\ t.negated \cap enabled = {}
             /\ (Derived \in enabled /\ title.id \in input.skipped) => title.semi /\ title.partial

-----------------------------------------------------------------------------
(* The log of a run.  An entry is known by its place in the log.           *)

ASSUME RunsAssumption ==
    \A run \in Runs :
        /\ run.rows \in Seq([id : STRING, cases : Seq([id : STRING, state : STRING])])
        /\ run.log \in Seq([suite : Nat, case : Nat, text : Nat])
        /\ \A i \in DOMAIN run.log :
              LET entry == run.log[i]
              IN /\ entry.text = i
                 /\ entry.suite # 0 => entry.suite \in DOMAIN run.rows
                 /\ entry.case # 0 => entry.suite # 0 /\ entry.case \in DOMAIN run.rows[entry.suite].cases

AskArchive == \E run \in Runs : Ask("archive", run, L!NoGroups)

GroupEntry ==
    /\ WorkOn("archive", input.log)
    /\ Become(L!AddEntry(input.rows, output, input.log[done + 1]))

AnswerArchive == Answer("archive", input.log, L!Archive(output))

Texts(file) == UNION {{file[g][i].text : i \in DOMAIN file[g]} : g \in DOMAIN file}

\* No entry is in two groups, nor in one twice.
OnceInOrder(file) ==
    /\ \A g, h \in DOMAIN file : \A i \in DOMAIN file[g], j \in DOMAIN file[h] :
          file[g][i].text = file[h][j].text => g = h
    /\ \A g \in DOMAIN file : \A i, j \in DOMAIN file[g] : i < j => file[g][i].text < file[g][j].text

\* Nothing of a log is lost and nothing is told twice: an entry of a case is
\* in the file of the state its case ended in and in no other, also when its
\* iterations ended differently; that of a suite is in the suites' file, one
\* of neither in all files; each file has every entry once and keeps the
\* order of the log in each section, and the summary lists the cases of each
\* file (group_test_run_execution_logs and create_grouped_log_zip_file).
EveryEntryIsInItsFile ==
    asked = "archive" /\ answered =>
        LET log == input.log
            OfCases == {i \in DOMAIN log : log[i].case # 0}
            CaseOf(i) == input.rows[log[i].suite].cases[log[i].case]
            General == {i \in DOMAIN log : log[i].suite = 0}
            Mine(state) == {i \in OfCases : CaseOf(i).state = state}
        IN /\ Texts(output.suites) = DOMAIN log \ OfCases
           /\ OnceInOrder(output.suites)
           /\ DOMAIN output.cases = {CaseOf(i).state : i \in OfCases}
           /\ \A s \in DOMAIN output.cases :
                /\ Texts(output.cases[s]) = General \cup Mine(s)
                /\ OnceInOrder(output.cases[s])
                /\ output.summary[s].ids = {CaseOf(i).id : i \in Mine(s)}

-----------------------------------------------------------------------------
(* The report of a performance test: some commissionings that end, and one *)
(* more that may break off, after which the case completes.                *)

Report ==
    [result : {"PASS", "FAIL"}, iterations : Nat, passed : Nat, failed : Nat,
     records : Seq([status : {"PASS", "FAIL", "ERROR", "CANCELLED"}, duration : Int,
                    stages : [{"discovery", "PASE", "read"} -> Int]])]

ASSUME ReportAssumption ==
    /\ Commissionings \subseteq [complete : Nat \ {0}, broken : 0..10, verdict : P!Verdicts]
    /\ Failure \notin Report

AskReport ==
    \E c \in Commissionings :
        Ask("report",
            [complete |-> c.complete, verdict |-> c.verdict,
             log |-> Append(P!ScriptLog(c.complete, c.broken), c.verdict)],
            P!NothingParsed)

ReadLine ==
    /\ WorkOn("report", input.log)
    /\ Become(P!ParseLine(output, input.log[done + 1], done + 1))

AnswerReport == Answer("report", input.log, P!CreateSummaryReport(output))

\* As soon as one commissioning ended there is a report, which counts those
\* that ended and nothing twice, passes exactly when the case did, and has
\* times that fit in those of the commissioning (create_summary_report and
\* generate_summary on the log of TC_COMMISSIONING_1_0).
ReportAddsUp ==
    asked = "report" /\ answered =>
        /\ output # Failure
        /\ output.iterations = input.complete
        /\ output.passed + output.failed = input.complete
        /\ output.result = "PASS" <=> input.verdict = "PASSED"
        /\ \A i \in 1..input.complete :
             LET r == output.records[i]
             IN /\ r.status = "PASS" <=> input.verdict = "PASSED"
                /\ \A s \in DOMAIN r.stages : r.stages[s] > 0
                /\ r.stages["discovery"] + r.stages["PASE"] + r.stages["read"] < r.duration

-----------------------------------------------------------------------------
(* Commissioning: the suites of a session, one after another.              *)

Modes == {"onnetwork", "ble-wifi", "ble-thread", "nfc-thread", "wifipaf-wifi"}

\* A test parameter does not repeat an argument that is not given as one.
ASSUME SessionsAssumption ==
    /\ Sessions \subseteq Seq(Suites)
    /\ \A s \in Suites :
          /\ s.config.mode \in Modes
          /\ s.copy \in {"whole", "cut off", "nothing"} /\ s.reuse \in {"PASS", "FAIL", "TIMEOUT"}
          /\ s.config.parameters \cap {"discriminator", "passcode", "storage-path", "commissioning-method"} = {}

AskCommissioning == \E session \in Sessions : Ask("commissioning", session, <<>>)

SetUp ==
    /\ WorkOn("commissioning", input)
    /\ Become(Append(output, C!CommissioningSuiteSetup(C!HostAfter(output), input[done + 1], done + 1)))

\* The suite whose storage the file on the host is of when the i-th begins:
\* the last that commissioned and whose copy touched the file.
Stored(suites, results, i) ==
    {k \in 1..(i - 1) :
        /\ results[k].ends = "commissioned" /\ suites[k].copy # "nothing"
        /\ \A l \in (k + 1)..(i - 1) :
              results[l].ends = "commissioned" => suites[l].copy = "nothing"}

\* An accepted configuration is enough for either kind of suite to
\* commission a device that is there, and names it in one way; but a python
\* test is told no credentials for a network over WiFi PAF.  The storage of
\* a commissioning is where the tests look for it, under the path of their
\* own configuration, though another suite commissioned under another; only
\* a copy that failed, of which nobody hears, lets them start without any,
\* or with that of an earlier commissioning (validate_model,
\* generate_command_arguments, __pair_with_dut, commission_device,
\* should_perform_new_commissioning and the copies of ContainerManager).
CommissionedAsConfigured ==
    asked = "commissioning" => \A i \in 1..done :
        LET s == input[i]
            mode == s.config.mode
            o == output[i]
            command == C!PairWithDut(s.config)
            Credentials == {command[k] : k \in DOMAIN command}
        IN /\ (C!Accepted(s.config) /\ s.there /\ s.ready = "PASS" /\ s.reuse # "TIMEOUT") =>
                o.ends # "raised" \/ mode = "wifipaf-wifi"
           /\ {"setup code", "discriminator"} \subseteq Credentials
           /\ mode \in {"ble-wifi", "wifipaf-wifi"} => {"ssid", "password"} \subseteq Credentials
           /\ mode \in {"ble-thread", "nfc-thread"} =>
                (IF s.config.auto THEN "active dataset" ELSE "external dataset") \in Credentials
           /\ o.ends = "commissioned" => o.storage = C!At(s.config.storage, i)
           /\ o.ends = "reused" => \E k \in Stored(input, output, i) :
                o.storage = IF input[k].copy = "whole" /\ s.copied THEN C!At(s.config.storage, k)
                            ELSE C!Nowhere

-----------------------------------------------------------------------------
Next ==
    \/ DeclarePython \/ DeclareYaml
    \/ AskApplicable \/ Upload \/ AnswerApplicable
    \/ AskArchive \/ GroupEntry \/ AnswerArchive
    \/ AskReport \/ ReadLine \/ AnswerReport
    \/ AskCommissioning \/ SetUp

Spec == Init /\ [][Next]_vars
=============================================================================
