----------------------------- MODULE Discovery ------------------------------
(***************************************************************************)
(* The test collections the server declares when it starts: from the YAML  *)
(* files and the python scripts of the Matter SDK to suites of cases.      *)
(*                                                                         *)
(* A YAML file is a record [id, simulated, valid, steps], its steps a      *)
(* sequence of [disabled, prompt].  A python script is a set of classes    *)
(* [matter, answers, tests]: whether it is a MatterBaseTest, whether       *)
(* asking it for its tests succeeds, and the set of those, records [name,  *)
(* prefixed, mandatory, steps] whose steps are records [whole,             *)
(* commissioning]: "Run entire test", and the flag of the step.            *)
(*                                                                         *)
(* A suite is the set of ids of its cases, since a case replaces one of    *)
(* the same id (sort_test_cases puts them in order, which is left out):    *)
(* the order of files, classes and tests does not matter.                  *)
(***************************************************************************)
EXTENDS Naturals, Sequences, SequencesExt

----------------------------------------------------------------------------
(* YAML files.                                                             *)

TestType(file) ==
    CASE file.simulated -> "SIMULATED"
      [] ~file.simulated /\ \A s \in ToSet(file.steps) : s.disabled -> "MANUAL"
      [] ~file.simulated /\ \E s \in ToSet(file.steps) : ~s.disabled ->
            IF \E s \in ToSet(file.steps) : s.prompt THEN "SEMI_AUTOMATED" ELSE "AUTOMATED"

EnabledSteps(file) == SelectSeq(file.steps, LAMBDA s : ~s.disabled)

StepsDisabled(file) == Len(EnabledSteps(file)) \in 1..(Len(file.steps) - 1)

Title(file) ==
    [id |-> file.id, semi |-> TestType(file) = "SEMI_AUTOMATED", partial |-> StepsDisabled(file)]

\* A manual case shows all its steps to the operator; the others have a step
\* to start their test and those that are not disabled.
CreateTestSteps(file) ==
    IF TestType(file) = "MANUAL" THEN [i \in DOMAIN file.steps |-> "manual"]
    ELSE <<"start">> \o [i \in DOMAIN EnabledSteps(file) |->
                           IF EnabledSteps(file)[i].prompt THEN "manual" ELSE "automated"]

YamlSuiteOf(file) ==
    LET type == TestType(file)
    IN IF type \in {"MANUAL", "SIMULATED"} THEN type ELSE "AUTOMATED"

\* A file that cannot be parsed is left out, a suite without cases too.
YamlSuites(files) ==
    LET Cases(suite) == {f.id : f \in {g \in files : g.valid /\ YamlSuiteOf(g) = suite}}
    IN [s \in {t \in {"MANUAL", "AUTOMATED", "SIMULATED"} : Cases(t) # {}} |-> Cases(s)]

----------------------------------------------------------------------------
(* Python scripts.  Their tests are asked for in a container, one command  *)
(* for each class, and the answers are joined in a file.                   *)

CommandList(scripts) == {class \in UNION scripts : class.matter}

\* A command that fails is reported, and its tests are left out.
TestsInfo(scripts) ==
    UNION {class.tests : class \in {asked \in CommandList(scripts) : asked.answers}}

PythonType(test) ==
    IF test.mandatory THEN "MANDATORY"
    ELSE IF Len(test.steps) = 1 /\ test.steps[1].whole THEN "LEGACY"
    ELSE IF Len(test.steps) > 0 /\ test.steps[1].commissioning THEN "COMMISSIONING"
    ELSE "NO_COMMISSIONING"

\* A function whose name does not begin with test_TC_ is no test.
ParsePythonScript(info) == {test \in info : test.prefixed}

\* Mutant: the mandatory tests are declared in both collections.
PythonSuiteTypesAll(mandatory) ==
    {"MANDATORY"} \cup IF mandatory THEN {} ELSE {"COMMISSIONING", "NO_COMMISSIONING", "LEGACY"}

PythonSuiteTypes(mandatory) ==
    IF mandatory THEN {"MANDATORY"} ELSE {"COMMISSIONING", "NO_COMMISSIONING", "LEGACY"}

ParsePythonTests(info, mandatory) ==
    LET Cases(suite) == {t.name : t \in {u \in ParsePythonScript(info) : PythonType(u) = suite}}
    IN [s \in {t \in PythonSuiteTypes(mandatory) : Cases(t) # {}} |-> Cases(s)]

\* SDK tests have a collection of their own for the mandatory ones.  Custom
\* scripts have not, and no collection at all when no suite is left.
PythonCollections(sdk, custom) ==
    LET suites == ParsePythonTests(TestsInfo(custom), FALSE)
        CollectionOf(name) ==
            CASE name = "mandatory" -> ParsePythonTests(TestsInfo(sdk), TRUE)
              [] name = "sdk" -> ParsePythonTests(TestsInfo(sdk), FALSE)
              [] name = "custom" -> suites
    IN [c \in {"mandatory", "sdk"} \cup (IF DOMAIN suites = {} THEN {} ELSE {"custom"}) |->
          CollectionOf(c)]
=============================================================================
