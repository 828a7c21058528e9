---------------------------- MODULE AnswersProofs ----------------------------
(***************************************************************************)
(* Theorems about Answers, for every set of inputs that its assumptions    *)
(* allow, whatever their size.                                             *)
(***************************************************************************)
EXTENDS Answers, FiniteSetTheorems, SequenceTheorems, TLAPS

(* What was asked for once stays what is answered.                         *)
LEMMA OnceAsked ==
    ASSUME [Next]_vars, asked # "nothing"
    PROVE  asked' = asked /\ input' = input
BY DEF Next, vars, DeclarePython, DeclareYaml, AskApplicable, Upload, AnswerApplicable, AskArchive,
       GroupEntry, AnswerArchive, AskReport, ReadLine, AnswerReport, AskCommissioning, SetUp,
       Ask, WorkOn, Become, Answer

\* Nothing is done before something is asked for.
NothingDone == asked = "nothing" => done = 0 /\ ~answered

(* NothingDone holds of every run.                                         *)
LEMMA NothingIsDone == Spec => []NothingDone
<1>1. Init => NothingDone
  BY DEF Init, NothingDone
<1>2. NothingDone /\ [Next]_vars => NothingDone'
  BY DEF Next, vars, DeclarePython, DeclareYaml, AskApplicable, Upload, AnswerApplicable, AskArchive,
       GroupEntry, AnswerArchive, AskReport, ReadLine, AnswerReport, AskCommissioning, SetUp,
       Ask, WorkOn, Become, Answer, NothingDone
<1> QED
  BY <1>1, <1>2, PTL DEF Spec

-----------------------------------------------------------------------------
(***************************************************************************)
(* The collections.                                                        *)
(***************************************************************************)
Declared ==
    /\ asked = "python" => input \in PythonScripts /\ output = D!PythonCollections(input, {})
    /\ asked = "YAML" => input \in YamlFiles /\ output = D!YamlSuites(input)

(* Declared holds of every run.                                            *)
LEMMA DeclaredStays == Spec => []Declared
<1>1. Init => Declared
  BY DEF Init, Declared
<1>2. Declared /\ [Next]_vars => Declared'
  <2> SUFFICES ASSUME Declared, [Next]_vars PROVE Declared'
    OBVIOUS
  <2>1. CASE asked \in {"python", "YAML"}
    <3>1. asked' = asked /\ input' = input
      BY <2>1, OnceAsked
    <3>2. output' = output
      BY <2>1 DEF Next, vars, DeclarePython, DeclareYaml, AskApplicable, Upload, AnswerApplicable,
            AskArchive, GroupEntry, AnswerArchive, AskReport, ReadLine, AnswerReport,
            AskCommissioning, SetUp, Ask, WorkOn, Become, Answer
    <3> QED
      BY <3>1, <3>2 DEF Declared
  <2>2. CASE DeclarePython
    BY <2>2 DEF DeclarePython, Ask, Declared
  <2>3. CASE DeclareYaml
    BY <2>3 DEF DeclareYaml, Ask, Declared
  <2>4. CASE asked \notin {"python", "YAML"} /\ ~DeclarePython /\ ~DeclareYaml
    <3>1. asked' \notin {"python", "YAML"}
      BY <2>4 DEF Next, vars, AskApplicable, Upload, AnswerApplicable,
            AskArchive, GroupEntry, AnswerArchive, AskReport, ReadLine, AnswerReport,
            AskCommissioning, SetUp, Ask, WorkOn, Become, Answer
    <3> QED
      BY <3>1 DEF Declared
  <2> QED
    BY <2>1, <2>2, <2>3, <2>4
<1> QED
  BY <1>1, <1>2, PTL DEF Spec

(* A test is in the suite of its type, if that is a suite of the           *)
(* collection, and in no other.                                            *)
LEMMA PythonSuite ==
    ASSUME NEW scripts \in PythonScripts, NEW t \in TestsOf(scripts), NEW mandatory \in BOOLEAN
    PROVE  SuitesWith(D!ParsePythonTests(D!TestsInfo(scripts), mandatory), t.name)
             = {s \in D!PythonSuiteTypes(mandatory) :
                  t.prefixed /\ AskedFor(scripts, t) /\ D!PythonType(t) = s}
<1> DEFINE info == D!TestsInfo(scripts)
           Cases(s) == {u.name : u \in {v \in D!ParsePythonScript(info) : D!PythonType(v) = s}}
<1>1. info \subseteq TestsOf(scripts)
  BY DEF D!TestsInfo, D!CommandList, TestsOf
<1>2. t \in info <=> AskedFor(scripts, t)
  BY DEF D!TestsInfo, D!CommandList, AskedFor
<1>3. ASSUME NEW s PROVE t.name \in Cases(s) <=> t.prefixed /\ t \in info /\ D!PythonType(t) = s
  <2>1. \A u \in info : u.name = t.name => u = t
    BY <1>1, PythonAssumption
  <2> HIDE DEF info
  <2> QED
    BY <2>1 DEF D!ParsePythonScript
<1>4. D!ParsePythonTests(info, mandatory)
        = [s \in {r \in D!PythonSuiteTypes(mandatory) : Cases(r) # {}} |-> Cases(s)]
  BY DEF D!ParsePythonTests
<1> HIDE DEF info, Cases
<1>5. SuitesWith(D!ParsePythonTests(info, mandatory), t.name)
        = {s \in D!PythonSuiteTypes(mandatory) : t.name \in Cases(s)}
  BY <1>4 DEF SuitesWith
<1> QED
  BY <1>2, <1>3, <1>5 DEF info

(* The four types of python tests.                                         *)
LEMMA PythonTypes ==
    ASSUME NEW t, t.mandatory \in BOOLEAN
    PROVE  /\ t.mandatory => D!PythonType(t) = "MANDATORY"
           /\ ~t.mandatory => D!PythonType(t) \in {"COMMISSIONING", "NO_COMMISSIONING", "LEGACY"}
BY DEF D!PythonType

(* The collections of the SDK.                                             *)
LEMMA SdkCollections ==
    ASSUME NEW scripts
    PROVE  LET collections == D!PythonCollections(scripts, {})
           IN /\ collections["mandatory"] = D!ParsePythonTests(D!TestsInfo(scripts), TRUE)
              /\ collections["sdk"] = D!ParsePythonTests(D!TestsInfo(scripts), FALSE)
BY DEF D!PythonCollections

(* A file is in the suite of its type and in no other.                     *)
LEMMA YamlSuite ==
    ASSUME NEW files \in YamlFiles, NEW f \in files
    PROVE  SuitesWith(D!YamlSuites(files), f.id) = IF f.valid THEN {D!YamlSuiteOf(f)} ELSE {}
<1> DEFINE Cases(s) == {h.id : h \in {g \in files : g.valid /\ D!YamlSuiteOf(g) = s}}
<1>1. ASSUME NEW s PROVE f.id \in Cases(s) <=> f.valid /\ D!YamlSuiteOf(f) = s
  <2>1. \A g \in files : g.id = f.id => g = f
    BY YamlAssumption
  <2> QED
    BY <2>1
<1>2. D!YamlSuites(files)
        = [s \in {r \in {"MANUAL", "AUTOMATED", "SIMULATED"} : Cases(r) # {}} |-> Cases(s)]
  BY DEF D!YamlSuites
<1>3. D!YamlSuiteOf(f) \in {"MANUAL", "AUTOMATED", "SIMULATED"}
  BY DEF D!YamlSuiteOf
<1> HIDE DEF Cases
<1>4. SuitesWith(D!YamlSuites(files), f.id)
        = {s \in {"MANUAL", "AUTOMATED", "SIMULATED"} : f.id \in Cases(s)}
  BY <1>2 DEF SuitesWith
<1> QED
  BY <1>1, <1>3, <1>4

(* Every test of the SDK is a case of one suite, however many scripts,     *)
(* classes and files there are, if it has a usable name and its script     *)
(* answers or its file can be parsed.                                      *)
THEOREM DeclaredOnce == Spec => []EachTestDeclaredOnce
<1>1. ASSUME Declared, asked = "python", NEW t \in TestsOf(input)
      PROVE  /\ Cardinality(SuitesWith(output["mandatory"], t.name))
                  + Cardinality(SuitesWith(output["sdk"], t.name))
                  = IF t.prefixed /\ AskedFor(input, t) THEN 1 ELSE 0
             /\ SuitesWith(output["mandatory"], t.name) # {} => t.mandatory
  <2>1. input \in PythonScripts /\ output = D!PythonCollections(input, {})
    BY <1>1 DEF Declared
  <2>2. t.mandatory \in BOOLEAN
    BY <1>1, <2>1, PythonAssumption
  <2> DEFINE usable == t.prefixed /\ AskedFor(input, t)
             first == {s \in D!PythonSuiteTypes(TRUE) : usable /\ D!PythonType(t) = s}
             second == {s \in D!PythonSuiteTypes(FALSE) : usable /\ D!PythonType(t) = s}
  <2>3. SuitesWith(output["mandatory"], t.name) = first /\ SuitesWith(output["sdk"], t.name) = second
    BY <1>1, <2>1, PythonSuite, SdkCollections
  <2>a. D!PythonSuiteTypes(TRUE) = {"MANDATORY"}
        /\ D!PythonSuiteTypes(FALSE) = {"COMMISSIONING", "NO_COMMISSIONING", "LEGACY"}
    BY DEF D!PythonSuiteTypes
  <2>b. /\ t.mandatory => D!PythonType(t) = "MANDATORY"
        /\ ~t.mandatory => D!PythonType(t) \in {"COMMISSIONING", "NO_COMMISSIONING", "LEGACY"}
    BY <2>2, PythonTypes
  <2> HIDE DEF usable
  <2>4. Cardinality(first) + Cardinality(second) = IF usable THEN 1 ELSE 0
    <3>1. CASE ~usable
      <4>1. first = {} /\ second = {}
        BY <3>1
      <4> HIDE DEF first, second
      <4>2. Cardinality(first) = 0 /\ Cardinality(second) = 0
        BY <4>1, FS_EmptySet
      <4> QED
        BY <3>1, <4>2
    <3>2. CASE usable /\ t.mandatory
      <4>1. first = {"MANDATORY"} /\ second = {}
        BY <2>a, <2>b, <3>2
      <4> HIDE DEF first, second
      <4>2. Cardinality(first) = 1 /\ Cardinality(second) = 0
        BY <4>1, FS_EmptySet, FS_Singleton
      <4> QED
        BY <3>2, <4>2
    <3>3. CASE usable /\ ~t.mandatory
      <4>1. first = {} /\ second = {D!PythonType(t)}
        BY <2>a, <2>b, <3>3
      <4> HIDE DEF first, second
      <4>2. Cardinality(first) = 0 /\ Cardinality(second) = 1
        BY <4>1, FS_EmptySet, FS_Singleton
      <4> QED
        BY <3>3, <4>2
    <3> QED
      BY <2>2, <3>1, <3>2, <3>3
  <2>5. first # {} => t.mandatory
    BY <2>2, <2>a, <2>b
  <2> HIDE DEF first, second
  <2> QED
    BY <2>3, <2>4, <2>5 DEF usable
<1>2. ASSUME Declared, asked = "YAML", NEW f \in input
      PROVE  /\ Cardinality(SuitesWith(output, f.id)) = IF f.valid THEN 1 ELSE 0
             /\ D!YamlSuiteOf(f) = "MANUAL" =>
                  D!CreateTestSteps(f) = [i \in DOMAIN f.steps |-> "manual"]
  <2>1. SuitesWith(output, f.id) = IF f.valid THEN {D!YamlSuiteOf(f)} ELSE {}
    BY <1>2, YamlSuite DEF Declared
  <2>2. Cardinality(SuitesWith(output, f.id)) = IF f.valid THEN 1 ELSE 0
    BY <2>1, FS_EmptySet, FS_Singleton
  <2>3. D!YamlSuiteOf(f) = "MANUAL" => D!TestType(f) = "MANUAL"
    BY DEF D!YamlSuiteOf
  <2> QED
    BY <2>2, <2>3 DEF D!CreateTestSteps
<1>3. Declared => EachTestDeclaredOnce
  BY <1>1, <1>2 DEF EachTestDeclaredOnce
<1> QED
  BY <1>3, DeclaredStays, PTL

-----------------------------------------------------------------------------
(***************************************************************************)
(* Commissioning.                                                          *)
(***************************************************************************)
\* The arguments a python test is given, as one condition.
Told(s, a, b) ==
    \/ /\ "enhanced_setup_flow" \in s.config.dut
       /\ \/ a = "require-tc-acknowledgements" /\ b = "1"
          \/ a = "tc-acknowledgements" /\ b = "response"
          \/ a = "tc-acknowledgements-version" /\ b = "version"
    \/ /\ a = "commissioning-method"
       /\ b = IF s.config.mode = "onnetwork" THEN "on-network" ELSE s.config.mode
    \/ /\ s.config.mode = "ble-wifi"
       /\ \/ a = "wifi-ssid" /\ b = "ssid"
          \/ a = "wifi-passphrase" /\ b = "password"
    \/ /\ s.config.mode \in {"ble-thread", "nfc-thread"}
       /\ a = "thread-dataset-hex" /\ b = C!ThreadDatasetHex(s.config)
    \/ /\ {"qr-code", "manual-code"} \cap s.config.parameters = {}
       /\ \/ a = "discriminator" /\ b = "discriminator"
          \/ a = "passcode" /\ b = "setup code"
    \/ a \in s.config.parameters /\ b = "value"
    \/ s.config.storage # C!Default /\ a = "storage-path" /\ b = s.config.storage

(* The arguments are the pairs that Told says.                             *)
LEMMA Arguments ==
    ASSUME NEW s \in Suites, NEW a, NEW b
    PROVE  <<a, b>> \in C!GenerateCommandArguments(s.config, FALSE) <=> Told(s, a, b)
<1>1. <<a, b>> \in C!NetworkArguments(s.config) <=>
             \/ /\ s.config.mode = "ble-wifi"
                /\ \/ a = "wifi-ssid" /\ b = "ssid"
                   \/ a = "wifi-passphrase" /\ b = "password"
             \/ /\ s.config.mode \in {"ble-thread", "nfc-thread"}
                /\ a = "thread-dataset-hex" /\ b = C!ThreadDatasetHex(s.config)
  BY DEF C!NetworkArguments, C!Give
<1>2. <<a, b>> \in C!DeviceArguments(s.config) <=>
             /\ {"qr-code", "manual-code"} \cap s.config.parameters = {}
             /\ \/ a = "discriminator" /\ b = "discriminator"
                \/ a = "passcode" /\ b = "setup code"
  BY DEF C!DeviceArguments, C!Give
<1>3. <<a, b>> \in C!ParameterArguments(s.config) <=>
             \/ a \in s.config.parameters /\ b = "value"
             \/ s.config.storage # C!Default /\ a = "storage-path" /\ b = s.config.storage
  BY DEF C!ParameterArguments, C!Give
<1> QED
  BY <1>1, <1>2, <1>3 DEF C!GenerateCommandArguments, C!Give, Told

(* An argument is a pair.                                                  *)
LEMMA ArgumentsArePairs ==
    ASSUME NEW s \in Suites, NEW x \in C!GenerateCommandArguments(s.config, FALSE)
    PROVE  x = <<x[1], x[2]>>
<1>1. x \in C!NetworkArguments(s.config) => x = <<x[1], x[2]>>
  BY DEF C!NetworkArguments, C!Give
<1>2. x \in C!DeviceArguments(s.config) => x = <<x[1], x[2]>>
  <2>1. x \in C!DeviceArguments(s.config) => \E y, z : x = <<y, z>>
    BY DEF C!DeviceArguments, C!Give
  <2> QED
    BY <2>1
<1>3. x \in C!ParameterArguments(s.config) => x = <<x[1], x[2]>>
  BY DEF C!ParameterArguments, C!Give
<1> QED
  BY <1>1, <1>2, <1>3 DEF C!GenerateCommandArguments, C!Give

(* The tool writes the storage of a commissioning where the configuration  *)
(* says.                                                                   *)
LEMMA WrittenToItsPath ==
    ASSUME NEW s \in Suites, NEW n
    PROVE  C!ToolWrites(C!GenerateCommandArguments(s.config, FALSE), n) = C!At(s.config.storage, n)
<1> DEFINE arguments == C!GenerateCommandArguments(s.config, FALSE)
           told == {a[2] : a \in {b \in arguments : b[1] = "storage-path"}}
<1>1. ASSUME NEW p PROVE p \in told <=> s.config.storage # C!Default /\ p = s.config.storage
  <2>1. p \in told <=> <<"storage-path", p>> \in arguments
    <3> HIDE DEF arguments
    <3>1. \A a \in arguments : a = <<a[1], a[2]>>
      BY ArgumentsArePairs DEF arguments
    <3>2. ASSUME p \in told PROVE <<"storage-path", p>> \in arguments
      <4>1. PICK a \in arguments : a[1] = "storage-path" /\ a[2] = p
        BY <3>2
      <4> QED
        BY <3>1, <4>1
    <3>3. ASSUME <<"storage-path", p>> \in arguments PROVE p \in told
      <4> DEFINE a == <<"storage-path", p>>
      <4>1. a[1] = "storage-path" /\ a[2] = p /\ a \in arguments
        BY <3>3
      <4> HIDE DEF a
      <4> QED
        BY <4>1
    <3> QED
      BY <3>2, <3>3
  <2>2. "storage-path" \notin s.config.parameters
    BY SessionsAssumption
  <2> HIDE DEF arguments, told
  <2> QED
    BY <2>1, <2>2, Arguments DEF arguments, Told
<1> HIDE DEF arguments, told
<1>2. CASE s.config.storage = C!Default
  <2>1. told = {}
    BY <1>1, <1>2
  <2> QED
    BY <1>2, <2>1 DEF C!ToolWrites, arguments, told
<1>3. CASE s.config.storage # C!Default
  <2>1. told = {s.config.storage}
    BY <1>1, <1>3
  <2>2. (CHOOSE p \in told : TRUE) = s.config.storage
    BY <2>1
  <2> QED
    BY <2>1, <2>2 DEF C!ToolWrites, arguments, told
<1> QED
  BY <1>2, <1>3

(* An accepted configuration tells the tool all it needs, and one way to   *)
(* find the device, but over WiFi PAF.                                     *)
LEMMA ToolIsTold ==
    ASSUME NEW s \in Suites, C!Accepted(s.config), s.there, s.config.mode # "wifipaf-wifi"
    PROVE  C!ToolCommissions(C!GenerateCommandArguments(s.config, FALSE), s.there)
<1> DEFINE arguments == C!GenerateCommandArguments(s.config, FALSE)
           Names == {a[1] : a \in arguments}
           Modes5 == {"on-network", "ble-wifi", "ble-thread", "nfc-thread", "wifipaf-wifi"}
           Mode == CHOOSE m \in Modes5 : <<"commissioning-method", m>> \in arguments
           Needed == CASE Mode \in {"ble-wifi", "wifipaf-wifi"} -> {"wifi-ssid", "wifi-passphrase"}
                       [] Mode \in {"ble-thread", "nfc-thread"} -> {"thread-dataset-hex"}
                       [] OTHER -> {}
           All == {{"discriminator", "passcode"}, {"qr-code"}, {"manual-code"}}
           Ways == {w \in All : w \cap Names # {}}
           mode == IF s.config.mode = "onnetwork" THEN "on-network" ELSE s.config.mode
           parameters == s.config.parameters
<1>1. /\ s.config.mode \in Modes
      /\ parameters \cap {"discriminator", "passcode", "storage-path", "commissioning-method"} = {}
  BY SessionsAssumption
<1>2. ASSUME NEW a, NEW b, <<a, b>> \in arguments PROVE a \in Names
  <2> DEFINE x == <<a, b>>
  <2>1. x \in arguments /\ x[1] = a
    BY <1>2
  <2> HIDE DEF x, arguments
  <2> QED
    BY <2>1
<1>3. ASSUME NEW a \in Names PROVE \E b : <<a, b>> \in arguments
  <2>1. PICK x \in arguments : x[1] = a
    OBVIOUS
  <2>2. x = <<x[1], x[2]>>
    BY ArgumentsArePairs
  <2> HIDE DEF arguments
  <2>3. <<a, x[2]>> \in arguments
    BY <2>1, <2>2
  <2> QED
    BY <2>3
<1>4. Mode = mode
  <2>1. mode \in Modes5
    BY <1>1 DEF Modes
  <2>2. ASSUME NEW m PROVE <<"commissioning-method", m>> \in arguments <=> m = mode
    <3>1. "commissioning-method" \notin s.config.parameters
      BY <1>1
    <3>2. <<"commissioning-method", m>> \in arguments <=> Told(s, "commissioning-method", m)
      BY Arguments
    <3>3. Told(s, "commissioning-method", m) <=> m = mode
      BY <3>1 DEF Told
    <3> QED
      BY <3>2, <3>3
  <2> HIDE DEF arguments, mode, Modes5
  <2> QED
    BY <2>1, <2>2
<1> HIDE DEF Mode
<1>5. Needed \subseteq Names
  <2>1. CASE mode = "ble-wifi"
    <3>1. <<"wifi-ssid", "ssid">> \in arguments /\ <<"wifi-passphrase", "password">> \in arguments
      BY <2>1, Arguments DEF Told
    <3>2. Needed = {"wifi-ssid", "wifi-passphrase"}
      BY <1>4, <2>1
    <3> HIDE DEF arguments, Names, Needed, mode
    <3> QED
      BY <1>2, <3>1, <3>2
  <2>2. CASE mode \in {"ble-thread", "nfc-thread"}
    <3>0. s.config.mode \in {"ble-thread", "nfc-thread"}
      BY <1>1, <2>2 DEF Modes
    <3>1. <<"thread-dataset-hex", C!ThreadDatasetHex(s.config)>> \in arguments
      BY <3>0, Arguments DEF Told
    <3>2. Needed = {"thread-dataset-hex"}
      BY <1>4, <2>2
    <3> HIDE DEF arguments, Names, Needed, mode
    <3> QED
      BY <1>2, <3>1, <3>2
  <2>3. CASE mode = "on-network"
    BY <1>4, <2>3
  <2> QED
    BY <1>1, <2>1, <2>2, <2>3 DEF Modes
<1>6. ~({"qr-code", "manual-code"} \subseteq parameters)
  BY DEF C!Accepted, C!ValidateModel
<1>7. \A code \in {"qr-code", "manual-code"} : code \in Names <=> code \in parameters
  <2> SUFFICES ASSUME NEW code \in {"qr-code", "manual-code"}
               PROVE  code \in Names <=> code \in parameters
    OBVIOUS
  <2>1. ASSUME NEW b PROVE <<code, b>> \in arguments <=> code \in parameters /\ b = "value"
    <3>1. <<code, b>> \in arguments <=> Told(s, code, b)
      BY Arguments
    <3>2. Told(s, code, b) <=> code \in parameters /\ b = "value"
      BY DEF Told
    <3> QED
      BY <3>1, <3>2
  <2>2. code \in Names <=> \E b : <<code, b>> \in arguments
    <3> HIDE DEF arguments, Names
    <3> QED
      BY <1>2, <1>3
  <2> HIDE DEF arguments, Names, parameters
  <2> QED
    BY <2>1, <2>2
<1>8. \A half \in {"discriminator", "passcode"} :
         half \in Names <=> {"qr-code", "manual-code"} \cap parameters = {}
  <2> SUFFICES ASSUME NEW half \in {"discriminator", "passcode"}
               PROVE  half \in Names <=> {"qr-code", "manual-code"} \cap parameters = {}
    OBVIOUS
  <2>1. ASSUME NEW b
        PROVE <<half, b>> \in arguments <=>
                /\ {"qr-code", "manual-code"} \cap parameters = {}
                /\ b = IF half = "passcode" THEN "setup code" ELSE "discriminator"
    <3>1. <<half, b>> \in arguments <=> Told(s, half, b)
      BY Arguments
    <3>2. Told(s, half, b) <=> /\ {"qr-code", "manual-code"} \cap parameters = {}
                               /\ b = IF half = "passcode" THEN "setup code" ELSE "discriminator"
      BY <1>1 DEF Told
    <3> HIDE DEF arguments, parameters
    <3> QED
      BY <3>1, <3>2
  <2>2. half \in Names <=> \E b : <<half, b>> \in arguments
    <3> HIDE DEF arguments, Names
    <3> QED
      BY <1>2, <1>3
  <2> HIDE DEF arguments, Names, parameters
  <2> QED
    BY <2>1, <2>2
<1> HIDE DEF arguments, Names, parameters
<1>9. \E w \in Ways : Ways = {w} /\ w \subseteq Names
  <2>1. CASE "qr-code" \notin parameters /\ "manual-code" \notin parameters
    <3>1. Ways = {{"discriminator", "passcode"}} /\ {"discriminator", "passcode"} \subseteq Names
      BY <1>7, <1>8, <2>1
    <3> HIDE DEF Ways
    <3> QED
      BY <3>1
  <2>2. CASE "qr-code" \in parameters
    <3>1. Ways = {{"qr-code"}} /\ {"qr-code"} \subseteq Names
      BY <1>6, <1>7, <1>8, <2>2
    <3> HIDE DEF Ways
    <3> QED
      BY <3>1
  <2>3. CASE "manual-code" \in parameters
    <3>1. Ways = {{"manual-code"}} /\ {"manual-code"} \subseteq Names
      BY <1>6, <1>7, <1>8, <2>3
    <3> HIDE DEF Ways
    <3> QED
      BY <3>1
  <2> QED
    BY <2>1, <2>2, <2>3
<1> QED
  BY <1>5, <1>9 DEF C!ToolCommissions, Mode, Names, arguments

(* What the setup of a suite does to the file on the host, and where it    *)
(* leaves the storage.                                                     *)
LEMMA SetUpOfOne ==
    ASSUME NEW s \in Suites, NEW n \in Nat, NEW host
    PROVE  LET r == C!CommissioningSuiteSetup(host, s, n)
           IN /\ r.ends = "commissioned" =>
                   /\ r.storage = C!At(s.config.storage, n)
                   /\ r.host = IF s.copy = "nothing" THEN host
                               ELSE [exists |-> TRUE, of |-> IF s.copy = "whole" THEN n ELSE 0]
              /\ r.ends # "commissioned" => r.host = host
              /\ r.ends = "reused" =>
                   /\ host.exists
                   /\ r.storage = IF s.copied /\ host.of # 0 THEN C!At(s.config.storage, host.of)
                                  ELSE C!Nowhere
              /\ (C!Accepted(s.config) /\ s.there /\ s.ready = "PASS" /\ s.reuse # "TIMEOUT") =>
                   r.ends # "raised" \/ s.config.mode = "wifipaf-wifi"
<1> DEFINE arguments == C!GenerateCommandArguments(s.config, FALSE)
           ToolMay == C!ToolCommissions(arguments, s.there)
           stored == C!At(s.config.storage, n)
           copied == C!CopyFileFromContainer(host, stored, s.config.storage, s.copy)
           tool == [host |-> copied, storage |-> stored, ends |-> "commissioned"]
           reused == [host |-> host, ends |-> "reused",
                      storage |-> C!CopyFileToContainer(host, s.config.storage, s.copied)]
           raised == [host |-> host, storage |-> C!Nowhere, ends |-> "raised"]
           r == C!CommissioningSuiteSetup(host, s, n)
<1>1. s.copy \in {"whole", "cut off", "nothing"} /\ s.reuse \in {"PASS", "FAIL", "TIMEOUT"}
  BY SessionsAssumption
<1>2. copied = IF s.copy = "nothing" THEN host
               ELSE [exists |-> TRUE, of |-> IF s.copy = "whole" THEN n ELSE 0]
  <2>1. s.config.storage \in DOMAIN stored /\ stored[s.config.storage] = n
    BY DEF C!At
  <2> HIDE DEF stored
  <2> QED
    BY <1>1, <2>1 DEF C!CopyFileFromContainer
<1>3. C!CommissionDevice(host, s, n) = IF ToolMay THEN tool ELSE raised
  BY WrittenToItsPath DEF C!CommissionDevice, C!StoragePath, C!Raised
<1> DEFINE prompted == IF s.ready = "PASS" /\ ToolMay THEN tool ELSE raised
<1>4. C!PromptForCommissioningMode(host, s, n) = prompted
  <2> HIDE DEF ToolMay, tool, raised
  <2> QED
    BY <1>3 DEF C!PromptForCommissioningMode, C!Raised, raised
<1>5. C!ReuseOrCommission(host, s, n) =
        IF ~host.exists \/ s.reuse = "FAIL" THEN prompted
        ELSE IF s.reuse = "PASS" THEN reused ELSE raised
  <2> HIDE DEF prompted
  <2> QED
    BY <1>1, <1>4 DEF C!ReuseOrCommission, C!Raised, C!StoragePath
<1>6. r = IF C!Accepted(s.config) THEN C!ReuseOrCommission(host, s, n) ELSE raised
  BY DEF C!CommissioningSuiteSetup, C!Raised
<1>7. (C!Accepted(s.config) /\ s.there /\ s.config.mode # "wifipaf-wifi") => ToolMay
  BY ToolIsTold
<1>8. /\ tool.ends = "commissioned" /\ tool.storage = stored /\ tool.host = copied
      /\ reused.ends = "reused" /\ reused.host = host
      /\ reused.storage = C!CopyFileToContainer(host, s.config.storage, s.copied)
      /\ raised.ends = "raised" /\ raised.host = host
  OBVIOUS
<1>9. \/ r = raised
      \/ r = reused /\ host.exists
      \/ r = tool
  <2> HIDE DEF ToolMay, tool, reused, raised, r
  <2> QED
    BY <1>5, <1>6
<1>10. (C!Accepted(s.config) /\ s.there /\ s.ready = "PASS" /\ s.reuse # "TIMEOUT"
           /\ s.config.mode # "wifipaf-wifi") => r = tool \/ r = reused
  <2> HIDE DEF ToolMay, tool, reused, raised, r
  <2> QED
    BY <1>1, <1>5, <1>6, <1>7
<1> HIDE DEF r, tool, reused, raised, copied, stored
<1> QED
  BY <1>2, <1>8, <1>9, <1>10 DEF C!CopyFileToContainer, stored, r

\* The value is in the sequence.
In(s, x) == \E i \in DOMAIN s : s[i] = x

(* A pair of elements is a sequence.                                       *)
LEMMA Pair == ASSUME NEW S, NEW x \in S, NEW y \in S PROVE <<x, y>> \in Seq(S)
OBVIOUS

(* What is in one of three sequences is in them joined.                    *)
LEMMA Joined ==
    ASSUME NEW S, NEW a \in Seq(S), NEW b \in Seq(S), NEW c \in Seq(S),
           NEW x, In(a, x) \/ In(b, x) \/ In(c, x)
    PROVE  In(a \o b \o c, x)
<1> DEFINE front == a \o b
<1>1. /\ front \in Seq(S) /\ Len(front) = Len(a) + Len(b)
      /\ \A i \in 1..(Len(a) + Len(b)) : front[i] = IF i <= Len(a) THEN a[i] ELSE b[i - Len(a)]
  BY ConcatProperties
<1> HIDE DEF front
<1>0. front \in Seq(S)
  BY <1>1
<1>2. /\ front \o c \in Seq(S) /\ Len(front \o c) = Len(front) + Len(c)
      /\ \A i \in 1..(Len(front) + Len(c)) :
            (front \o c)[i] = IF i <= Len(front) THEN front[i] ELSE c[i - Len(front)]
  BY <1>0, ConcatProperties
<1>3. /\ DOMAIN a = 1..Len(a) /\ DOMAIN b = 1..Len(b) /\ DOMAIN c = 1..Len(c)
      /\ Len(a) \in Nat /\ Len(b) \in Nat /\ Len(c) \in Nat
      /\ DOMAIN (front \o c) = 1..Len(front \o c)
  BY <1>2
<1>4. \E i \in DOMAIN (front \o c) : (front \o c)[i] = x
  <2>1. ASSUME NEW i \in 1..Len(a), a[i] = x PROVE \E k \in DOMAIN (front \o c) : (front \o c)[k] = x
    <3>1. i \in DOMAIN (front \o c) /\ (front \o c)[i] = x
      BY <1>1, <1>2, <1>3, <2>1
    <3> QED
      BY <3>1
  <2>2. ASSUME NEW i \in 1..Len(b), b[i] = x PROVE \E k \in DOMAIN (front \o c) : (front \o c)[k] = x
    <3>1. Len(a) + i \in DOMAIN (front \o c) /\ (front \o c)[Len(a) + i] = x
      BY <1>1, <1>2, <1>3, <2>2
    <3> QED
      BY <3>1
  <2>3. ASSUME NEW i \in 1..Len(c), c[i] = x PROVE \E k \in DOMAIN (front \o c) : (front \o c)[k] = x
    <3>1. Len(front) + i \in DOMAIN (front \o c) /\ (front \o c)[Len(front) + i] = x
      BY <1>1, <1>2, <1>3, <2>3
    <3> QED
      BY <3>1
  <2> QED
    BY <1>3, <2>1, <2>2, <2>3 DEF In
<1> QED
  BY <1>4 DEF front, In

(* chip-tool is told who the device is, and the credentials of its network. *)
LEMMA PairingIsTold ==
    ASSUME NEW s \in Suites
    PROVE  LET mode == s.config.mode
               command == C!PairWithDut(s.config)
               Credentials == {command[k] : k \in DOMAIN command}
           IN /\ {"setup code", "discriminator"} \subseteq Credentials
              /\ mode \in {"ble-wifi", "wifipaf-wifi"} => {"ssid", "password"} \subseteq Credentials
              /\ mode \in {"ble-thread", "nfc-thread"} =>
                   (IF s.config.auto THEN "active dataset" ELSE "external dataset") \in Credentials
<1> DEFINE dataset == IF s.config.auto THEN "active dataset" ELSE "external dataset"
           mode == s.config.mode
           first == <<C!PairingMode(mode), "node id">>
           credentials == CASE mode = "onnetwork" -> <<>>
                            [] mode \in {"ble-wifi", "wifipaf-wifi"} -> <<"ssid", "password">>
                            [] mode \in {"ble-thread", "nfc-thread"} -> <<dataset>>
           last == <<"setup code", "discriminator">>
           command == C!PairWithDut(s.config)
           Credentials == {command[k] : k \in DOMAIN command}
<1>1. mode \in Modes
  BY SessionsAssumption
<1>2. command = first \o credentials \o last
  BY DEF C!PairWithDut, C!Pairing, C!ThreadDatasetHex
<1> DEFINE All == {C!PairingMode(mode), "node id", dataset, "ssid", "password", "setup code", "discriminator"}
<1>4. first \in Seq(All) /\ last \in Seq(All)
  <2> DEFINE pairing == C!PairingMode(mode)
  <2>1. pairing \in All /\ "node id" \in All /\ "setup code" \in All /\ "discriminator" \in All
    OBVIOUS
  <2>2. first = <<pairing, "node id">>
    OBVIOUS
  <2> HIDE DEF All, pairing, first
  <2> QED
    BY <2>1, <2>2, Pair
<1>5. /\ credentials \in Seq(All)
      /\ mode \in {"ble-wifi", "wifipaf-wifi"} => credentials = <<"ssid", "password">>
      /\ mode \in {"ble-thread", "nfc-thread"} => credentials = <<dataset>>
  <2>0. {dataset, "ssid", "password"} \subseteq All
    OBVIOUS
  <2> HIDE DEF All, dataset
  <2>1. CASE mode = "onnetwork"
    BY <2>1
  <2>2. CASE mode \in {"ble-wifi", "wifipaf-wifi"}
    <3>1. credentials = <<"ssid", "password">>
      BY <2>2
    <3> HIDE DEF credentials, mode
    <3> QED
      BY <2>0, <2>2, <3>1
  <2>3. CASE mode \in {"ble-thread", "nfc-thread"}
    <3>1. credentials = <<dataset>>
      BY <2>3
    <3> HIDE DEF credentials, mode
    <3> QED
      BY <2>0, <2>3, <3>1
  <2> QED
    BY <1>1, <2>1, <2>2, <2>3 DEF Modes
<1>6. 1 \in DOMAIN last /\ last[1] = "setup code" /\ 2 \in DOMAIN last /\ last[2] = "discriminator"
  OBVIOUS
<1>7. /\ mode \in {"ble-wifi", "wifipaf-wifi"} =>
           /\ 1 \in DOMAIN credentials /\ credentials[1] = "ssid"
           /\ 2 \in DOMAIN credentials /\ credentials[2] = "password"
      /\ mode \in {"ble-thread", "nfc-thread"} => 1 \in DOMAIN credentials /\ credentials[1] = dataset
  <2> HIDE DEF credentials, dataset, mode, All
  <2>1. ASSUME credentials = <<"ssid", "password">>
        PROVE  /\ 1 \in DOMAIN credentials /\ credentials[1] = "ssid"
               /\ 2 \in DOMAIN credentials /\ credentials[2] = "password"
    BY <2>1
  <2>2. ASSUME credentials = <<dataset>> PROVE 1 \in DOMAIN credentials /\ credentials[1] = dataset
    BY <2>2
  <2> QED
    BY <1>5, <2>1, <2>2
<1> HIDE DEF first, credentials, last, dataset, mode, command, All
<1>8. ASSUME NEW x, In(credentials, x) \/ In(last, x)
      PROVE  x \in Credentials
  <2>0. first \in Seq(All) /\ credentials \in Seq(All) /\ last \in Seq(All)
    BY <1>4, <1>5
  <2>1. In(first \o credentials \o last, x)
    BY <1>8, <2>0, Joined
  <2>2. \E i \in DOMAIN command : command[i] = x
    BY <1>2, <2>1 DEF In
  <2> QED
    BY <2>2
<1>9. {"setup code", "discriminator"} \subseteq Credentials
  BY <1>6, <1>8 DEF In
<1>10. mode \in {"ble-wifi", "wifipaf-wifi"} => {"ssid", "password"} \subseteq Credentials
  BY <1>7, <1>8 DEF In
<1>11. mode \in {"ble-thread", "nfc-thread"} => dataset \in Credentials
  BY <1>7, <1>8 DEF In
<1> HIDE DEF Credentials
<1> QED
  BY <1>9, <1>10, <1>11 DEF mode, dataset, command, Credentials

(* A result more at the end.                                               *)
LEMMA OneMore ==
    ASSUME NEW n \in Nat, NEW s, s = [i \in 1..n |-> s[i]], NEW x
    PROVE  /\ Append(s, x) = [i \in 1..(n + 1) |-> Append(s, x)[i]]
           /\ Append(s, x) # <<>> /\ Len(Append(s, x)) = n + 1
           /\ \A i \in 1..n : Append(s, x)[i] = s[i]
           /\ Append(s, x)[n + 1] = x
<1> DEFINE S == {s[i] : i \in 1..n} \cup {x}
<1>1. s \in Seq(S) /\ Len(s) = n /\ x \in S
  OBVIOUS
<1> HIDE DEF S
<1> QED
  BY <1>1, AppendProperties

\* What the property says of the i-th suite and its result.
AsConfigured(i) ==
    LET s == input[i]
        o == output[i]
    IN /\ (C!Accepted(s.config) /\ s.there /\ s.ready = "PASS" /\ s.reuse # "TIMEOUT") =>
            o.ends # "raised" \/ s.config.mode = "wifipaf-wifi"
       /\ o.ends = "commissioned" => o.storage = C!At(s.config.storage, i)
       /\ o.ends = "reused" => \E k \in Stored(input, output, i) :
            o.storage = IF input[k].copy = "whole" /\ s.copied THEN C!At(s.config.storage, k)
                        ELSE C!Nowhere

\* The file on the host is that of the last suite whose copy touched it.
HostIsStored ==
    \/ Stored(input, output, done + 1) = {} /\ C!HostAfter(output) = C!NoFile
    \/ \E k \in Stored(input, output, done + 1) :
          C!HostAfter(output) = [exists |-> TRUE, of |-> IF input[k].copy = "whole" THEN k ELSE 0]

Commissioned ==
    asked = "commissioning" =>
        /\ input \in Seq(Suites) /\ done \in 0..Len(input)
        /\ output = [i \in 1..done |-> output[i]]
        /\ HostIsStored
        /\ \A i \in 1..done : AsConfigured(i)

(* What Stored says depends on the results of the suites before only.      *)
LEMMA StoredSame ==
    ASSUME NEW suites, NEW first, NEW second, NEW i \in Nat,
           \A k \in 1..(i - 1) : first[k] = second[k]
    PROVE  Stored(suites, first, i) = Stored(suites, second, i)
BY DEF Stored

(* The suite that was set up is the one whose storage is there, if it      *)
(* commissioned and its copy touched the file.                             *)
LEMMA StoredNow ==
    ASSUME NEW suites, NEW results, NEW n \in Nat \ {0}
    PROVE  IF results[n].ends = "commissioned" /\ suites[n].copy # "nothing"
           THEN n \in Stored(suites, results, n + 1)
           ELSE Stored(suites, results, n + 1) = Stored(suites, results, n)
BY DEF Stored

(* The setup of a suite keeps Commissioned.                                *)
LEMMA SetUpCommissions ==
    ASSUME Commissioned, SetUp
    PROVE  Commissioned'
<1> DEFINE n == done + 1
           s == input[n]
           host == C!HostAfter(output)
           r == C!CommissioningSuiteSetup(host, s, n)
<1>1. /\ input \in Seq(Suites) /\ done \in 0..Len(input) /\ done < Len(input)
      /\ output = [i \in 1..done |-> output[i]]
      /\ HostIsStored
      /\ \A i \in 1..done : AsConfigured(i)
      /\ output' = Append(output, r) /\ done' = n /\ input' = input
  BY DEF SetUp, WorkOn, Become, Commissioned
<1>2. n \in Nat /\ done \in Nat /\ n \in 1..Len(input) /\ s \in Suites
  BY <1>1
<1>3. /\ output' = [i \in 1..n |-> output'[i]]
      /\ output' # <<>> /\ Len(output') = n
      /\ \A i \in 1..done : output'[i] = output[i]
      /\ output'[n] = r
  <2> HIDE DEF r
  <2> QED
    BY <1>1, <1>2, OneMore
<1>4. \A i \in 1..n : Stored(input, output', i) = Stored(input, output, i)
  <2> SUFFICES ASSUME NEW i \in 1..n PROVE Stored(input, output', i) = Stored(input, output, i)
    OBVIOUS
  <2>1. i \in Nat /\ \A k \in 1..(i - 1) : output'[k] = output[k]
    BY <1>2, <1>3
  <2> QED
    BY <2>1, StoredSame
<1>5. /\ r.ends = "commissioned" =>
           /\ r.storage = C!At(s.config.storage, n)
           /\ r.host = IF s.copy = "nothing" THEN host
                       ELSE [exists |-> TRUE, of |-> IF s.copy = "whole" THEN n ELSE 0]
      /\ r.ends # "commissioned" => r.host = host
      /\ r.ends = "reused" =>
           /\ host.exists
           /\ r.storage = IF s.copied /\ host.of # 0 THEN C!At(s.config.storage, host.of)
                          ELSE C!Nowhere
      /\ (C!Accepted(s.config) /\ s.there /\ s.ready = "PASS" /\ s.reuse # "TIMEOUT") =>
           r.ends # "raised" \/ s.config.mode = "wifipaf-wifi"
  BY <1>2, SetUpOfOne
<1>6. C!HostAfter(output') = r.host
  BY <1>3 DEF C!HostAfter
<1> DEFINE Whose == Stored(input, output, n)
           Mine(k) == [exists |-> TRUE, of |-> IF input[k].copy = "whole" THEN k ELSE 0]
<1>7. (Whose = {} /\ host = C!NoFile) \/ \E k \in Whose : host = Mine(k)
  BY <1>1 DEF HostIsStored
<1>8. HostIsStored'
  <2>1. IF r.ends = "commissioned" /\ s.copy # "nothing"
        THEN n \in Stored(input, output', n + 1)
        ELSE Stored(input, output', n + 1) = Whose
    <3>1. n \in Nat \ {0}
      BY <1>2
    <3> HIDE DEF r, n
    <3>2. IF output'[n].ends = "commissioned" /\ input[n].copy # "nothing"
          THEN n \in Stored(input, output', n + 1)
          ELSE Stored(input, output', n + 1) = Stored(input, output', n)
      BY <3>1, StoredNow
    <3>3. Stored(input, output', n) = Whose
      BY <1>2, <1>4
    <3> QED
      BY <1>3, <3>2, <3>3
  <2> HIDE DEF r, n, host, Whose
  <2>2. CASE r.ends = "commissioned" /\ s.copy # "nothing"
    <3>1. r.host = Mine(n)
      BY <1>5, <2>2
    <3> HIDE DEF Mine
    <3>2. \E k \in Stored(input, output', n + 1) : C!HostAfter(output') = Mine(k)
      BY <1>6, <2>1, <2>2, <3>1
    <3> QED
      BY <1>1, <3>2 DEF HostIsStored, Mine
  <2>3. CASE ~(r.ends = "commissioned" /\ s.copy # "nothing")
    <3>1. r.host = host
      BY <1>5, <2>3
    <3>2. Stored(input, output', n + 1) = Whose
      BY <2>1, <2>3
    <3> HIDE DEF Mine
    <3>3. (Stored(input', output', done' + 1) = {} /\ C!HostAfter(output') = C!NoFile)
            \/ \E k \in Stored(input', output', done' + 1) : C!HostAfter(output') = Mine(k)
      BY <1>1, <1>6, <1>7, <3>1, <3>2
    <3> QED
      BY <1>1, <3>3 DEF HostIsStored, Mine
  <2> QED
    BY <2>2, <2>3
<1>9. \A i \in 1..n : AsConfigured(i)'
  <2>1. ASSUME NEW i \in 1..done PROVE AsConfigured(i)'
    <3>1. AsConfigured(i) /\ output'[i] = output[i] /\ input' = input
      BY <1>1, <1>3
    <3>2. Stored(input, output', i) = Stored(input, output, i)
      BY <1>2, <1>4
    <3> QED
      BY <3>1, <3>2 DEF AsConfigured
  <2>2. ASSUME NEW CONSTANT i \in 1..n, i = n PROVE AsConfigured(i)'
    <3>1. r.ends = "reused" =>
            \E k \in Whose :
              r.storage = IF input[k].copy = "whole" /\ s.copied THEN C!At(s.config.storage, k)
                          ELSE C!Nowhere
      <4> SUFFICES ASSUME r.ends = "reused"
                   PROVE  \E k \in Whose :
              r.storage = IF input[k].copy = "whole" /\ s.copied THEN C!At(s.config.storage, k)
                          ELSE C!Nowhere
        OBVIOUS
      <4>1. host # C!NoFile
        <5>1. host.exists
          BY <1>5
        <5> HIDE DEF host
        <5> QED
          BY <5>1 DEF C!NoFile
      <4>2. PICK k \in Whose : host = Mine(k)
        BY <1>7, <4>1
      <4>3. k \in Nat \ {0} /\ host.of = IF input[k].copy = "whole" THEN k ELSE 0
        <5>1. k \in Nat \ {0}
          BY <1>2, <4>2 DEF Stored
        <5> HIDE DEF host
        <5> QED
          BY <4>2, <5>1
      <4>4. r.storage = IF s.copied /\ host.of # 0 THEN C!At(s.config.storage, host.of) ELSE C!Nowhere
        BY <1>5
      <4> HIDE DEF host, r, Whose, s, Mine
      <4> QED
        BY <4>2, <4>3, <4>4
    <3>2. Stored(input, output', n) = Whose
      BY <1>2, <1>4
    <3>3. /\ input'[i] = s /\ output'[i] = r
          /\ Stored(input', output', i) = Whose /\ input' = input
      BY <1>1, <1>3, <2>2, <3>2
    <3> HIDE DEF r, n, host, Whose, s
    <3> QED
      BY <1>5, <2>2, <3>1, <3>3 DEF AsConfigured
  <2>3. \A i \in 1..n : i \in 1..done \/ i = n
    BY <1>2
  <2> QED
    BY <2>1, <2>2, <2>3
<1> HIDE DEF r
<1> QED
  BY <1>1, <1>2, <1>3, <1>8, <1>9 DEF Commissioned

(* Commissioned holds of every run.                                        *)
LEMMA CommissionedStays == Spec => []Commissioned
<1>1. Init => Commissioned
  BY DEF Init, Commissioned
<1>2. Commissioned /\ NothingDone /\ [Next]_vars => Commissioned'
  <2> SUFFICES ASSUME Commissioned, NothingDone, [Next]_vars PROVE Commissioned'
    OBVIOUS
  <2>1. CASE SetUp
    BY <2>1, SetUpCommissions
  <2>2. CASE AskCommissioning
    <3>1. /\ input' \in Seq(Suites) /\ done' = 0 /\ output' = <<>>
      BY <2>2, SessionsAssumption DEF AskCommissioning, Ask, NothingDone
    <3>2. output' = [i \in 1..done' |-> output'[i]]
      BY <3>1
    <3>3. Stored(input', output', done' + 1) = {} /\ C!HostAfter(output') = C!NoFile
      BY <3>1 DEF Stored, C!HostAfter
    <3> QED
      BY <3>1, <3>2, <3>3 DEF Commissioned, HostIsStored
  <2>3. CASE ~SetUp /\ ~AskCommissioning
    <3>1. asked' = "commissioning" => UNCHANGED vars
      BY <2>3 DEF Next, vars, DeclarePython, DeclareYaml, AskApplicable, Upload, AnswerApplicable,
            AskArchive, GroupEntry, AnswerArchive, AskReport, ReadLine, AnswerReport,
            Ask, WorkOn, Become, Answer
    <3> QED
      BY <3>1 DEF vars, Commissioned, HostIsStored, AsConfigured
  <2> QED
    BY <2>1, <2>2, <2>3
<1> QED
  BY <1>1, <1>2, NothingIsDone, PTL DEF Spec

(* Every session commissions as its configurations say: a suite that can   *)
(* commission does, and each finds the storage of the commissioning it     *)
(* believes in where its tests look for it.                                *)
THEOREM CommissionsAsConfigured == Spec => []CommissionedAsConfigured
<1>1. ASSUME Commissioned, asked = "commissioning", NEW i \in 1..done
      PROVE  LET s == input[i]
                 mode == s.config.mode
                 o == output[i]
                 command == C!PairWithDut(s.config)
                 Credentials == {command[k] : k \in DOMAIN command}
             IN /\ (C!Accepted(s.config) /\ s.there /\ s.ready = "PASS" /\ s.reuse # "TIMEOUT") =>
                     o.ends # "raised" \/ mode = "wifipaf-wifi"
                /\ {"setup code", "discriminator"} \subseteq Credentials
                /\ mode \in {"ble-wifi", "wifipaf-wifi"} => {"ssid", "password"} \subseteq Credentials
                /\ mode \in {"ble-thread", "nfc-thread"} =>
                     (IF s.config.auto THEN "active dataset" ELSE "external dataset") \in Credentials
                /\ o.ends = "commissioned" => o.storage = C!At(s.config.storage, i)
                /\ o.ends = "reused" => \E k \in Stored(input, output, i) :
                     o.storage = IF input[k].copy = "whole" /\ s.copied THEN C!At(s.config.storage, k)
                                 ELSE C!Nowhere
  <2>1. input[i] \in Suites /\ AsConfigured(i)
    BY <1>1 DEF Commissioned
  <2> QED
    BY <2>1, PairingIsTold DEF AsConfigured
<1>2. Commissioned => CommissionedAsConfigured
  BY <1>1 DEF CommissionedAsConfigured
<1> QED
  BY <1>2, CommissionedStays, PTL

-----------------------------------------------------------------------------
(***************************************************************************)
(* The applicable cases.                                                   *)
(***************************************************************************)
\* The readable ones of the first n files, and of each cluster the last of them.
ReadOf(uploads, n) == {i \in 1..n : A!Readable(uploads[i])}

LatestOf(uploads, n) ==
    {i \in ReadOf(uploads, n) :
        \A j \in ReadOf(uploads, n) : uploads[j].name = uploads[i].name => j <= i}

\* The clusters are what the latest readable files say.
AreLatest(clusters, uploads, n) ==
    /\ \A i \in LatestOf(uploads, n) :
          uploads[i].name \in DOMAIN clusters /\ clusters[uploads[i].name] = A!Items(uploads[i])
    /\ \A name \in DOMAIN clusters : \E i \in LatestOf(uploads, n) : uploads[i].name = name

Uploaded ==
    asked = "applicable" =>
        /\ input \in Projects /\ done \in 0..Len(input.uploads)
        /\ ~answered => AreLatest(output, input.uploads, done)
        /\ answered => \E clusters :
              /\ AreLatest(clusters, input.uploads, Len(input.uploads))
              /\ output = A!Applicable(clusters, input.skipped)

(* One more file: the earlier ones of its cluster do not count any more.   *)
LEMMA LatestAfter ==
    ASSUME NEW uploads, NEW n \in Nat
    PROVE  LatestOf(uploads, n + 1)
             = IF A!Readable(uploads[n + 1])
               THEN {n + 1} \cup {i \in LatestOf(uploads, n) : uploads[i].name # uploads[n + 1].name}
               ELSE LatestOf(uploads, n)
<1>1. 1..(n + 1) = (1..n) \cup {n + 1} /\ n + 1 \notin 1..n
  OBVIOUS
<1>2. CASE A!Readable(uploads[n + 1])
  <2>1. ReadOf(uploads, n + 1) = ReadOf(uploads, n) \cup {n + 1}
    BY <1>1, <1>2 DEF ReadOf
  <2>2. \A i \in ReadOf(uploads, n) : i \in Nat /\ i < n + 1
    BY DEF ReadOf
  <2> QED
    BY <1>2, <2>1, <2>2 DEF LatestOf
<1>3. CASE ~A!Readable(uploads[n + 1])
  <2>1. ReadOf(uploads, n + 1) = ReadOf(uploads, n)
    BY <1>1, <1>3 DEF ReadOf
  <2> QED
    BY <1>3, <2>1 DEF LatestOf
<1> QED
  BY <1>2, <1>3

(* AddCluster replaces the cluster of the file that is uploaded.           *)
LEMMA AddedIsLatest ==
    ASSUME NEW clusters, NEW uploads, NEW n \in Nat, AreLatest(clusters, uploads, n)
    PROVE  AreLatest(A!AddCluster(clusters, uploads[n + 1]), uploads, n + 1)
<1> DEFINE file == uploads[n + 1]
           after == A!AddCluster(clusters, file)
<1>1. CASE ~A!Readable(file)
  BY <1>1, LatestAfter DEF A!AddCluster, AreLatest
<1>2. CASE A!Readable(file)
  <2>1. /\ DOMAIN after = DOMAIN clusters \cup {file.name}
        /\ after[file.name] = A!Items(file)
        /\ \A name \in DOMAIN clusters : name # file.name => after[name] = clusters[name]
    BY <1>2 DEF A!AddCluster
  <2>2. LatestOf(uploads, n + 1)
          = {n + 1} \cup {i \in LatestOf(uploads, n) : uploads[i].name # file.name}
    BY <1>2, LatestAfter
  <2> HIDE DEF after
  <2>3. ASSUME NEW i \in LatestOf(uploads, n + 1)
        PROVE  uploads[i].name \in DOMAIN after /\ after[uploads[i].name] = A!Items(uploads[i])
    <3>1. CASE i = n + 1
      BY <2>1, <3>1
    <3>2. CASE i \in LatestOf(uploads, n) /\ uploads[i].name # file.name
      BY <2>1, <3>2 DEF AreLatest
    <3> QED
      BY <2>2, <3>1, <3>2
  <2>4. ASSUME NEW name \in DOMAIN after
        PROVE  \E i \in LatestOf(uploads, n + 1) : uploads[i].name = name
    <3>1. CASE name = file.name
      <4>1. n + 1 \in LatestOf(uploads, n + 1)
        BY <2>2
      <4> QED
        BY <3>1, <4>1
    <3>2. CASE name # file.name
      <4>1. PICK i \in LatestOf(uploads, n) : uploads[i].name = name
        BY <2>1, <3>2 DEF AreLatest
      <4>2. i \in LatestOf(uploads, n + 1)
        BY <2>2, <3>2, <4>1
      <4> QED
        BY <4>1, <4>2
    <3> QED
      BY <3>1, <3>2
  <2> QED
    BY <2>3, <2>4 DEF AreLatest, after
<1> QED
  BY <1>1, <1>2

(* What the clusters enable is what the latest files support.              *)
LEMMA EnabledIsSupported ==
    ASSUME NEW clusters, NEW uploads, NEW n, AreLatest(clusters, uploads, n)
    PROVE  A!Enabled(clusters) = Supported(uploads, n)
<1>1. Supported(uploads, n) = UNION {A!EnabledItems(A!Items(uploads[i])) : i \in LatestOf(uploads, n)}
  BY DEF Supported, LatestOf, ReadOf
<1>2. ASSUME NEW x \in A!Enabled(clusters) PROVE x \in Supported(uploads, n)
  <2>1. PICK name \in DOMAIN clusters : x \in A!EnabledItems(clusters[name])
    BY <1>2 DEF A!Enabled
  <2>2. PICK i \in LatestOf(uploads, n) : uploads[i].name = name
    BY <2>1 DEF AreLatest
  <2>3. x \in A!EnabledItems(A!Items(uploads[i]))
    BY <2>1, <2>2 DEF AreLatest
  <2> QED
    BY <1>1, <2>2, <2>3
<1>3. ASSUME NEW x \in Supported(uploads, n) PROVE x \in A!Enabled(clusters)
  <2>1. PICK i \in LatestOf(uploads, n) : x \in A!EnabledItems(A!Items(uploads[i]))
    BY <1>1, <1>3
  <2>2. uploads[i].name \in DOMAIN clusters /\ x \in A!EnabledItems(clusters[uploads[i].name])
    BY <2>1 DEF AreLatest
  <2> QED
    BY <2>2 DEF A!Enabled
<1> QED
  BY <1>2, <1>3

(* Uploaded holds of every run.                                            *)
LEMMA UploadedStays == Spec => []Uploaded
<1>1. Init => Uploaded
  BY DEF Init, Uploaded
<1>2. Uploaded /\ NothingDone /\ [Next]_vars => Uploaded'
  <2> SUFFICES ASSUME Uploaded, NothingDone, [Next]_vars PROVE Uploaded'
    OBVIOUS
  <2>1. CASE AskApplicable
    <3>1. PICK project \in Projects :
            /\ input' = project /\ output' = A!NoClusters /\ done' = 0
            /\ answered' = answered
      BY <2>1 DEF AskApplicable, Ask, NothingDone
    <3>2. AreLatest(output', input'.uploads, 0)
      BY <3>1 DEF AreLatest, LatestOf, ReadOf, A!NoClusters
    <3>3. input'.uploads \in Seq(PicsFiles) /\ ~answered'
      BY <2>1, <3>1, ApplicabilityAssumption DEF AskApplicable, Ask, NothingDone
    <3> QED
      BY <3>1, <3>2, <3>3 DEF Uploaded
  <2>2. CASE Upload
    <3>1. /\ asked = "applicable" /\ ~answered /\ done < Len(input.uploads)
          /\ output' = A!AddCluster(output, input.uploads[done + 1])
          /\ done' = done + 1 /\ UNCHANGED <<asked, input, answered>>
      BY <2>2 DEF Upload, WorkOn, Become
    <3>2. /\ input \in Projects /\ input.uploads \in Seq(PicsFiles)
          /\ done \in Nat /\ done' \in 0..Len(input.uploads)
          /\ AreLatest(output, input.uploads, done)
      BY <3>1, ApplicabilityAssumption DEF Uploaded
    <3>3. AreLatest(output', input.uploads, done + 1)
      BY <3>1, <3>2, AddedIsLatest
    <3> QED
      BY <3>1, <3>2, <3>3 DEF Uploaded
  <2>3. CASE AnswerApplicable
    <3>1. /\ asked = "applicable" /\ ~answered /\ done = Len(input.uploads)
          /\ output' = A!Applicable(output, input.skipped)
          /\ answered' /\ UNCHANGED <<asked, input, done>>
      BY <2>3 DEF AnswerApplicable, Answer
    <3> QED
      BY <3>1 DEF Uploaded
  <2>4. CASE ~AskApplicable /\ ~Upload /\ ~AnswerApplicable
    <3>1. asked' = "applicable" => UNCHANGED vars
      BY <2>4 DEF Next, vars, DeclarePython, DeclareYaml, AskArchive, GroupEntry, AnswerArchive,
            AskReport, ReadLine, AnswerReport, AskCommissioning, SetUp, Ask, WorkOn, Become, Answer
    <3> QED
      BY <3>1 DEF vars, Uploaded
  <2> QED
    BY <2>1, <2>2, <2>3, <2>4
<1> QED
  BY <1>1, <1>2, NothingIsDone, PTL DEF Spec

\* What a case in an answer must be.
Needed(enabled, title) ==
    \E t \in Tests :
        /\ t.title.id = title.id /\ t.collection # Performance
        /\ PlatCert \notin enabled => t.title = title
        /\ t.pics \subseteq enabled /\ t.negated \cap enabled = {}

(* Whatever ApplicableOf finds is needed; and a variant of it is, when     *)
(* there is a platform to be certified.                                    *)
LEMMA FoundAreNeeded ==
    ASSUME NEW enabled, NEW collections, NEW considered,
           NEW found \in A!ApplicableOf(enabled, collections, considered)
    PROVE  /\ found \in [id : STRING, semi : BOOLEAN, partial : BOOLEAN]
           /\ Needed(enabled, found)
           /\ PlatCert \in enabled => \A title \in A!Variants(found) : Needed(enabled, title)
<1>1. PICK t \in Tests : /\ t.title = found /\ t.collection # Performance
                        /\ t.pics \subseteq enabled /\ t.negated \cap enabled = {}
  BY DEF A!ApplicableOf, A!Matches
<1>2. found \in [id : STRING, semi : BOOLEAN, partial : BOOLEAN]
  BY <1>1, ApplicabilityAssumption
<1>3. \A title \in A!Variants(found) : title.id = found.id
  BY <1>2 DEF A!Variants
<1> QED
  BY <1>1, <1>2, <1>3 DEF Needed

(* A plain title with one suffix.                                          *)
LEMMA WithSuffix ==
    ASSUME NEW id, NEW base, base = [id |-> id, semi |-> FALSE, partial |-> FALSE]
    PROVE  /\ \A r : r = [base EXCEPT !.semi = TRUE] => r = [id |-> id, semi |-> TRUE, partial |-> FALSE]
           /\ \A r : r = [base EXCEPT !.partial = TRUE] => r = [id |-> id, semi |-> FALSE, partial |-> TRUE]
OBVIOUS

(* A variant of a name that is skipped is left out.                        *)
LEMMA OnlyBothSuffixes ==
    ASSUME NEW skipped, NEW titles \in SUBSET [id : STRING, semi : BOOLEAN, partial : BOOLEAN],
           NEW title \in A!ProcessDerived(skipped, titles), title.id \in skipped
    PROVE  title.semi /\ title.partial
<1>1. /\ title \in [id : STRING, semi : BOOLEAN, partial : BOOLEAN]
      /\ title \notin A!Variants(A!Plain(title.id))
  BY DEF A!ProcessDerived
<1>2. A!Variants(A!Plain(title.id))
        = {[id |-> title.id, semi |-> FALSE, partial |-> FALSE],
           [id |-> title.id, semi |-> TRUE, partial |-> FALSE],
           [id |-> title.id, semi |-> FALSE, partial |-> TRUE]}
  <2> DEFINE base == A!Plain(title.id)
             semi == [base EXCEPT !.semi = TRUE]
             partial == [base EXCEPT !.partial = TRUE]
  <2>1. A!Variants(base) = {base, semi, partial}
    BY DEF A!Variants
  <2>2. base = [id |-> title.id, semi |-> FALSE, partial |-> FALSE]
    BY DEF A!Plain
  <2>3. semi = [base EXCEPT !.semi = TRUE] /\ partial = [base EXCEPT !.partial = TRUE]
    OBVIOUS
  <2> HIDE DEF base, semi, partial
  <2>4. semi = [id |-> title.id, semi |-> TRUE, partial |-> FALSE]
    BY <2>2, <2>3, WithSuffix
  <2>5. partial = [id |-> title.id, semi |-> FALSE, partial |-> TRUE]
    BY <2>2, <2>3, WithSuffix
  <2> QED
    BY <2>1, <2>2, <2>4, <2>5 DEF base
<1>3. title = [id |-> title.id, semi |-> title.semi, partial |-> title.partial]
  BY <1>1
<1>4. title.semi \in BOOLEAN /\ title.partial \in BOOLEAN
  BY <1>1
<1> QED
  BY <1>1, <1>2, <1>3, <1>4

(* The answer, from any clusters.                                          *)
LEMMA AnswerIsNeeded ==
    ASSUME NEW clusters, NEW skipped, Failure \notin A!Applicable(clusters, skipped),
           NEW title \in A!Applicable(clusters, skipped)
    PROVE  LET enabled == A!Enabled(clusters)
           IN /\ Needed(enabled, title)
              /\ (Derived \in enabled /\ title.id \in skipped) => title.semi /\ title.partial
<1> DEFINE enabled == A!Enabled(clusters)
           mandatory == A!ApplicableOf(enabled, A!AllCollections \cap Mandatory, {})
           others == A!ApplicableOf(enabled, A!AllCollections \ Mandatory, {})
           all == mandatory \cup others
           result == IF DOMAIN clusters = {} THEN {}
                     ELSE IF {PlatCert, Derived} \subseteq enabled THEN {Failure}
                     ELSE IF PlatCert \in enabled THEN A!ProcessPlatformTests(enabled)
                     ELSE IF Derived \in enabled THEN A!ProcessDerived(skipped, all)
                     ELSE all
<1>1. A!Applicable(clusters, skipped) = result
  BY DEF A!Applicable
<1>2. \A found \in all : found \in [id : STRING, semi : BOOLEAN, partial : BOOLEAN] /\ Needed(enabled, found)
  BY FoundAreNeeded
<1> HIDE DEF enabled, mandatory, others, all
<1>3. CASE ~({PlatCert, Derived} \subseteq enabled) /\ PlatCert \in enabled
  <2>1. title \in A!ProcessPlatformTests(enabled) /\ Derived \notin enabled
    BY <1>1, <1>3
  <2>2. PICK found \in A!ApplicableOf(enabled, A!AllCollections, PlatformTests) : title \in A!Variants(found)
    BY <2>1 DEF A!ProcessPlatformTests
  <2> QED
    BY <1>3, <2>1, <2>2, FoundAreNeeded DEF enabled
<1>4. CASE PlatCert \notin enabled /\ Derived \in enabled
  <2>1. title \in A!ProcessDerived(skipped, all)
    BY <1>1, <1>4
  <2>2. title \in all /\ all \in SUBSET [id : STRING, semi : BOOLEAN, partial : BOOLEAN]
    BY <1>2, <2>1 DEF A!ProcessDerived
  <2> QED
    BY <1>2, <2>1, <2>2, OnlyBothSuffixes DEF enabled
<1>5. CASE PlatCert \notin enabled /\ Derived \notin enabled
  BY <1>1, <1>2, <1>5 DEF enabled
<1>6. ~({PlatCert, Derived} \subseteq enabled)
  BY <1>1
<1> QED
  BY <1>3, <1>4, <1>5, <1>6

(* A client is told to run a case only if what the latest readable file of *)
(* each cluster says supports it, however many files were uploaded; and    *)
(* none to be skipped, but under the name with both suffixes.              *)
THEOREM AnswersAreApplicable == Spec => []SkippedAreNotApplicable
<1>1. ASSUME Uploaded, asked = "applicable", answered, Failure \notin output, NEW title \in output
      PROVE  LET enabled == Supported(input.uploads, Len(input.uploads))
             IN /\ Needed(enabled, title)
                /\ (Derived \in enabled /\ title.id \in input.skipped) => title.semi /\ title.partial
  <2>1. PICK clusters : /\ AreLatest(clusters, input.uploads, Len(input.uploads))
                        /\ output = A!Applicable(clusters, input.skipped)
    BY <1>1 DEF Uploaded
  <2>2. A!Enabled(clusters) = Supported(input.uploads, Len(input.uploads))
    BY <2>1, EnabledIsSupported
  <2> QED
    BY <1>1, <2>1, <2>2, AnswerIsNeeded
<1>2. Uploaded => SkippedAreNotApplicable
  BY <1>1 DEF SkippedAreNotApplicable, Needed
<1> QED
  BY <1>2, UploadedStays, PTL

-----------------------------------------------------------------------------
(***************************************************************************)
(* The log of a run.                                                       *)
(***************************************************************************)
Entry == [suite : Nat, case : Nat, text : Nat]

\* The group g of the first n entries: those of them that belong to it, in the
\* order of the log.
IsGroup(file, run, g, n) ==
    /\ file \in Seq(Entry)
    /\ \A j \in 1..Len(file) :
          /\ file[j].text \in 1..n
          /\ file[j] = run.log[file[j].text]
          /\ L!GroupOf(run.rows, file[j]) = g
    /\ \A j, k \in 1..Len(file) : j < k => file[j].text < file[k].text

Holds(file, i) == \E j \in 1..Len(file) : file[j].text = i

\* The groups of the first n entries.
AreGroups(groups, run, n) ==
    /\ DOMAIN groups = {[kind |-> "general"]} \cup {L!GroupOf(run.rows, run.log[i]) : i \in 1..n}
    /\ \A g \in DOMAIN groups : IsGroup(groups[g], run, g, n)
    /\ \A i \in 1..n : Holds(groups[L!GroupOf(run.rows, run.log[i])], i)

Archived ==
    asked = "archive" =>
        /\ input \in Runs /\ done \in 0..Len(input.log)
        /\ ~answered => AreGroups(output, input, done)
        /\ answered => \E groups : AreGroups(groups, input, Len(input.log)) /\ output = L!Archive(groups)

(* An entry more in another group.                                         *)
LEMMA GroupStays ==
    ASSUME NEW run, NEW n \in Nat, NEW file, NEW g, IsGroup(file, run, g, n)
    PROVE  IsGroup(file, run, g, n + 1)
BY DEF IsGroup

(* An entry more in its group.                                             *)
LEMMA GroupAfter ==
    ASSUME NEW run, NEW n \in Nat, NEW file, NEW g, IsGroup(file, run, g, n),
           run.log[n + 1] \in Entry, run.log[n + 1].text = n + 1,
           L!GroupOf(run.rows, run.log[n + 1]) = g
    PROVE  /\ IsGroup(Append(file, run.log[n + 1]), run, g, n + 1)
           /\ Holds(Append(file, run.log[n + 1]), n + 1)
           /\ \A i : Holds(file, i) => Holds(Append(file, run.log[n + 1]), i)
<1> DEFINE e == run.log[n + 1]
           after == Append(file, e)
<1>1. file \in Seq(Entry) /\ Len(file) \in Nat
  BY DEF IsGroup
<1>2. /\ after \in Seq(Entry) /\ Len(after) = Len(file) + 1
      /\ \A j \in 1..Len(file) : after[j] = file[j]
      /\ after[Len(file) + 1] = e
  <2> HIDE DEF e
  <2> QED
    BY <1>1, AppendProperties DEF e
<1>3. e.text = n + 1 /\ L!GroupOf(run.rows, e) = g
  OBVIOUS
<1>4. e = run.log[e.text]
  OBVIOUS
<1> HIDE DEF e, after
<1>5. \A j \in 1..Len(after) : j \in 1..Len(file) \/ j = Len(file) + 1
  BY <1>1, <1>2
<1>6. ASSUME NEW j \in 1..Len(after)
      PROVE  /\ after[j].text \in 1..(n + 1)
             /\ after[j] = run.log[after[j].text]
             /\ L!GroupOf(run.rows, after[j]) = g
  <2>1. CASE j \in 1..Len(file)
    <3>1. after[j] = file[j] /\ file[j].text \in 1..n
      BY <1>2, <2>1 DEF IsGroup
    <3> QED
      BY <2>1, <3>1 DEF IsGroup
  <2>2. CASE j = Len(file) + 1
    BY <1>2, <1>3, <1>4, <2>2
  <2> QED
    BY <1>5, <2>1, <2>2
<1>7. ASSUME NEW j \in 1..Len(after), NEW k \in 1..Len(after), j < k
      PROVE  after[j].text < after[k].text
  <2>1. j \in 1..Len(file) /\ after[j] = file[j]
    BY <1>1, <1>2, <1>7
  <2>2. CASE k \in 1..Len(file)
    BY <1>2, <1>7, <2>1, <2>2 DEF IsGroup
  <2>3. CASE k = Len(file) + 1
    <3>1. file[j].text \in 1..n /\ after[k] = e
      BY <1>2, <2>1, <2>3 DEF IsGroup
    <3> QED
      BY <1>3, <2>1, <3>1
  <2> QED
    BY <1>5, <2>2, <2>3
<1>8. IsGroup(after, run, g, n + 1)
  BY <1>2, <1>6, <1>7 DEF IsGroup
<1>9. Holds(after, n + 1)
  <2>1. Len(file) + 1 \in 1..Len(after) /\ after[Len(file) + 1].text = n + 1
    BY <1>1, <1>2, <1>3
  <2> QED
    BY <2>1 DEF Holds
<1>10. ASSUME NEW i, Holds(file, i) PROVE Holds(after, i)
  <2>1. PICK j \in 1..Len(file) : file[j].text = i
    BY <1>10 DEF Holds
  <2>2. j \in 1..Len(after) /\ after[j].text = i
    BY <1>1, <1>2, <2>1
  <2> QED
    BY <2>2 DEF Holds
<1> QED
  BY <1>8, <1>9, <1>10 DEF after, e

(* An empty group.                                                         *)
LEMMA GroupBegins == ASSUME NEW run, NEW g, NEW n PROVE IsGroup(<<>>, run, g, n)
BY DEF IsGroup

(* AddEntry keeps the groups.                                              *)
LEMMA GroupsAfter ==
    ASSUME NEW run, NEW n \in Nat, NEW groups, AreGroups(groups, run, n),
           run.log[n + 1] \in Entry, run.log[n + 1].text = n + 1
    PROVE  AreGroups(L!AddEntry(run.rows, groups, run.log[n + 1]), run, n + 1)
<1> DEFINE e == run.log[n + 1]
           Of(i) == L!GroupOf(run.rows, run.log[i])
           group == L!GroupOf(run.rows, e)
           before == IF group \in DOMAIN groups THEN groups[group] ELSE <<>>
           after == L!AddEntry(run.rows, groups, e)
<1>1. /\ DOMAIN after = DOMAIN groups \cup {group}
      /\ after[group] = Append(before, e)
      /\ \A g \in DOMAIN groups : g # group => after[g] = groups[g]
  BY DEF L!AddEntry
<1>2. IsGroup(before, run, group, n)
  BY GroupBegins DEF AreGroups
<1>3. /\ IsGroup(Append(before, e), run, group, n + 1)
      /\ Holds(Append(before, e), n + 1)
      /\ \A i : Holds(before, i) => Holds(Append(before, e), i)
  BY <1>2, GroupAfter
<1>4. \A i \in 1..n : group = Of(i) => before = groups[Of(i)]
  BY DEF AreGroups
<1>5. Of(n + 1) = group
  OBVIOUS
<1> HIDE DEF after, group, before
<1>6. DOMAIN after = {[kind |-> "general"]} \cup {Of(i) : i \in 1..(n + 1)}
  <2>1. 1..(n + 1) = (1..n) \cup {n + 1}
    OBVIOUS
  <2>2. DOMAIN groups = {[kind |-> "general"]} \cup {Of(i) : i \in 1..n}
    BY DEF AreGroups
  <2> HIDE DEF Of
  <2> QED
    BY <1>1, <1>5, <2>1, <2>2
<1>7. ASSUME NEW g \in DOMAIN after PROVE IsGroup(after[g], run, g, n + 1)
  <2>1. CASE g = group
    BY <1>1, <1>3, <2>1
  <2>2. CASE g # group
    <3>1. g \in DOMAIN groups /\ after[g] = groups[g] /\ IsGroup(groups[g], run, g, n)
      BY <1>1, <2>2 DEF AreGroups
    <3> QED
      BY <3>1, GroupStays
  <2> QED
    BY <2>1, <2>2
<1>8. ASSUME NEW i \in 1..(n + 1) PROVE Holds(after[Of(i)], i)
  <2>1. CASE i = n + 1
    BY <1>1, <1>3, <1>5, <2>1
  <2>2. CASE i \in 1..n
    <3>1. Holds(groups[Of(i)], i) /\ Of(i) \in DOMAIN groups
      BY <2>2 DEF AreGroups
    <3>2. CASE Of(i) = group
      BY <1>1, <1>3, <1>4, <2>2, <3>1, <3>2
    <3>3. CASE Of(i) # group
      BY <1>1, <3>1, <3>3
    <3> QED
      BY <3>2, <3>3
  <2> QED
    BY <2>1, <2>2
<1> QED
  BY <1>6, <1>7, <1>8 DEF AreGroups, after, e

(* The entries of a run.                                                   *)
LEMMA EntriesOfRuns ==
    ASSUME NEW run \in Runs, NEW i \in 1..Len(run.log)
    PROVE  run.log[i] \in Entry /\ run.log[i].text = i
<1>1. run.log \in Seq(Entry)
  BY RunsAssumption DEF Entry
<1>2. i \in DOMAIN run.log /\ run.log[i] \in Entry
  BY <1>1
<1> QED
  BY <1>2, RunsAssumption

(* Archived holds of every run.                                            *)
LEMMA ArchivedStays == Spec => []Archived
<1>1. Init => Archived
  BY DEF Init, Archived
<1>2. Archived /\ NothingDone /\ [Next]_vars => Archived'
  <2> SUFFICES ASSUME Archived, NothingDone, [Next]_vars PROVE Archived'
    OBVIOUS
  <2>1. CASE AskArchive
    <3>1. PICK run \in Runs :
            /\ input' = run /\ output' = L!NoGroups /\ done' = 0
            /\ answered' = answered
      BY <2>1 DEF AskArchive, Ask, NothingDone
    <3>2. AreGroups(L!NoGroups, run, 0)
      <4>1. /\ DOMAIN L!NoGroups = {[kind |-> "general"]}
            /\ \A g \in DOMAIN L!NoGroups : L!NoGroups[g] = <<>>
        BY DEF L!NoGroups
      <4>2. 1..0 = {}
        OBVIOUS
      <4> QED
        BY <4>1, <4>2, GroupBegins DEF AreGroups
    <3>3. run.log \in Seq(Entry) /\ ~answered'
      BY <2>1, <3>1, RunsAssumption DEF AskArchive, Ask, NothingDone, Entry
    <3> QED
      BY <3>1, <3>2, <3>3 DEF Archived
  <2>2. CASE GroupEntry
    <3>1. /\ asked = "archive" /\ ~answered /\ done < Len(input.log)
          /\ output' = L!AddEntry(input.rows, output, input.log[done + 1])
          /\ done' = done + 1 /\ UNCHANGED <<asked, input, answered>>
      BY <2>2 DEF GroupEntry, WorkOn, Become
    <3>2. input \in Runs /\ done \in 0..Len(input.log) /\ AreGroups(output, input, done)
      BY <3>1 DEF Archived
    <3>3. input.log \in Seq(Entry)
      BY <3>2, RunsAssumption DEF Entry
    <3>4. done \in Nat /\ done + 1 \in 1..Len(input.log)
      BY <3>1, <3>2, <3>3
    <3>5. AreGroups(output', input, done + 1)
      BY <3>1, <3>2, <3>4, EntriesOfRuns, GroupsAfter
    <3>6. done' \in 0..Len(input.log)
      BY <3>1, <3>3, <3>4
    <3> QED
      BY <3>1, <3>2, <3>5, <3>6 DEF Archived
  <2>3. CASE AnswerArchive
    <3>1. /\ asked = "archive" /\ ~answered /\ done = Len(input.log)
          /\ output' = L!Archive(output)
          /\ answered' /\ UNCHANGED <<asked, input, done>>
      BY <2>3 DEF AnswerArchive, Answer
    <3> QED
      BY <3>1 DEF Archived
  <2>4. CASE ~AskArchive /\ ~GroupEntry /\ ~AnswerArchive
    <3>1. asked' = "archive" => UNCHANGED vars
      BY <2>4 DEF Next, vars, DeclarePython, DeclareYaml, AskApplicable, Upload, AnswerApplicable,
            AskReport, ReadLine, AnswerReport, AskCommissioning, SetUp, Ask, WorkOn, Become, Answer
    <3> QED
      BY <3>1 DEF vars, Archived
  <2> QED
    BY <2>1, <2>2, <2>3, <2>4
<1> QED
  BY <1>1, <1>2, NothingIsDone, PTL DEF Spec

(* Whose group an entry is in.                                             *)
LEMMA KindOfGroup ==
    ASSUME NEW run \in Runs, NEW i \in DOMAIN run.log
    PROVE  LET e == run.log[i]
               g == L!GroupOf(run.rows, e)
           IN /\ e.case # 0 =>
                   /\ g.kind = "case" /\ e.suite # 0
                   /\ g.state = run.rows[e.suite].cases[e.case].state
                   /\ g.id = run.rows[e.suite].cases[e.case].id
              /\ e.case = 0 /\ e.suite # 0 => g.kind = "suite"
              /\ e.suite = 0 => e.case = 0 /\ g.kind = "general"
<1>1. run.log[i].case # 0 => run.log[i].suite # 0
  BY RunsAssumption
<1> QED
  BY <1>1 DEF L!GroupOf

(* The texts of a file are the entries of its groups, once and in order.   *)
LEMMA TextsOfFile ==
    ASSUME NEW run \in Runs, NEW groups, AreGroups(groups, run, Len(run.log)),
           NEW G \in SUBSET DOMAIN groups
    PROVE  LET file == [g \in G |-> groups[g]]
           IN /\ Texts(file) = {i \in DOMAIN run.log : L!GroupOf(run.rows, run.log[i]) \in G}
              /\ OnceInOrder(file)
<1> DEFINE file == [g \in G |-> groups[g]]
           Of(i) == L!GroupOf(run.rows, run.log[i])
<1>0. DOMAIN run.log = 1..Len(run.log)
  BY RunsAssumption
<1>1. DOMAIN file = G /\ \A g \in G : file[g] = groups[g] /\ IsGroup(file[g], run, g, Len(run.log))
  BY DEF AreGroups
<1>2. \A g \in G : DOMAIN file[g] = 1..Len(file[g])
  BY <1>1 DEF IsGroup
<1> HIDE DEF file
<1>3. ASSUME NEW g \in G, NEW j \in DOMAIN file[g]
      PROVE  file[g][j].text \in DOMAIN run.log /\ Of(file[g][j].text) = g
  BY <1>0, <1>1, <1>2 DEF IsGroup
<1>4. ASSUME NEW x \in Texts(file) PROVE x \in DOMAIN run.log /\ Of(x) \in G
  <2>1. PICK g \in G : \E j \in DOMAIN file[g] : x = file[g][j].text
    BY <1>1 DEF Texts
  <2> QED
    BY <1>3, <2>1
<1>5. ASSUME NEW x \in DOMAIN run.log, Of(x) \in G PROVE x \in Texts(file)
  <2>1. Holds(groups[Of(x)], x)
    BY <1>0 DEF AreGroups
  <2> DEFINE g == Of(x)
  <2>2. g \in G /\ \E j \in DOMAIN file[g] : file[g][j].text = x
    BY <1>1, <1>2, <1>5, <2>1 DEF Holds
  <2> HIDE DEF g
  <2>3. x \in {file[g][j].text : j \in DOMAIN file[g]}
    BY <2>2
  <2> QED
    BY <1>1, <2>2, <2>3 DEF Texts
<1>6. Texts(file) = {i \in DOMAIN run.log : Of(i) \in G}
  BY <1>4, <1>5
<1>7. OnceInOrder(file)
  <2>1. ASSUME NEW g \in G, NEW h \in G, NEW i \in DOMAIN file[g], NEW j \in DOMAIN file[h],
               file[g][i].text = file[h][j].text
        PROVE  g = h
    <3>1. Of(file[g][i].text) = g /\ Of(file[h][j].text) = h
      BY <1>3
    <3> QED
      BY <2>1, <3>1
  <2>2. ASSUME NEW g \in G, NEW i \in DOMAIN file[g], NEW j \in DOMAIN file[g], i < j
        PROVE  file[g][i].text < file[g][j].text
    BY <1>1, <1>2, <2>2 DEF IsGroup
  <2> QED
    BY <1>1, <2>1, <2>2 DEF OnceInOrder
<1> QED
  BY <1>6, <1>7 DEF file

(* Every entry of a log is in the files it belongs to and in no other,     *)
(* once and in the order of the log, whatever the rows of the run are.     *)
THEOREM EntriesAreInTheirFiles == Spec => []EveryEntryIsInItsFile
<1> DEFINE log == input.log
           Of(i) == L!GroupOf(input.rows, log[i])
           OfCases == {i \in DOMAIN log : log[i].case # 0}
           CaseOf(i) == input.rows[log[i].suite].cases[log[i].case]
           General == {i \in DOMAIN log : log[i].suite = 0}
           Mine(state) == {i \in OfCases : CaseOf(i).state = state}
           Groups(groups) == AreGroups(groups, input, Len(log))
<1>1. ASSUME input \in Runs, NEW groups, Groups(groups)
      PROVE  LET archive == L!Archive(groups)
             IN /\ Texts(archive.suites) = DOMAIN log \ OfCases
                /\ OnceInOrder(archive.suites)
                /\ DOMAIN archive.cases = {CaseOf(i).state : i \in OfCases}
                /\ \A s \in DOMAIN archive.cases :
                     /\ Texts(archive.cases[s]) = General \cup Mine(s)
                     /\ OnceInOrder(archive.cases[s])
                     /\ archive.summary[s].ids = {CaseOf(i).id : i \in Mine(s)}
  <2> DEFINE archive == L!Archive(groups)
             general == [kind |-> "general"]
  <2>1. \A i \in DOMAIN log :
          /\ log[i].case # 0 =>
               /\ Of(i).kind = "case" /\ log[i].suite # 0
               /\ Of(i).state = CaseOf(i).state /\ Of(i).id = CaseOf(i).id
          /\ log[i].case = 0 /\ log[i].suite # 0 => Of(i).kind = "suite"
          /\ log[i].suite = 0 => log[i].case = 0 /\ Of(i).kind = "general"
    BY <1>1, KindOfGroup
  <2>2. DOMAIN log = 1..Len(log)
    BY <1>1, RunsAssumption
  <2>3. DOMAIN groups = {general} \cup {Of(i) : i \in DOMAIN log} /\ general.kind = "general"
    BY <1>1, <2>2 DEF AreGroups
  <2>4. /\ archive.suites = [g \in L!GroupsOf(groups, "general") \cup L!GroupsOf(groups, "suite") |-> groups[g]]
        /\ DOMAIN archive.cases = L!StatesOf(groups)
        /\ \A s \in L!StatesOf(groups) :
             /\ archive.cases[s] = [g \in L!GroupsOf(groups, "general") \cup L!CasesIn(groups, s) |-> groups[g]]
             /\ archive.summary[s].ids = {g.id : g \in L!CasesIn(groups, s)}
    BY DEF L!Archive, L!SuitesFile, L!CasesFile, L!Summary
  <2> HIDE DEF archive, general, Of, CaseOf, log
  <2>5. ASSUME NEW G \in SUBSET DOMAIN groups
        PROVE  /\ Texts([g \in G |-> groups[g]]) = {i \in DOMAIN log : Of(i) \in G}
               /\ OnceInOrder([g \in G |-> groups[g]])
    BY <1>1, TextsOfFile DEF log, Of
  <2>6. Texts(archive.suites) = DOMAIN log \ OfCases /\ OnceInOrder(archive.suites)
    <3> DEFINE G == L!GroupsOf(groups, "general") \cup L!GroupsOf(groups, "suite")
    <3>1. G \in SUBSET DOMAIN groups
      BY DEF L!GroupsOf
    <3>2. \A i \in DOMAIN log : Of(i) \in G <=> log[i].case = 0
      BY <2>1, <2>3 DEF L!GroupsOf
    <3>3. archive.suites = [g \in G |-> groups[g]]
      BY <2>4
    <3> HIDE DEF G
    <3>4. {i \in DOMAIN log : Of(i) \in G} = DOMAIN log \ OfCases
      BY <3>2
    <3> QED
      BY <2>5, <3>1, <3>3, <3>4
  <2>7. DOMAIN archive.cases = {CaseOf(i).state : i \in OfCases}
    <3>1. ASSUME NEW s \in L!StatesOf(groups) PROVE \E i \in OfCases : s = CaseOf(i).state
      <4>1. PICK g \in DOMAIN groups : g.kind = "case" /\ s = g.state
        BY DEF L!StatesOf, L!GroupsOf
      <4>2. PICK i \in DOMAIN log : g = Of(i)
        BY <2>3, <4>1
      <4> QED
        BY <2>1, <4>1, <4>2
    <3>2. ASSUME NEW i \in OfCases PROVE CaseOf(i).state \in L!StatesOf(groups)
      <4>1. Of(i) \in DOMAIN groups /\ Of(i).kind = "case" /\ Of(i).state = CaseOf(i).state
        BY <2>1, <2>3
      <4> QED
        BY <4>1 DEF L!StatesOf, L!GroupsOf
    <3> QED
      BY <2>4, <3>1, <3>2
  <2>8. ASSUME NEW s \in DOMAIN archive.cases
        PROVE  /\ Texts(archive.cases[s]) = General \cup Mine(s)
               /\ OnceInOrder(archive.cases[s])
               /\ archive.summary[s].ids = {CaseOf(i).id : i \in Mine(s)}
    <3> DEFINE G == L!GroupsOf(groups, "general") \cup L!CasesIn(groups, s)
    <3>1. G \in SUBSET DOMAIN groups
      BY DEF L!GroupsOf, L!CasesIn
    <3>2. \A i \in DOMAIN log :
            /\ Of(i) \in L!GroupsOf(groups, "general") <=> i \in General
            /\ Of(i) \in L!CasesIn(groups, s) <=> i \in Mine(s)
      BY <2>1, <2>3 DEF L!GroupsOf, L!CasesIn
    <3>3. /\ archive.cases[s] = [g \in G |-> groups[g]]
          /\ archive.summary[s].ids = {g.id : g \in L!CasesIn(groups, s)}
      BY <2>4
    <3>4. {g.id : g \in L!CasesIn(groups, s)} = {CaseOf(i).id : i \in Mine(s)}
      <4>1. ASSUME NEW g \in L!CasesIn(groups, s) PROVE \E i \in Mine(s) : g.id = CaseOf(i).id
        <5>1. g \in DOMAIN groups /\ g.kind = "case" /\ g.state = s
          BY DEF L!CasesIn, L!GroupsOf
        <5>2. PICK i \in DOMAIN log : g = Of(i)
          BY <2>3, <5>1
        <5>3. i \in Mine(s)
          BY <3>2, <5>2
        <5> QED
          BY <2>1, <5>2, <5>3
      <4>2. ASSUME NEW i \in Mine(s) PROVE \E g \in L!CasesIn(groups, s) : g.id = CaseOf(i).id
        BY <2>1, <3>2
      <4> HIDE DEF Mine
      <4> QED
        BY <4>1, <4>2
    <3>5. {i \in DOMAIN log : Of(i) \in G} = General \cup Mine(s)
      BY <3>2
    <3> HIDE DEF G
    <3> QED
      BY <2>5, <3>1, <3>3, <3>4, <3>5
  <2> QED
    BY <2>6, <2>7, <2>8 DEF archive
<1>2. Archived => EveryEntryIsInItsFile
  <2> SUFFICES ASSUME Archived, asked = "archive", answered
               PROVE  /\ Texts(output.suites) = DOMAIN log \ OfCases
                      /\ OnceInOrder(output.suites)
                      /\ DOMAIN output.cases = {CaseOf(i).state : i \in OfCases}
                      /\ \A s \in DOMAIN output.cases :
                           /\ Texts(output.cases[s]) = General \cup Mine(s)
                           /\ OnceInOrder(output.cases[s])
                           /\ output.summary[s].ids = {CaseOf(i).id : i \in Mine(s)}
    BY DEF EveryEntryIsInItsFile
  <2>1. input \in Runs
    BY DEF Archived
  <2>2. PICK groups : Groups(groups) /\ output = L!Archive(groups)
    BY DEF Archived
  <2> HIDE DEF OfCases, CaseOf, General, Mine, Groups, log
  <2> QED
    BY <1>1, <2>1, <2>2
<1> QED
  BY <1>2, ArchivedStays, PTL

-----------------------------------------------------------------------------
(***************************************************************************)
(* The report of a performance test.                                       *)
(***************************************************************************)
Known == {P!Iteration[j] : j \in 1..11} \cup P!Verdicts

Times == UNION {[lines -> Int] : lines \in SUBSET Known}

Results == {"PASS", "FAIL", "ERROR", "CANCELLED"}

ParserState ==
    [begun : Seq(Times), ended : Seq(Nat), result : {""} \cup Results, statuses : Seq(Results)]

\* The times of the lines 2 to r of the b-th commissioning are known.
Timed(times, b, r) ==
    \A j \in 2..r : P!Iteration[j] \in DOMAIN times /\ times[P!Iteration[j]] = 11 * (b - 1) + j

\* The parser has read q whole commissionings, and r lines of one more.
Parsing(s, q, r) ==
    /\ s \in ParserState
    /\ s.result = "" /\ s.statuses = <<>>
    /\ s.ended = [i \in 1..q |-> i]
    /\ Len(s.begun) = IF r = 0 THEN q ELSE q + 1
    /\ \A b \in 1..q : Timed(s.begun[b], b, 10)
    /\ r # 0 => Timed(s.begun[q + 1], q + 1, r)

Result(verdict) ==
    CASE verdict = "PASSED" -> "PASS"
      [] verdict = "FAILED" -> "FAIL"
      [] OTHER -> verdict

\* It has read the whole log.
ParsedAll(s, complete, verdict) ==
    /\ s \in ParserState
    /\ s.ended = [i \in 1..complete |-> i]
    /\ s.statuses = [i \in 1..complete |-> Result(verdict)]
    /\ \A b \in 1..complete : Timed(s.begun[b], b, 10)

Lines(c) == 11 * c.complete + c.broken

(* The lines of a commissioning, by their places.                          *)
LEMMA NamedLines ==
    /\ P!Iteration[1] = "begin" /\ P!Iteration[2] = "reset app"
    /\ P!Iteration[3] = "start app" /\ P!Iteration[4] = "discovered"
    /\ P!Iteration[5] = "PBKDFParamRequest" /\ P!Iteration[6] = "active"
    /\ P!Iteration[7] = "read performing" /\ P!Iteration[8] = "read successful"
    /\ P!Iteration[9] = "cleanup performing" /\ P!Iteration[10] = "cleanup successful"
    /\ P!Iteration[11] = "stop app"
BY DEF P!Iteration

(* They differ from each other, and from a verdict.                        *)
LEMMA LinesDiffer ==
    /\ Len(P!Iteration) = 11
    /\ \A j \in 2..10 : P!Iteration[j] # "begin" /\ P!Iteration[j] # "stop app"
    /\ \A i, j \in 1..11 : P!Iteration[i] = P!Iteration[j] => i = j
    /\ \A j \in 1..11 : P!Iteration[j] \notin P!Verdicts
<1>1. Len(P!Iteration) = 11
  BY DEF P!Iteration
<1> DEFINE Eleven == {1, 2, 3, 4, 5, 6, 7, 8, 9, 10, 11}
<1>2. 1..11 = Eleven /\ 2..10 = Eleven \ {1, 11}
  OBVIOUS
<1>3. ASSUME NEW i \in Eleven
      PROVE  /\ i \in {1, 11} \/ (P!Iteration[i] # "begin" /\ P!Iteration[i] # "stop app")
             /\ \A j \in Eleven : P!Iteration[i] = P!Iteration[j] => i = j
             /\ P!Iteration[i] \notin P!Verdicts
  <2>1. CASE i = 1
    BY <2>1, NamedLines DEF P!Verdicts
  <2>2. CASE i = 2
    BY <2>2, NamedLines DEF P!Verdicts
  <2>3. CASE i = 3
    BY <2>3, NamedLines DEF P!Verdicts
  <2>4. CASE i = 4
    BY <2>4, NamedLines DEF P!Verdicts
  <2>5. CASE i = 5
    BY <2>5, NamedLines DEF P!Verdicts
  <2>6. CASE i = 6
    BY <2>6, NamedLines DEF P!Verdicts
  <2>7. CASE i = 7
    BY <2>7, NamedLines DEF P!Verdicts
  <2>8. CASE i = 8
    BY <2>8, NamedLines DEF P!Verdicts
  <2>9. CASE i = 9
    BY <2>9, NamedLines DEF P!Verdicts
  <2>10. CASE i = 10
    BY <2>10, NamedLines DEF P!Verdicts
  <2>11. CASE i = 11
    BY <2>11, NamedLines DEF P!Verdicts
  <2> QED
    BY <2>1, <2>2, <2>3, <2>4, <2>5, <2>6, <2>7, <2>8, <2>9, <2>10, <2>11
<1> HIDE DEF Eleven
<1>4. \A j \in Eleven \ {1, 11} : P!Iteration[j] # "begin" /\ P!Iteration[j] # "stop app"
  BY <1>3
<1>5. \A i, j \in Eleven : P!Iteration[i] = P!Iteration[j] => i = j
  BY <1>3
<1>6. \A j \in Eleven : P!Iteration[j] \notin P!Verdicts
  BY <1>3
<1> QED
  BY <1>1, <1>2, <1>4, <1>5, <1>6

(* A line of the log of the script.                                        *)
LEMMA LineOfLog ==
    ASSUME NEW c \in Commissionings, NEW q \in Nat, NEW r \in 0..10, 11 * q + r < Lines(c)
    PROVE  P!ScriptLog(c.complete, c.broken)[11 * q + r + 1] = P!Iteration[r + 1]
<1>1. c.complete \in Nat /\ c.broken \in Nat
  BY ReportAssumption
<1>2. Len(P!Iteration) = 11
  BY LinesDiffer
<1> DEFINE n == 11 * q + r + 1
<1>3. n \in 1..Lines(c)
  BY <1>1 DEF Lines
<1>4. (n - 1) % 11 = r
  OBVIOUS
<1> HIDE DEF n
<1>5. P!ScriptLog(c.complete, c.broken)[n] = P!Iteration[((n - 1) % 11) + 1]
  BY <1>1, <1>2, <1>3 DEF P!ScriptLog, Lines
<1> QED
  BY <1>4, <1>5 DEF n

(* The length of the log, and its last line.                               *)
LEMMA LogOfScript ==
    ASSUME NEW c \in Commissionings
    PROVE  LET script == P!ScriptLog(c.complete, c.broken)
               log == Append(script, c.verdict)
           IN /\ Len(log) = Lines(c) + 1
              /\ \A n \in 1..Lines(c) : log[n] = script[n]
              /\ log[Lines(c) + 1] = c.verdict
<1> DEFINE script == P!ScriptLog(c.complete, c.broken)
<1>1. c.complete \in Nat /\ c.broken \in Nat /\ Lines(c) \in Nat
  BY ReportAssumption DEF Lines
<1>2. Len(P!Iteration) = 11
  BY LinesDiffer
<1>3. script = [n \in 1..Lines(c) |-> script[n]]
  BY <1>2 DEF P!ScriptLog, Lines
<1> HIDE DEF script
<1>4. /\ Len(Append(script, c.verdict)) = Lines(c) + 1
      /\ \A n \in 1..Lines(c) : Append(script, c.verdict)[n] = script[n]
      /\ Append(script, c.verdict)[Lines(c) + 1] = c.verdict
  BY <1>1, <1>3, OneMore
<1> QED
  BY <1>4 DEF script

(* A line that neither begins nor ends a commissioning is remembered.      *)
LEMMA EventAdded ==
    ASSUME NEW times \in Times, NEW line \in Known, NEW time \in Int
    PROVE  /\ P!AddEvent(times, line, time) \in Times
           /\ DOMAIN P!AddEvent(times, line, time) = DOMAIN times \cup {line}
           /\ P!AddEvent(times, line, time)[line] = time
           /\ \A l \in DOMAIN times : l # line => P!AddEvent(times, line, time)[l] = times[l]
<1>1. PICK lines \in SUBSET Known : times \in [lines -> Int]
  BY DEF Times
<1> DEFINE after == P!AddEvent(times, line, time)
<1>2. after \in [lines \cup {line} -> Int] /\ lines \cup {line} \in SUBSET Known
  BY <1>1 DEF P!AddEvent
<1>3. after \in Times
  <2> HIDE DEF after
  <2> QED
    BY <1>2 DEF Times
<1> QED
  BY <1>1, <1>3 DEF P!AddEvent

(* Until the case completes a line has no other effect.                    *)
LEMMA NothingCompletes ==
    ASSUME NEW s, NEW line, line \notin P!Verdicts
    PROVE  P!Complete(s, line) = s
BY DEF P!Complete

(* The first line of a commissioning.                                      *)
LEMMA ParseBegin ==
    ASSUME NEW s, NEW q \in Nat, Parsing(s, q, 0), NEW time
    PROVE  Parsing(P!ParseLine(s, "begin", time), q, 1)
<1> DEFINE empty == [l \in {} |-> 0]
           after == [s EXCEPT !.begun = Append(@, empty)]
<1>1. P!ParseLine(s, "begin", time) = after
  <2>1. P!Complete(s, "begin") = s
    BY NothingCompletes DEF P!Verdicts
  <2> QED
    BY <2>1 DEF P!ParseLine
<1>2. empty \in Times
  <2>1. empty \in [{} -> Int] /\ {} \in SUBSET Known
    OBVIOUS
  <2> HIDE DEF empty
  <2> QED
    BY <2>1 DEF Times
<1>3. s.begun \in Seq(Times) /\ Len(s.begun) = q /\ s \in ParserState
  BY DEF Parsing, ParserState
<1>4. /\ after \in ParserState
      /\ after.begun = Append(s.begun, empty)
      /\ after.result = s.result /\ after.statuses = s.statuses /\ after.ended = s.ended
  <2> HIDE DEF empty
  <2>1. Append(s.begun, empty) \in Seq(Times)
    BY <1>2, <1>3
  <2> QED
    BY <1>3, <2>1 DEF ParserState
<1> HIDE DEF after
<1>5. /\ Len(after.begun) = q + 1
      /\ \A b \in 1..q : after.begun[b] = s.begun[b]
  <2> HIDE DEF empty
  <2> QED
    BY <1>2, <1>3, <1>4, AppendProperties
<1>6. Timed(after.begun[q + 1], q + 1, 1)
  BY DEF Timed
<1>7. \A b \in 1..q : Timed(after.begun[b], b, 10)
  BY <1>5 DEF Parsing
<1>8. /\ after.result = "" /\ after.statuses = <<>>
      /\ after.ended = [i \in 1..q |-> i]
  BY <1>4 DEF Parsing
<1>9. Parsing(after, q, 1)
  <2>1. Len(after.begun) = IF 1 = 0 THEN q ELSE q + 1
    BY <1>5
  <2>2. after \in ParserState
    BY <1>4
  <2> QED
    BY <1>6, <1>7, <1>8, <2>1, <2>2 DEF Parsing
<1> QED
  BY <1>1, <1>9

\* The time of a line of the latest commissioning is remembered.
Remembered(s, line, time) == [s EXCEPT !.begun[Len(s.begun)] = P!AddEvent(@, line, time)]

(* What a line does that is remembered.                                    *)
LEMMA EventRemembered ==
    ASSUME NEW s \in ParserState, NEW line \in Known, NEW time \in Int, s.begun # <<>>
    PROVE  LET n == Len(s.begun)
               after == Remembered(s, line, time)
           IN /\ after \in ParserState
              /\ after.result = s.result /\ after.statuses = s.statuses /\ after.ended = s.ended
              /\ Len(after.begun) = n /\ n \in Nat \ {0}
              /\ \A b \in 1..(n - 1) : after.begun[b] = s.begun[b]
              /\ after.begun[n] = P!AddEvent(s.begun[n], line, time)
              /\ s.begun[n] \in Times
<1> DEFINE n == Len(s.begun)
           times == P!AddEvent(s.begun[n], line, time)
           begun == [s.begun EXCEPT ![n] = times]
           after == Remembered(s, line, time)
<1>1. s.begun \in Seq(Times) /\ n \in Nat \ {0}
  <2>1. s.begun \in Seq(Times)
    BY DEF ParserState
  <2> QED
    BY <2>1, EmptySeq
<1>2. s.begun[n] \in Times
  BY <1>1
<1>3. times \in Times
  BY <1>2, EventAdded
<1>4. after = [s EXCEPT !.begun = begun]
  BY DEF ParserState, Remembered
<1> HIDE DEF after, times
<1>5. /\ begun \in Seq(Times) /\ Len(begun) = n
      /\ \A b \in 1..(n - 1) : begun[b] = s.begun[b]
      /\ begun[n] = times
  BY <1>1, <1>3
<1> HIDE DEF begun
<1>6. /\ after \in ParserState /\ after.begun = begun
      /\ after.result = s.result /\ after.statuses = s.statuses /\ after.ended = s.ended
  BY <1>4, <1>5 DEF ParserState
<1> HIDE DEF n
<1> QED
  BY <1>1, <1>2, <1>5, <1>6 DEF after, times, n

(* While a commissioning is read, there is one.                            *)
LEMMA WhileReading ==
    ASSUME NEW s, NEW q \in Nat, NEW r \in 1..10, Parsing(s, q, r)
    PROVE  /\ s \in ParserState /\ Len(s.begun) = q + 1 /\ s.begun # <<>>
           /\ s.result = "" /\ s.statuses = <<>> /\ s.ended = [i \in 1..q |-> i]
           /\ \A b \in 1..q : Timed(s.begun[b], b, 10)
           /\ Timed(s.begun[q + 1], q + 1, r)
<1>1. r # 0
  OBVIOUS
<1>2. s \in ParserState /\ Len(s.begun) = q + 1
  BY <1>1 DEF Parsing
<1>3. s.begun # <<>>
  <2>1. Len(<<>>) # q + 1
    BY EmptySeq
  <2> QED
    BY <1>2, <2>1
<1> QED
  BY <1>1, <1>2, <1>3 DEF Parsing

(* A line between the first and the last of a commissioning.               *)
LEMMA ParseEvent ==
    ASSUME NEW s, NEW q \in Nat, NEW r \in 1..9, Parsing(s, q, r)
    PROVE  Parsing(P!ParseLine(s, P!Iteration[r + 1], 11 * q + r + 1), q, r + 1)
<1> DEFINE line == P!Iteration[r + 1]
           time == 11 * q + r + 1
           n == Len(s.begun)
           after == Remembered(s, line, time)
<1>1. /\ time \in Int
      /\ line \in Known /\ line \notin P!Verdicts /\ line # "begin" /\ line # "stop app"
  <2>1. r + 1 \in 2..10 /\ r + 1 \in 1..11
    OBVIOUS
  <2>2. line \in Known
    BY <2>1 DEF Known
  <2>3. line \notin P!Verdicts /\ line # "begin" /\ line # "stop app"
    BY <2>1, LinesDiffer
  <2>4. time \in Int
    OBVIOUS
  <2> HIDE DEF line, time
  <2> QED
    BY <2>2, <2>3, <2>4
<1>2. /\ s \in ParserState /\ n = q + 1 /\ s.begun # <<>>
      /\ s.result = "" /\ s.statuses = <<>> /\ s.ended = [i \in 1..q |-> i]
      /\ \A b \in 1..q : Timed(s.begun[b], b, 10)
      /\ Timed(s.begun[q + 1], q + 1, r)
  <2>1. r \in 1..10
    OBVIOUS
  <2> QED
    BY <2>1, WhileReading
<1> HIDE DEF line, time
<1>3. P!ParseLine(s, line, time) = after
  <2>1. P!Complete(s, line) = s
    BY <1>1, NothingCompletes
  <2> QED
    BY <1>1, <1>2, <2>1 DEF P!ParseLine, Remembered
<1>4. /\ after \in ParserState
      /\ after.result = s.result /\ after.statuses = s.statuses /\ after.ended = s.ended
      /\ Len(after.begun) = n
      /\ \A b \in 1..(n - 1) : after.begun[b] = s.begun[b]
      /\ after.begun[n] = P!AddEvent(s.begun[n], line, time)
      /\ s.begun[n] \in Times
  <2>1. s \in ParserState /\ line \in Known /\ time \in Int /\ s.begun # <<>>
    BY <1>1, <1>2
  <2> HIDE DEF after
  <2> QED
    BY <2>1, EventRemembered DEF after
<1> HIDE DEF after, n
<1>0. n = q + 1 /\ n - 1 = q
  <2>1. n = q + 1
    BY <1>2
  <2> QED
    BY <2>1
<1>5. \A b \in 1..q : Timed(after.begun[b], b, 10)
  <2> SUFFICES ASSUME NEW b \in 1..q PROVE Timed(after.begun[b], b, 10)
    OBVIOUS
  <2>1. after.begun[b] = s.begun[b]
    BY <1>0, <1>4
  <2> QED
    BY <1>2, <2>1
<1> DEFINE times == s.begun[n]
           added == P!AddEvent(times, line, time)
<1>6. /\ DOMAIN added = DOMAIN times \cup {line}
      /\ added[line] = time
      /\ \A l \in DOMAIN times : l # line => added[l] = times[l]
  <2> HIDE DEF times
  <2> QED
    BY DEF added, P!AddEvent
<1>7. Timed(times, q + 1, r)
  BY <1>0, <1>2, Zenon
<1> HIDE DEF times, added
<1>8. Timed(added, q + 1, r + 1)
  <2> SUFFICES ASSUME NEW j \in 2..(r + 1)
               PROVE  /\ P!Iteration[j] \in DOMAIN added
                      /\ added[P!Iteration[j]] = 11 * ((q + 1) - 1) + j
    BY DEF Timed
  <2>1. CASE j = r + 1
    <3>1. P!Iteration[j] = line /\ time = 11 * ((q + 1) - 1) + j
      BY <2>1 DEF line, time
    <3> QED
      BY <1>6, <3>1
  <2>2. CASE j \in 2..r
    <3>1. P!Iteration[j] # line
      <4>1. j \in 1..11 /\ r + 1 \in 1..11 /\ j # r + 1
        BY <2>2
      <4> QED
        BY <4>1, LinesDiffer DEF line
    <3>2. P!Iteration[j] \in DOMAIN times /\ times[P!Iteration[j]] = 11 * ((q + 1) - 1) + j
      BY <1>7, <2>2 DEF Timed
    <3> QED
      BY <1>6, <3>1, <3>2
  <2> QED
    BY <2>1, <2>2
<1>9. Parsing(after, q, r + 1)
  <2>1. Len(after.begun) = IF r + 1 = 0 THEN q ELSE q + 1
    <3>1. Len(after.begun) = q + 1 /\ r + 1 # 0
      BY <1>0, <1>4
    <3> QED
      BY <3>1
  <2>2. after \in ParserState /\ after.result = "" /\ after.statuses = <<>> /\ after.ended = [i \in 1..q |-> i]
    BY <1>2, <1>4
  <2>3. Timed(after.begun[q + 1], q + 1, r + 1)
    BY <1>0, <1>4, <1>8 DEF added, times
  <2> QED
    BY <1>5, <2>1, <2>2, <2>3 DEF Parsing
<1> QED
  BY <1>3, <1>9 DEF line, time

(* The last line of a commissioning.                                       *)
LEMMA ParseEnd ==
    ASSUME NEW s, NEW q \in Nat, Parsing(s, q, 10), NEW time
    PROVE  Parsing(P!ParseLine(s, "stop app", time), q + 1, 0)
<1> DEFINE after == [s EXCEPT !.ended = Append(@, Len(s.begun))]
<1>1. /\ s \in ParserState /\ Len(s.begun) = q + 1 /\ s.begun # <<>>
      /\ s.result = "" /\ s.statuses = <<>> /\ s.ended = [i \in 1..q |-> i]
      /\ \A b \in 1..q : Timed(s.begun[b], b, 10)
      /\ Timed(s.begun[q + 1], q + 1, 10)
  <2>1. 10 \in 1..10
    OBVIOUS
  <2> QED
    BY <2>1, WhileReading
<1>2. P!ParseLine(s, "stop app", time) = after
  <2>1. P!Complete(s, "stop app") = s
    BY NothingCompletes DEF P!Verdicts
  <2> QED
    BY <1>1, <2>1 DEF P!ParseLine
<1>3. /\ s.ended \in Seq(Nat) /\ Len(s.ended) = q
      /\ Append(s.ended, q + 1) \in Seq(Nat)
      /\ Append(s.ended, q + 1) = [i \in 1..(q + 1) |-> i]
  <2> DEFINE ended == s.ended
  <2>1. ended = [i \in 1..q |-> i]
    BY <1>1
  <2> HIDE DEF ended
  <2>2. ended \in Seq(Nat) /\ Len(ended) = q
    BY <2>1
  <2>3. /\ Append(ended, q + 1) \in Seq(Nat) /\ Len(Append(ended, q + 1)) = q + 1
        /\ \A i \in 1..q : Append(ended, q + 1)[i] = ended[i]
        /\ Append(ended, q + 1)[q + 1] = q + 1
    BY <2>2, AppendProperties
  <2>4. Append(ended, q + 1) = [i \in 1..(q + 1) |-> i]
    <3> DEFINE longer == Append(ended, q + 1)
    <3>1. \A i \in 1..(q + 1) : longer[i] = i
      BY <2>1, <2>3
    <3>2. longer = [i \in 1..(q + 1) |-> longer[i]]
      BY <2>3
    <3> HIDE DEF longer
    <3> QED
      BY <3>1, <3>2 DEF longer
  <2> QED
    BY <2>2, <2>3, <2>4 DEF ended
<1>4. /\ after \in ParserState
      /\ after.ended = Append(s.ended, q + 1)
      /\ after.begun = s.begun /\ after.result = "" /\ after.statuses = <<>>
  BY <1>1, <1>3 DEF ParserState
<1> HIDE DEF after
<1>5. after.ended = [i \in 1..(q + 1) |-> i]
  BY <1>3, <1>4
<1>6. \A b \in 1..(q + 1) : Timed(after.begun[b], b, 10)
  <2>1. \A b \in 1..(q + 1) : b \in 1..q \/ b = q + 1
    OBVIOUS
  <2> QED
    BY <1>1, <1>4, <2>1
<1>7. Parsing(after, q + 1, 0)
  <2>1. Len(after.begun) = IF 0 = 0 THEN q + 1 ELSE (q + 1) + 1
    BY <1>1, <1>4
  <2>2. 0 # 0 => Timed(after.begun[(q + 1) + 1], (q + 1) + 1, 0)
    OBVIOUS
  <2> QED
    BY <1>4, <1>5, <1>6, <2>1, <2>2 DEF Parsing
<1> QED
  BY <1>2, <1>7

(* The last line of the log, which tells the verdict.                      *)
LEMMA ParseVerdict ==
    ASSUME NEW s, NEW q \in Nat \ {0}, NEW r \in 0..10, Parsing(s, q, r),
           NEW verdict \in P!Verdicts, NEW time \in Int
    PROVE  ParsedAll(P!ParseLine(s, verdict, time), q, verdict)
<1> DEFINE result == Result(verdict)
           done1 == P!Complete(s, verdict)
           after == Remembered(done1, verdict, time)
           n == Len(s.begun)
<1>1. result \in Results /\ verdict \in Known /\ verdict # "begin" /\ verdict # "stop app"
  BY DEF Result, Results, Known, P!Verdicts
<1>2. /\ s \in ParserState /\ s.result = "" /\ s.ended = [i \in 1..q |-> i]
      /\ \A b \in 1..q : Timed(s.begun[b], b, 10)
  BY DEF Parsing
<1>3. n \in Nat /\ n >= q /\ s.begun \in Seq(Times)
  <2>1. s.begun \in Seq(Times)
    BY <1>2 DEF ParserState
  <2>2. n = IF r = 0 THEN q ELSE q + 1
    BY DEF Parsing
  <2> QED
    BY <2>1, <2>2
<1>4. done1 = [s EXCEPT !.result = result, !.statuses = [i \in 1..q |-> result]]
  <2>1. DOMAIN s.ended = 1..q
    BY <1>2
  <2> QED
    BY <1>2, <2>1 DEF P!Complete, Result
<1>5. /\ done1 \in ParserState
      /\ done1.begun = s.begun /\ done1.ended = s.ended
      /\ done1.statuses = [i \in 1..q |-> result]
  <2>1. [i \in 1..q |-> result] \in Seq(Results)
    <3>1. result \in Results /\ q \in Nat
      BY <1>1
    <3> HIDE DEF result
    <3> QED
      BY <3>1
  <2> HIDE DEF result, done1
  <2> QED
    BY <1>1, <1>2, <1>4, <2>1 DEF ParserState
<1> HIDE DEF done1
<1>6. done1.begun # <<>>
  <2>1. Len(<<>>) = 0
    BY EmptySeq
  <2>2. Len(done1.begun) # 0
    BY <1>3, <1>5
  <2> QED
    BY <2>1, <2>2
<1>7. P!ParseLine(s, verdict, time) = after
  BY <1>1, <1>6 DEF P!ParseLine, Remembered, done1
<1>8. /\ after \in ParserState
      /\ after.statuses = done1.statuses /\ after.ended = done1.ended
      /\ \A b \in 1..(n - 1) : after.begun[b] = s.begun[b]
      /\ after.begun[n] = P!AddEvent(s.begun[n], verdict, time)
      /\ s.begun[n] \in Times
  <2> HIDE DEF after
  <2>1. /\ after \in ParserState
        /\ after.statuses = done1.statuses /\ after.ended = done1.ended
        /\ \A b \in 1..(Len(done1.begun) - 1) : after.begun[b] = done1.begun[b]
        /\ after.begun[Len(done1.begun)] = P!AddEvent(done1.begun[Len(done1.begun)], verdict, time)
        /\ done1.begun[Len(done1.begun)] \in Times
    BY <1>1, <1>5, <1>6, EventRemembered DEF after
  <2> QED
    BY <1>5, <2>1
<1> HIDE DEF after, n
<1>9. ASSUME NEW b \in 1..q PROVE Timed(after.begun[b], b, 10)
  <2>1. Timed(s.begun[b], b, 10)
    BY <1>2
  <2>2. CASE b = n
    <3> DEFINE times == s.begun[n]
               added == P!AddEvent(times, verdict, time)
    <3>1. /\ DOMAIN added = DOMAIN times \cup {verdict}
          /\ \A l \in DOMAIN times : l # verdict => added[l] = times[l]
      <4> HIDE DEF times
      <4> QED
        BY DEF added, P!AddEvent
    <3>2. Timed(times, b, 10) /\ after.begun[b] = added
      BY <1>8, <2>1, <2>2
    <3> HIDE DEF times, added
    <3>3. \A j \in 2..10 : P!Iteration[j] # verdict
      <4>1. \A j \in 2..10 : j \in 1..11
        OBVIOUS
      <4> QED
        BY <4>1, LinesDiffer
    <3>4. Timed(added, b, 10)
      BY <3>1, <3>2, <3>3 DEF Timed
    <3> QED
      BY <3>2, <3>4
  <2>3. CASE b # n
    <3>1. b \in 1..(n - 1)
      BY <1>3, <2>3
    <3> QED
      BY <1>8, <2>1, <3>1
  <2> QED
    BY <2>2, <2>3
<1>10. ParsedAll(after, q, verdict)
  <2>1. after.ended = [i \in 1..q |-> i] /\ after.statuses = [i \in 1..q |-> Result(verdict)]
    BY <1>2, <1>5, <1>8
  <2> QED
    BY <1>8, <1>9, <2>1 DEF ParsedAll
<1> QED
  BY <1>7, <1>10

(* The times of a commissioning that is known to its end.                  *)
LEMMA DurationsOf ==
    ASSUME NEW times, NEW b \in Nat, Timed(times, b, 10)
    PROVE  /\ P!HasTimes(times)
           /\ P!Whole(times) = 7
           /\ \A stage \in {"discovery", "PASE", "read"} : P!Duration(times, stage) = 1
<1> DEFINE At11(l, j) == l \in DOMAIN times /\ times[l] = 11 * (b - 1) + j
<1>1. ASSUME NEW j \in 2..10 PROVE At11(P!Iteration[j], j)
  BY DEF Timed
<1> HIDE DEF At11
<1>2. /\ At11("start app", 3) /\ At11("discovered", 4)
      /\ At11("PBKDFParamRequest", 5) /\ At11("active", 6)
      /\ At11("read performing", 7) /\ At11("read successful", 8)
      /\ At11("cleanup successful", 10)
  <2>1. 3 \in 2..10 /\ 4 \in 2..10 /\ 5 \in 2..10 /\ 6 \in 2..10 /\ 7 \in 2..10 /\ 8 \in 2..10 /\ 10 \in 2..10
    OBVIOUS
  <2> QED
    BY <1>1, <2>1, NamedLines
<1>3. P!HasTimes(times)
  <2> DEFINE named == {"discovered", "start app", "active", "PBKDFParamRequest",
                       "read successful", "read performing", "cleanup successful"}
  <2>1. ASSUME NEW stage \in {"discovery", "PASE", "read"}
        PROVE  {P!Stages[stage].begin, P!Stages[stage].end} \subseteq named
    <3>1. /\ P!Stages["discovery"].begin = "start app" /\ P!Stages["discovery"].end = "discovered"
          /\ P!Stages["PASE"].begin = "PBKDFParamRequest" /\ P!Stages["PASE"].end = "active"
          /\ P!Stages["read"].begin = "read performing" /\ P!Stages["read"].end = "read successful"
      BY DEF P!Stages
    <3> QED
      BY <3>1
  <2>2. P!Stages["cleanup"].end \in named
    BY DEF P!Stages
  <2>3. named \subseteq DOMAIN times
    BY <1>2 DEF At11
  <2> HIDE DEF named
  <2> QED
    BY <2>1, <2>2, <2>3 DEF P!HasTimes
<1>4. P!Whole(times) = times["cleanup successful"] - times["start app"]
  BY DEF P!Whole, P!Stages
<1>5. /\ P!Duration(times, "discovery") = times["discovered"] - times["start app"]
      /\ P!Duration(times, "PASE") = times["active"] - times["PBKDFParamRequest"]
      /\ P!Duration(times, "read") = times["read successful"] - times["read performing"]
  BY DEF P!Duration, P!Stages
<1>6. P!Whole(times) = 7
  <2>1. times["cleanup successful"] = 11 * (b - 1) + 10 /\ times["start app"] = 11 * (b - 1) + 3
    BY <1>2 DEF At11
  <2>2. (11 * (b - 1) + 10) - (11 * (b - 1) + 3) = 7
    OBVIOUS
  <2> QED
    BY <1>4, <2>1, <2>2, Zenon
<1>7. P!Duration(times, "discovery") = 1
  <2>1. times["discovered"] = 11 * (b - 1) + 4 /\ times["start app"] = 11 * (b - 1) + 3
    BY <1>2 DEF At11
  <2>2. (11 * (b - 1) + 4) - (11 * (b - 1) + 3) = 1
    OBVIOUS
  <2> QED
    BY <1>5, <2>1, <2>2, Zenon
<1>8. P!Duration(times, "PASE") = 1
  <2>1. times["active"] = 11 * (b - 1) + 6 /\ times["PBKDFParamRequest"] = 11 * (b - 1) + 5
    BY <1>2 DEF At11
  <2>2. (11 * (b - 1) + 6) - (11 * (b - 1) + 5) = 1
    OBVIOUS
  <2> QED
    BY <1>5, <2>1, <2>2, Zenon
<1>9. P!Duration(times, "read") = 1
  <2>1. times["read successful"] = 11 * (b - 1) + 8 /\ times["read performing"] = 11 * (b - 1) + 7
    BY <1>2 DEF At11
  <2>2. (11 * (b - 1) + 8) - (11 * (b - 1) + 7) = 1
    OBVIOUS
  <2> QED
    BY <1>5, <2>1, <2>2, Zenon
<1> QED
  BY <1>3, <1>6, <1>7, <1>8, <1>9

\* What the property says of a report.
AddsUp(report, complete, verdict) ==
    /\ report # Failure
    /\ report.iterations = complete
    /\ report.passed + report.failed = complete
    /\ report.result = "PASS" <=> verdict = "PASSED"
    /\ \A i \in 1..complete :
         LET r == report.records[i]
         IN /\ r.status = "PASS" <=> verdict = "PASSED"
            /\ \A stage \in DOMAIN r.stages : r.stages[stage] > 0
            /\ r.stages["discovery"] + r.stages["PASE"] + r.stages["read"] < r.duration

(* A set has the size the report counts.                                   *)
LEMMA SizeOf == ASSUME NEW S PROVE P!Cardinality(S) = Cardinality(S)
  BY DEF P!Cardinality, Cardinality

(* When all commissionings have one status, it is that of the report.      *)
LEMMA OneStatus ==
    ASSUME NEW n \in Nat \ {0}, NEW result \in Results, NEW statuses,
           DOMAIN statuses = 1..n, \A i \in 1..n : statuses[i] = result
    PROVE  /\ P!ComputeState(statuses) \in {"PASS", "FAIL"}
           /\ P!ComputeState(statuses) = "PASS" <=> result = "PASS"
           /\ P!CountState(statuses, TRUE) \in Nat /\ P!CountState(statuses, FALSE) \in Nat
           /\ P!CountState(statuses, TRUE) + P!CountState(statuses, FALSE) = n
<1>1. DOMAIN statuses = 1..n /\ \A i \in 1..n : statuses[i] = result
  OBVIOUS
<1>2. P!ToSet(statuses) = {result}
  <2>1. 1 \in 1..n
    OBVIOUS
  <2> QED
    BY <1>1, <2>1 DEF P!ToSet
<1>3. Cardinality(1..n) = n /\ Cardinality({}) = 0
  BY FS_Interval, FS_EmptySet
<1> DEFINE good == {i \in DOMAIN statuses : (statuses[i] = "PASS") = TRUE}
           bad == {i \in DOMAIN statuses : (statuses[i] = "PASS") = FALSE}
<1>4. P!CountState(statuses, TRUE) = Cardinality(good) /\ P!CountState(statuses, FALSE) = Cardinality(bad)
  <2>1. P!CountState(statuses, TRUE) = P!Cardinality(good)
    BY DEF P!CountState
  <2>2. P!CountState(statuses, FALSE) = P!Cardinality(bad)
    BY DEF P!CountState
  <2> HIDE DEF good, bad
  <2> QED
    BY <2>1, <2>2, SizeOf
<1>5. CASE result = "PASS"
  <2>1. good = 1..n /\ bad = {}
    BY <1>1, <1>5
  <2>2. P!ComputeState(statuses) = "PASS"
    BY <1>2, <1>5 DEF P!ComputeState
  <2>3. P!CountState(statuses, TRUE) = n /\ P!CountState(statuses, FALSE) = 0
    <3> HIDE DEF good, bad
    <3> QED
      BY <1>3, <1>4, <2>1
  <2>4. n + 0 = n /\ n \in Nat /\ 0 \in Nat
    OBVIOUS
  <2> QED
    BY <1>5, <2>2, <2>3, <2>4
<1>6. CASE result # "PASS"
  <2>1. good = {} /\ bad = 1..n
    BY <1>1, <1>6
  <2>2. P!ComputeState(statuses) = "FAIL"
    BY <1>2, <1>6 DEF P!ComputeState, Results
  <2>3. P!CountState(statuses, TRUE) = 0 /\ P!CountState(statuses, FALSE) = n
    <3> HIDE DEF good, bad
    <3> QED
      BY <1>3, <1>4, <2>1
  <2>4. 0 + n = n /\ n \in Nat /\ 0 \in Nat
    OBVIOUS
  <2> QED
    BY <1>6, <2>2, <2>3, <2>4
<1> QED
  BY <1>5, <1>6

(* The report of what was parsed adds up.                                  *)
LEMMA ParsedAddsUp ==
    ASSUME NEW s, NEW n \in Nat \ {0}, NEW verdict \in P!Verdicts, ParsedAll(s, n, verdict)
    PROVE  AddsUp(P!CreateSummaryReport(s), n, verdict)
<1> DEFINE found == P!Found(s)
           statuses == s.statuses
           result == Result(verdict)
           report == P!GenerateSummary(found, statuses)
<1>1. result \in Results /\ (result = "PASS" <=> verdict = "PASSED")
  BY DEF Result, Results, P!Verdicts
<1>2. statuses = [i \in 1..n |-> result]
  BY DEF ParsedAll
<1> HIDE DEF result, statuses
<1>3. found = [i \in 1..n |-> s.begun[i]]
  <2>1. s.ended = [i \in 1..n |-> i]
    BY DEF ParsedAll
  <2>2. DOMAIN s.ended = 1..n /\ \A i \in 1..n : s.ended[i] = i
    BY <2>1
  <2> QED
    BY <2>2 DEF P!Found
<1>4. \A i \in 1..n : Timed(found[i], i, 10)
  BY <1>3 DEF ParsedAll
<1>5. found # <<>> /\ Len(found) = n /\ DOMAIN found = 1..n
  <2>1. DOMAIN found = 1..n /\ 1 \in 1..n
    BY <1>3
  <2>2. Len(found) = n
    BY <1>3
  <2>3. found # <<>>
    <3>1. DOMAIN <<>> = {}
      OBVIOUS
    <3> HIDE DEF found
    <3> QED
      BY <2>1, <3>1
  <2> QED
    BY <2>1, <2>2, <2>3
<1>6. Len(statuses) = n
  BY <1>2
<1> HIDE DEF found
<1>7. ASSUME NEW i \in 1..n
      PROVE  /\ P!HasTimes(found[i]) /\ P!Whole(found[i]) = 7
             /\ \A stage \in {"discovery", "PASE", "read"} : P!Duration(found[i], stage) = 1
  BY <1>4, DurationsOf
<1>8. P!CreateSummaryReport(s) = report
  <2>1. ~(\E i \in DOMAIN found : ~P!HasTimes(found[i]))
    BY <1>5, <1>7
  <2>2. ~(Len(statuses) < Len(found))
    BY <1>5, <1>6
  <2> HIDE DEF report
  <2> QED
    BY <1>5, <2>1, <2>2 DEF P!CreateSummaryReport, report, found, statuses
<1> DEFINE records == [i \in 1..n |->
               [status |-> result, duration |-> 7,
                stages |-> [stage \in {"discovery", "PASE", "read"} |-> 1]]]
<1>9. report = [result |-> P!ComputeState(statuses), iterations |-> n,
                passed |-> P!CountState(statuses, TRUE), failed |-> P!CountState(statuses, FALSE),
                records |-> records]
  <2>1. ASSUME NEW i \in 1..n
        PROVE  [status |-> statuses[i], duration |-> P!Whole(found[i]),
                stages |-> [stage \in {"discovery", "PASE", "read"} |-> P!Duration(found[i], stage)]]
                 = records[i]
    <3>1. statuses[i] = result
      BY <1>2
    <3> QED
      BY <1>7, <3>1
  <2>2. [i \in DOMAIN found |->
          [status |-> statuses[i], duration |-> P!Whole(found[i]),
           stages |-> [stage \in {"discovery", "PASE", "read"} |-> P!Duration(found[i], stage)]]]
          = records
    BY <1>5, <2>1
  <2> HIDE DEF records
  <2> QED
    BY <1>5, <2>2 DEF P!GenerateSummary
<1>10. /\ P!ComputeState(statuses) \in {"PASS", "FAIL"}
       /\ P!ComputeState(statuses) = "PASS" <=> result = "PASS"
       /\ P!CountState(statuses, TRUE) \in Nat /\ P!CountState(statuses, FALSE) \in Nat
       /\ P!CountState(statuses, TRUE) + P!CountState(statuses, FALSE) = n
  <2>1. DOMAIN statuses = 1..n /\ \A i \in 1..n : statuses[i] = result
    BY <1>2
  <2>2. result \in Results
    BY <1>1
  <2> QED
    BY <2>1, <2>2, OneStatus
<1>11. records \in Seq([status : {"PASS", "FAIL", "ERROR", "CANCELLED"}, duration : Int,
                        stages : [{"discovery", "PASE", "read"} -> Int]])
  <2> DEFINE S == [status : {"PASS", "FAIL", "ERROR", "CANCELLED"}, duration : Int,
                   stages : [{"discovery", "PASE", "read"} -> Int]]
             record == [status |-> result, duration |-> 7,
                        stages |-> [stage \in {"discovery", "PASE", "read"} |-> 1]]
  <2>1. record \in S
    BY <1>1 DEF Results
  <2> HIDE DEF S, record
  <2>2. [i \in 1..n |-> record] \in Seq(S)
    BY <2>1
  <2> QED
    BY <2>2 DEF S, record
<1>12. \A i \in 1..n :
         /\ records[i].status = result /\ records[i].duration = 7
         /\ DOMAIN records[i].stages = {"discovery", "PASE", "read"}
         /\ \A stage \in {"discovery", "PASE", "read"} : records[i].stages[stage] = 1
  OBVIOUS
<1> HIDE DEF records, report
<1>13. report # Failure
  <2>1. report \in Report
    BY <1>9, <1>10, <1>11 DEF Report
  <2> QED
    BY <2>1, ReportAssumption
<1>14. /\ report.iterations = n /\ report.passed + report.failed = n
       /\ report.result = "PASS" <=> verdict = "PASSED"
       /\ report.records = records
  BY <1>1, <1>9, <1>10
<1>15. ASSUME NEW i \in 1..n
       PROVE  LET r == report.records[i]
              IN /\ r.status = "PASS" <=> verdict = "PASSED"
                 /\ \A stage \in DOMAIN r.stages : r.stages[stage] > 0
                 /\ r.stages["discovery"] + r.stages["PASE"] + r.stages["read"] < r.duration
  BY <1>1, <1>12, <1>14
<1> QED
  BY <1>8, <1>13, <1>14, <1>15 DEF AddsUp

(* The next line of a commissioning, or the first of another.              *)
LEMMA ParseNext ==
    ASSUME NEW s, NEW q \in Nat, NEW r \in 0..10, Parsing(s, q, r)
    PROVE  \E q2 \in Nat, r2 \in 0..10 :
              /\ (11 * q + r) + 1 = 11 * q2 + r2
              /\ Parsing(P!ParseLine(s, P!Iteration[r + 1], (11 * q + r) + 1), q2, r2)
<1> DEFINE After(line) == P!ParseLine(s, line, (11 * q + r) + 1)
<1>1. CASE r = 0
  <2>1. P!Iteration[r + 1] = "begin"
    <3>1. r + 1 = 1
      BY <1>1
    <3>2. P!Iteration[1] = "begin"
      BY NamedLines
    <3> QED
      BY <3>1, <3>2, Zenon
  <2>2. Parsing(s, q, 0)
    BY <1>1
  <2>3. Parsing(After("begin"), q, 1)
    BY <2>2, ParseBegin
  <2>4. (11 * q + r) + 1 = 11 * q + 1 /\ 1 \in 0..10
    BY <1>1
  <2> HIDE DEF After
  <2> QED
    BY <2>1, <2>3, <2>4, Zenon DEF After
<1>2. CASE r \in 1..9
  <2>1. Parsing(P!ParseLine(s, P!Iteration[r + 1], 11 * q + r + 1), q, r + 1)
    BY <1>2, ParseEvent
  <2>2. (11 * q + r) + 1 = 11 * q + (r + 1) /\ r + 1 \in 0..10
    BY <1>2
  <2> QED
    BY <2>1, <2>2, Zenon
<1>3. CASE r = 10
  <2>1. P!Iteration[r + 1] = "stop app"
    <3>1. r + 1 = 11
      BY <1>3
    <3>2. P!Iteration[11] = "stop app"
      BY NamedLines
    <3> QED
      BY <3>1, <3>2, Zenon
  <2>2. Parsing(s, q, 10)
    BY <1>3
  <2>3. Parsing(After("stop app"), q + 1, 0)
    BY <2>2, ParseEnd
  <2>4. (11 * q + r) + 1 = 11 * (q + 1) + 0 /\ q + 1 \in Nat /\ 0 \in 0..10
    BY <1>3
  <2> HIDE DEF After
  <2> QED
    BY <2>1, <2>3, <2>4, Zenon DEF After
<1> QED
  BY <1>1, <1>2, <1>3

(* How much has been read when all is.                                     *)
LEMMA ReadToTheEnd ==
    ASSUME NEW c \in Commissionings, NEW q \in Nat, NEW r \in 0..10, 11 * q + r = Lines(c)
    PROVE  q = c.complete /\ r = c.broken
<1>1. c.complete \in Nat /\ c.broken \in 0..10
  BY ReportAssumption
<1>2. ASSUME NEW m \in Nat, NEW k \in 0..10, 11 * q + r = 11 * m + k PROVE q = m /\ r = k
  BY <1>2
<1> QED
  BY <1>1, <1>2 DEF Lines

\* What has been read of the log of a commissioning.
Reading(c, parsed, n) ==
    /\ n \in 0..(Lines(c) + 1)
    /\ n <= Lines(c) => \E q \in Nat, r \in 0..10 : n = 11 * q + r /\ Parsing(parsed, q, r)
    /\ n = Lines(c) + 1 => ParsedAll(parsed, c.complete, c.verdict)

Reported ==
    asked = "report" =>
        \E c \in Commissionings :
            /\ input = [complete |-> c.complete, verdict |-> c.verdict,
                        log |-> Append(P!ScriptLog(c.complete, c.broken), c.verdict)]
            /\ ~answered => Reading(c, output, done)
            /\ answered => \E s : /\ ParsedAll(s, c.complete, c.verdict)
                                  /\ output = P!CreateSummaryReport(s)

(* One more line is read.                                                  *)
LEMMA ReadOneMore ==
    ASSUME NEW c \in Commissionings, NEW parsed, NEW n, Reading(c, parsed, n),
           NEW log, log = Append(P!ScriptLog(c.complete, c.broken), c.verdict), n < Len(log)
    PROVE  Reading(c, P!ParseLine(parsed, log[n + 1], n + 1), n + 1)
<1> DEFINE script == P!ScriptLog(c.complete, c.broken)
<1>1. c.complete \in Nat \ {0} /\ c.broken \in Nat /\ Lines(c) \in Nat /\ c.verdict \in P!Verdicts
  <2>1. c.complete \in Nat \ {0} /\ c.broken \in 0..10 /\ c.verdict \in P!Verdicts
    BY ReportAssumption
  <2>2. c.broken \in Nat /\ 11 * c.complete \in Nat
    BY <2>1
  <2> QED
    BY <2>1, <2>2 DEF Lines
<1>2. /\ Len(log) = Lines(c) + 1
      /\ \A k \in 1..Lines(c) : log[k] = script[k]
      /\ log[Lines(c) + 1] = c.verdict
  BY LogOfScript
<1> HIDE DEF script
<1>3. n \in 0..Lines(c) /\ n <= Lines(c)
  BY <1>1, <1>2 DEF Reading
<1>4. PICK q \in Nat, r \in 0..10 : n = 11 * q + r /\ Parsing(parsed, q, r)
  BY <1>3 DEF Reading
<1>5. CASE n < Lines(c)
  <2>1. log[n + 1] = P!Iteration[r + 1]
    <3>1. n + 1 \in 1..Lines(c)
      BY <1>1, <1>3, <1>5
    <3>2. 11 * q + r < Lines(c)
      BY <1>4, <1>5
    <3>3. script[11 * q + r + 1] = P!Iteration[r + 1]
      BY <3>2, LineOfLog DEF script
    <3>4. 11 * q + r + 1 = n + 1
      BY <1>4
    <3> QED
      BY <1>2, <3>1, <3>3, <3>4
  <2> DEFINE after == P!ParseLine(parsed, log[n + 1], n + 1)
  <2>2. \E q2 \in Nat, r2 \in 0..10 : n + 1 = 11 * q2 + r2 /\ Parsing(after, q2, r2)
    BY <1>4, <2>1, ParseNext
  <2>3. n + 1 \in 0..(Lines(c) + 1) /\ n + 1 # Lines(c) + 1
    BY <1>1, <1>3, <1>5
  <2> HIDE DEF after
  <2> QED
    BY <2>2, <2>3 DEF Reading, after
<1>6. CASE n = Lines(c)
  <2>1. q = c.complete /\ r = c.broken
    <3>1. 11 * q + r = Lines(c)
      BY <1>4, <1>6
    <3> QED
      BY <3>1, ReadToTheEnd
  <2>2. n + 1 \in Int /\ log[n + 1] = c.verdict
    BY <1>1, <1>2, <1>6
  <2> DEFINE after == P!ParseLine(parsed, log[n + 1], n + 1)
  <2>3. q \in Nat \ {0}
    BY <1>1, <2>1
  <2>4. ParsedAll(after, q, c.verdict)
    BY <1>1, <1>4, <2>2, <2>3, ParseVerdict
  <2> HIDE DEF after
  <2>5. n + 1 \in 0..(Lines(c) + 1) /\ ~(n + 1 <= Lines(c))
    BY <1>1, <1>6
  <2> QED
    BY <2>1, <2>4, <2>5 DEF Reading, after
<1> QED
  BY <1>1, <1>3, <1>5, <1>6

(* Before the first line nothing is known.                                 *)
LEMMA NothingRead == Parsing(P!NothingParsed, 0, 0)
<1> DEFINE s == P!NothingParsed
<1>1. s.begun = <<>> /\ s.ended = <<>> /\ s.result = "" /\ s.statuses = <<>>
  BY DEF P!NothingParsed
<1>2. s \in ParserState
  BY EmptySeq DEF P!NothingParsed, ParserState
<1> HIDE DEF s
<1>3. Len(s.begun) = 0 /\ 1..0 = {}
  <2>1. Len(<<>>) = 0
    BY EmptySeq
  <2>2. 1..0 = {}
    OBVIOUS
  <2> QED
    BY <1>1, <2>1, <2>2, Zenon
<1>4. s.ended = [i \in 1..0 |-> i]
  <2>1. <<>> = [i \in 1..0 |-> i]
    OBVIOUS
  <2> QED
    BY <1>1, <2>1, Zenon
<1>5. Len(s.begun) = IF 0 = 0 THEN 0 ELSE 0 + 1
  BY <1>3
<1>6. \A b \in 1..0 : Timed(s.begun[b], b, 10)
  BY <1>3
<1>7. ~(0 # 0)
  OBVIOUS
<1> QED
  BY <1>1, <1>2, <1>4, <1>5, <1>6, <1>7, Zenon DEF Parsing, s

(* Reported holds of every report.                                         *)
LEMMA ReportedStays == Spec => []Reported
<1>1. Init => Reported
  BY DEF Init, Reported
<1> DEFINE InputOf(c) == [complete |-> c.complete, verdict |-> c.verdict,
                          log |-> Append(P!ScriptLog(c.complete, c.broken), c.verdict)]
<1>2. Reported /\ NothingDone /\ [Next]_vars => Reported'
  <2> SUFFICES ASSUME Reported, NothingDone, [Next]_vars PROVE Reported'
    OBVIOUS
  <2>1. CASE AskReport
    <3>1. PICK c \in Commissionings :
            /\ input' = InputOf(c) /\ output' = P!NothingParsed /\ done' = 0
            /\ answered' = answered
      BY <2>1 DEF AskReport, Ask, NothingDone
    <3>2. Lines(c) \in Nat
      BY ReportAssumption DEF Lines
    <3>3. 0 \in 0..(Lines(c) + 1) /\ 0 # Lines(c) + 1
      BY <3>2
    <3>4. Parsing(P!NothingParsed, 0, 0)
      BY NothingRead
    <3>5. \E q \in Nat, r \in 0..10 : 0 = 11 * q + r /\ Parsing(P!NothingParsed, q, r)
      <4>1. 0 \in Nat /\ 0 \in 0..10 /\ 0 = 11 * 0 + 0
        OBVIOUS
      <4> QED
        BY <3>4, <4>1, Zenon
    <3>6. Reading(c, P!NothingParsed, 0)
      BY <3>3, <3>5 DEF Reading
    <3>7. ~answered'
      BY <2>1, <3>1 DEF AskReport, Ask, NothingDone
    <3> QED
      BY <3>1, <3>6, <3>7 DEF Reported
  <2>2. CASE ReadLine
    <3>1. /\ asked = "report" /\ ~answered /\ done < Len(input.log)
          /\ output' = P!ParseLine(output, input.log[done + 1], done + 1)
          /\ done' = done + 1 /\ UNCHANGED <<asked, input, answered>>
      BY <2>2 DEF ReadLine, WorkOn, Become
    <3>2. PICK c \in Commissionings : input = InputOf(c) /\ Reading(c, output, done)
      BY <3>1 DEF Reported
    <3>3. input.log = Append(P!ScriptLog(c.complete, c.broken), c.verdict)
      BY <3>2
    <3>4. Reading(c, P!ParseLine(output, input.log[done + 1], done + 1), done + 1)
      BY <3>1, <3>2, <3>3, ReadOneMore
    <3>5. Reading(c, output', done')
      BY <3>1, <3>4
    <3> QED
      BY <3>1, <3>2, <3>5 DEF Reported
  <2>3. CASE AnswerReport
    <3>1. /\ asked = "report" /\ ~answered /\ done = Len(input.log)
          /\ output' = P!CreateSummaryReport(output)
          /\ answered' /\ UNCHANGED <<asked, input, done>>
      BY <2>3 DEF AnswerReport, Answer
    <3>2. PICK c \in Commissionings : input = InputOf(c) /\ Reading(c, output, done)
      BY <3>1 DEF Reported
    <3>3. done = Lines(c) + 1
      <4>1. input.log = Append(P!ScriptLog(c.complete, c.broken), c.verdict)
        BY <3>2
      <4> QED
        BY <3>1, <4>1, LogOfScript
    <3>4. ParsedAll(output, c.complete, c.verdict)
      BY <3>2, <3>3 DEF Reading
    <3> QED
      BY <3>1, <3>2, <3>4 DEF Reported
  <2>4. CASE ~AskReport /\ ~ReadLine /\ ~AnswerReport
    <3>1. asked' = "report" => UNCHANGED vars
      BY <2>4 DEF Next, vars, DeclarePython, DeclareYaml, AskApplicable, Upload, AnswerApplicable,
            AskArchive, GroupEntry, AnswerArchive, AskCommissioning, SetUp, Ask, WorkOn, Become, Answer
    <3> QED
      BY <3>1 DEF vars, Reported
  <2> QED
    BY <2>1, <2>2, <2>3, <2>4
<1> QED
  BY <1>1, <1>2, NothingIsDone, PTL DEF Spec

(* The report of a log has every commissioning that ended and nothing      *)
(* twice, passes exactly when the case did, and has times that fit,        *)
(* however many commissionings there are and wherever the last breaks off. *)
THEOREM ReportsAddUp == Spec => []ReportAddsUp
<1>1. Reported => ReportAddsUp
  <2> SUFFICES ASSUME Reported, asked = "report", answered PROVE AddsUp(output, input.complete, input.verdict)
    BY DEF ReportAddsUp, AddsUp
  <2>1. PICK c \in Commissionings :
          /\ input = [complete |-> c.complete, verdict |-> c.verdict,
                      log |-> Append(P!ScriptLog(c.complete, c.broken), c.verdict)]
          /\ \E s : /\ ParsedAll(s, c.complete, c.verdict)
                    /\ output = P!CreateSummaryReport(s)
    BY DEF Reported
  <2>2. PICK s : ParsedAll(s, c.complete, c.verdict) /\ output = P!CreateSummaryReport(s)
    BY <2>1
  <2>3. c.complete \in Nat \ {0} /\ c.verdict \in P!Verdicts
    BY ReportAssumption
  <2>4. AddsUp(output, c.complete, c.verdict)
    BY <2>2, <2>3, ParsedAddsUp
  <2> QED
    BY <2>1, <2>4
<1> QED
  BY <1>1, ReportedStays, PTL
=============================================================================
