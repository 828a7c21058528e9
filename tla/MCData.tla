------------------------------- MODULE MCData -------------------------------
(***************************************************************************)
(* Answers for small sets of inputs, and one more answer: the verdicts of  *)
(* the tool's own cases, which are a finite list.                          *)
(***************************************************************************)
EXTENDS Answers

-----------------------------------------------------------------------------
(* Python scripts and YAML files.                                          *)

PythonTests ==
    [prefixed : BOOLEAN, mandatory : BOOLEAN,
     steps : UNION {[1..n -> [whole : BOOLEAN, commissioning : BOOLEAN]] : n \in 0..2}]

\* Tests with names of their own, one for each way a test can be.
Named ==
    {[name |-> <<t.prefixed, t.mandatory, t.steps>>, prefixed |-> t.prefixed,
      mandatory |-> t.mandatory, steps |-> t.steps] : t \in PythonTests}

Class(matter, answers, tests) == [matter |-> matter, answers |-> answers, tests |-> tests]

\* The tests shared among two scripts of one or two classes.
SmallScripts ==
    {{{Class(m, a, {t \in Named : t.mandatory})},
      {Class(TRUE, b, {}), Class(TRUE, a, {t \in Named : ~t.mandatory})}} :
        m \in BOOLEAN, a \in BOOLEAN, b \in BOOLEAN}

Files(id) ==
    [id : {id}, simulated : BOOLEAN, valid : BOOLEAN,
     steps : UNION {[1..n -> [disabled : BOOLEAN, prompt : BOOLEAN]] : n \in 1..2}]

SmallFiles == {{f, g} : f \in Files("a"), g \in Files("b")}

-----------------------------------------------------------------------------
(* The cases that apply to a project: of YAML files of every kind, each    *)
(* name with a need of its own, next to a performance test.                *)

NeedsOf(id) == IF id = "b" THEN {} ELSE {"P1"}
DislikesOf(id) == IF id = "a" THEN {} ELSE {"P2"}

SmallTests ==
    {[title |-> D!Title(f), pics |-> NeedsOf(f.id), negated |-> DislikesOf(f.id),
      collection |-> "YAML"] : f \in UNION {Files(id) : id \in {"a", "b", "c"}}}
    \cup {[title |-> [id |-> "p", semi |-> FALSE, partial |-> FALSE],
           pics |-> {}, negated |-> {}, collection |-> "performance"]}

Element(n, support) == [number |-> n, support |-> support]

SmallPics ==
    {[tag |-> tag, name |-> "C", elements |-> <<Element("P1", s), Element("P2", t), Element("P1", u)>>] :
        tag \in {"clusterPICS", "other"}, s \in {"True", "no"}, t \in {"true", "no"},
        u \in {"true", "no", Missing}}
    \cup {[tag |-> "generalPICS", name |-> "G", elements |-> <<Element("P3", s), Element("P4", t)>>] :
            s \in {"true", "no"}, t \in {"true", "no"}}

SmallProjects ==
    [uploads : UNION {[1..n -> SmallPics] : n \in 0..2}, skipped : SUBSET {"a", "b"}]

-----------------------------------------------------------------------------
(* The verdicts of the tool's own cases, as their descriptions, and the    *)
(* engine's tests of aborts, promise them.                                 *)

T == INSTANCE ToolCases

Promise(case, verdicts) == [case |-> case, verdicts |-> verdicts]

Unless(wrong, verdict) == IF wrong THEN {verdict} ELSE {"PASSED"}

Promises ==
    {Promise(k, {"PASSED"}) : k \in T!Samples \cup {T!TCTRExpectedPass, T!TCTRInstantPass,
        T!TCTRExpectedNotApplicable, T!TCBlocklist11, T!TCBlocklist21, T!TCBlocklist22}}
    \cup {Promise(T!TCTRExpectedFail, {"FAILED"}), Promise(T!TCTRExpectedError, {"ERROR"}),
          Promise(T!TCTRExpectedCaseNotApplicable, {"NOT_APPLICABLE"}),
          Promise(T!TCTRNeverEnding, {"CANCELLED"})}
    \cup UNION {{Promise(T!TCTROptionsSelectUserPrompt(o), Unless(o # "wanted", "ERROR")),
                 Promise(T!TCTRTextInputUserPrompt(o), Unless(o # "wanted", "ERROR")),
                 Promise(T!TCTRUploadFileUserPrompt(o),
                         IF o \in {"null", "TIMEOUT", "CANCELLED"} THEN {"FAILED", "ERROR"}
                         ELSE {"PASSED"})} : o \in T!Outcomes}
    \cup {Promise(T!TCSS1009(o, chance),
                  IF o = "wanted" /\ chance THEN {"PASSED"} ELSE {"FAILED", "ERROR"}) :
            o \in T!Outcomes, chance \in BOOLEAN}
    \cup {Promise(T!TCException(s, e, c), Unless(s \/ e \/ c, "ERROR")) :
            s \in BOOLEAN, e \in BOOLEAN, c \in BOOLEAN}
    \cup {Promise(T!TCNeverEnding(s, e, c), Unless(s \/ e, "CANCELLED")) :
            s \in BOOLEAN, e \in BOOLEAN, c \in BOOLEAN}

RunToolCase == \E p \in Promises : Ask("verdict", p, T!Verdict(p.case))

\* Each case comes to the verdict its description promises, though TestCase
\* and its steps decide that by a roll-up of states in which hooks that
\* raise, prompts and cancellations meet; a case aborted in its cleanup keeps
\* the verdict of its steps (the test collections under tool_unit_tests and
\* sample_tests, TestCase.run, test_runner_abort_testing.py).
VerdictsAreAsDescribed == asked = "verdict" => output \in input.verdicts

-----------------------------------------------------------------------------
(* The log of a run with a suite whose case has two iterations.            *)

SmallRows(first, second) ==
    <<[id |-> "s", cases |-> <<[id |-> "c", state |-> first], [id |-> "c", state |-> second]>>],
      [id |-> "t", cases |-> <<[id |-> "d", state |-> "PASSED"]>>]>>

Origins == {<<0, 0>>, <<1, 0>>, <<1, 1>>, <<1, 2>>, <<2, 1>>}

LogOf(origins) ==
    [i \in DOMAIN origins |-> [suite |-> origins[i][1], case |-> origins[i][2], text |-> i]]

SmallRuns ==
    {[rows |-> SmallRows(first, second), log |-> LogOf(origins)] :
        first \in {"PASSED", "FAILED"}, second \in {"PASSED", "FAILED"},
        origins \in UNION {[1..n -> Origins] : n \in 0..3}}

-----------------------------------------------------------------------------
(* Up to three commissionings of a performance test.                       *)

SmallCommissionings == [complete : 1..3, broken : 0..10, verdict : P!Verdicts]

-----------------------------------------------------------------------------
(* One suite with any configuration, or three with a good one each, with   *)
(* or without a path of its own for the storage.                           *)

Config(mode, auto, dut, network, parameters, storage) ==
    [mode |-> mode, auto |-> auto, dut |-> dut, network |-> network,
     parameters |-> parameters, storage |-> storage]

Configs ==
    {Config(m, a, C!DutConfig \ without, {"wifi", "thread"}, p, s) :
        m \in Modes, a \in BOOLEAN, without \in {{}, {"enhanced_setup_flow"}, {"trace_log"}},
        p \in SUBSET {"qr-code", "manual-code", "timeout"}, s \in {C!Default, "other"}}
    \cup {Config("ble-wifi", TRUE, C!DutConfig \cup unknown, n, {}, C!Default) :
            unknown \in {{}, {"unknown"}}, n \in SUBSET {"wifi", "thread"}}

Suite(config, reuse, ready, there, copy, copied) ==
    [config |-> config, reuse |-> reuse, ready |-> ready, there |-> there,
     copy |-> copy, copied |-> copied]

\* Suites whose operator and device do what they are asked for.
GoodSuites(config) ==
    {Suite(config, reuse, "PASS", TRUE, copy, copied) :
        reuse \in {"PASS", "FAIL"}, copy \in {"whole", "cut off", "nothing"}, copied \in BOOLEAN}

\* In a first one nobody is asked about reuse, and nothing is reused.
FirstSuites(config) == {s \in GoodSuites(config) : s.reuse = "FAIL" /\ s.copied}

SimpleConfigs ==
    {Config("onnetwork", FALSE, C!DutConfig, {"wifi", "thread"}, {}, s) : s \in {C!Default, "other"}}

First == UNION {FirstSuites(config) : config \in SimpleConfigs}
Later == UNION {GoodSuites(config) : config \in SimpleConfigs}

\* What a last one copies is of no use to others.
Last == {s \in Later : s.copy = "whole"}

\* The second of three may fail.
Failing ==
    {Suite(config, reuse, ready, there, "whole", TRUE) :
        config \in SimpleConfigs, reuse \in {"PASS", "FAIL", "TIMEOUT"},
        ready \in {"PASS", "FAIL", "TIMEOUT"}, there \in BOOLEAN}

Alone == UNION {{s \in FirstSuites(config) : s.copy = "whole"} : config \in Configs}

SmallSessions ==
    {<<s>> : s \in Alone} \cup {<<s, t, u>> : s \in First, t \in Later, u \in Last}
      \cup {<<s, t, u>> : s \in First, t \in Failing, u \in Last}

SmallSuites == Alone \cup First \cup Later \cup Failing

-----------------------------------------------------------------------------
DataSpec == Init /\ [][Next \/ RunToolCase]_vars
=============================================================================
