------------------------- MODULE PerformanceReport --------------------------
(***************************************************************************)
(* The report of a performance test: the lines its script writes, one      *)
(* commissioning after another, and the parser that looks for them in the  *)
(* log of the run (performance_tests/utils.py, TC_COMMISSIONING_1_0.py).   *)
(*                                                                         *)
(* A line is named for what the parser recognises in it, a "Test Case      *)
(* Completed" line for the state in its brackets; its place in the log is  *)
(* its time.  Every line of a log starts with a time.                      *)
(***************************************************************************)
EXTENDS Integers, Sequences, FiniteSets, SequencesExt

CONSTANT Failure   \* the report ends in an exception

Verdicts == {"PASSED", "FAILED", "ERROR", "CANCELLED"}

\* The lines that begin and end the stages of a commissioning.  The start
\* of the discovery is that of the commissioning too, the end of the
\* cleanup its end.
Stages == [discovery |-> [begin |-> "start app", end |-> "discovered"],
           PASE |-> [begin |-> "PBKDFParamRequest", end |-> "active"],
           read |-> [begin |-> "read performing", end |-> "read successful"],
           cleanup |-> [begin |-> "cleanup performing", end |-> "cleanup successful"]]

----------------------------------------------------------------------------
(* The script: an iteration that ends, and one that raises before it does  *)
(* after so many of its lines.  A raise ends the test.                     *)

Iteration == <<"begin", "reset app", "start app", "discovered", "PBKDFParamRequest", "active",
               "read performing", "read successful", "cleanup performing", "cleanup successful",
               "stop app">>

ScriptLog(complete, broken) ==
    [n \in 1..(Len(Iteration) * complete + broken) |-> Iteration[((n - 1) % Len(Iteration)) + 1]]

----------------------------------------------------------------------------
(* The parser.  Its state: the commissionings begun, as the times of their *)
(* lines, and the numbers of those that ended.  A line after the end of    *)
(* one still belongs to it, until the next begins.                         *)

AddEvent(commissioning, line, time) ==
    [l \in DOMAIN commissioning \cup {line} |-> IF l = line THEN time ELSE commissioning[l]]

\* Mutant: the result is recorded once, not once for each commissioning.
CompleteOnce(s, line) ==
    IF s.result = "" /\ line \in Verdicts
    THEN [s EXCEPT !.result = line,
                   !.statuses = Append(@, IF line = "PASSED" THEN "PASS" ELSE "FAIL")]
    ELSE s

\* The first completion is the result of every commissioning found so far.
Complete(s, line) ==
    IF s.result = "" /\ line \in Verdicts
    THEN LET result == CASE line = "PASSED" -> "PASS"
                         [] line = "FAILED" -> "FAIL"
                         [] OTHER -> line
         IN [s EXCEPT !.result = result, !.statuses = [i \in DOMAIN s.ended |-> result]]
    ELSE s

ParseLine(state, line, time) ==
    LET s == Complete(state, line)
    IN IF line = "begin" THEN [s EXCEPT !.begun = Append(@, [l \in {} |-> 0])]
       ELSE IF s.begun = <<>> THEN s
       ELSE IF line = "stop app" THEN [s EXCEPT !.ended = Append(@, Len(s.begun))]
       ELSE [s EXCEPT !.begun[Len(s.begun)] = AddEvent(@, line, time)]

NothingParsed == [begun |-> <<>>, ended |-> <<>>, result |-> "", statuses |-> <<>>]

Found(s) == [i \in DOMAIN s.ended |-> s.begun[s.ended[i]]]

\* Each commissioning needs the times of all stages but those of the start
\* of the cleanup, which no duration uses.
HasTimes(commissioning) ==
    /\ \A s \in {"discovery", "PASE", "read"} :
          {Stages[s].begin, Stages[s].end} \subseteq DOMAIN commissioning
    /\ Stages["cleanup"].end \in DOMAIN commissioning

Duration(commissioning, stage) == commissioning[Stages[stage].end] - commissioning[Stages[stage].begin]

Whole(commissioning) ==
    commissioning[Stages["cleanup"].end] - commissioning[Stages["discovery"].begin]

ComputeState(statuses) ==
    IF ToSet(statuses) \cap {"CANCELLED", "ERROR", "FAIL", "PENDING"} # {} THEN "FAIL" ELSE "PASS"

CountState(statuses, passed) == Cardinality({i \in DOMAIN statuses : (statuses[i] = "PASS") = passed})

GenerateSummary(found, statuses) ==
    [result |-> ComputeState(statuses),
     iterations |-> Len(found),
     passed |-> CountState(statuses, TRUE),
     failed |-> CountState(statuses, FALSE),
     records |-> [i \in DOMAIN found |->
        [status |-> statuses[i], duration |-> Whole(found[i]),
         stages |-> [s \in {"discovery", "PASE", "read"} |-> Duration(found[i], s)]]]]

\* The folder is named for the first commissioning, and every commissioning
\* has a status: a log without the one or the other has no report.
CreateSummaryReport(s) ==
    IF \/ Found(s) = <<>>
       \/ \E i \in DOMAIN Found(s) : ~HasTimes(Found(s)[i])
       \/ Len(s.statuses) < Len(Found(s))
    THEN Failure
    ELSE GenerateSummary(Found(s), s.statuses)
=============================================================================
