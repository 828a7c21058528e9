----------------------------- MODULE ToolCases ------------------------------
(***************************************************************************)
(* The sample test cases and those the engine's own tests run: what each   *)
(* does with its steps, and the verdict TestCase.run comes to.             *)
(*                                                                         *)
(* A case is a record [steps, setup, execute, cleanup].  Its execute hook  *)
(* is a sequence of operations: "next" (next_step), "fail"                 *)
(* (mark_step_failure), "skip" (mark_as_not_applicable of the step), "case *)
(* skip" (of the case), "raise", and "sleep", which never returns: the     *)
(* operator aborts the run.  The other hooks "return", "raise" or "sleep". *)
(***************************************************************************)
EXTENDS Naturals, Sequences, SequencesExt, TestStates

\* The operations on the steps of a case with n steps.
Steps(n) == INSTANCE CaseSteps WITH NumSteps <- n

Times(n, operation) == [i \in 1..n |-> operation]

Case(steps, execute) == [steps |-> steps, setup |-> "return", execute |-> execute, cleanup |-> "return"]

Within(case, setup, cleanup) == [case EXCEPT !.setup = setup, !.cleanup = cleanup]

----------------------------------------------------------------------------
(* TestCase.run.  stopped holds what ended execute early, if anything did. *)

Fresh(n) == [state |-> "EXECUTING", errors |-> FALSE, steps |-> [i \in 1..n |-> "PENDING"],
             failures |-> {}, index |-> 1]

Perform(n, c, operation) ==
    CASE operation = "next" -> Steps(n)!NextStepOf(c)
      [] operation = "fail" -> Steps(n)!FailStepOf(c)
      [] operation = "skip" -> Steps(n)!SkipStepOf(c)
      [] operation = "case skip" -> Steps(n)!CaseNotApplicableOf(c)

\* An operation after the one that ended execute is not reached.
Execute(n, case) ==
    FoldLeft(LAMBDA s, operation :
               IF s.stopped # "no" THEN s
               ELSE IF operation \in {"raise", "sleep"} THEN [s EXCEPT !.stopped = operation]
               ELSE [s EXCEPT !.case = Perform(n, s.case, operation)],
             [case |-> Steps(n)!ExecuteStep(Fresh(n), 1), stopped |-> "no"], case.execute)

\* The error of a step makes it ERROR, and completing it leaves it so.
AfterExecute(n, case) ==
    LET s == Execute(n, case)
    IN CASE s.stopped = "no" -> Steps(n)!CompleteStepOf(s.case)
         [] s.stopped = "raise" -> [s.case EXCEPT !.steps[s.case.index] = "ERROR"]
         [] s.stopped = "sleep" -> Steps(n)!CancelCase(s.case)

AfterSetup(n, case) ==
    CASE case.setup = "return" -> AfterExecute(n, case)
      [] case.setup = "raise" -> Steps(n)!RecordCaseError(Fresh(n))
      [] case.setup = "sleep" -> Steps(n)!CancelCase(Fresh(n))

Run(case) ==
    LET n == case.steps
        c == AfterSetup(n, case)
    IN CASE case.cleanup = "return" -> Steps(n)!CompleteCase(c)
         [] case.cleanup = "raise" -> Steps(n)!CompleteCase(Steps(n)!RecordCaseError(c))
         [] case.cleanup = "sleep" -> Steps(n)!CancelCase(c)

Verdict(case) == Run(case).state

----------------------------------------------------------------------------
(* The sample collection.                                                  *)

TCSS1001 == Case(5, Times(4, "next"))
TCSS1002 == Case(5, Times(4, "next"))
TCSS1003 == Case(3, Times(2, "next"))
TCSS1004 == Case(9, Times(8, "next"))
TCSS1005 == Case(5, Times(4, "next"))
TCSS1006 == Case(5, Times(4, "next"))
TCSS1007 == Case(5, Times(4, "next"))
TCSS1008 == Case(5, Times(4, "next"))
TCSS2001 == Case(5, Times(4, "next"))
TCSS2002 == Case(5, Times(4, "next"))
TCSS2003 == Case(5, Times(4, "next"))
TCSS2004 == Case(5, Times(4, "next"))
TCSS2005 == Case(5, Times(4, "next"))
TCSS2006 == Case(5, Times(4, "next"))
TCSS2007 == Case(5, Times(4, "next"))
TCSS2008 == Case(5, Times(4, "next"))
TCSS2009 == Case(5, Times(4, "next"))
TCSS3001 == Case(5, Times(4, "next"))

Samples == {TCSS1001, TCSS1002, TCSS1003, TCSS1004, TCSS1005, TCSS1006, TCSS1007, TCSS1008,
            TCSS2001, TCSS2002, TCSS2003, TCSS2004, TCSS2005, TCSS2006, TCSS2007, TCSS2008,
            TCSS2009, TCSS3001}

\* The outcome of a prompt is "null", "TIMEOUT", "CANCELLED", "INVALID" or
\* an answer, of which each case below tells the wanted one from the others.
Outcomes == {"null", "TIMEOUT", "CANCELLED", "INVALID", "wanted", "other"}

\* It asks whether it shall pass, and an answer may leave that to chance.
TCSS1009(outcome, chance) ==
    Case(3, <<"next", "next">> \o
            CASE outcome \in {"null", "TIMEOUT"} -> <<"raise">>
              [] outcome \in {"CANCELLED", "INVALID", "other"} -> <<"fail">>
              [] outcome = "wanted" -> IF chance THEN <<>> ELSE <<"fail">>)

----------------------------------------------------------------------------
(* The collection of the engine's tests.                                   *)

TCTRExpectedPass == Case(3, Times(3, "next"))

TCTRExpectedFail == Case(3, <<"next", "fail", "next", "next">>)

TCTRExpectedError == Case(3, <<"next", "raise">>)

TCTRExpectedNotApplicable == Case(3, <<"next", "skip", "next", "next">>)

TCTRExpectedCaseNotApplicable == Case(3, <<"case skip">>)

TCTRInstantPass == Case(1, <<>>)

TCTRNeverEnding == Case(3, <<"next", "sleep">>)

TCTROptionsSelectUserPrompt(outcome) ==
    Case(3, <<"next">> \o IF outcome = "wanted" THEN <<"next">> ELSE <<"raise">>)

TCTRTextInputUserPrompt(outcome) ==
    Case(3, <<"next">> \o IF outcome = "wanted" THEN <<"next">> ELSE <<"raise">>)

\* What was uploaded does not matter here, and an invalid answer passes.
TCTRUploadFileUserPrompt(outcome) ==
    Case(2, <<"next">> \o
            CASE outcome \in {"null", "TIMEOUT"} -> <<"raise">>
              [] outcome = "CANCELLED" -> <<"fail", "next">>
              [] outcome \in {"INVALID", "wanted", "other"} -> <<"next">>)

\* Flags of the class say which of its hooks raise.
TCException(setup, execute, cleanup) ==
    Within(Case(3, <<"next">> \o IF execute THEN <<"raise">> ELSE <<"next">>),
           IF setup THEN "raise" ELSE "return", IF cleanup THEN "raise" ELSE "return")

\* The same for sleeping; the second version does just that too.
TCNeverEnding(setup, execute, cleanup) ==
    Within(Case(3, <<"next">> \o IF execute THEN <<"sleep">> ELSE <<"next">>),
           IF setup THEN "sleep" ELSE "return", IF cleanup THEN "sleep" ELSE "return")

TCBlocklist11 == Case(1, <<>>)
TCBlocklist21 == Case(1, <<>>)
TCBlocklist22 == Case(1, <<>>)
=============================================================================
