------------------------- MODULE TestExecutionProofs -------------------------
(***************************************************************************)
(* Theorems about TestExecution, for every number of suites, of cases of   *)
(* each and of steps, and with any of the suites mandatory.                *)
(*                                                                         *)
(* The inductive invariant says what a case and a suite look like at each  *)
(* point of the testing task: not begun, in one of its hooks, or at rest.  *)
(* The first section is about the operations on one case, and needs no     *)
(* state; the rest puts the cases into their places.                       *)
(***************************************************************************)
EXTENDS TestExecution, TLAPS

CaseRow ==
    [state : TestState, errors : BOOLEAN, index : StepIds,
     steps : [StepIds -> TestState], failures : SUBSET StepIds,
     setups : Nat, cleanups : Nat]

\* A case that was not begun.
Fresh(c) ==
    /\ c \in CaseRow
    /\ c.state = "PENDING" /\ ~c.errors /\ c.index = 1 /\ c.failures = {}
    /\ \A i \in StepIds : c.steps[i] = "PENDING"
    /\ c.setups = 0 /\ c.cleanups = 0

\* A case in its setup hook ...
SettingUp(c) ==
    /\ c \in CaseRow
    /\ c.state = "EXECUTING" /\ ~c.errors /\ c.index = 1 /\ c.failures = {}
    /\ \A i \in StepIds : c.steps[i] = "PENDING"
    /\ c.setups = 1 /\ c.cleanups = 0

\* A recorded failure is remembered: its step neither passes nor is as if it
\* had not been begun.  It may be overruled, see VerdictsStand.
Remembers(c) == \A i \in c.failures : c.steps[i] \notin {"PASSED", "PENDING"}

\* ... in its execute hook: the steps after the current one are pending, and
\* those before it have ended or were never begun ...
Executing(c) ==
    /\ c \in CaseRow
    /\ c.state \in {"EXECUTING", "NOT_APPLICABLE"} /\ ~c.errors
    /\ \A i \in StepIds : i > c.index => c.steps[i] = "PENDING"
    /\ \A i \in StepIds : i < c.index => c.steps[i] # "EXECUTING"
    /\ Remembers(c)
    /\ c.setups = 1 /\ c.cleanups = 0

\* What a case that is in no hook but its cleanup says of its steps.
Settled(c) ==
    /\ c \in CaseRow
    /\ \A i \in StepIds : c.steps[i] # "EXECUTING"
    /\ Remembers(c)
    /\ c.state = "PASSED" => \A i \in StepIds : c.steps[i] \in {"PASSED", "NOT_APPLICABLE"}

\* ... in its cleanup hook ...
CleaningUp(c) ==
    /\ Settled(c)
    /\ c.state # "PENDING"
    /\ c.errors => ~CaseCompleted(c.state) \/ c.state \in {"ERROR", "CANCELLED"}
    /\ c.setups = 1 /\ c.cleanups = 1

\* ... and after it, or never to be begun.
AtRest(c) ==
    /\ Settled(c)
    /\ c.state # "EXECUTING"
    /\ c.state = "PENDING" => c.setups = 1 /\ "PENDING" \in StateSet(c.steps)
    /\ c.setups = c.cleanups

\* What the execute hook may do to the outcomes of its case: it may revise
\* those of the steps, but not forget a failure or the outcome of the case.
Revises(c, d) ==
    /\ c.failures \subseteq d.failures
    /\ c.state \in Bad => d.state = c.state

\* Nothing else touches the outcome of a step either.
Stands(c, d) ==
    /\ c.failures \subseteq d.failures
    /\ c.state \in Bad => d.state = c.state
    /\ \A i \in StepIds : c.steps[i] \in Bad => d.steps[i] = c.steps[i]

Reported(c) == c.errors => c.state \in {"ERROR", "CANCELLED"}

-----------------------------------------------------------------------------
(***************************************************************************)
(* Operations on one case.                                                 *)
(***************************************************************************)
USE DEF TestState, Completed, CaseCompleted, Bad

(* The roll-up never reports EXECUTING, and PENDING only for a level below  *)
(* that is pending.                                                        *)
LEMMA RollUpStates ==
    ASSUME NEW states
    PROVE  /\ RollUp(states) \in TestState \ {"EXECUTING"}
           /\ RollUp(states) = "PENDING" => "PENDING" \in states
           /\ RollUp(states) = "PASSED" =>
                 states \cap {"CANCELLED", "ERROR", "FAILED", "PENDING"} = {}
           /\ RollUp(states) = "NOT_APPLICABLE" => states \subseteq {"NOT_APPLICABLE"}
           /\ "CANCELLED" \in states => RollUp(states) = "CANCELLED"
BY DEF RollUp

(* Completing a case.                                                      *)
LEMMA CompleteCaseKeeps ==
    ASSUME NEW c \in CaseRow, NEW d, d = CompleteCase(c)
    PROVE  /\ d \in CaseRow /\ d.state # "EXECUTING"
           /\ d.steps = c.steps /\ d.errors = c.errors /\ d.failures = c.failures
           /\ d.setups = c.setups /\ d.cleanups = c.cleanups /\ d.index = c.index
           /\ CaseCompleted(c.state) => d = c
           /\ c.errors => CaseCompleted(c.state) \/ d.state = "ERROR"
           /\ d.state = "PENDING" => "PENDING" \in StateSet(c.steps)
<1>1. CASE CaseCompleted(c.state)
  BY <1>1 DEF CompleteCase, CaseRow
<1>2. CASE ~CaseCompleted(c.state)
  <2>1. d = [c EXCEPT !.state = CaseVerdict(c.errors, c.state, StateSet(c.steps))]
    BY <1>2 DEF CompleteCase
  <2>2. /\ CaseVerdict(c.errors, c.state, StateSet(c.steps)) \in TestState \ {"EXECUTING"}
        /\ c.errors => CaseVerdict(c.errors, c.state, StateSet(c.steps)) = "ERROR"
        /\ CaseVerdict(c.errors, c.state, StateSet(c.steps)) = "PENDING" =>
              "PENDING" \in StateSet(c.steps)
    BY RollUpStates DEF CaseVerdict
  <2> QED
    BY <1>2, <2>1, <2>2 DEF CaseRow
<1> QED
  BY <1>1, <1>2

(* A settled case is at rest once it is completed.                         *)
LEMMA CompleteSettled ==
    ASSUME NEW c, Settled(c), c.state # "PENDING", c.setups = 1, c.cleanups = 1,
           NEW d, d = CompleteCase(c)
    PROVE  AtRest(d) /\ Stands(c, d)
<1>1. c \in CaseRow
  BY DEF Settled
<1>2. /\ d \in CaseRow /\ d.state # "EXECUTING"
      /\ d.steps = c.steps /\ d.failures = c.failures
      /\ d.setups = c.setups /\ d.cleanups = c.cleanups
      /\ CaseCompleted(c.state) => d = c
      /\ d.state = "PENDING" => "PENDING" \in StateSet(c.steps)
  BY <1>1, CompleteCaseKeeps
<1>3. d.state = "PASSED" => \A i \in StepIds : c.steps[i] \in {"PASSED", "NOT_APPLICABLE"}
  <2>1. CASE CaseCompleted(c.state)
    BY <1>2, <2>1 DEF Settled
  <2>2. CASE ~CaseCompleted(c.state)
    <3>1. d.state = CaseVerdict(c.errors, c.state, StateSet(c.steps))
      BY <1>1, <2>2 DEF CompleteCase, CaseRow
    <3>2. \A i \in StepIds : c.steps[i] \in StateSet(c.steps) /\ c.steps[i] \in TestState \ {"EXECUTING"}
      BY <1>1 DEF Settled, CaseRow, StateSet
    <3>3. d.state = "PASSED" =>
             \/ StateSet(c.steps) \subseteq {"NOT_APPLICABLE"}
             \/ StateSet(c.steps) \cap {"CANCELLED", "ERROR", "FAILED", "PENDING"} = {}
      BY <3>1, RollUpStates DEF CaseVerdict
    <3> QED
      BY <3>2, <3>3
  <2> QED
    BY <2>1, <2>2
<1>4. Stands(c, d)
  BY <1>2 DEF Stands
<1> QED
  BY <1>2, <1>3, <1>4 DEF Settled, AtRest, Remembers

(* Cancelling a case leaves nothing of it open.                            *)
LEMMA CancelCaseKeeps ==
    ASSUME NEW c \in CaseRow, NEW d, d = CancelCase(c)
    PROVE  /\ d \in CaseRow /\ Completed(d.state) /\ Stands(c, d)
           /\ d.setups = c.setups /\ d.cleanups = c.cleanups
           /\ d.errors = c.errors /\ d.failures = c.failures
           /\ CaseCompleted(c.state) => d = c
           /\ \A i \in StepIds : d.steps[i] = "EXECUTING" => CaseCompleted(c.state)
           /\ \A i \in StepIds : c.steps[i] # d.steps[i] => d.steps[i] = "CANCELLED"
           /\ c.errors => CaseCompleted(c.state) \/ d.state = "ERROR"
<1>1. CASE CaseCompleted(c.state)
  BY <1>1 DEF CancelCase, Stands
<1>2. CASE ~CaseCompleted(c.state)
  <2> DEFINE e == [c EXCEPT !.steps = [i \in StepIds |-> CancelStep(c.steps[i])]]
  <2>1. /\ e \in CaseRow /\ e.state = c.state /\ e.errors = c.errors /\ e.failures = c.failures
        /\ e.setups = c.setups /\ e.cleanups = c.cleanups
        /\ e.steps = [i \in StepIds |-> CancelStep(c.steps[i])]
    BY DEF CaseRow, CancelStep
  <2>2. d = CompleteCase(e)
    BY <1>2 DEF CancelCase
  <2>3. \A i \in StepIds : /\ e.steps[i] \notin {"EXECUTING", "PENDING"}
                           /\ c.steps[i] # e.steps[i] => e.steps[i] = "CANCELLED"
                           /\ c.steps[i] \in Bad => e.steps[i] = c.steps[i]
    BY <2>1 DEF CancelStep
  <2>4. "PENDING" \notin StateSet(e.steps)
    BY <2>1, <2>3 DEF StateSet
  <2> HIDE DEF e
  <2>5. /\ d \in CaseRow /\ d.state # "EXECUTING"
        /\ d.steps = e.steps /\ d.errors = e.errors /\ d.failures = e.failures
        /\ d.setups = e.setups /\ d.cleanups = e.cleanups
        /\ e.errors => CaseCompleted(e.state) \/ d.state = "ERROR"
        /\ d.state = "PENDING" => "PENDING" \in StateSet(e.steps)
    BY <2>1, <2>2, CompleteCaseKeeps
  <2> QED
    BY <1>2, <2>1, <2>3, <2>4, <2>5 DEF Stands
<1> QED
  BY <1>1, <1>2

(* ... and what was said of it stays true.                                 *)
LEMMA CancelSettles ==
    ASSUME NEW c \in CaseRow, CaseCompleted(c.state) => Settled(c),
           Remembers(c),
           NEW d, d = CancelCase(c)
    PROVE  Settled(d) /\ Completed(d.state)
<1>1. CASE CaseCompleted(c.state)
  BY <1>1, CancelCaseKeeps
<1>2. CASE ~CaseCompleted(c.state)
  <2> DEFINE e == [c EXCEPT !.steps = [i \in StepIds |-> CancelStep(c.steps[i])]]
  <2>1. /\ e \in CaseRow /\ e.state = c.state /\ e.errors = c.errors
        /\ e.steps = [i \in StepIds |-> CancelStep(c.steps[i])]
    BY DEF CaseRow, CancelStep
  <2> HIDE DEF e
  <2>2. d = CompleteCase(e)
    BY <1>2 DEF CancelCase, e
  <2>3. /\ d \in CaseRow /\ d.steps = e.steps /\ d.failures = c.failures
        /\ Completed(d.state)
        /\ \A i \in StepIds : d.steps[i] # "EXECUTING"
        /\ \A i \in StepIds : d.steps[i] # c.steps[i] => d.steps[i] = "CANCELLED"
    <3>1. d.steps = e.steps
      BY <2>1, <2>2, CompleteCaseKeeps
    <3> QED
      BY <1>2, <3>1, CancelCaseKeeps
  <2>4. c.failures \subseteq StepIds
    BY DEF CaseRow
  <2>5. \A i \in StepIds : e.steps[i] \in StateSet(e.steps) /\ e.steps[i] \in TestState \ {"EXECUTING"}
    BY <2>1, <2>3 DEF CaseRow, StateSet
  <2>6. d.state = CaseVerdict(e.errors, e.state, StateSet(e.steps))
    BY <1>2, <2>1, <2>2 DEF CompleteCase, CaseRow
  <2>7. d.state = "PASSED" =>
           \/ StateSet(e.steps) \subseteq {"NOT_APPLICABLE"}
           \/ StateSet(e.steps) \cap {"CANCELLED", "ERROR", "FAILED", "PENDING"} = {}
    BY <2>6, RollUpStates DEF CaseVerdict
  <2>8. d.state = "PASSED" => \A i \in StepIds : d.steps[i] \in {"PASSED", "NOT_APPLICABLE"}
    BY <2>3, <2>5, <2>7
  <2> QED
    BY <2>3, <2>4, <2>8 DEF Settled, Remembers
<1> QED
  BY <1>1, <1>2

(* A case with a step that has not ended is cancelled by cancel().         *)
LEMMA CancelOpen ==
    ASSUME NEW c \in CaseRow, c.state \in {"PENDING", "EXECUTING"}, ~c.errors,
           NEW i \in StepIds, c.steps[i] = "PENDING"
    PROVE  CancelCase(c).state = "CANCELLED"
<1> DEFINE e == [c EXCEPT !.steps = [k \in StepIds |-> CancelStep(c.steps[k])]]
<1>1. /\ e \in CaseRow /\ e.state = c.state /\ e.errors = c.errors
      /\ e.steps = [k \in StepIds |-> CancelStep(c.steps[k])]
  BY DEF CaseRow, CancelStep
<1>2. "CANCELLED" \in StateSet(e.steps)
  BY <1>1 DEF StateSet, CancelStep
<1> HIDE DEF e
<1>3. CancelCase(c) = [e EXCEPT !.state = CaseVerdict(e.errors, e.state, StateSet(e.steps))]
  BY <1>1 DEF CancelCase, CompleteCase, e
<1>4. CaseVerdict(e.errors, e.state, StateSet(e.steps)) = "CANCELLED"
  BY <1>1, <1>2, RollUpStates DEF CaseVerdict
<1> QED
  BY <1>1, <1>3, <1>4 DEF CaseRow

(* Wherever a case is, cancel() leaves it at rest, or ready for its        *)
(* cleanup if it was in a hook.                                            *)
LEMMA CancelFresh ==
    ASSUME NEW c, Fresh(c)
    PROVE  AtRest(CancelCase(c)) /\ CancelCase(c).state = "CANCELLED" /\ ~CancelCase(c).errors
<1>1. 1 \in StepIds
  BY StepsAssumption DEF StepIds
<1>2. c \in CaseRow /\ ~CaseCompleted(c.state)
  BY DEF Fresh
<1>3. CancelCase(c).state = "CANCELLED"
  BY <1>1, <1>2, CancelOpen DEF Fresh
<1>4. Settled(CancelCase(c))
  BY <1>2, CancelSettles DEF Fresh, Remembers
<1> QED
  BY <1>2, <1>3, <1>4, CancelCaseKeeps DEF AtRest, Fresh

(* A case at rest that is cancelled has a final state and stays at rest.   *)
LEMMA CancelAtRest ==
    ASSUME NEW c, AtRest(c)
    PROVE  /\ AtRest(CancelCase(c)) /\ Completed(CancelCase(c).state)
           /\ Reported(c) => Reported(CancelCase(c))
<1>1. c \in CaseRow /\ Settled(c)
  BY DEF AtRest, Settled
<1>2. Settled(CancelCase(c)) /\ Completed(CancelCase(c).state)
  BY <1>1, CancelSettles DEF Settled
<1> QED
  BY <1>1, <1>2, CancelCaseKeeps DEF AtRest, Reported

(* A case cancelled in its setup or execute hook has a final state, and    *)
(* its cleanup hook is called.                                             *)
LEMMA CancelInHook ==
    ASSUME NEW c, SettingUp(c) \/ Executing(c),
           NEW d, d = EnterCaseCleanup(CancelCase(c))
    PROVE  CleaningUp(d) /\ Completed(d.state) /\ ~d.errors /\ Stands(c, d)
<1>1. /\ c \in CaseRow /\ ~CaseCompleted(c.state) /\ ~c.errors
      /\ Remembers(c)
      /\ c.setups = 1 /\ c.cleanups = 0
  BY DEF SettingUp, Executing, Remembers
<1> DEFINE e == CancelCase(c)
<1>2. /\ e \in CaseRow /\ Completed(e.state) /\ Settled(e) /\ Stands(c, e)
      /\ e.setups = 1 /\ e.cleanups = 0 /\ ~e.errors
  BY <1>1, CancelSettles, CancelCaseKeeps
<1> HIDE DEF e
<1>3. d = [e EXCEPT !.cleanups = 1]
  BY <1>2 DEF EnterCaseCleanup, CaseRow, e
<1>4. /\ d \in CaseRow /\ d.state = e.state /\ d.steps = e.steps /\ d.errors = e.errors
      /\ d.failures = e.failures /\ d.setups = 1 /\ d.cleanups = 1
  BY <1>2, <1>3 DEF CaseRow
<1> QED
  BY <1>2, <1>4 DEF CleaningUp, Settled, Remembers, Stands

(* A case cancelled in its cleanup hook is at rest.                        *)
LEMMA CancelCleaningUp ==
    ASSUME NEW c, CleaningUp(c)
    PROVE  CleaningUp(CancelCase(c)) /\ AtRest(CancelCase(c)) /\ Reported(CancelCase(c))
<1>1. c \in CaseRow /\ Settled(c)
  BY DEF CleaningUp, Settled
<1>2. Settled(CancelCase(c)) /\ Completed(CancelCase(c).state)
  BY <1>1, CancelSettles DEF Settled
<1> QED
  BY <1>1, <1>2, CancelCaseKeeps DEF CleaningUp, AtRest, Reported

(* The setup hook of a case: called, returned, raised, declined.           *)
LEMMA SetupBegins ==
    ASSUME NEW c, Fresh(c), NEW d, d = EnterCaseSetup(c)
    PROVE  SettingUp(d) /\ Stands(c, d)
<1>1. c \in CaseRow
  BY DEF Fresh
<1> DEFINE e == [c EXCEPT !.state = "EXECUTING"]
<1>2. /\ e \in CaseRow /\ e.state = "EXECUTING" /\ e.steps = c.steps /\ e.errors = c.errors
      /\ e.failures = c.failures /\ e.index = c.index
      /\ e.setups = 0 /\ e.cleanups = 0
  BY <1>1 DEF CaseRow, Fresh
<1>3. d = [e EXCEPT !.setups = 1]
  BY <1>1 DEF Fresh, CaseRow, EnterCaseSetup
<1> HIDE DEF e
<1>4. /\ d \in CaseRow /\ d.state = e.state /\ d.steps = e.steps /\ d.errors = e.errors
      /\ d.failures = e.failures /\ d.index = e.index
      /\ d.setups = 1 /\ d.cleanups = e.cleanups
  BY <1>2, <1>3 DEF CaseRow
<1> QED
  BY <1>1, <1>2, <1>4 DEF SettingUp, Fresh, Stands

(* The setup hook returns: the execute hook begins with the first step.    *)
LEMMA SetupReturned ==
    ASSUME NEW c, SettingUp(c), NEW d, d = ExecuteStep(c, c.index)
    PROVE  Executing(d) /\ Stands(c, d)
<1>1. c \in CaseRow /\ c.index \in StepIds
  BY DEF SettingUp, CaseRow
<1>2. d = [c EXCEPT !.steps = [c.steps EXCEPT ![c.index] = "EXECUTING"]]
  BY <1>1 DEF ExecuteStep, CaseRow
<1>3. /\ d \in CaseRow /\ d.state = c.state /\ d.errors = c.errors /\ d.failures = c.failures
      /\ d.index = c.index /\ d.setups = c.setups /\ d.cleanups = c.cleanups
      /\ d.steps = [c.steps EXCEPT ![c.index] = "EXECUTING"]
  BY <1>1, <1>2 DEF CaseRow
<1>4. \A i \in StepIds : d.steps[i] = IF i = c.index THEN "EXECUTING" ELSE "PENDING"
  BY <1>1, <1>3 DEF SettingUp, CaseRow
<1> QED
  BY <1>1, <1>3, <1>4 DEF SettingUp, Executing, Remembers, Stands, StepIds

(* The setup hook raises: the cleanup hook is called all the same.         *)
LEMMA SetupRaised ==
    ASSUME NEW c, SettingUp(c), NEW d, d = EnterCaseCleanup(RecordCaseError(c))
    PROVE  CleaningUp(d) /\ d.state = "EXECUTING" /\ Stands(c, d)
<1>1. c \in CaseRow
  BY DEF SettingUp
<1> DEFINE e == RecordCaseError(c)
<1>2. /\ e \in CaseRow /\ e.state = c.state /\ e.steps = c.steps
      /\ e.failures = c.failures /\ e.setups = c.setups /\ e.cleanups = 0
  BY <1>1 DEF CaseRow, RecordCaseError, SettingUp
<1> HIDE DEF e
<1>3. d = [e EXCEPT !.cleanups = 1]
  BY <1>2 DEF EnterCaseCleanup, CaseRow, e
<1>4. /\ d \in CaseRow /\ d.state = e.state /\ d.steps = e.steps
      /\ d.failures = e.failures /\ d.setups = e.setups /\ d.cleanups = 1
  BY <1>2, <1>3 DEF CaseRow
<1> QED
  BY <1>1, <1>2, <1>4 DEF SettingUp, CleaningUp, Settled, Remembers, Stands

(* The operator declines the setup: the case is cancelled, and the cleanup *)
(* hook is called all the same.                                            *)
LEMMA SetupDeclined ==
    ASSUME NEW c, SettingUp(c), NEW d, d = EnterCaseCleanup(RecordCaseError(CancelCase(c)))
    PROVE  CleaningUp(d) /\ d.state = "CANCELLED" /\ Stands(c, d)
<1> DEFINE e == EnterCaseCleanup(CancelCase(c))
<1>1. 1 \in StepIds
  BY StepsAssumption DEF StepIds
<1>2. CancelCase(c) \in CaseRow /\ CancelCase(c).state = "CANCELLED"
  BY <1>1, CancelOpen, CancelCaseKeeps DEF SettingUp
<1>3. CleaningUp(e) /\ Stands(c, e)
  BY CancelInHook
<1>4. e.state = "CANCELLED" /\ e \in CaseRow
  BY <1>2 DEF EnterCaseCleanup, CaseRow
<1>5. d = RecordCaseError(e)
  BY <1>2 DEF EnterCaseCleanup, RecordCaseError, CaseRow
<1> HIDE DEF e
<1>6. /\ d \in CaseRow /\ d.state = e.state /\ d.steps = e.steps
      /\ d.failures = e.failures /\ d.setups = e.setups /\ d.cleanups = e.cleanups
  BY <1>4, <1>5 DEF RecordCaseError, CaseRow
<1> QED
  BY <1>3, <1>4, <1>6 DEF CleaningUp, Settled, Remembers, Stands

(* Completing the current step of a case in its execute hook.              *)
LEMMA CompletesCurrentStep ==
    ASSUME NEW c, Executing(c), NEW d, d = CompleteStep(c, c.index)
    PROVE  /\ Executing(d) /\ Stands(c, d) /\ Completed(d.steps[c.index])
           /\ d.index = c.index /\ d.state = c.state
<1>1. c \in CaseRow /\ c.index \in StepIds
  BY DEF Executing, CaseRow
<1> DEFINE to == IF Completed(c.steps[c.index]) THEN c.steps[c.index]
                 ELSE StepVerdict(c.index \in c.failures)
<1>2. /\ to \in TestState /\ Completed(to)
      /\ Completed(c.steps[c.index]) => to = c.steps[c.index]
      /\ c.index \in c.failures => to \notin {"PASSED", "PENDING"}
  BY <1>1 DEF CaseRow, StepVerdict, Executing, Remembers
<1>3. d = [c EXCEPT !.steps = [c.steps EXCEPT ![c.index] = to]]
  BY <1>1 DEF CompleteStep, CaseRow
<1> HIDE DEF to
<1>4. /\ d \in CaseRow /\ d.state = c.state /\ d.errors = c.errors /\ d.failures = c.failures
      /\ d.index = c.index /\ d.setups = c.setups /\ d.cleanups = c.cleanups
      /\ d.steps = [c.steps EXCEPT ![c.index] = to]
  BY <1>1, <1>2, <1>3 DEF CaseRow
<1>5. \A i \in StepIds : d.steps[i] = IF i = c.index THEN to ELSE c.steps[i]
  BY <1>1, <1>4 DEF CaseRow
<1>6. c.failures \subseteq StepIds
  BY <1>1 DEF CaseRow
<1> QED
  BY <1>1, <1>2, <1>4, <1>5, <1>6 DEF Executing, Remembers, Stands, StepIds

(* Going on to a later step of it, which was not begun.                    *)
LEMMA ExecutesLaterStep ==
    ASSUME NEW c, Executing(c), c.steps[c.index] # "EXECUTING",
           NEW k \in StepIds, k > c.index, NEW d, d = ExecuteStep(c, k)
    PROVE  Executing(d) /\ Stands(c, d) /\ d.state = c.state
<1>1. c \in CaseRow /\ c.index \in StepIds
  BY DEF Executing, CaseRow
<1> DEFINE to == [c.steps EXCEPT ![k] = "EXECUTING"]
<1>2. to \in [StepIds -> TestState]
  BY <1>1 DEF CaseRow
<1>3. \A i \in StepIds : to[i] = IF i = k THEN "EXECUTING" ELSE c.steps[i]
  BY <1>1 DEF CaseRow
<1>4. d = [c EXCEPT !.steps = to, !.index = k]
  BY <1>1 DEF ExecuteStep, CaseRow
<1> HIDE DEF to
<1>6. /\ d \in CaseRow /\ d.state = c.state /\ d.errors = c.errors /\ d.failures = c.failures
      /\ d.index = k /\ d.setups = c.setups /\ d.cleanups = c.cleanups /\ d.steps = to
  BY <1>1, <1>2, <1>4 DEF CaseRow
<1>5. c.failures \subseteq StepIds /\ c.steps[k] = "PENDING"
  BY <1>1 DEF CaseRow, Executing
<1> QED
  BY <1>1, <1>3, <1>5, <1>6 DEF Executing, Remembers, Stands, StepIds

(* Beginning its last step once more.                                      *)
LEMMA ExecutesLastStepAgain ==
    ASSUME NEW c, Executing(c), c.index = NumSteps, NEW d, d = ExecuteStep(c, NumSteps)
    PROVE  Executing(d) /\ Revises(c, d)
<1>1. c \in CaseRow /\ c.index \in StepIds /\ c.failures \subseteq StepIds
  BY DEF Executing, CaseRow
<1> DEFINE to == [c.steps EXCEPT ![NumSteps] = "EXECUTING"]
<1>2. to \in [StepIds -> TestState]
  BY <1>1 DEF CaseRow
<1>3. \A i \in StepIds : to[i] = IF i = NumSteps THEN "EXECUTING" ELSE c.steps[i]
  BY <1>1 DEF CaseRow
<1>4. d = [c EXCEPT !.steps = to, !.index = NumSteps]
  BY <1>1 DEF ExecuteStep, CaseRow
<1> HIDE DEF to
<1>5. /\ d \in CaseRow /\ d.state = c.state /\ d.errors = c.errors /\ d.failures = c.failures
      /\ d.index = c.index /\ d.setups = c.setups /\ d.cleanups = c.cleanups /\ d.steps = to
  BY <1>1, <1>2, <1>4 DEF CaseRow
<1> QED
  BY <1>1, <1>3, <1>5 DEF Executing, Remembers, Revises, StepIds

(* What the execute hook calls on its case.                                *)
LEMMA StepOperationKeeps ==
    ASSUME NEW c, Executing(c), NEW d,
           d \in {NextStepOf(c), FailStepOf(c), SkipStepOf(c), CompleteStepOf(c),
                  CaseNotApplicableOf(c), SkipToLastStepOf(c)}
    PROVE  Executing(d) /\ Revises(c, d)
<1>1. c \in CaseRow /\ c.index \in StepIds /\ NumSteps \in StepIds /\ NumSteps \in Nat
      /\ c.failures \subseteq StepIds
  BY StepsAssumption DEF Executing, CaseRow, StepIds
<1> DEFINE closed == CompleteStep(c, c.index)
<1>2. /\ Executing(closed) /\ Stands(c, closed) /\ Completed(closed.steps[c.index])
      /\ closed.index = c.index
  BY CompletesCurrentStep
<1> HIDE DEF closed
<1>3. CASE d = NextStepOf(c)
  <2>1. CASE c.index < NumSteps
    <3> DEFINE e == IF c.steps[c.index] = "EXECUTING" THEN closed ELSE c
    <3>1. Executing(e) /\ Stands(c, e) /\ e.steps[e.index] # "EXECUTING" /\ e.index = c.index
      BY <1>2 DEF Stands
    <3>2. d = ExecuteStep(e, c.index + 1)
      BY <1>3, <2>1 DEF NextStepOf, closed
    <3>3. c.index + 1 \in StepIds /\ c.index + 1 > c.index
      BY <1>1, <2>1 DEF StepIds
    <3> HIDE DEF e
    <3>4. Executing(d) /\ Stands(e, d) /\ d.state = e.state
      BY <3>1, <3>2, <3>3, ExecutesLaterStep
    <3> QED
      BY <3>1, <3>4 DEF Stands, Revises
  <2>2. CASE ~(c.index < NumSteps)
    BY <1>3, <2>2 DEF NextStepOf, Revises
  <2> QED
    BY <2>1, <2>2
<1>4. CASE d = FailStepOf(c)
  <2> DEFINE to == [c.steps EXCEPT ![c.index] = "FAILED"]
             fs == c.failures \cup {c.index}
  <2>1. to \in [StepIds -> TestState] /\ fs \in SUBSET StepIds
    BY <1>1 DEF CaseRow
  <2>2. \A i \in StepIds : to[i] = IF i = c.index THEN "FAILED" ELSE c.steps[i]
    BY <1>1 DEF CaseRow
  <2>3. d = [c EXCEPT !.steps = to, !.failures = fs]
    BY <1>1, <1>4 DEF FailStepOf, CaseRow
  <2>4. \A i \in fs : i \in c.failures \/ i = c.index
    OBVIOUS
  <2>6. c.failures \subseteq fs
    OBVIOUS
  <2> HIDE DEF to, fs
  <2>5. /\ d \in CaseRow /\ d.state = c.state /\ d.errors = c.errors /\ d.failures = fs
        /\ d.index = c.index /\ d.setups = c.setups /\ d.cleanups = c.cleanups /\ d.steps = to
    BY <1>1, <2>1, <2>3 DEF CaseRow
  <2> QED
    <3>1. Remembers(d) /\ Revises(c, d)
      BY <1>1, <2>2, <2>4, <2>5, <2>6 DEF Executing, Remembers, Revises
    <3> QED
      BY <1>1, <2>2, <2>5, <3>1 DEF Executing, StepIds
<1>5. CASE d = CompleteStepOf(c)
  BY <1>2, <1>5 DEF CompleteStepOf, closed, Stands, Revises
<1>6. CASE d = CaseNotApplicableOf(c)
  <2>1. /\ d \in CaseRow /\ d.state = "NOT_APPLICABLE" /\ d.errors = c.errors
        /\ d.failures = c.failures /\ d.index = c.index /\ d.setups = c.setups
        /\ d.cleanups = c.cleanups /\ d.steps = c.steps
    BY <1>1, <1>6 DEF CaseRow, CaseNotApplicableOf
  <2> QED
    BY <2>1 DEF Executing, Remembers, Revises
<1>7. CASE d = SkipStepOf(c)
  <2> DEFINE to == [c.steps EXCEPT ![c.index] = "NOT_APPLICABLE"]
  <2>1. to \in [StepIds -> TestState]
    BY <1>1 DEF CaseRow
  <2>2. \A i \in StepIds : to[i] = IF i = c.index THEN "NOT_APPLICABLE" ELSE c.steps[i]
    BY <1>1 DEF CaseRow
  <2>3. d = [c EXCEPT !.steps = to]
    BY <1>1, <1>7 DEF SkipStepOf, CaseRow
  <2> HIDE DEF to
  <2>5. /\ d \in CaseRow /\ d.state = c.state /\ d.errors = c.errors /\ d.failures = c.failures
        /\ d.index = c.index /\ d.setups = c.setups /\ d.cleanups = c.cleanups /\ d.steps = to
    BY <1>1, <2>1, <2>3 DEF CaseRow
  <2> QED
    BY <1>1, <2>2, <2>5 DEF Executing, Remembers, Revises, StepIds
<1>8. CASE d = SkipToLastStepOf(c)
  <2>1. d = ExecuteStep(closed, NumSteps) /\ closed.steps[closed.index] # "EXECUTING"
    BY <1>2, <1>8 DEF SkipToLastStepOf, closed
  <2>2. Executing(d) /\ Revises(closed, d)
    <3>1. CASE c.index < NumSteps
      BY <1>1, <1>2, <2>1, <3>1, ExecutesLaterStep DEF Stands, Revises
    <3>2. CASE c.index = NumSteps
      BY <1>2, <2>1, <3>2, ExecutesLastStepAgain
    <3> QED
      BY <1>1, <3>1, <3>2 DEF StepIds
  <2> QED
    BY <1>2, <2>2 DEF Stands, Revises
<1> QED
  BY <1>3, <1>4, <1>5, <1>6, <1>7, <1>8

(* The end of the execute hook, with an error or without.                  *)
LEMMA ExecuteEnded ==
    ASSUME NEW c, Executing(c), NEW d,
           d \in {EnterCaseCleanup(CompleteStep(c, c.index)),
                  EnterCaseCleanup([c EXCEPT !.steps[c.index] = "ERROR"])}
    PROVE  CleaningUp(d) /\ d.state \in {"EXECUTING", "NOT_APPLICABLE"} /\ Revises(c, d)
<1>1. c \in CaseRow /\ c.index \in StepIds /\ c.failures \subseteq StepIds
  BY DEF Executing, CaseRow
<1>2. ASSUME NEW e, Executing(e), e.index = c.index, e.steps[c.index] # "EXECUTING",
             Revises(c, e), d = EnterCaseCleanup(e)
      PROVE  CleaningUp(d) /\ d.state \in {"EXECUTING", "NOT_APPLICABLE"} /\ Revises(c, d)
  <2>1. d = [e EXCEPT !.cleanups = 1]
    BY <1>2 DEF EnterCaseCleanup, Executing
  <2>2. /\ d \in CaseRow /\ d.state = e.state /\ d.errors = e.errors /\ d.failures = e.failures
        /\ d.setups = e.setups /\ d.cleanups = 1 /\ d.steps = e.steps
    BY <1>2, <2>1 DEF CaseRow, Executing
  <2>3. \A i \in StepIds : i < c.index \/ i = c.index \/ i > c.index
    BY <1>1 DEF StepIds
  <2>4. \A i \in StepIds : e.steps[i] # "EXECUTING"
    BY <1>2, <2>3 DEF Executing
  <2> QED
    BY <1>2, <2>2, <2>4 DEF Executing, CleaningUp, Settled, Remembers, Revises
<1>3. CASE d = EnterCaseCleanup(CompleteStep(c, c.index))
  BY <1>2, <1>3, CompletesCurrentStep DEF Stands, Revises
<1>4. CASE d = EnterCaseCleanup([c EXCEPT !.steps[c.index] = "ERROR"])
  <2> DEFINE to == [c.steps EXCEPT ![c.index] = "ERROR"]
             e == [c EXCEPT !.steps = to]
  <2>1. to \in [StepIds -> TestState]
    BY <1>1 DEF CaseRow
  <2>2. \A i \in StepIds : to[i] = IF i = c.index THEN "ERROR" ELSE c.steps[i]
    BY <1>1 DEF CaseRow
  <2>3. e = [c EXCEPT !.steps[c.index] = "ERROR"]
    BY <1>1 DEF CaseRow
  <2> HIDE DEF to
  <2>4. /\ e \in CaseRow /\ e.state = c.state /\ e.errors = c.errors /\ e.failures = c.failures
        /\ e.index = c.index /\ e.setups = c.setups /\ e.cleanups = c.cleanups /\ e.steps = to
    BY <1>1, <2>1 DEF CaseRow
  <2> HIDE DEF e
  <2>5. Executing(e) /\ Revises(c, e) /\ e.steps[c.index] # "EXECUTING"
    BY <1>1, <2>1, <2>2, <2>4 DEF Executing, Remembers, Revises, StepIds
  <2>6. d = EnterCaseCleanup(e)
    BY <1>4, <2>3
  <2> QED
    BY <1>2, <2>4, <2>5, <2>6
<1> QED
  BY <1>3, <1>4

(* The end of the cleanup hook, with an error or without.                  *)
LEMMA CleanupError ==
    ASSUME NEW c, CleaningUp(c), NEW d, d \in {c, RecordCaseError(c)}
    PROVE  /\ Settled(d) /\ Stands(c, d) /\ d.state = c.state /\ d.setups = 1 /\ d.cleanups = 1
           /\ d.errors = c.errors \/ d.errors = TRUE
<1>1. c \in CaseRow
  BY DEF CleaningUp, Settled
<1>2. /\ d \in CaseRow /\ d.state = c.state /\ d.steps = c.steps
      /\ d.failures = c.failures /\ d.setups = c.setups /\ d.cleanups = c.cleanups
      /\ d.errors = c.errors \/ d.errors = TRUE
  BY <1>1 DEF RecordCaseError, CaseRow
<1> QED
  BY <1>1, <1>2 DEF CleaningUp, Settled, Remembers, Stands


HIDE DEF TestState, Completed, CaseCompleted, Bad

-----------------------------------------------------------------------------
(***************************************************************************)
(* The inductive invariant.                                                *)
(***************************************************************************)
SuiteRow == [state : TestState, errors : BOOLEAN, setups : Nat, cleanups : Nat]

Types ==
    /\ run \in TestState
    /\ suites \in [SuiteIds -> SuiteRow]
    /\ cases \in [CaseIds -> CaseRow]
    /\ pc \in PC
    /\ suite \in 0..NumSuites
    /\ case \in Nat
    /\ unwinding \in BOOLEAN
    /\ cancelled \in BOOLEAN
    /\ task \in BOOLEAN

\* Where the task is: in a case of the current suite, in that suite before
\* its cleanup, or past every suite it will begin.
InCase == {"case_setup", "case_execute", "case_cleanup", "yield"}
InSuite == InCase \cup {"suite_setup", "next_case"}
Closing == {"mandatory_prompt", "raised", "done"}

\* The suite and the case the task is at exist, and a CancelledError unwinds
\* through the cleanup hooks from wherever it was raised.
Control ==
    /\ pc \in {"idle", "created"} => suite = 0 /\ case = 0
    /\ pc \in InSuite \cup {"suite_cleanup", "mandatory_prompt"} =>
          suite \in SuiteIds /\ case <= CaseCount[suite]
    /\ pc \in InCase => Current \in CaseIds
    /\ pc = "suite_setup" => case = 0 /\ CasesOf(suite) # {}
    /\ pc = "returned" => suite = NumSuites /\ cancelledAt = "nowhere"
    /\ pc = "raised" => cancelledAt # "nowhere"
    /\ unwinding =>
          cancelledAt # "nowhere" /\ pc \in {"case_cleanup", "suite_cleanup", "raised", "done"}
    /\ cancelledAt # "nowhere" => unwinding \/ pc \in {"raised", "done"}
    /\ cancelledAt \in {"created", "yield", "mandatory_prompt", "end"} => ~unwinding
    /\ cancelledAt = "yield" => suite \in SuiteIds
    /\ cancelledAt = "end" => suite = NumSuites

\* A case the task may still come to.
Upcoming(t) ==
    /\ pc \notin Closing
    /\ t[1] > suite \/ (t[1] = suite /\ t[2] > case /\ pc \in InSuite)

\* The case that has called a hook which has not ended.
InHook(t) == t = Current /\ pc \in {"case_setup", "case_execute", "case_cleanup"}

CaseForm(t) ==
    /\ Upcoming(t) => Fresh(cases[t])
    /\ t = Current /\ pc = "case_setup" => SettingUp(cases[t])
    /\ t = Current /\ pc = "case_execute" => Executing(cases[t])
    /\ t = Current /\ pc = "case_cleanup" =>
          /\ CleaningUp(cases[t])
          /\ IF unwinding THEN Completed(cases[t].state)
             ELSE cases[t].state \in {"EXECUTING", "NOT_APPLICABLE", "CANCELLED"}
    /\ ~Upcoming(t) /\ ~InHook(t) =>
          \/ /\ pc \in Closing /\ t[1] >= suite /\ Fresh(cases[t])
             /\ pc = "done" => cancelledAt # "nowhere"
          \/ AtRest(cases[t]) /\ (Reported(cases[t]) \/ (unwinding /\ t = Current))

CasesInPlace == \A t \in CaseIds : CaseForm(t)

OpenSuite(su) == su.state = "EXECUTING" /\ ~su.errors /\ su.setups = 1 /\ su.cleanups = 0

Past(s) == s < suite \/ (s = suite /\ pc \in {"next_suite", "returned"} \cup Closing)

AllEnded(s) == \A t \in CasesOf(s) : Completed(cases[t].state)

\* What the state of a suite says of its cases.
RolledUp(s) == suites[s].state \in {"ERROR", RollUp(CaseStates(cases, s))}

LeftAtYield(s) == s = suite /\ cancelledAt = "yield" /\ pc \in {"raised", "done"}

SuiteForm(s) ==
    /\ s > suite =>
          /\ suites[s].setups = 0 /\ suites[s].cleanups = 0 /\ ~suites[s].errors
          /\ \/ suites[s].state = "PENDING" /\ pc # "mandatory_prompt"
             \/ Completed(suites[s].state) /\ AllEnded(s) /\ pc \in Closing
    /\ s = suite /\ pc \in InSuite => OpenSuite(suites[s])
    /\ s = suite /\ pc = "suite_cleanup" =>
          /\ suites[s].setups = 1 /\ suites[s].cleanups = 1
          /\ IF unwinding THEN Completed(suites[s].state)
             ELSE suites[s].state \in {"EXECUTING", "CANCELLED"}
          /\ Completed(suites[s].state) => AllEnded(s)
    /\ Past(s) /\ ~LeftAtYield(s) =>
          /\ suites[s].state # "EXECUTING"
          /\ suites[s].setups = suites[s].cleanups
          /\ suites[s].errors =>
                suites[s].state \in {"ERROR", "CANCELLED"} \/ (unwinding /\ s = suite)
          /\ s = suite /\ cancelledAt \notin {"nowhere", "end", "mandatory_prompt"} =>
                Completed(suites[s].state) /\ AllEnded(s)
    /\ LeftAtYield(s) =>
          \/ pc = "raised" /\ OpenSuite(suites[s])
          \/ /\ pc = "done" /\ Completed(suites[s].state) /\ AllEnded(s)
             /\ suites[s].setups = 1 /\ suites[s].cleanups = 0 /\ ~suites[s].errors
    /\ Completed(suites[s].state) \/ (Past(s) /\ suites[s].state # "EXECUTING") => RolledUp(s)
    /\ pc = "done" /\ cancelledAt # "nowhere" => Completed(suites[s].state)

SuitesInPlace == \A s \in SuiteIds : SuiteForm(s)

RunInPlace ==
    /\ run = IF pc = "idle" THEN "PENDING"
             ELSE IF pc = "done" THEN RunVerdict({suites[s].state : s \in SuiteIds})
             ELSE "EXECUTING"
    /\ pc = "done" /\ cancelledAt = "nowhere" => suite = NumSuites

MandatoryPassed ==
    \A s \in SuiteIds \cap Mandatory :
        Certification /\ (s < suite \/ (s = suite /\ pc = "next_suite")) =>
            \A t \in CasesOf(s) : cases[t].state = "PASSED"

IInv == Types /\ Control /\ CasesInPlace /\ SuitesInPlace /\ RunInPlace /\ MandatoryPassed

-----------------------------------------------------------------------------
(***************************************************************************)
(* Every step keeps the cases in their places.                             *)
(***************************************************************************)
LEMMA CaseIdPair ==
    ASSUME NEW t \in CaseIds
    PROVE  /\ t[1] \in SuiteIds /\ t[1] \in Nat /\ t[2] \in Nat
           /\ t[2] >= 1 /\ t[2] <= CaseCount[t[1]]
           /\ \A x, y : t = <<x, y>> <=> t[1] = x /\ t[2] = y
BY PlanAssumption DEF CaseIds, SuiteIds

(* Of a case that no hook of it concerns: it is as it was, or cancelled.   *)
LEMMA CancelKept ==
    ASSUME NEW c, Fresh(c) \/ AtRest(c)
    PROVE  /\ AtRest(CancelCase(c)) /\ Completed(CancelCase(c).state)
           /\ Reported(c) => Reported(CancelCase(c))
           /\ Fresh(c) => Reported(CancelCase(c))
<1>1. CASE Fresh(c)
  BY <1>1, CancelFresh DEF Reported, Completed
<1>2. CASE AtRest(c)
  BY <1>2, CancelAtRest DEF Fresh, AtRest
<1> QED
  BY <1>1, <1>2

(* A case in any of its phases has the type of a case.                     *)
LEMMA FormIsRow ==
    ASSUME NEW c, Fresh(c) \/ SettingUp(c) \/ Executing(c) \/ CleaningUp(c) \/ AtRest(c)
    PROVE  c \in CaseRow
BY DEF Fresh, SettingUp, Executing, CleaningUp, AtRest, Settled

(* The steps that leave every case alone.                                  *)
LEMMA CasesUntouched ==
    ASSUME Types, Control, CasesInPlace, cases' = cases,
           \/ StartRun \/ Abort \/ TaskStarts \/ BeginSuite \/ EndSuites \/ SuiteSetupReturns
           \/ EndCases \/ Yield \/ MandatoryPromptCancelled \/ UNCHANGED vars
    PROVE  CasesInPlace'
<1> SUFFICES ASSUME NEW t \in CaseIds PROVE CaseForm(t)'
  BY DEF CasesInPlace
<1>1. CaseForm(t)
  BY DEF CasesInPlace
<1>2. /\ t[1] \in SuiteIds /\ t[1] \in Nat /\ t[2] \in Nat
      /\ t[2] >= 1 /\ t[2] <= CaseCount[t[1]]
      /\ t = Current <=> t[1] = suite /\ t[2] = case
      /\ (t = Current)' <=> t[1] = suite' /\ t[2] = case'
  BY CaseIdPair DEF Current
<1>3. suite \in Nat /\ case \in Nat /\ NumSuites \in Nat /\ pc \in PC
  BY PlanAssumption DEF Types
<1> USE <1>1, <1>2, <1>3 DEF CaseForm, Upcoming, InHook, InSuite, InCase, Closing
<1>4. CASE StartRun
  BY <1>4 DEF StartRun, Control
<1>5. CASE Abort
  BY <1>5 DEF Abort
<1>6. CASE TaskStarts
  BY <1>6 DEF TaskStarts, Control
<1>7. CASE BeginSuite
  BY <1>7 DEF BeginSuite, Control, CasesOf
<1>8. CASE EndSuites
  BY <1>8 DEF EndSuites, Control, SuiteIds
<1>9. CASE SuiteSetupReturns
  BY <1>9 DEF SuiteSetupReturns, Control, control
<1>10. CASE EndCases
  BY <1>10 DEF EndCases, Control, control
<1>11. CASE Yield
  BY <1>11 DEF Yield, Control, Raising
<1>12. CASE MandatoryPromptCancelled
  BY <1>12 DEF MandatoryPromptCancelled, Control, Raising
<1>13. CASE UNCHANGED vars
  BY <1>13 DEF vars
<1> QED
  BY <1>4, <1>5, <1>6, <1>7, <1>8, <1>9, <1>10, <1>11, <1>12, <1>13

(* The steps of the case the task is at.                                   *)
LEMMA CurrentMoves ==
    ASSUME Types, Control, CasesInPlace, NEW d,
           cases' = [cases EXCEPT ![Current] = d],
           UNCHANGED <<suite, case>>, unwinding' \in BOOLEAN, Current \in CaseIds,
           \/ /\ pc = "case_setup" /\ pc' = "case_execute" /\ Executing(d)
           \/ /\ pc = "case_execute" /\ pc' = "case_execute" /\ Executing(d)
           \/ /\ pc \in {"case_setup", "case_execute"} /\ pc' = "case_cleanup" /\ CleaningUp(d)
              /\ IF unwinding' THEN Completed(d.state)
                 ELSE d.state \in {"EXECUTING", "NOT_APPLICABLE", "CANCELLED"}
           \/ /\ pc = "case_cleanup" /\ pc' = "yield" /\ AtRest(d) /\ Reported(d)
              /\ ~unwinding'
    PROVE  CasesInPlace' /\ cases' \in [CaseIds -> CaseRow]
<1>1. cases' \in [CaseIds -> CaseRow]
  BY FormIsRow DEF Types
<1>2. ASSUME NEW t \in CaseIds PROVE CaseForm(t)'
  <2>1. CaseForm(t)
    BY DEF CasesInPlace
  <2>2. /\ t[1] \in Nat /\ t[2] \in Nat
        /\ t = Current <=> t[1] = suite /\ t[2] = case
        /\ (t = Current)' <=> t[1] = suite' /\ t[2] = case'
    BY CaseIdPair DEF Current
  <2>3. /\ cases'[t] = IF t = Current THEN d ELSE cases[t]
        /\ t # Current => ~(unwinding /\ t = Current)
    BY DEF Types
  <2>4. suite \in Nat /\ case \in Nat
    BY PlanAssumption DEF Types
  <2>5. pc \notin Closing /\ pc' \notin Closing /\ pc \in InSuite /\ pc' \in InSuite
    BY DEF Closing, InSuite, InCase
  <2>6. CASE t = Current
    BY <2>1, <2>2, <2>3, <2>4, <2>5, <2>6 DEF CaseForm, Upcoming, InHook
  <2>7. CASE t # Current
    BY <2>1, <2>2, <2>3, <2>4, <2>5, <2>7 DEF CaseForm, Upcoming, InHook
  <2> QED
    BY <2>6, <2>7
<1> QED
  BY <1>1, <1>2 DEF CasesInPlace

(* The next case is begun.                                                 *)
LEMMA CaseBegins ==
    ASSUME Types, Control, CasesInPlace, BeginCase
    PROVE  /\ CasesInPlace' /\ cases' \in [CaseIds -> CaseRow]
           /\ <<suite, case + 1>> \in CaseIds
           /\ \A t \in CaseIds : Stands(cases[t], cases'[t])
<1> DEFINE next == <<suite, case + 1>>
<1>1. next \in CaseIds /\ suite \in Nat /\ case \in Nat /\ suite \in SuiteIds
  BY PlanAssumption DEF Types, Control, InSuite, BeginCase, CaseIds, SuiteIds
<1>2. Fresh(cases[next])
  BY <1>1 DEF CasesInPlace, CaseForm, Upcoming, BeginCase, InSuite, Closing
<1> DEFINE d == EnterCaseSetup(cases[next])
<1>3. SettingUp(d) /\ Stands(cases[next], d)
  BY <1>2, SetupBegins
<1>4. cases' = [cases EXCEPT ![next] = d]
  BY DEF BeginCase
<1> HIDE DEF d, next
<1>5. cases' \in [CaseIds -> CaseRow]
  BY <1>1, <1>3, <1>4, FormIsRow DEF Types
<1>6. ASSUME NEW t \in CaseIds PROVE CaseForm(t)' /\ Stands(cases[t], cases'[t])
  <2>1. CaseForm(t)
    BY DEF CasesInPlace
  <2>2. /\ t[1] \in Nat /\ t[2] \in Nat
        /\ t = Current <=> t[1] = suite /\ t[2] = case
        /\ (t = Current)' <=> t[1] = suite' /\ t[2] = case'
        /\ t = next <=> t[1] = suite /\ t[2] = case + 1
    BY CaseIdPair DEF Current, next
  <2>3. cases'[t] = IF t = next THEN d ELSE cases[t]
    BY <1>1, <1>4 DEF Types
  <2>4. /\ pc = "next_case" /\ pc' = "case_setup" /\ suite' = suite /\ case' = case + 1
        /\ unwinding' = unwinding /\ ~unwinding
    BY DEF BeginCase, Control
  <2>5. CaseForm(t)'
    BY <1>1, <1>3, <2>1, <2>2, <2>3, <2>4 DEF CaseForm, Upcoming, InHook, Closing, InSuite, InCase
  <2>6. Stands(cases[t], cases'[t])
    BY <1>3, <2>3 DEF Stands
  <2> QED
    BY <2>5, <2>6
<1> QED
  BY <1>1, <1>5, <1>6 DEF CasesInPlace, next

CurrentStep ==
    \/ CaseSetupReturns \/ CaseSetupRaises \/ CaseSetupDeclined \/ CaseHookCancelled
    \/ NextStep \/ MarkStepFailure \/ MarkStepNotApplicable
    \/ MarkStepCompleted \/ MarkCaseNotApplicable \/ SkipToLastStep
    \/ CaseExecuteReturns \/ CaseExecuteRaises

\* What a step does to the outcomes of a case.
StandsOutsideExecute(t) ==
    \/ Stands(cases[t], cases'[t])
    \/ t = Current /\ pc = "case_execute" /\ Revises(cases[t], cases'[t])

(* A step of the current case changes no other case, and keeps it in one   *)
(* of its phases and, outside its execute hook, its bad outcomes.          *)
LEMMA CurrentInHook ==
    ASSUME Types, Control, CasesInPlace, CurrentStep
    PROVE  /\ CasesInPlace' /\ cases' \in [CaseIds -> CaseRow]
           /\ \A t \in CaseIds : StandsOutsideExecute(t)
           /\ UNCHANGED <<run, suites, suite, case>>
           /\ Current \in CaseIds
           /\ pc \in {"case_setup", "case_execute"} /\ pc' \in {"case_execute", "case_cleanup"}
           /\ \A t \in CaseIds : t # Current => cases'[t] = cases[t]
<1> DEFINE c == cases[Current]
<1>1. /\ Current \in CaseIds /\ unwinding \in BOOLEAN /\ ~unwinding
      /\ pc = "case_setup" => SettingUp(c)
      /\ pc = "case_execute" => Executing(c)
      /\ pc \in {"case_setup", "case_execute"}
  <2>1. pc \in {"case_setup", "case_execute"}
    BY DEF CurrentStep, CaseSetupReturns, CaseSetupRaises, CaseSetupDeclined, CaseHookCancelled,
           NextStep, MarkStepFailure, MarkStepNotApplicable, MarkStepCompleted,
           MarkCaseNotApplicable, SkipToLastStep, CaseExecuteReturns, CaseExecuteRaises,
           StepOperation
  <2> QED
    BY <2>1 DEF Control, InCase, CasesInPlace, CaseForm, Types
<1> DEFINE Goal(d) ==
      /\ cases' = [cases EXCEPT ![Current] = d]
      /\ Stands(c, d) \/ (pc = "case_execute" /\ Revises(c, d))
      /\ UNCHANGED <<run, suites, suite, case>>
      /\ unwinding' \in BOOLEAN
      /\ \/ /\ pc = "case_setup" /\ pc' = "case_execute" /\ Executing(d)
         \/ /\ pc = "case_execute" /\ pc' = "case_execute" /\ Executing(d)
         \/ /\ pc \in {"case_setup", "case_execute"} /\ pc' = "case_cleanup" /\ CleaningUp(d)
            /\ IF unwinding' THEN Completed(d.state)
               ELSE d.state \in {"EXECUTING", "NOT_APPLICABLE", "CANCELLED"}
<1>2. ASSUME NEW d, Goal(d)
      PROVE  /\ CasesInPlace' /\ cases' \in [CaseIds -> CaseRow]
             /\ \A t \in CaseIds : StandsOutsideExecute(t)
             /\ UNCHANGED <<run, suites, suite, case>>
             /\ pc' \in {"case_execute", "case_cleanup"}
             /\ \A t \in CaseIds : t # Current => cases'[t] = cases[t]
  <2>1. CasesInPlace' /\ cases' \in [CaseIds -> CaseRow]
    BY <1>1, <1>2, CurrentMoves
  <2>2. ASSUME NEW t \in CaseIds
        PROVE  StandsOutsideExecute(t) /\ (t # Current => cases'[t] = cases[t])
    <3>1. CASE t = Current
      BY <1>1, <1>2, <3>1 DEF Types, StandsOutsideExecute
    <3>2. CASE t # Current
      BY <1>1, <1>2, <3>2 DEF Types, Stands, StandsOutsideExecute
    <3> QED
      BY <3>1, <3>2
  <2> QED
    BY <1>2, <2>1, <2>2
<1>3. CASE CaseSetupReturns
  <2>1. SettingUp(c)
    BY <1>1, <1>3 DEF CaseSetupReturns
  <2>2. Goal(ExecuteStep(c, c.index))
    BY <1>1, <1>3, <2>1, SetupReturned DEF CaseSetupReturns, control
  <2> QED
    BY <1>1, <1>2, <2>2
<1>4. CASE CaseSetupRaises
  <2>1. SettingUp(c)
    BY <1>1, <1>4 DEF CaseSetupRaises
  <2>2. Goal(EnterCaseCleanup(RecordCaseError(c)))
    BY <1>1, <1>4, <2>1, SetupRaised DEF CaseSetupRaises, control
  <2> QED
    BY <1>1, <1>2, <2>2
<1>5. CASE CaseSetupDeclined
  <2>1. SettingUp(c)
    BY <1>1, <1>5 DEF CaseSetupDeclined
  <2>2. Goal(EnterCaseCleanup(RecordCaseError(CancelCase(c))))
    BY <1>1, <1>5, <2>1, SetupDeclined DEF CaseSetupDeclined, control
  <2> QED
    BY <1>1, <1>2, <2>2
<1>6. CASE CaseHookCancelled
  <2>1. SettingUp(c) \/ Executing(c)
    BY <1>1, <1>6 DEF CaseHookCancelled
  <2>2. Goal(EnterCaseCleanup(CancelCase(c)))
    BY <1>1, <1>6, <2>1, CancelInHook DEF CaseHookCancelled
  <2> QED
    BY <1>1, <1>2, <2>2
<1>7. ASSUME NEW d, StepOperation(d),
             d \in {NextStepOf(c), FailStepOf(c), SkipStepOf(c), CompleteStepOf(c),
                    CaseNotApplicableOf(c), SkipToLastStepOf(c)}
      PROVE  Goal(d)
  <2>1. Executing(c)
    BY <1>1, <1>7 DEF StepOperation
  <2>2. Executing(d) /\ Revises(c, d)
    BY <1>7, <2>1, StepOperationKeeps
  <2> QED
    BY <1>1, <1>7, <2>2 DEF StepOperation, control
<1>8. CASE \/ NextStep \/ MarkStepFailure \/ MarkStepNotApplicable
           \/ MarkStepCompleted \/ MarkCaseNotApplicable \/ SkipToLastStep
  <2>1. \E d \in {NextStepOf(c), FailStepOf(c), SkipStepOf(c), CompleteStepOf(c),
                  CaseNotApplicableOf(c), SkipToLastStepOf(c)} : StepOperation(d)
    BY <1>8 DEF NextStep, MarkStepFailure, MarkStepNotApplicable, MarkStepCompleted,
                MarkCaseNotApplicable, SkipToLastStep
  <2> HIDE DEF Goal
  <2> QED
    BY <1>1, <1>2, <1>7, <2>1
<1>9. CASE CaseExecuteReturns
  <2>1. Executing(c)
    BY <1>1, <1>9 DEF CaseExecuteReturns
  <2>2. Goal(EnterCaseCleanup(CompleteStep(c, c.index)))
    BY <1>1, <1>9, <2>1, ExecuteEnded DEF CaseExecuteReturns, control
  <2> QED
    BY <1>1, <1>2, <2>2
<1>10. CASE CaseExecuteRaises
  <2>1. Executing(c)
    BY <1>1, <1>10 DEF CaseExecuteRaises
  <2>2. Goal(EnterCaseCleanup([c EXCEPT !.steps[c.index] = "ERROR"]))
    BY <1>1, <1>10, <2>1, ExecuteEnded DEF CaseExecuteRaises, control
  <2> QED
    BY <1>1, <1>2, <2>2
<1> QED
  BY <1>3, <1>4, <1>5, <1>6, <1>8, <1>9, <1>10 DEF CurrentStep

(* Outcomes that stand over one change and another stand over both.        *)
LEMMA StandsOn ==
    ASSUME NEW c, NEW d, NEW e, Stands(c, d), Stands(d, e)
    PROVE  Stands(c, e)
BY DEF Stands

(* The setup hook of the suite fails: its cases, none of them begun, are    *)
(* cancelled.                                                              *)
LEMMA SetupFails ==
    ASSUME Types, Control, CasesInPlace, pc = "suite_setup", pc' = "suite_cleanup",
           UNCHANGED <<suite, case>>, cases' = CancelCasesOf(cases, suite)
    PROVE  /\ CasesInPlace' /\ cases' \in [CaseIds -> CaseRow]
           /\ \A t \in CaseIds : Stands(cases[t], cases'[t])
           /\ \A t \in CasesOf(suite) : cases'[t].state = "CANCELLED"
           /\ \A t \in CaseIds : t[1] # suite => cases'[t] = cases[t]
<1>1. suite \in SuiteIds /\ suite \in Nat /\ case = 0 /\ ~unwinding
  BY PlanAssumption DEF Control, Types, InSuite, SuiteIds
<1>2. ASSUME NEW t \in CaseIds
      PROVE  /\ cases'[t] = IF t[1] = suite THEN CancelCase(cases[t]) ELSE cases[t]
             /\ cases'[t] \in CaseRow /\ CaseForm(t)' /\ Stands(cases[t], cases'[t])
             /\ t[1] = suite => cases'[t].state = "CANCELLED"
  <2>1. cases'[t] = IF t[1] = suite THEN CancelCase(cases[t]) ELSE cases[t]
    BY DEF CancelCasesOf
  <2>2. /\ t[1] \in Nat /\ t[2] \in Nat /\ t[2] >= 1
        /\ t = Current <=> t[1] = suite /\ t[2] = case
        /\ (t = Current)' <=> t[1] = suite' /\ t[2] = case'
    BY CaseIdPair DEF Current
  <2>3. CaseForm(t) /\ cases[t] \in CaseRow
    BY DEF CasesInPlace, Types
  <2>4. t[1] = suite => Fresh(cases[t])
    BY <1>1, <2>2, <2>3 DEF CaseForm, Upcoming, Closing, InSuite
  <2>5. t[1] = suite => /\ AtRest(cases'[t]) /\ Reported(cases'[t])
                        /\ cases'[t].state = "CANCELLED"
    BY <2>1, <2>4, CancelFresh DEF Reported
  <2>6. cases'[t] \in CaseRow /\ Stands(cases[t], cases'[t])
    BY <2>1, <2>3, CancelCaseKeeps DEF Stands
  <2>7. CaseForm(t)'
    <3>1. CASE t[1] = suite
      BY <1>1, <2>2, <2>5, <3>1 DEF CaseForm, Upcoming, InHook, Closing, InSuite, InCase
    <3>2. CASE t[1] # suite
      BY <1>1, <2>1, <2>2, <2>3, <3>2 DEF CaseForm, Upcoming, InHook, Closing, InSuite, InCase
    <3> QED
      BY <3>1, <3>2
  <2> QED
    BY <2>1, <2>5, <2>6, <2>7
<1>3. cases' \in [CaseIds -> CaseRow]
  BY <1>2 DEF CancelCasesOf
<1> QED
  BY <1>2, <1>3 DEF CasesInPlace, CasesOf

(* The cleanup hook of the case ends or is cancelled while a CancelledError *)
(* unwinds: every case of the suite is cancelled.                          *)
LEMMA CaseUnwinds ==
    ASSUME Types, Control, CasesInPlace, pc = "case_cleanup", pc' = "suite_cleanup",
           UNCHANGED <<suite, case>>, unwinding' = TRUE,
           NEW d, Settled(d), d.setups = 1, d.cleanups = 1, Stands(cases[Current], d),
           cases' = CancelCasesOf([cases EXCEPT ![Current] = d], suite)
    PROVE  /\ CasesInPlace' /\ cases' \in [CaseIds -> CaseRow]
           /\ \A t \in CaseIds : Stands(cases[t], cases'[t])
           /\ \A t \in CasesOf(suite) : Completed(cases'[t].state)
           /\ \A t \in CaseIds : t[1] # suite => cases'[t] = cases[t]
<1>1. suite \in SuiteIds /\ suite \in Nat /\ case \in Nat /\ Current \in CaseIds
  BY PlanAssumption DEF Control, Types, InSuite, InCase, SuiteIds
<1>2. d \in CaseRow /\ Remembers(d)
  BY DEF Settled
<1>3. /\ AtRest(CancelCase(d)) /\ Completed(CancelCase(d).state) /\ Stands(d, CancelCase(d))
      /\ CancelCase(d) \in CaseRow
  <2>1. Settled(CancelCase(d)) /\ Completed(CancelCase(d).state)
    BY <1>2, CancelSettles
  <2> QED
    BY <1>2, <2>1, CancelCaseKeeps DEF AtRest, Completed
<1>4. ASSUME NEW t \in CaseIds
      PROVE  /\ cases'[t] \in CaseRow /\ CaseForm(t)' /\ Stands(cases[t], cases'[t])
             /\ t[1] = suite => Completed(cases'[t].state)
             /\ t[1] # suite => cases'[t] = cases[t]
  <2>1. cases'[t] = IF t[1] = suite THEN CancelCase(IF t = Current THEN d ELSE cases[t])
                                    ELSE cases[t]
    BY <1>1, CaseIdPair DEF CancelCasesOf, Current, Types
  <2>2. /\ t[1] \in Nat /\ t[2] \in Nat
        /\ t = Current <=> t[1] = suite /\ t[2] = case
        /\ (t = Current)' <=> t[1] = suite' /\ t[2] = case'
    BY CaseIdPair DEF Current
  <2>3. CaseForm(t) /\ cases[t] \in CaseRow
    BY DEF CasesInPlace, Types
  <2>4. CASE t = Current
    <3>1. cases'[t] = CancelCase(d)
      BY <2>1, <2>2, <2>4
    <3>2. Stands(cases[t], cases'[t])
      BY <1>3, <2>4, <3>1, StandsOn
    <3>3. CaseForm(t)'
      BY <1>1, <1>3, <2>2, <2>4, <3>1 DEF CaseForm, Upcoming, InHook, InSuite, InCase
    <3> QED
      BY <1>3, <2>2, <2>4, <3>1, <3>2, <3>3
  <2>5. CASE t[1] = suite /\ t # Current
    <3>1. Fresh(cases[t]) \/ (AtRest(cases[t]) /\ Reported(cases[t]))
      <4>1. pc \notin Closing /\ ~InHook(t)
        BY <2>5 DEF InHook, Closing
      <4> QED
        BY <2>3, <2>5, <4>1 DEF CaseForm
    <3>2. /\ AtRest(cases'[t]) /\ Reported(cases'[t]) /\ Completed(cases'[t].state)
      BY <2>1, <2>5, <3>1, CancelKept
    <3>3. CaseForm(t)'
      BY <1>1, <2>2, <2>5, <3>2 DEF CaseForm, Upcoming, InHook, InSuite, InCase
    <3> QED
      BY <2>1, <2>3, <2>5, <3>2, <3>3, CancelCaseKeeps
  <2>6. CASE t[1] # suite
    <3>1. CaseForm(t)'
      BY <1>1, <2>1, <2>2, <2>3, <2>6 DEF CaseForm, Upcoming, InHook, InSuite, InCase, Closing
    <3> QED
      BY <2>1, <2>3, <2>6, <3>1 DEF Stands
  <2> QED
    BY <2>2, <2>4, <2>5, <2>6
<1>5. cases' \in [CaseIds -> CaseRow]
  BY <1>4 DEF CancelCasesOf
<1> QED
  BY <1>4, <1>5 DEF CasesInPlace, CasesOf

(* The task is past its hooks, and goes on to none: any of the cases may   *)
(* be cancelled.                                                           *)
LEMMA RunCloses ==
    ASSUME Types, Control, CasesInPlace, NEW S,
           pc \in {"suite_cleanup", "raised"}, pc' \in Closing,
           UNCHANGED <<suite, case>>, unwinding => unwinding',
           pc' = "done" => cancelledAt' # "nowhere",
           cases' = [t \in CaseIds |-> IF t \in S THEN CancelCase(cases[t]) ELSE cases[t]]
    PROVE  /\ CasesInPlace' /\ cases' \in [CaseIds -> CaseRow]
           /\ \A t \in CaseIds : Stands(cases[t], cases'[t])
           /\ \A t \in CaseIds : t \in S => Completed(cases'[t].state)
<1>1. suite \in Nat /\ case \in Nat
  BY PlanAssumption DEF Types
<1>2. ASSUME NEW t \in CaseIds
      PROVE  /\ cases'[t] \in CaseRow /\ CaseForm(t)' /\ Stands(cases[t], cases'[t])
             /\ t \in S => Completed(cases'[t].state)
  <2>1. cases'[t] = IF t \in S THEN CancelCase(cases[t]) ELSE cases[t]
    OBVIOUS
  <2>2. /\ t[1] \in Nat /\ t[2] \in Nat
        /\ (t = Current)' <=> t = Current
    BY DEF Current, CaseIds, SuiteIds
  <2>3. CaseForm(t) /\ cases[t] \in CaseRow
    BY DEF CasesInPlace, Types
  <2>4. \/ t[1] >= suite /\ Fresh(cases[t])
        \/ AtRest(cases[t]) /\ (Reported(cases[t]) \/ (unwinding /\ t = Current))
    BY <1>1, <2>2, <2>3 DEF CaseForm, Upcoming, InHook, InSuite, InCase, Closing
  <2>5. t \in S => Completed(cases'[t].state)
    BY <2>1, <2>4, CancelKept
  <2>6. \/ t[1] >= suite /\ Fresh(cases'[t])
        \/ AtRest(cases'[t]) /\ (Reported(cases'[t]) \/ (unwinding /\ t = Current))
    BY <2>1, <2>4, CancelKept
  <2>7. CaseForm(t)'
    BY <2>2, <2>6 DEF CaseForm, Upcoming, InHook, Closing
  <2> QED
    BY <2>1, <2>3, <2>5, <2>7, CancelCaseKeeps DEF Stands
<1>3. cases' \in [CaseIds -> CaseRow]
  BY <1>2
<1> QED
  BY <1>2, <1>3 DEF CasesInPlace

-----------------------------------------------------------------------------
(***************************************************************************)
(* Every step keeps the task on its way through the suites.                *)
(***************************************************************************)
USE DEF InCase, InSuite, Closing

(* Every step leaves pc, suite and case as Control says they belong together. *)
LEMMA ControlStep ==
    ASSUME Types, Control, CasesInPlace, [Next]_vars
    PROVE  /\ Control' /\ pc' \in PC /\ suite' \in 0..NumSuites /\ case' \in Nat
           /\ unwinding' \in BOOLEAN /\ cancelled' \in BOOLEAN /\ task' \in BOOLEAN
<1>1. NumSuites \in Nat /\ \A s \in SuiteIds : CaseCount[s] \in Nat /\ s \in 1..NumSuites
  BY PlanAssumption DEF SuiteIds
<1> USE <1>1 DEF Types, Control, PC, Raising, control
<1>2. CASE StartRun
  BY <1>2 DEF StartRun
<1>3. CASE FinishRun
  BY <1>3 DEF FinishRun
<1>4. CASE Abort
  BY <1>4, Zenon DEF Abort, Current
<1>5. CASE TaskStarts
  BY <1>5 DEF TaskStarts
<1>6. CASE BeginSuite
  BY <1>6 DEF BeginSuite, SuiteIds
<1>7. CASE EndSuites
  BY <1>7 DEF EndSuites
<1>8. CASE SuiteSetupReturns
  BY <1>8 DEF SuiteSetupReturns
<1>9. CASE SuiteSetupRaises
  BY <1>9 DEF SuiteSetupRaises
<1>10. CASE SuiteSetupDeclined
  BY <1>10 DEF SuiteSetupDeclined
<1>11. CASE SuiteSetupCancelled
  BY <1>11 DEF SuiteSetupCancelled
<1>12. CASE BeginCase
  BY <1>12, CaseBegins DEF BeginCase, Current
<1>13. CASE EndCases
  BY <1>13 DEF EndCases
<1>14. CASE Yield
  BY <1>14 DEF Yield, Current
<1>15. ASSUME NEW error \in BOOLEAN, SuiteCleanupEnds(error)
       PROVE  /\ Control' /\ pc' \in PC /\ suite' \in 0..NumSuites /\ case' \in Nat
              /\ unwinding' \in BOOLEAN /\ cancelled' \in BOOLEAN /\ task' \in BOOLEAN
  BY <1>15 DEF SuiteCleanupEnds
<1>16. CASE SuiteCleanupCancelled
  BY <1>16 DEF SuiteCleanupCancelled
<1>17. CASE MandatoryPromptCancelled
  BY <1>17 DEF MandatoryPromptCancelled
<1>18. CASE CurrentStep
  <2>1. \/ UNCHANGED control
        \/ Raising /\ unwinding' = TRUE /\ UNCHANGED <<cancelled, task>> /\ pc' = "case_cleanup"
    BY <1>18 DEF CurrentStep, CaseSetupReturns, CaseSetupRaises, CaseSetupDeclined,
       CaseHookCancelled, NextStep, MarkStepFailure, MarkStepNotApplicable, MarkStepCompleted,
       MarkCaseNotApplicable, SkipToLastStep, CaseExecuteReturns, CaseExecuteRaises, StepOperation
  <2>2. /\ UNCHANGED <<suite, case>> /\ Current \in CaseIds
        /\ pc \in {"case_setup", "case_execute"} /\ pc' \in {"case_execute", "case_cleanup"}
    BY <1>18, CurrentInHook
  <2>3. ~unwinding /\ cancelledAt = "nowhere" /\ Current' = Current
        /\ suite \in SuiteIds /\ case <= CaseCount[suite]
    BY <2>2 DEF Current
  <2>4. CASE UNCHANGED control
    BY <2>2, <2>3, <2>4
  <2>5. CASE Raising /\ unwinding' = TRUE /\ UNCHANGED <<cancelled, task>> /\ pc' = "case_cleanup"
    BY <2>2, <2>3, <2>5
  <2> QED
    BY <2>1, <2>4, <2>5
<1>19. ASSUME NEW error \in BOOLEAN, CaseCleanupEnds(error)
       PROVE  /\ Control' /\ pc' \in PC /\ suite' \in 0..NumSuites /\ case' \in Nat
              /\ unwinding' \in BOOLEAN /\ cancelled' \in BOOLEAN /\ task' \in BOOLEAN
  BY <1>19 DEF CaseCleanupEnds, Current
<1>20. CASE CaseCleanupCancelled
  BY <1>20 DEF CaseCleanupCancelled, Current
<1>21. CASE Terminated \/ UNCHANGED vars
  BY <1>21 DEF Terminated, vars, Current
<1> QED
  BY <1>2, <1>3, <1>4, <1>5, <1>6, <1>7, <1>8, <1>9, <1>10, <1>11, <1>12, <1>13, <1>14,
     <1>15, <1>16, <1>17, <1>18, <1>19, <1>20, <1>21
     DEF Next, SuiteStep, CaseStep, CurrentStep

-----------------------------------------------------------------------------
(***************************************************************************)
(* Every step keeps the suites in their places, and the cases with them.   *)
(***************************************************************************)
(* Completing a suite.                                                     *)
LEMMA CompleteSuiteKeeps ==
    ASSUME NEW su \in SuiteRow, NEW states, NEW d, d = CompleteSuite(su, states)
    PROVE  /\ d \in SuiteRow /\ d.errors = su.errors
           /\ d.setups = su.setups /\ d.cleanups = su.cleanups
           /\ su.state = "EXECUTING" => d.state # "EXECUTING"
           /\ Completed(su.state) => d = su
           /\ ~Completed(su.state) => /\ d.state # "EXECUTING"
                                      /\ d.state \in {"ERROR", RollUp(states)}
                                      /\ su.errors => d.state = "ERROR"
                                      /\ ~su.errors => d.state = RollUp(states)
           /\ (\A x \in states : Completed(x)) => Completed(d.state)
<1>1. CASE Completed(su.state)
  BY <1>1 DEF CompleteSuite, Completed
<1>2. CASE ~Completed(su.state)
  <2>1. d = [su EXCEPT !.state = SuiteVerdict(su.errors, states)]
    BY <1>2 DEF CompleteSuite
  <2>2. /\ SuiteVerdict(su.errors, states) \in TestState \ {"EXECUTING"}
        /\ su.errors => SuiteVerdict(su.errors, states) = "ERROR"
        /\ ~su.errors => SuiteVerdict(su.errors, states) = RollUp(states)
        /\ (\A x \in states : Completed(x)) => Completed(SuiteVerdict(su.errors, states))
    BY RollUpStates DEF SuiteVerdict, TestState, Completed
  <2> QED
    BY <1>2, <2>1, <2>2 DEF SuiteRow
<1> QED
  BY <1>1, <1>2

(* A suite whose cases were left alone says the same of them.              *)
LEMMA SameCases ==
    ASSUME NEW s \in SuiteIds, \A t \in CasesOf(s) : cases'[t] = cases[t]
    PROVE  /\ CaseStates(cases', s) = CaseStates(cases, s)
           /\ AllEnded(s)' = AllEnded(s)
           /\ suites'[s].state = suites[s].state => RolledUp(s)' = RolledUp(s)
<1>1. CaseStates(cases', s) = CaseStates(cases, s)
  BY DEF CaseStates
<1>2. AllEnded(s)' <=> AllEnded(s)
  BY DEF AllEnded
<1>3. suites'[s].state = suites[s].state => RolledUp(s)' = RolledUp(s)
  BY <1>1 DEF RolledUp
<1> QED
  BY <1>1, <1>2, <1>3 DEF AllEnded

(* What every step keeps.                                                  *)
Keeps ==
    /\ CasesInPlace' /\ cases' \in [CaseIds -> CaseRow]
    /\ SuitesInPlace' /\ suites' \in [SuiteIds -> SuiteRow]
    /\ \A t \in CaseIds : StandsOutsideExecute(t)
    /\ \A s \in SuiteIds : Completed(suites[s].state) => suites'[s].state = suites[s].state

(* The steps that leave every suite and every case alone.                  *)
LEMMA QuietSteps ==
    ASSUME Types, Control, CasesInPlace, SuitesInPlace,
           \/ StartRun \/ Abort \/ TaskStarts \/ EndSuites \/ SuiteSetupReturns
           \/ Yield \/ MandatoryPromptCancelled \/ UNCHANGED vars
    PROVE  Keeps
<1>1. cases' = cases /\ suites' = suites
  BY DEF StartRun, Abort, TaskStarts, EndSuites, SuiteSetupReturns, Yield,
         MandatoryPromptCancelled, vars
<1>2. CasesInPlace'
  BY <1>1, CasesUntouched
<1>3. ASSUME NEW s \in SuiteIds PROVE SuiteForm(s)'
  <2>1. SuiteForm(s) /\ (AllEnded(s)' <=> AllEnded(s)) /\ (RolledUp(s)' <=> RolledUp(s))
    BY <1>1 DEF SuitesInPlace, AllEnded, RolledUp
  <2>2. s \in Nat /\ s > 0 /\ s <= NumSuites /\ suite \in Nat /\ pc \in PC /\ NumSuites \in Nat
    BY PlanAssumption DEF SuiteIds, Types
  <2> USE <1>1, <2>1, <2>2 DEF SuiteForm, Past, LeftAtYield
  <2>3. CASE StartRun
    BY <2>3 DEF StartRun
  <2>4. CASE Abort
    BY <2>4 DEF Abort
  <2>5. CASE TaskStarts
    BY <2>5 DEF TaskStarts, Control
  <2>6. CASE EndSuites
    BY <2>6 DEF EndSuites, Control
  <2>7. CASE SuiteSetupReturns
    BY <2>7 DEF SuiteSetupReturns, control
  <2>8. CASE Yield
    BY <2>8 DEF Yield, Raising, OpenSuite, Completed, Control
  <2>9. CASE MandatoryPromptCancelled
    BY <2>9 DEF MandatoryPromptCancelled, Raising, Control
  <2>10. CASE UNCHANGED vars
    BY <2>10 DEF vars
  <2> QED
    BY <2>3, <2>4, <2>5, <2>6, <2>7, <2>8, <2>9, <2>10
<1>4. \A t \in CaseIds : Stands(cases[t], cases'[t])
  BY <1>1 DEF Stands
<1> QED
  BY <1>1, <1>2, <1>3, <1>4 DEF Keeps, StandsOutsideExecute, SuitesInPlace, Types

(* Beginning a suite: n is the suite, d what it is set to.                 *)
LEMMA SuiteBegins ==
    ASSUME Types, Control, CasesInPlace, SuitesInPlace, BeginSuite,
           NEW n \in SuiteIds, suite' = n, suite = n - 1,
           NEW d \in SuiteRow, suites' = [suites EXCEPT ![n] = d],
           \/ /\ pc' = "next_suite" /\ CasesOf(n) = {} /\ d.state = RollUp({})
              /\ ~d.errors /\ d.setups = 0 /\ d.cleanups = 0
           \/ pc' = "suite_setup" /\ OpenSuite(d)
    PROVE  Keeps
<1>1. /\ suite \in Nat /\ n \in Nat /\ cases' = cases /\ pc = "next_suite"
      /\ ~unwinding /\ cancelledAt = "nowhere" /\ UNCHANGED <<unwinding, cancelledAt>>
  BY PlanAssumption DEF BeginSuite, Types, SuiteIds, Control
<1>2. CasesInPlace'
  BY <1>1, CasesUntouched
<1>3. suites[n].state = "PENDING"
  BY <1>1 DEF SuitesInPlace, SuiteForm
<1>4. suites'[n] = d /\ suites' \in [SuiteIds -> SuiteRow]
      /\ \A s \in SuiteIds : s # n => suites'[s] = suites[s]
  BY DEF Types
<1>5. SuiteForm(n)'
  <2>1. CASE pc' = "suite_setup" /\ OpenSuite(d)
    BY <1>1, <1>4, <2>1 DEF SuiteForm, Past, LeftAtYield, OpenSuite, Completed
  <2>2. CASE pc' = "next_suite" /\ CasesOf(n) = {} /\ d.state = RollUp({})
             /\ ~d.errors /\ d.setups = 0 /\ d.cleanups = 0
    <3>1. CaseStates(cases', n) = {} /\ d.state # "EXECUTING"
      BY <2>2, RollUpStates DEF CaseStates
    <3> QED
      BY <1>1, <1>4, <2>2, <3>1 DEF SuiteForm, Past, LeftAtYield, RolledUp
  <2> QED
    BY <2>1, <2>2
<1>6. ASSUME NEW s \in SuiteIds, s # n PROVE SuiteForm(s)'
  <2>1. SuiteForm(s) /\ (AllEnded(s)' <=> AllEnded(s)) /\ (RolledUp(s)' <=> RolledUp(s))
    BY <1>1, <1>4, <1>6 DEF SuitesInPlace, AllEnded, RolledUp
  <2>2. s \in Nat /\ (s > suite' => s > suite) /\ s # suite' /\ (s < suite' => s <= suite)
    BY <1>1, <1>6 DEF SuiteIds
  <2> QED
    BY <1>1, <1>4, <1>6, <2>1, <2>2 DEF SuiteForm, Past, LeftAtYield
<1>7. \A s \in SuiteIds : Completed(suites[s].state) => suites'[s].state = suites[s].state
  BY <1>3, <1>4 DEF Completed
<1>8. \A s \in SuiteIds : SuiteForm(s)'
  BY <1>5, <1>6
<1>9. cases' \in [CaseIds -> CaseRow] /\ \A t \in CaseIds : Stands(cases[t], cases'[t])
  BY <1>1 DEF Types, Stands
<1> QED
  BY <1>2, <1>4, <1>7, <1>8, <1>9 DEF Keeps, StandsOutsideExecute, SuitesInPlace

(* The next suite begins: nothing of it has been set up before.            *)
LEMMA BeginSuiteKeeps ==
    ASSUME Types, Control, CasesInPlace, SuitesInPlace, BeginSuite
    PROVE  Keeps
<1>1. PICK n \in SuiteIds : suite' = n /\ suite = n - 1 /\ suite + 1 = n
  <2>1. suite + 1 \in SuiteIds /\ suite = (suite + 1) - 1 /\ suite' = suite + 1
    <3>1. NumSuites \in Nat /\ suite \in 0..NumSuites /\ suite < NumSuites /\ suite' = suite + 1
      BY PlanAssumption DEF BeginSuite, Types
    <3>2. suite + 1 \in 1..NumSuites /\ suite = (suite + 1) - 1
      BY <3>1
    <3> QED
      BY <3>1, <3>2 DEF SuiteIds
  <2> QED
    BY <2>1
<1> DEFINE e == [suites[n] EXCEPT !.state = "EXECUTING"]
<1>2. /\ suites[n] \in SuiteRow /\ ~suites[n].errors
      /\ suites[n].setups = 0 /\ suites[n].cleanups = 0
  BY <1>1, PlanAssumption DEF Types, SuitesInPlace, SuiteForm, SuiteIds
<1>3. e \in SuiteRow /\ e.state = "EXECUTING" /\ ~e.errors /\ e.setups = 0 /\ e.cleanups = 0
  BY <1>2 DEF SuiteRow, TestState
<1>4. CASE CasesOf(n) = {}
  <2> DEFINE d == CompleteSuite(e, {})
  <2>1. pc' = "next_suite" /\ suites' = [suites EXCEPT ![n] = d]
    BY <1>1, <1>4 DEF BeginSuite
  <2> HIDE DEF e
  <2>2. /\ d \in SuiteRow /\ d.state = RollUp({})
        /\ ~d.errors /\ d.setups = 0 /\ d.cleanups = 0
    BY <1>3, CompleteSuiteKeeps DEF Completed
  <2> HIDE DEF d
  <2> QED
    BY <1>1, <1>4, <2>1, <2>2, SuiteBegins
<1>5. CASE CasesOf(n) # {}
  <2> DEFINE d == [suites[n] EXCEPT !.state = "EXECUTING", !.setups = @ + 1]
  <2>1. pc' = "suite_setup" /\ suites' = [suites EXCEPT ![n] = d]
    BY <1>1, <1>5 DEF BeginSuite, Types
  <2>2. d = [e EXCEPT !.setups = 1]
    BY <1>2 DEF SuiteRow
  <2> HIDE DEF d, e
  <2>3. d \in SuiteRow /\ OpenSuite(d)
    BY <1>3, <2>2 DEF SuiteRow, OpenSuite
  <2> QED
    BY <1>1, <1>5, <2>1, <2>3, SuiteBegins
<1> QED
  BY <1>4, <1>5

(* Of a step that concerns the current suite only, the others say what     *)
(* they said.                                                              *)
LEMMA OtherSuites ==
    ASSUME Types, Control, SuitesInPlace, suite' = suite,
           pc \in InSuite \cup {"suite_cleanup"}, pc' \in InSuite \cup {"suite_cleanup", "next_suite", "raised"},
           \A t \in CaseIds : t[1] # suite => cases'[t] = cases[t],
           NEW s \in SuiteIds, s # suite, suites'[s] = suites[s]
    PROVE  SuiteForm(s)'
<1>1. SuiteForm(s) /\ s \in Nat /\ suite \in Nat
  BY PlanAssumption DEF SuitesInPlace, SuiteIds, Types
<1>2. \A t \in CasesOf(s) : cases'[t] = cases[t]
  BY DEF CasesOf
<1>3. (AllEnded(s)' <=> AllEnded(s)) /\ (RolledUp(s)' <=> RolledUp(s))
  BY <1>2, SameCases
<1> QED
  BY <1>1, <1>3 DEF SuiteForm, Past, LeftAtYield

(* Entering the cleanup hook of the suite, from wherever in it.            *)
LEMMA EnterCleanupKeeps ==
    ASSUME NEW su \in SuiteRow, su.setups = 1, su.cleanups = 0
    PROVE  \A d \in {EnterCleanup(su), EnterCleanup(RecordSuiteError(su))} :
              d \in SuiteRow /\ d.state = su.state /\ d.setups = 1 /\ d.cleanups = 1
<1>1. ASSUME NEW e \in SuiteRow, e.state = su.state, e.setups = 1, e.cleanups = 0,
             NEW d, d = EnterCleanup(e)
      PROVE  d \in SuiteRow /\ d.state = su.state /\ d.setups = 1 /\ d.cleanups = 1
  <2>1. d = [e EXCEPT !.cleanups = 1]
    BY <1>1 DEF EnterCleanup
  <2> QED
    BY <1>1, <2>1 DEF SuiteRow
<1>2. /\ RecordSuiteError(su) \in SuiteRow /\ RecordSuiteError(su).state = su.state
      /\ RecordSuiteError(su).setups = 1 /\ RecordSuiteError(su).cleanups = 0
  BY DEF RecordSuiteError, SuiteRow
<1> QED
  BY <1>1, <1>2

(* A step inside the suite that changes cases of it, before its cleanup.   *)
LEMMA InSuiteKeeps ==
    ASSUME Types, Control, SuitesInPlace, suite' = suite, suites' = suites,
           pc \in InSuite, pc' \in InSuite, cancelledAt' # "yield" \/ pc' \notin {"raised", "done"},
           CasesInPlace', cases' \in [CaseIds -> CaseRow],
           \A t \in CaseIds : StandsOutsideExecute(t),
           \A t \in CaseIds : t[1] # suite => cases'[t] = cases[t]
    PROVE  Keeps
<1>1. suite \in SuiteIds /\ suite \in Nat
  BY PlanAssumption DEF Control, SuiteIds
<1>2. ASSUME NEW s \in SuiteIds PROVE SuiteForm(s)'
  <2>1. CASE s = suite
    <3>1. OpenSuite(suites[s])
      BY <2>1 DEF SuitesInPlace, SuiteForm
    <3> QED
      BY <1>1, <2>1, <3>1 DEF SuiteForm, Past, LeftAtYield, OpenSuite, Completed
  <2>2. CASE s # suite
    BY <2>2, OtherSuites
  <2> QED
    BY <2>1, <2>2
<1> QED
  BY <1>2 DEF Keeps, SuitesInPlace, Types

(* The steps of the current case leave the suites alone.                   *)
LEMMA CaseStepsKeep ==
    ASSUME Types, Control, CasesInPlace, SuitesInPlace, BeginCase \/ CurrentStep
    PROVE  Keeps
<1>1. CASE BeginCase
  <2>1. /\ CasesInPlace' /\ cases' \in [CaseIds -> CaseRow] /\ <<suite, case + 1>> \in CaseIds
        /\ \A t \in CaseIds : Stands(cases[t], cases'[t])
    BY <1>1, CaseBegins
  <2>2. \A t \in CaseIds : t[1] # suite => cases'[t] = cases[t]
    BY <1>1, <2>1, CaseIdPair DEF BeginCase, Types
  <2> QED
    BY <1>1, <2>1, <2>2, InSuiteKeeps DEF BeginCase, StandsOutsideExecute
<1>2. CASE CurrentStep
  <2>1. /\ CasesInPlace' /\ cases' \in [CaseIds -> CaseRow]
        /\ \A t \in CaseIds : StandsOutsideExecute(t)
        /\ UNCHANGED <<run, suites, suite, case>>
        /\ pc \in {"case_setup", "case_execute"} /\ pc' \in {"case_execute", "case_cleanup"}
        /\ \A t \in CaseIds : t # Current => cases'[t] = cases[t]
    BY <1>2, CurrentInHook
  <2>2. \A t \in CaseIds : t[1] # suite => cases'[t] = cases[t]
    BY <2>1, CaseIdPair DEF Current
  <2> QED
    BY <2>1, <2>2, InSuiteKeeps
<1> QED
  BY <1>1, <1>2

(* After its last case the cleanup hook of the suite is called.            *)
LEMMA EndCasesKeeps ==
    ASSUME Types, Control, CasesInPlace, SuitesInPlace, EndCases
    PROVE  Keeps
<1> DEFINE d == EnterCleanup(suites[suite])
<1>1. /\ suite \in SuiteIds /\ suite \in Nat /\ pc = "next_case" /\ pc' = "suite_cleanup"
      /\ UNCHANGED <<suite, unwinding, cancelledAt, cases>> /\ ~unwinding
      /\ suites[suite] \in SuiteRow
  BY PlanAssumption DEF EndCases, Control, SuiteIds, control, Types
<1>2. CasesInPlace'
  BY <1>1, CasesUntouched
<1>3. OpenSuite(suites[suite])
  BY <1>1 DEF SuitesInPlace, SuiteForm
<1>4. d \in SuiteRow /\ d.state = "EXECUTING" /\ d.setups = 1 /\ d.cleanups = 1
  BY <1>1, <1>3, EnterCleanupKeeps DEF OpenSuite
<1>5. suites' = [suites EXCEPT ![suite] = d]
  BY DEF EndCases
<1> HIDE DEF d
<1>6. /\ suites' \in [SuiteIds -> SuiteRow] /\ suites'[suite] = d
      /\ \A s \in SuiteIds : s # suite => suites'[s] = suites[s]
  BY <1>1, <1>4, <1>5 DEF Types
<1>7. ASSUME NEW s \in SuiteIds PROVE SuiteForm(s)'
  <2>1. CASE s = suite
    BY <1>1, <1>4, <1>6, <2>1 DEF SuiteForm, Past, LeftAtYield, Completed
  <2>2. CASE s # suite
    BY <1>1, <1>6, <2>2, OtherSuites
  <2> QED
    BY <2>1, <2>2
<1>8. \A s \in SuiteIds : Completed(suites[s].state) => suites'[s].state = suites[s].state
  BY <1>3, <1>6 DEF Completed, OpenSuite
<1> QED
  BY <1>1, <1>2, <1>6, <1>7, <1>8 DEF Keeps, StandsOutsideExecute, SuitesInPlace, Types, Stands

(* The suite comes to its cleanup because something in it failed: n is the  *)
(* suite, d what it is set to.                                             *)
LEMMA SuiteFails ==
    ASSUME Types, Control, CasesInPlace, SuitesInPlace,
           pc \in InSuite, pc' = "suite_cleanup", UNCHANGED <<suite, case>>,
           CasesInPlace', cases' \in [CaseIds -> CaseRow],
           \A t \in CaseIds : Stands(cases[t], cases'[t]),
           \A t \in CaseIds : t[1] # suite => cases'[t] = cases[t],
           \A t \in CasesOf(suite) : Completed(cases'[t].state),
           NEW d \in SuiteRow, d.setups = 1, d.cleanups = 1,
           suites' = [suites EXCEPT ![suite] = d],
           IF unwinding' THEN Completed(d.state) ELSE d.state \in {"EXECUTING", "CANCELLED"},
           d.state = "EXECUTING" \/ d.state \in {"ERROR", RollUp(CaseStates(cases', suite))}
    PROVE  Keeps
<1>1. suite \in SuiteIds /\ suite \in Nat
  BY PlanAssumption DEF Control, SuiteIds
<1>3. OpenSuite(suites[suite])
  BY <1>1 DEF SuitesInPlace, SuiteForm
<1>6. /\ suites' \in [SuiteIds -> SuiteRow] /\ suites'[suite] = d
      /\ \A s \in SuiteIds : s # suite => suites'[s] = suites[s]
  BY <1>1 DEF Types
<1>7. ASSUME NEW s \in SuiteIds PROVE SuiteForm(s)'
  <2>1. CASE s = suite
    BY <1>1, <1>6, <2>1 DEF SuiteForm, Past, LeftAtYield, Completed, AllEnded, RolledUp
  <2>2. CASE s # suite
    BY <1>1, <1>6, <2>2, OtherSuites
  <2> QED
    BY <2>1, <2>2
<1>8. \A s \in SuiteIds : Completed(suites[s].state) => suites'[s].state = suites[s].state
  BY <1>3, <1>6 DEF Completed, OpenSuite
<1> QED
  BY <1>6, <1>7, <1>8 DEF Keeps, StandsOutsideExecute, SuitesInPlace

(* TestSuite.cancel of the suite that runs.                                *)
LEMMA CancelsSuite ==
    ASSUME Types, suite \in SuiteIds, OpenSuite(suites[suite]), NEW cs,
           NEW su, su = CompleteSuite(suites[suite], CaseStates(CasesAfterCancel(cs, {suite}), suite))
    PROVE  /\ CasesAfterCancel(cs, {suite}) = CancelCasesOf(cs, suite)
           /\ SuitesAfterCancel(cs, {suite}) = [suites EXCEPT ![suite] = su]
           /\ su \in SuiteRow /\ su.setups = 1 /\ su.cleanups = 0
           /\ su.state = RollUp(CaseStates(CasesAfterCancel(cs, {suite}), suite))
<1>1. CasesAfterCancel(cs, {suite}) = CancelCasesOf(cs, suite)
  BY DEF CasesAfterCancel, CancelCasesOf, OpenSuite, Completed
<1>2. SuitesAfterCancel(cs, {suite}) = [suites EXCEPT ![suite] = su]
  BY DEF SuitesAfterCancel, Types
<1>3. suites[suite] \in SuiteRow
  BY DEF Types
<1> QED
  BY <1>1, <1>2, <1>3, CompleteSuiteKeeps DEF OpenSuite, Completed

(* The setup of the suite raises, is declined or cancelled: the cases of it *)
(* are cancelled, and its cleanup hook is called.                          *)
LEMMA SetupFailuresKeep ==
    ASSUME Types, Control, CasesInPlace, SuitesInPlace,
           SuiteSetupRaises \/ SuiteSetupDeclined \/ SuiteSetupCancelled
    PROVE  Keeps
<1> DEFINE states == CaseStates(CasesAfterCancel(cases, {suite}), suite)
           su == CompleteSuite(suites[suite], states)
<1>1. /\ suite \in SuiteIds /\ pc = "suite_setup" /\ pc' = "suite_cleanup" /\ ~unwinding
      /\ UNCHANGED <<suite, case>> /\ CasesOf(suite) # {} /\ suites[suite] \in SuiteRow
  BY DEF Types, Control, SuiteSetupRaises, SuiteSetupDeclined, SuiteSetupCancelled, control
<1>2. OpenSuite(suites[suite])
  BY <1>1 DEF SuitesInPlace, SuiteForm
<1>3. /\ CasesAfterCancel(cases, {suite}) = CancelCasesOf(cases, suite)
      /\ SuitesAfterCancel(cases, {suite}) = [suites EXCEPT ![suite] = su]
      /\ su \in SuiteRow /\ su.setups = 1 /\ su.cleanups = 0 /\ su.state = RollUp(states)
  BY <1>1, <1>2, CancelsSuite
<1>4. cases' = CancelCasesOf(cases, suite)
  BY <1>3 DEF SuiteSetupRaises, SuiteSetupDeclined, SuiteSetupCancelled
<1>5. /\ CasesInPlace' /\ cases' \in [CaseIds -> CaseRow]
      /\ \A t \in CaseIds : Stands(cases[t], cases'[t])
      /\ \A t \in CasesOf(suite) : cases'[t].state = "CANCELLED"
      /\ \A t \in CaseIds : t[1] # suite => cases'[t] = cases[t]
  BY <1>1, <1>4, SetupFails
<1>6. states = CaseStates(cases', suite) /\ \A t \in CasesOf(suite) : Completed(cases'[t].state)
  BY <1>3, <1>4, <1>5 DEF Completed
<1>7. su.state = "CANCELLED"
  <2>1. "CANCELLED" \in CaseStates(cases', suite)
    BY <1>1, <1>5 DEF CaseStates
  <2> QED
    BY <1>3, <1>6, <2>1, RollUpStates
<1> HIDE DEF su
<1>8. ASSUME NEW d \in {EnterCleanup(su), EnterCleanup(RecordSuiteError(su))},
             suites' = [suites EXCEPT ![suite] = d]
      PROVE  Keeps
  <2>1. d \in SuiteRow /\ d.state = "CANCELLED" /\ d.setups = 1 /\ d.cleanups = 1
    BY <1>3, <1>7, <1>8, EnterCleanupKeeps
  <2>2. d.state = RollUp(CaseStates(cases', suite)) /\ Completed(d.state)
    BY <1>3, <1>6, <1>7, <2>1 DEF Completed
  <2> QED
    BY <1>1, <1>5, <1>6, <1>8, <2>1, <2>2, SuiteFails
<1>9. CASE SuiteSetupRaises
  <2> DEFINE d == EnterCleanup(RecordSuiteError(suites[suite]))
  <2>1. d \in SuiteRow /\ d.state = "EXECUTING" /\ d.setups = 1 /\ d.cleanups = 1
    BY <1>1, <1>2, EnterCleanupKeeps DEF OpenSuite
  <2>2. suites' = [suites EXCEPT ![suite] = d] /\ ~unwinding'
    BY <1>1, <1>9 DEF SuiteSetupRaises, control
  <2> HIDE DEF d
  <2> QED
    BY <1>1, <1>5, <1>6, <2>1, <2>2, SuiteFails
<1>10. CASE SuiteSetupDeclined
  <2>1. suites' = [suites EXCEPT ![suite] = EnterCleanup(RecordSuiteError(su))]
    BY <1>1, <1>3, <1>10 DEF SuiteSetupDeclined, Types
  <2> QED
    BY <1>8, <2>1
<1>11. CASE SuiteSetupCancelled
  <2>1. suites' = [suites EXCEPT ![suite] = EnterCleanup(su)]
    BY <1>1, <1>3, <1>11 DEF SuiteSetupCancelled, Types
  <2> QED
    BY <1>8, <2>1
<1> QED
  BY <1>9, <1>10, <1>11

(* The cleanup hook of a case ends, or is cancelled.                       *)
LEMMA CaseCleanupKeeps ==
    ASSUME Types, Control, CasesInPlace, SuitesInPlace,
           (\E error \in BOOLEAN : CaseCleanupEnds(error)) \/ CaseCleanupCancelled
    PROVE  Keeps
<1> DEFINE c == cases[Current]
<1>1. /\ suite \in SuiteIds /\ pc = "case_cleanup" /\ UNCHANGED <<suite, case>>
      /\ suites[suite] \in SuiteRow /\ Current \in CaseIds /\ unwinding \in BOOLEAN
  BY DEF Types, Control, CaseCleanupEnds, CaseCleanupCancelled, control
<1>2. OpenSuite(suites[suite])
  BY <1>1 DEF SuitesInPlace, SuiteForm
<1>3. /\ CleaningUp(c)
      /\ IF unwinding THEN Completed(c.state)
         ELSE c.state \in {"EXECUTING", "NOT_APPLICABLE", "CANCELLED"}
  BY <1>1 DEF CasesInPlace, CaseForm
<1>4. c \in CaseRow /\ Settled(c) /\ c.setups = 1 /\ c.cleanups = 1
  BY <1>3 DEF CleaningUp, Settled
<1>5. ASSUME NEW d, Settled(d), d.setups = 1, d.cleanups = 1, Stands(c, d),
             pc' = "suite_cleanup", unwinding' = TRUE,
             cases' = CasesAfterCancel([cases EXCEPT ![Current] = d], {suite}),
             suites' = [SuitesAfterCancel([cases EXCEPT ![Current] = d], {suite})
                           EXCEPT ![suite] = EnterCleanup(@)]
      PROVE  Keeps
  <2> DEFINE after == [cases EXCEPT ![Current] = d]
             su == CompleteSuite(suites[suite], CaseStates(CasesAfterCancel(after, {suite}), suite))
  <2>1. /\ CasesAfterCancel(after, {suite}) = CancelCasesOf(after, suite)
        /\ SuitesAfterCancel(after, {suite}) = [suites EXCEPT ![suite] = su]
        /\ su \in SuiteRow /\ su.setups = 1 /\ su.cleanups = 0
        /\ su.state = RollUp(CaseStates(CasesAfterCancel(after, {suite}), suite))
    BY <1>1, <1>2, CancelsSuite
  <2>2. /\ CasesInPlace' /\ cases' \in [CaseIds -> CaseRow]
        /\ \A t \in CaseIds : Stands(cases[t], cases'[t])
        /\ \A t \in CasesOf(suite) : Completed(cases'[t].state)
        /\ \A t \in CaseIds : t[1] # suite => cases'[t] = cases[t]
    BY <1>1, <1>5, <2>1, CaseUnwinds
  <2>3. su.state = RollUp(CaseStates(cases', suite))
    BY <1>5, <2>1
  <2>4. suites' = [suites EXCEPT ![suite] = EnterCleanup(su)]
    BY <1>1, <1>5, <2>1 DEF Types
  <2>5. Completed(su.state)
    <3>1. \A x \in CaseStates(cases', suite) : Completed(x)
      BY <2>2 DEF CaseStates
    <3> QED
      BY <2>3, <3>1, RollUpStates DEF Completed
  <2> HIDE DEF su
  <2> DEFINE e == EnterCleanup(su)
  <2>6. e \in SuiteRow /\ e.state = su.state /\ e.setups = 1 /\ e.cleanups = 1
    BY <2>1, EnterCleanupKeeps
  <2> HIDE DEF e
  <2>7. suites' = [suites EXCEPT ![suite] = e]
    BY <2>4 DEF e
  <2> QED
    BY <1>1, <1>5, <2>2, <2>3, <2>5, <2>6, <2>7, SuiteFails
<1>6. CASE CaseCleanupCancelled
  <2>1. /\ Settled(CancelCase(c)) /\ CancelCase(c).setups = 1 /\ CancelCase(c).cleanups = 1
        /\ Stands(c, CancelCase(c))
    BY <1>3, <1>4, CancelCleaningUp, CancelCaseKeeps DEF CleaningUp
  <2>2. /\ pc' = "suite_cleanup" /\ unwinding' = TRUE
        /\ cases' = CasesAfterCancel([cases EXCEPT ![Current] = CancelCase(c)], {suite})
        /\ suites' = [SuitesAfterCancel([cases EXCEPT ![Current] = CancelCase(c)], {suite})
                         EXCEPT ![suite] = EnterCleanup(@)]
    BY <1>6 DEF CaseCleanupCancelled
  <2> QED
    BY <1>5, <2>1, <2>2
<1>7. ASSUME NEW error \in BOOLEAN, CaseCleanupEnds(error)
      PROVE  Keeps
  <2> DEFINE d == IF error THEN RecordCaseError(c) ELSE c
  <2>1. /\ Settled(d) /\ Stands(c, d) /\ d.state = c.state /\ d.setups = 1 /\ d.cleanups = 1
        /\ d.errors = c.errors \/ d.errors = TRUE
    BY <1>3, CleanupError
  <2>2. CASE unwinding
    <3>1. /\ pc' = "suite_cleanup" /\ unwinding' = TRUE
          /\ cases' = CasesAfterCancel([cases EXCEPT ![Current] = d], {suite})
          /\ suites' = [SuitesAfterCancel([cases EXCEPT ![Current] = d], {suite})
                           EXCEPT ![suite] = EnterCleanup(@)]
      BY <1>1, <1>7, <2>2 DEF CaseCleanupEnds, control
    <3> QED
      BY <1>5, <2>1, <3>1
  <2>3. CASE ~unwinding
    <3> DEFINE e == CompleteCase(d)
    <3>1. /\ pc' = "yield" /\ unwinding' = unwinding /\ cases' = [cases EXCEPT ![Current] = e]
          /\ suites' = suites
      BY <1>7, <2>3 DEF CaseCleanupEnds, control
    <3> HIDE DEF d
    <3>2. d \in CaseRow /\ d.state \in {"EXECUTING", "NOT_APPLICABLE", "CANCELLED"}
      BY <1>3, <2>1, <2>3 DEF Settled
    <3>3. AtRest(e) /\ Stands(d, e)
      BY <2>1, <3>2, CompleteSettled
    <3>4. Reported(e)
      BY <3>2, CompleteCaseKeeps DEF Reported, CaseCompleted
    <3> HIDE DEF e
    <3>5. CasesInPlace' /\ cases' \in [CaseIds -> CaseRow]
      BY <1>1, <2>3, <3>1, <3>3, <3>4, CurrentMoves
    <3>6. Stands(c, e)
      BY <2>1, <3>3, StandsOn
    <3>7. \A t \in CaseIds : Stands(cases[t], cases'[t])
      BY <1>1, <3>1, <3>6 DEF Types, Stands
    <3>8. \A t \in CaseIds : t[1] # suite => cases'[t] = cases[t]
      BY <1>1, <3>1, CaseIdPair DEF Types, Current
    <3> QED
      BY <1>1, <3>1, <3>5, <3>7, <3>8, InSuiteKeeps DEF StandsOutsideExecute
  <2> QED
    BY <1>1, <2>2, <2>3
<1> QED
  BY <1>6, <1>7

(* An error is recorded on a suite, or none: its state and the counts of   *)
(* its hooks are the same.                                                 *)
LEMMA SuiteErrorRecorded ==
    ASSUME NEW su \in SuiteRow, NEW d \in {su, RecordSuiteError(su)}
    PROVE  /\ d \in SuiteRow /\ d.state = su.state
           /\ d.setups = su.setups /\ d.cleanups = su.cleanups
BY DEF RecordSuiteError, SuiteRow

(* A suite, su so far, that is cancelled with those of its cases that are   *)
(* open, if it is open itself.                                             *)
LEMMA SuiteCloses ==
    ASSUME NEW s \in SuiteIds, NEW su \in SuiteRow,
           suites'[s] = CompleteSuite(su, CaseStates(cases', s)),
           Completed(su.state) => \A t \in CasesOf(s) : cases'[t] = cases[t],
           ~Completed(su.state) => \A t \in CasesOf(s) : Completed(cases'[t].state)
    PROVE  /\ suites'[s] \in SuiteRow /\ Completed(suites'[s].state)
           /\ suites'[s].setups = su.setups /\ suites'[s].cleanups = su.cleanups
           /\ suites'[s].errors = su.errors
           /\ ~Completed(su.state) => /\ AllEnded(s)' /\ RolledUp(s)'
                                      /\ su.errors => suites'[s].state = "ERROR"
           /\ Completed(su.state) => suites'[s] = su /\ (AllEnded(s)' <=> AllEnded(s))
           /\ Completed(su.state) /\ suites[s].state = su.state => (RolledUp(s)' <=> RolledUp(s))
<1>1. CASE Completed(su.state)
  <2>1. suites'[s] = su
    BY <1>1, CompleteSuiteKeeps
  <2> QED
    BY <1>1, <2>1, SameCases
<1>2. CASE ~Completed(su.state)
  <2>1. \A x \in CaseStates(cases', s) : Completed(x)
    BY <1>2 DEF CaseStates
  <2>2. /\ suites'[s] \in SuiteRow /\ Completed(suites'[s].state)
        /\ suites'[s].setups = su.setups /\ suites'[s].cleanups = su.cleanups
        /\ suites'[s].errors = su.errors
        /\ suites'[s].state \in {"ERROR", RollUp(CaseStates(cases', s))}
        /\ su.errors => suites'[s].state = "ERROR"
    BY <1>2, <2>1, CompleteSuiteKeeps
  <2> QED
    BY <1>2, <2>2 DEF AllEnded, RolledUp
<1> QED
  BY <1>1, <1>2

(* The cleanup hook of a suite is cancelled.                               *)
LEMMA CleanupCancelledKeeps ==
    ASSUME Types, Control, CasesInPlace, SuitesInPlace, SuiteCleanupCancelled
    PROVE  Keeps
<1>1. /\ suite \in SuiteIds /\ suite \in Nat /\ pc = "suite_cleanup" /\ pc' = "raised"
      /\ UNCHANGED <<suite, case>> /\ ~unwinding /\ unwinding' = TRUE
      /\ cancelledAt' = "suite_cleanup" /\ suites[suite] \in SuiteRow
  BY PlanAssumption DEF SuiteCleanupCancelled, Types, Control, Raising, SuiteIds
<1> DEFINE S == {t \in CaseIds : t[1] = suite /\ ~Completed(suites[suite].state)}
<1>2. cases' = [t \in CaseIds |-> IF t \in S THEN CancelCase(cases[t]) ELSE cases[t]]
  BY DEF SuiteCleanupCancelled, CasesAfterCancel
<1>3. /\ CasesInPlace' /\ cases' \in [CaseIds -> CaseRow]
      /\ \A t \in CaseIds : Stands(cases[t], cases'[t])
      /\ \A t \in CaseIds : t \in S => Completed(cases'[t].state)
  <2> HIDE DEF S
  <2> QED
    BY <1>1, <1>2, RunCloses
<1>4. \A t \in CaseIds : t \notin S => cases'[t] = cases[t]
  BY <1>2
<1>5. /\ suites'[suite] = CompleteSuite(suites[suite], CaseStates(cases', suite))
      /\ \A s \in SuiteIds : s # suite => suites'[s] = suites[s]
      /\ suites' = [s \in SuiteIds |-> suites'[s]]
  BY <1>1 DEF SuiteCleanupCancelled, SuitesAfterCancel
<1>6. /\ suites'[suite] \in SuiteRow /\ Completed(suites'[suite].state)
      /\ suites'[suite].setups = suites[suite].setups
      /\ suites'[suite].cleanups = suites[suite].cleanups
      /\ ~Completed(suites[suite].state) => AllEnded(suite)' /\ RolledUp(suite)'
      /\ Completed(suites[suite].state) =>
            suites'[suite] = suites[suite] /\ (AllEnded(suite)' <=> AllEnded(suite))
            /\ (RolledUp(suite)' <=> RolledUp(suite))
  <2>1. Completed(suites[suite].state) => \A t \in CasesOf(suite) : cases'[t] = cases[t]
    BY <1>4 DEF CasesOf
  <2>2. ~Completed(suites[suite].state) => \A t \in CasesOf(suite) : Completed(cases'[t].state)
    BY <1>3 DEF CasesOf
  <2>3. ASSUME NEW s \in SuiteIds, s = suite
        PROVE  /\ suites'[s] \in SuiteRow /\ Completed(suites'[s].state)
               /\ suites'[s].setups = suites[s].setups
               /\ suites'[s].cleanups = suites[s].cleanups
               /\ ~Completed(suites[s].state) => AllEnded(s)' /\ RolledUp(s)'
               /\ Completed(suites[s].state) =>
                     suites'[s] = suites[s] /\ (AllEnded(s)' <=> AllEnded(s))
                     /\ (RolledUp(s)' <=> RolledUp(s))
    BY <1>1, <1>5, <2>1, <2>2, <2>3, SuiteCloses
  <2> QED
    BY <1>1, <2>3
<1>7. ASSUME NEW s \in SuiteIds PROVE SuiteForm(s)'
  <2>1. CASE s = suite
    <3>1. SuiteForm(suite)
      BY <1>1 DEF SuitesInPlace
    <3>2. AllEnded(suite)' /\ RolledUp(suite)'
      BY <1>1, <1>6, <3>1 DEF SuiteForm
    <3> QED
      BY <1>1, <1>6, <2>1, <3>1, <3>2 DEF SuiteForm, Past, LeftAtYield, Completed
  <2>2. CASE s # suite
    BY <1>1, <1>4, <1>5, <2>2, OtherSuites
  <2> QED
    BY <2>1, <2>2
<1>8. suites' \in [SuiteIds -> SuiteRow]
  BY <1>5, <1>6 DEF Types
<1>9. \A s \in SuiteIds : Completed(suites[s].state) => suites'[s].state = suites[s].state
  BY <1>5, <1>6
<1> QED
  BY <1>3, <1>7, <1>8, <1>9 DEF Keeps, StandsOutsideExecute, SuitesInPlace

(* The cleanup hook of a suite ends, and the run goes on to the next suite, *)
(* ends, or is stopped because the suite is mandatory: d is what the       *)
(* current suite is set to.                                                *)
LEMMA CleanupEndsKeeps ==
    ASSUME Types, Control, CasesInPlace, SuitesInPlace, NEW error \in BOOLEAN,
           SuiteCleanupEnds(error)
    PROVE  Keeps
<1> DEFINE su == IF error THEN RecordSuiteError(suites[suite]) ELSE suites[suite]
           d == IF unwinding THEN su ELSE CompleteSuite(su, CaseStates(cases, suite))
           after == [suites EXCEPT ![suite] = d]
<1>1. /\ suite \in SuiteIds /\ suite \in Nat /\ pc = "suite_cleanup"
      /\ UNCHANGED <<suite, case>> /\ unwinding' = unwinding /\ cancelledAt' = cancelledAt
      /\ unwinding \in BOOLEAN /\ suites[suite] \in SuiteRow /\ SuiteForm(suite)
  BY PlanAssumption DEF SuiteCleanupEnds, Types, Control, SuiteIds, SuitesInPlace
<1>2. /\ su \in SuiteRow /\ su.state = suites[suite].state /\ su.setups = 1 /\ su.cleanups = 1
      /\ IF unwinding THEN Completed(su.state) ELSE su.state \in {"EXECUTING", "CANCELLED"}
  BY <1>1, SuiteErrorRecorded DEF SuiteForm
<1> HIDE DEF su
<1>3. /\ d \in SuiteRow /\ d.state # "EXECUTING" /\ d.setups = 1 /\ d.cleanups = 1
      /\ d.errors => d.state \in {"ERROR", "CANCELLED"} \/ unwinding
      /\ Completed(suites[suite].state) => d.state = suites[suite].state
      /\ ~Completed(suites[suite].state) =>
            ~unwinding /\ d.state \in {"ERROR", RollUp(CaseStates(cases, suite))}
  <2>1. CASE unwinding
    BY <1>2, <2>1 DEF Completed
  <2>2. CASE ~unwinding
    BY <1>2, <2>2, CompleteSuiteKeeps DEF Completed
  <2> QED
    BY <2>1, <2>2
<1> HIDE DEF d
<1>4. /\ after \in [SuiteIds -> SuiteRow] /\ after[suite] = d
      /\ \A s \in SuiteIds : s # suite => after[s] = suites[s]
  BY <1>1, <1>3 DEF Types
<1>5. CASE ~(~unwinding /\ MandatoryFailed(cases))
  <2>1. /\ suites' = after /\ cases' = cases
        /\ pc' = IF unwinding THEN "raised" ELSE "next_suite"
    BY <1>5 DEF SuiteCleanupEnds, su, d
  <2>2. CasesInPlace'
    <3>1. CASE unwinding
      <4> DEFINE none == {}
      <4>1. pc' \in Closing /\ pc' # "done"
        BY <2>1, <3>1
      <4>2. cases' = [t \in CaseIds |-> IF t \in none THEN CancelCase(cases[t]) ELSE cases[t]]
        BY <2>1 DEF Types
      <4> HIDE DEF none
      <4> QED
        BY <1>1, <4>1, <4>2, RunCloses
    <3>2. CASE ~unwinding
      <4>1. SUFFICES ASSUME NEW t \in CaseIds PROVE CaseForm(t)'
        BY DEF CasesInPlace
      <4>2. CaseForm(t) /\ t[1] \in Nat
        BY CaseIdPair DEF CasesInPlace
      <4> QED
        BY <1>1, <2>1, <3>2, <4>2 DEF CaseForm, Upcoming, InHook, Current
    <3> QED
      BY <3>1, <3>2
  <2> HIDE DEF after
  <2>3. ASSUME NEW s \in SuiteIds PROVE SuiteForm(s)'
    <3>1. CASE s = suite
      <4>1. suites'[s] = d /\ (AllEnded(s)' <=> AllEnded(s)) /\ SuiteForm(s)
        BY <1>1, <1>4, <2>1, <3>1 DEF AllEnded
      <4>2. RolledUp(s)'
        <5>1. CASE Completed(suites[suite].state)
          BY <1>3, <2>1, <3>1, <4>1, <5>1 DEF SuiteForm, RolledUp
        <5>2. CASE ~Completed(suites[suite].state)
          BY <1>3, <2>1, <3>1, <4>1, <5>2 DEF RolledUp
        <5> QED
          BY <5>1, <5>2
      <4>3. CASE unwinding
        <5>1. Completed(d.state) /\ AllEnded(s)' /\ pc' = "raised"
              /\ cancelledAt \notin {"created", "yield", "mandatory_prompt", "end"}
          BY <1>1, <1>3, <2>1, <3>1, <4>1, <4>3 DEF SuiteForm, Control
        <5> QED
          BY <1>1, <1>3, <3>1, <4>1, <4>2, <4>3, <5>1 DEF SuiteForm, Past, LeftAtYield
      <4>4. CASE ~unwinding
        <5>1. cancelledAt = "nowhere" /\ pc' = "next_suite"
          BY <1>1, <2>1, <4>4 DEF Control
        <5> QED
          BY <1>1, <1>3, <3>1, <4>1, <4>2, <4>4, <5>1 DEF SuiteForm, Past, LeftAtYield
      <4> QED
        BY <4>3, <4>4
    <3>2. CASE s # suite
      <4>1. suites'[s] = suites[s] /\ pc' \in {"raised", "next_suite"}
        BY <1>4, <2>1, <3>2
      <4> QED
        BY <1>1, <2>1, <3>2, <4>1, OtherSuites
    <3> QED
      BY <3>1, <3>2
  <2>4. \A s \in SuiteIds : Completed(suites[s].state) => suites'[s].state = suites[s].state
    BY <1>3, <1>4, <2>1
  <2> QED
    BY <1>4, <2>1, <2>2, <2>3, <2>4 DEF Keeps, StandsOutsideExecute, SuitesInPlace, Types, Stands
<1>6. CASE ~unwinding /\ MandatoryFailed(cases)
  <2>1. /\ cases' = [t \in CaseIds |-> IF ~Completed(after[t[1]].state)
                                       THEN CancelCase(cases[t]) ELSE cases[t]]
        /\ suites' = [s \in SuiteIds |-> CompleteSuite(after[s], CaseStates(cases', s))]
        /\ pc' = "mandatory_prompt" /\ cancelledAt = "nowhere"
    BY <1>6 DEF SuiteCleanupEnds, su, d, Control
  <2> HIDE DEF after
  <2> DEFINE S == {t \in CaseIds : ~Completed(after[t[1]].state)}
  <2>2. cases' = [t \in CaseIds |-> IF t \in S THEN CancelCase(cases[t]) ELSE cases[t]]
    BY <2>1
  <2>3. \A t \in CaseIds : t \notin S => cases'[t] = cases[t]
    BY <2>2
  <2>4. \A s \in SuiteIds : \A t \in CasesOf(s) : t \in S <=> ~Completed(after[s].state)
    BY DEF CasesOf
  <2> HIDE DEF S
  <2>5. /\ CasesInPlace' /\ cases' \in [CaseIds -> CaseRow]
        /\ \A t \in CaseIds : Stands(cases[t], cases'[t])
        /\ \A t \in CaseIds : t \in S => Completed(cases'[t].state)
    <3>1. pc' \in Closing /\ pc' # "done" /\ (unwinding => unwinding')
      BY <1>1, <2>1
    <3> QED
      BY <1>1, <2>2, <3>1, RunCloses
  <2>6. ASSUME NEW s \in SuiteIds
        PROVE  /\ suites'[s] \in SuiteRow /\ SuiteForm(s)'
               /\ Completed(suites[s].state) => suites'[s].state = suites[s].state
    <3>1. /\ SuiteForm(s) /\ s \in Nat /\ after[s] \in SuiteRow
          /\ Completed(suites[s].state) => after[s].state = suites[s].state
      BY <1>3, <1>4 DEF SuitesInPlace, SuiteIds
    <3>2. Completed(after[s].state) => \A t \in CasesOf(s) : cases'[t] = cases[t]
      BY <2>3, <2>4 DEF CasesOf
    <3>3. ~Completed(after[s].state) => \A t \in CasesOf(s) : Completed(cases'[t].state)
      BY <2>4, <2>5 DEF CasesOf
    <3>4. suites'[s] = CompleteSuite(after[s], CaseStates(cases', s))
      BY <2>1
    <3>5. /\ suites'[s] \in SuiteRow /\ Completed(suites'[s].state)
          /\ suites'[s].setups = after[s].setups /\ suites'[s].cleanups = after[s].cleanups
          /\ suites'[s].errors = after[s].errors
          /\ ~Completed(after[s].state) => /\ AllEnded(s)' /\ RolledUp(s)'
                                           /\ after[s].errors => suites'[s].state = "ERROR"
          /\ Completed(after[s].state) => suites'[s] = after[s] /\ (AllEnded(s)' <=> AllEnded(s))
      BY <3>1, <3>2, <3>3, <3>4, SuiteCloses
    <3>6. Completed(after[s].state) => CaseStates(cases', s) = CaseStates(cases, s)
      BY <3>2, SameCases
    <3>9. ASSUME s <= suite, RolledUp(s)', suites'[s].setups = suites'[s].cleanups,
                 suites'[s].errors => suites'[s].state \in {"ERROR", "CANCELLED"}
          PROVE  SuiteForm(s)'
      <4>1. suite' = suite /\ pc' = "mandatory_prompt" /\ cancelledAt' = cancelledAt
            /\ cancelledAt = "nowhere"
        BY <1>1, <2>1
      <4>2. suites'[s].state # "EXECUTING"
        BY <3>5 DEF Completed
      <4> QED
        BY <1>1, <3>1, <3>9, <4>1, <4>2 DEF SuiteForm, Past, LeftAtYield
    <3>7. CASE s = suite
      <4>1. RolledUp(s)'
        <5>1. CASE Completed(suites[s].state)
          BY <1>3, <1>4, <3>1, <3>5, <3>6, <3>7, <5>1 DEF SuiteForm, RolledUp
        <5>2. CASE ~Completed(suites[s].state)
          BY <1>3, <1>4, <3>1, <3>5, <3>6, <3>7, <5>2 DEF RolledUp
        <5> QED
          BY <5>1, <5>2
      <4>2. suites'[s].errors => suites'[s].state \in {"ERROR", "CANCELLED"}
        BY <1>3, <1>4, <1>6, <3>5, <3>7
      <4>3. suites'[s].setups = suites'[s].cleanups
        BY <1>3, <1>4, <3>1, <3>5, <3>7 DEF SuiteForm
      <4>4. s <= suite
        BY <1>1, <3>7
      <4>5. SuiteForm(s)'
        BY <3>9, <4>1, <4>2, <4>3, <4>4
      <4> QED
        BY <3>1, <3>5, <4>5
    <3>8. CASE s # suite
      <4>1. after[s] = suites[s]
        BY <1>4, <3>8
      <4>2. RolledUp(s)'
        BY <3>1, <3>5, <3>6, <4>1 DEF SuiteForm, RolledUp
      <4>3. CASE s > suite
        BY <1>1, <1>6, <2>1, <3>1, <3>5, <4>1, <4>2, <4>3
           DEF SuiteForm, Past, LeftAtYield, Completed
      <4>4. CASE s < suite
        <5>1. /\ suites[s].setups = suites[s].cleanups
              /\ suites[s].errors => suites[s].state \in {"ERROR", "CANCELLED"}
          BY <3>1, <4>4 DEF SuiteForm, Past, LeftAtYield
        <5>2. suites'[s].errors => suites'[s].state \in {"ERROR", "CANCELLED"}
          BY <3>5, <4>1, <5>1
        <5> QED
          BY <1>1, <3>1, <3>5, <3>9, <4>1, <4>2, <4>4, <5>1, <5>2
      <4> QED
        BY <1>1, <3>1, <3>5, <3>8, <4>1, <4>3, <4>4
    <3> QED
      BY <3>1, <3>5, <3>7, <3>8
  <2>7. suites' \in [SuiteIds -> SuiteRow]
    BY <2>1, <2>6
  <2> QED
    BY <2>5, <2>6, <2>7 DEF Keeps, StandsOutsideExecute, SuitesInPlace
<1> QED
  BY <1>5, <1>6

(* The except and finally clauses of the run.                              *)
LEMMA FinishRunKeeps ==
    ASSUME Types, Control, CasesInPlace, SuitesInPlace, FinishRun
    PROVE  Keeps /\ (pc = "raised" => \A s \in SuiteIds : Completed(suites'[s].state))
<1>1. /\ suite' = suite /\ case' = case /\ unwinding' = unwinding /\ cancelledAt' = cancelledAt
      /\ UNCHANGED <<suite, case>> /\ pc' = "done" /\ suite \in Nat /\ suite <= NumSuites
      /\ NumSuites \in Nat
  BY PlanAssumption DEF FinishRun, Types
<1>2. CASE pc = "returned"
  <2>1. cases' = cases /\ suites' = suites /\ cancelledAt = "nowhere" /\ ~unwinding
        /\ suite = NumSuites
    BY <1>2 DEF FinishRun, Control
  <2>2. ASSUME NEW t \in CaseIds PROVE CaseForm(t)'
    <3>1. CaseForm(t) /\ t[1] \in Nat /\ t[1] <= NumSuites
      BY PlanAssumption DEF CasesInPlace, CaseIds, SuiteIds
    <3> QED
      BY <1>1, <1>2, <2>1, <3>1 DEF CaseForm, Upcoming, InHook, Current
  <2>3. ASSUME NEW s \in SuiteIds PROVE SuiteForm(s)'
    <3>1. SuiteForm(s) /\ s \in Nat /\ s <= NumSuites
      BY PlanAssumption DEF SuitesInPlace, SuiteIds
    <3>2. (AllEnded(s)' <=> AllEnded(s)) /\ (RolledUp(s)' <=> RolledUp(s))
      BY <2>1 DEF AllEnded, RolledUp
    <3> QED
      BY <1>1, <1>2, <2>1, <3>1, <3>2 DEF SuiteForm, Past, LeftAtYield
  <2> QED
    BY <1>2, <2>1, <2>2, <2>3 DEF Keeps, StandsOutsideExecute, CasesInPlace, SuitesInPlace, Types, Stands
<1>3. CASE pc = "raised"
  <2> DEFINE S == {t \in CaseIds : ~Completed(suites[t[1]].state)}
  <2>1. /\ suites' = [s \in SuiteIds |-> CompleteSuite(suites[s], CaseStates(cases', s))]
        /\ cases' = [t \in CaseIds |-> IF t \in S THEN CancelCase(cases[t]) ELSE cases[t]]
    <3>1. cases' = CasesAfterCancel(cases, SuiteIds)
          /\ suites' = SuitesAfterCancel(cases, SuiteIds)
      BY <1>3 DEF FinishRun
    <3>2. \A t \in CaseIds : t[1] \in SuiteIds
      BY CaseIdPair
    <3>3. cases' = [t \in CaseIds |-> IF t \in S THEN CancelCase(cases[t]) ELSE cases[t]]
      BY <3>1, <3>2 DEF CasesAfterCancel
    <3> QED
      BY <3>1, <3>3 DEF SuitesAfterCancel
  <2>2. cases' = [t \in CaseIds |-> IF t \in S THEN CancelCase(cases[t]) ELSE cases[t]]
    BY <2>1
  <2>3. \A t \in CaseIds : t \notin S => cases'[t] = cases[t]
    BY <2>2
  <2>4. \A s \in SuiteIds : \A t \in CasesOf(s) : t \in S <=> ~Completed(suites[s].state)
    BY DEF CasesOf
  <2>5. /\ CasesInPlace' /\ cases' \in [CaseIds -> CaseRow]
        /\ \A t \in CaseIds : Stands(cases[t], cases'[t])
        /\ \A t \in CaseIds : t \in S => Completed(cases'[t].state)
    <3>1. pc' \in Closing /\ (unwinding => unwinding') /\ cancelledAt' # "nowhere"
      BY <1>1, <1>3 DEF Control
    <3> HIDE DEF S
    <3> QED
      BY <1>1, <1>3, <2>2, <3>1, RunCloses
  <2>6. ASSUME NEW s \in SuiteIds
        PROVE  /\ suites'[s] \in SuiteRow /\ SuiteForm(s)' /\ Completed(suites'[s].state)
               /\ Completed(suites[s].state) => suites'[s].state = suites[s].state
    <3>1. SuiteForm(s) /\ s \in Nat /\ suites[s] \in SuiteRow
      BY DEF SuitesInPlace, SuiteIds, Types
    <3>2. Completed(suites[s].state) => \A t \in CasesOf(s) : cases'[t] = cases[t]
      BY <2>3, <2>4 DEF CasesOf
    <3>3. ~Completed(suites[s].state) => \A t \in CasesOf(s) : Completed(cases'[t].state)
      BY <2>4, <2>5 DEF CasesOf
    <3>4. suites'[s] = CompleteSuite(suites[s], CaseStates(cases', s))
      BY <2>1
    <3>5. /\ suites'[s] \in SuiteRow /\ Completed(suites'[s].state)
          /\ suites'[s].setups = suites[s].setups /\ suites'[s].cleanups = suites[s].cleanups
          /\ suites'[s].errors = suites[s].errors
          /\ ~Completed(suites[s].state) => /\ AllEnded(s)' /\ RolledUp(s)'
                                            /\ suites[s].errors => suites'[s].state = "ERROR"
          /\ Completed(suites[s].state) => /\ suites'[s] = suites[s]
                                           /\ AllEnded(s)' <=> AllEnded(s)
                                           /\ RolledUp(s)' <=> RolledUp(s)
      BY <3>1, <3>2, <3>3, <3>4, SuiteCloses
    <3>6. RolledUp(s)'
      BY <3>1, <3>5 DEF SuiteForm
    <3>7. SuiteForm(s)'
      <4>1. CASE s > suite
        BY <1>1, <1>3, <3>1, <3>5, <3>6, <4>1 DEF SuiteForm, Past, LeftAtYield, Completed
      <4>2. CASE s < suite
        BY <1>1, <1>3, <3>1, <3>5, <3>6, <4>2 DEF SuiteForm, Past, LeftAtYield, Completed
      <4>3. CASE s = suite /\ cancelledAt = "yield"
        BY <1>1, <1>3, <3>1, <3>5, <3>6, <4>3
           DEF SuiteForm, Past, LeftAtYield, OpenSuite, Completed
      <4>4. CASE s = suite /\ cancelledAt # "yield"
        BY <1>1, <1>3, <3>1, <3>5, <3>6, <4>4 DEF SuiteForm, Past, LeftAtYield, Completed
      <4> QED
        BY <1>1, <3>1, <4>1, <4>2, <4>3, <4>4
    <3> QED
      BY <3>5, <3>7
  <2>7. suites' \in [SuiteIds -> SuiteRow]
    BY <2>1, <2>6
  <2> QED
    BY <2>5, <2>6, <2>7 DEF Keeps, StandsOutsideExecute, SuitesInPlace
<1> QED
  BY <1>2, <1>3 DEF FinishRun

(* Every step keeps the cases and suites in place and their outcomes.      *)
LEMMA KeepsStep ==
    ASSUME Types, Control, CasesInPlace, SuitesInPlace, [Next]_vars
    PROVE  Keeps
<1>1. CASE Terminated
  BY <1>1, QuietSteps DEF Terminated
<1>2. CASE SuiteStep
  BY <1>2, QuietSteps, BeginSuiteKeeps, SetupFailuresKeep, CaseStepsKeep, EndCasesKeeps,
     CleanupEndsKeeps, CleanupCancelledKeeps DEF SuiteStep
<1>3. CASE CaseStep
  BY <1>3, CaseStepsKeep, CaseCleanupKeeps DEF CaseStep, CurrentStep
<1> QED
  BY <1>1, <1>2, <1>3, QuietSteps, FinishRunKeeps DEF Next

-----------------------------------------------------------------------------
(***************************************************************************)
(* The run, and the mandatory suites.                                      *)
(***************************************************************************)
(* A case of a suite the task has left is only ever cancelled.             *)
LEMMA OldCases ==
    ASSUME Types, Control, CasesInPlace, SuitesInPlace, [Next]_vars,
           NEW t \in CaseIds, t[1] < suite \/ pc \notin InSuite
    PROVE  cases'[t] \in {cases[t], CancelCase(cases[t])}
<1>1. t[1] \in SuiteIds /\ t[1] \in Nat /\ suite \in Nat
  BY CaseIdPair, PlanAssumption DEF Types
<1>2. CASE \/ StartRun \/ Abort \/ TaskStarts \/ BeginSuite \/ EndSuites \/ SuiteSetupReturns
           \/ EndCases \/ Yield \/ MandatoryPromptCancelled \/ Terminated \/ UNCHANGED vars
  <2>1. cases' = cases
    BY <1>2 DEF StartRun, Abort, TaskStarts, BeginSuite, EndSuites, SuiteSetupReturns, EndCases,
                Yield, MandatoryPromptCancelled, Terminated, vars, control
  <2> QED
    BY <2>1
<1>3. CASE SuiteSetupRaises \/ SuiteSetupDeclined \/ SuiteSetupCancelled
  BY <1>3 DEF SuiteSetupRaises, SuiteSetupDeclined, SuiteSetupCancelled,
              CancelCasesOf, CasesAfterCancel
<1>4. CASE BeginCase
  <2>1. t[1] # suite /\ <<suite, case + 1>> \in CaseIds
    BY <1>1, <1>4, CaseBegins DEF BeginCase
  <2> QED
    BY <1>4, <2>1, CaseIdPair DEF BeginCase, Types
<1>5. CASE CurrentStep
  <2>1. t[1] < suite
    BY <1>5, CurrentInHook
  <2> QED
    BY <1>1, <1>5, <2>1, CurrentInHook, CaseIdPair DEF Current
<1>6. CASE (\E error \in BOOLEAN : CaseCleanupEnds(error)) \/ CaseCleanupCancelled
  <2>0. pc = "case_cleanup"
    BY <1>6 DEF CaseCleanupEnds, CaseCleanupCancelled
  <2>1. t[1] < suite /\ Current \in CaseIds
    BY <2>0 DEF Control
  <2>2. t # Current
    BY <1>1, <2>1, CaseIdPair DEF Current
  <2> QED
    BY <1>6, <2>1, <2>2 DEF CaseCleanupEnds, CaseCleanupCancelled, CasesAfterCancel, Types
<1>7. CASE (\E error \in BOOLEAN : SuiteCleanupEnds(error)) \/ SuiteCleanupCancelled \/ FinishRun
  BY <1>7 DEF SuiteCleanupEnds, SuiteCleanupCancelled, FinishRun, CasesAfterCancel
<1> QED
  BY <1>2, <1>3, <1>4, <1>5, <1>6, <1>7 DEF Next, SuiteStep, CaseStep, CurrentStep

(* Every step keeps the mandatory suites that are over passed.             *)
LEMMA MandatoryStep ==
    ASSUME Types, Control, CasesInPlace, SuitesInPlace, MandatoryPassed, [Next]_vars
    PROVE  MandatoryPassed'
<1>1. ASSUME NEW s \in SuiteIds \cap Mandatory, Certification,
             s < suite' \/ (s = suite' /\ pc' = "next_suite"), NEW t \in CasesOf(s)
      PROVE  cases'[t].state = "PASSED"
  <2>1. t \in CaseIds /\ t[1] = s /\ s \in Nat /\ suite \in Nat /\ cases[t] \in CaseRow
    BY PlanAssumption DEF CasesOf, SuiteIds, Types
  <2>2. ASSUME cases[t].state = "PASSED", s < suite \/ pc \notin InSuite
        PROVE  cases'[t].state = "PASSED"
    BY <2>1, <2>2, OldCases, CancelCaseKeeps DEF CaseCompleted
  <2>3. CASE s < suite \/ (s = suite /\ pc = "next_suite")
    <3>1. cases[t].state = "PASSED"
      BY <1>1, <2>3 DEF MandatoryPassed
    <3> QED
      BY <2>2, <2>3, <3>1
  <2>4. CASE ~(s < suite \/ (s = suite /\ pc = "next_suite"))
    <3>1. CASE BeginSuite
      BY <1>1, <2>1, <2>4, <3>1 DEF BeginSuite, CasesOf
    <3>2. CASE ~BeginSuite
      <4>1. suite' = suite
        BY <3>2 DEF Next, SuiteStep, CaseStep, StartRun, FinishRun, Abort, TaskStarts, EndSuites,
           SuiteSetupReturns, SuiteSetupRaises, SuiteSetupDeclined, SuiteSetupCancelled,
           BeginCase, EndCases, Yield, SuiteCleanupEnds, SuiteCleanupCancelled,
           MandatoryPromptCancelled, CaseSetupReturns, CaseSetupRaises, CaseSetupDeclined,
           CaseHookCancelled, NextStep, MarkStepFailure, MarkStepNotApplicable,
           MarkStepCompleted, MarkCaseNotApplicable, SkipToLastStep, CaseExecuteReturns,
           CaseExecuteRaises, CaseCleanupEnds, CaseCleanupCancelled, StepOperation,
           Terminated, control, vars
      <4>2. s = suite /\ pc' = "next_suite" /\ pc # "next_suite"
        BY <1>1, <2>1, <2>4, <4>1
      <4>3. \/ TaskStarts
            \/ \E error \in BOOLEAN : SuiteCleanupEnds(error)
        BY <3>2, <4>2 DEF Next, SuiteStep, CaseStep, StartRun, FinishRun, Abort, EndSuites,
           SuiteSetupReturns, SuiteSetupRaises, SuiteSetupDeclined, SuiteSetupCancelled,
           BeginCase, EndCases, Yield, SuiteCleanupCancelled,
           MandatoryPromptCancelled, CaseSetupReturns, CaseSetupRaises, CaseSetupDeclined,
           CaseHookCancelled, NextStep, MarkStepFailure, MarkStepNotApplicable,
           MarkStepCompleted, MarkCaseNotApplicable, SkipToLastStep, CaseExecuteReturns,
           CaseExecuteRaises, CaseCleanupEnds, CaseCleanupCancelled, StepOperation,
           Terminated, control, vars
      <4>4. CASE TaskStarts
        BY <4>2, <4>4 DEF TaskStarts, Control, SuiteIds
      <4>5. ASSUME NEW error \in BOOLEAN, SuiteCleanupEnds(error)
            PROVE  cases' = cases /\ cases[t].state = "PASSED"
        BY <1>1, <4>2, <4>5 DEF SuiteCleanupEnds, MandatoryFailed
      <4> QED
        BY <4>3, <4>4, <4>5
    <3> QED
      BY <3>1, <3>2
  <2> QED
    BY <2>3, <2>4
<1> QED
  BY <1>1 DEF MandatoryPassed, CasesOf

(* Every step keeps the state of the run the verdict of its suites.        *)
LEMMA RunStep ==
    ASSUME Types, Control, RunInPlace, [Next]_vars
    PROVE  RunInPlace' /\ run' \in TestState
<1> USE DEF RunInPlace, TestState
<1>1. CASE StartRun
  BY <1>1 DEF StartRun
<1>2. CASE FinishRun
  <2>1. run' = RunVerdict({suites'[s].state : s \in SuiteIds})
        /\ pc' = "done" /\ cancelledAt' = cancelledAt /\ suite' = suite
    BY <1>2 DEF FinishRun, Completed
  <2>2. run' \in TestState
    BY <2>1, RollUpStates DEF RunVerdict
  <2>3. cancelledAt = "nowhere" => suite = NumSuites
    BY <1>2 DEF FinishRun, Control
  <2> QED
    BY <2>1, <2>2, <2>3
<1>3. CASE Abort
  BY <1>3 DEF Abort, Types
<1>4. CASE Terminated \/ UNCHANGED vars
  BY <1>4 DEF Terminated, vars, Types
<1>5. CASE SuiteStep \/ CaseStep
  <2>1. run' = run /\ pc \notin {"idle", "done"} /\ pc' \notin {"idle", "done"}
    BY <1>5 DEF SuiteStep, CaseStep, TaskStarts, BeginSuite, EndSuites,
       SuiteSetupReturns, SuiteSetupRaises, SuiteSetupDeclined, SuiteSetupCancelled,
       BeginCase, EndCases, Yield, SuiteCleanupEnds, SuiteCleanupCancelled,
       MandatoryPromptCancelled, CaseSetupReturns, CaseSetupRaises, CaseSetupDeclined,
       CaseHookCancelled, NextStep, MarkStepFailure, MarkStepNotApplicable,
       MarkStepCompleted, MarkCaseNotApplicable, SkipToLastStep, CaseExecuteReturns,
       CaseExecuteRaises, CaseCleanupEnds, CaseCleanupCancelled, StepOperation
  <2> QED
    BY <2>1 DEF Types
<1> QED
  BY <1>1, <1>2, <1>3, <1>4, <1>5 DEF Next

-----------------------------------------------------------------------------
(***************************************************************************)
(* The theorems.                                                           *)
(***************************************************************************)
LEMMA InitInPlace == Init => IInv
<1> SUFFICES ASSUME Init PROVE IInv
  OBVIOUS
<1> USE DEF Init
<1>1. NumSuites \in Nat /\ 1 \in StepIds
  BY PlanAssumption, StepsAssumption DEF StepIds
<1>2. \A s \in SuiteIds : /\ suites[s] = [state |-> "PENDING", errors |-> FALSE,
                                          setups |-> 0, cleanups |-> 0]
                          /\ suites[s] \in SuiteRow
  BY DEF SuiteRow, TestState
<1>3. \A t \in CaseIds : Fresh(cases[t])
  BY <1>1 DEF Fresh, CaseRow, TestState
<1>4. Types
  <2>1. suites \in [SuiteIds -> SuiteRow]
    BY <1>2
  <2>2. cases \in [CaseIds -> CaseRow]
    BY <1>3 DEF Fresh
  <2>3. suite \in 0..NumSuites /\ case \in Nat /\ run \in TestState /\ pc \in PC
    BY <1>1 DEF PC, TestState
  <2>4. unwinding \in BOOLEAN /\ cancelled \in BOOLEAN /\ task \in BOOLEAN
    OBVIOUS
  <2> QED
    BY <2>1, <2>2, <2>3, <2>4 DEF Types
<1>5. Control
  BY DEF Control
<1>6. CasesInPlace
  <2>1. \A t \in CaseIds : Upcoming(t)
    BY CaseIdPair DEF Upcoming, SuiteIds
  <2> QED
    BY <1>3, <2>1 DEF CasesInPlace, CaseForm
<1>7. SuitesInPlace
  BY <1>2 DEF SuitesInPlace, SuiteForm, Past, LeftAtYield, Completed, SuiteIds
<1>8. RunInPlace /\ MandatoryPassed
  BY DEF RunInPlace, MandatoryPassed, SuiteIds
<1> QED
  BY <1>4, <1>5, <1>6, <1>7, <1>8 DEF IInv

(* Every step preserves the invariant, and outcomes stand over it.         *)
LEMMA StepInPlace == IInv /\ [Next]_vars => IInv' /\ Keeps
<1> SUFFICES ASSUME IInv, [Next]_vars PROVE IInv' /\ Keeps
  OBVIOUS
<1>1. Types /\ Control /\ CasesInPlace /\ SuitesInPlace /\ RunInPlace /\ MandatoryPassed
  BY DEF IInv
<1>2. Keeps
  BY <1>1, KeepsStep
<1>3. /\ Control' /\ pc' \in PC /\ suite' \in 0..NumSuites /\ case' \in Nat
      /\ unwinding' \in BOOLEAN /\ cancelled' \in BOOLEAN /\ task' \in BOOLEAN
  BY <1>1, ControlStep
<1>4. MandatoryPassed'
  BY <1>1, MandatoryStep
<1>5. RunInPlace' /\ run' \in TestState
  BY <1>1, RunStep
<1> QED
  BY <1>2, <1>3, <1>4, <1>5 DEF IInv, Types, Keeps

(* The invariant from which the theorems on execution follow.              *)
LEMMA ExecutionInvariant == Spec => []IInv
BY InitInPlace, StepInPlace, PTL DEF Spec

(* A case or suite whose setup hook was called is cleaned up once,         *)
(* whatever its hooks raised: TestSuite.run and TestCase.run.              *)
THEOREM EverySetupIsCleanedUp == Spec => []CleanedUpOnce
<1>1. IInv => CleanedUpOnce
  <2> SUFFICES ASSUME IInv PROVE CleanedUpOnce
    OBVIOUS
  <2>1. Types /\ Control /\ CasesInPlace /\ SuitesInPlace
    BY DEF IInv
  <2>2. ASSUME NEW t \in CaseIds
        PROVE  /\ cases[t].cleanups <= cases[t].setups
               /\ t # Current \/ pc \notin {"case_setup", "case_execute"} =>
                     cases[t].cleanups = cases[t].setups
    <3>1. CaseForm(t) /\ cases[t] \in CaseRow
      BY <2>1 DEF CasesInPlace, Types
    <3>2. cases[t].cleanups \in Nat /\ cases[t].setups \in Nat
      BY <3>1 DEF CaseRow
    <3> QED
      BY <3>1, <3>2 DEF CaseForm, InHook, Fresh, SettingUp, Executing, CleaningUp, AtRest
  <2>3. ASSUME NEW s \in SuiteIds
        PROVE  /\ suites[s].cleanups <= suites[s].setups
               /\ s < suite \/ pc \in {"next_suite", "returned", "raised", "done"} =>
                     \/ suites[s].cleanups = suites[s].setups
                     \/ s = suite /\ cancelledAt = "yield"
    <3>1. SuiteForm(s) /\ suites[s] \in SuiteRow /\ s \in Nat /\ suite \in Nat /\ pc \in PC
      BY <2>1, PlanAssumption DEF SuitesInPlace, Types, SuiteIds
    <3>2. suites[s].cleanups \in Nat /\ suites[s].setups \in Nat
      BY <3>1 DEF SuiteRow
    <3>3. pc \notin {"idle", "created"} \/ s > suite
      BY <2>1, <3>1 DEF Control, SuiteIds
    <3> QED
      BY <3>1, <3>2, <3>3 DEF SuiteForm, Past, LeftAtYield, OpenSuite, PC
  <2> QED
    BY <2>2, <2>3 DEF CleanedUpOnce, CaseCleanedUp, SuiteCleanedUp
<1> QED
  BY <1>1, ExecutionInvariant, PTL

(* In certification mode, nothing runs after a mandatory suite in which a  *)
(* case did not pass: the mandatory check in TestRun's loop.               *)
THEOREM MandatoryStops == Spec => []MandatoryFailureStopsRun
<1>1. IInv => MandatoryFailureStopsRun
  BY DEF IInv, MandatoryPassed, MandatoryFailureStopsRun
<1> QED
  BY <1>1, ExecutionInvariant, PTL

(* Nothing the cancelled run had not finished is left open.                *)
THEOREM AbortLeavesNothingOpen == Spec => []NothingLeftOpen
<1>1. IInv => NothingLeftOpen
  <2> SUFFICES ASSUME IInv, pc = "done", cancelledAt # "nowhere"
               PROVE  /\ Completed(run)
                      /\ \A s \in SuiteIds : Completed(suites[s].state)
                      /\ \A t \in CaseIds :
                            \/ t[1] > suite
                            \/ t[1] = suite /\ cancelledAt \notin {"end", "mandatory_prompt"}
                            => Completed(cases[t].state)
    BY DEF NothingLeftOpen
  <2>1. Types /\ Control /\ CasesInPlace /\ SuitesInPlace /\ RunInPlace
    BY DEF IInv
  <2>2. \A s \in SuiteIds : Completed(suites[s].state)
    BY <2>1 DEF SuitesInPlace, SuiteForm
  <2>3. Completed(run)
    <3>1. run = RollUp({suites[s].state : s \in SuiteIds})
      BY <2>1 DEF RunInPlace, RunVerdict
    <3>2. \A x \in {suites[s].state : s \in SuiteIds} : x # "PENDING"
      BY <2>2 DEF Completed
    <3> QED
      BY <3>1, <3>2, RollUpStates DEF Completed
  <2>4. ASSUME NEW t \in CaseIds,
               \/ t[1] > suite
               \/ t[1] = suite /\ cancelledAt \notin {"end", "mandatory_prompt"}
        PROVE  Completed(cases[t].state)
    <3>1. t[1] \in SuiteIds /\ t[1] \in Nat /\ suite \in Nat /\ t \in CasesOf(t[1])
      BY <2>1, CaseIdPair, PlanAssumption DEF Types, CasesOf
    <3>2. SuiteForm(t[1]) /\ Completed(suites[t[1]].state)
      BY <2>1, <2>2, <3>1 DEF SuitesInPlace
    <3>3. AllEnded(t[1])
      BY <2>1, <2>4, <3>1, <3>2 DEF SuiteForm, Past, LeftAtYield, Completed
    <3> QED
      BY <3>1, <3>3 DEF AllEnded
  <2> QED
    BY <2>2, <2>3, <2>4
<1> QED
  BY <1>1, ExecutionInvariant, PTL

(* The outcomes of TestSuite and TestCase stand.  Those of a TestStep are  *)
(* revised by the execute hook of its case only, which does not make a     *)
(* step whose failure was recorded a passed one.                           *)
THEOREM OutcomesStand == Spec => VerdictsStand
<1> DEFINE Standing ==
      /\ \A t \in CaseIds, i \in StepIds :
            /\ cases[t].steps[i] \in Bad =>
                  \/ cases'[t].steps[i] = cases[t].steps[i]
                  \/ t = Current /\ pc = "case_execute"
            /\ i \in cases[t].failures => cases'[t].steps[i] \notin {"PASSED", "PENDING"}
      /\ \A t \in CaseIds : cases[t].state \in Bad => cases'[t].state = cases[t].state
      /\ \A s \in SuiteIds :
            Completed(suites[s].state) => suites'[s].state = suites[s].state
<1>1. Keeps => Standing
  <2> SUFFICES ASSUME Keeps PROVE Standing
    OBVIOUS
  <2>1. \A t \in CaseIds : Remembers(cases'[t])
    <3>1. ASSUME NEW t \in CaseIds
          PROVE  \/ Fresh(cases'[t]) \/ SettingUp(cases'[t]) \/ Executing(cases'[t])
                 \/ Settled(cases'[t])
      <4>1. CaseForm(t)'
        BY DEF Keeps, CasesInPlace
      <4> QED
        BY <4>1 DEF CaseForm, InHook, CleaningUp, AtRest
    <3> QED
      BY <3>1 DEF Fresh, SettingUp, Executing, Settled, Remembers
  <2>2. \A t \in CaseIds : cases[t].failures \subseteq cases'[t].failures
    BY DEF Keeps, StandsOutsideExecute, Stands, Revises
  <2> QED
    BY <2>1, <2>2 DEF Keeps, StandsOutsideExecute, Stands, Revises, Remembers
<1>2. IInv /\ [Next]_vars => [Standing]_vars
  BY <1>1, StepInPlace
<1> QED
  BY <1>2, ExecutionInvariant, PTL DEF Spec, VerdictsStand

(* The verdicts of a run, its suites and its cases agree when it has ended. *)
THEOREM VerdictsAgree == Spec => []VerdictOfRun
<1>1. IInv => VerdictOfRun
  <2> SUFFICES ASSUME IInv, pc = "done"
               PROVE  PassedRunIsClean /\ PendingRunHasSkippedSteps /\ ErrorsAreReported
    BY DEF VerdictOfRun
  <2> DEFINE states == {suites[s].state : s \in SuiteIds}
  <2>1. Types /\ Control /\ CasesInPlace /\ SuitesInPlace /\ RunInPlace
    BY DEF IInv
  <2>2. run = RollUp(states) /\ suite \in Nat /\ \A s \in SuiteIds : s \in Nat /\ SuiteForm(s)
    <3>1. run = RollUp(states)
      BY <2>1 DEF RunInPlace, RunVerdict
    <3>2. suite \in Nat /\ \A s \in SuiteIds : s \in Nat
      BY <2>1, PlanAssumption DEF SuiteIds, Types
    <3> QED
      BY <2>1, <3>1, <3>2 DEF SuitesInPlace
  <2>3. ASSUME NEW t \in CaseIds
        PROVE  /\ t[1] \in SuiteIds /\ cases[t].state \in CaseStates(cases, t[1])
               /\ cases[t] \in CaseRow
               /\ \/ Fresh(cases[t]) /\ cancelledAt # "nowhere"
                  \/ AtRest(cases[t]) /\ (Reported(cases[t]) \/ (unwinding /\ t = Current))
    <3>1. CaseForm(t) /\ cases[t] \in CaseRow /\ t[1] \in SuiteIds
      BY <2>1, CaseIdPair DEF CasesInPlace, Types
    <3> QED
      BY <3>1 DEF CaseForm, Upcoming, InHook, CaseStates, CasesOf
  <2>4. ASSUME NEW s \in SuiteIds
        PROVE  /\ suites[s].state \in TestState \ {"EXECUTING"}
               /\ suites[s].state = "PENDING" => s <= suite /\ cancelledAt = "nowhere"
               /\ suites[s].state # "PENDING" => RolledUp(s)
               /\ s <= suite => RolledUp(s)
    <3>1. suites[s].state \in TestState
      BY <2>1 DEF Types, SuiteRow
    <3>2. suites[s].state # "EXECUTING"
      BY <2>2 DEF SuiteForm, Past, LeftAtYield, Completed
    <3>3. suites[s].state = "PENDING" => cancelledAt = "nowhere"
      BY <2>2 DEF SuiteForm, Completed
    <3>4. cancelledAt = "nowhere" => s <= suite
      BY <2>1, PlanAssumption DEF RunInPlace, SuiteIds
    <3>5. suites[s].state # "PENDING" => RolledUp(s)
      BY <2>2, <3>1, <3>2 DEF SuiteForm, Completed, TestState
    <3>6. s <= suite => RolledUp(s)
      BY <2>2, <3>2 DEF SuiteForm, Past
    <3> QED
      BY <3>1, <3>2, <3>3, <3>4, <3>5, <3>6
  <2>5. PassedRunIsClean
    <3> SUFFICES ASSUME run = "PASSED" PROVE PassedRunIsClean
      BY DEF PassedRunIsClean
    <3>1. \A s \in SuiteIds : suites[s].state \in {"PASSED", "NOT_APPLICABLE"}
      <4>1. states \cap {"CANCELLED", "ERROR", "FAILED", "PENDING"} = {}
        BY <2>2, RollUpStates
      <4> QED
        BY <2>4, <4>1 DEF TestState
    <3>2. ASSUME NEW t \in CaseIds
          PROVE  /\ cases[t].state \in {"PASSED", "NOT_APPLICABLE"}
                 /\ cases[t].state = "PASSED" =>
                       /\ StateSet(cases[t].steps) \subseteq {"PASSED", "NOT_APPLICABLE"}
                       /\ \A i \in cases[t].failures : cases[t].steps[i] = "NOT_APPLICABLE"
      <4>1. suites[t[1]].state = RollUp(CaseStates(cases, t[1]))
        BY <2>3, <2>4, <3>1 DEF RolledUp
      <4>2. cases[t].state \notin {"CANCELLED", "ERROR", "FAILED", "PENDING"}
        BY <2>3, <3>1, <4>1, RollUpStates
      <4>3. AtRest(cases[t])
        BY <2>3, <4>2 DEF Fresh
      <4>4. cases[t].state \in {"PASSED", "NOT_APPLICABLE"}
        BY <2>3, <4>2, <4>3 DEF AtRest, CaseRow, TestState
      <4>5. cases[t].state = "PASSED" => \A i \in StepIds : cases[t].steps[i] \in {"PASSED", "NOT_APPLICABLE"}
        BY <4>3 DEF AtRest, Settled
      <4>6. cases[t].failures \subseteq StepIds /\ Remembers(cases[t])
        BY <2>3, <4>3 DEF AtRest, Settled, CaseRow
      <4>7. DOMAIN cases[t].steps = StepIds
        BY <2>3 DEF CaseRow
      <4> QED
        BY <4>4, <4>5, <4>6, <4>7 DEF StateSet, Remembers
    <3> QED
      BY <3>1, <3>2 DEF PassedRunIsClean
  <2>6. PendingRunHasSkippedSteps
    <3> SUFFICES ASSUME run = "PENDING"
                 PROVE  \E t \in CaseIds : /\ cases[t].state = "PENDING"
                                           /\ cases[t].setups = 1
                                           /\ "PENDING" \in StateSet(cases[t].steps)
      BY DEF PendingRunHasSkippedSteps
    <3>1. PICK s \in SuiteIds : suites[s].state = "PENDING"
      BY <2>2, RollUpStates
    <3>2. s <= suite /\ cancelledAt = "nowhere" /\ suites[s].state = RollUp(CaseStates(cases, s))
      BY <2>4, <3>1 DEF RolledUp
    <3>3. PICK t \in CasesOf(s) : cases[t].state = "PENDING"
      BY <3>1, <3>2, RollUpStates DEF CaseStates
    <3>4. t \in CaseIds /\ t[1] = s /\ suite = NumSuites
      BY <2>1, <3>2 DEF CasesOf, RunInPlace
    <3>5. AtRest(cases[t])
      BY <2>1, <2>2, <2>3, <3>2, <3>3, <3>4 DEF AtRest
    <3> QED
      BY <3>3, <3>4, <3>5 DEF AtRest
  <2>7. ErrorsAreReported
    <3>1. ASSUME NEW s \in SuiteIds, suites[s].errors
          PROVE  suites[s].state \in {"ERROR", "CANCELLED"} \/ (unwinding /\ s = suite)
      BY <2>2, <3>1 DEF SuiteForm, Past, LeftAtYield
    <3>2. ASSUME NEW t \in CaseIds, cases[t].errors
          PROVE  cases[t].state \in {"ERROR", "CANCELLED"} \/ (unwinding /\ t = Current)
      BY <2>3, <3>2 DEF Fresh, Reported
    <3> QED
      BY <3>1, <3>2 DEF ErrorsAreReported
  <2> QED
    BY <2>5, <2>6, <2>7
<1> QED
  BY <1>1, ExecutionInvariant, PTL
=============================================================================
