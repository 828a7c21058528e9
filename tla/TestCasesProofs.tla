-------------------------- MODULE TestCasesProofs ---------------------------
(***************************************************************************)
(* The verdict of a python test case is that of its script, and that of a  *)
(* case that asks the operator is what was said of its steps: proofs for   *)
(* any number of steps, any cases and either flavour of scripts.           *)
(*                                                                         *)
(* The updates of a script cross a queue, and the end of its harness is a  *)
(* flag beside it.  The invariant IInv says where a failure is on its way  *)
(* (in the queue, or in the steps of the case), that only the updates that *)
(* end a script come after it, and that the case is never ahead of the     *)
(* steps the script has started.                                           *)
(*                                                                         *)
(* Of a case that asks, what was said is about the position of the test,   *)
(* and is noted down on the current step.  AskInv says that the two keep   *)
(* step, that the steps something bad was said of are behind the current   *)
(* one or it, and when a step is taken back as not applicable.             *)
(***************************************************************************)
EXTENDS TestCases, TLAPS

Hooks == {"connect", "start", "test_start", "step_start", "show_prompt", "step_success",
          "step_skipped", "step_failure", "test_skipped", "test_stop", "stop"}

CaseRow == [state : TestState, errors : BOOLEAN, index : StepIds,
            steps : [StepIds -> TestState], failures : SUBSET StepIds]

Types ==
    /\ flavour \in Flavours
    /\ case \in CaseRow
    /\ stopped \in BOOLEAN
    /\ loop \in {"poll", "check", "sleep", "prompt", "logs"} \cup Ended
    /\ queue \in Seq(Hooks)
    /\ finished \in BOOLEAN
    /\ harness \in {"starting", "running", "input", "stopping", "ended", "dead"}
    /\ last \in Hooks \cup {"raised"}
    /\ started \in Nat
    /\ reports \subseteq Hooks
    /\ late \subseteq Hooks

\* A harness that has finished calls no hook; one that starts has called none.
HarnessEnds ==
    /\ finished => harness = "ended"
    /\ harness = "starting" => queue = <<>> /\ reports = {} /\ late = {} /\ started = 0

\* execute comes to its last step after the harness has finished.
EndWasSeen ==
    /\ loop \in {"logs", "over"} => finished
    /\ loop \notin Ended \cup {"check", "logs"} => late = {}

\* After a failure a script only stops.
LastWords == {"step_failure", "test_stop", "stop"}

FailureIsLast ==
    /\ "step_failure" \in reports \cup late => last \in LastWords \cup {"raised"}
    /\ \A i, j \in 1..Len(queue) :
          i < j /\ queue[i] = "step_failure" => queue[j] \in LastWords
    /\ case.failures # {} =>
          /\ "step_failure" \in reports \cup late
          /\ \A i \in 1..Len(queue) : queue[i] \in LastWords

Queued(hook) == \E i \in 1..Len(queue) : queue[i] = hook

\* A failure the script has reported waits in the queue, or the case has it.
FailureIsKnown ==
    /\ "step_failure" \in reports => Queued("step_failure") \/ case.failures # {}
    /\ "step_failure" \in late => Queued("step_failure") \/ case.failures # {}
    /\ Queued("step_failure") => "step_failure" \in reports \cup late
    /\ loop \in {"check", "logs"} /\ "step_failure" \in reports => case.failures # {}

\* The case has a failed step, or one that will be when it is completed.
StepFails(r) ==
    \E i \in r.failures :
        r.steps[i] = "FAILED" \/ (i = r.index /\ r.steps[i] = "EXECUTING")

\* A case that was not left early is at a step its script has started: n[i]
\* steps were started by the first i updates in the queue and those before.
Ahead(q, index, count) ==
    \E n \in [0..Len(q) -> 0..count] :
        /\ index - 1 <= n[0]
        /\ \A i \in 1..Len(q) :
              n[i - 1] + (IF q[i] = "step_start" THEN 1 ELSE 0) <= n[i]

CaseFollows ==
    loop \notin Ended =>
        /\ case.state \in {"EXECUTING", "NOT_APPLICABLE"}
        /\ case.failures # {} => StepFails(case)
        /\ \/ case.state = "NOT_APPLICABLE"
           \/ case.failures # {}
           \/ /\ Ahead(queue, case.index, started)
              /\ \A i \in StepIds : i > case.index => case.steps[i] = "PENDING"

IInv ==
    /\ Types /\ HarnessEnds /\ EndWasSeen /\ FailureIsLast /\ FailureIsKnown
    /\ CaseFollows /\ VerdictIsTheScripts

-----------------------------------------------------------------------------
(***************************************************************************)
(* Queues.                                                                 *)
(***************************************************************************)
(* An update that is put is the last of the queue.                         *)
LEMMA PutLast ==
    ASSUME NEW q \in Seq(Hooks), NEW hook \in Hooks
    PROVE  /\ Append(q, hook) \in Seq(Hooks)
           /\ Len(q) \in Nat /\ Len(Append(q, hook)) = Len(q) + 1
           /\ Append(q, hook)[Len(q) + 1] = hook
           /\ \A i \in 1..Len(q) : Append(q, hook)[i] = q[i]
OBVIOUS

(* The first update is taken off, and the others move up.                  *)
LEMMA TakeFirst ==
    ASSUME NEW q \in Seq(Hooks), q # <<>>
    PROVE  /\ Tail(q) \in Seq(Hooks) /\ Head(q) = q[1] /\ Head(q) \in Hooks
           /\ Len(q) \in Nat /\ Len(q) > 0 /\ Len(Tail(q)) = Len(q) - 1
           /\ \A i \in 1..Len(Tail(q)) : Tail(q)[i] = q[i + 1]
OBVIOUS

Starts(hook) == IF hook = "step_start" THEN 1 ELSE 0

(* The case stays behind the script when the script puts an update.        *)
LEMMA AheadOfPut ==
    ASSUME NEW q \in Seq(Hooks), NEW hook \in Hooks, NEW index \in Nat, NEW count \in Nat,
           Ahead(q, index, count)
    PROVE  Ahead(Append(q, hook), index, count + Starts(hook))
<1> DEFINE p == Append(q, hook)
<1>1. PICK n \in [0..Len(q) -> 0..count] :
          /\ index - 1 <= n[0]
          /\ \A i \in 1..Len(q) :
                n[i - 1] + (IF q[i] = "step_start" THEN 1 ELSE 0) <= n[i]
  BY DEF Ahead
<1>2. /\ Len(q) \in Nat /\ Len(p) = Len(q) + 1 /\ p[Len(q) + 1] = hook
      /\ \A i \in 1..Len(q) : p[i] = q[i]
  BY PutLast
<1> HIDE DEF p
<1> DEFINE m == [i \in 0..Len(p) |-> IF i <= Len(q) THEN n[i] ELSE count + Starts(hook)]
<1>3. Starts(hook) \in Nat
  BY DEF Starts
<1>4. m \in [0..Len(p) -> 0..(count + Starts(hook))] /\ m[0] = n[0]
  BY <1>2, <1>3
<1>5. ASSUME NEW i \in 1..Len(p)
      PROVE  m[i - 1] + (IF p[i] = "step_start" THEN 1 ELSE 0) <= m[i]
  <2>1. CASE i <= Len(q)
    <3>1. i \in 1..Len(q) /\ i - 1 \in 0..Len(p) /\ i \in 0..Len(p) /\ i - 1 <= Len(q)
      BY <1>2, <2>1
    <3> QED
      BY <1>1, <1>2, <2>1, <3>1
  <2>2. CASE i = Len(q) + 1
    <3>1. m[i - 1] = n[Len(q)] /\ m[i] = count + Starts(hook) /\ p[i] = hook
      BY <1>2, <2>2
    <3>2. n[Len(q)] \in Nat /\ n[Len(q)] <= count
      BY <1>1, <1>2
    <3> QED
      BY <3>1, <3>2 DEF Starts
  <2> QED
    BY <1>2, <2>1, <2>2
<1> HIDE DEF m
<1>6. Ahead(p, index, count + Starts(hook))
  BY <1>1, <1>4, <1>5 DEF Ahead
<1> QED
  BY <1>6 DEF p

(* The case may go one step further when it takes the start of a step.     *)
LEMMA AheadOfTaken ==
    ASSUME NEW q \in Seq(Hooks), q # <<>>, NEW index \in Nat, NEW count \in Nat,
           Ahead(q, index, count), NEW next \in Nat, next <= index + Starts(Head(q))
    PROVE  Ahead(Tail(q), next, count)
<1> DEFINE p == Tail(q)
<1>1. PICK n \in [0..Len(q) -> 0..count] :
          /\ index - 1 <= n[0]
          /\ \A i \in 1..Len(q) :
                n[i - 1] + (IF q[i] = "step_start" THEN 1 ELSE 0) <= n[i]
  BY DEF Ahead
<1>2. /\ Len(q) \in Nat /\ Len(q) > 0 /\ Len(p) = Len(q) - 1 /\ Head(q) = q[1]
      /\ \A i \in 1..Len(p) : p[i] = q[i + 1]
  BY TakeFirst
<1> HIDE DEF p
<1> DEFINE m == [i \in 0..Len(p) |-> n[i + 1]]
<1>3. m \in [0..Len(p) -> 0..count] /\ m[0] = n[1]
  BY <1>2
<1>4. next - 1 <= n[1]
  <2>1. 1 \in 1..Len(q) /\ n[0] \in Nat /\ n[1] \in Nat
    BY <1>2
  <2>2. n[0] + Starts(q[1]) <= n[1]
    BY <1>1, <2>1 DEF Starts
  <2>3. Starts(q[1]) \in Nat
    BY DEF Starts
  <2> QED
    BY <1>1, <1>2, <2>1, <2>2, <2>3
<1>5. ASSUME NEW i \in 1..Len(p)
      PROVE  m[i - 1] + (IF p[i] = "step_start" THEN 1 ELSE 0) <= m[i]
  <2>1. i + 1 \in 1..Len(q) /\ i - 1 \in 0..Len(p) /\ i \in 0..Len(p) /\ (i + 1) - 1 = i
        /\ (i - 1) + 1 = i
    BY <1>2
  <2>2. n[i] + (IF q[i + 1] = "step_start" THEN 1 ELSE 0) <= n[i + 1]
    BY <1>1, <2>1
  <2> QED
    BY <1>2, <2>1, <2>2
<1> HIDE DEF m
<1>6. Ahead(p, next, count)
  BY <1>3, <1>4, <1>5 DEF Ahead
<1> QED
  BY <1>6 DEF p

(* The case is never ahead of the script when nothing is in the queue.     *)
LEMMA AheadCounts ==
    ASSUME NEW q \in Seq(Hooks), NEW index \in Nat, NEW count \in Nat, Ahead(q, index, count)
    PROVE  index - 1 <= count
<1>1. PICK n \in [0..Len(q) -> 0..count] : index - 1 <= n[0]
  BY DEF Ahead
<1>2. Len(q) \in Nat /\ 0 \in 0..Len(q)
  OBVIOUS
<1>3. n[0] \in 0..count
  BY <1>1, <1>2
<1> QED
  BY <1>1, <1>3
-----------------------------------------------------------------------------
(***************************************************************************)
(* The reactions of the case.                                              *)
(***************************************************************************)
Untouched(r) == \A i \in StepIds : i > r.index => r.steps[i] = "PENDING"

(* What the case has to show for an update: its state stays open, a        *)
(* failure is noted down and never lost again, and the case goes on by at  *)
(* most the step that was started.                                         *)
Reacts(hook, r, d) ==
    /\ d \in CaseRow
    /\ d.state \in {r.state, "NOT_APPLICABLE"}
    /\ hook = "test_skipped" => d.state = "NOT_APPLICABLE"
    /\ hook # "step_failure" => d.failures = r.failures
    /\ hook = "step_failure" => d.failures # {} /\ StepFails(d)
    /\ hook \in LastWords /\ StepFails(r) => StepFails(d)
    /\ hook \notin {"step_failure", "test_skipped"} =>
          d.index <= r.index + Starts(hook) /\ (Untouched(r) => Untouched(d))

(* The steps of a case are numbered from 1, and it has a last one.         *)
LEMMA Numbers ==
    /\ NumSteps \in Nat /\ NumSteps >= 2 /\ 1 \in StepIds /\ NumSteps \in StepIds
    /\ \A i \in StepIds : i \in Nat /\ i <= NumSteps /\ (i < NumSteps => i + 1 \in StepIds)
BY StepsAssumption, HarnessAssumption DEF StepIds

(* A step that is completed has a final state, FAILED if it had failures.  *)
LEMMA CompleteStepKeeps ==
    ASSUME NEW r \in CaseRow, NEW i \in StepIds
    PROVE  LET d == CompleteStep(r, i)
           IN  /\ d \in CaseRow /\ d.state = r.state /\ d.failures = r.failures
               /\ d.errors = r.errors /\ d.index = r.index
               /\ d.steps = [r.steps EXCEPT ![i] =
                     IF Completed(r.steps[i]) THEN r.steps[i]
                     ELSE StepVerdict(i \in r.failures)]
               /\ i = r.index /\ StepFails(r) => StepFails(d)
<1> DEFINE v == IF Completed(r.steps[i]) THEN r.steps[i] ELSE StepVerdict(i \in r.failures)
           d == [r EXCEPT !.steps = [r.steps EXCEPT ![i] = v]]
<1>1. r.steps \in [StepIds -> TestState] /\ v \in TestState
  BY DEF CaseRow, StepVerdict, TestState
<1>2. CompleteStep(r, i) = d
  BY <1>1 DEF CompleteStep, CaseRow
<1>3. ASSUME i = r.index, NEW j \in r.failures,
             r.steps[j] = "FAILED" \/ (j = r.index /\ r.steps[j] = "EXECUTING")
      PROVE  [r.steps EXCEPT ![i] = v][j] = "FAILED"
  <2>1. j \in StepIds
    BY DEF CaseRow
  <2>2. j = i => v = "FAILED"
    BY <1>3 DEF Completed, StepVerdict
  <2> QED
    BY <1>1, <1>3, <2>1, <2>2
<1>4. /\ d \in CaseRow /\ d.failures = r.failures /\ d.steps = [r.steps EXCEPT ![i] = v]
      /\ d.state = r.state /\ d.errors = r.errors /\ d.index = r.index
  BY <1>1 DEF CaseRow
<1>5. ASSUME i = r.index, StepFails(r)
      PROVE  StepFails(d)
  BY <1>3, <1>4, <1>5 DEF StepFails
<1> QED
  BY <1>2, <1>4, <1>5

(* A step that starts is the current one, and no failure is forgotten.     *)
LEMMA ExecuteStepKeeps ==
    ASSUME NEW r \in CaseRow, NEW i \in StepIds
    PROVE  LET d == ExecuteStep(r, i)
           IN  /\ d \in CaseRow /\ d.state = r.state /\ d.failures = r.failures
               /\ d.errors = r.errors /\ d.index = i
               /\ d.steps = [r.steps EXCEPT ![i] = "EXECUTING"]
<1> DEFINE d == ExecuteStep(r, i)
<1>1. d = [r EXCEPT !.steps = [r.steps EXCEPT ![i] = "EXECUTING"], !.index = i]
  BY DEF ExecuteStep, CaseRow
<1>2. [r.steps EXCEPT ![i] = "EXECUTING"] \in [StepIds -> TestState]
  BY DEF CaseRow, TestState
<1> QED
  BY <1>1, <1>2 DEF CaseRow

(* The script starts a step.                                               *)
LEMMA ReactToStart ==
    ASSUME NEW r \in CaseRow
    PROVE  Reacts("step_start", r, NextStepOf(r))
<1>1. r.index \in StepIds /\ r.index \in Nat
  BY Numbers DEF CaseRow
<1>2. CASE r.index >= NumSteps
  <2>1. NextStepOf(r) = r
    BY <1>1, <1>2, Numbers DEF NextStepOf
  <2> QED
    BY <1>1, <2>1 DEF Reacts, Starts, LastWords
<1>3. CASE r.index < NumSteps
  <2> DEFINE e == IF r.steps[r.index] = "EXECUTING" THEN CompleteStep(r, r.index) ELSE r
             d == ExecuteStep(e, r.index + 1)
  <2>1. /\ e \in CaseRow /\ e.state = r.state /\ e.failures = r.failures
        /\ \A i \in StepIds : i # r.index => e.steps[i] = r.steps[i]
    <3> DEFINE k == CompleteStep(r, r.index)
    <3>1. /\ k \in CaseRow /\ k.state = r.state /\ k.failures = r.failures
          /\ k.steps = [r.steps EXCEPT ![r.index] =
                IF Completed(r.steps[r.index]) THEN r.steps[r.index]
                ELSE StepVerdict(r.index \in r.failures)]
      BY <1>1, CompleteStepKeeps
    <3> HIDE DEF k
    <3>2. \A i \in StepIds : i # r.index => k.steps[i] = r.steps[i]
      BY <3>1 DEF CaseRow
    <3> QED
      BY <3>1, <3>2 DEF k
  <2>2. NextStepOf(r) = d
    BY <1>3 DEF NextStepOf
  <2> HIDE DEF e
  <2>a. r.index + 1 \in StepIds /\ e.steps \in [StepIds -> TestState]
    BY <1>1, <1>3, <2>1, Numbers DEF CaseRow
  <2>3. /\ d \in CaseRow /\ d.state = e.state /\ d.failures = e.failures
        /\ d.index = r.index + 1
        /\ d.steps = [e.steps EXCEPT ![r.index + 1] = "EXECUTING"]
    BY <2>a, <2>1, ExecuteStepKeeps
  <2> HIDE DEF d
  <2>4. Untouched(r) => Untouched(d)
    BY <1>1, <2>1, <2>3, <2>a, Numbers DEF Untouched
  <2> QED
    BY <1>1, <2>1, <2>2, <2>3, <2>4 DEF Reacts, Starts, LastWords
<1> QED
  BY <1>1, <1>2, <1>3, Numbers

(* The script skips a step.                                                *)
LEMMA ReactToSkip ==
    ASSUME NEW r \in CaseRow
    PROVE  Reacts("step_skipped", r, StepSkipped(r))
<1>1. r.index \in StepIds /\ r.index \in Nat
  BY Numbers DEF CaseRow
<1>2. CASE StepSkipped(r) = r
  BY <1>1, <1>2 DEF Reacts, Starts, LastWords
<1>3. CASE StepSkipped(r) = SkipStepOf(r)
  <2> DEFINE d == SkipStepOf(r)
  <2>1. d = [r EXCEPT !.steps = [r.steps EXCEPT ![r.index] = "NOT_APPLICABLE"]]
    BY <1>1 DEF SkipStepOf, CaseRow
  <2>2. /\ d \in CaseRow /\ d.state = r.state /\ d.failures = r.failures /\ d.index = r.index
        /\ \A i \in StepIds : i # r.index => d.steps[i] = r.steps[i]
    BY <1>1, <2>1 DEF CaseRow, TestState
  <2> HIDE DEF d
  <2>3. Untouched(r) => Untouched(d)
    BY <1>1, <2>2, Numbers DEF Untouched
  <2>4. Reacts("step_skipped", r, d)
    BY <1>1, <2>2, <2>3 DEF Reacts, Starts, LastWords
  <2> QED
    BY <1>3, <2>4 DEF d
<1> QED
  BY <1>2, <1>3 DEF StepSkipped

(* A failure: the current step, or the last one if it is that, will show.  *)
LEMMA ReactToFailure ==
    ASSUME NEW r \in CaseRow
    PROVE  Reacts("step_failure", r, StepFailure(r))
<1>1. r.index \in StepIds /\ r.index \in Nat /\ NumSteps \in StepIds
  BY Numbers DEF CaseRow
<1> DEFINE e == FailStepOf(r)
           f == CompleteStep(e, e.index)
           d == ExecuteStep(f, NumSteps)
<1>2. e = [r EXCEPT !.steps = [r.steps EXCEPT ![r.index] = "FAILED"],
                    !.failures = r.failures \cup {r.index}]
  BY <1>1 DEF FailStepOf, CaseRow
<1>3. /\ e \in CaseRow /\ e.state = r.state /\ e.index = r.index
      /\ e.failures = r.failures \cup {r.index} /\ e.steps[r.index] = "FAILED"
  <2>1. /\ [r.steps EXCEPT ![r.index] = "FAILED"] \in [StepIds -> TestState]
        /\ r.failures \cup {r.index} \in SUBSET StepIds
    BY <1>1 DEF CaseRow, TestState
  <2> QED
    BY <1>1, <1>2, <2>1 DEF CaseRow
<1> HIDE DEF e
<1>4. /\ f \in CaseRow /\ f.state = e.state /\ f.failures = e.failures /\ f.index = e.index
      /\ f.steps[r.index] = "FAILED"
  <2>1. /\ f \in CaseRow /\ f.state = e.state /\ f.failures = e.failures /\ f.index = e.index
        /\ f.steps = [e.steps EXCEPT ![r.index] =
               IF Completed(e.steps[r.index]) THEN e.steps[r.index]
               ELSE StepVerdict(r.index \in e.failures)]
    <3>1. f = CompleteStep(e, r.index)
      BY <1>3
    <3> HIDE DEF f
    <3> QED
      BY <1>1, <1>3, <3>1, CompleteStepKeeps
  <2>2. e.steps \in [StepIds -> TestState] /\ Completed(e.steps[r.index])
    BY <1>3 DEF CaseRow, Completed
  <2> QED
    BY <1>1, <1>3, <2>1, <2>2
<1> HIDE DEF f
<1>5. /\ d \in CaseRow /\ d.state = f.state /\ d.failures = f.failures /\ d.index = NumSteps
      /\ d.steps = [f.steps EXCEPT ![NumSteps] = "EXECUTING"]
  BY <1>1, <1>4, ExecuteStepKeeps
<1>6. StepFailure(r) = d
  BY DEF StepFailure, SkipToLastStepOf, e, f
<1> HIDE DEF d
<1>7. r.index \in d.failures
  BY <1>3, <1>4, <1>5
<1>8. d.steps[r.index] = IF r.index = NumSteps THEN "EXECUTING" ELSE "FAILED"
  BY <1>1, <1>4, <1>5 DEF CaseRow
<1>9. StepFails(d)
  BY <1>5, <1>7, <1>8 DEF StepFails
<1> QED
  BY <1>3, <1>4, <1>5, <1>6, <1>7, <1>9 DEF Reacts

(* The script skips the test.                                              *)
LEMMA ReactToSkippedTest ==
    ASSUME NEW r \in CaseRow
    PROVE  Reacts("test_skipped", r, TestSkipped(r))
<1>1. r.index \in StepIds /\ NumSteps \in StepIds
  BY Numbers DEF CaseRow
<1> DEFINE e == CaseNotApplicableOf(r)
           f == CompleteStep(e, e.index)
<1>2. /\ e \in CaseRow /\ e.state = "NOT_APPLICABLE" /\ e.index = r.index
      /\ e.failures = r.failures
  BY DEF CaseNotApplicableOf, CaseRow, TestState
<1> HIDE DEF e
<1>3. f \in CaseRow /\ f.state = e.state /\ f.failures = e.failures
  BY <1>1, <1>2, CompleteStepKeeps DEF CaseRow
<1> HIDE DEF f
<1> DEFINE d == ExecuteStep(f, NumSteps)
<1>4. TestSkipped(r) = d
  BY DEF TestSkipped, SkipToLastStepOf, e, f
<1>5. d \in CaseRow /\ d.state = f.state /\ d.failures = f.failures
  BY <1>1, <1>3, ExecuteStepKeeps
<1> HIDE DEF d
<1> QED
  BY <1>2, <1>3, <1>4, <1>5 DEF Reacts, LastWords

(* The script ends: the current step is completed.                         *)
LEMMA ReactToStop ==
    ASSUME NEW r \in CaseRow
    PROVE  Reacts("stop", r, CompleteStepOf(r))
<1>1. r.index \in StepIds /\ r.index \in Nat
  BY Numbers DEF CaseRow
<1> DEFINE d == CompleteStepOf(r)
<1>2. d = CompleteStep(r, r.index)
  BY DEF CompleteStepOf
<1>3. /\ d \in CaseRow /\ d.state = r.state /\ d.failures = r.failures /\ d.index = r.index
      /\ \A i \in StepIds : i # r.index => d.steps[i] = r.steps[i]
      /\ StepFails(r) => StepFails(d)
  <2>1. /\ d \in CaseRow /\ d.state = r.state /\ d.failures = r.failures
        /\ d.index = r.index /\ (StepFails(r) => StepFails(d))
        /\ d.steps = [r.steps EXCEPT ![r.index] =
              IF Completed(r.steps[r.index]) THEN r.steps[r.index]
              ELSE StepVerdict(r.index \in r.failures)]
    BY <1>1, <1>2, CompleteStepKeeps
  <2> HIDE DEF d
  <2>2. \A i \in StepIds : i # r.index => d.steps[i] = r.steps[i]
    BY <2>1 DEF CaseRow
  <2> QED
    BY <2>1, <2>2
<1> HIDE DEF d
<1>4. Untouched(r) => Untouched(d)
  BY <1>1, <1>3, Numbers DEF Untouched
<1>5. Reacts("stop", r, d)
  BY <1>1, <1>3, <1>4 DEF Reacts, Starts
<1> QED
  BY <1>5 DEF d

(* What the case does with any update.                                     *)
LEMMA Reaction ==
    ASSUME NEW r \in CaseRow, NEW hook \in Hooks
    PROVE  Reacts(hook, r, React(hook, r))
<1>1. r.index \in Nat
  BY Numbers DEF CaseRow
<1>2. CASE hook \in {"step_start", "step_skipped", "step_failure", "test_skipped"}
  BY <1>2, ReactToStart, ReactToSkip, ReactToFailure, ReactToSkippedTest DEF React
<1>3. CASE hook = "stop" /\ ~stopped
  BY <1>3, ReactToStop DEF React
<1>4. CASE /\ hook \notin {"step_start", "step_skipped", "step_failure", "test_skipped"}
           /\ ~(hook = "stop" /\ ~stopped)
  <2>1. React(hook, r) = r
    BY <1>4 DEF React
  <2> QED
    BY <1>1, <1>4, <2>1 DEF Reacts, Starts
<1> QED
  BY <1>2, <1>3, <1>4
-----------------------------------------------------------------------------
(***************************************************************************)
(* Steps.                                                                  *)
(***************************************************************************)
USE DEF Ended, backend, script

(* In the beginning nothing was reported, and the case is at its first     *)
(* step.                                                                   *)
LEMMA InitHolds == Init => IInv
<1> SUFFICES ASSUME Init PROVE IInv
  OBVIOUS
<1>1. Types
  <2>1. case \in CaseRow
    BY Numbers DEF Init, CaseRow, TestState
  <2>2. queue \in Seq(Hooks)
    BY DEF Init
  <2>3. started \in Nat /\ stopped \in BOOLEAN /\ finished \in BOOLEAN
    BY DEF Init
  <2> QED
    BY <2>1, <2>2, <2>3 DEF Init, Types, Hooks
<1>2. queue = <<>> /\ queue \in Seq(Hooks) /\ Len(queue) = 0
  BY DEF Init
<1>3. HarnessEnds /\ EndWasSeen /\ FailureIsKnown /\ VerdictIsTheScripts
  BY <1>2 DEF Init, HarnessEnds, EndWasSeen, FailureIsKnown, VerdictIsTheScripts, Queued
<1>4. FailureIsLast
  BY <1>2 DEF Init, FailureIsLast
<1>5. Ahead(queue, 1, 0)
  <2> DEFINE n == [i \in 0..Len(queue) |-> 0]
  <2>1. n \in [0..Len(queue) -> 0..0] /\ 1 - 1 <= n[0] /\ 1..Len(queue) = {}
    BY <1>2
  <2> QED
    BY <2>1 DEF Ahead
<1>6. \A i \in StepIds : i > 1 => case.steps[i] = "PENDING"
  BY Numbers DEF Init
<1>7. CaseFollows
  BY <1>5, <1>6 DEF Init, CaseFollows
<1> QED
  BY <1>1, <1>3, <1>4, <1>7 DEF IInv

(* The script puts an update: only last words come after a failure.        *)
LEMMA PutKeeps ==
    ASSUME IInv, NEW hook \in Hooks, Put(hook), harness = "running",
           harness' \in {"running", "input", "stopping"}, last' \in Hooks \cup {"raised"},
           started' = started + Starts(hook), UNCHANGED <<backend, finished>>,
           "step_failure" \in reports \cup late =>
              hook \in LastWords /\ last' \in LastWords \cup {"raised"},
           hook = "step_failure" => last' \in LastWords \cup {"raised"}
    PROVE  IInv'
<1> USE DEF IInv
<1>1. /\ queue \in Seq(Hooks) /\ queue' = Append(queue, hook) /\ started \in Nat
      /\ case' = case /\ loop' = loop /\ finished' = finished /\ ~finished
      /\ Starts(hook) \in Nat /\ started' \in Nat
  BY DEF Types, Put, HarnessEnds, Starts
<1>2. /\ queue' \in Seq(Hooks) /\ Len(queue) \in Nat /\ Len(queue') = Len(queue) + 1
      /\ queue'[Len(queue) + 1] = hook
      /\ \A i \in 1..Len(queue) : queue'[i] = queue[i]
  BY <1>1, PutLast
<1>3. /\ reports' \cup late' = reports \cup late \cup {hook}
      /\ reports' \subseteq Hooks /\ late' \subseteq Hooks
      /\ loop = "check" => reports' = reports /\ late' = late \cup {hook}
      /\ loop # "check" => reports' = reports \cup {hook} /\ late' = late
  BY DEF Put, Types
<1>4. Types'
  BY <1>1, <1>2, <1>3 DEF Types
<1>5. HarnessEnds' /\ EndWasSeen' /\ VerdictIsTheScripts'
  BY <1>1, <1>3 DEF HarnessEnds, EndWasSeen, VerdictIsTheScripts
<1>6. FailureIsLast'
  <2>1. "step_failure" \in reports' \cup late' => last' \in LastWords \cup {"raised"}
    BY <1>3
  <2>2. ASSUME NEW i \in 1..Len(queue'), NEW j \in 1..Len(queue'),
               i < j, queue'[i] = "step_failure"
        PROVE  queue'[j] \in LastWords
    <3>1. i \in 1..Len(queue) /\ queue[i] = "step_failure"
      BY <1>2, <2>2
    <3>2. CASE j \in 1..Len(queue)
      BY <1>2, <2>2, <3>1, <3>2 DEF FailureIsLast
    <3>3. CASE j = Len(queue) + 1
      BY <1>2, <3>1, <3>3 DEF FailureIsKnown, Queued
    <3> QED
      BY <1>2, <3>2, <3>3
  <2>3. ASSUME case.failures # {}, NEW i \in 1..Len(queue')
        PROVE  queue'[i] \in LastWords
    <3>1. hook \in LastWords /\ \A j \in 1..Len(queue) : queue[j] \in LastWords
      BY <2>3 DEF FailureIsLast
    <3>2. CASE i \in 1..Len(queue)
      BY <1>2, <3>1, <3>2
    <3>3. CASE i = Len(queue) + 1
      BY <1>2, <3>1, <3>3
    <3> QED
      BY <1>2, <3>2, <3>3
  <2>4. case.failures # {} => "step_failure" \in reports' \cup late'
    BY <1>3 DEF FailureIsLast
  <2> QED
    BY <1>1, <2>1, <2>2, <2>3, <2>4 DEF FailureIsLast
<1>7. FailureIsKnown'
  <2>1. Queued("step_failure") => Queued("step_failure")'
    <3> SUFFICES ASSUME NEW i \in 1..Len(queue), queue[i] = "step_failure"
                 PROVE  Queued("step_failure")'
      BY DEF Queued
    <3> QED
      BY <1>2 DEF Queued
  <2>2. hook = "step_failure" => Queued("step_failure")'
    BY <1>2 DEF Queued
  <2>3. Queued("step_failure")' => Queued("step_failure") \/ hook = "step_failure"
    <3> SUFFICES ASSUME NEW i \in 1..Len(queue'), queue'[i] = "step_failure"
                 PROVE  Queued("step_failure") \/ hook = "step_failure"
      BY DEF Queued
    <3> QED
      BY <1>2 DEF Queued
  <2>4. loop # "logs"
    BY <1>1 DEF EndWasSeen
  <2> QED
    BY <1>1, <1>3, <2>1, <2>2, <2>3, <2>4 DEF FailureIsKnown
<1>8. CaseFollows'
  <2>1. case.index \in Nat
    BY Numbers DEF Types, CaseRow
  <2>2. Ahead(queue, case.index, started) => Ahead(queue', case.index, started')
    BY <1>1, <2>1, AheadOfPut
  <2>3. StepFails(case) => StepFails(case')
    BY <1>1
  <2> QED
    BY <1>1, <2>2, <2>3 DEF CaseFollows
<1> QED
  BY <1>4, <1>5, <1>6, <1>7, <1>8

(* execute takes an update: a failure goes from the queue to the case.     *)
LEMMA TakeKeeps ==
    ASSUME IInv, loop = "poll", queue # <<>>, queue' = Tail(queue),
           Reacts(Head(queue), case, case'), loop' \in {"poll", "prompt"},
           stopped' \in BOOLEAN, UNCHANGED <<flavour, finished, script, reports, late>>
    PROVE  IInv'
<1> USE DEF IInv
<1>1. /\ queue \in Seq(Hooks) /\ case \in CaseRow /\ started \in Nat
  BY DEF Types
<1>2. /\ queue' \in Seq(Hooks) /\ Head(queue) = queue[1] /\ Head(queue) \in Hooks
      /\ Len(queue) \in Nat /\ Len(queue) > 0 /\ Len(queue') = Len(queue) - 1
      /\ \A i \in 1..Len(queue') : queue'[i] = queue[i + 1]
  BY <1>1, TakeFirst
<1>3. Types'
  BY <1>1, <1>2 DEF Types, Reacts
<1>4. HarnessEnds' /\ EndWasSeen' /\ VerdictIsTheScripts'
  BY DEF HarnessEnds, EndWasSeen, VerdictIsTheScripts
<1>5. \A i \in 1..Len(queue') : i + 1 \in 1..Len(queue)
  BY <1>2
<1>6. case.failures # {} => Head(queue) \in LastWords
  BY <1>2 DEF FailureIsLast
<1>7. Head(queue) = "step_failure" => "step_failure" \in reports \cup late
  BY <1>2 DEF FailureIsKnown, Queued
<1>8. FailureIsLast'
  <2>1. ASSUME NEW i \in 1..Len(queue'), NEW j \in 1..Len(queue'),
               i < j, queue'[i] = "step_failure"
        PROVE  queue'[j] \in LastWords
    <3>1. i + 1 \in 1..Len(queue) /\ j + 1 \in 1..Len(queue) /\ i + 1 < j + 1
      BY <1>2, <2>1
    <3> QED
      BY <1>2, <2>1, <3>1 DEF FailureIsLast
  <2>2. ASSUME Head(queue) = "step_failure" \/ case.failures # {}, NEW i \in 1..Len(queue')
        PROVE  queue'[i] \in LastWords
    <3>1. i + 1 \in 1..Len(queue) /\ 1 \in 1..Len(queue) /\ 1 < i + 1
      BY <1>2
    <3> QED
      BY <1>2, <2>2, <3>1 DEF FailureIsLast
  <2>3. case'.failures # {} => Head(queue) = "step_failure" \/ case.failures # {}
    BY DEF Reacts
  <2>4. case'.failures # {} => "step_failure" \in reports \cup late
    BY <1>7, <2>3 DEF FailureIsLast
  <2> QED
    BY <2>1, <2>2, <2>3, <2>4 DEF FailureIsLast
<1>9. case.failures # {} => case'.failures # {}
  BY DEF Reacts
<1>10. FailureIsKnown'
  <2>1. Queued("step_failure") => Queued("step_failure")' \/ case'.failures # {}
    <3> SUFFICES ASSUME NEW i \in 1..Len(queue), queue[i] = "step_failure"
                 PROVE  Queued("step_failure")' \/ case'.failures # {}
      BY DEF Queued
    <3>1. CASE i = 1
      BY <1>2, <3>1 DEF Reacts
    <3>2. CASE i > 1
      <4>1. i - 1 \in 1..Len(queue') /\ (i - 1) + 1 = i
        BY <1>2, <3>2
      <4>2. queue'[i - 1] = "step_failure"
        BY <1>2, <4>1
      <4> QED
        BY <4>1, <4>2 DEF Queued
    <3> QED
      BY <3>1, <3>2
  <2>2. Queued("step_failure")' => Queued("step_failure")
    BY <1>2, <1>5 DEF Queued
  <2> QED
    BY <1>9, <2>1, <2>2 DEF FailureIsKnown
<1>11. CaseFollows'
  <2>1. case.index \in Nat /\ case'.index \in Nat
    BY <1>1, Numbers DEF CaseRow, Reacts
  <2>2. /\ case.state \in {"EXECUTING", "NOT_APPLICABLE"}
        /\ case.failures # {} => StepFails(case)
        /\ \/ case.state = "NOT_APPLICABLE"
           \/ case.failures # {}
           \/ Ahead(queue, case.index, started) /\ Untouched(case)
    BY DEF CaseFollows, Untouched
  <2>3. case'.state \in {"EXECUTING", "NOT_APPLICABLE"}
    BY <2>2 DEF Reacts
  <2>4. case.state = "NOT_APPLICABLE" => case'.state = "NOT_APPLICABLE"
    BY DEF Reacts
  <2>5. case'.failures # {} => StepFails(case')
    BY <1>6, <2>2 DEF Reacts
  <2>6. ASSUME Ahead(queue, case.index, started), Untouched(case),
               Head(queue) \notin {"step_failure", "test_skipped"}
        PROVE  Ahead(queue', case'.index, started) /\ Untouched(case')
    BY <1>1, <2>1, <2>6, AheadOfTaken DEF Reacts
  <2>7. /\ Head(queue) = "step_failure" => case'.failures # {}
        /\ Head(queue) = "test_skipped" => case'.state = "NOT_APPLICABLE"
    BY DEF Reacts
  <2>8. \/ case'.state = "NOT_APPLICABLE"
        \/ case'.failures # {}
        \/ Ahead(queue', case'.index, started) /\ Untouched(case')
    BY <1>9, <2>2, <2>4, <2>6, <2>7
  <2> QED
    BY <2>3, <2>5, <2>8 DEF CaseFollows, Untouched
<1> QED
  BY <1>3, <1>4, <1>8, <1>10, <1>11

(* A case that is completed or cancelled has the type of a case.           *)
LEMMA CompleteCaseTypes ==
    ASSUME NEW r \in CaseRow
    PROVE  CompleteCase(r) \in CaseRow /\ CancelCase(r) \in CaseRow
<1>1. \A q \in CaseRow : CompleteCase(q) \in CaseRow
  <2> SUFFICES ASSUME NEW q \in CaseRow PROVE CompleteCase(q) \in CaseRow
    OBVIOUS
  <2>1. CaseVerdict(q.errors, q.state, StateSet(q.steps)) \in TestState
    BY DEF CaseVerdict, RollUp, TestState
  <2> QED
    BY <2>1 DEF CompleteCase, CaseRow
<1> DEFINE f == [i \in StepIds |-> CancelStep(r.steps[i])]
<1>2. f \in [StepIds -> TestState]
  BY DEF CaseRow, CancelStep, TestState
<1>3. [r EXCEPT !.steps = f] \in CaseRow
  BY <1>2 DEF CaseRow
<1> QED
  BY <1>1, <1>3 DEF CancelCase

(* execute goes to the last step to show the logs: the steps in between    *)
(* stay as they are.                                                       *)
LEMMA SkipToLastKeeps ==
    ASSUME NEW r \in CaseRow, r.index < NumSteps
    PROVE  LET d == SkipToLastStepOf(r)
           IN  /\ d \in CaseRow /\ d.state = r.state /\ d.failures = r.failures
               /\ d.index = NumSteps
               /\ \A j \in StepIds \ {r.index, NumSteps} : d.steps[j] = r.steps[j]
               /\ StepFails(r) => StepFails(d)
<1> DEFINE f == CompleteStep(r, r.index)
           d == ExecuteStep(f, NumSteps)
<1>1. r.index \in StepIds /\ NumSteps \in StepIds /\ r.index \in Nat
  BY Numbers DEF CaseRow
<1>2. /\ f \in CaseRow /\ f.state = r.state /\ f.failures = r.failures /\ f.index = r.index
      /\ f.steps = [r.steps EXCEPT ![r.index] =
            IF Completed(r.steps[r.index]) THEN r.steps[r.index]
            ELSE StepVerdict(r.index \in r.failures)]
      /\ StepFails(r) => StepFails(f)
  BY <1>1, CompleteStepKeeps
<1> HIDE DEF f
<1>3. /\ f.steps[r.index] # "EXECUTING"
      /\ \A j \in StepIds \ {r.index} : f.steps[j] = r.steps[j]
  BY <1>1, <1>2 DEF CaseRow, Completed, StepVerdict
<1>4. /\ d \in CaseRow /\ d.state = f.state /\ d.failures = f.failures /\ d.index = NumSteps
      /\ d.steps = [f.steps EXCEPT ![NumSteps] = "EXECUTING"]
  BY <1>1, <1>2, ExecuteStepKeeps
<1>5. SkipToLastStepOf(r) = d
  BY DEF SkipToLastStepOf, f
<1> HIDE DEF d
<1>6. /\ d.steps[NumSteps] = "EXECUTING"
      /\ \A j \in StepIds \ {NumSteps} : d.steps[j] = f.steps[j]
  BY <1>1, <1>2, <1>4 DEF CaseRow
<1>7. ASSUME StepFails(r) PROVE StepFails(d)
  <2>1. PICK i \in f.failures : f.steps[i] = "FAILED"
    BY <1>2, <1>3, <1>7 DEF StepFails
  <2>2. i \in d.failures /\ i \in StepIds
    BY <1>2, <1>4, <2>1 DEF CaseRow
  <2> QED
    BY <1>4, <1>6, <2>1, <2>2 DEF StepFails
<1>8. \A j \in StepIds \ {r.index, NumSteps} : d.steps[j] = r.steps[j]
  BY <1>3, <1>6
<1>9. d.state = r.state /\ d.failures = r.failures
  BY <1>2, <1>4
<1> QED
  BY <1>4, <1>5, <1>7, <1>8, <1>9

(* A case at its last step that ends PASSED has no failure and no step     *)
(* that was not begun.                                                     *)
LEMMA Verdict ==
    ASSUME NEW r \in CaseRow, r.index = NumSteps, r.state \in {"EXECUTING", "NOT_APPLICABLE"},
           CompleteCase(CompleteStepOf(r)).state = "PASSED"
    PROVE  /\ r.state = "EXECUTING"
           /\ ~StepFails(r)
           /\ \A j \in StepIds \ {NumSteps} : r.steps[j] # "PENDING"
<1> DEFINE e == CompleteStepOf(r)
<1>1. r.index \in StepIds
  BY DEF CaseRow
<1>2. /\ e \in CaseRow /\ e.state = r.state /\ e.failures = r.failures /\ e.index = r.index
      /\ e.steps = [r.steps EXCEPT ![r.index] =
            IF Completed(r.steps[r.index]) THEN r.steps[r.index]
            ELSE StepVerdict(r.index \in r.failures)]
      /\ StepFails(r) => StepFails(e)
  BY <1>1, CompleteStepKeeps DEF CompleteStepOf
<1> HIDE DEF e
<1>3. /\ e.steps[r.index] # "EXECUTING"
      /\ \A j \in StepIds \ {r.index} : e.steps[j] = r.steps[j]
      /\ e.steps \in [StepIds -> TestState]
  BY <1>1, <1>2 DEF CaseRow, Completed, StepVerdict
<1>4. CompleteCase(e) = [e EXCEPT !.state = CaseVerdict(e.errors, e.state, StateSet(e.steps))]
  BY <1>2 DEF CompleteCase, CaseCompleted
<1>5. CaseVerdict(e.errors, e.state, StateSet(e.steps)) = "PASSED"
  BY <1>2, <1>4 DEF CaseRow, e
<1>6. /\ r.state # "NOT_APPLICABLE"
      /\ "FAILED" \notin StateSet(e.steps) /\ "PENDING" \notin StateSet(e.steps)
  BY <1>2, <1>5 DEF CaseVerdict, RollUp
<1>7. ASSUME StepFails(r) PROVE FALSE
  <2>1. PICK i \in e.failures : e.steps[i] = "FAILED"
    BY <1>2, <1>3, <1>7 DEF StepFails
  <2>2. i \in StepIds
    BY <1>2 DEF CaseRow
  <2> QED
    BY <1>3, <1>6, <2>1, <2>2 DEF StateSet
<1>8. \A j \in StepIds \ {NumSteps} : r.steps[j] # "PENDING"
  BY <1>3, <1>6 DEF StateSet
<1> QED
  BY <1>6, <1>7, <1>8

(* The logs are shown, and the case ends with the verdict of its script.   *)
LEMMA LogsKeep ==
    ASSUME IInv, ShowLogs
    PROVE  IInv'
<1> USE DEF IInv
<1> DEFINE atLast == IF case.index < NumSteps THEN SkipToLastStepOf(case) ELSE case
<1>1. /\ case \in CaseRow /\ case.index \in StepIds /\ case.index \in Nat /\ loop = "logs"
      /\ NumSteps \in Nat /\ NumSteps >= 2 /\ NumSteps \in StepIds /\ case.index <= NumSteps
      /\ UNCHANGED <<flavour, stopped, queue, finished, script, reports, late>>
  BY Numbers DEF Types, CaseRow, ShowLogs
<1>2. /\ atLast \in CaseRow /\ atLast.state = case.state /\ atLast.failures = case.failures
      /\ atLast.index = NumSteps
      /\ \A j \in StepIds \ {case.index, NumSteps} : atLast.steps[j] = case.steps[j]
      /\ StepFails(case) => StepFails(atLast)
  BY <1>1, SkipToLastKeeps
<1>3. \/ case' = CompleteCase(CompleteStepOf(atLast)) /\ loop' = "over"
      \/ Raise(atLast)
  BY DEF ShowLogs
<1> HIDE DEF atLast
<1>4. /\ loop' \in {"over", "raised"} /\ case' \in CaseRow
  <2>1. CompleteStepOf(atLast) \in CaseRow
    BY <1>1, <1>2, CompleteStepKeeps DEF CompleteStepOf
  <2>2. [atLast EXCEPT !.steps[atLast.index] = "ERROR"] \in CaseRow
    <3>1. [atLast.steps EXCEPT ![atLast.index] = "ERROR"] \in [StepIds -> TestState]
      BY <1>2 DEF CaseRow, TestState
    <3> QED
      BY <1>2, <3>1 DEF CaseRow
  <2> QED
    BY <1>3, <2>1, <2>2, CompleteCaseTypes DEF Raise
<1>5. Types' /\ HarnessEnds' /\ EndWasSeen' /\ CaseFollows'
  BY <1>1, <1>4 DEF Types, HarnessEnds, EndWasSeen, CaseFollows
<1>6. FailureIsLast' /\ FailureIsKnown'
  <2>1. case'.failures = case.failures
    <3>1. CompleteStepOf(atLast).failures = atLast.failures /\ CompleteStepOf(atLast) \in CaseRow
      BY <1>1, <1>2, CompleteStepKeeps DEF CompleteStepOf
    <3>2. \A q \in CaseRow : CompleteCase(q).failures = q.failures
      BY DEF CompleteCase, CaseRow
    <3>3. LET q == [atLast EXCEPT !.steps[atLast.index] = "ERROR"]
          IN  q \in CaseRow /\ q.failures = atLast.failures
      <4>1. [atLast.steps EXCEPT ![atLast.index] = "ERROR"] \in [StepIds -> TestState]
        BY <1>2 DEF CaseRow, TestState
      <4> QED
        BY <1>2, <4>1 DEF CaseRow
    <3> QED
      BY <1>2, <1>3, <3>1, <3>2, <3>3 DEF Raise
  <2> QED
    BY <1>1, <1>4, <2>1 DEF FailureIsLast, FailureIsKnown, Queued
<1>7. ASSUME loop' = "over", case'.state = "PASSED"
      PROVE  "step_failure" \notin reports /\ finished /\ started >= NumSteps - 2
  <2>1. /\ atLast.state = "EXECUTING" /\ ~StepFails(atLast)
        /\ \A j \in StepIds \ {NumSteps} : atLast.steps[j] # "PENDING"
    <3>1. CompleteCase(CompleteStepOf(atLast)).state = "PASSED"
      BY <1>3, <1>7 DEF Raise
    <3>2. case.state \in {"EXECUTING", "NOT_APPLICABLE"}
      BY <1>1 DEF CaseFollows
    <3> QED
      BY <1>2, <3>1, <3>2, Verdict
  <2>2. case.failures = {} /\ case.state = "EXECUTING"
    BY <1>1, <1>2, <2>1 DEF CaseFollows
  <2>3. Ahead(queue, case.index, started) /\ Untouched(case)
    BY <1>1, <2>2 DEF CaseFollows, Untouched
  <2>4. case.index >= NumSteps - 1
    <3> SUFFICES ASSUME case.index < NumSteps - 1 PROVE FALSE
      BY <1>1
    <3>1. case.index + 1 \in StepIds \ {case.index, NumSteps} /\ case.index + 1 > case.index
      BY <1>1, Numbers
    <3>2. case.steps[case.index + 1] = "PENDING"
      BY <2>3, <3>1 DEF Untouched
    <3> QED
      BY <1>2, <2>1, <3>1, <3>2
  <2>5. case.index - 1 <= started /\ started \in Nat
    <3>1. queue \in Seq(Hooks) /\ started \in Nat
      BY DEF Types
    <3> QED
      BY <1>1, <2>3, <3>1, AheadCounts
  <2>6. "step_failure" \notin reports
    BY <1>1, <2>2 DEF FailureIsKnown
  <2>7. finished
    BY <1>1 DEF EndWasSeen
  <2> QED
    BY <1>1, <2>4, <2>5, <2>6, <2>7
<1> QED
  BY <1>1, <1>5, <1>6, <1>7 DEF VerdictIsTheScripts

(* Every step of the harness, of execute and of an abort preserves the     *)
(* invariant.                                                              *)
LEMMA IInvStep == IInv /\ [Next]_vars => IInv'
<1> SUFFICES ASSUME IInv, [Next]_vars PROVE IInv'
  OBVIOUS
<1> USE DEF IInv
<1>1. /\ queue \in Seq(Hooks) /\ case \in CaseRow /\ started \in Nat
      /\ case.index \in StepIds
  BY DEF Types, CaseRow
<1>2. CASE Connect
  <2>1. queue = <<>> /\ queue' = queue
    BY <1>2 DEF Connect, HarnessEnds
  <2> QED
    BY <1>2, <2>1 DEF Connect, Types, HarnessEnds, EndWasSeen, FailureIsLast, FailureIsKnown,
       Queued, CaseFollows, VerdictIsTheScripts
<1>3. ASSUME NEW hook \in DOMAIN Follows \cup {"stop"}, CallHook(hook)
      PROVE  IInv'
  <2>1. hook \in Hooks /\ last \in DOMAIN Follows /\ hook \in Follows[last]
    BY <1>3 DEF CallHook, Hooks, Follows
  <2>2. last \in LastWords \cup {"raised"} => hook \in LastWords
    BY <2>1 DEF Follows, LastWords
  <2>3. started' = started + Starts(hook)
    BY <1>1, <1>3 DEF CallHook, Starts
  <2>4. /\ harness = "running" /\ Put(hook) /\ last' = hook /\ UNCHANGED <<backend, finished>>
        /\ harness' \in {"running", "input", "stopping"}
    BY <1>3 DEF CallHook
  <2>5. "step_failure" \in reports \cup late => hook \in LastWords
    BY <2>2 DEF FailureIsLast
  <2>6. hook = "step_failure" => hook \in LastWords
    BY DEF LastWords
  <2> QED
    BY <2>1, <2>3, <2>4, <2>5, <2>6, PutKeeps
<1>4. CASE ScriptRaises
  <2>1. /\ "step_failure" \in Hooks /\ "step_failure" \in LastWords
        /\ started' = started + Starts("step_failure")
    BY <1>1, <1>4 DEF ScriptRaises, Hooks, LastWords, Starts
  <2> QED
    BY <1>4, <2>1, PutKeeps DEF ScriptRaises
<1>5. CASE StopAfterRaise
  <2>1. "stop" \in Hooks /\ "stop" \in LastWords /\ started' = started + Starts("stop")
    BY <1>1, <1>5 DEF StopAfterRaise, Hooks, LastWords, Starts
  <2> QED
    BY <1>5, <2>1, PutKeeps DEF StopAfterRaise
<1>6. CASE Finish
  BY <1>6 DEF Finish, Types, HarnessEnds, EndWasSeen, FailureIsLast, FailureIsKnown,
     Queued, CaseFollows, VerdictIsTheScripts
<1>7. CASE HarnessDies
  BY <1>7 DEF HarnessDies, Types, HarnessEnds, EndWasSeen, FailureIsLast, FailureIsKnown,
     Queued, CaseFollows, VerdictIsTheScripts
<1>8. CASE FindNothing
  BY <1>8 DEF FindNothing, Types, HarnessEnds, EndWasSeen, FailureIsLast, FailureIsKnown,
     Queued, CaseFollows, VerdictIsTheScripts
<1>9. CASE HandleUpdate
  <2>1. Reacts(Head(queue), case, case')
    BY <1>1, <1>9, TakeFirst, Reaction DEF HandleUpdate
  <2>2. stopped' \in BOOLEAN
    BY <1>9 DEF HandleUpdate
  <2> QED
    BY <1>9, <2>1, <2>2, TakeKeeps DEF HandleUpdate
<1>10. CASE HandlePrompt
  <2>1. Reacts(Head(queue), case, case')
    <3>1. React(Head(queue), case) = case
      BY <1>10 DEF HandlePrompt, React
    <3> QED
      BY <1>1, <1>10, <3>1, TakeFirst, Reaction DEF HandlePrompt
  <2>2. stopped' \in BOOLEAN
    BY <1>10 DEF HandlePrompt, Types
  <2> QED
    BY <1>10, <2>1, <2>2, TakeKeeps DEF HandlePrompt
<1>11. CASE Check
  BY <1>11 DEF Check, Types, HarnessEnds, EndWasSeen, FailureIsLast, FailureIsKnown,
     Queued, CaseFollows, VerdictIsTheScripts
<1>12. CASE Sleep
  BY <1>12 DEF Sleep, Types, HarnessEnds, EndWasSeen, FailureIsLast, FailureIsKnown,
     Queued, CaseFollows, VerdictIsTheScripts
<1>13. CASE ShowLogs
  BY <1>13, LogsKeep
<1>14. CASE PromptAnswered
  BY <1>14 DEF PromptAnswered, Types, HarnessEnds, EndWasSeen, FailureIsLast, FailureIsKnown,
     Queued, CaseFollows, VerdictIsTheScripts
<1>15. CASE PromptUnanswered
  BY <1>15 DEF PromptUnanswered, Types, HarnessEnds, EndWasSeen, FailureIsLast,
     FailureIsKnown, Queued, CaseFollows, VerdictIsTheScripts
<1>16. CASE PromptRaises \/ Abort
  <2>1. case' \in CaseRow /\ case'.failures = case.failures
    <3> DEFINE f == [i \in StepIds |-> CancelStep(case.steps[i])]
               g == [case.steps EXCEPT ![case.index] = "ERROR"]
    <3>1. f \in [StepIds -> TestState] /\ g \in [StepIds -> TestState]
      BY <1>1 DEF CaseRow, CancelStep, TestState
    <3>2. \A h \in [StepIds -> TestState] :
             /\ [case EXCEPT !.steps = h] \in CaseRow
             /\ [case EXCEPT !.steps = h].failures = case.failures
      BY <1>1 DEF CaseRow
    <3>3. \A q \in CaseRow :
             CompleteCase(q) \in CaseRow /\ CompleteCase(q).failures = q.failures
      BY CompleteCaseTypes DEF CompleteCase, CaseRow
    <3>4. case' \in {case, CompleteCase([case EXCEPT !.steps = f]),
                     CompleteCase([case EXCEPT !.steps = g])}
      BY <1>16 DEF PromptRaises, Raise, Abort, CancelCase
    <3> HIDE DEF f, g
    <3> QED
      BY <1>1, <3>1, <3>2, <3>3, <3>4
  <2>2. /\ loop' \in {"raised", "aborted"} /\ loop \in {"sleep", "prompt"}
        /\ UNCHANGED <<flavour, stopped, queue, finished, script, reports, late>>
    BY <1>16 DEF PromptRaises, Raise, Abort
  <2> QED
    BY <2>1, <2>2 DEF Types, HarnessEnds, EndWasSeen, FailureIsLast, FailureIsKnown,
       Queued, CaseFollows, VerdictIsTheScripts
<1>17. CASE UNCHANGED vars
  BY <1>17 DEF vars, Types, HarnessEnds, EndWasSeen, FailureIsLast, FailureIsKnown,
     Queued, CaseFollows, VerdictIsTheScripts
<1> QED
  BY <1>2, <1>3, <1>4, <1>5, <1>6, <1>7, <1>8, <1>9, <1>10, <1>11, <1>12, <1>13, <1>14,
     <1>15, <1>16, <1>17 DEF Next, Script, Execute

(* A failure the script reported is in the verdict of the case, and a case *)
(* that PASSED ran to the end of its script: PythonTestCase.execute, for   *)
(* every number of steps and every order of the two processes.             *)
THEOREM ScriptIsBelieved == CaseSpec => []VerdictIsTheScripts
<1>1. CaseInit => IInv
  BY InitHolds DEF CaseInit
<1>2. IInv /\ [CaseNext]_allVars => IInv'
  <2> SUFFICES ASSUME IInv, [CaseNext]_allVars PROVE IInv'
    OBVIOUS
  <2>1. [Next]_vars
    BY DEF CaseNext, InPython, InPrompted, allVars
  <2> QED
    BY <2>1, IInvStep
<1>3. IInv => VerdictIsTheScripts
  BY DEF IInv
<1> QED
  BY <1>1, <1>2, <1>3, PTL DEF CaseSpec

-----------------------------------------------------------------------------
(***************************************************************************)
(* Cases that ask the operator.                                            *)
(***************************************************************************)
N == Prompted!StepCount
Uploads(i) == Prompted!Kind(i) = "upload"

AskRow == [state : TestState, errors : BOOLEAN, index : 1..N,
           steps : [1..N -> TestState], failures : SUBSET (1..N)]

\* Something bad was said of the steps b of the case r: they show it, and no
\* other step failed.
Fits(r, b) ==
    /\ r \in AskRow /\ b \subseteq 1..N
    /\ \A i \in b : i <= r.index /\ r.steps[i] \in {"FAILED", "ERROR", "NOT_APPLICABLE"}
    /\ \A i \in 1..N : i \in r.failures \/ r.steps[i] = "FAILED" => i \in b \/ Uploads(i)

\* Only the current step executes.
InOrder(r) == \A i \in 1..N : i # r.index => r.steps[i] # "EXECUTING"

\* The step of the upload was not skipped.
UploadCounts(r) == \A i \in 1..N : Uploads(i) => r.steps[i] # "NOT_APPLICABLE"

YamlPoints == {"start", "run", "in step", "verifying", "stopped"}
Points == {"setup", "next", "asked", "upload", "uploading", "cleanup", "done"} \cup YamlPoints

\* The step of the case r at the point p is one ahead of the step q of the
\* test, two between the steps.
At(p, r, q) ==
    /\ p \in YamlPoints => asking.kind # "manual"
    /\ p = "start" => r.index = 1 /\ q = 0
    /\ p = "run" => r.index = IF q + 2 <= N THEN q + 2 ELSE N
    /\ p \in {"in step", "verifying"} => r.index = q + 1
    /\ p \in {"asked", "verifying"} => Prompted!Kind(r.index) = "manual"

InStep ==
    /\ At(pc, c, position)
    /\ pc = "setup" => c.index = 1 /\ bad = {} /\ position = 0

\* A file is that of the current step, which was not skipped.
FileFits ==
    /\ pc = "uploading" => Uploads(c.index)
    /\ file # "none" => pc \in {"uploading", "cleanup", "done"}
    /\ file \in {"log", "image"} => Uploads(c.index)
    /\ UploadCounts(c) \/ (pc \in {"cleanup", "done"} /\ file = "none")

Settles ==
    /\ pc # "done" => c.state = "EXECUTING" /\ InOrder(c)
    /\ pc \in {"setup", "cleanup"} => c.steps[c.index] # "EXECUTING"
    /\ pc = "done" /\ c.state = "PASSED" =>
          /\ \A i \in bad : c.steps[i] = "NOT_APPLICABLE"
          /\ \A i \in 1..N : c.steps[i] \notin {"PENDING", "EXECUTING"}

AskTypes ==
    /\ asking \in Cases
    /\ pc \in Points
    /\ position \in Nat
    /\ file \in {"none", "log", "image", "handled"}
    /\ Fits(c, bad)

AskInv == AskTypes /\ InStep /\ FileFits /\ Settles

(* A case has at least one step, an upload is its last one, and a test has *)
(* fewer steps than the case, none of which is an upload.                  *)
LEMMA Form ==
    ASSUME asking \in Cases
    PROVE  /\ N \in Nat /\ N > 0
           /\ \A i \in 1..N : Uploads(i) => i = N
           /\ asking.kind # "manual" =>
                 /\ Prompted!TestLength \in Nat /\ Prompted!TestLength < N
                 /\ \A i \in 1..N : i <= Prompted!TestLength + 1 => ~Uploads(i)
<1>1. Prompted!WellFormed(asking)
  BY CasesAssumption
<1>2. N = Len(asking.steps) /\ \A i : Prompted!Kind(i) = asking.steps[i]
  BY DEF N, Prompted!StepCount, Prompted!Kind
<1>3. N \in Nat /\ N > 0
  BY <1>1, <1>2 DEF Prompted!WellFormed
<1>4. \A i \in 1..N : Uploads(i) => i = N
  BY <1>1, <1>2, <1>3 DEF Prompted!WellFormed, Uploads
<1>5. ASSUME asking.kind # "manual"
      PROVE  /\ Prompted!TestLength \in Nat /\ Prompted!TestLength < N
             /\ \A i \in 1..N : i <= Prompted!TestLength + 1 => ~Uploads(i)
  <2>1. Prompted!TestLength = N - (IF asking.kind = "semi" THEN 2 ELSE 1)
    BY DEF Prompted!TestLength, N
  <2>2. CASE asking.kind = "semi"
    <3>1. N > 1 /\ \A i \in 1..N : i # N => Prompted!Kind(i) # "upload"
      BY <1>1, <1>2, <1>3, <2>2 DEF Prompted!WellFormed
    <3> QED
      BY <1>3, <2>1, <2>2, <3>1 DEF Uploads
  <2>3. CASE asking.kind # "semi"
    <3>1. \A i \in 1..N : Prompted!Kind(i) # "upload"
      BY <1>1, <1>2, <1>3, <1>5, <2>3 DEF Prompted!WellFormed
    <3> QED
      BY <1>3, <2>1, <2>3, <3>1 DEF Uploads
  <2> QED
    BY <2>2, <2>3
<1> QED
  BY <1>3, <1>4, <1>5

(* A case whose current step becomes v is still well behaved if v does not *)
(* hide that something bad was said of the step.                           *)
Becomes(r, d, v, b, more) ==
    /\ r \in AskRow /\ d \in AskRow /\ v \in TestState /\ Fits(r, b)
    /\ more \subseteq {r.index}
    /\ r.index \in b \cup more => v \in {"FAILED", "ERROR", "NOT_APPLICABLE"}
    /\ v = "FAILED" => r.index \in b \cup more \/ Uploads(r.index)
    /\ d.index = r.index /\ d.steps = [r.steps EXCEPT ![r.index] = v]
    /\ \/ d.failures = r.failures
       \/ d.failures = r.failures \cup {r.index} /\ v = "FAILED"

(* What is well behaved stays so when the current step becomes v.          *)
LEMMA StepBecomes ==
    ASSUME N \in Nat, NEW r, NEW d, NEW v, NEW b, NEW more, Becomes(r, d, v, b, more)
    PROVE  /\ Fits(d, b \cup more)
           /\ InOrder(r) => InOrder(d)
           /\ d.steps[r.index] = v
           /\ UploadCounts(r) /\ (v = "NOT_APPLICABLE" => ~Uploads(r.index)) => UploadCounts(d)
<1> USE DEF Becomes
<1>1. /\ r.index \in 1..N /\ r.steps \in [1..N -> TestState] /\ b \cup more \subseteq 1..N
  BY DEF AskRow, Fits
<1>2. /\ d.steps[r.index] = v
      /\ \A i \in 1..N : i # r.index => d.steps[i] = r.steps[i]
  BY <1>1
<1>3. ASSUME NEW i \in b \cup more
      PROVE  i <= d.index /\ d.steps[i] \in {"FAILED", "ERROR", "NOT_APPLICABLE"}
  <2>1. CASE i = r.index
    BY <1>1, <1>2, <2>1
  <2>2. CASE i # r.index
    <3>1. i \in b /\ i \in 1..N
      BY <1>1, <2>2
    <3> QED
      BY <1>2, <2>2, <3>1 DEF Fits
  <2> QED
    BY <2>1, <2>2
<1>4. ASSUME NEW i \in 1..N, i \in d.failures \/ d.steps[i] = "FAILED"
      PROVE  i \in b \cup more \/ Uploads(i)
  <2>1. CASE i # r.index
    <3>1. i \in r.failures \/ r.steps[i] = "FAILED"
      BY <1>2, <1>4, <2>1
    <3> QED
      BY <3>1 DEF Fits
  <2>2. CASE i = r.index
    <3>1. i \in r.failures \/ v = "FAILED"
      BY <1>2, <1>4, <2>2
    <3>2. i \in r.failures => i \in b \/ Uploads(i)
      BY DEF Fits
    <3> QED
      BY <2>2, <3>1, <3>2
  <2> QED
    BY <2>1, <2>2
<1>5. Fits(d, b \cup more)
  BY <1>1, <1>3, <1>4 DEF Fits
<1>6. InOrder(r) => InOrder(d)
  BY <1>2 DEF InOrder
<1>7. UploadCounts(r) /\ (v = "NOT_APPLICABLE" => ~Uploads(r.index)) => UploadCounts(d)
  BY <1>1, <1>2 DEF UploadCounts
<1> QED
  BY <1>2, <1>5, <1>6, <1>7

(* A failure of the current step, of which something bad was said, or      *)
(* which is that of the upload.                                            *)
LEMMA AskFail ==
    ASSUME N \in Nat, NEW r, NEW b, Fits(r, b), NEW more \in SUBSET {r.index},
           r.index \in more \/ Uploads(r.index)
    PROVE  LET d == Prompted!Fail(r)
           IN  /\ Fits(d, b \cup more) /\ (InOrder(r) => InOrder(d))
               /\ d.state = r.state /\ d.index = r.index
               /\ (UploadCounts(r) => UploadCounts(d))
               /\ d.steps[r.index] = "FAILED"
               /\ \A i \in 1..N : i # r.index => d.steps[i] = r.steps[i]
<1> DEFINE d == Prompted!Fail(r)
<1>1. /\ r \in AskRow /\ b \in SUBSET (1..N) /\ r.index \in 1..N
      /\ r.steps \in [1..N -> TestState] /\ r.failures \in SUBSET (1..N)
  BY DEF Fits, AskRow
<1>2. d = [r EXCEPT !.steps = [r.steps EXCEPT ![r.index] = "FAILED"],
                    !.failures = r.failures \cup {r.index}]
  BY <1>1 DEF Prompted!Fail, Prompted!Steps!FailStepOf, AskRow
<1>3. /\ [r.steps EXCEPT ![r.index] = "FAILED"] \in [1..N -> TestState]
      /\ r.failures \cup {r.index} \in SUBSET (1..N)
  BY <1>1 DEF TestState
<1>4. /\ d \in AskRow /\ d.index = r.index /\ d.failures = r.failures \cup {r.index}
      /\ d.state = r.state /\ d.steps = [r.steps EXCEPT ![r.index] = "FAILED"]
  BY <1>1, <1>2, <1>3 DEF AskRow
<1> HIDE DEF d
<1>5. "FAILED" \in TestState /\ "FAILED" # "NOT_APPLICABLE"
  BY DEF TestState
<1>6. Becomes(r, d, "FAILED", b, more)
  BY <1>1, <1>4, <1>5 DEF Becomes
<1>7. \A i \in 1..N : i # r.index => d.steps[i] = r.steps[i]
  BY <1>1, <1>4
<1>8. /\ Fits(d, b \cup more) /\ (InOrder(r) => InOrder(d)) /\ d.steps[r.index] = "FAILED"
      /\ (UploadCounts(r) => UploadCounts(d))
  BY <1>5, <1>6, StepBecomes
<1> QED
  BY <1>4, <1>7, <1>8 DEF d

(* The current step is taken back as not applicable, whatever was said.    *)
LEMMA AskSkip ==
    ASSUME N \in Nat, NEW r, NEW b, Fits(r, b)
    PROVE  LET d == Prompted!Skip(r)
           IN  /\ Fits(d, b) /\ (InOrder(r) => InOrder(d))
               /\ d.state = r.state /\ d.index = r.index
               /\ (UploadCounts(r) /\ ~Uploads(r.index) => UploadCounts(d))
               /\ d.steps[r.index] = "NOT_APPLICABLE"
<1> DEFINE d == Prompted!Skip(r)
<1>1. /\ r \in AskRow /\ b \in SUBSET (1..N) /\ r.index \in 1..N
      /\ r.steps \in [1..N -> TestState]
  BY DEF Fits, AskRow
<1>2. d = [r EXCEPT !.steps = [r.steps EXCEPT ![r.index] = "NOT_APPLICABLE"]]
  BY <1>1 DEF Prompted!Skip, Prompted!Steps!SkipStepOf, AskRow
<1>3. [r.steps EXCEPT ![r.index] = "NOT_APPLICABLE"] \in [1..N -> TestState]
  BY <1>1 DEF TestState
<1>4. /\ d \in AskRow /\ d.index = r.index /\ d.failures = r.failures
      /\ d.state = r.state /\ d.steps = [r.steps EXCEPT ![r.index] = "NOT_APPLICABLE"]
  BY <1>1, <1>2, <1>3 DEF AskRow
<1> HIDE DEF d
<1>5. "NOT_APPLICABLE" \in TestState /\ b \cup {} = b
  BY DEF TestState
<1>6. /\ Fits(d, b \cup {}) /\ (InOrder(r) => InOrder(d))
      /\ d.steps[r.index] = "NOT_APPLICABLE"
      /\ (UploadCounts(r) /\ ("NOT_APPLICABLE" = "NOT_APPLICABLE" => ~Uploads(r.index))
             => UploadCounts(d))
  <2>1. Becomes(r, d, "NOT_APPLICABLE", b, {})
    BY <1>1, <1>4, <1>5 DEF Becomes
  <2> QED
    BY <2>1, StepBecomes
<1> QED
  BY <1>4, <1>5, <1>6 DEF d

(* An exception: the current step gets the error, whatever it was.         *)
LEMMA AskError ==
    ASSUME N \in Nat, NEW r, NEW b, Fits(r, b), NEW more \in SUBSET {r.index}
    PROVE  LET d == [r EXCEPT !.steps[r.index] = "ERROR"]
           IN  /\ Fits(d, b \cup more) /\ (InOrder(r) => InOrder(d))
               /\ d.state = r.state /\ d.index = r.index
               /\ (UploadCounts(r) => UploadCounts(d))
               /\ d.steps[r.index] = "ERROR"
<1> DEFINE d == [r EXCEPT !.steps[r.index] = "ERROR"]
<1>1. /\ r \in AskRow /\ b \in SUBSET (1..N) /\ r.index \in 1..N
      /\ r.steps \in [1..N -> TestState]
  BY DEF Fits, AskRow
<1>2. [r.steps EXCEPT ![r.index] = "ERROR"] \in [1..N -> TestState]
  BY <1>1 DEF TestState
<1>3. /\ d \in AskRow /\ d.index = r.index /\ d.failures = r.failures
      /\ d.state = r.state /\ d.steps = [r.steps EXCEPT ![r.index] = "ERROR"]
  BY <1>1, <1>2 DEF AskRow
<1> HIDE DEF d
<1>4. "ERROR" \in TestState /\ "ERROR" # "NOT_APPLICABLE" /\ "ERROR" # "FAILED"
  BY DEF TestState
<1>5. /\ Fits(d, b \cup more) /\ (InOrder(r) => InOrder(d)) /\ d.steps[r.index] = "ERROR"
      /\ (UploadCounts(r) => UploadCounts(d))
  <2>1. Becomes(r, d, "ERROR", b, more)
    BY <1>1, <1>3, <1>4 DEF Becomes
  <2> QED
    BY <1>4, <2>1, StepBecomes
<1> QED
  BY <1>3, <1>5 DEF d

(* The current step is completed: what was said of it stands.              *)
LEMMA AskComplete ==
    ASSUME N \in Nat, NEW r, NEW b, Fits(r, b)
    PROVE  LET d == Prompted!CompleteCurrent(r)
           IN  /\ Fits(d, b) /\ (InOrder(r) => InOrder(d))
               /\ d.state = r.state /\ d.index = r.index /\ d.failures = r.failures
               /\ (UploadCounts(r) => UploadCounts(d))
               /\ d.steps[r.index] # "EXECUTING"
               /\ \A i \in 1..N : i # r.index => d.steps[i] = r.steps[i]
<1> DEFINE d == Prompted!CompleteCurrent(r)
           v == IF Completed(r.steps[r.index]) THEN r.steps[r.index]
                ELSE StepVerdict(r.index \in r.failures)
<1>1. /\ r \in AskRow /\ b \in SUBSET (1..N) /\ r.index \in 1..N
      /\ r.steps \in [1..N -> TestState]
  BY DEF Fits, AskRow
<1>2. d = [r EXCEPT !.steps = [r.steps EXCEPT ![r.index] = v]]
  BY <1>1 DEF Prompted!CompleteCurrent, Prompted!Steps!CompleteStepOf,
     Prompted!Steps!CompleteStep, Completed, StepVerdict, AskRow,
     Prompted!Steps!Completed, Prompted!Steps!StepVerdict
<1>3. v \in TestState /\ v # "EXECUTING"
  BY <1>1 DEF Completed, StepVerdict, TestState
<1>4. v = "FAILED" => r.index \in r.failures \/ r.steps[r.index] = "FAILED"
  BY DEF StepVerdict
<1>5. v = "NOT_APPLICABLE" => r.steps[r.index] = "NOT_APPLICABLE"
  BY DEF StepVerdict
<1>6. r.index \in b => v \in {"FAILED", "ERROR", "NOT_APPLICABLE"}
  BY DEF Fits, Completed
<1> HIDE DEF v
<1>7. [r.steps EXCEPT ![r.index] = v] \in [1..N -> TestState]
  BY <1>1, <1>3
<1>8. /\ d \in AskRow /\ d.index = r.index /\ d.failures = r.failures
      /\ d.failures = r.failures
      /\ d.state = r.state /\ d.steps = [r.steps EXCEPT ![r.index] = v]
  BY <1>1, <1>2, <1>7 DEF AskRow
<1> HIDE DEF d
<1>9. v = "FAILED" => r.index \in b \/ Uploads(r.index)
  BY <1>1, <1>4 DEF Fits
<1>10. /\ Fits(d, b \cup {}) /\ (InOrder(r) => InOrder(d)) /\ d.steps[r.index] = v
       /\ UploadCounts(r) /\ (v = "NOT_APPLICABLE" => ~Uploads(r.index)) => UploadCounts(d)
  <2>1. Becomes(r, d, v, b, {})
    BY <1>1, <1>3, <1>6, <1>8, <1>9 DEF Becomes
  <2> QED
    BY <2>1, StepBecomes
<1>11. UploadCounts(r) => (v = "NOT_APPLICABLE" => ~Uploads(r.index))
  BY <1>1, <1>5 DEF UploadCounts
<1>12. b \cup {} = b
  OBVIOUS
<1>13. \A i \in 1..N : i # r.index => d.steps[i] = r.steps[i]
  BY <1>1, <1>8
<1> QED
  BY <1>3, <1>8, <1>10, <1>11, <1>12, <1>13 DEF d

(* The step i is entered: none of those behind it is, and nothing was said *)
(* of it.                                                                  *)
LEMMA AskEnter ==
    ASSUME N \in Nat, NEW r, NEW b, Fits(r, b), NEW i \in 1..N, i \notin b, r.index <= i,
           \A j \in 1..N : j # i => r.steps[j] # "EXECUTING"
    PROVE  LET d == Prompted!Steps(N)!ExecuteStep(r, i)
           IN  /\ Fits(d, b) /\ InOrder(d)
               /\ d.state = r.state /\ d.index = i
               /\ (UploadCounts(r) => UploadCounts(d))
<1> DEFINE d == Prompted!Steps(N)!ExecuteStep(r, i)
<1>1. /\ r \in AskRow /\ b \in SUBSET (1..N) /\ r.index \in 1..N
      /\ r.steps \in [1..N -> TestState]
  BY DEF Fits, AskRow
<1>2. d = [r EXCEPT !.steps = [r.steps EXCEPT ![i] = "EXECUTING"], !.index = i]
  BY <1>1 DEF Prompted!Steps!ExecuteStep, AskRow
<1>3. [r.steps EXCEPT ![i] = "EXECUTING"] \in [1..N -> TestState]
  BY <1>1 DEF TestState
<1>4. /\ d \in AskRow /\ d.index = i /\ d.failures = r.failures
      /\ d.state = r.state /\ d.steps = [r.steps EXCEPT ![i] = "EXECUTING"]
  BY <1>1, <1>2, <1>3 DEF AskRow
<1> HIDE DEF d
<1>5. d.steps[i] = "EXECUTING" /\ \A j \in 1..N : j # i => d.steps[j] = r.steps[j]
  BY <1>1, <1>4
<1>6. ASSUME NEW j \in b
      PROVE  j <= d.index /\ d.steps[j] \in {"FAILED", "ERROR", "NOT_APPLICABLE"}
  <2>1. j \in 1..N /\ j # i /\ j <= r.index
    BY <1>1 DEF Fits
  <2> QED
    BY <1>1, <1>4, <1>5, <2>1 DEF Fits
<1>7. ASSUME NEW j \in 1..N, j \in d.failures \/ d.steps[j] = "FAILED"
      PROVE  j \in b \/ Uploads(j)
  <2>1. j \in r.failures \/ r.steps[j] = "FAILED"
    BY <1>4, <1>5, <1>7
  <2> QED
    BY <2>1 DEF Fits
<1>8. Fits(d, b)
  BY <1>1, <1>4, <1>6, <1>7 DEF Fits
<1>9. InOrder(d)
  BY <1>4, <1>5 DEF InOrder
<1>10. UploadCounts(r) => UploadCounts(d)
  BY <1>5 DEF UploadCounts
<1> QED
  BY <1>4, <1>8, <1>9, <1>10 DEF d

(* The case goes on to its next step, and stays where it is at the last.   *)
LEMMA AskNext ==
    ASSUME N \in Nat, NEW r, NEW b, Fits(r, b), InOrder(r)
    PROVE  LET d == Prompted!Next1(r)
           IN  /\ Fits(d, b) /\ InOrder(d) /\ d.state = r.state
               /\ d.index = IF r.index < N THEN r.index + 1 ELSE r.index
               /\ (UploadCounts(r) => UploadCounts(d))
<1> DEFINE d == Prompted!Next1(r)
           closed == IF r.steps[r.index] = "EXECUTING" THEN Prompted!CompleteCurrent(r) ELSE r
<1>1. r.index \in 1..N /\ b \in SUBSET (1..N)
  BY DEF Fits, AskRow
<1>2. d = IF r.index < N THEN Prompted!Steps(N)!ExecuteStep(closed, r.index + 1) ELSE r
  BY DEF Prompted!Next1, Prompted!Steps!NextStepOf, Prompted!CompleteCurrent,
     Prompted!Steps!CompleteStepOf, N
<1>3. /\ Fits(closed, b) /\ InOrder(closed) /\ closed.state = r.state /\ closed.index = r.index
      /\ (UploadCounts(r) => UploadCounts(closed))
      /\ closed.steps[r.index] # "EXECUTING"
  <2>1. CASE r.steps[r.index] = "EXECUTING"
    <3> DEFINE e == Prompted!CompleteCurrent(r)
    <3>1. /\ Fits(e, b) /\ (InOrder(r) => InOrder(e)) /\ e.state = r.state /\ e.index = r.index
          /\ (UploadCounts(r) => UploadCounts(e)) /\ e.steps[r.index] # "EXECUTING"
      BY AskComplete
    <3>2. closed = e
      BY <2>1
    <3> HIDE DEF e, closed
    <3> QED
      BY <3>1, <3>2
  <2>2. CASE r.steps[r.index] # "EXECUTING"
    <3>1. closed = r
      BY <2>2
    <3> HIDE DEF closed
    <3> QED
      BY <2>2, <3>1
  <2> QED
    BY <2>1, <2>2
<1> HIDE DEF closed
<1>4. CASE r.index < N
  <2> DEFINE e == Prompted!Steps(N)!ExecuteStep(closed, r.index + 1)
  <2>1. r.index + 1 \in 1..N /\ r.index <= r.index + 1
    BY <1>1, <1>4
  <2>2. r.index + 1 \notin b
    BY <1>1 DEF Fits
  <2>3. \A j \in 1..N : j # r.index + 1 => closed.steps[j] # "EXECUTING"
    BY <1>3 DEF InOrder
  <2>4. /\ Fits(e, b) /\ InOrder(e) /\ e.state = closed.state /\ e.index = r.index + 1
        /\ (UploadCounts(closed) => UploadCounts(e))
    BY <1>3, <2>1, <2>2, <2>3, AskEnter
  <2>5. d = e
    BY <1>2, <1>4
  <2> HIDE DEF d, e
  <2>6. /\ Fits(d, b) /\ InOrder(d) /\ d.state = r.state
        /\ d.index = (IF r.index < N THEN r.index + 1 ELSE r.index)
        /\ (UploadCounts(r) => UploadCounts(d))
    BY <1>3, <1>4, <2>4, <2>5
  <2> QED
    BY <2>6 DEF d
<1>5. CASE ~(r.index < N)
  <2>1. d = r
    BY <1>2, <1>5
  <2> HIDE DEF d
  <2>2. /\ Fits(d, b) /\ InOrder(d) /\ d.state = r.state
        /\ d.index = (IF r.index < N THEN r.index + 1 ELSE r.index)
        /\ (UploadCounts(r) => UploadCounts(d))
    BY <1>5, <2>1
  <2> QED
    BY <2>2 DEF d
<1> QED
  BY <1>4, <1>5

(* The case ends: it passes only if every step passed or is not            *)
(* applicable, and none of those of which something bad was said passed.   *)
LEMMA AskEnds ==
    ASSUME N \in Nat, NEW r, NEW b, Fits(r, b), r.state = "EXECUTING"
    PROVE  LET d == Prompted!Steps(N)!CompleteCase(r)
           IN  /\ Fits(d, b) /\ d.steps = r.steps /\ d.index = r.index
               /\ (d.state = "PASSED" => \A i \in 1..N :
                      r.steps[i] \notin {"FAILED", "ERROR", "PENDING", "CANCELLED"})
<1> DEFINE d == Prompted!Steps(N)!CompleteCase(r)
           seen == Prompted!Steps(N)!StateSet(r.steps)
           v == CaseVerdict(r.errors, r.state, seen)
<1>1. r \in AskRow /\ b \in SUBSET (1..N) /\ r.steps \in [1..N -> TestState]
  BY DEF Fits, AskRow
<1>2. d = [r EXCEPT !.state = v]
  BY DEF Prompted!Steps!CompleteCase, Prompted!Steps!CaseCompleted, Prompted!Steps!CaseVerdict,
     CaseCompleted, CaseVerdict, RollUp, Prompted!Steps!RollUp
<1>3. v \in TestState
  BY <1>1 DEF CaseVerdict, RollUp, TestState, AskRow
<1>4. seen = {r.steps[i] : i \in 1..N}
  BY <1>1 DEF Prompted!Steps!StateSet
<1>5. v = "PASSED" => \A s \in {"FAILED", "ERROR", "PENDING", "CANCELLED"} : s \notin seen
  BY DEF CaseVerdict, RollUp
<1>6. ASSUME v = "PASSED", NEW i \in 1..N
      PROVE  r.steps[i] \notin {"FAILED", "ERROR", "PENDING", "CANCELLED"}
  BY <1>4, <1>5, <1>6
<1> HIDE DEF v, seen
<1>7. /\ d \in AskRow /\ d.steps = r.steps /\ d.index = r.index /\ d.failures = r.failures
      /\ d.state = v
  BY <1>1, <1>2, <1>3 DEF AskRow
<1> HIDE DEF d
<1>8. Fits(d, b)
  BY <1>7 DEF Fits
<1> QED
  BY <1>6, <1>7, <1>8 DEF d

(* An abort cancels the steps that are open, and what was said of the      *)
(* others stands.                                                          *)
LEMMA AskCancel ==
    ASSUME N \in Nat, NEW r, NEW b, Fits(r, b), r.state = "EXECUTING"
    PROVE  LET d == Prompted!Steps(N)!CancelCase(r)
           IN  /\ Fits(d, b) /\ d.index = r.index
               /\ (UploadCounts(r) => UploadCounts(d))
               /\ (d.state = "PASSED" => \A i \in 1..N :
                      d.steps[i] \notin {"FAILED", "ERROR", "PENDING", "EXECUTING"})
<1> DEFINE closed(i) == IF Completed(r.steps[i]) THEN r.steps[i] ELSE "CANCELLED"
           e == [r EXCEPT !.steps = [i \in 1..N |-> closed(i)]]
           d == Prompted!Steps(N)!CompleteCase(e)
<1>1. r \in AskRow /\ b \in SUBSET (1..N) /\ r.steps \in [1..N -> TestState]
  BY DEF Fits, AskRow
<1>2. Prompted!Steps(N)!CancelCase(r) = d
  BY DEF Prompted!Steps!CancelCase, Prompted!Steps!CaseCompleted, Prompted!Steps!CancelStep,
     Prompted!Steps!Completed, Prompted!Steps!StepIds, Completed
<1>3. \A i \in 1..N : /\ closed(i) \in TestState \ {"PENDING", "EXECUTING"}
                      /\ closed(i) = r.steps[i] \/ closed(i) = "CANCELLED"
                      /\ r.steps[i] \in {"FAILED", "ERROR", "NOT_APPLICABLE"} => closed(i) = r.steps[i]
  BY <1>1 DEF TestState, Completed
<1> HIDE DEF closed
<1>4. /\ e \in AskRow /\ e.state = r.state /\ e.index = r.index /\ e.failures = r.failures
      /\ e.steps = [i \in 1..N |-> closed(i)]
  BY <1>1, <1>3 DEF AskRow
<1> HIDE DEF e
<1>5. \A i \in 1..N : e.steps[i] = closed(i)
  BY <1>4
<1>6. Fits(e, b)
  <2>1. ASSUME NEW i \in b
        PROVE  i <= e.index /\ e.steps[i] \in {"FAILED", "ERROR", "NOT_APPLICABLE"}
    BY <1>1, <1>3, <1>4, <1>5 DEF Fits
  <2>2. ASSUME NEW i \in 1..N, i \in e.failures \/ e.steps[i] = "FAILED"
        PROVE  i \in b \/ Uploads(i)
    BY <1>3, <1>4, <1>5, <2>2 DEF Fits
  <2> QED
    BY <1>1, <1>4, <2>1, <2>2 DEF Fits
<1>7. /\ Fits(d, b) /\ d.steps = e.steps /\ d.index = e.index
      /\ (d.state = "PASSED" => \A i \in 1..N :
             e.steps[i] \notin {"FAILED", "ERROR", "PENDING", "CANCELLED"})
  BY <1>4, <1>6, AskEnds
<1> HIDE DEF d
<1>8. UploadCounts(r) => UploadCounts(d)
  BY <1>3, <1>5, <1>7 DEF UploadCounts
<1>9. d.state = "PASSED" => \A i \in 1..N :
         d.steps[i] \notin {"FAILED", "ERROR", "PENDING", "EXECUTING"}
  BY <1>3, <1>5, <1>7
<1> QED
  BY <1>2, <1>4, <1>7, <1>8, <1>9

(* The answer to a question about a manual step.                           *)
LEMMA AskJudged ==
    ASSUME N \in Nat, Fits(c, bad), InOrder(c), ~Uploads(c.index), UploadCounts(c),
           NEW response \in Prompted!Responses, ~Prompted!Unusable(response)
    PROVE  LET d == Prompted!Judged(response)
               b == IF Prompted!IsBad(response) THEN bad \cup {c.index} ELSE bad
           IN  /\ Fits(d, b) /\ InOrder(d) /\ UploadCounts(d)
               /\ d.state = c.state /\ d.index = c.index
<1> DEFINE d == Prompted!Judged(response)
           b == IF Prompted!IsBad(response) THEN bad \cup {c.index} ELSE bad
           r == IF response.cancelled THEN Prompted!Fail(c) ELSE c
           more == IF response.cancelled THEN {c.index} ELSE {}
           Fine(x, y) == /\ Fits(x, y) /\ InOrder(x) /\ UploadCounts(x)
                         /\ x.state = c.state /\ x.index = c.index
<1>1. Fine(r, bad \cup more)
  <2>1. CASE response.cancelled
    <3> DEFINE e == Prompted!Fail(c)
    <3>1. /\ Fits(e, bad \cup {c.index}) /\ (InOrder(c) => InOrder(e))
          /\ e.state = c.state /\ e.index = c.index /\ (UploadCounts(c) => UploadCounts(e))
      BY AskFail
    <3>2. r = e /\ more = {c.index}
      BY <2>1
    <3> HIDE DEF e, r, more
    <3> QED
      BY <3>1, <3>2
  <2>2. CASE ~response.cancelled
    BY <2>2
  <2> QED
    BY <2>1, <2>2
<1>2. response.answer \in {"PASS", "FAIL", "NOT_APPLICABLE"}
  BY DEF Prompted!Responses, Prompted!Unusable
<1>3. b = IF response.answer = "FAIL" THEN bad \cup {c.index} ELSE bad \cup more
  BY <1>2 DEF Prompted!IsBad
<1>4. d = CASE response.answer = "PASS" -> r
            [] response.answer = "FAIL" -> Prompted!Fail(r)
            [] response.answer = "NOT_APPLICABLE" -> Prompted!Skip(r)
  BY DEF Prompted!Judged
<1>5. more \subseteq {c.index}
  OBVIOUS
<1> HIDE DEF r, d, b, more
<1>6. CASE response.answer = "PASS"
  <2>1. d = r
    BY <1>4, <1>6
  <2> QED
    BY <1>1, <1>3, <1>6, <2>1 DEF d, b
<1>7. CASE response.answer = "FAIL"
  <2> DEFINE e == Prompted!Fail(r)
  <2>1. /\ Fits(e, (bad \cup more) \cup {c.index}) /\ (InOrder(r) => InOrder(e))
        /\ e.state = r.state /\ e.index = r.index /\ (UploadCounts(r) => UploadCounts(e))
    BY <1>1, AskFail
  <2>2. d = e
    BY <1>4, <1>7
  <2>3. b = (bad \cup more) \cup {c.index}
    BY <1>3, <1>5, <1>7
  <2> HIDE DEF e
  <2>4. Fine(d, b)
    BY <1>1, <2>1, <2>2, <2>3
  <2> QED
    BY <2>4 DEF d, b
<1>8. CASE response.answer = "NOT_APPLICABLE"
  <2> DEFINE e == Prompted!Skip(r)
  <2>1. /\ Fits(e, bad \cup more) /\ (InOrder(r) => InOrder(e))
        /\ e.state = r.state /\ e.index = r.index
        /\ (UploadCounts(r) /\ ~Uploads(r.index) => UploadCounts(e))
    BY <1>1, AskSkip
  <2>2. d = e
    BY <1>4, <1>8
  <2> HIDE DEF e
  <2>3. Fine(d, b)
    BY <1>1, <1>3, <1>8, <2>1, <2>2
  <2> QED
    BY <2>3 DEF d, b
<1> QED
  BY <1>2, <1>6, <1>7, <1>8

-----------------------------------------------------------------------------
(* The case goes on from pc to pc', where it has not ended yet: what       *)
(* AskInv asks of the new state.                                           *)
Moves ==
    /\ asking' = asking /\ file' = file
    /\ pc' \in Points \ {"setup", "done"} /\ position' \in Nat
    /\ Fits(c', bad') /\ InOrder(c') /\ c'.state = "EXECUTING"
    /\ At(pc', c', position')
    /\ pc' = "uploading" => Uploads(c'.index)
    /\ pc' = "cleanup" => c'.steps[c'.index] # "EXECUTING"
    /\ pc' = "cleanup" => c'.index = c.index
    /\ pc' # "cleanup" => pc \notin {"uploading", "cleanup", "done"}
    /\ UploadCounts(c') \/ (pc' = "cleanup" /\ file = "none")

(* Such a step keeps the invariant.                                        *)
LEMMA MovesKeeps == AskInv /\ Moves => AskInv'
<1> SUFFICES ASSUME AskInv, Moves
             PROVE  AskInv'
  OBVIOUS
<1> USE DEF Moves
<1>1. /\ N' = N /\ AskRow' = AskRow
      /\ \A i : Prompted!Kind(i)' = Prompted!Kind(i) /\ Uploads(i)' = Uploads(i)
  BY DEF N, AskRow, Prompted!StepCount, Uploads, Prompted!Kind
<1>2. AskTypes'
  <2>1. Fits(c, bad)'
    BY <1>1 DEF Fits
  <2> QED
    BY <1>1, <2>1 DEF AskInv, AskTypes
<1>3. InStep'
  <2>1. At(pc, c, position)'
    BY <1>1 DEF At
  <2> QED
    BY <2>1 DEF InStep
<1>4. FileFits'
  <2>1. UploadCounts(c)' \/ (pc' = "cleanup" /\ file' = "none")
    BY <1>1 DEF UploadCounts
  <2>2. pc' = "uploading" => Uploads(c.index)'
    BY <1>1
  <2>3. file' # "none" => pc' \in {"uploading", "cleanup", "done"}
    BY DEF AskInv, FileFits
  <2>4. file' \in {"log", "image"} => Uploads(c.index)'
    BY <1>1, <2>3 DEF AskInv, FileFits, Points
  <2> QED
    BY <2>1, <2>2, <2>3, <2>4 DEF FileFits
<1>5. Settles'
  <2>1. InOrder(c)'
    BY <1>1 DEF InOrder
  <2> QED
    BY <2>1 DEF Settles
<1> QED
  BY <1>2, <1>3, <1>4, <1>5 DEF AskInv

(* A case is created with no step begun.                                   *)
LEMMA AskInit == CaseInit => AskInv
<1> SUFFICES ASSUME CaseInit
             PROVE  AskInv
  OBVIOUS
<1>1. /\ asking \in Cases /\ pc = "setup" /\ position = 0 /\ file = "none" /\ bad = {}
      /\ c = [state |-> "EXECUTING", errors |-> FALSE, failures |-> {}, index |-> 1,
              steps |-> [i \in 1..N |-> "PENDING"]]
  BY DEF CaseInit, Prompted!Init, N, Prompted!StepCount
<1>2. N \in Nat /\ N > 0 /\ 1 \in 1..N
  BY <1>1, Form
<1>3. c.steps \in [1..N -> TestState] /\ \A i \in 1..N : c.steps[i] = "PENDING"
  BY <1>1 DEF TestState
<1>4. c \in AskRow /\ c.state = "EXECUTING" /\ c.index = 1 /\ c.failures = {}
  BY <1>1, <1>2, <1>3 DEF AskRow, TestState
<1>5. Fits(c, bad)
  BY <1>1, <1>3, <1>4 DEF Fits
<1>6. InOrder(c) /\ UploadCounts(c)
  BY <1>3 DEF InOrder, UploadCounts
<1>7. AskTypes
  BY <1>1, <1>5 DEF AskTypes, Points
<1>8. InStep
  BY <1>1, <1>4 DEF InStep, At, YamlPoints
<1>9. FileFits
  BY <1>1, <1>6 DEF FileFits
<1>10. Settles
  BY <1>1, <1>2, <1>3, <1>4, <1>6 DEF Settles
<1> QED
  BY <1>7, <1>8, <1>9, <1>10 DEF AskInv

(* What holds of the case in every state, by name.                         *)
LEMMA AskFacts ==
    ASSUME AskInv
    PROVE  /\ N \in Nat /\ N > 0 /\ c.index \in 1..N /\ bad \in SUBSET (1..N)
           /\ Fits(c, bad) /\ asking \in Cases /\ position \in Nat
           /\ pc # "done" => InOrder(c) /\ c.state = "EXECUTING"
           /\ pc \notin {"uploading", "cleanup", "done"} => file = "none"
           /\ pc \notin {"cleanup", "done"} => UploadCounts(c)
<1>1. N \in Nat /\ N > 0 /\ asking \in Cases
  BY Form DEF AskInv, AskTypes
<1>2. Fits(c, bad) /\ c.index \in 1..N /\ bad \in SUBSET (1..N) /\ position \in Nat
  BY DEF AskInv, AskTypes, Fits, AskRow
<1> QED
  BY <1>1, <1>2 DEF AskInv, Settles, FileFits

(* An exception leaves execute: the step gets the error.                   *)
LEMMA AskRaised ==
    ASSUME AskInv, NEW from \in {"asked", "uploading", "verifying", "start", "in step"},
           NEW blamed \in SUBSET {c.index}, Prompted!Raised(from, blamed),
           UNCHANGED <<position, file>>
    PROVE  Moves
<1> DEFINE d == [c EXCEPT !.steps[c.index] = "ERROR"]
<1>1. /\ pc = from /\ pc' = "cleanup" /\ c' = d /\ asking' = asking /\ bad' = bad \cup blamed
      /\ position' = position /\ file' = file
  BY DEF Prompted!Raised, Prompted!Goes
<1>2. pc \notin {"cleanup", "done"}
  BY <1>1
<1>3. /\ Fits(d, bad \cup blamed) /\ (InOrder(c) => InOrder(d))
      /\ d.state = c.state /\ d.index = c.index
      /\ (UploadCounts(c) => UploadCounts(d)) /\ d.steps[c.index] = "ERROR"
  BY AskFacts, AskError
<1> HIDE DEF d
<1>4. /\ Fits(d, bad \cup blamed) /\ InOrder(d) /\ d.state = "EXECUTING" /\ d.index = c.index
      /\ UploadCounts(d) /\ d.steps[d.index] # "EXECUTING" /\ position \in Nat
  BY <1>2, <1>3, AskFacts
<1> QED
  BY <1>1, <1>4 DEF Moves, Points, At, YamlPoints

(* The response to a question about a manual step.                         *)
LEMMA AskResponds ==
    ASSUME AskInv, NEW from, NEW to, NEW response \in Prompted!Responses,
           \/ from = "asked" /\ to = "next"
           \/ from = "verifying" /\ to = "run",
           Prompted!Respond(from, to, response)
    PROVE  Moves
<1>1. CASE Prompted!Unusable(response)
  <2>1. Prompted!Raised(from, {c.index}) /\ UNCHANGED <<position, file>>
    BY <1>1 DEF Prompted!Respond
  <2> QED
    BY <2>1, AskRaised
<1>2. CASE ~Prompted!Unusable(response)
  <2> DEFINE r == Prompted!Judged(response)
             b == IF Prompted!IsBad(response) THEN bad \cup {c.index} ELSE bad
             d == Prompted!Next1(r)
  <2>1. /\ pc = from /\ pc' = to /\ c' = d /\ asking' = asking /\ bad' = b
        /\ position' = position /\ file' = file
    BY <1>2 DEF Prompted!Respond, Prompted!Goes
  <2>2. pc \in {"asked", "verifying"}
    BY <2>1
  <2>3. Prompted!Kind(c.index) = "manual" /\ ~Uploads(c.index)
    BY <2>2 DEF AskInv, InStep, At, Uploads
  <2>4. Fits(r, b) /\ InOrder(r) /\ UploadCounts(r) /\ r.state = c.state /\ r.index = c.index
    BY <1>2, <2>2, <2>3, AskFacts, AskJudged
  <2> HIDE DEF r, b
  <2>5. /\ Fits(d, b) /\ InOrder(d) /\ d.state = r.state
        /\ d.index = (IF r.index < N THEN r.index + 1 ELSE r.index)
        /\ (UploadCounts(r) => UploadCounts(d))
    BY <2>4, AskFacts, AskNext
  <2> HIDE DEF d
  <2>6. /\ d.state = "EXECUTING" /\ UploadCounts(d) /\ position \in Nat
        /\ d.index = (IF c.index < N THEN c.index + 1 ELSE c.index)
    BY <2>2, <2>4, <2>5, AskFacts
  <2>7. At(to, d, position)
    <3>1. CASE to = "next"
      BY <3>1 DEF At, YamlPoints
    <3>2. CASE to = "run"
      <4>1. c.index = position + 1 /\ asking.kind # "manual"
        BY <2>1, <3>2 DEF AskInv, InStep, At, YamlPoints
      <4>2. N \in Nat /\ position \in Nat /\ c.index \in 1..N
        BY AskFacts
      <4>3. d.index = IF position + 2 <= N THEN position + 2 ELSE N
        BY <2>6, <4>1, <4>2
      <4> QED
        BY <3>2, <4>1, <4>3 DEF At
    <3> QED
      BY <3>1, <3>2
  <2>8. to \in Points \ {"setup", "done", "uploading", "cleanup"}
    BY DEF Points, YamlPoints
  <2> QED
    BY <2>1, <2>2, <2>5, <2>6, <2>7, <2>8 DEF Moves
<1> QED
  BY <1>1, <1>2

(* Where the case goes from pc to pc' with its next step, and nothing bad  *)
(* is said that was not.                                                   *)
LEMMA AskGoesOn ==
    ASSUME AskInv, pc \notin {"uploading", "cleanup", "done"},
           NEW r, NEW b, Fits(r, b), InOrder(r), UploadCounts(r), r.state = "EXECUTING",
           r.index = c.index, NEW to \in {"next", "run", "upload"},
           asking' = asking, file' = file, pc' = to, c' = Prompted!Next1(r), bad' = b,
           position' \in Nat,
           to = "run" => asking.kind # "manual",
           to = "run" => (IF c.index < N THEN c.index + 1 ELSE c.index)
                            = (IF position' + 2 <= N THEN position' + 2 ELSE N)
    PROVE  Moves
<1> DEFINE d == Prompted!Next1(r)
<1>1. /\ Fits(d, b) /\ InOrder(d) /\ d.state = r.state
      /\ d.index = (IF r.index < N THEN r.index + 1 ELSE r.index)
      /\ (UploadCounts(r) => UploadCounts(d))
  BY AskFacts, AskNext
<1>2. c' = d
  OBVIOUS
<1> HIDE DEF d
<1>3. At(to, d, position')
  BY <1>1 DEF At, YamlPoints
<1>4. to \in Points \ {"setup", "done", "uploading", "cleanup"}
  BY DEF Points, YamlPoints
<1> QED
  BY <1>1, <1>2, <1>3, <1>4 DEF Moves

(* The case ends: it keeps what was said of its steps.                     *)
Ends ==
    /\ asking' = asking /\ file' = file /\ position' = position /\ bad' = bad
    /\ pc' = "done" /\ c'.index = c.index /\ Fits(c', bad)
    /\ UploadCounts(c) => UploadCounts(c')
    /\ c'.state = "PASSED" => \A i \in 1..N :
          c'.steps[i] \notin {"FAILED", "ERROR", "PENDING", "EXECUTING"}

(* Such a step keeps the invariant.                                        *)
LEMMA EndsKeeps == AskInv /\ Ends => AskInv'
<1> SUFFICES ASSUME AskInv, Ends
             PROVE  AskInv'
  OBVIOUS
<1> USE DEF Ends
<1>1. /\ N' = N /\ AskRow' = AskRow
      /\ \A i : Prompted!Kind(i)' = Prompted!Kind(i) /\ Uploads(i)' = Uploads(i)
  BY DEF N, AskRow, Prompted!StepCount, Uploads, Prompted!Kind
<1>2. AskTypes'
  <2>1. Fits(c, bad)'
    BY <1>1 DEF Fits
  <2> QED
    BY <1>1, <2>1 DEF AskInv, AskTypes, Points
<1>3. InStep'
  BY DEF InStep, At, YamlPoints
<1>4. FileFits'
  <2>1. UploadCounts(c) => UploadCounts(c)'
    BY <1>1 DEF UploadCounts
  <2>2. UploadCounts(c) \/ file = "none"
    BY DEF AskInv, FileFits
  <2>3. file' \in {"log", "image"} => Uploads(c.index)'
    BY <1>1 DEF AskInv, FileFits
  <2> QED
    BY <2>1, <2>2, <2>3 DEF FileFits
<1>5. Settles'
  <2>1. ASSUME c'.state = "PASSED", NEW i \in bad'
        PROVE  c'.steps[i] = "NOT_APPLICABLE"
    <3>1. i \in 1..N /\ c'.steps[i] \in {"FAILED", "ERROR", "NOT_APPLICABLE"}
      BY <2>1 DEF Fits
    <3> QED
      BY <2>1, <3>1
  <2> QED
    BY <1>1, <2>1 DEF Settles
<1> QED
  BY <1>2, <1>3, <1>4, <1>5 DEF AskInv

(* Setup and cleanup, and an abort.                                        *)
LEMMA AskStarts ==
    ASSUME AskInv, Prompted!SetUp \/ Prompted!SetUpRaises
    PROVE  Moves
<1>1. /\ pc = "setup" /\ c.index = 1 /\ bad = {} /\ position = 0 /\ file = "none"
      /\ c.steps[c.index] # "EXECUTING"
      /\ asking' = asking /\ file' = file /\ position' = position /\ bad' = bad
  <2>1. pc = "setup"
    BY DEF Prompted!SetUp, Prompted!SetUpRaises, Prompted!Goes
  <2>2. file = "none"
    BY <2>1, AskFacts
  <2> QED
    BY <2>1, <2>2 DEF Prompted!SetUp, Prompted!SetUpRaises, Prompted!Goes, AskInv, InStep, Settles
<1>2. /\ N \in Nat /\ N > 0 /\ Fits(c, bad) /\ InOrder(c) /\ c.state = "EXECUTING" /\ UploadCounts(c)
  BY <1>1, AskFacts
<1>3. CASE Prompted!SetUp
  <2> DEFINE d == Prompted!Steps(N)!ExecuteStep(c, 1)
             to == IF asking.kind = "manual" THEN "next" ELSE "start"
  <2>1. c' = d /\ pc' = to
    BY <1>3 DEF Prompted!SetUp, Prompted!Goes, N
  <2>2. \A j \in 1..N : j # 1 => c.steps[j] # "EXECUTING"
    BY <1>1, <1>2 DEF InOrder
  <2>3. 1 \in 1..N /\ 1 \notin bad /\ c.index <= 1
    BY <1>1, <1>2
  <2>4. /\ Fits(d, bad) /\ InOrder(d) /\ d.state = c.state /\ d.index = 1
        /\ (UploadCounts(c) => UploadCounts(d))
    BY <1>2, <2>2, <2>3, AskEnter
  <2> HIDE DEF d
  <2>5. At(to, d, position)
    BY <1>1, <2>4 DEF At, YamlPoints
  <2>6. to \in Points \ {"setup", "done", "uploading", "cleanup"}
    BY DEF Points, YamlPoints
  <2> HIDE DEF to
  <2> QED
    BY <1>1, <1>2, <2>1, <2>4, <2>5, <2>6 DEF Moves
<1>4. CASE Prompted!SetUpRaises
  <2> DEFINE d == [c EXCEPT !.errors = TRUE]
  <2>1. c' = d /\ pc' = "cleanup"
    BY <1>4 DEF Prompted!SetUpRaises, Prompted!Goes, Prompted!Steps!RecordCaseError
  <2>2. c \in AskRow
    BY <1>2 DEF Fits
  <2>3. /\ d \in AskRow /\ d.state = c.state /\ d.index = c.index /\ d.steps = c.steps
        /\ d.failures = c.failures
    BY <2>2 DEF AskRow
  <2> HIDE DEF d
  <2>4. Fits(d, bad)
    BY <1>2, <2>3 DEF Fits
  <2>5. InOrder(d) /\ UploadCounts(d)
    BY <1>2, <2>3 DEF InOrder, UploadCounts
  <2> QED
    BY <1>1, <1>2, <2>1, <2>3, <2>4, <2>5 DEF Moves, Points, At, YamlPoints
<1> QED
  BY <1>3, <1>4

(* The cleanup completes the case, an abort cancels it.                    *)
LEMMA AskFinishes ==
    ASSUME AskInv, Prompted!CleanUp \/ Prompted!Abort
    PROVE  Ends
<1>1. CASE Prompted!CleanUp
  <2> DEFINE d == Prompted!Steps(N)!CompleteCase(c)
  <2>1. /\ pc = "cleanup" /\ pc' = "done" /\ c' = d
        /\ asking' = asking /\ file' = file /\ position' = position /\ bad' = bad
    BY <1>1 DEF Prompted!CleanUp, Prompted!Goes, N
  <2>2. c.steps[c.index] # "EXECUTING" /\ InOrder(c) /\ c.state = "EXECUTING"
    BY <2>1 DEF AskInv, Settles
  <2>3. \A i \in 1..N : c.steps[i] # "EXECUTING"
    BY <2>2 DEF InOrder
  <2>4. /\ Fits(d, bad) /\ d.steps = c.steps /\ d.index = c.index
        /\ (d.state = "PASSED" => \A i \in 1..N :
               c.steps[i] \notin {"FAILED", "ERROR", "PENDING", "CANCELLED"})
    BY <2>2, AskFacts, AskEnds
  <2> HIDE DEF d
  <2>5. UploadCounts(c) => UploadCounts(d)
    BY <2>4 DEF UploadCounts
  <2> QED
    BY <2>1, <2>3, <2>4, <2>5 DEF Ends
<1>2. CASE Prompted!Abort
  <2> DEFINE d == Prompted!Steps(N)!CancelCase(c)
  <2>1. /\ pc \in Prompted!Waiting /\ pc' = "done" /\ c' = d
        /\ asking' = asking /\ file' = file /\ position' = position /\ bad' = bad
    BY <1>2 DEF Prompted!Abort, N
  <2>2. c.state = "EXECUTING"
    BY <2>1, AskFacts DEF Prompted!Waiting
  <2>3. /\ Fits(d, bad) /\ d.index = c.index
        /\ (UploadCounts(c) => UploadCounts(d))
        /\ (d.state = "PASSED" => \A i \in 1..N :
               d.steps[i] \notin {"FAILED", "ERROR", "PENDING", "EXECUTING"})
    BY <2>2, AskFacts, AskCancel
  <2> HIDE DEF d
  <2> QED
    BY <2>1, <2>3 DEF Ends
<1> QED
  BY <1>1, <1>2

(* The steps of a manual case, and the upload.                             *)
LEMMA AskManual ==
    ASSUME AskInv, Prompted!PassOver \/ Prompted!Ask \/ Prompted!EndOfSteps \/ Prompted!AskForUpload
    PROVE  Moves
<1>1. /\ pc \in {"next", "upload"} /\ asking' = asking
      /\ file' = file /\ position' = position /\ bad' = bad
  BY DEF Prompted!PassOver, Prompted!Ask, Prompted!EndOfSteps, Prompted!AskForUpload, Prompted!Goes
<1>2. /\ Fits(c, bad) /\ InOrder(c) /\ c.state = "EXECUTING" /\ UploadCounts(c)
      /\ position \in Nat /\ pc \notin {"uploading", "cleanup", "done"}
  BY <1>1, AskFacts
<1>3. CASE Prompted!PassOver
  <2>1. c' = Prompted!Next1(c) /\ pc' = "next"
    BY <1>3 DEF Prompted!PassOver, Prompted!Goes
  <2> QED
    BY <1>1, <1>2, <2>1, AskGoesOn
<1>4. CASE Prompted!Ask \/ Prompted!EndOfSteps \/ Prompted!AskForUpload
  <2>1. /\ c' = c /\ pc' \in {"asked", "upload", "uploading"}
        /\ pc' = "asked" => Prompted!Kind(c.index) = "manual"
        /\ pc' = "uploading" => Uploads(c.index)
    BY <1>4 DEF Prompted!Ask, Prompted!EndOfSteps, Prompted!AskForUpload, Prompted!Goes, Uploads
  <2>2. At(pc', c', position')
    BY <2>1 DEF At, YamlPoints
  <2> QED
    BY <1>1, <1>2, <2>1, <2>2 DEF Moves, Points
<1> QED
  BY <1>3, <1>4

(* The end of the upload, asked for or not.                                *)
LEMMA AskUpload ==
    ASSUME AskInv, NEW status \in {"OKAY", "INVALID", "CANCELLED", "TIMEOUT"},
           Prompted!EndWithoutUpload \/ Prompted!UploadAnswered(status)
    PROVE  Moves
<1> DEFINE Closes(d, b) ==
             /\ pc' = "cleanup" /\ c' = d /\ bad' = b /\ asking' = asking
             /\ file' = file /\ position' = position
           Closed(d, b) ==
             /\ Fits(d, b) /\ (InOrder(c) => InOrder(d)) /\ d.state = c.state /\ d.index = c.index
             /\ d.steps[c.index] # "EXECUTING"
             /\ UploadCounts(d) \/ file = "none"
<1>1. pc \in {"upload", "uploading"}
  BY DEF Prompted!EndWithoutUpload, Prompted!UploadAnswered, Prompted!Raised, Prompted!Goes
<1>2. /\ Fits(c, bad) /\ InOrder(c) /\ c.state = "EXECUTING" /\ UploadCounts(c)
      /\ position \in Nat /\ N \in Nat
  BY <1>1, AskFacts
<1>3. ASSUME NEW d, NEW b, Closes(d, b), Closed(d, b)
      PROVE  Moves
  BY <1>2, <1>3 DEF Moves, Points, At, YamlPoints
<1>4. Closed(Prompted!CompleteCurrent(c), bad)
  <2> DEFINE d == Prompted!CompleteCurrent(c)
  <2>1. /\ Fits(d, bad) /\ (InOrder(c) => InOrder(d)) /\ d.state = c.state /\ d.index = c.index
        /\ (UploadCounts(c) => UploadCounts(d)) /\ d.steps[c.index] # "EXECUTING"
    BY <1>2, AskComplete
  <2> HIDE DEF d
  <2>2. Closed(d, bad)
    BY <1>2, <2>1
  <2> QED
    BY <2>2 DEF d
<1>5. CASE Prompted!EndWithoutUpload
  <2>1. pc = "upload"
    BY <1>5 DEF Prompted!EndWithoutUpload, Prompted!Goes
  <2>2. file = "none"
    BY <2>1, AskFacts
  <2>3. Closes(IF Prompted!Kind(c.index) = "upload" THEN Prompted!Skip(c)
               ELSE Prompted!CompleteCurrent(c), bad)
    BY <1>5 DEF Prompted!EndWithoutUpload, Prompted!Goes
  <2>4. CASE Prompted!Kind(c.index) = "upload"
    <3> DEFINE d == Prompted!Skip(c)
    <3>1. /\ Fits(d, bad) /\ (InOrder(c) => InOrder(d)) /\ d.state = c.state /\ d.index = c.index
          /\ d.steps[c.index] = "NOT_APPLICABLE"
      BY <1>2, AskSkip
    <3>2. Closes(d, bad)
      BY <2>3, <2>4
    <3> HIDE DEF d
    <3> QED
      BY <1>3, <2>2, <3>1, <3>2
  <2>5. CASE Prompted!Kind(c.index) # "upload"
    <3>1. Closes(Prompted!CompleteCurrent(c), bad)
      BY <2>3, <2>5
    <3> QED
      BY <1>3, <1>4, <3>1
  <2> QED
    BY <2>4, <2>5
<1>6. CASE Prompted!UploadAnswered(status)
  <2>1. CASE status = "TIMEOUT"
    <3>1. Prompted!Raised("uploading", {c.index}) /\ UNCHANGED <<position, file>>
      BY <1>6, <2>1 DEF Prompted!UploadAnswered
    <3> QED
      BY <3>1, AskRaised
  <2>2. CASE status = "CANCELLED"
    <3> DEFINE d == Prompted!Fail(c)
    <3>1. Closes(d, bad \cup {c.index})
      BY <1>6, <2>2 DEF Prompted!UploadAnswered, Prompted!Goes
    <3>2. /\ Fits(d, bad \cup {c.index}) /\ (InOrder(c) => InOrder(d))
          /\ d.state = c.state /\ d.index = c.index
          /\ (UploadCounts(c) => UploadCounts(d)) /\ d.steps[c.index] = "FAILED"
      BY <1>2, AskFail
    <3> HIDE DEF d
    <3> QED
      BY <1>2, <1>3, <3>1, <3>2
  <2>3. CASE status \in {"OKAY", "INVALID"}
    <3>1. Closes(Prompted!CompleteCurrent(c), bad)
      BY <1>6, <2>3 DEF Prompted!UploadAnswered, Prompted!Goes
    <3> QED
      BY <1>3, <1>4, <3>1
  <2> QED
    BY <2>1, <2>2, <2>3
<1> QED
  BY <1>5, <1>6

(* A file that comes fails the step of the upload, or changes nothing.     *)
LEMMA AskFile ==
    ASSUME AskInv, Prompted!SendFile \/ Prompted!HandleUploadedFile
    PROVE  AskInv'
<1>1. /\ N' = N /\ AskRow' = AskRow /\ asking' = asking /\ pc' = pc /\ position' = position
      /\ \A i : Prompted!Kind(i)' = Prompted!Kind(i) /\ Uploads(i)' = Uploads(i)
  BY DEF N, AskRow, Prompted!StepCount, Uploads, Prompted!Kind, Prompted!SendFile,
     Prompted!HandleUploadedFile
<1>2. /\ Fits(c, bad) /\ asking \in Cases /\ position \in Nat /\ pc \in Points
      /\ N \in Nat /\ c.index \in 1..N
  BY AskFacts DEF AskInv, AskTypes
<1>3. ASSUME file' \in {"log", "image", "handled"}, pc \in {"uploading", "cleanup", "done"},
             Fits(c', bad'), c'.state = c.state, c'.index = c.index,
             Uploads(c.index), UploadCounts(c'), InOrder(c) => InOrder(c'),
             pc = "cleanup" => c'.steps[c.index] # "EXECUTING",
             pc = "done" /\ c.state = "PASSED" =>
                /\ \A i \in bad' : c'.steps[i] = "NOT_APPLICABLE"
                /\ \A i \in 1..N : c'.steps[i] \notin {"PENDING", "EXECUTING"}
      PROVE  AskInv'
  <2>1. Fits(c, bad)' /\ UploadCounts(c)' /\ (InOrder(c) => InOrder(c)')
    BY <1>1, <1>3 DEF Fits, UploadCounts, InOrder
  <2>2. AskTypes'
    BY <1>1, <1>2, <1>3, <2>1 DEF AskTypes
  <2>3. InStep'
    BY <1>1, <1>3 DEF InStep, At, YamlPoints
  <2>4. FileFits'
    BY <1>1, <1>3, <2>1 DEF FileFits
  <2>5. Settles'
    BY <1>1, <1>3, <2>1 DEF Settles, AskInv
  <2> QED
    BY <2>2, <2>3, <2>4, <2>5 DEF AskInv
<1>4. CASE Prompted!SendFile
  <2>1. pc = "uploading" /\ c' = c /\ bad' = bad /\ file' \in {"log", "image"}
    BY <1>4 DEF Prompted!SendFile
  <2>2. Uploads(c.index) /\ UploadCounts(c)
    BY <2>1, AskFacts DEF AskInv, FileFits
  <2> QED
    BY <1>2, <1>3, <2>1, <2>2
<1>5. CASE Prompted!HandleUploadedFile
  <2>1. file \in {"log", "image"} /\ file' = "handled"
    BY <1>5 DEF Prompted!HandleUploadedFile
  <2>2. Uploads(c.index) /\ UploadCounts(c) /\ pc \in {"uploading", "cleanup", "done"}
    BY <2>1 DEF AskInv, FileFits
  <2>3. CASE file = "image"
    <3> DEFINE d == Prompted!Fail(c)
               more == IF pc = "uploading" THEN {c.index} ELSE {}
    <3>1. c' = d /\ bad' = bad \cup more
      BY <1>5, <2>3 DEF Prompted!HandleUploadedFile
    <3>2. more \in SUBSET {c.index} /\ (pc # "uploading" => more = {})
      OBVIOUS
    <3> HIDE DEF more
    <3>3. /\ Fits(d, bad \cup more) /\ (InOrder(c) => InOrder(d))
          /\ d.state = c.state /\ d.index = c.index
          /\ (UploadCounts(c) => UploadCounts(d)) /\ d.steps[c.index] = "FAILED"
      BY <1>2, <2>2, <3>2, AskFail
    <3>4. \A i \in 1..N : i # c.index => d.steps[i] = c.steps[i]
      BY <1>2, <2>2, <3>2, AskFail
    <3> HIDE DEF d
    <3>5. ASSUME pc = "done", c.state = "PASSED"
          PROVE  /\ \A i \in bad' : c'.steps[i] = "NOT_APPLICABLE"
                 /\ \A i \in 1..N : c'.steps[i] \notin {"PENDING", "EXECUTING"}
      <4>1. /\ \A i \in bad : c.steps[i] = "NOT_APPLICABLE"
            /\ \A i \in 1..N : c.steps[i] \notin {"PENDING", "EXECUTING"}
        BY <3>5 DEF AskInv, Settles
      <4>2. bad' = bad /\ bad \in SUBSET (1..N)
        BY <3>1, <3>2, <3>5, AskFacts
      <4>3. c.index \notin bad
        BY <1>2, <2>2, <4>1 DEF UploadCounts
      <4>4. \A i \in bad' : c'.steps[i] = "NOT_APPLICABLE"
        BY <3>1, <3>4, <4>1, <4>2, <4>3
      <4>5. \A i \in 1..N : c'.steps[i] \notin {"PENDING", "EXECUTING"}
        BY <3>1, <3>3, <3>4, <4>1
      <4> QED
        BY <4>4, <4>5
    <3> QED
      BY <1>3, <2>1, <2>2, <3>1, <3>3, <3>5
  <2>4. CASE file # "image"
    <3>1. c' = c /\ bad' = bad
      BY <1>5, <2>4 DEF Prompted!HandleUploadedFile
    <3>2. pc = "cleanup" => c.steps[c.index] # "EXECUTING"
      BY DEF AskInv, Settles
    <3>3. pc = "done" /\ c.state = "PASSED" =>
             /\ \A i \in bad : c.steps[i] = "NOT_APPLICABLE"
             /\ \A i \in 1..N : c.steps[i] \notin {"PENDING", "EXECUTING"}
      BY DEF AskInv, Settles
    <3> QED
      BY <1>2, <1>3, <2>1, <2>2, <3>1, <3>2, <3>3
  <2> QED
    BY <2>3, <2>4
<1> QED
  BY <1>4, <1>5

(* The hooks that do not go on to the next step.                           *)
LEMMA AskHooks ==
    ASSUME AskInv, \/ Prompted!ParsingFails \/ Prompted!StepStart \/ Prompted!StepManual
                   \/ Prompted!RunnerRaises \/ Prompted!TestStop
    PROVE  Moves
<1>1. /\ Fits(c, bad) /\ position \in Nat /\ N \in Nat
      /\ pc \in YamlPoints => InOrder(c) /\ c.state = "EXECUTING" /\ UploadCounts(c)
  BY AskFacts DEF YamlPoints
<1>2. CASE Prompted!RunnerRaises
  <2>1. PICK from \in {"start", "in step"} : Prompted!Raised(from, {})
    BY <1>2 DEF Prompted!RunnerRaises
  <2>2. UNCHANGED <<position, file>>
    BY <1>2 DEF Prompted!RunnerRaises
  <2> QED
    BY <2>1, <2>2, AskRaised
<1>3. CASE Prompted!StepStart
  <2>1. /\ pc = "run" /\ pc' = "in step" /\ c' = c /\ bad' = bad /\ asking' = asking
        /\ file' = file /\ position' = position + 1 /\ position < Prompted!TestLength
    BY <1>3 DEF Prompted!StepStart, Prompted!Goes
  <2>2. /\ asking.kind # "manual"
        /\ c.index = IF position + 2 <= N THEN position + 2 ELSE N
    BY <2>1 DEF AskInv, InStep, At, YamlPoints
  <2>3. Prompted!TestLength \in Nat /\ Prompted!TestLength < N
    BY <2>2, AskFacts, Form
  <2>4. c.index = position' + 1 /\ position' \in Nat
    <3>1. position \in Nat /\ N \in Nat
      BY <1>1
    <3>2. position < Prompted!TestLength /\ position' = position + 1
      BY <2>1
    <3>3. position + 2 <= N
      BY <2>3, <3>1, <3>2
    <3>4. c.index = position + 2
      BY <2>2, <3>3
    <3> QED
      BY <3>1, <3>2, <3>4
  <2>5. At(pc', c', position')
    BY <2>1, <2>2, <2>4 DEF At
  <2> QED
    BY <1>1, <2>1, <2>4, <2>5 DEF Moves, Points, YamlPoints
<1>4. CASE Prompted!StepManual
  <2>1. /\ pc = "in step" /\ pc' = "verifying" /\ c' = c /\ bad' = bad /\ asking' = asking
        /\ file' = file /\ position' = position /\ Prompted!Kind(c.index) = "manual"
    BY <1>4 DEF Prompted!StepManual, Prompted!Goes
  <2>2. At(pc', c', position')
    BY <2>1 DEF AskInv, InStep, At, YamlPoints
  <2> QED
    BY <1>1, <2>1, <2>2 DEF Moves, Points, YamlPoints
<1>5. CASE Prompted!ParsingFails
  <2> DEFINE d == [c EXCEPT !.steps[c.index] = "ERROR"]
  <2>1. /\ pc = "start" /\ pc' = "stopped" /\ c' = d /\ bad' = bad /\ asking' = asking
        /\ file' = file /\ position' = position
    BY <1>5 DEF Prompted!ParsingFails, Prompted!Goes
  <2>2. /\ Fits(d, bad \cup {}) /\ (InOrder(c) => InOrder(d))
        /\ d.state = c.state /\ d.index = c.index /\ (UploadCounts(c) => UploadCounts(d))
    BY <1>1, AskError
  <2> HIDE DEF d
  <2>3. At(pc', c', position')
    BY <2>1 DEF AskInv, InStep, At, YamlPoints
  <2> QED
    BY <1>1, <2>1, <2>2, <2>3 DEF Moves, Points, YamlPoints
<1>6. CASE Prompted!TestStop
  <2> DEFINE d == Prompted!CompleteCurrent(c)
  <2>1. /\ pc = "run" /\ pc' = "stopped" /\ c' = d /\ bad' = bad /\ asking' = asking
        /\ file' = file /\ position' = position
    BY <1>6 DEF Prompted!TestStop, Prompted!Goes
  <2>2. /\ Fits(d, bad) /\ (InOrder(c) => InOrder(d))
        /\ d.state = c.state /\ d.index = c.index /\ (UploadCounts(c) => UploadCounts(d))
    BY <1>1, AskComplete
  <2> HIDE DEF d
  <2>3. At(pc', c', position')
    BY <2>1 DEF AskInv, InStep, At, YamlPoints
  <2> QED
    BY <1>1, <2>1, <2>2, <2>3 DEF Moves, Points, YamlPoints
<1> QED
  BY <1>2, <1>3, <1>4, <1>5, <1>6

(* The hooks that end a step of the test, and those around the test.       *)
LEMMA AskSteps ==
    ASSUME AskInv, \/ Prompted!TestStart \/ Prompted!StepSuccess \/ Prompted!StepFailure
                   \/ Prompted!StepSkipped \/ Prompted!OuterTimeout
    PROVE  Moves
<1>1. /\ pc \in {"start", "in step", "run", "verifying"} /\ pc' = "run"
      /\ asking' = asking /\ file' = file
      /\ IF pc = "run" THEN position < Prompted!TestLength /\ position' = position + 1
         ELSE position' = position
  BY DEF Prompted!TestStart, Prompted!StepSuccess, Prompted!StepFailure, Prompted!StepSkipped,
     Prompted!OuterTimeout, Prompted!Goes
<1>2. /\ Fits(c, bad) /\ position \in Nat /\ N \in Nat /\ N > 0 /\ InOrder(c)
      /\ c.state = "EXECUTING" /\ UploadCounts(c) /\ c.index \in 1..N /\ asking \in Cases
      /\ pc \notin {"uploading", "cleanup", "done"}
  BY <1>1, AskFacts
<1>3. /\ asking.kind # "manual"
      /\ pc = "start" => c.index = 1 /\ position = 0
      /\ pc = "run" => c.index = IF position + 2 <= N THEN position + 2 ELSE N
      /\ pc \in {"in step", "verifying"} => c.index = position + 1
  BY <1>1 DEF AskInv, InStep, At, YamlPoints
<1>4. /\ Prompted!TestLength \in Nat /\ Prompted!TestLength < N
      /\ \A i \in 1..N : i <= Prompted!TestLength + 1 => ~Uploads(i)
  BY <1>2, <1>3, Form
<1>5. pc = "run" => c.index = position + 2 /\ c.index <= Prompted!TestLength + 1
  BY <1>1, <1>2, <1>3, <1>4
<1>6. /\ position' \in Nat
      /\ (IF c.index < N THEN c.index + 1 ELSE c.index)
           = (IF position' + 2 <= N THEN position' + 2 ELSE N)
  <2>1. CASE pc = "run"
    <3>1. c.index = position + 2 /\ position' = position + 1
      BY <1>1, <1>5, <2>1
    <3> QED
      BY <1>2, <3>1
  <2>2. CASE pc # "run"
    <3>1. position' = position
      BY <1>1, <2>2
    <3>2. pc = "start" \/ pc \in {"in step", "verifying"}
      BY <1>1, <2>2
    <3>3. c.index = position + 1
      <4>1. (pc = "start" => c.index = 1 /\ position = 0)
            /\ (pc \in {"in step", "verifying"} => c.index = position + 1)
        BY <1>3
      <4>2. CASE pc = "start"
        BY <4>1, <4>2
      <4>3. CASE pc \in {"in step", "verifying"}
        BY <4>1, <4>3
      <4> QED
        BY <3>2, <4>2, <4>3
    <3> QED
      BY <1>2, <3>1, <3>3
  <2> QED
    BY <2>1, <2>2
<1>7. ASSUME NEW r, NEW b, Fits(r, b), InOrder(r), UploadCounts(r), r.state = c.state,
             r.index = c.index, c' = Prompted!Next1(r), bad' = b
      PROVE  Moves
  <2>1. r.state = "EXECUTING"
    BY <1>2, <1>7
  <2> QED
    BY <1>1, <1>2, <1>3, <1>6, <1>7, <2>1, AskGoesOn
<1>8. CASE Prompted!TestStart \/ Prompted!StepSuccess
  <2>1. c' = Prompted!Next1(c) /\ bad' = bad
    BY <1>8 DEF Prompted!TestStart, Prompted!StepSuccess, Prompted!Goes
  <2> QED
    BY <1>2, <1>7, <2>1
<1>9. CASE Prompted!StepFailure \/ Prompted!OuterTimeout
  <2> DEFINE r == Prompted!Fail(c)
  <2>1. c' = Prompted!Next1(r)
    BY <1>9 DEF Prompted!StepFailure, Prompted!OuterTimeout, Prompted!Goes
  <2>2. bad' = bad \cup {c.index}
    BY <1>3, <1>9 DEF Prompted!StepFailure, Prompted!OuterTimeout, Prompted!Goes
  <2>3. /\ Fits(r, bad \cup {c.index}) /\ (InOrder(c) => InOrder(r))
        /\ r.state = c.state /\ r.index = c.index /\ (UploadCounts(c) => UploadCounts(r))
    BY <1>2, AskFail
  <2> HIDE DEF r
  <2> QED
    BY <1>2, <1>7, <2>1, <2>2, <2>3
<1>10. CASE Prompted!StepSkipped
  <2> DEFINE r == Prompted!Skip(c)
  <2>1. c' = Prompted!Next1(r) /\ bad' = bad /\ pc = "run"
    BY <1>10 DEF Prompted!StepSkipped, Prompted!Goes
  <2>2. ~Uploads(c.index)
    BY <1>2, <1>4, <1>5, <2>1
  <2>3. /\ Fits(r, bad) /\ (InOrder(c) => InOrder(r)) /\ r.state = c.state /\ r.index = c.index
        /\ (UploadCounts(c) /\ ~Uploads(c.index) => UploadCounts(r))
    BY <1>2, AskSkip
  <2> HIDE DEF r
  <2> QED
    BY <1>2, <1>7, <2>1, <2>2, <2>3
<1> QED
  BY <1>8, <1>9, <1>10

(* The run of the test has returned.                                       *)
LEMMA AskReturns ==
    ASSUME AskInv, Prompted!RunTestReturns
    PROVE  Moves
<1>1. /\ pc = "stopped" /\ asking' = asking /\ file' = file /\ position' = position /\ bad' = bad
      /\ pc' = IF asking.kind = "semi" THEN "upload" ELSE "cleanup"
      /\ c' = IF asking.kind = "semi" THEN Prompted!Next1(c) ELSE Prompted!CompleteCurrent(c)
  BY DEF Prompted!RunTestReturns, Prompted!Goes
<1>2. /\ Fits(c, bad) /\ position \in Nat /\ N \in Nat /\ InOrder(c)
      /\ c.state = "EXECUTING" /\ UploadCounts(c)
      /\ pc \notin {"uploading", "cleanup", "done"}
  BY <1>1, AskFacts
<1>3. CASE asking.kind = "semi"
  BY <1>1, <1>2, <1>3, AskGoesOn
<1>4. CASE asking.kind # "semi"
  <2> DEFINE d == Prompted!CompleteCurrent(c)
  <2>1. /\ Fits(d, bad) /\ (InOrder(c) => InOrder(d)) /\ d.state = c.state /\ d.index = c.index
        /\ (UploadCounts(c) => UploadCounts(d)) /\ d.steps[c.index] # "EXECUTING"
    BY <1>2, AskComplete
  <2>2. c' = d /\ pc' = "cleanup"
    BY <1>1, <1>4
  <2> HIDE DEF d
  <2>3. At(pc', c', position')
    BY <2>2 DEF At, YamlPoints
  <2> QED
    BY <1>1, <1>2, <2>1, <2>2, <2>3 DEF Moves, Points
<1> QED
  BY <1>3, <1>4

(* Nothing but a prompt for the controller changes, or nothing at all.     *)
LEMMA AskSame ==
    AskInv /\ UNCHANGED <<asking, c, pc, position, file, bad>> => AskInv'
<1> SUFFICES ASSUME AskInv, UNCHANGED <<asking, c, pc, position, file, bad>>
             PROVE  AskInv'
  OBVIOUS
<1>1. /\ N' = N /\ AskRow' = AskRow
      /\ \A i : Prompted!Kind(i)' = Prompted!Kind(i) /\ Uploads(i)' = Uploads(i)
  BY DEF N, AskRow, Prompted!StepCount, Uploads, Prompted!Kind
<1>2. Fits(c, bad)' = Fits(c, bad) /\ InOrder(c)' = InOrder(c) /\ UploadCounts(c)' = UploadCounts(c)
  BY <1>1 DEF Fits, InOrder, UploadCounts
<1>3. AskTypes'
  BY <1>2 DEF AskInv, AskTypes
<1>4. InStep'
  BY <1>1 DEF AskInv, InStep, At
<1>5. FileFits'
  BY <1>1, <1>2 DEF AskInv, FileFits
<1>6. Settles'
  BY <1>1, <1>2 DEF AskInv, Settles
<1> QED
  BY <1>3, <1>4, <1>5, <1>6 DEF AskInv

(* Every step of a case keeps the invariant.                               *)
LEMMA AskStep == AskInv /\ [CaseNext]_allVars => AskInv'
<1> SUFFICES ASSUME AskInv, [CaseNext]_allVars
             PROVE  AskInv'
  OBVIOUS
<1>1. CASE Moves \/ Ends
  BY <1>1, MovesKeeps, EndsKeeps
<1>2. CASE UNCHANGED promptedVars
  BY <1>2, AskSame DEF promptedVars
<1>3. CASE Prompted!Next
  <2>1. ASSUME NEW response \in Prompted!Responses,
               Prompted!Answer(response) \/ Prompted!Verified(response)
        PROVE  Moves
    BY <2>1, AskResponds DEF Prompted!Answer, Prompted!Verified
  <2>2. CASE Prompted!Timers
    <3>1. Prompted!TimedOut \in Prompted!Responses
      BY DEF Prompted!TimedOut, Prompted!Responses
    <3>2. CASE Prompted!OuterTimeout
      BY <1>1, <3>2, AskSteps
    <3>3. CASE Prompted!UploadAnswered("TIMEOUT")
      BY <1>1, <3>3, AskUpload
    <3> QED
      BY <1>1, <2>1, <2>2, <3>1, <3>2, <3>3 DEF Prompted!Timers
  <2>3. CASE Prompted!Engine
    <3>1. CASE Prompted!EndWithoutUpload
      BY <1>1, <3>1, AskUpload
    <3> QED
      BY <1>1, <2>3, <3>1, AskStarts, AskFinishes, AskManual, AskHooks, AskSteps, AskReturns
         DEF Prompted!Engine
  <2>4. CASE Prompted!Operator
    <3>1. CASE \E status \in {"OKAY", "INVALID", "CANCELLED"} : Prompted!UploadAnswered(status)
      BY <1>1, <3>1, AskUpload
    <3> QED
      BY <1>1, <2>1, <2>4, <3>1, AskFinishes, AskFile DEF Prompted!Operator
  <2>5. CASE \E i \in 1..Prompted!StepCount : Prompted!PromptForAction(i) \/ Prompted!ActionPromptEnds(i)
    BY <2>5, AskSame DEF Prompted!PromptForAction, Prompted!ActionPromptEnds
  <2> QED
    BY <1>3, <2>2, <2>3, <2>4, <2>5 DEF Prompted!Next
<1> QED
  BY <1>2, <1>3 DEF CaseNext, InPython, InPrompted, allVars

(* What the operator or the test says of a step is said of that step, and  *)
(* a case passes only if nothing bad was said that was not taken back, and *)
(* with no step left open (ManualTestCase.execute, the hooks of ChipTest). *)
THEOREM BlameIsTheStepsOwn == CaseSpec => []BlameIsRight
<1>1. AskInv => BlameIsRight
  BY DEF AskInv, AskTypes, Settles, Fits, BlameIsRight, Prompted!BlameIsRight, N, Uploads
<1>2. CaseSpec => []AskInv
  BY AskInit, AskStep, PTL DEF CaseSpec
<1> QED
  BY <1>1, <1>2, PTL
=============================================================================
