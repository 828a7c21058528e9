----------------------------- MODULE TestCases ------------------------------
(***************************************************************************)
(* A test case of the SDK: a python one with its harness, or one that asks *)
(* the operator.  A run executes one at a time, and it is chosen at the    *)
(* start which; the variables of the other stay as they are.               *)
(***************************************************************************)
EXTENDS HarnessTest

CONSTANT Cases   \* the cases that ask the operator, see PromptedCase

VARIABLES
    python,   \* the case that runs is a python one
    asking, c, pc, position, scheduled, shown, current, file, bad, aborted

Prompted == INSTANCE PromptedCase WITH case <- asking

\* The steps the cases are created with.
ASSUME CasesAssumption == \A small \in Cases : Prompted!WellFormed(small)

promptedVars == <<asking, c, pc, position, scheduled, shown, current, file, bad, aborted>>
allVars == <<python, vars, promptedVars>>

CaseInit ==
    /\ python \in BOOLEAN
    /\ Init
    /\ Prompted!Init
    /\ python => asking = CHOOSE small \in Cases : TRUE

InPython(A) == python /\ A /\ UNCHANGED <<python, promptedVars>>
InPrompted(A) == ~python /\ A /\ UNCHANGED <<python, vars>>

CaseNext == InPython(Next) \/ InPrompted(Prompted!Next)

CaseSpec ==
    /\ CaseInit
    /\ [][CaseNext]_allVars
    /\ WF_allVars(InPython(Execute)) /\ WF_allVars(InPython(Script))
    /\ WF_allVars(InPrompted(Prompted!Engine)) /\ WF_allVars(InPrompted(Prompted!Timers))

\* What PromptedCase says of the verdicts of a case that asks the operator.
BlameIsRight == ~python => Prompted!BlameIsRight

\* Every case ends, of whichever kind, though an operator may never answer:
\* a python one unless its harness dies or waits for input (ExecuteEnds), one
\* that asks by the timeouts of its prompts.
EveryCaseEnds ==
    /\ python => ExecuteEnds
    /\ ~python => Prompted!CaseEnds
=============================================================================
