----------------------------- MODULE TestEngine -----------------------------
(***************************************************************************)
(* What the test engine promises its clients: it works on one test run at  *)
(* a time, from loading it to recording its results; it lets go of a run   *)
(* that executed only when its results are recorded, or are lost by an     *)
(* exception; and a run whose results are final is never taken again.  The *)
(* promise ends when requests race, until the next restart.                *)
(***************************************************************************)
EXTENDS Naturals

CONSTANTS Runs, NoRun

VARIABLES
    state,    \* "IDLE", "LOADING", "READY" or "RUNNING"
    current,  \* the run the engine works on
    row,      \* run -> "pending", "unfinished", "final", "deleted" or "dropped"
    outcome,  \* results of the current run: "none", "recorded" or "lost"
    restarts, \* restarts of the server
    disturbed \* requests have raced since the last restart

vars == <<state, current, row, outcome, restarts, disturbed>>

Init ==
    /\ state = "IDLE"
    /\ current = NoRun
    /\ row = [r \in Runs |-> "pending"]
    /\ outcome = "none"
    /\ restarts = 0
    /\ disturbed = FALSE

Claim ==
    /\ state = "IDLE"
    /\ state' = "LOADING"
    /\ UNCHANGED <<current, row, outcome>>

\* A run with final results is not taken.
Take(r) ==
    /\ state = "LOADING"
    /\ current = NoRun
    /\ row[r] # "final"
    /\ current' = r
    /\ UNCHANGED <<state, row, outcome>>

Refuse ==
    /\ state = "LOADING"
    /\ current = NoRun
    /\ state' = "IDLE"
    /\ UNCHANGED <<current, row, outcome>>

Loaded ==
    /\ state = "LOADING"
    /\ current # NoRun
    /\ state' = "READY"
    /\ UNCHANGED <<current, row, outcome>>

\* A run that does not execute yet is aborted.
Discard ==
    /\ state = "READY"
    /\ state' = "IDLE"
    /\ current' = NoRun
    /\ UNCHANGED <<row, outcome>>

Execute ==
    /\ state = "READY"
    /\ state' = "RUNNING"
    /\ UNCHANGED <<current, row, outcome>>

\* The only step that records results, of the run that executed.
Record ==
    /\ state = "RUNNING"
    /\ outcome = "none"
    /\ row[current] # "final"
    /\ outcome' = "recorded"
    /\ IF row[current] = "dropped"
       THEN UNCHANGED row
       ELSE \E verdict \in {"final", "unfinished"} : row' = [row EXCEPT ![current] = verdict]
    /\ UNCHANGED <<state, current>>

Lose ==
    /\ state = "RUNNING"
    /\ outcome = "none"
    /\ outcome' = "lost"
    /\ UNCHANGED <<state, current, row>>

Release ==
    /\ state = "RUNNING"
    /\ outcome # "none"
    /\ state' = "IDLE"
    /\ current' = NoRun
    /\ outcome' = "none"
    /\ UNCHANGED row

Remove(r) ==
    /\ r # current
    /\ row' = [row EXCEPT ![r] = "deleted"]
    /\ UNCHANGED <<state, current, outcome>>

\* The project of some runs is deleted, whichever they are.
Drop(R) ==
    /\ row' = [r \in Runs |-> IF r \in R THEN "dropped" ELSE row[r]]
    /\ UNCHANGED <<state, current, outcome>>

Work ==
    \/ Claim \/ Refuse \/ Loaded \/ Discard \/ Execute \/ Record \/ Lose \/ Release
    \/ \E r \in Runs : Take(r) \/ Remove(r)
    \/ \E R \in SUBSET Runs : Drop(R)

\* A restart lets go of the run too, and loses what was not recorded.
Restart ==
    /\ state' = "IDLE"
    /\ current' = NoRun
    /\ outcome' = "none"
    /\ restarts' = restarts + 1
    /\ disturbed' = FALSE
    /\ UNCHANGED row

Next ==
    \/ ~disturbed /\ Work /\ UNCHANGED <<restarts, disturbed>>
    \/ Restart
    \/ disturbed' = TRUE

Spec == Init /\ [][Next]_vars
=============================================================================
