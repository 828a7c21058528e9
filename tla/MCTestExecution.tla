-------------------------- MODULE MCTestExecution ---------------------------
(***************************************************************************)
(* Test plans small enough for TLC.  FourSuites: two cases, one case, no   *)
(* case, one case; OneThenOne: two suites of one case.                     *)
(***************************************************************************)
EXTENDS TestExecution

FourSuites == <<2, 1, 0, 1>>
OneThenOne == <<1, 1>>
=============================================================================
