---------------------------- MODULE MCTestRunner ----------------------------
(***************************************************************************)
(* Values for model checking TestRunner.                                   *)
(***************************************************************************)
EXTENDS TestRunner, TLC

AnyKind == {"start", "abort", "delete", "delete_project"}

\* Requests and runs differ in nothing but their names (not used for liveness).
AnyName == Permutations(Requests) \cup Permutations(Runs)
=============================================================================
