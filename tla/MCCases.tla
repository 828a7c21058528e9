------------------------------ MODULE MCCases -------------------------------
(***************************************************************************)
(* Values of the constants of TestCases.  Of the cases that ask there is   *)
(* one of each kind: manual ones with and without steps to ask about, a    *)
(* test run by chip-tool, semi-automated ones with their manual step first *)
(* and last, and one with an app and a manual step between others.         *)
(***************************************************************************)
EXTENDS TestCases

SmallCases ==
    {[kind |-> "manual", steps |-> <<"manual", "manual", "upload">>],
     [kind |-> "manual", steps |-> <<"plain", "plain", "plain", "upload">>],
     [kind |-> "tool", steps |-> <<"start", "automated", "automated">>],
     [kind |-> "semi", steps |-> <<"start", "automated", "manual", "upload">>],
     [kind |-> "semi", steps |-> <<"start", "manual", "automated", "upload">>],
     [kind |-> "app", steps |-> <<"start", "automated", "manual", "automated">>]}
=============================================================================
