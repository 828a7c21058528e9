------------------------------- MODULE RunLog -------------------------------
(***************************************************************************)
(* What is made of the saved log of a run: the groups of its entries and   *)
(* the files of the archive a client downloads (log_utils.py).             *)
(*                                                                         *)
(* The rows of a run are a sequence of suites [id, cases], the cases a     *)
(* sequence of [id, state].  An entry of the log is a record [suite, case, *)
(* text] with the positions of its rows, 0 where the log has no index.     *)
(***************************************************************************)
EXTENDS Naturals, Sequences, FiniteSets

\* Mutant: whatever has a suite goes to the group of the suite.
GroupOfSuite(rows, entry) ==
    IF entry.suite # 0 THEN [kind |-> "suite", id |-> rows[entry.suite].id]
    ELSE [kind |-> "general"]

\* The public id of a case is the same in each of its iterations.
GroupOf(rows, entry) ==
    IF entry.suite # 0 /\ entry.case # 0
    THEN LET case == rows[entry.suite].cases[entry.case]
         IN [kind |-> "case", state |-> case.state, id |-> case.id]
    ELSE IF entry.suite # 0 THEN [kind |-> "suite", id |-> rows[entry.suite].id]
    ELSE [kind |-> "general"]

\* A function from the groups to their entries.  The general one is there
\* from the start, the others from their first entry on.
NoGroups == [g \in {[kind |-> "general"]} |-> <<>>]

AddEntry(rows, groups, entry) ==
    LET group == GroupOf(rows, entry)
        before == IF group \in DOMAIN groups THEN groups[group] ELSE <<>>
    IN [g \in DOMAIN groups \cup {group} |->
          IF g = group THEN Append(before, entry) ELSE groups[g]]

GroupsOf(groups, kind) == {g \in DOMAIN groups : g.kind = kind}

StatesOf(groups) == {g.state : g \in GroupsOf(groups, "case")}

CasesIn(groups, state) == {g \in GroupsOf(groups, "case") : g.state = state}

\* summary.txt: for each state its cases, and how many of how many they are.
Summary(groups) ==
    [s \in StatesOf(groups) |->
        [ids |-> {g.id : g \in CasesIn(groups, s)},
         count |-> Cardinality(CasesIn(groups, s)),
         all |-> Cardinality(GroupsOf(groups, "case"))]]

\* Both kinds of log files begin with the general entries.
SuitesFile(groups) == [g \in GroupsOf(groups, "general") \cup GroupsOf(groups, "suite") |-> groups[g]]

CasesFile(groups, state) ==
    [g \in GroupsOf(groups, "general") \cup CasesIn(groups, state) |-> groups[g]]

Archive(groups) ==
    [summary |-> Summary(groups), suites |-> SuitesFile(groups),
     cases |-> [s \in StatesOf(groups) |-> CasesFile(groups, s)]]
=============================================================================
