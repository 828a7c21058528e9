----------------------------- MODULE MCRecords ------------------------------
(***************************************************************************)
(* Two collections with a mandatory suite each, and what may be selected:  *)
(* suites of both, with repeated cases and the mandatory ones last, or a   *)
(* suite that does not exist.                                              *)
(***************************************************************************)
EXTENDS Records, TLC

SmallCatalogue ==
    [A |-> [s |-> [mandatory |-> FALSE, cases |-> {"c", "d"}],
            m |-> [mandatory |-> TRUE, cases |-> {"c"}]],
     B |-> [s |-> [mandatory |-> FALSE, cases |-> {"c"}],
            m |-> [mandatory |-> TRUE, cases |-> {"d"}]]]

Twice(case) == [case |-> case, times |-> 2]
Once(case) == [case |-> case, times |-> 1]
Both ==
    <<[collection |-> "A", suites |-> <<[suite |-> "s", cases |-> <<Twice("c"), Once("d")>>],
                                        [suite |-> "m", cases |-> <<Once("c")>>]>>],
      [collection |-> "B", suites |-> <<[suite |-> "s", cases |-> <<Once("c")>>],
                                        [suite |-> "m", cases |-> <<Twice("d")>>]>>]>>
Missing == <<[collection |-> "A", suites |-> <<[suite |-> "x", cases |-> <<Once("c")>>]>>]>>
SmallSelections == {Both, Missing}

ProjectRequests == {"create_project", "change", "upload", "remove_cluster", "delete_project"}
AllRequests ==
    ProjectRequests \cup {"create", "archive", "remove", "import", "create_operator", "delete_operator"}

Symmetry ==
    Permutations(Threads) \cup Permutations(Projects)
        \cup Permutations(Executions) \cup Permutations(Clusters)
=============================================================================
