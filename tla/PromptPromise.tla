--------------------------- MODULE PromptPromise ----------------------------
(***************************************************************************)
(* What a user prompt is to the clients: it is shown once, and then closed *)
(* for good, either by the first answer or because it is withdrawn.        *)
(***************************************************************************)
CONSTANT Prompts

VARIABLE status   \* prompt -> "unsent", "open", "answered" or "withdrawn"

Init == status = [i \in Prompts |-> "unsent"]

Change(i, from, to) ==
    /\ status[i] = from
    /\ status' = [status EXCEPT ![i] = to]

Show(i) == Change(i, "unsent", "open")

Answer(i) == Change(i, "open", "answered")

Withdraw(i) == Change(i, "open", "withdrawn")

Next == \E i \in Prompts : Show(i) \/ Answer(i) \/ Withdraw(i)

Spec == Init /\ [][Next]_status
=============================================================================
