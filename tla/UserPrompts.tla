---------------------------- MODULE UserPrompts -----------------------------
(***************************************************************************)
(* The user prompts: UserPromptManager and PromptExchange.  Tasks of the   *)
(* event loop (the testing task, and the tasks the YAML runner's hooks      *)
(* spawn) send a prompt to the connected clients and wait for an answer or *)
(* a timeout.  Between two actions the tasks are suspended: in a broadcast *)
(* (Connections), in asyncio.wait_for, or ready to be resumed.             *)
(***************************************************************************)
EXTENDS Naturals

CONSTANTS Tasks,           \* tasks that send prompts
          MaxPrompts,      \* bound on the prompts sent
          Replies          \* answers a client sends (one may be INVALID)

ASSUME PromptAssumption ==
    /\ MaxPrompts \in Nat
    /\ {"none", "timeout"} \cap Replies = {}

Prompts == 1..MaxPrompts

VARIABLES
    lastId,    \* __current_message_id: prompts 1..lastId were created
    current,   \* __current_prompt_exchange (0: none); it is never reset
    active,    \* active_prompts
    events,    \* prompts whose message_event is set
    response,  \* prompt -> received_response
    pc,        \* task -> where it is
    own,       \* task -> the prompt it created
    waitsOn,   \* task -> the prompt whose response() it awaits
    result,    \* task -> what send_prompt_request returned
    aborted,   \* history: tasks cancelled while they were sending a prompt
    overtaken, \* history: tasks during whose broadcast another prompt was sent
    abandoned  \* history: prompts whose sender does not wait for them any more

vars == <<lastId, current, active, events, response, pc, own, waitsOn, result,
          aborted, overtaken, abandoned>>
history == <<aborted, overtaken, abandoned>>
exchanges == <<lastId, current, active, events, response>>

InFlight == {"sending", "waiting", "resuming", "expiring", "notifying"}
Ended == {"done", "failed", "cancelled"}

Init ==
    /\ lastId = 0
    /\ current = 0
    /\ active = {}
    /\ events = {}
    /\ response = [i \in Prompts |-> "none"]
    /\ pc = [t \in Tasks |-> "idle"]
    /\ own = [t \in Tasks |-> 0]
    /\ waitsOn = [t \in Tasks |-> 0]
    /\ result = [t \in Tasks |-> "none"]
    /\ aborted = {}
    /\ overtaken = {}
    /\ abandoned = {}

Goto(t, label) == pc' = [pc EXCEPT ![t] = label]

-----------------------------------------------------------------------------
(***************************************************************************)
(* send_prompt_request.                                                    *)
(***************************************************************************)
Send(t) ==
    /\ pc[t] \in {"idle"} \cup Ended
    /\ lastId < MaxPrompts
    /\ lastId' = lastId + 1
    /\ current' = lastId + 1
    /\ active' = active \cup {lastId + 1}
    /\ own' = [own EXCEPT ![t] = lastId + 1]
    /\ waitsOn' = [waitsOn EXCEPT ![t] = 0]
    /\ result' = [result EXCEPT ![t] = "none"]
    /\ aborted' = aborted \ {t}
    /\ overtaken' = (overtaken \cup {u \in Tasks : pc[u] = "sending"}) \ {t}
    /\ Goto(t, "sending")
    /\ UNCHANGED <<events, response, abandoned>>

\* Mutant: the task waits for the prompt before its own.
SentOffByOne(t) ==
    /\ pc[t] = "sending"
    /\ waitsOn' = [waitsOn EXCEPT ![t] = IF own[t] > 1 THEN own[t] - 1 ELSE 1]
    /\ Goto(t, "waiting")
    /\ UNCHANGED <<exchanges, own, result, history>>

\* After the broadcast the attribute is read AGAIN: it may be another prompt.
Sent(t) ==
    /\ pc[t] = "sending"
    /\ waitsOn' = [waitsOn EXCEPT ![t] = current]
    /\ abandoned' = abandoned \cup ({own[t]} \ {current})
    /\ Goto(t, "waiting")
    /\ UNCHANGED <<exchanges, own, result, aborted, overtaken>>

\* A broadcast raises out of send_prompt_request, or out of its timeout.
BroadcastRaises(t) ==
    /\ pc[t] \in {"sending", "notifying"}
    /\ Goto(t, "failed")
    /\ abandoned' = abandoned \cup {own[t]}
    /\ UNCHANGED <<exchanges, own, waitsOn, result, aborted, overtaken>>

-----------------------------------------------------------------------------
(***************************************************************************)
(* received_message: from a client, or from the hooks' select_prompt_option *)
(* on the current prompt.  Only an active prompt takes an answer.          *)
(***************************************************************************)
\* Mutant: any prompt that was ever sent takes an answer.
ReceiveAny(i, reply) ==
    /\ i <= lastId
    /\ active' = active \ {i}
    /\ response' = [response EXCEPT ![i] = reply]
    /\ events' = events \cup {i}
    /\ UNCHANGED <<lastId, current, pc, own, waitsOn, result, history>>

Receive(i, reply) ==
    /\ i \in active
    /\ active' = active \ {i}
    /\ response' = [response EXCEPT ![i] = reply]
    /\ events' = events \cup {i}
    /\ UNCHANGED <<lastId, current, pc, own, waitsOn, result, history>>

-----------------------------------------------------------------------------
(***************************************************************************)
(* response(): wait_for on the event.  The task that waits on the event    *)
(* ends one turn of the loop after the event is set, and the sender is     *)
(* resumed a turn later; a timer that fires before ends the wait.          *)
(***************************************************************************)
EventSeen(t) ==
    /\ pc[t] = "waiting"
    /\ waitsOn[t] \in events
    /\ Goto(t, "resuming")
    /\ UNCHANGED <<exchanges, own, waitsOn, result, history>>

Return(t) ==
    /\ pc[t] = "resuming"
    /\ result' = [result EXCEPT ![t] = response[waitsOn[t]]]
    /\ Goto(t, "done")
    /\ UNCHANGED <<exchanges, own, waitsOn, history>>

\* Mutant: a prompt without a timeout.
TimerFiresNever(t) == FALSE /\ UNCHANGED vars

TimerFires(t) ==
    /\ pc[t] = "waiting"
    /\ Goto(t, "expiring")
    /\ UNCHANGED <<exchanges, own, waitsOn, result, history>>

\* Mutant: the prompt that timed out stays in the list.
ExpireKeepsActive(t) ==
    /\ pc[t] = "expiring"
    /\ waitsOn[t] \in active
    /\ Goto(t, "notifying")
    /\ UNCHANGED <<exchanges, own, waitsOn, result, history>>

\* prompt_timed_out: the list must still have the prompt.
Expire(t) ==
    /\ pc[t] = "expiring"
    /\ waitsOn[t] \in active
    /\ active' = active \ {waitsOn[t]}
    /\ Goto(t, "notifying")
    /\ UNCHANGED <<lastId, current, events, response, own, waitsOn, result, history>>

\* list.remove raises ValueError, and so does send_prompt_request.
ExpireRaises(t) ==
    /\ pc[t] = "expiring"
    /\ waitsOn[t] \notin active
    /\ Goto(t, "failed")
    /\ UNCHANGED <<exchanges, own, waitsOn, result, history>>

Notified(t) ==
    /\ pc[t] = "notifying"
    /\ response' = [response EXCEPT ![waitsOn[t]] = "timeout"]
    /\ result' = [result EXCEPT ![t] = "timeout"]
    /\ Goto(t, "done")
    /\ UNCHANGED <<lastId, current, active, events, own, waitsOn, history>>

\* Mutant: a cancellation while the timeout is handled is swallowed too.
CancelSwallowed(t) ==
    /\ pc[t] \in InFlight
    /\ aborted' = aborted \cup {t}
    /\ IF pc[t] \in {"resuming", "expiring"}
       THEN UNCHANGED <<pc, abandoned>>
       ELSE Goto(t, "cancelled") /\ abandoned' = abandoned \cup {own[t]}
    /\ UNCHANGED <<exchanges, own, waitsOn, result, overtaken>>

(***************************************************************************)
(* The sender is cancelled.  The prompt stays in the list; and a wait_for  *)
(* (of Python 3.10) whose event task has ended returns its result instead  *)
(* of raising the CancelledError.                                          *)
(***************************************************************************)
Cancel(t) ==
    /\ pc[t] \in InFlight
    /\ aborted' = aborted \cup {t}
    /\ IF pc[t] = "resuming"
       THEN UNCHANGED <<pc, abandoned>>
       ELSE Goto(t, "cancelled") /\ abandoned' = abandoned \cup {own[t]}
    /\ UNCHANGED <<exchanges, own, waitsOn, result, overtaken>>

-----------------------------------------------------------------------------
Resumed(t) == Sent(t) \/ EventSeen(t) \/ Return(t) \/ Expire(t) \/ ExpireRaises(t) \/ Notified(t)

Terminated ==
    /\ lastId = MaxPrompts
    /\ \A t \in Tasks : pc[t] \notin InFlight
    /\ UNCHANGED vars

Next ==
    \/ \E t \in Tasks :
          Send(t) \/ BroadcastRaises(t) \/ Resumed(t) \/ TimerFires(t) \/ Cancel(t)
    \/ \E i \in Prompts, reply \in Replies : Receive(i, reply)
    \/ Terminated

Spec == Init /\ [][Next]_vars

(***************************************************************************)
(* The event loop resumes what is ready, timers fire, and broadcasts end.  *)
(* Users need not answer.                                                  *)
(***************************************************************************)
FairSpec ==
    Spec /\ \A t \in Tasks : WF_vars(Resumed(t)) /\ WF_vars(TimerFires(t))

-----------------------------------------------------------------------------
(***************************************************************************)
(* Properties.                                                             *)
(***************************************************************************)
Types ==
    /\ lastId \in 0..MaxPrompts
    /\ current = lastId
    /\ active \subseteq 1..lastId
    /\ events \subseteq (1..lastId) \ active
    /\ response \in [Prompts -> Replies \cup {"none", "timeout"}]
    /\ pc \in [Tasks -> {"idle"} \cup InFlight \cup Ended]
    /\ own \in [Tasks -> 0..lastId]
    /\ waitsOn \in [Tasks -> 0..lastId]
    /\ result \in [Tasks -> Replies \cup {"none", "timeout"}]
    /\ aborted \subseteq Tasks
    /\ overtaken \subseteq Tasks
    /\ abandoned \subseteq 1..lastId

SenderStillThere ==
    \A i \in active \ abandoned : \E t \in Tasks : own[t] = i /\ pc[t] \in InFlight

(* Every variable has its type, and a prompt takes answers only while its  *)
(* sender is there to use them: the list of active prompts keeps no entry  *)
(* of an earlier prompt, unless its sender was cancelled, diverted, or     *)
(* failed in a broadcast.                                                  *)
TypeOK == Types /\ SenderStillThere

(* A sender returns the outcome of its own prompt: the answer a client gave *)
(* to it, or the timeout if none did (send_prompt_request).  Only another  *)
(* prompt sent during its broadcast can divert it.                         *)
OwnOutcome(t) ==
    /\ waitsOn[t] = own[t]
    /\ own[t] \in events => result[t] = response[own[t]] /\ result[t] \in Replies
    /\ own[t] \notin events => result[t] = "timeout"

ReturnsOwnOutcome == \A t \in Tasks \ overtaken : pc[t] = "done" => OwnOutcome(t)

(* A sender that was cancelled does not go on as if the prompt had run its *)
(* course, unless its answer had come before.                              *)
CancelledSenderStops ==
    \A t \in aborted : pc[t] = "done" => waitsOn[t] \in events

(* However senders overlap, are cancelled or fail, a prompt is answered at *)
(* most once and takes no answer after it was withdrawn.                   *)
Status ==
    [i \in Prompts |-> CASE i > lastId   -> "unsent"
                         [] i \in active -> "open"
                         [] i \in events -> "answered"
                         [] OTHER        -> "withdrawn"]

Promise == INSTANCE PromptPromise WITH status <- Status

PromiseSpec == Promise!Spec

(* A prompt nobody answers does not hold up its sender for ever.           *)
SenderGoesOn == \A t \in Tasks : pc[t] = "waiting" ~> pc[t] \in Ended
=============================================================================
