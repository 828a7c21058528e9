-------------------------- MODULE UserPromptsProofs --------------------------
(***************************************************************************)
(* Theorems about UserPrompts, for every set of tasks and of replies and    *)
(* every number of prompts; and, below, about the web sockets that carry   *)
(* the prompts.                                                            *)
(*                                                                         *)
(* One inductive invariant, IInv, carries the three invariants: it says    *)
(* whose prompt each task waits for, and what a task may rely on once its  *)
(* wait has ended.                                                         *)
(***************************************************************************)
EXTENDS UserPrompts, Connections, SequenceTheorems, TLAPS

Awaiting == {"waiting", "resuming", "expiring", "notifying"}

\* No prompt has two senders.
OneSender == \A t, u \in Tasks : own[t] = own[u] /\ own[t] # 0 => t = u

\* A task past its broadcast waits for some prompt: its own, unless another was
\* sent meanwhile; and then nobody waits for its own.
Awaited ==
    \A t \in Tasks :
        /\ pc[t] # "idle" => own[t] \in Prompts
        /\ pc[t] \in Awaiting \cup {"done"} => waitsOn[t] \in Prompts
        /\ pc[t] \in Awaiting /\ waitsOn[t] # own[t] => own[t] \in abandoned
        /\ t \notin overtaken /\ pc[t] = "sending" => own[t] = lastId
        /\ t \notin overtaken /\ pc[t] \in Awaiting => waitsOn[t] = own[t]

\* What ended the wait: an answer, which is there, or the timer, and then the
\* prompt can have no answer any more.
WaitEnded ==
    /\ \A i \in events : response[i] \in Replies
    /\ \A t \in Tasks :
          /\ pc[t] = "resuming" => waitsOn[t] \in events
          /\ pc[t] = "notifying" => waitsOn[t] \notin active \cup events

\* A returned outcome stands: its prompt is closed.
Closed == \A t \in Tasks \ overtaken : pc[t] = "done" => own[t] \notin active

\* A cancelled task is still there only if its answer came before.
AbortedResumes == \A t \in aborted : pc[t] \in InFlight => pc[t] = "resuming"

IInv ==
    /\ TypeOK
    /\ OneSender /\ Awaited /\ WaitEnded /\ Closed /\ AbortedResumes
    /\ ReturnsOwnOutcome /\ CancelledSenderStops
-----------------------------------------------------------------------------
(***************************************************************************)
(* The invariant.                                                          *)
(***************************************************************************)
(* The sender of every prompt that is open, and not abandoned, stays.      *)
LEMMA SenderStays ==
    ASSUME IInv, [Next]_vars,
           NEW i \in (active \ abandoned)'
    PROVE  \E u \in Tasks : own'[u] = i /\ pc'[u] \in InFlight
<1> USE DEF InFlight, Ended, Goto, exchanges, history, Resumed
<1>1. ASSUME NEW t \in Tasks, Send(t)
      PROVE  \E u \in Tasks : own'[u] = i /\ pc'[u] \in InFlight
  <2>1. CASE i = lastId + 1
    <3>1. own'[t] = i /\ pc'[t] = "sending"
      BY <1>1, <2>1 DEF Send, IInv, TypeOK, Types, SenderStillThere
    <3> QED
      BY <3>1
  <2>2. CASE i # lastId + 1
    <3>1. PICK u \in Tasks : own[u] = i /\ pc[u] \in InFlight
      BY <1>1, <2>2 DEF Send, IInv, TypeOK, Types, SenderStillThere
    <3>2. own'[u] = i /\ pc'[u] \in InFlight
      BY <1>1, <3>1 DEF Send, IInv, TypeOK, Types, SenderStillThere
    <3> QED
      BY <3>2
  <2> QED
    BY <2>1, <2>2
<1>2. CASE ~\E t \in Tasks : Send(t)
  <2>1. i \in active \ abandoned /\ own' = own
    BY <1>2 DEF Next, BroadcastRaises, Sent, EventSeen, Return, Expire, ExpireRaises, Notified,
                TimerFires, Cancel, Receive, Terminated, vars
  <2>2. PICK u \in Tasks : own[u] = i /\ pc[u] \in InFlight
    BY <2>1 DEF IInv, TypeOK, Types, SenderStillThere
  <2>3. pc'[u] \in InFlight
    <3>1. ASSUME NEW t \in Tasks, BroadcastRaises(t) \/ Cancel(t)
          PROVE  pc'[u] \in InFlight
      BY <2>1, <2>2, <3>1 DEF BroadcastRaises, Cancel, IInv, TypeOK, Types, SenderStillThere
    <3>2. ASSUME NEW t \in Tasks, Return(t)
          PROVE  pc'[u] \in InFlight
      BY <2>1, <2>2, <3>2 DEF Return, IInv, TypeOK, Types, SenderStillThere, Awaited, WaitEnded, Awaiting
    <3>3. ASSUME NEW t \in Tasks, ExpireRaises(t) \/ Notified(t)
          PROVE  pc'[u] \in InFlight
      BY <2>1, <2>2, <3>3 DEF ExpireRaises, Notified, IInv, TypeOK, Types, SenderStillThere, Awaited, WaitEnded, Awaiting
    <3>4. ASSUME NEW t \in Tasks, Sent(t) \/ EventSeen(t) \/ Expire(t) \/ TimerFires(t)
          PROVE  pc'[u] \in InFlight
      BY <2>2, <3>4 DEF Sent, EventSeen, Expire, TimerFires, IInv, TypeOK, Types, SenderStillThere
    <3>5. CASE UNCHANGED pc
      BY <2>2, <3>5
    <3> QED
      BY <1>2, <3>1, <3>2, <3>3, <3>4, <3>5 DEF Next, Receive, Terminated, vars
  <2> QED
    BY <2>1, <2>2, <2>3
<1> QED
  BY <1>1, <1>2

(* A task that has sent a prompt knows it by its number.                   *)
LEMMA OwnPrompt == ASSUME IInv, NEW t \in Tasks, pc[t] # "idle" PROVE own[t] \in 1..lastId
BY PromptAssumption DEF IInv, TypeOK, Types, SenderStillThere, Awaited, Prompts

(* The types stay.                                                         *)
LEMMA PromptTypeStep == IInv /\ [Next]_vars => TypeOK'
<1> SUFFICES ASSUME IInv, [Next]_vars PROVE TypeOK'
  OBVIOUS
<1>1. SenderStillThere'
  BY SenderStays DEF SenderStillThere
<1>2. Types
  BY DEF IInv, TypeOK, Types, SenderStillThere
<1> SUFFICES Types'
  BY <1>1 DEF TypeOK
<1>3. \A t \in Tasks : pc[t] # "idle" => own[t] \in 1..lastId
  BY OwnPrompt
<1>4. \A t \in Tasks : pc[t] \in Awaiting => waitsOn[t] \in Prompts
  BY DEF IInv, Awaited
<1> USE <1>2, <1>3, <1>4, PromptAssumption
    DEF Types, Awaiting, Prompts, InFlight, Ended, Goto, exchanges, history
<1>5. CASE UNCHANGED vars
  BY <1>5 DEF vars
<1>6. ASSUME NEW t \in Tasks, Send(t)
      PROVE  Types'
  BY <1>6 DEF Send
<1>7. ASSUME NEW t \in Tasks, BroadcastRaises(t)
      PROVE  Types'
  BY <1>7 DEF BroadcastRaises
<1>8. ASSUME NEW t \in Tasks, Resumed(t)
      PROVE  Types'
  <2>1. CASE Sent(t)
    <3>1. abandoned' \subseteq 1..lastId
      BY <2>1 DEF Sent
    <3>2. waitsOn' \in [Tasks -> 0..lastId]
      BY <2>1 DEF Sent
    <3>3. pc' \in [Tasks -> {"idle"} \cup InFlight \cup Ended]
      BY <2>1 DEF Sent
    <3> QED
      BY <2>1, <3>1, <3>2, <3>3 DEF Sent
  <2>2. CASE EventSeen(t) \/ ExpireRaises(t)
    BY <2>2 DEF EventSeen, ExpireRaises
  <2>3. CASE Return(t)
    BY <2>3 DEF Return
  <2>4. CASE Expire(t)
    BY <2>4 DEF Expire
  <2>5. CASE Notified(t)
    BY <2>5 DEF Notified
  <2> QED
    BY <1>8, <2>1, <2>2, <2>3, <2>4, <2>5 DEF Resumed
<1>9. ASSUME NEW t \in Tasks, TimerFires(t)
      PROVE  Types'
  BY <1>9 DEF TimerFires
<1>10. ASSUME NEW t \in Tasks, Cancel(t)
       PROVE  Types'
  <2>1. CASE pc[t] = "resuming"
    BY <1>10, <2>1 DEF Cancel
  <2>2. CASE pc[t] # "resuming"
    <3>1. abandoned' \subseteq 1..lastId
      <4>1. pc[t] # "idle" /\ abandoned' = abandoned \cup {own[t]}
        BY <1>10, <2>2 DEF Cancel
      <4> QED
        BY <4>1
    <3>2. pc' \in [Tasks -> {"idle"} \cup InFlight \cup Ended]
      BY <1>10, <2>2 DEF Cancel
    <3> QED
      BY <1>10, <3>1, <3>2 DEF Cancel
  <2> QED
    BY <2>1, <2>2
<1>11. ASSUME NEW i \in Prompts, NEW reply \in Replies, Receive(i, reply)
       PROVE  Types'
  BY <1>11 DEF Receive
<1>12. CASE Terminated
  BY <1>12 DEF Terminated, vars
<1> QED
  BY <1>5, <1>6, <1>7, <1>8, <1>9, <1>10, <1>11, <1>12 DEF Next

(* IInv is inductive: no step of a task, of a client or of a timer, in     *)
(* whatever order, breaks it.                                              *)
LEMMA PromptStep == IInv /\ [Next]_vars => IInv'
<1> SUFFICES ASSUME IInv, [Next]_vars PROVE IInv'
  OBVIOUS
<1>1. TypeOK'
  BY PromptTypeStep
<1> DEFINE Rest == /\ OneSender /\ Awaited /\ WaitEnded /\ Closed /\ AbortedResumes
                   /\ ReturnsOwnOutcome /\ CancelledSenderStops
<1> SUFFICES Rest'
  BY <1>1 DEF IInv
<1> USE PromptAssumption
    DEF IInv, TypeOK, Types, SenderStillThere, OneSender, Awaited, WaitEnded, Closed, AbortedResumes, Awaiting,
        ReturnsOwnOutcome, OwnOutcome, CancelledSenderStops, Prompts, InFlight, Ended,
        Goto, exchanges, history
<1>2. CASE UNCHANGED vars
  BY <1>2 DEF vars
<1>3. ASSUME NEW t \in Tasks, Send(t)
      PROVE  Rest'
  BY <1>3 DEF Send
<1>4. ASSUME NEW t \in Tasks, BroadcastRaises(t)
      PROVE  Rest'
  BY <1>4 DEF BroadcastRaises
<1>5. ASSUME NEW t \in Tasks, Resumed(t)
      PROVE  Rest'
  <2>1. CASE Sent(t)
    BY <2>1 DEF Sent
  <2>2. CASE EventSeen(t)
    BY <2>2 DEF EventSeen
  <2>3. CASE Return(t)
    BY <2>3 DEF Return
  <2>4. CASE Expire(t)
    BY <2>4 DEF Expire
  <2>5. CASE ExpireRaises(t)
    BY <2>5 DEF ExpireRaises
  <2>6. CASE Notified(t)
    BY <2>6 DEF Notified
  <2> QED
    BY <1>5, <2>1, <2>2, <2>3, <2>4, <2>5, <2>6 DEF Resumed
<1>6. ASSUME NEW t \in Tasks, TimerFires(t)
      PROVE  Rest'
  BY <1>6 DEF TimerFires
<1>7. ASSUME NEW t \in Tasks, Cancel(t)
      PROVE  Rest'
  BY <1>7 DEF Cancel
<1>8. ASSUME NEW i \in Prompts, NEW reply \in Replies, Receive(i, reply)
      PROVE  Rest'
  BY <1>8 DEF Receive
<1>9. CASE Terminated
  BY <1>9 DEF Terminated, vars
<1> QED
  BY <1>2, <1>3, <1>4, <1>5, <1>6, <1>7, <1>8, <1>9 DEF Next

(* IInv holds of every run of the prompts.                                 *)
LEMMA PromptInvariant == Spec => []IInv
<1>1. Init => IInv
  BY PromptAssumption
     DEF Init, IInv, TypeOK, Types, SenderStillThere, OneSender, Awaited, WaitEnded, Closed, AbortedResumes, Awaiting,
         ReturnsOwnOutcome, CancelledSenderStops, Prompts, InFlight, Ended
<1> QED
  BY <1>1, PromptStep, PTL DEF Spec

(* Types, and the list of active prompts: an open prompt whose sender did  *)
(* not abandon it has that sender waiting (send_prompt_request).           *)
THEOREM PromptsTypeCorrect == Spec => []TypeOK
BY PromptInvariant, PTL DEF IInv

(* A sender during whose broadcast no other prompt was sent returns the    *)
(* outcome of its own prompt, however many tasks send, are cancelled or    *)
(* time out, and whatever clients answer.                                  *)
THEOREM OutcomeIsOwn == Spec => []ReturnsOwnOutcome
BY PromptInvariant, PTL DEF IInv

(* A cancelled sender does not return, unless its answer had come.         *)
THEOREM CancelledStops == Spec => []CancelledSenderStops
BY PromptInvariant, PTL DEF IInv

-----------------------------------------------------------------------------
(***************************************************************************)
(* The refinement: what the clients were promised of a prompt.             *)
(***************************************************************************)
(* A step that leaves the prompts alone leaves their status alone.         *)
LEMMA StatusUnchanged ==
    ASSUME UNCHANGED <<lastId, active, events>>
    PROVE  UNCHANGED Status
BY DEF Status

(* Sending shows the new prompt, and changes no other.                     *)
LEMMA SendShows ==
    ASSUME IInv, NEW t \in Tasks, Send(t)
    PROVE  Promise!Next
<1> DEFINE i == lastId + 1
<1>1. i \in Prompts /\ lastId' = i /\ active' = active \cup {i} /\ events' = events
  BY PromptAssumption DEF IInv, TypeOK, Types, Prompts, Send
<1>2. events \subseteq 1..lastId /\ active \subseteq 1..lastId /\ lastId \in Nat
  BY PromptAssumption DEF IInv, TypeOK, Types
<1>3. Status[i] = "unsent"
  BY <1>1, <1>2 DEF Status
<1>4. \A j \in Prompts : Status'[j] = IF j = i THEN "open" ELSE Status[j]
  BY <1>1, <1>2, PromptAssumption DEF Status, Prompts
<1>5. Status' = [Status EXCEPT ![i] = "open"]
  BY <1>4 DEF Status
<1> QED
  BY <1>1, <1>3, <1>5 DEF Promise!Next, Promise!Show, Promise!Change

(* Only an open prompt is answered.                                        *)
LEMMA ReceiveAnswers ==
    ASSUME IInv, NEW i \in Prompts, NEW reply \in Replies, Receive(i, reply)
    PROVE  Promise!Next
<1>1. i \in active /\ active' = active \ {i} /\ events' = events \cup {i} /\ lastId' = lastId
  BY DEF Receive
<1>2. i \in 1..lastId /\ events \cap active = {} /\ lastId \in 0..MaxPrompts
  BY <1>1 DEF IInv, TypeOK, Types
<1>3. Status[i] = "open"
  BY <1>1, <1>2, PromptAssumption DEF Status, Prompts
<1>4. \A j \in Prompts : Status'[j] = IF j = i THEN "answered" ELSE Status[j]
  BY <1>1, <1>2, PromptAssumption DEF Status, Prompts
<1>5. Status' = [Status EXCEPT ![i] = "answered"]
  BY <1>4 DEF Status
<1> QED
  BY <1>3, <1>5 DEF Promise!Next, Promise!Answer, Promise!Change

(* Only an open prompt is withdrawn when a timer has fired.                *)
LEMMA ExpireWithdraws ==
    ASSUME IInv, NEW t \in Tasks, Expire(t)
    PROVE  Promise!Next
<1> DEFINE i == waitsOn[t]
<1>1. /\ i \in active /\ active' = active \ {i}
      /\ events' = events /\ lastId' = lastId
  BY DEF Expire
<1>2. i \in 1..lastId /\ events \cap active = {} /\ lastId \in 0..MaxPrompts
  BY <1>1 DEF IInv, TypeOK, Types
<1>3. i \in Prompts
  BY <1>1, <1>2, PromptAssumption DEF Prompts
<1>4. Status[i] = "open"
  BY <1>1, <1>2, <1>3 DEF Status, Prompts
<1>5. \A j \in Prompts : Status'[j] = IF j = i THEN "withdrawn" ELSE Status[j]
  BY <1>1, <1>2, PromptAssumption DEF Status, Prompts
<1>6. Status' = [Status EXCEPT ![i] = "withdrawn"]
  <2> HIDE DEF i
  <2> QED
    BY <1>5 DEF Status
<1> QED
  BY <1>3, <1>4, <1>6 DEF Promise!Next, Promise!Withdraw, Promise!Change

(* The prompts keep the promise: each is shown once, answered at most once, *)
(* and never answered after it was withdrawn.                              *)
THEOREM PromiseKept == Spec => PromiseSpec
<1>1. Init => Promise!Init
  <2> SUFFICES ASSUME Init PROVE Promise!Init
    OBVIOUS
  <2> QED
    BY PromptAssumption DEF Init, Promise!Init, Status, Prompts
<1>2. IInv /\ [Next]_vars => [Promise!Next]_Status
  <2> SUFFICES ASSUME IInv, [Next]_vars
               PROVE  Promise!Next \/ UNCHANGED Status
    OBVIOUS
  <2>1. ASSUME NEW t \in Tasks, Send(t) PROVE Promise!Next
    BY <2>1, SendShows
  <2>2. ASSUME NEW t \in Tasks, Expire(t) PROVE Promise!Next
    BY <2>2, ExpireWithdraws
  <2>3. ASSUME NEW i \in Prompts, NEW reply \in Replies, Receive(i, reply)
        PROVE  Promise!Next
    BY <2>3, ReceiveAnswers
  <2>4. ASSUME NEW t \in Tasks,
               \/ BroadcastRaises(t) \/ Sent(t) \/ EventSeen(t) \/ Return(t)
               \/ ExpireRaises(t) \/ Notified(t) \/ TimerFires(t) \/ Cancel(t)
        PROVE  UNCHANGED <<lastId, active, events>>
    BY <2>4 DEF BroadcastRaises, Sent, EventSeen, Return, ExpireRaises, Notified, TimerFires,
                Cancel, exchanges
  <2>5. CASE Terminated \/ UNCHANGED vars
    <3>1. UNCHANGED <<lastId, active, events>>
      BY <2>5 DEF Terminated, vars
    <3> QED
      BY <3>1, StatusUnchanged
  <2> QED
    BY <2>1, <2>2, <2>3, <2>4, <2>5, StatusUnchanged DEF Next, Resumed
<1> QED
  BY <1>1, <1>2, PromptInvariant, PTL DEF Spec, PromiseSpec, Promise!Spec

-----------------------------------------------------------------------------
(***************************************************************************)
(* The connections the prompts are broadcast to, for every set of clients, *)
(* of broadcasts and of faults.                                            *)
(*                                                                         *)
(* A broadcast keeps a position in a list that changes under it.  What     *)
(* makes it safe is that the list only grows at its end, that removing an  *)
(* entry shifts the later ones towards the position and never past it to   *)
(* the right, and that a connection is listed once and never again.        *)
(***************************************************************************)
Walk == {"idle", "sending", "done", "raised"}

SocketTypes ==
    /\ connections \in Seq(Clients)
    /\ socket \in [Clients -> {"new", "open", "closed", "lost"}]
    /\ endpoint \in [Clients -> {"none", "polling", "left", "raised"}]
    /\ appClosed \subseteq Clients
    /\ walk \in [Broadcasts -> Walk]
    /\ index \in [Broadcasts -> Nat \ {0}]
    /\ got \in [Broadcasts -> [Clients -> {0, 1}]]
    /\ audience \in [Broadcasts -> SUBSET Clients]
    /\ disturbed \subseteq Broadcasts

\* A connection is listed at most once, and only after it was made; the endpoint
\* that still polls has its connection in the list.
Listed ==
    /\ \A i, j \in 1..Len(connections) : connections[i] = connections[j] => i = j
    /\ \A i \in 1..Len(connections) : socket[connections[i]] # "new"
    /\ \A c \in Clients :
          endpoint[c] = "polling" => \E i \in 1..Len(connections) : connections[i] = c

\* What lies ahead of a broadcast has not had its message.
Ahead ==
    /\ \A b \in Broadcasts : \A i \in 1..Len(connections) :
          index[b] <= i => got[b][connections[i]] = 0
    /\ \A b \in Broadcasts, c \in Clients : socket[c] = "new" => got[b][c] = 0

\* What lies behind an undisturbed broadcast has, if it was there at its start
\* and still is; and none of those has left the list.
Behind ==
    \A b \in Broadcasts :
        /\ \A c \in audience[b] : socket[c] = "open"
        /\ walk[b] = "idle" => index[b] = 1
        /\ walk[b] = "sending" /\ b \notin disturbed =>
              \A c \in audience[b] : \E i \in 1..Len(connections) :
                  connections[i] = c /\ (i < index[b] => got[b][c] = 1)

SocketInv == SocketTypes /\ Listed /\ Ahead /\ Behind /\ UndisturbedReachesAll

(***************************************************************************)
(* Lists.                                                                  *)
(***************************************************************************)
NoRepeats(s) == \A i, j \in 1..Len(s) : s[i] = s[j] => i = j

(* list.remove on a list without repetitions: the later entries move up by *)
(* one, and nothing else changes.                                          *)
LEMMA RemoveOne ==
    ASSUME NEW S, NEW s \in Seq(S), NoRepeats(s), NEW k \in 1..Len(s)
    PROVE  /\ RemoveFirst(s, s[k]) \in Seq(S)
           /\ Len(RemoveFirst(s, s[k])) = Len(s) - 1
           /\ \A i \in 1..(Len(s) - 1) :
                 RemoveFirst(s, s[k])[i] = IF i < k THEN s[i] ELSE s[i + 1]
<1>1. SelectInSeq(s, LAMBDA v : v = s[k]) = k
  <2> DEFINE I == {i \in 1..Len(s) : s[i] = s[k]}
  <2>1. I = {k}
    BY DEF NoRepeats
  <2>2. Min({k}) = k
    BY DEF Min
  <2> QED
    BY <2>1, <2>2 DEF SelectInSeq
<1>2. RemoveFirst(s, s[k]) = SubSeq(s, 1, k - 1) \o SubSeq(s, k + 1, Len(s))
  BY <1>1 DEF RemoveFirst, RemoveAt
<1> DEFINE front == SubSeq(s, 1, k - 1)
           back == SubSeq(s, k + 1, Len(s))
<1>3. /\ front \in Seq(S) /\ Len(front) = k - 1
      /\ \A i \in 1..(k - 1) : front[i] = s[i]
  BY SubSeqProperties, ElementOfSeq
<1>4. /\ back \in Seq(S) /\ Len(back) = Len(s) - k
      /\ \A i \in 1..(Len(s) - k) : back[i] = s[k + i]
  BY SubSeqProperties, ElementOfSeq
<1> HIDE DEF front, back
<1>5. /\ front \o back \in Seq(S)
      /\ Len(front \o back) = Len(front) + Len(back)
      /\ \A i \in 1..(Len(front) + Len(back)) :
            (front \o back)[i] = IF i <= Len(front) THEN front[i] ELSE back[i - Len(front)]
  BY <1>3, <1>4, ConcatProperties
<1>6. Len(front) + Len(back) = Len(s) - 1
  BY <1>3, <1>4
<1>7. ASSUME NEW i \in 1..(Len(s) - 1)
      PROVE  (front \o back)[i] = IF i < k THEN s[i] ELSE s[i + 1]
  <2>1. CASE i < k
    BY <1>3, <1>5, <1>6, <2>1
  <2>2. CASE ~(i < k)
    <3>1. i - (k - 1) \in 1..(Len(s) - k) /\ k + (i - (k - 1)) = i + 1
      BY <2>2
    <3>2. (front \o back)[i] = back[i - (k - 1)]
      BY <1>3, <1>5, <1>6, <2>2
    <3> QED
      BY <1>4, <2>2, <3>1, <3>2
  <2> QED
    BY <2>1, <2>2
<1>8. RemoveFirst(s, s[k]) = front \o back
  BY <1>2 DEF front, back
<1> QED
  BY <1>5, <1>6, <1>7, <1>8

-----------------------------------------------------------------------------
(***************************************************************************)
(* The invariant.                                                          *)
(***************************************************************************)
USE DEF Walk, clients, broadcasts

(* The endpoints: clients that connect, leave, fail or are refused.        *)
LEMMA EndpointStep ==
    ASSUME SocketInv, NEW c \in Clients, Endpoint(c)
    PROVE  SocketInv'
<1> USE DEF SocketInv, SocketTypes, Listed, Ahead, Behind, UndisturbedReachesAll
<1>1. CASE Connect(c)
  <2>0. /\ connections' = Append(connections, c) /\ socket[c] = "new"
        /\ socket' = [socket EXCEPT ![c] = "open"]
        /\ endpoint' = [endpoint EXCEPT ![c] = "polling"]
        /\ UNCHANGED <<appClosed, walk, index, got, audience, disturbed>>
    BY <1>1 DEF Connect
  <2>a. /\ connections' \in Seq(Clients) /\ Len(connections') = Len(connections) + 1
        /\ \A i \in 1..Len(connections) : connections'[i] = connections[i]
        /\ connections'[Len(connections) + 1] = c
    BY <2>0
  <2>1. SocketTypes'
    BY <2>0, <2>a
  <2>3. Listed'
    BY <2>0, <2>a
  <2>2. Ahead' /\ Behind' /\ UndisturbedReachesAll'
    BY <1>1 DEF Connect
  <2> QED
    BY <2>1, <2>2, <2>3
<1>2. CASE ConnectFails(c)
  BY <1>2 DEF ConnectFails
<1>3. CASE Disconnect(c)
  <2>1. PICK k \in 1..Len(connections) : connections[k] = c
    BY <1>3 DEF Disconnect
  <2>2. /\ connections' \in Seq(Clients) /\ Len(connections') = Len(connections) - 1
        /\ \A i \in 1..(Len(connections) - 1) :
              connections'[i] = IF i < k THEN connections[i] ELSE connections[i + 1]
    <3>1. connections' = RemoveFirst(connections, connections[k])
      BY <1>3, <2>1 DEF Disconnect
    <3>2. NoRepeats(connections) /\ connections \in Seq(Clients)
      BY DEF NoRepeats
    <3> HIDE DEF SocketInv, SocketTypes, Listed, Ahead, Behind, UndisturbedReachesAll
    <3> QED
      BY <2>1, <3>1, <3>2, RemoveOne
  <2>3. /\ endpoint' = [endpoint EXCEPT ![c] = "left"]
        /\ disturbed' = disturbed \cup {b \in Broadcasts : walk[b] = "sending"}
        /\ socket[c] \in {"closed", "lost"}
        /\ UNCHANGED <<socket, appClosed, walk, index, got, audience>>
    BY <1>3 DEF Disconnect
  <2> DEFINE from(i) == IF i < k THEN i ELSE i + 1
  <2>4. \A i \in 1..Len(connections') :
           from(i) \in 1..Len(connections) /\ connections'[i] = connections[from(i)] /\ i <= from(i)
    BY <2>2
  <2>5. \A i, j \in 1..Len(connections') : from(i) = from(j) => i = j
    BY <2>2
  <2> HIDE DEF from
  <2>6. SocketTypes'
    BY <2>2, <2>3
  <2>7. Listed'
    <3>1. ASSUME NEW i \in 1..Len(connections'), NEW j \in 1..Len(connections'), connections'[i] = connections'[j]
          PROVE  i = j
      <4>1. /\ from(i) \in 1..Len(connections) /\ connections'[i] = connections[from(i)]
            /\ from(j) \in 1..Len(connections) /\ connections'[j] = connections[from(j)]
        BY <2>4
      <4>2. \A m, n \in 1..Len(connections) : connections[m] = connections[n] => m = n
        BY DEF SocketInv, Listed
      <4> HIDE DEF SocketInv, SocketTypes, Listed, Ahead, Behind, UndisturbedReachesAll
      <4>3. from(i) = from(j)
        BY <3>1, <4>1, <4>2
      <4> QED
        BY <2>5, <4>3
    <3>2. ASSUME NEW i \in 1..Len(connections')
          PROVE  socket'[connections'[i]] # "new"
      <4>1. from(i) \in 1..Len(connections) /\ connections'[i] = connections[from(i)]
        BY <2>4
      <4>2. \A m \in 1..Len(connections) : socket[connections[m]] # "new"
        BY DEF SocketInv, Listed
      <4> HIDE DEF SocketInv, SocketTypes, Listed, Ahead, Behind, UndisturbedReachesAll
      <4> QED
        BY <2>3, <4>1, <4>2
    <3>3. ASSUME NEW d \in Clients, endpoint'[d] = "polling"
          PROVE  \E i \in 1..Len(connections') : connections'[i] = d
      <4>1. PICK i \in 1..Len(connections) : connections[i] = d /\ i # k
        BY <2>1, <2>3, <3>3
      <4>2. CASE i < k
        <5>1. i \in 1..Len(connections') /\ connections'[i] = d
          BY <2>2, <4>1, <4>2
        <5> QED
          BY <5>1
      <4>3. CASE i > k
        <5>1. i - 1 \in 1..Len(connections') /\ connections'[i - 1] = d
          BY <2>2, <4>1, <4>3
        <5> QED
          BY <5>1
      <4> QED
        BY <4>1, <4>2, <4>3
    <3> QED
      BY <3>1, <3>2, <3>3
  <2>8. Ahead'
    <3>1. ASSUME NEW b \in Broadcasts, NEW i \in 1..Len(connections'), index[b] <= i
          PROVE  got[b][connections'[i]] = 0
      <4>1. from(i) \in 1..Len(connections) /\ index[b] <= from(i)
        BY <2>2, <2>4, <3>1
      <4> QED
        BY <2>4, <4>1
    <3> QED
      BY <2>3, <3>1
  <2>9. Behind' /\ UndisturbedReachesAll'
    BY <2>3
  <2> QED
    BY <2>6, <2>7, <2>8, <2>9
<1>4. CASE KeylessMessage(c) \/ NoticeRaises(c)
  <2>1. /\ endpoint' = [endpoint EXCEPT ![c] = "raised"]
        /\ UNCHANGED <<connections, socket, appClosed, broadcasts>>
    BY <1>4 DEF KeylessMessage, NoticeRaises
  <2> QED
    BY <2>1
<1>5. ASSUME NEW how \in {"leave", "lost"}, PeerGoes(c, how)
      PROVE  SocketInv'
  BY <1>5 DEF PeerGoes
<1> QED
  BY <1>1, <1>2, <1>3, <1>4, <1>5 DEF Endpoint

(* A broadcast sends, or tries to send, to the next connection.            *)
LEMMA BroadcastStep ==
    ASSUME SocketInv, NEW b \in Broadcasts, Broadcast(b)
    PROVE  SocketInv'
<1> USE DEF SocketInv, SocketTypes, Listed, Ahead, Behind, UndisturbedReachesAll, Sending, Target, Advance
<1>1. CASE Begin(b)
  <2>1. \A c \in audience'[b] : socket[c] = "open" /\ \E i \in 1..Len(connections) : connections[i] = c
    BY <1>1 DEF Begin, ToSet
  <2>2. \A d \in Broadcasts : d # b => audience'[d] = audience[d] /\ walk'[d] = walk[d]
    BY <1>1 DEF Begin
  <2>3. index'[b] = 1 /\ walk'[b] = "sending"
    BY <1>1 DEF Begin
  <2>4. audience' \in [Broadcasts -> SUBSET Clients]
    BY <1>1 DEF Begin, ToSet
  <2>5. SocketTypes' /\ Listed' /\ Ahead'
    BY <1>1, <2>4 DEF Begin
  <2>6. Behind' /\ UndisturbedReachesAll'
    BY <1>1, <2>1, <2>2, <2>3 DEF Begin
  <2> QED
    BY <2>5, <2>6
<1>2. CASE Deliver(b)
  BY <1>2 DEF Deliver
<1>3. CASE TolerateClosed(b)
  BY <1>3 DEF TolerateClosed
<1>4. CASE SendRaises(b)
  BY <1>4 DEF SendRaises
<1>5. CASE End(b)
  BY <1>5 DEF End
<1> QED
  BY <1>1, <1>2, <1>3, <1>4, <1>5 DEF Broadcast

(* SocketInv holds of every run.                                           *)
LEMMA ConnectionsInvariant == SocketsSpec => []SocketInv
<1>1. SocketsInit => SocketInv
  BY DEF SocketsInit, SocketInv, SocketTypes, Listed, Ahead, Behind, UndisturbedReachesAll
<1>2. SocketInv /\ [SocketsNext]_socketVars => SocketInv'
  <2> SUFFICES ASSUME SocketInv, [SocketsNext]_socketVars PROVE SocketInv'
    OBVIOUS
  <2>1. CASE UNCHANGED socketVars
    BY <2>1 DEF socketVars, SocketInv, SocketTypes, Listed, Ahead, Behind, UndisturbedReachesAll
  <2> QED
    BY <2>1, EndpointStep, BroadcastStep DEF SocketsNext
<1> QED
  BY <1>1, <1>2, PTL DEF SocketsSpec

(* No client receives a broadcast twice, whoever comes, leaves or fails    *)
(* while it walks the list.                                                *)
THEOREM NeverTwice == SocketsSpec => []DeliveredOnce
<1>1. SocketInv => DeliveredOnce
  <2> SUFFICES ASSUME SocketInv, NEW b \in Broadcasts, NEW c \in Clients
               PROVE  got[b][c] <= 1
    BY DEF DeliveredOnce
  <2>1. got[b][c] \in {0, 1}
    BY DEF SocketInv, SocketTypes
  <2> QED
    BY <2>1
<1> QED
  BY <1>1, ConnectionsInvariant, PTL

(* A broadcast that ends without an exception, and during which nobody     *)
(* left the list, reached every client that was there all the time.        *)
THEOREM UndisturbedReaches == SocketsSpec => []UndisturbedReachesAll
BY ConnectionsInvariant, PTL DEF SocketInv
=============================================================================
