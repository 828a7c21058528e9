---------------------------- MODULE Connections -----------------------------
(***************************************************************************)
(* The web sockets: SocketConnectionManager and the endpoint task of each   *)
(* client.  A broadcast walks the list of active connections by position   *)
(* and suspends after each send; meanwhile clients connect and leave, and  *)
(* other broadcasts walk the same list.                                    *)
(*                                                                         *)
(* The socket layer (starlette 0.27, uvicorn 0.15, websockets 11) is       *)
(* external: a send to a socket its peer closed raises ConnectionClosedOK, *)
(* to one that was lost ConnectionClosedError, and to one the application  *)
(* itself closed, or whose endpoint task ended, RuntimeError.              *)
(***************************************************************************)
EXTENDS Naturals, Sequences, SequencesExt

CONSTANTS Clients,      \* client connections, each used once
          Broadcasts,   \* broadcasts, each made once
          Faults        \* what may go wrong: "leave", "lost", "keyless", "notice"

ASSUME ConnectionsAssumption ==
    Faults \subseteq {"leave", "lost", "keyless", "notice"}

VARIABLES
    connections, \* active_connections
    socket,      \* client -> "new", "open", "closed" or "lost" (by the peer)
    endpoint,    \* client -> "none", "polling", "left" or "raised"
    appClosed,   \* clients whose socket the application closed
    walk,        \* broadcast -> "idle", "sending", "done" or "raised"
    index,       \* broadcast -> the position in connections it sends to next
    got,         \* history: broadcast -> client -> how often it was delivered
    audience,    \* history: broadcast -> the clients there from its start on
    disturbed    \* history: broadcasts during which a client left the list

socketVars == <<connections, socket, endpoint, appClosed, walk, index, got, audience, disturbed>>
clients == <<connections, socket, endpoint, appClosed>>
broadcasts == <<walk, index, got, audience, disturbed>>

SocketsInit ==
    /\ connections = <<>>
    /\ socket = [c \in Clients |-> "new"]
    /\ endpoint = [c \in Clients |-> "none"]
    /\ appClosed = {}
    /\ walk = [b \in Broadcasts |-> "idle"]
    /\ index = [b \in Broadcasts |-> 1]
    /\ got = [b \in Broadcasts |-> [c \in Clients |-> 0]]
    /\ audience = [b \in Broadcasts |-> {}]
    /\ disturbed = {}

-----------------------------------------------------------------------------
(***************************************************************************)
(* websocket_endpoint, connect and disconnect.                             *)
(***************************************************************************)
\* Mutant: new connections are put first.
ConnectFirst(c) ==
    /\ socket[c] = "new"
    /\ socket' = [socket EXCEPT ![c] = "open"]
    /\ endpoint' = [endpoint EXCEPT ![c] = "polling"]
    /\ connections' = <<c>> \o connections
    /\ UNCHANGED <<appClosed, broadcasts>>

Connect(c) ==
    /\ socket[c] = "new"
    /\ socket' = [socket EXCEPT ![c] = "open"]
    /\ endpoint' = [endpoint EXCEPT ![c] = "polling"]
    /\ connections' = Append(connections, c)
    /\ UNCHANGED <<appClosed, broadcasts>>

\* accept() raises: the connection is not listed.
ConnectFails(c) ==
    /\ socket[c] = "new"
    /\ socket' = [socket EXCEPT ![c] = "lost"]
    /\ endpoint' = [endpoint EXCEPT ![c] = "raised"]
    /\ UNCHANGED <<connections, appClosed, broadcasts>>

\* The peer goes away, in order ("leave") or not ("lost").
PeerGoes(c, how) ==
    /\ how \in Faults \cap {"leave", "lost"}
    /\ socket[c] = "open"
    /\ socket' = [socket EXCEPT ![c] = IF how = "leave" THEN "closed" ELSE "lost"]
    /\ audience' = [b \in Broadcasts |-> audience[b] \ {c}]
    /\ UNCHANGED <<connections, endpoint, appClosed, walk, index, got, disturbed>>

\* The endpoint polls, receives WebSocketDisconnect and removes the connection.
Disconnect(c) ==
    /\ endpoint[c] = "polling"
    /\ socket[c] \in {"closed", "lost"}
    /\ endpoint' = [endpoint EXCEPT ![c] = "left"]
    /\ connections' = RemoveFirst(connections, c)
    /\ disturbed' = disturbed \cup {b \in Broadcasts : walk[b] = "sending"}
    /\ UNCHANGED <<socket, appClosed, walk, index, got, audience>>

\* A message without a "type" (or without a payload): the KeyError passes the
\* endpoint, which ends without removing the connection.
KeylessMessage(c) ==
    /\ "keyless" \in Faults
    /\ endpoint[c] = "polling"
    /\ socket[c] = "open"
    /\ endpoint' = [endpoint EXCEPT ![c] = "raised"]
    /\ UNCHANGED <<connections, socket, appClosed, broadcasts>>

\* The notice that a message is invalid is sent to a peer that has gone: what
\* the send raises is not WebSocketDisconnect either.
NoticeRaises(c) ==
    /\ "notice" \in Faults
    /\ endpoint[c] = "polling"
    /\ socket[c] \in {"closed", "lost"}
    /\ endpoint' = [endpoint EXCEPT ![c] = "raised"]
    /\ UNCHANGED <<connections, socket, appClosed, broadcasts>>

-----------------------------------------------------------------------------
(***************************************************************************)
(* broadcast.  One step sends to one connection and suspends.              *)
(***************************************************************************)
Begin(b) ==
    /\ walk[b] = "idle"
    /\ walk' = [walk EXCEPT ![b] = "sending"]
    /\ audience' = [audience EXCEPT ![b] = {c \in ToSet(connections) : socket[c] = "open"}]
    /\ UNCHANGED <<clients, index, got, disturbed>>

Target(b) == connections[index[b]]

Sending(b) == walk[b] = "sending" /\ index[b] <= Len(connections)

Advance(b) == index' = [index EXCEPT ![b] = @ + 1]

Deliver(b) ==
    /\ Sending(b)
    /\ socket[Target(b)] = "open"
    /\ endpoint[Target(b)] = "polling"
    /\ got' = [got EXCEPT ![b][Target(b)] = @ + 1]
    /\ Advance(b)
    /\ UNCHANGED <<clients, walk, audience, disturbed>>

\* Mutant: the first closed connection ends the loop.
TolerateClosedStops(b) ==
    /\ Sending(b)
    /\ socket[Target(b)] = "closed"
    /\ endpoint[Target(b)] = "polling"
    /\ Target(b) \notin appClosed
    /\ appClosed' = appClosed \cup {Target(b)}
    /\ walk' = [walk EXCEPT ![b] = "done"]
    /\ UNCHANGED <<connections, socket, endpoint, index, got, audience, disturbed>>

\* ConnectionClosedOK: the application closes its side and goes on.
TolerateClosed(b) ==
    /\ Sending(b)
    /\ socket[Target(b)] = "closed"
    /\ endpoint[Target(b)] = "polling"
    /\ Target(b) \notin appClosed
    /\ appClosed' = appClosed \cup {Target(b)}
    /\ Advance(b)
    /\ UNCHANGED <<connections, socket, endpoint, walk, got, audience, disturbed>>

\* Any other exception ends the broadcast: the later connections get nothing.
SendRaises(b) ==
    /\ Sending(b)
    /\ \/ endpoint[Target(b)] # "polling"
       \/ socket[Target(b)] = "lost"
       \/ Target(b) \in appClosed
    /\ walk' = [walk EXCEPT ![b] = "raised"]
    /\ UNCHANGED <<clients, index, got, audience, disturbed>>

End(b) ==
    /\ walk[b] = "sending"
    /\ index[b] > Len(connections)
    /\ walk' = [walk EXCEPT ![b] = "done"]
    /\ UNCHANGED <<clients, index, got, audience, disturbed>>

-----------------------------------------------------------------------------
Endpoint(c) ==
    \/ Connect(c) \/ ConnectFails(c) \/ Disconnect(c) \/ KeylessMessage(c) \/ NoticeRaises(c)
    \/ \E how \in {"leave", "lost"} : PeerGoes(c, how)

Broadcast(b) == Begin(b) \/ Deliver(b) \/ TolerateClosed(b) \/ SendRaises(b) \/ End(b)

SocketsNext == (\E c \in Clients : Endpoint(c)) \/ (\E b \in Broadcasts : Broadcast(b))

SocketsSpec == SocketsInit /\ [][SocketsNext]_socketVars

-----------------------------------------------------------------------------
(***************************************************************************)
(* Properties.                                                             *)
(***************************************************************************)
(* Clients that come and go while a broadcast walks the list make it skip, *)
(* but never repeat: nobody receives a message twice.                      *)
DeliveredOnce == \A b \in Broadcasts, c \in Clients : got[b][c] <= 1

(* A broadcast that ends without an exception reached every client that    *)
(* was connected from its start to its end, if none left the list during   *)
(* it: closed connections on the way are passed over.  (If one leaves, the *)
(* client after it in the list may be skipped.)                            *)
UndisturbedReachesAll ==
    \A b \in Broadcasts : walk[b] = "done" /\ b \notin disturbed =>
        \A c \in audience[b] : got[b][c] = 1
=============================================================================
