--------------------------- MODULE MCConnections ----------------------------
(***************************************************************************)
(* Values for model checking Connections.                                  *)
(***************************************************************************)
EXTENDS Connections

AllFaults == {"leave", "lost", "keyless", "notice"}
AnyName == Permutations(Clients) \cup Permutations(Broadcasts)
=============================================================================
