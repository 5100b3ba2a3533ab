------------------------------ MODULE MCPubSub ------------------------------
(* Small instances of the topic registry for TLC. *)
EXTENDS PubSub, TLC

\* Every key starts probing at the last cell: all collide and all wrap.
LastTopicCell(name) == 2 * MaxTopics - 1
LastSubCell(s, id) == 2 * MaxSubs - 1

SocketSymmetry == Permutations(Sockets \ Tunnels) \cup Permutations(Names)
=============================================================================
