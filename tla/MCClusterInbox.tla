--------------------------- MODULE MCClusterInbox ---------------------------
(* Small instances of the cluster inbox for TLC. *)
EXTENDS ClusterInbox, TLC

\* For larger instances without liveness properties.
ProducerSymmetry == Permutations(Producers)
=============================================================================
