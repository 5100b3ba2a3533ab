------------------------- MODULE MCClusterLifecycle -------------------------
(* Small instances of the cluster lifecycle for TLC. *)
EXTENDS ClusterLifecycle, TLC

\* For larger instances without liveness properties.
ThreadSymmetry == Permutations(Callers) \cup Permutations(Releasers)
=============================================================================
