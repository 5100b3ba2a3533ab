----------------------- MODULE MCConnectionLifecycle ------------------------
(* Small instances of the connection lifecycle for TLC. *)
EXTENDS ConnectionLifecycle, TLC

\* For larger instances without liveness properties.
SlotSymmetry == Permutations(Slots)
=============================================================================
