---------------------------- MODULE MCWriteRing -----------------------------
(* Small instances of the write path for TLC. *)
EXTENDS WriteRing

\* A refused frame of up to Capacity - Half + 1 bytes finds the queue at least half full.
ModerateFrames == {1, Capacity - Half + 1}
LargeFrames == {1, Capacity - Half + 2}
=============================================================================
