---------------------------- MODULE MCScheduler -----------------------------
(* Small instances of the timer scheduler for TLC. *)
EXTENDS Scheduler

\* Levels of 2 and 2 slots: spans of 2 and 4 milliseconds.
TwoLevels == <<2, 2>>
TwoSpans == [l \in 0 .. 2 |-> 2 ^ l]
=============================================================================
