\* One slot, used again and again, on every backend; no symmetry, and submit
\* succeeds: liveness is checked.
CONSTANTS
  Slots = {s1}
  NoSlot = none
  SubmitMayFail = FALSE
SPECIFICATION FairSpec
INVARIANTS NoStaleCompletion NothingIsStranded ShutdownIsComplete
PROPERTIES SlotsReturn ShutdownEnds
CHECK_DEADLOCK FALSE
