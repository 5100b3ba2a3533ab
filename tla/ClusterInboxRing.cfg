\* Two producers on a two-slot ring: it fills, each is overtaken by a whole lap,
\* and four messages wrap it twice.  No symmetry: liveness is checked.
CONSTANTS
  Capacity = 2
  Producers = {p1, p2}
  MaxMessages = 2
SPECIFICATION FairSpec
PROPERTIES FullOnlyWhenFull FifoSpec AcceptedIsDelivered ShutdownIsSeen
CHECK_DEADLOCK FALSE
