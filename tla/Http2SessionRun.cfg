\* One slot, two identifiers; windows that fill, empty, go below zero and overflow.
SPECIFICATION Spec
CONSTANTS
  MaxStreams = 1
  Ids = {1, 3}
  DefaultWindow = 2
  MaxWindow = 3
  Width = 2
  DataSizes = {2}
  Increments = {0, 1}
  InitialWindows = {0, 3}
  BodySizes = {0, 3}
  FrameCapacity = 2
INVARIANTS CreditAgrees IdentifiersAreKnown SlotsComeBack ChecksNeverFail
PROPERTIES NoOverrun
CHECK_DEADLOCK FALSE
