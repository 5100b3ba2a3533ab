\* Frames of up to half of the queue and one byte; files shorter and longer than the queue.
CONSTANTS
  Capacity = 4
  FrameSizes <- ModerateFrames
  FileLengths = {1, 5}
  MaxBytes = 7
SPECIFICATION FairSpec
INVARIANTS StreamIntact
PROPERTIES InFlightIsStable EverythingIsSent RefusedSendIsResumed
CHECK_DEADLOCK FALSE
