\* A frame larger than half of the queue.
CONSTANTS
  Capacity = 4
  FrameSizes <- LargeFrames
  FileLengths = {}
  MaxBytes = 5
SPECIFICATION FairSpec
PROPERTIES RefusedSendIsResumed
CHECK_DEADLOCK FALSE
