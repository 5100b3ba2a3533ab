\* Two workers, so that one failure has another loop to stop; two releasers,
\* so that one loses the claim and waits for the other.
CONSTANTS
  WorkerCount = 2
  Callers = {c1}
  Releasers = {d1, d2}
  Runner = runner
  MaxCalls = 1
SPECIFICATION FairSpec
INVARIANTS StorageOutlivesUsers
PROPERTIES FailureEndsRun ShutdownEndsRun ReleaseCompletes
CHECK_DEADLOCK FALSE
