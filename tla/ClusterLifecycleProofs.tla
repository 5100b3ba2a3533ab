----------------------- MODULE ClusterLifecycleProofs -----------------------
(***************************************************************************)
(* Proofs about the cluster lifecycle for every number of workers, callers *)
(* and releasers.                                                          *)
(***************************************************************************)
EXTENDS ClusterLifecycle, FiniteSetTheorems, TLAPS

USE DEF group, record, callVars, runVars, releaseVars

-----------------------------------------------------------------------------
(* Types.                                                                  *)

(* Who the threads are: callers, worker threads and the runner are         *)
(* pairwise different, and worker indexes are those of self.workers.       *)
LEMMA ThreadKinds ==
  /\ \A c \in Callers : c \in Threads /\ c \notin Workers /\ c # Runner
  /\ \A w \in Workers : w \in Threads /\ w # Runner
  /\ Runner \in Threads
  /\ 0 \in Workers
  /\ \A w \in Workers : w \in Nat /\ w < WorkerCount
  /\ \A i \in Workers : i + 1 < WorkerCount => i + 1 \in Workers
BY WorkerCountAssumption, ThreadsAssumption DEF Threads, Workers

(* The thread set is finite, so the call counter can be a cardinality.     *)
LEMMA ThreadsFinite ==
  ASSUME NEW S \in SUBSET Threads
  PROVE  IsFiniteSet(S)
<1>1. IsFiniteSet(Workers)
  BY FS_Interval, WorkerCountAssumption DEF Workers
<1>2. IsFiniteSet(Callers \cup Workers)
  BY <1>1, FS_Union, ThreadsAssumption
<1>3. IsFiniteSet(Threads)
  BY <1>2, FS_AddElement DEF Threads
<1> QED
  BY <1>3, FS_Subset

(* ... before a step and after it.                                         *)
LEMMA InFlightFinite == IsFiniteSet(InFlight) /\ IsFiniteSet(InFlight')
<1>1. InFlight \in SUBSET Threads /\ InFlight' \in SUBSET Threads
  BY DEF InFlight
<1> QED
  BY <1>1, ThreadsFinite

(* The increment of enter counts the thread that made it ...               *)
LEMMA EnterCounts ==
  ASSUME TypeOK, NEW t \in Threads, call[t] = "out",
         call' = [call EXCEPT ![t] = "entered"]
  PROVE  Cardinality(InFlight') = Cardinality(InFlight) + 1
<1>1. InFlight' = InFlight \cup {t} /\ t \notin InFlight
  BY DEF InFlight, TypeOK
<1> QED
  BY <1>1, InFlightFinite, FS_AddElement

(* ... every place between enter and leave keeps it counted ...            *)
LEMMA StayCounts ==
  ASSUME TypeOK, NEW t \in Threads, call[t] # "out",
         NEW p, p # "out", call' = [call EXCEPT ![t] = p]
  PROVE  InFlight' = InFlight
BY DEF InFlight, TypeOK

(* ... and the decrement of leave takes it out.                            *)
LEMMA LeaveCounts ==
  ASSUME TypeOK, NEW t \in Threads, call[t] # "out",
         call' = [call EXCEPT ![t] = "out"]
  PROVE  Cardinality(InFlight') = Cardinality(InFlight) - 1
<1>1. InFlight' = InFlight \ {t} /\ t \in InFlight
  BY DEF InFlight, TypeOK
<1> QED
  BY <1>1, InFlightFinite, FS_RemoveElement

(* Every step keeps the call counter equal to the threads inside a call.   *)
LEMMA StepCallsCounted ==
  ASSUME TypeOK, CallsCounted, RunPhases, WorkersCounted, [Next]_vars
  PROVE  CallsCounted'
<1>1. CASE \E c \in Callers, o \in Ops : CallerEnters(c, o)
<2>1. PICK c \in Callers, o \in Ops : CallerEnters(c, o)
    BY <1>1
<2>2. call[c] = "out" /\ call' = [call EXCEPT ![c] = "entered"] /\ calls' = calls + 1
    BY <2>1 DEF CallerEnters, Enter
<2>3. Cardinality(InFlight') = Cardinality(InFlight) + 1
    BY <2>2, EnterCounts, ThreadKinds
<2> QED
    BY <2>1, <2>2, <2>3, ThreadKinds DEF CallerEnters, CallsCounted, TypeOK
<1>2. CASE \E t \in Threads : EnterLoad(t)
<2>1. PICK t \in Threads : EnterLoad(t)
    BY <1>2
<2>2. call[t] # "out" /\ InFlight' = InFlight
    BY <2>1, StayCounts DEF EnterLoad
<2> QED
    BY <2>1, <2>2 DEF EnterLoad, CallsCounted, TypeOK
<1>3. CASE \E t \in Threads : CallCheck(t)
<2>1. PICK t \in Threads : CallCheck(t)
    BY <1>3
<2>2. call[t] # "out" /\ InFlight' = InFlight
    BY <2>1, StayCounts DEF CallCheck
<2> QED
    BY <2>1, <2>2 DEF CallCheck, CallsCounted, TypeOK
<1>4. CASE \E t \in Threads : CallTouch(t)
<2>1. PICK t \in Threads : CallTouch(t)
    BY <1>4
<2>2. call[t] # "out" /\ InFlight' = InFlight
    BY <2>1, StayCounts DEF CallTouch
<2> QED
    BY <2>1, <2>2 DEF CallTouch, CallsCounted, TypeOK
<1>5. CASE \E t \in Threads : CallLeave(t)
<2>1. PICK t \in Threads : CallLeave(t)
    BY <1>5
<2>2. Cardinality(InFlight') = Cardinality(InFlight) - 1
    BY <2>1, LeaveCounts DEF CallLeave
<2> QED
    BY <2>1, <2>2, ThreadKinds DEF CallLeave, CallsCounted, TypeOK
<1>6. CASE \E w \in Workers : WorkerStops(w)
  BY <1>6 DEF WorkerStops, CallsCounted, InFlight, TypeOK
<1>7. CASE \E w \in Workers : WorkerRequestsShutdown(w)
<2>1. PICK w \in Workers : WorkerRequestsShutdown(w)
    BY <1>7
<2>2. call[w] = "out" /\ call' = [call EXCEPT ![w] = "entered"] /\ calls' = calls + 1
    BY <2>1 DEF WorkerRequestsShutdown, Enter
<2>3. Cardinality(InFlight') = Cardinality(InFlight) + 1
    BY <2>2, EnterCounts, ThreadKinds
<2> QED
    BY <2>1, <2>2, <2>3, ThreadKinds DEF WorkerRequestsShutdown, CallsCounted, TypeOK
<1>8. CASE \E w \in Workers : WorkerFails(w)
  BY <1>8 DEF WorkerFails, record_failure, CallsCounted, InFlight, TypeOK
<1>9. CASE RunBegin
  BY <1>9 DEF RunBegin, CallsCounted, InFlight, TypeOK
<1>10. CASE RunStart
  BY <1>10 DEF RunStart, CallsCounted, InFlight, TypeOK
<1>11. CASE SpawnWorker
  BY <1>11 DEF SpawnWorker, CallsCounted, InFlight, TypeOK, RunPhases, WorkersCounted,
     Alive
<1>12. CASE SpawnFails
  BY <1>12 DEF SpawnFails, record_failure, CallsCounted, InFlight, TypeOK
<1>13. CASE CountStarted
  BY <1>13 DEF CountStarted, CallsCounted, InFlight, TypeOK
<1>14. CASE RunRequestsShutdown
<2>2. call[Runner] = "out" /\ call' = [call EXCEPT ![Runner] = "entered"] /\ calls' = calls + 1
    BY <1>14 DEF RunRequestsShutdown, Enter
<2>3. Cardinality(InFlight') = Cardinality(InFlight) + 1
    BY <2>2, EnterCounts, ThreadKinds
<2> QED
    BY <1>14, <2>2, <2>3, ThreadKinds DEF RunRequestsShutdown, CallsCounted, TypeOK
<1>15. CASE JoinAll
  BY <1>15 DEF JoinAll, CallsCounted, InFlight, TypeOK
<1>16. CASE ClearRunning
  BY <1>16 DEF ClearRunning, CallsCounted, InFlight, TypeOK
<1>17. CASE CleanupWorker
  BY <1>17 DEF CleanupWorker, record_failure, CallsCounted, InFlight, TypeOK
<1>18. CASE RunResult
  BY <1>18 DEF RunResult, CallsCounted, InFlight, TypeOK
<1>19. CASE finish_run
  BY <1>19 DEF finish_run, CallsCounted, InFlight, TypeOK
<1>20. CASE \E d \in Releasers : ReleaseLoad(d)
  BY <1>20 DEF ReleaseLoad, CallsCounted, InFlight, TypeOK
<1>21. CASE \E d \in Releasers : ReleaseFlag(d)
  BY <1>21 DEF ReleaseFlag, CallsCounted, InFlight, TypeOK
<1>22. CASE \E d \in Releasers : ReleaseClaim(d)
  BY <1>22 DEF ReleaseClaim, CallsCounted, InFlight, TypeOK
<1>23. CASE \E d \in Releasers : WaitIdle(d)
  BY <1>23 DEF WaitIdle, CallsCounted, InFlight, TypeOK
<1>24. CASE \E d \in Releasers : ReleaseFree(d)
  BY <1>24 DEF ReleaseFree, CallsCounted, InFlight, TypeOK
<1>25. CASE \E d \in Releasers : finish_release(d)
  BY <1>25 DEF finish_release, CallsCounted, InFlight, TypeOK
<1>26. CASE \E d \in Releasers : WaitReleased(d)
  BY <1>26 DEF WaitReleased, CallsCounted, InFlight, TypeOK
<1>27. CASE UNCHANGED vars
  BY <1>27 DEF vars, CallsCounted, InFlight, TypeOK
<1> QED
  BY <1>1, <1>2, <1>3, <1>4, <1>5, <1>6, <1>7, <1>8, <1>9, <1>10, <1>11, <1>12, <1>13,
     <1>14, <1>15, <1>16, <1>17, <1>18, <1>19, <1>20, <1>21, <1>22, <1>23, <1>24,
     <1>25, <1>26, <1>27 DEF Next, CallStep, WorkerStep, RunStep, ReleaseStep

(* record_failure stores a worker index and a phase, and counts.           *)
LEMMA RecordTyped ==
  ASSUME TypeOK, NEW i \in Workers, NEW phase \in {"spawn", "run", "cleanup"},
         record_failure(i, phase)
  PROVE  /\ first_failure' \in Failure \ {None}
         /\ first_failure # None => first_failure' = first_failure
         /\ failures' = failures + 1
<1>1. [index |-> i, phase |-> phase] # None
  BY DEF None
<1>2. [index |-> i, phase |-> phase] \in Failure
  BY DEF Failure
<1> QED
  BY <1>1, <1>2 DEF record_failure, TypeOK

(* Every step keeps the types; the counter stays a natural number because  *)
(* it is a cardinality.                                                    *)
LEMMA StepTypeOK ==
  ASSUME TypeOK, CallsCounted', [Next]_vars
  PROVE  TypeOK'
<1>0. calls' = Cardinality(InFlight') /\ IsFiniteSet(InFlight')
  BY InFlightFinite DEF CallsCounted
<1>1. CASE \E c \in Callers, o \in Ops : CallerEnters(c, o)
  BY <1>1, ThreadKinds DEF CallerEnters, Enter, TypeOK, Lifecycles, Ops, CallPlaces,
     WorkerPlaces, RunPlaces, ReleasePlaces
<1>2. CASE \E t \in Threads : EnterLoad(t)
  BY <1>2, ThreadKinds DEF EnterLoad, TypeOK, Lifecycles, Ops, CallPlaces,
     WorkerPlaces, RunPlaces, ReleasePlaces
<1>3. CASE \E t \in Threads : CallCheck(t)
  BY <1>3, ThreadKinds DEF CallCheck, TypeOK, Lifecycles, Ops, CallPlaces,
     WorkerPlaces, RunPlaces, ReleasePlaces
<1>4. CASE \E t \in Threads : CallTouch(t)
  BY <1>4, ThreadKinds DEF CallTouch, TypeOK, Lifecycles, Ops, CallPlaces,
     WorkerPlaces, RunPlaces, ReleasePlaces
<1>5. CASE \E t \in Threads : CallLeave(t)
<2>1. calls' \in Nat
    BY InFlightFinite, FS_CardinalityType, <1>0
<2> QED
    BY <1>5, <2>1, ThreadKinds DEF CallLeave, TypeOK, Lifecycles, Ops, CallPlaces, WorkerPlaces, RunPlaces, ReleasePlaces
<1>6. CASE \E w \in Workers : WorkerStops(w)
  BY <1>6, ThreadKinds DEF WorkerStops, TypeOK, Lifecycles, Ops, CallPlaces,
     WorkerPlaces, RunPlaces, ReleasePlaces
<1>7. CASE \E w \in Workers : WorkerRequestsShutdown(w)
  BY <1>7, ThreadKinds DEF WorkerRequestsShutdown, Enter, TypeOK, Lifecycles, Ops,
     CallPlaces, WorkerPlaces, RunPlaces, ReleasePlaces
<1>8. CASE \E w \in Workers : WorkerFails(w)
<2>1. PICK w \in Workers : WorkerFails(w)
    BY <1>8
<2>2. first_failure' \in Failure /\ failures' \in Nat
    BY <2>1, RecordTyped DEF WorkerFails, TypeOK
<2> QED
    BY <2>1, <2>2, ThreadKinds DEF WorkerFails, TypeOK, Lifecycles, Ops, CallPlaces, WorkerPlaces, RunPlaces, ReleasePlaces
<1>9. CASE RunBegin
  BY <1>9, ThreadKinds DEF RunBegin, TypeOK, Lifecycles, Ops, CallPlaces, WorkerPlaces,
     RunPlaces, ReleasePlaces
<1>10. CASE RunStart
  BY <1>10, ThreadKinds DEF RunStart, TypeOK, Lifecycles, Ops, CallPlaces,
     WorkerPlaces, RunPlaces, ReleasePlaces, Failure
<1>11. CASE SpawnWorker
  BY <1>11, ThreadKinds DEF SpawnWorker, TypeOK, Lifecycles, Ops, CallPlaces,
     WorkerPlaces, RunPlaces, ReleasePlaces
<1>12. CASE SpawnFails
<2>1. SpawnFails
    BY <1>12
<2>2. first_failure' \in Failure /\ failures' \in Nat
    BY <2>1, RecordTyped DEF SpawnFails, TypeOK
<2> QED
    BY <2>1, <2>2, ThreadKinds DEF SpawnFails, TypeOK, Lifecycles, Ops, CallPlaces, WorkerPlaces, RunPlaces, ReleasePlaces
<1>13. CASE CountStarted
  BY <1>13, ThreadKinds, WorkerCountAssumption DEF CountStarted, TypeOK, Lifecycles,
     Ops, CallPlaces, WorkerPlaces, RunPlaces, ReleasePlaces
<1>14. CASE RunRequestsShutdown
  BY <1>14, ThreadKinds DEF RunRequestsShutdown, Enter, TypeOK, Lifecycles, Ops,
     CallPlaces, WorkerPlaces, RunPlaces, ReleasePlaces
<1>15. CASE JoinAll
  BY <1>15, ThreadKinds, WorkerCountAssumption DEF JoinAll, TypeOK, Lifecycles, Ops,
     CallPlaces, WorkerPlaces, RunPlaces, ReleasePlaces
<1>16. CASE ClearRunning
  BY <1>16, ThreadKinds DEF ClearRunning, TypeOK, Lifecycles, Ops, CallPlaces,
     WorkerPlaces, RunPlaces, ReleasePlaces
<1>17. CASE CleanupWorker
<2>1. first_failure' \in Failure /\ failures' \in Nat
    BY <1>17, RecordTyped DEF CleanupWorker, TypeOK
<2> QED
    BY <1>17, <2>1, ThreadKinds DEF CleanupWorker, TypeOK, Lifecycles, Ops, CallPlaces, WorkerPlaces, RunPlaces, ReleasePlaces
<1>18. CASE RunResult
  BY <1>18, ThreadKinds DEF RunResult, TypeOK, Lifecycles, Ops, CallPlaces,
     WorkerPlaces, RunPlaces, ReleasePlaces
<1>19. CASE finish_run
  BY <1>19, ThreadKinds DEF finish_run, TypeOK, Lifecycles, Ops, CallPlaces,
     WorkerPlaces, RunPlaces, ReleasePlaces
<1>20. CASE \E d \in Releasers : ReleaseLoad(d)
  BY <1>20, ThreadKinds DEF ReleaseLoad, TypeOK, Lifecycles, Ops, CallPlaces,
     WorkerPlaces, RunPlaces, ReleasePlaces
<1>21. CASE \E d \in Releasers : ReleaseFlag(d)
  BY <1>21, ThreadKinds DEF ReleaseFlag, TypeOK, Lifecycles, Ops, CallPlaces,
     WorkerPlaces, RunPlaces, ReleasePlaces
<1>22. CASE \E d \in Releasers : ReleaseClaim(d)
  BY <1>22, ThreadKinds DEF ReleaseClaim, TypeOK, Lifecycles, Ops, CallPlaces,
     WorkerPlaces, RunPlaces, ReleasePlaces
<1>23. CASE \E d \in Releasers : WaitIdle(d)
  BY <1>23, ThreadKinds DEF WaitIdle, TypeOK, Lifecycles, Ops, CallPlaces,
     WorkerPlaces, RunPlaces, ReleasePlaces
<1>24. CASE \E d \in Releasers : ReleaseFree(d)
  BY <1>24, ThreadKinds DEF ReleaseFree, TypeOK, Lifecycles, Ops, CallPlaces,
     WorkerPlaces, RunPlaces, ReleasePlaces
<1>25. CASE \E d \in Releasers : finish_release(d)
  BY <1>25, ThreadKinds DEF finish_release, TypeOK, Lifecycles, Ops, CallPlaces,
     WorkerPlaces, RunPlaces, ReleasePlaces
<1>26. CASE \E d \in Releasers : WaitReleased(d)
  BY <1>26, ThreadKinds DEF WaitReleased, TypeOK, Lifecycles, Ops, CallPlaces,
     WorkerPlaces, RunPlaces, ReleasePlaces
<1>27. CASE UNCHANGED vars
  BY <1>27 DEF vars, TypeOK, Lifecycles, Ops, CallPlaces, WorkerPlaces, RunPlaces,
     ReleasePlaces
<1> QED
  BY <1>1, <1>2, <1>3, <1>4, <1>5, <1>6, <1>7, <1>8, <1>9, <1>10, <1>11, <1>12, <1>13,
     <1>14, <1>15, <1>16, <1>17, <1>18, <1>19, <1>20, <1>21, <1>22, <1>23, <1>24,
     <1>25, <1>26, <1>27 DEF Next, CallStep, WorkerStep, RunStep, ReleaseStep

-----------------------------------------------------------------------------
(* The parts of the inductive invariant.                                   *)

(* Every step keeps lifecycle, running and started in step with run.       *)
LEMMA StepRunPhases ==
  ASSUME TypeOK, CallsCounted, RunPhases, OneOwner, [Next]_vars
  PROVE  RunPhases'
<1>1. CASE \E c \in Callers, o \in Ops : CallerEnters(c, o)
  BY <1>1 DEF CallerEnters, Enter, RunPhases, RunActive, TypeOK
<1>2. CASE \E t \in Threads : EnterLoad(t)
  BY <1>2 DEF EnterLoad, RunPhases, RunActive, TypeOK
<1>3. CASE \E t \in Threads : CallCheck(t)
  BY <1>3 DEF CallCheck, RunPhases, RunActive, TypeOK
<1>4. CASE \E t \in Threads : CallTouch(t)
  BY <1>4 DEF CallTouch, RunPhases, RunActive, TypeOK
<1>5. CASE \E t \in Threads : CallLeave(t)
  BY <1>5 DEF CallLeave, RunPhases, RunActive, TypeOK, CallsCounted
<1>6. CASE \E w \in Workers : WorkerStops(w)
  BY <1>6 DEF WorkerStops, RunPhases, RunActive, TypeOK
<1>7. CASE \E w \in Workers : WorkerRequestsShutdown(w)
  BY <1>7 DEF WorkerRequestsShutdown, Enter, RunPhases, RunActive, TypeOK
<1>8. CASE \E w \in Workers : WorkerFails(w)
  BY <1>8 DEF WorkerFails, record_failure, RunPhases, RunActive, TypeOK
<1>9. CASE RunBegin
  BY <1>9 DEF RunBegin, RunPhases, RunActive, TypeOK
<1>10. CASE RunStart
  BY <1>10, ThreadKinds DEF RunStart, RunPhases, RunActive, TypeOK
<1>11. CASE SpawnWorker
  BY <1>11 DEF SpawnWorker, RunPhases, RunActive, TypeOK
<1>12. CASE SpawnFails
  BY <1>12 DEF SpawnFails, record_failure, RunPhases, RunActive, TypeOK
<1>13. CASE CountStarted
  BY <1>13, ThreadKinds DEF CountStarted, RunPhases, RunActive, TypeOK
<1>14. CASE RunRequestsShutdown
  BY <1>14 DEF RunRequestsShutdown, Enter, RunPhases, RunActive, TypeOK
<1>15. CASE JoinAll
  BY <1>15 DEF JoinAll, RunPhases, RunActive, TypeOK
<1>16. CASE ClearRunning
  BY <1>16 DEF ClearRunning, RunPhases, RunActive, TypeOK
<1>17. CASE CleanupWorker
  BY <1>17 DEF CleanupWorker, record_failure, RunPhases, RunActive, TypeOK
<1>18. CASE RunResult
  BY <1>18 DEF RunResult, RunPhases, RunActive, TypeOK
<1>19. CASE finish_run
  BY <1>19 DEF finish_run, RunPhases, RunActive, TypeOK
<1>20. CASE \E d \in Releasers : ReleaseLoad(d)
  BY <1>20 DEF ReleaseLoad, RunPhases, RunActive, TypeOK
<1>21. CASE \E d \in Releasers : ReleaseFlag(d)
  BY <1>21 DEF ReleaseFlag, RunPhases, RunActive, TypeOK
<1>22. CASE \E d \in Releasers : ReleaseClaim(d)
  BY <1>22 DEF ReleaseClaim, RunPhases, RunActive, TypeOK, OneOwner
<1>23. CASE \E d \in Releasers : WaitIdle(d)
  BY <1>23 DEF WaitIdle, RunPhases, RunActive, TypeOK
<1>24. CASE \E d \in Releasers : ReleaseFree(d)
  BY <1>24 DEF ReleaseFree, RunPhases, RunActive, TypeOK
<1>25. CASE \E d \in Releasers : finish_release(d)
  BY <1>25 DEF finish_release, RunPhases, RunActive, TypeOK, OneOwner, Owns
<1>26. CASE \E d \in Releasers : WaitReleased(d)
  BY <1>26 DEF WaitReleased, RunPhases, RunActive, TypeOK
<1>27. CASE UNCHANGED vars
  BY <1>27 DEF vars, RunPhases, RunActive, TypeOK
<1> QED
  BY <1>1, <1>2, <1>3, <1>4, <1>5, <1>6, <1>7, <1>8, <1>9, <1>10, <1>11, <1>12, <1>13,
     <1>14, <1>15, <1>16, <1>17, <1>18, <1>19, <1>20, <1>21, <1>22, <1>23, <1>24,
     <1>25, <1>26, <1>27 DEF Next, CallStep, WorkerStep, RunStep, ReleaseStep

(* Every step keeps each live worker thread under a handle that join waits  *)
(* for.                                                                    *)
LEMMA StepWorkersCounted ==
  ASSUME TypeOK, CallsCounted, RunPhases, WorkersCounted, [Next]_vars
  PROVE  WorkersCounted'
<1>1. CASE \E c \in Callers, o \in Ops : CallerEnters(c, o)
  BY <1>1 DEF CallerEnters, Enter, WorkersCounted, Alive, TypeOK
<1>2. CASE \E t \in Threads : EnterLoad(t)
  BY <1>2 DEF EnterLoad, WorkersCounted, Alive, TypeOK
<1>3. CASE \E t \in Threads : CallCheck(t)
  BY <1>3 DEF CallCheck, WorkersCounted, Alive, TypeOK
<1>4. CASE \E t \in Threads : CallTouch(t)
  BY <1>4 DEF CallTouch, WorkersCounted, Alive, TypeOK
<1>5. CASE \E t \in Threads : CallLeave(t)
  BY <1>5, ThreadKinds DEF CallLeave, WorkersCounted, Alive, TypeOK, CallsCounted
<1>6. CASE \E w \in Workers : WorkerStops(w)
  BY <1>6 DEF WorkerStops, WorkersCounted, Alive, TypeOK
<1>7. CASE \E w \in Workers : WorkerRequestsShutdown(w)
  BY <1>7 DEF WorkerRequestsShutdown, Enter, WorkersCounted, Alive, TypeOK
<1>8. CASE \E w \in Workers : WorkerFails(w)
  BY <1>8 DEF WorkerFails, record_failure, WorkersCounted, Alive, TypeOK
<1>9. CASE RunBegin
  BY <1>9 DEF RunBegin, WorkersCounted, Alive, TypeOK
<1>10. CASE RunStart
  BY <1>10, ThreadKinds DEF RunStart, WorkersCounted, Alive, TypeOK, RunPhases
<1>11. CASE SpawnWorker
  BY <1>11, ThreadKinds DEF SpawnWorker, WorkersCounted, Alive, TypeOK, RunPhases
<1>12. CASE SpawnFails
  BY <1>12 DEF SpawnFails, record_failure, WorkersCounted, Alive, TypeOK
<1>13. CASE CountStarted
  BY <1>13, ThreadKinds DEF CountStarted, WorkersCounted, Alive, TypeOK, RunPhases
<1>14. CASE RunRequestsShutdown
  BY <1>14 DEF RunRequestsShutdown, Enter, WorkersCounted, Alive, TypeOK
<1>15. CASE JoinAll
  BY <1>15, ThreadKinds DEF JoinAll, WorkersCounted, Alive, TypeOK, RunPhases
<1>16. CASE ClearRunning
  BY <1>16 DEF ClearRunning, WorkersCounted, Alive, TypeOK
<1>17. CASE CleanupWorker
  BY <1>17, ThreadKinds DEF CleanupWorker, record_failure, WorkersCounted, Alive,
     TypeOK, RunPhases
<1>18. CASE RunResult
  BY <1>18 DEF RunResult, WorkersCounted, Alive, TypeOK
<1>19. CASE finish_run
  BY <1>19 DEF finish_run, WorkersCounted, Alive, TypeOK
<1>20. CASE \E d \in Releasers : ReleaseLoad(d)
  BY <1>20 DEF ReleaseLoad, WorkersCounted, Alive, TypeOK
<1>21. CASE \E d \in Releasers : ReleaseFlag(d)
  BY <1>21 DEF ReleaseFlag, WorkersCounted, Alive, TypeOK
<1>22. CASE \E d \in Releasers : ReleaseClaim(d)
  BY <1>22 DEF ReleaseClaim, WorkersCounted, Alive, TypeOK
<1>23. CASE \E d \in Releasers : WaitIdle(d)
  BY <1>23 DEF WaitIdle, WorkersCounted, Alive, TypeOK
<1>24. CASE \E d \in Releasers : ReleaseFree(d)
  BY <1>24 DEF ReleaseFree, WorkersCounted, Alive, TypeOK
<1>25. CASE \E d \in Releasers : finish_release(d)
  BY <1>25 DEF finish_release, WorkersCounted, Alive, TypeOK
<1>26. CASE \E d \in Releasers : WaitReleased(d)
  BY <1>26 DEF WaitReleased, WorkersCounted, Alive, TypeOK
<1>27. CASE UNCHANGED vars
  BY <1>27 DEF vars, WorkersCounted, Alive, TypeOK
<1> QED
  BY <1>1, <1>2, <1>3, <1>4, <1>5, <1>6, <1>7, <1>8, <1>9, <1>10, <1>11, <1>12, <1>13,
     <1>14, <1>15, <1>16, <1>17, <1>18, <1>19, <1>20, <1>21, <1>22, <1>23, <1>24,
     <1>25, <1>26, <1>27 DEF Next, CallStep, WorkerStep, RunStep, ReleaseStep

(* Every step keeps the release claim with one releaser.                   *)
LEMMA StepOneOwner ==
  ASSUME TypeOK, RunPhases, OneOwner, [Next]_vars
  PROVE  OneOwner'
<1>1. CASE \E c \in Callers, o \in Ops : CallerEnters(c, o)
  BY <1>1 DEF CallerEnters, Enter, OneOwner, Owns, TypeOK
<1>2. CASE \E t \in Threads : EnterLoad(t)
  BY <1>2 DEF EnterLoad, OneOwner, Owns, TypeOK
<1>3. CASE \E t \in Threads : CallCheck(t)
  BY <1>3 DEF CallCheck, OneOwner, Owns, TypeOK
<1>4. CASE \E t \in Threads : CallTouch(t)
  BY <1>4 DEF CallTouch, OneOwner, Owns, TypeOK
<1>5. CASE \E t \in Threads : CallLeave(t)
  BY <1>5 DEF CallLeave, OneOwner, Owns, TypeOK
<1>6. CASE \E w \in Workers : WorkerStops(w)
  BY <1>6 DEF WorkerStops, OneOwner, Owns, TypeOK
<1>7. CASE \E w \in Workers : WorkerRequestsShutdown(w)
  BY <1>7 DEF WorkerRequestsShutdown, Enter, OneOwner, Owns, TypeOK
<1>8. CASE \E w \in Workers : WorkerFails(w)
  BY <1>8 DEF WorkerFails, record_failure, OneOwner, Owns, TypeOK
<1>9. CASE RunBegin
  BY <1>9 DEF RunBegin, OneOwner, Owns, TypeOK, RunPhases, RunActive
<1>10. CASE RunStart
  BY <1>10 DEF RunStart, OneOwner, Owns, TypeOK
<1>11. CASE SpawnWorker
  BY <1>11 DEF SpawnWorker, OneOwner, Owns, TypeOK
<1>12. CASE SpawnFails
  BY <1>12 DEF SpawnFails, record_failure, OneOwner, Owns, TypeOK
<1>13. CASE CountStarted
  BY <1>13 DEF CountStarted, OneOwner, Owns, TypeOK
<1>14. CASE RunRequestsShutdown
  BY <1>14 DEF RunRequestsShutdown, Enter, OneOwner, Owns, TypeOK
<1>15. CASE JoinAll
  BY <1>15 DEF JoinAll, OneOwner, Owns, TypeOK
<1>16. CASE ClearRunning
  BY <1>16 DEF ClearRunning, OneOwner, Owns, TypeOK
<1>17. CASE CleanupWorker
  BY <1>17 DEF CleanupWorker, record_failure, OneOwner, Owns, TypeOK
<1>18. CASE RunResult
  BY <1>18 DEF RunResult, OneOwner, Owns, TypeOK
<1>19. CASE finish_run
  BY <1>19 DEF finish_run, OneOwner, Owns, TypeOK, RunPhases, RunActive
<1>20. CASE \E d \in Releasers : ReleaseLoad(d)
  BY <1>20 DEF ReleaseLoad, OneOwner, Owns, TypeOK, Lifecycles
<1>21. CASE \E d \in Releasers : ReleaseFlag(d)
  BY <1>21 DEF ReleaseFlag, OneOwner, Owns, TypeOK
<1>22. CASE \E d \in Releasers : ReleaseClaim(d)
  BY <1>22 DEF ReleaseClaim, OneOwner, Owns, TypeOK
<1>23. CASE \E d \in Releasers : WaitIdle(d)
  BY <1>23 DEF WaitIdle, OneOwner, Owns, TypeOK
<1>24. CASE \E d \in Releasers : ReleaseFree(d)
  BY <1>24 DEF ReleaseFree, OneOwner, Owns, TypeOK
<1>25. CASE \E d \in Releasers : finish_release(d)
  BY <1>25 DEF finish_release, OneOwner, Owns, TypeOK
<1>26. CASE \E d \in Releasers : WaitReleased(d)
  BY <1>26 DEF WaitReleased, OneOwner, Owns, TypeOK
<1>27. CASE UNCHANGED vars
  BY <1>27 DEF vars, OneOwner, Owns, TypeOK
<1> QED
  BY <1>1, <1>2, <1>3, <1>4, <1>5, <1>6, <1>7, <1>8, <1>9, <1>10, <1>11, <1>12, <1>13,
     <1>14, <1>15, <1>16, <1>17, <1>18, <1>19, <1>20, <1>21, <1>22, <1>23, <1>24,
     <1>25, <1>26, <1>27 DEF Next, CallStep, WorkerStep, RunStep, ReleaseStep

(* Every step keeps the arrays unused from the moment the owner frees them. *)
LEMMA StepFreedIsQuiet ==
  ASSUME TypeOK, CallsCounted, RunPhases, OneOwner, FreedIsQuiet, [Next]_vars
  PROVE  FreedIsQuiet'
<1>1. CASE \E c \in Callers, o \in Ops : CallerEnters(c, o)
  BY <1>1 DEF CallerEnters, Enter, FreedIsQuiet, Inside, TypeOK
<1>2. CASE \E t \in Threads : EnterLoad(t)
  BY <1>2 DEF EnterLoad, FreedIsQuiet, Inside, TypeOK, OneOwner, Owns
<1>3. CASE \E t \in Threads : CallCheck(t)
  BY <1>3 DEF CallCheck, FreedIsQuiet, Inside, TypeOK
<1>4. CASE \E t \in Threads : CallTouch(t)
  BY <1>4 DEF CallTouch, FreedIsQuiet, Inside, TypeOK
<1>5. CASE \E t \in Threads : CallLeave(t)
  BY <1>5 DEF CallLeave, FreedIsQuiet, Inside, TypeOK
<1>6. CASE \E w \in Workers : WorkerStops(w)
  BY <1>6 DEF WorkerStops, FreedIsQuiet, Inside, TypeOK
<1>7. CASE \E w \in Workers : WorkerRequestsShutdown(w)
  BY <1>7 DEF WorkerRequestsShutdown, Enter, FreedIsQuiet, Inside, TypeOK
<1>8. CASE \E w \in Workers : WorkerFails(w)
  BY <1>8 DEF WorkerFails, record_failure, FreedIsQuiet, Inside, TypeOK
<1>9. CASE RunBegin
  BY <1>9 DEF RunBegin, FreedIsQuiet, Inside, TypeOK, RunPhases, RunActive
<1>10. CASE RunStart
  BY <1>10 DEF RunStart, FreedIsQuiet, Inside, TypeOK
<1>11. CASE SpawnWorker
  BY <1>11 DEF SpawnWorker, FreedIsQuiet, Inside, TypeOK
<1>12. CASE SpawnFails
  BY <1>12 DEF SpawnFails, record_failure, FreedIsQuiet, Inside, TypeOK
<1>13. CASE CountStarted
  BY <1>13 DEF CountStarted, FreedIsQuiet, Inside, TypeOK
<1>14. CASE RunRequestsShutdown
  BY <1>14 DEF RunRequestsShutdown, Enter, FreedIsQuiet, Inside, TypeOK
<1>15. CASE JoinAll
  BY <1>15 DEF JoinAll, FreedIsQuiet, Inside, TypeOK
<1>16. CASE ClearRunning
  BY <1>16 DEF ClearRunning, FreedIsQuiet, Inside, TypeOK
<1>17. CASE CleanupWorker
  BY <1>17 DEF CleanupWorker, record_failure, FreedIsQuiet, Inside, TypeOK
<1>18. CASE RunResult
  BY <1>18 DEF RunResult, FreedIsQuiet, Inside, TypeOK
<1>19. CASE finish_run
  BY <1>19 DEF finish_run, FreedIsQuiet, Inside, TypeOK, RunPhases, RunActive
<1>20. CASE \E d \in Releasers : ReleaseLoad(d)
  BY <1>20 DEF ReleaseLoad, FreedIsQuiet, Inside, TypeOK
<1>21. CASE \E d \in Releasers : ReleaseFlag(d)
  BY <1>21 DEF ReleaseFlag, FreedIsQuiet, Inside, TypeOK
<1>22. CASE \E d \in Releasers : ReleaseClaim(d)
  BY <1>22 DEF ReleaseClaim, FreedIsQuiet, Inside, TypeOK, OneOwner
<1>23. CASE \E d \in Releasers : WaitIdle(d)
<2>1. PICK d \in Releasers : WaitIdle(d)
    BY <1>23
<2>2. InFlight = {}
    BY <2>1, InFlightFinite, FS_EmptySet DEF WaitIdle, CallsCounted
<2>3. \A t \in Threads : ~Inside(t)'
    BY <2>1, <2>2 DEF WaitIdle, InFlight, Inside, TypeOK
<2> QED
    BY <2>1, <2>3 DEF WaitIdle, FreedIsQuiet, OneOwner, Owns, TypeOK
<1>24. CASE \E d \in Releasers : ReleaseFree(d)
  BY <1>24 DEF ReleaseFree, FreedIsQuiet, Inside, TypeOK, OneOwner, Owns
<1>25. CASE \E d \in Releasers : finish_release(d)
  BY <1>25 DEF finish_release, FreedIsQuiet, Inside, TypeOK, OneOwner, Owns
<1>26. CASE \E d \in Releasers : WaitReleased(d)
  BY <1>26 DEF WaitReleased, FreedIsQuiet, Inside, TypeOK
<1>27. CASE UNCHANGED vars
  BY <1>27 DEF vars, FreedIsQuiet, Inside, TypeOK
<1> QED
  BY <1>1, <1>2, <1>3, <1>4, <1>5, <1>6, <1>7, <1>8, <1>9, <1>10, <1>11, <1>12, <1>13,
     <1>14, <1>15, <1>16, <1>17, <1>18, <1>19, <1>20, <1>21, <1>22, <1>23, <1>24,
     <1>25, <1>26, <1>27 DEF Next, CallStep, WorkerStep, RunStep, ReleaseStep

(* Every step keeps the failure record and the result of run consistent.   *)
LEMMA StepFailuresRecorded ==
  ASSUME TypeOK, CallsCounted, RunPhases, WorkersCounted, FailuresRecorded, [Next]_vars
  PROVE  FailuresRecorded'
<1>1. CASE \E c \in Callers, o \in Ops : CallerEnters(c, o)
  BY <1>1 DEF CallerEnters, Enter, FailuresRecorded, TypeOK
<1>2. CASE \E t \in Threads : EnterLoad(t)
  BY <1>2 DEF EnterLoad, FailuresRecorded, TypeOK
<1>3. CASE \E t \in Threads : CallCheck(t)
  BY <1>3 DEF CallCheck, FailuresRecorded, TypeOK
<1>4. CASE \E t \in Threads : CallTouch(t)
  BY <1>4 DEF CallTouch, FailuresRecorded, TypeOK
<1>5. CASE \E t \in Threads : CallLeave(t)
  BY <1>5 DEF CallLeave, FailuresRecorded, TypeOK, CallsCounted
<1>6. CASE \E w \in Workers : WorkerStops(w)
  BY <1>6 DEF WorkerStops, FailuresRecorded, TypeOK
<1>7. CASE \E w \in Workers : WorkerRequestsShutdown(w)
  BY <1>7 DEF WorkerRequestsShutdown, Enter, FailuresRecorded, TypeOK
<1>8. CASE \E w \in Workers : WorkerFails(w)
<2>1. PICK w \in Workers : WorkerFails(w)
    BY <1>8
<2>2. first_failure' # None /\ failures' = failures + 1
    BY <2>1, RecordTyped DEF WorkerFails
<2>3. rpc \in {"spawn", "spawned", "shutdown", "join"}
    BY <2>1, ThreadKinds DEF WorkerFails, RunPhases, WorkersCounted, Alive, TypeOK, RunPlaces
<2> QED
    BY <2>1, <2>2, <2>3 DEF WorkerFails, FailuresRecorded, TypeOK
<1>9. CASE RunBegin
  BY <1>9 DEF RunBegin, FailuresRecorded, TypeOK
<1>10. CASE RunStart
  BY <1>10 DEF RunStart, FailuresRecorded, TypeOK
<1>11. CASE SpawnWorker
  BY <1>11 DEF SpawnWorker, FailuresRecorded, TypeOK
<1>12. CASE SpawnFails
<2>1. first_failure' # None /\ failures' = failures + 1
    BY <1>12, RecordTyped DEF SpawnFails, TypeOK
<2> QED
    BY <1>12, <2>1 DEF SpawnFails, FailuresRecorded, TypeOK
<1>13. CASE CountStarted
  BY <1>13 DEF CountStarted, FailuresRecorded, TypeOK
<1>14. CASE RunRequestsShutdown
  BY <1>14 DEF RunRequestsShutdown, Enter, FailuresRecorded, TypeOK
<1>15. CASE JoinAll
  BY <1>15 DEF JoinAll, FailuresRecorded, TypeOK
<1>16. CASE ClearRunning
  BY <1>16 DEF ClearRunning, FailuresRecorded, TypeOK
<1>17. CASE CleanupWorker
<2>1. UNCHANGED record \/ (first_failure' # None /\ failures' = failures + 1)
    BY <1>17, RecordTyped DEF CleanupWorker, TypeOK
<2> QED
    BY <1>17, <2>1 DEF CleanupWorker, FailuresRecorded, TypeOK
<1>18. CASE RunResult
  BY <1>18 DEF RunResult, FailuresRecorded, TypeOK
<1>19. CASE finish_run
  BY <1>19 DEF finish_run, FailuresRecorded, TypeOK
<1>20. CASE \E d \in Releasers : ReleaseLoad(d)
  BY <1>20 DEF ReleaseLoad, FailuresRecorded, TypeOK
<1>21. CASE \E d \in Releasers : ReleaseFlag(d)
  BY <1>21 DEF ReleaseFlag, FailuresRecorded, TypeOK
<1>22. CASE \E d \in Releasers : ReleaseClaim(d)
  BY <1>22 DEF ReleaseClaim, FailuresRecorded, TypeOK
<1>23. CASE \E d \in Releasers : WaitIdle(d)
  BY <1>23 DEF WaitIdle, FailuresRecorded, TypeOK
<1>24. CASE \E d \in Releasers : ReleaseFree(d)
  BY <1>24 DEF ReleaseFree, FailuresRecorded, TypeOK
<1>25. CASE \E d \in Releasers : finish_release(d)
  BY <1>25 DEF finish_release, FailuresRecorded, TypeOK
<1>26. CASE \E d \in Releasers : WaitReleased(d)
  BY <1>26 DEF WaitReleased, FailuresRecorded, TypeOK
<1>27. CASE UNCHANGED vars
  BY <1>27 DEF vars, FailuresRecorded, TypeOK
<1> QED
  BY <1>1, <1>2, <1>3, <1>4, <1>5, <1>6, <1>7, <1>8, <1>9, <1>10, <1>11, <1>12, <1>13,
     <1>14, <1>15, <1>16, <1>17, <1>18, <1>19, <1>20, <1>21, <1>22, <1>23, <1>24,
     <1>25, <1>26, <1>27 DEF Next, CallStep, WorkerStep, RunStep, ReleaseStep

-----------------------------------------------------------------------------
(* Theorems.                                                               *)

(* A cluster that Cluster.init has just returned satisfies the invariant.  *)
LEMMA InitGroupInv == Init => TypeOK /\ GroupInv
<1> SUFFICES ASSUME Init PROVE TypeOK /\ GroupInv
  OBVIOUS
<1>1. TypeOK
  <2>1. None \in Failure
    BY DEF Failure
  <2>2. at \in [Threads -> Workers] /\ index \in Workers /\ started \in 0 .. WorkerCount
    BY ThreadKinds, WorkerCountAssumption DEF Init
  <2>3. first_failure \in Failure /\ failures \in Nat /\ calls \in Nat
    BY <2>1 DEF Init
  <2> QED
    BY <2>2, <2>3
    DEF Init, TypeOK, Lifecycles, Ops, CallPlaces, WorkerPlaces, RunPlaces, ReleasePlaces
<1>2. InFlight = {}
  BY DEF Init, InFlight
<1>3. CallsCounted
  BY <1>2, FS_EmptySet, ThreadKinds DEF Init, CallsCounted
<1>4. RunPhases /\ WorkersCounted
  BY DEF Init, RunPhases, RunActive, WorkersCounted, Alive
<1>5. OneOwner
  BY DEF Init, OneOwner, Owns
<1>6. FreedIsQuiet
  BY DEF Init, FreedIsQuiet
<1>7. FailuresRecorded
  BY DEF Init, FailuresRecorded
<1> QED
  BY <1>1, <1>3, <1>4, <1>5, <1>6, <1>7 DEF GroupInv

(* The parts together are inductive.                                       *)
LEMMA StepGroupInv == TypeOK /\ GroupInv /\ [Next]_vars => TypeOK' /\ GroupInv'
<1> SUFFICES ASSUME TypeOK, GroupInv, [Next]_vars PROVE TypeOK' /\ GroupInv'
  OBVIOUS
<1> USE DEF GroupInv
<1>1. CallsCounted'
  BY StepCallsCounted
<1>2. TypeOK'
  BY <1>1, StepTypeOK
<1>3. RunPhases' /\ WorkersCounted' /\ OneOwner'
  BY StepRunPhases, StepWorkersCounted, StepOneOwner
<1>4. FreedIsQuiet' /\ FailuresRecorded'
  BY StepFreedIsQuiet, StepFailuresRecorded
<1> QED
  BY <1>1, <1>2, <1>3, <1>4

(* Every reachable state of the cluster satisfies TypeOK and GroupInv:     *)
(* worker_group.zig's call counter, lifecycle word, running flag and       *)
(* release claim are consistent whatever the threads do.                   *)
THEOREM GroupCorrect == Spec => [](TypeOK /\ GroupInv)
<1>1. Init => TypeOK /\ GroupInv
  BY InitGroupInv
<1>2. TypeOK /\ GroupInv /\ [Next]_vars => (TypeOK /\ GroupInv)'
  BY StepGroupInv
<1> QED
  BY <1>1, <1>2, PTL DEF Spec

(* Every variable of the group keeps its type.                             *)
THEOREM GroupTypes == Spec => []TypeOK
BY GroupCorrect, PTL

(* deinit_checked frees the worker arrays only when no external call, no   *)
(* worker thread and no run can still touch them.                          *)
THEOREM SafeRelease == Spec => []StorageOutlivesUsers
<1>1. TypeOK /\ GroupInv => StorageOutlivesUsers
  <2> SUFFICES ASSUME TypeOK, GroupInv,
                      storage = "freed" \/ (\E d \in Releasers : dpc[d] = "deinit")
               PROVE  /\ \A t \in Threads : ~Inside(t)
                      /\ \A w \in Workers : ~Alive(w)
                      /\ ~RunActive
    BY DEF StorageOutlivesUsers
  <2>1. lifecycle \in {"releasing", "released"}
    BY DEF GroupInv, FreedIsQuiet, OneOwner, Owns
  <2>2. rpc \in {"idle", "returned"} /\ started = 0
    BY <2>1 DEF GroupInv, RunPhases, RunActive
  <2>3. \A w \in Workers : ~Alive(w)
    BY <2>2, ThreadKinds DEF GroupInv, WorkersCounted
  <2> QED
    BY <2>2, <2>3 DEF GroupInv, FreedIsQuiet, RunActive
<1> QED
  BY <1>1, GroupCorrect, PTL

(* begin_release elects one owner, so the arrays are freed once.           *)
THEOREM SingleRelease == Spec => []FreedOnce
<1>1. GroupInv => FreedOnce
  BY DEF GroupInv, OneOwner, FreedIsQuiet, FreedOnce
<1> QED
  BY <1>1, GroupCorrect, PTL

(* The std.debug.assert calls of finish_run and finish_release never fire. *)
THEOREM NoAssertionFails == Spec => []AssertionsHold
<1>1. GroupInv => AssertionsHold
  BY DEF GroupInv, RunPhases, RunActive, OneOwner, Owns, AssertionsHold
<1> QED
  BY <1>1, GroupCorrect, PTL

(* run returns success exactly when no worker failed in any phase.         *)
THEOREM HonestResult == Spec => []RunReportsFailures
<1>1. GroupInv => RunReportsFailures
  BY DEF GroupInv, FailuresRecorded, RunReportsFailures
<1> QED
  BY <1>1, GroupCorrect, PTL

(* Once a first failure is recorded no later failure replaces it.          *)
THEOREM FirstFailureWins == Spec => FirstFailureIsKept
<1>1. TypeOK /\ GroupInv /\ [Next]_vars
        => [first_failure # None => first_failure' = first_failure]_vars
  <2> SUFFICES ASSUME TypeOK, GroupInv, [Next]_vars
               PROVE  first_failure # None => first_failure' = first_failure
    OBVIOUS
  <2>1. CASE \E w \in Workers : WorkerFails(w)
    BY <2>1, RecordTyped DEF WorkerFails
  <2>2. CASE SpawnFails
    BY <2>2, RecordTyped DEF SpawnFails, TypeOK
  <2>3. CASE CleanupWorker
    BY <2>3, RecordTyped DEF CleanupWorker, TypeOK
  <2>4. CASE RunStart
    BY <2>4 DEF RunStart, GroupInv, FailuresRecorded
  <2>5. CASE \E c \in Callers, o \in Ops : CallerEnters(c, o)
    BY <2>5 DEF CallerEnters
  <2>6. CASE \E t \in Threads : CallStep(t)
    BY <2>6 DEF CallStep, EnterLoad, CallCheck, CallTouch, CallLeave
  <2>7. CASE \E w \in Workers : WorkerStep(w)
    BY <2>7 DEF WorkerStep, WorkerStops, WorkerRequestsShutdown
  <2>8. CASE RunBegin \/ SpawnWorker \/ CountStarted \/ RunRequestsShutdown \/ JoinAll
             \/ ClearRunning \/ RunResult \/ finish_run
    BY <2>8 DEF RunBegin, SpawnWorker, CountStarted, RunRequestsShutdown, JoinAll,
       ClearRunning, RunResult, finish_run
  <2>9. CASE \E d \in Releasers : ReleaseLoad(d) \/ ReleaseStep(d)
    BY <2>9 DEF ReleaseStep, ReleaseLoad, ReleaseFlag, ReleaseClaim, WaitIdle,
       ReleaseFree, finish_release, WaitReleased
  <2>10. CASE UNCHANGED vars
    BY <2>10 DEF vars
  <2> QED
    BY <2>1, <2>2, <2>3, <2>4, <2>5, <2>6, <2>7, <2>8, <2>9, <2>10 DEF Next, RunStep
<1>2. Spec => [][first_failure # None => first_failure' = first_failure]_vars
  BY <1>1, GroupCorrect, PTL DEF Spec
<1> QED
  BY <1>2 DEF FirstFailureIsKept
=============================================================================
