-------------------------- MODULE ClusterLifecycle --------------------------
(***************************************************************************)
(* The thread-per-core cluster: lifecycle, release claim, start and join   *)
(* of router/worker_group.zig, and the calls of App.Cluster               *)
(* (router/app.zig) that use them.  The arrays of workers, inboxes and     *)
(* thread handles are one resource, `storage`, freed by deinit_checked.    *)
(*                                                                         *)
(* Each atomic load, store or read-modify-write is an action of its own    *)
(* unless nothing another thread does can fall between two of them.        *)
(***************************************************************************)
EXTENDS Integers, FiniteSets

CONSTANTS
  WorkerCount,  \* active_workers
  Callers,      \* threads that call configure, listen, publish, request_shutdown
  Releasers,    \* threads that call deinit_checked
  Runner,       \* the thread that calls run
  MaxCalls      \* bound: calls of each caller

Workers == 0 .. WorkerCount - 1
Threads == Callers \cup Workers \cup {Runner}

ASSUME WorkerCountAssumption == WorkerCount \in Nat \ {0}
ASSUME MaxCallsAssumption == MaxCalls \in Nat
ASSUME ThreadsAssumption ==
  /\ IsFiniteSet(Callers)
  /\ Runner \notin Callers
  /\ \A w \in Workers : w \notin Callers /\ w # Runner

None == [index |-> -1, phase |-> "none"]
Failure == {None} \cup [index : Workers, phase : {"spawn", "run", "cleanup"}]

VARIABLES
  lifecycle,      \* WorkerGroup.lifecycle
  calls,          \* in-flight external calls
  started,        \* worker threads started
  running,        \* thread handles may be joinable
  first_failure, failures,
  storage,        \* "live", or "freed" once deinit_checked freed the arrays
  stop,           \* per worker: cluster_stop_requested
  op, call, at,   \* per thread: call being made, place in it, worker loop index
  made,           \* per caller: calls begun
  worker,         \* per worker: place of its thread in worker_main
  rpc, index,     \* the runner: place in run, and its loop index
  spawn_error,    \* run met a spawn failure
  result,         \* what run returned
  dpc, seen       \* per releaser: place in deinit_checked, lifecycle it loaded

group == <<lifecycle, calls, started, running>>
record == <<first_failure, failures>>
callVars == <<op, call, at, made>>
runVars == <<rpc, index, spawn_error, result>>
releaseVars == <<dpc, seen>>
vars == <<group, record, storage, stop, callVars, worker, runVars, releaseVars>>

Lifecycles == {"configured", "running", "stopped", "releasing", "released"}
Ops == {"configure", "publish", "request_shutdown"}
CallPlaces == {"out", "entered", "undo", "admitted", "touch", "leave"}
WorkerPlaces == {"none", "run", "failed", "exited"}
RunPlaces == {"idle", "start", "spawn", "spawned", "shutdown", "join", "joined",
              "cleanup", "result", "finish", "returned"}
ReleasePlaces == {"idle", "retry", "flag", "claim", "wait_idle", "deinit", "finish",
                  "wait_released", "done"}

Init ==
  /\ lifecycle = "configured" /\ calls = 0 /\ started = 0 /\ running = FALSE
  /\ first_failure = None /\ failures = 0
  /\ storage = "live"
  /\ stop = [w \in Workers |-> FALSE]
  /\ op = [t \in Threads |-> "request_shutdown"]
  /\ call = [t \in Threads |-> "out"]
  /\ at = [t \in Threads |-> 0]
  /\ made = [c \in Callers |-> 0]
  /\ worker = [w \in Workers |-> "none"]
  /\ rpc = "idle" /\ index = 0 /\ spawn_error = FALSE /\ result = "none"
  /\ dpc = [d \in Releasers |-> "idle"]
  /\ seen = [d \in Releasers |-> "configured"]

record_failure(i, phase) ==
  /\ failures' = failures + 1
  /\ first_failure' = IF first_failure = None THEN [index |-> i, phase |-> phase]
                                              ELSE first_failure

-----------------------------------------------------------------------------
(* External calls: enter, lifecycle check, worker loop, leave.             *)

\* enter, first half: the call counter is raised before the lifecycle is read.
Enter(t, o) ==
  /\ call[t] = "out"
  /\ call' = [call EXCEPT ![t] = "entered"]
  /\ op' = [op EXCEPT ![t] = o]
  /\ calls' = calls + 1

CallerEnters(c, o) ==
  /\ made[c] < MaxCalls
  /\ Enter(c, o)
  /\ made' = [made EXCEPT ![c] = @ + 1]
  /\ UNCHANGED <<lifecycle, started, running, record, storage, stop, at, worker,
                 runVars, releaseVars>>

\* Mutant: enter does not look at the lifecycle.
EnterLoad_Blind(t) ==
  /\ call[t] = "entered"
  /\ call' = [call EXCEPT ![t] = "admitted"]
  /\ UNCHANGED <<group, record, storage, stop, op, at, made, worker, runVars, releaseVars>>

\* enter, second half: a release claim that is already visible sends the call back.
EnterLoad(t) ==
  /\ call[t] = "entered"
  /\ call' = [call EXCEPT ![t] =
                IF lifecycle \in {"releasing", "released"} THEN "undo" ELSE "admitted"]
  /\ UNCHANGED <<group, record, storage, stop, op, at, made, worker, runVars, releaseVars>>

\* require_configured, require_publishable and the switch of request_shutdown.
Admits(o) ==
  CASE o = "configure" -> {"configured"}
    [] o = "publish" -> {"configured", "running"}
    [] o = "request_shutdown" -> {"configured", "running"}

CallCheck(t) ==
  /\ call[t] = "admitted"
  /\ call' = [call EXCEPT ![t] = IF lifecycle \in Admits(op[t]) THEN "touch" ELSE "leave"]
  /\ at' = [at EXCEPT ![t] = 0]
  /\ UNCHANGED <<group, record, storage, stop, op, made, worker, runVars, releaseVars>>

\* Mutant: the shutdown loop misses the last worker.
CallTouch_OffByOne(t) ==
  /\ call[t] = "touch"
  /\ stop' = IF op[t] = "request_shutdown" /\ at[t] + 1 < WorkerCount
             THEN [stop EXCEPT ![at[t]] = TRUE] ELSE stop
  /\ at' = [at EXCEPT ![t] = IF @ + 1 < WorkerCount THEN @ + 1 ELSE 0]
  /\ call' = [call EXCEPT ![t] = IF at[t] + 1 < WorkerCount THEN "touch" ELSE "leave"]
  /\ UNCHANGED <<group, record, storage, op, made, worker, runVars, releaseVars>>

\* One iteration of the loop over self.workers (and self.inboxes).
CallTouch(t) ==
  /\ call[t] = "touch"
  /\ stop' = IF op[t] = "request_shutdown" THEN [stop EXCEPT ![at[t]] = TRUE] ELSE stop
  /\ at' = [at EXCEPT ![t] = IF @ + 1 < WorkerCount THEN @ + 1 ELSE 0]
  /\ call' = [call EXCEPT ![t] = IF at[t] + 1 < WorkerCount THEN "touch" ELSE "leave"]
  /\ UNCHANGED <<group, record, storage, op, made, worker, runVars, releaseVars>>

\* Mutant: the rejected path of enter forgets its decrement.
CallLeave_NoUndo(t) ==
  /\ call[t] \in {"leave", "undo"}
  /\ calls' = IF call[t] = "leave" THEN calls - 1 ELSE calls
  /\ call' = [call EXCEPT ![t] = "out"]
  /\ worker' = IF t \in Workers THEN [worker EXCEPT ![t] = "exited"] ELSE worker
  /\ rpc' = IF t = Runner THEN "join" ELSE rpc
  /\ UNCHANGED <<lifecycle, started, running, record, storage, stop, op, at, made, index,
                 spawn_error, result, releaseVars>>

\* leave, or the decrement of a rejected enter; then the thread goes on.
CallLeave(t) ==
  /\ call[t] \in {"leave", "undo"}
  /\ calls' = calls - 1
  /\ call' = [call EXCEPT ![t] = "out"]
  /\ worker' = IF t \in Workers THEN [worker EXCEPT ![t] = "exited"] ELSE worker
  /\ rpc' = IF t = Runner THEN "join" ELSE rpc
  /\ UNCHANGED <<lifecycle, started, running, record, storage, stop, op, at, made, index,
                 spawn_error, result, releaseVars>>

-----------------------------------------------------------------------------
(* Worker threads: worker_main.                                            *)

\* The loop met its stop request and drained.
WorkerStops(w) ==
  /\ worker[w] = "run"
  /\ stop[w]
  /\ worker' = [worker EXCEPT ![w] = "exited"]
  /\ UNCHANGED <<group, record, storage, stop, callVars, runVars, releaseVars>>

\* The event loop returned an error: record it ...
WorkerFails(w) ==
  /\ worker[w] = "run"
  /\ worker' = [worker EXCEPT ![w] = "failed"]
  /\ record_failure(w, "run")
  /\ UNCHANGED <<group, storage, stop, callVars, runVars, releaseVars>>

\* ... and request shutdown of the whole group.
WorkerRequestsShutdown(w) ==
  /\ worker[w] = "failed"
  /\ Enter(w, "request_shutdown")
  /\ UNCHANGED <<lifecycle, started, running, record, storage, stop, at, made, worker,
                 runVars, releaseVars>>

-----------------------------------------------------------------------------
(* Cluster.run.                                                            *)

\* begin_run: the compare-exchange succeeds only from configured.
RunBegin ==
  /\ rpc = "idle"
  /\ \/ /\ lifecycle = "configured"
        /\ lifecycle' = "running"
        /\ rpc' = "start"
        /\ UNCHANGED result
     \/ /\ lifecycle # "configured"
        /\ result' = "rejected"
        /\ rpc' = "returned"
        /\ UNCHANGED lifecycle
  /\ UNCHANGED <<calls, started, running, record, storage, stop, callVars, worker, index,
                 spawn_error, releaseVars>>

\* start: clear_failure, then the running flag.
RunStart ==
  /\ rpc = "start"
  /\ first_failure' = None /\ failures' = 0
  /\ running' = TRUE
  /\ index' = 0
  /\ rpc' = "spawn"
  /\ UNCHANGED <<lifecycle, calls, started, storage, stop, callVars, worker, spawn_error,
                 result, releaseVars>>

\* Mutant: a starting worker clears a stop request that came before it.
SpawnWorker_ClearsStop ==
  /\ rpc = "spawn"
  /\ worker' = [worker EXCEPT ![index] = "run"]
  /\ stop' = [stop EXCEPT ![index] = FALSE]
  /\ rpc' = "spawned"
  /\ UNCHANGED <<group, record, storage, callVars, index, spawn_error, result, releaseVars>>

\* The new thread runs before its handle is counted in `started`.
SpawnWorker ==
  /\ rpc = "spawn"
  /\ worker' = [worker EXCEPT ![index] = "run"]
  /\ rpc' = "spawned"
  /\ UNCHANGED <<group, record, storage, stop, callVars, index, spawn_error, result,
                 releaseVars>>

SpawnFails ==
  /\ rpc = "spawn"
  /\ record_failure(index, "spawn")
  /\ spawn_error' = TRUE
  /\ rpc' = "shutdown"
  /\ UNCHANGED <<group, storage, stop, callVars, worker, index, result, releaseVars>>

CountStarted ==
  /\ rpc = "spawned"
  /\ started' = index + 1
  /\ index' = IF index + 1 < WorkerCount THEN index + 1 ELSE 0
  /\ rpc' = IF index + 1 < WorkerCount THEN "spawn" ELSE "join"
  /\ UNCHANGED <<lifecycle, calls, running, record, storage, stop, callVars, worker,
                 spawn_error, result, releaseVars>>

RunRequestsShutdown ==
  /\ rpc = "shutdown"
  /\ Enter(Runner, "request_shutdown")
  /\ UNCHANGED <<lifecycle, started, running, record, storage, stop, at, made, worker,
                 runVars, releaseVars>>

\* join: every counted thread has exited, then started is reset ...
JoinAll ==
  /\ rpc = "join"
  /\ \A w \in 0 .. started - 1 : worker[w] = "exited"
  /\ started' = 0
  /\ rpc' = "joined"
  /\ UNCHANGED <<lifecycle, calls, running, record, storage, stop, callVars, worker, index,
                 spawn_error, result, releaseVars>>

\* ... and after it the running flag.
ClearRunning ==
  /\ rpc = "joined"
  /\ running' = FALSE
  /\ index' = 0
  /\ rpc' = "cleanup"
  /\ UNCHANGED <<lifecycle, calls, started, record, storage, stop, callVars, worker,
                 spawn_error, result, releaseVars>>

\* cleanup_workers: shutdown of one joined worker, which may fail to drain.
CleanupWorker ==
  /\ rpc = "cleanup"
  /\ \/ UNCHANGED record
     \/ record_failure(index, "cleanup")
  /\ stop' = [stop EXCEPT ![index] = TRUE]
  /\ index' = IF index + 1 < WorkerCount THEN index + 1 ELSE 0
  /\ rpc' = IF index + 1 < WorkerCount THEN "cleanup" ELSE "result"
  /\ UNCHANGED <<group, storage, callVars, worker, spawn_error, result, releaseVars>>

\* The error run returns is chosen after cleanup, before the deferred finish_run.
RunResult ==
  /\ rpc = "result"
  /\ result' = IF spawn_error THEN "spawn_error"
               ELSE IF first_failure # None THEN "ClusterWorkerFailed" ELSE "ok"
  /\ rpc' = "finish"
  /\ UNCHANGED <<group, record, storage, stop, callVars, worker, index, spawn_error,
                 releaseVars>>

finish_run ==
  /\ rpc = "finish"
  /\ lifecycle' = "stopped"
  /\ rpc' = "returned"
  /\ UNCHANGED <<calls, started, running, record, storage, stop, callVars, worker, index,
                 spawn_error, result, releaseVars>>

-----------------------------------------------------------------------------
(* deinit_checked.                                                         *)

\* begin_release loads the lifecycle: released by another owner, refused
\* while running, or free to be claimed.
ReleaseLoad(d) ==
  /\ dpc[d] \in {"idle", "retry"}
  /\ seen' = [seen EXCEPT ![d] = lifecycle]
  /\ dpc' = [dpc EXCEPT ![d] =
       IF lifecycle \in {"releasing", "released"} THEN "wait_released"
       ELSE IF lifecycle = "running" THEN "idle" ELSE "flag"]
  /\ UNCHANGED <<group, record, storage, stop, callVars, worker, runVars>>

\* A joinable thread handle refuses release even if the lifecycle is stale.
ReleaseFlag(d) ==
  /\ dpc[d] = "flag"
  /\ dpc' = [dpc EXCEPT ![d] = IF running THEN "idle" ELSE "claim"]
  /\ UNCHANGED <<group, record, storage, stop, callVars, worker, runVars, seen>>

\* The compare-exchange from the loaded state; on failure the loop starts over.
ReleaseClaim(d) ==
  /\ dpc[d] = "claim"
  /\ \/ /\ lifecycle = seen[d]
        /\ lifecycle' = "releasing"
        /\ dpc' = [dpc EXCEPT ![d] = "wait_idle"]
     \/ /\ UNCHANGED lifecycle
        /\ dpc' = [dpc EXCEPT ![d] = "retry"]
  /\ UNCHANGED <<calls, started, running, record, storage, stop, callVars, worker, runVars,
                 seen>>

WaitIdle(d) ==
  /\ dpc[d] = "wait_idle"
  /\ calls = 0
  /\ dpc' = [dpc EXCEPT ![d] = "deinit"]
  /\ UNCHANGED <<group, record, storage, stop, callVars, worker, runVars, seen>>

\* Every worker is deinitialized, then the three arrays are freed.
ReleaseFree(d) ==
  /\ dpc[d] = "deinit"
  /\ storage' = "freed"
  /\ dpc' = [dpc EXCEPT ![d] = "finish"]
  /\ UNCHANGED <<group, record, stop, callVars, worker, runVars, seen>>

finish_release(d) ==
  /\ dpc[d] = "finish"
  /\ lifecycle' = "released"
  /\ dpc' = [dpc EXCEPT ![d] = "done"]
  /\ UNCHANGED <<calls, started, running, record, storage, stop, callVars, worker, runVars,
                 seen>>

WaitReleased(d) ==
  /\ dpc[d] = "wait_released"
  /\ lifecycle = "released"
  /\ dpc' = [dpc EXCEPT ![d] = "done"]
  /\ UNCHANGED <<group, record, storage, stop, callVars, worker, runVars, seen>>

-----------------------------------------------------------------------------
CallStep(t) == EnterLoad(t) \/ CallCheck(t) \/ CallTouch(t) \/ CallLeave(t)

WorkerStep(w) == WorkerStops(w) \/ WorkerRequestsShutdown(w)

RunStep ==
  \/ RunStart \/ SpawnWorker \/ SpawnFails \/ CountStarted \/ RunRequestsShutdown
  \/ JoinAll \/ ClearRunning \/ CleanupWorker \/ RunResult \/ finish_run

ReleaseStep(d) ==
  \/ dpc[d] = "retry" /\ ReleaseLoad(d)
  \/ ReleaseFlag(d) \/ ReleaseClaim(d) \/ WaitIdle(d) \/ ReleaseFree(d)
  \/ finish_release(d) \/ WaitReleased(d)

Next ==
  \/ \E c \in Callers, o \in Ops : CallerEnters(c, o)
  \/ \E t \in Threads : CallStep(t)
  \/ \E w \in Workers : WorkerStep(w) \/ WorkerFails(w)
  \/ RunBegin \/ RunStep
  \/ \E d \in Releasers : ReleaseLoad(d) \/ ReleaseStep(d)

Spec == Init /\ [][Next]_vars

(***************************************************************************)
(* Every thread inside a call, a worker loop, run or deinit_checked is     *)
(* eventually scheduled.  Nobody is obliged to call anything, and a worker *)
(* loop need not fail.                                                     *)
(***************************************************************************)
Fairness ==
  /\ \A t \in Threads : WF_vars(CallStep(t))
  /\ \A w \in Workers : WF_vars(WorkerStep(w))
  /\ WF_vars(RunStep)
  /\ \A d \in Releasers : WF_vars(ReleaseStep(d))

FairSpec == Spec /\ Fairness
-----------------------------------------------------------------------------
(* Properties.                                                             *)

(* Every variable keeps its type.                                          *)
TypeOK ==
  /\ lifecycle \in Lifecycles
  /\ calls \in Nat
  /\ started \in 0 .. WorkerCount
  /\ running \in BOOLEAN
  /\ first_failure \in Failure
  /\ failures \in Nat
  /\ storage \in {"live", "freed"}
  /\ stop \in [Workers -> BOOLEAN]
  /\ op \in [Threads -> Ops]
  /\ call \in [Threads -> CallPlaces]
  /\ at \in [Threads -> Workers]
  /\ made \in [Callers -> Nat]
  /\ worker \in [Workers -> WorkerPlaces]
  /\ rpc \in RunPlaces
  /\ index \in Workers
  /\ spawn_error \in BOOLEAN
  /\ result \in {"none", "rejected", "spawn_error", "ClusterWorkerFailed", "ok"}
  /\ dpc \in [Releasers -> ReleasePlaces]
  /\ seen \in [Releasers -> Lifecycles]

Inside(t) == call[t] \in {"admitted", "touch"}
Alive(w) == worker[w] \in {"run", "failed"}
RunActive == rpc \notin {"idle", "returned"}
Owns(d) == dpc[d] \in {"wait_idle", "deinit", "finish"}

(* deinit_checked never frees the worker arrays under a thread that uses   *)
(* them: an external call past enter, a live worker loop, or run itself    *)
(* between begin_run and finish_run.                                       *)
StorageOutlivesUsers ==
  storage = "freed" \/ (\E d \in Releasers : dpc[d] = "deinit")
    => /\ \A t \in Threads : ~Inside(t)
       /\ \A w \in Workers : ~Alive(w)
       /\ ~RunActive

(* begin_release elects one owner: no two threads free the arrays, and     *)
(* nobody becomes owner again once they are freed.                         *)
FreedOnce ==
  /\ \A d, e \in Releasers : Owns(d) /\ Owns(e) => d = e
  /\ storage = "freed" => \A d \in Releasers : dpc[d] \notin {"wait_idle", "deinit"}

(* The debug assertions of finish_run and finish_release hold whenever     *)
(* those functions are entered.                                            *)
AssertionsHold ==
  /\ rpc = "finish" => lifecycle = "running" /\ ~running
  /\ \A d \in Releasers :
       dpc[d] = "finish" => lifecycle = "releasing" /\ ~running /\ started = 0

(* run reports success only when no phase of any worker failed, and the    *)
(* error it reports is backed by a recorded first failure.                 *)
RunReportsFailures ==
  rpc \in {"finish", "returned"} /\ result # "rejected"
    => /\ result = "ok" <=> failures = 0
       /\ first_failure = None <=> failures = 0

(* The failure a supervisor reads is the first one: a later cascade of     *)
(* worker, spawn or cleanup failures never replaces it.                    *)
FirstFailureIsKept ==
  [][first_failure # None => first_failure' = first_failure]_vars

\* The parts of the inductive invariant, one per discipline of the code.
InFlight == {t \in Threads : call[t] # "out"}

CallsCounted ==
  /\ calls = Cardinality(InFlight)
  /\ \A w \in Workers : call[w] # "out" => worker[w] = "failed"
  /\ call[Runner] # "out" => rpc = "shutdown"

RunPhases ==
  /\ lifecycle = "running" <=> RunActive
  /\ running <=> rpc \in {"spawn", "spawned", "shutdown", "join", "joined"}
  /\ rpc \notin {"spawn", "spawned", "shutdown", "join"} => started = 0
  /\ rpc \in {"spawn", "spawned"} => started = index

WorkersCounted ==
  \A w \in Workers : Alive(w) => w < started \/ (rpc = "spawned" /\ w = index)

OneOwner ==
  /\ \A d \in Releasers : dpc[d] \in {"flag", "claim"} => seen[d] \in {"configured", "stopped"}
  /\ \A d \in Releasers : Owns(d) => lifecycle = "releasing"
  /\ \A d, e \in Releasers : Owns(d) /\ Owns(e) => d = e

FreedIsQuiet ==
  /\ storage = "freed" => lifecycle \in {"releasing", "released"}
  /\ storage = "freed" => \A d \in Releasers : dpc[d] \notin {"wait_idle", "deinit"}
  /\ storage = "freed" \/ (\E d \in Releasers : dpc[d] = "deinit")
       => \A t \in Threads : ~Inside(t)

FailuresRecorded ==
  /\ first_failure = None <=> failures = 0
  /\ rpc \in {"idle", "start"} => failures = 0
  /\ spawn_error => failures > 0 /\ rpc \notin {"idle", "start", "spawn", "spawned"}
  /\ rpc \in {"finish", "returned"} /\ result # "rejected" => (result = "ok" <=> failures = 0)

(* What every thread may assume of the group's shared state: the call      *)
(* counter is the number of threads inside enter and leave, lifecycle and  *)
(* the running flag follow the phases of run, every live worker thread is  *)
(* counted or is the one being counted, one releaser owns the arrays, and  *)
(* nobody is inside once they are being freed.                             *)
GroupInv ==
  CallsCounted /\ RunPhases /\ WorkersCounted /\ OneOwner /\ FreedIsQuiet /\ FailuresRecorded

(* One failing worker, or a failed spawn, brings the whole group down and  *)
(* run back to its caller.                                                 *)
FailureEndsRun == failures > 0 ~> rpc = "returned"

(* A completed request_shutdown ends run, whether it came before run,      *)
(* while workers were being spawned, or later.                             *)
ShutdownEndsRun == (RunActive /\ \A w \in Workers : stop[w]) ~> rpc = "returned"

(* Once the release is claimed it completes, and every concurrent          *)
(* deinit_checked that lost the claim returns after it.                    *)
ReleaseCompletes ==
  \A d \in Releasers : dpc[d] \in {"wait_idle", "wait_released"} ~> dpc[d] = "done"
=============================================================================
