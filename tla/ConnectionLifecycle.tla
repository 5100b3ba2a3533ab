------------------------ MODULE ConnectionLifecycle -------------------------
(***************************************************************************)
(* The life of a pooled TCP connection (core/tcp.zig, core/pool.zig), its  *)
(* listener and the shutdown of the application that owns them             *)
(* (router/app.zig).  One event loop runs everything; the kernel holds up  *)
(* to five completions of a connection, and the slot must not return to    *)
(* the pool while one of them can still call back.                         *)
(*                                                                         *)
(* What a connection does with the bytes is left to the application: any   *)
(* callback may send, suspend, resume or close any connection, in any      *)
(* order.  Of the write ring only "not empty" is kept.                     *)
(* Windows, where sockets close synchronously, is left out.                *)
(***************************************************************************)
EXTENDS FiniteSets

CONSTANTS
  Slots,           \* the slab of TcpConnections
  NoSlot,
  SubmitMayFail    \* BOOLEAN: xev.submit can return an error before a cancel

ASSUME SlotsAssumption == NoSlot \notin Slots /\ SubmitMayFail \in BOOLEAN

VARIABLES
  backend,         \* the libxev backend, chosen once at startup
  conn,            \* per slot: the flags of its TcpConnection and its completions
  active,          \* the pool's bitset of acquired slots
  server,          \* the TcpServer
  shutting_down,
  loop,            \* "running", or how run ended
  callback, self   \* the callback being run and the connection it belongs to

vars == <<backend, conn, active, server, shutting_down, loop, callback, self>>
environment == <<backend, shutting_down, loop>>

Backends == {"epoll", "io_uring", "kqueue"}

\* A read, write or accept in the loop: waiting for submit, in the kernel, or
\* cancelled and about to report it; "twice" if armed while outstanding.
Targets == {"none", "queued", "active", "cancelled", "twice"}
\* A cancel in the loop: not yet executed, or executed and about to report it.
Cancels == {"none", "pending", "ran", "twice"}
Closes == {"none", "pending", "twice"}

\* A slot that was never used; the slab starts zeroed.
FreshConn ==
  [bound |-> FALSE,       \* on_close_cb and pool_ptr are set
   closing |-> FALSE, close_complete |-> FALSE,
   read_active |-> FALSE, is_writing |-> FALSE,
   read_cancel_active |-> FALSE, write_cancel_active |-> FALSE,
   close_when_drained |-> FALSE, dispatch_suspended |-> FALSE,
   queued |-> FALSE,      \* write_len # 0
   read |-> "none", write |-> "none", close |-> "none",
   read_cancel |-> "none", write_cancel |-> "none"]

\* Handing a completion to the loop; only kqueue holds it back until submit.
Armed(state) ==
  IF state # "none" THEN "twice" ELSE IF backend = "kqueue" THEN "queued" ELSE "active"
Added(state) == IF state # "none" THEN "twice" ELSE "pending"
Submitted(state) == IF state = "queued" THEN "active" ELSE state

Init ==
  /\ backend \in Backends
  /\ conn = [s \in Slots |-> FreshConn]
  /\ active = {}
  /\ server = [closing |-> FALSE, close_complete |-> FALSE,
               accept_retry_active |-> FALSE, accept_retry_cancel_active |-> FALSE,
               accept |-> Armed("none"), accept_cancel |-> "none",
               retry |-> "none", retry_cancel |-> "none", close |-> "none"]
  /\ shutting_down = FALSE
  /\ loop = "running"
  /\ callback = "none"
  /\ self = NoSlot

-----------------------------------------------------------------------------
(* The functions of tcp.zig, from one connection to the next.              *)

arm_read(x) ==
  IF x.read_active \/ x.dispatch_suspended \/ x.closing THEN x
  ELSE [x EXCEPT !.read_active = TRUE, !.read = Armed(@)]

arm_write(x) ==
  IF x.is_writing \/ ~x.queued \/ x.closing THEN x
  ELSE [x EXCEPT !.is_writing = TRUE, !.write = Armed(@)]

\* Mutant: on kqueue the queued completions are cancelled without a submit.
close_connection_NoSubmit(x, submitted) ==
  IF x.closing THEN x
  ELSE [x EXCEPT !.closing = TRUE, !.close_when_drained = FALSE, !.dispatch_suspended = FALSE,
                 !.read_cancel_active = x.read_active,
                 !.read_cancel = IF x.read_active THEN Added(@) ELSE @,
                 !.write_cancel_active = x.is_writing,
                 !.write_cancel = IF x.is_writing THEN Added(@) ELSE @,
                 !.close = Added(@)]

\* Idempotent: flags first, then submit (kqueue), cancel what is armed, close.
close_connection(x, submitted) ==
  IF x.closing THEN x
  ELSE [x EXCEPT !.closing = TRUE, !.close_when_drained = FALSE, !.dispatch_suspended = FALSE,
                 !.read = IF submitted THEN Submitted(@) ELSE @,
                 !.write = IF submitted THEN Submitted(@) ELSE @,
                 !.read_cancel_active = x.read_active \/ @,
                 !.read_cancel = IF x.read_active THEN Added(@) ELSE @,
                 !.write_cancel_active = x.is_writing \/ @,
                 !.write_cancel = IF x.is_writing THEN Added(@) ELSE @,
                 !.close = Added(@)]

close_after_flush(x, submitted) ==
  LET y == [x EXCEPT !.close_when_drained = TRUE]
  IN  IF x.closing THEN x
      ELSE IF ~x.queued /\ ~x.is_writing THEN close_connection(y, submitted) ELSE y

\* Mutant: the gate does not wait for the cancel callbacks.
MayRelease_IgnoresCancels(x) ==
  x.closing /\ x.close_complete /\ ~x.read_active /\ ~x.is_writing /\ x.bound

\* The gate of release_closed_connection.
MayRelease(x) ==
  /\ x.closing /\ x.close_complete
  /\ ~x.read_active /\ ~x.is_writing
  /\ ~x.read_cancel_active /\ ~x.write_cancel_active
  /\ x.bound

release_closed_connection(x) ==
  IF MayRelease(x)
  THEN [x EXCEPT !.bound = FALSE, !.queued = FALSE, !.dispatch_suspended = FALSE]
  ELSE x

\* What a callback leaves behind; the close callback returns the slot to the pool.
Becomes(s, x) ==
  /\ conn' = [conn EXCEPT ![s] = x]
  /\ active' = IF conn[s].bound /\ ~x.bound THEN active \ {s} ELSE active

\* Outcomes of xev.submit in close_connection.
Submits == IF backend = "kqueue" /\ SubmitMayFail THEN BOOLEAN ELSE {TRUE}

-----------------------------------------------------------------------------
(* What application code does inside a callback, to any open connection.   *)

AppRuns == callback # "none"
Open(s) == conn[s].bound /\ ~conn[s].closing
Unfinished == <<environment, server, callback, self>>

\* A write that did not reach the kernel whole; inside its own read callback
\* it may only join the batch.
Send(s) ==
  /\ AppRuns /\ Open(s)
  /\ LET x == [conn[s] EXCEPT !.queued = TRUE]
     IN  \/ Becomes(s, arm_write(x))
         \/ callback = "read" /\ self = s /\ Becomes(s, x)
  /\ UNCHANGED Unfinished

Close(s) ==
  /\ AppRuns /\ Open(s)
  /\ \E ok \in Submits : Becomes(s, close_connection(conn[s], ok))
  /\ UNCHANGED Unfinished

CloseAfterFlush(s) ==
  /\ AppRuns /\ Open(s)
  /\ \E ok \in Submits : Becomes(s, close_after_flush(conn[s], ok))
  /\ UNCHANGED Unfinished

\* A handler that answers later: asynchronous, a producer or a file body.
Suspend(s) ==
  /\ callback = "read" /\ self = s /\ Open(s)
  /\ Becomes(s, [conn[s] EXCEPT !.dispatch_suspended = TRUE])
  /\ UNCHANGED Unfinished

\* resume_async_dispatch: the deferred answer is complete.  The requests that
\* waited behind it are dispatched first and may suspend again or end the
\* connection; otherwise reading goes on.
Resume(s) ==
  /\ AppRuns /\ ~(callback = "read" /\ self = s)
  /\ Open(s) /\ conn[s].dispatch_suspended
  /\ LET x == [conn[s] EXCEPT !.dispatch_suspended = FALSE]
     IN  IF x.close_when_drained THEN Becomes(s, x)
         ELSE \/ Becomes(s, arm_read(x))
              \/ \E ok \in Submits : \/ Becomes(s, close_after_flush(x, ok))
                                     \/ Becomes(s, close_connection(x, ok))
  /\ UNCHANGED Unfinished

close_server(submitted) ==
  IF server.closing THEN server
  ELSE [server EXCEPT
          !.closing = TRUE,
          !.accept_retry_cancel_active = server.accept_retry_active \/ @,
          !.retry_cancel = IF server.accept_retry_active /\ ~server.accept_retry_cancel_active
                           THEN Added(@) ELSE @,
          !.accept_cancel = IF server.accept # "none" THEN Added(@) ELSE @,
          !.accept = IF submitted THEN Submitted(@) ELSE @,
          !.close = Added(@)]

\* Mutant: the listener stays open.
Shutdown_KeepsListener ==
  /\ AppRuns /\ ~shutting_down
  /\ shutting_down' = TRUE
  /\ \E ok \in Submits :
       conn' = [s \in Slots |-> IF s \in active THEN close_connection(conn[s], ok) ELSE conn[s]]
  /\ UNCHANGED <<backend, active, server, loop, callback, self>>

\* begin_shutdown, from a handler, a signal or the cluster wakeup.
Shutdown ==
  /\ AppRuns /\ ~shutting_down
  /\ shutting_down' = TRUE
  /\ \E ok \in Submits : server' = close_server(ok)
  /\ \E ok \in [Slots -> Submits] :
       conn' = [s \in Slots |-> IF s \in active THEN close_connection(conn[s], ok[s])
                                ELSE conn[s]]
  /\ UNCHANGED <<backend, active, loop, callback, self>>

-----------------------------------------------------------------------------
(* Read and write completions.                                             *)

LoopFree == callback = "none" /\ loop = "running"
Delivered(state) == state \in {"active", "cancelled"}

\* on_read_complete up to the protocol: a closing connection only releases,
\* an error or end of file closes, bytes go to the protocol.
ReadCompletes(s) ==
  /\ LoopFree /\ Delivered(conn[s].read)
  /\ LET x == [conn[s] EXCEPT !.read = "none", !.read_active = FALSE]
     IN  \/ /\ x.closing
            /\ Becomes(s, release_closed_connection(x))
            /\ UNCHANGED <<callback, self>>
         \/ /\ ~x.closing
            /\ \E ok \in Submits :
                 Becomes(s, release_closed_connection(close_connection(x, ok)))
            /\ UNCHANGED <<callback, self>>
         \/ /\ ~x.closing /\ conn[s].read = "active"
            /\ Becomes(s, x)
            /\ callback' = "read" /\ self' = s
  /\ UNCHANGED <<environment, server>>

Batched == conn[self].queued /\ ~conn[self].is_writing /\ ~conn[self].closing

\* end_write_batch: a direct flush empties the ring, or a completion is armed.
FlushBatch ==
  /\ callback = "read" /\ Batched
  /\ LET x == [conn[self] EXCEPT !.queued = FALSE]
     IN  \/ Becomes(self, arm_write(conn[self]))
         \/ /\ ~x.close_when_drained
            /\ Becomes(self, x)
         \/ /\ x.close_when_drained
            /\ \E ok \in Submits : Becomes(self, close_connection(x, ok))
  /\ UNCHANGED Unfinished

\* The tail of on_read_complete: release, stay disarmed, or rearm.
ReadReturns ==
  /\ callback = "read" /\ ~Batched
  /\ LET x == conn[self]
     IN  IF x.closing \/ x.close_when_drained THEN Becomes(self, release_closed_connection(x))
         ELSE IF x.dispatch_suspended THEN Becomes(self, x)
         ELSE Becomes(self, [x EXCEPT !.read_active = TRUE, !.read = Armed(@)])
  /\ callback' = "none" /\ self' = NoSlot
  /\ UNCHANGED <<environment, server>>

\* on_write_complete: some or all of the queued bytes are gone; what the
\* drained ring lets producers and files do follows as application steps.
WriteCompletes(s) ==
  /\ LoopFree /\ Delivered(conn[s].write)
  /\ LET x == [conn[s] EXCEPT !.write = "none", !.is_writing = FALSE]
     IN  \/ /\ x.closing
            /\ Becomes(s, release_closed_connection(x))
            /\ UNCHANGED <<callback, self>>
         \/ /\ ~x.closing
            /\ \E ok \in Submits :
                 Becomes(s, release_closed_connection(close_connection(x, ok)))
            /\ UNCHANGED <<callback, self>>
         \/ /\ ~x.closing /\ conn[s].write = "active"
            /\ \E left \in BOOLEAN : Becomes(s, [x EXCEPT !.queued = left])
            /\ callback' = "write" /\ self' = s
  /\ UNCHANGED <<environment, server>>

\* Mutant: the remainder of a partial write is not sent.
WriteReturns_NoRestart ==
  /\ callback = "write"
  /\ LET x == conn[self]
     IN  IF ~x.queued /\ x.close_when_drained
         THEN \E ok \in Submits : Becomes(self, close_connection(x, ok))
         ELSE Becomes(self, x)
  /\ callback' = "none" /\ self' = NoSlot
  /\ UNCHANGED <<environment, server>>

\* The tail of on_write_complete: close a drained connection or write on.
WriteReturns ==
  /\ callback = "write"
  /\ LET x == conn[self]
     IN  IF ~x.queued /\ x.close_when_drained
         THEN \E ok \in Submits : Becomes(self, close_connection(x, ok))
         ELSE Becomes(self, arm_write(x))
  /\ callback' = "none" /\ self' = NoSlot
  /\ UNCHANGED <<environment, server>>

\* A timer, a signal or a cluster message runs application code.
OtherCallback ==
  /\ LoopFree /\ ~shutting_down
  /\ callback' = "other"
  /\ UNCHANGED <<environment, server, conn, active, self>>

OtherReturns ==
  /\ callback = "other"
  /\ callback' = "none"
  /\ UNCHANGED <<environment, server, conn, active, self>>

-----------------------------------------------------------------------------
(* Close and cancel completions, and what libxev does between them.        *)

\* Mutant: epoll's abandoned targets keep their flags.
CloseCompletes_KeepFlags(s) ==
  /\ LoopFree /\ conn[s].close = "pending"
  /\ LET x == [conn[s] EXCEPT !.close = "none", !.close_complete = TRUE]
     IN  Becomes(s, release_closed_connection(x))
  /\ UNCHANGED Unfinished

\* cancel_abandons_target: epoll never runs the callback of a cancelled target.
CloseCompletes(s) ==
  /\ LoopFree /\ conn[s].close = "pending"
  /\ LET x == [conn[s] EXCEPT !.close = "none", !.close_complete = TRUE]
         y == IF backend = "epoll" THEN [x EXCEPT !.read_active = FALSE, !.is_writing = FALSE]
              ELSE x
     IN  Becomes(s, release_closed_connection(y))
  /\ UNCHANGED Unfinished

ReadCancelCompletes(s) ==
  /\ LoopFree /\ conn[s].read_cancel = "ran"
  /\ Becomes(s, release_closed_connection([conn[s] EXCEPT !.read_cancel = "none",
                                                         !.read_cancel_active = FALSE]))
  /\ UNCHANGED Unfinished

WriteCancelCompletes(s) ==
  /\ LoopFree /\ conn[s].write_cancel = "ran"
  /\ Becomes(s, release_closed_connection([conn[s] EXCEPT !.write_cancel = "none",
                                                         !.write_cancel_active = FALSE]))
  /\ UNCHANGED Unfinished

\* Executing a cancel: epoll forgets an active target, the others will report
\* Canceled, and a target that was never submitted is dropped.
Cancelled(target) ==
  IF target = "active" /\ backend # "epoll" THEN "cancelled"
  ELSE IF target = "cancelled" THEN "cancelled" ELSE "none"

ReadCancelRuns(s) ==
  /\ LoopFree /\ conn[s].read_cancel = "pending"
  /\ Becomes(s, [conn[s] EXCEPT !.read_cancel = "ran", !.read = Cancelled(@)])
  /\ UNCHANGED Unfinished

WriteCancelRuns(s) ==
  /\ LoopFree /\ conn[s].write_cancel = "pending"
  /\ Becomes(s, [conn[s] EXCEPT !.write_cancel = "ran", !.write = Cancelled(@)])
  /\ UNCHANGED Unfinished

\* The next tick of the loop submits what was queued.
LoopSubmits ==
  /\ LoopFree /\ backend = "kqueue"
  /\ conn' = [s \in Slots |-> [conn[s] EXCEPT !.read = Submitted(@), !.write = Submitted(@)]]
  /\ server' = [server EXCEPT !.accept = Submitted(@)]
  /\ UNCHANGED <<environment, active, callback, self>>

-----------------------------------------------------------------------------
(* The listener.                                                           *)

\* on_new_connection: every flag is reset; the first read is armed unless TLS
\* cannot be set up.
Accepted(s) ==
  LET x == [FreshConn EXCEPT !.bound = TRUE]
  IN  \/ conn' = [conn EXCEPT ![s] = arm_read(x)]
      \/ conn' = [conn EXCEPT ![s] = close_connection(x, TRUE)]

\* A socket was accepted: refused without a slot or while shutting down (the
\* descriptor is closed at once), else bound to a slot.
AcceptCompletes ==
  /\ LoopFree /\ server.accept = "active"
  /\ IF server.closing THEN server' = [server EXCEPT !.accept = "none"]
     ELSE server' = [server EXCEPT !.accept = Armed("none")]
  /\ \/ UNCHANGED <<conn, active>>
     \/ /\ ~server.closing /\ ~shutting_down
        /\ \E s \in Slots \ active : active' = active \cup {s} /\ Accepted(s)
  /\ UNCHANGED <<environment, callback, self>>

\* accept_failed: rearm at once, or wait for the retry timer.
AcceptFails ==
  /\ LoopFree /\ Delivered(server.accept)
  /\ \/ /\ server.closing \/ server.accept_retry_active
        /\ server' = [server EXCEPT !.accept = "none"]
     \/ /\ ~server.closing /\ ~server.accept_retry_active
        /\ server' = [server EXCEPT !.accept = Armed("none")]
     \/ /\ ~server.closing /\ ~server.accept_retry_active
        /\ server' = [server EXCEPT !.accept = "none", !.accept_retry_active = TRUE,
                                    !.retry = Added(@)]
  /\ UNCHANGED <<environment, conn, active, callback, self>>

\* on_accept_retry: the timer fired, or its cancel reached it first.
AcceptRetries ==
  /\ LoopFree /\ server.retry = "pending"
  /\ LET x == [server EXCEPT !.retry = "none", !.accept_retry_active = FALSE]
     IN  \/ ~x.closing /\ server' = [x EXCEPT !.accept = Armed(@)]
         \/ x.closing /\ server' = x
  /\ UNCHANGED <<environment, conn, active, callback, self>>

AcceptCancelRuns ==
  /\ LoopFree /\ server.accept_cancel = "pending"
  /\ server' = [server EXCEPT !.accept_cancel = "ran", !.accept = Cancelled(@)]
  /\ UNCHANGED <<environment, conn, active, callback, self>>

AcceptCancelCompletes ==
  /\ LoopFree /\ server.accept_cancel = "ran"
  /\ server' = [server EXCEPT !.accept_cancel = "none"]
  /\ UNCHANGED <<environment, conn, active, callback, self>>

RetryCancelCompletes ==
  /\ LoopFree /\ server.retry_cancel = "pending"
  /\ server' = [server EXCEPT !.retry_cancel = "none", !.accept_retry_cancel_active = FALSE]
  /\ UNCHANGED <<environment, conn, active, callback, self>>

ServerCloseCompletes ==
  /\ LoopFree /\ server.close = "pending"
  /\ server' = [server EXCEPT !.close = "none", !.close_complete = TRUE]
  /\ UNCHANGED <<environment, conn, active, callback, self>>

-----------------------------------------------------------------------------
Outstanding(x) ==
  \/ x.read # "none" \/ x.write # "none" \/ x.close # "none"
  \/ x.read_cancel # "none" \/ x.write_cancel # "none"

ServerOutstanding ==
  \/ server.accept # "none" \/ server.accept_cancel # "none" \/ server.close # "none"
  \/ server.retry # "none" \/ server.retry_cancel # "none"

\* The loop returns when it holds no completion; verify_shutdown judges the rest.
RunReturns ==
  /\ LoopFree /\ shutting_down
  /\ ~ServerOutstanding /\ \A s \in Slots : ~Outstanding(conn[s])
  /\ loop' = IF active = {} /\ server.close_complete THEN "drained" ELSE "incomplete"
  /\ UNCHANGED <<backend, shutting_down, conn, active, server, callback, self>>

\* The steps by which the loop finishes a connection, the listener, a callback.
Teardown(s) ==
  \/ CloseCompletes(s) \/ ReadCancelRuns(s) \/ WriteCancelRuns(s)
  \/ ReadCancelCompletes(s) \/ WriteCancelCompletes(s)
  \/ conn[s].read = "cancelled" /\ ReadCompletes(s)
  \/ conn[s].write = "cancelled" /\ WriteCompletes(s)

ServerTeardown ==
  \/ AcceptCancelRuns \/ AcceptCancelCompletes \/ RetryCancelCompletes
  \/ AcceptRetries \/ ServerCloseCompletes
  \/ server.accept = "cancelled" /\ AcceptFails

CallbackReturns == ReadReturns \/ WriteReturns \/ OtherReturns

Next ==
  \/ \E s \in Slots : \/ Send(s) \/ Close(s) \/ CloseAfterFlush(s) \/ Suspend(s) \/ Resume(s)
                      \/ ReadCompletes(s) \/ WriteCompletes(s) \/ Teardown(s)
  \/ FlushBatch \/ OtherCallback \/ CallbackReturns
  \/ Shutdown \/ LoopSubmits \/ RunReturns
  \/ AcceptCompletes \/ AcceptFails \/ ServerTeardown

Spec == Init /\ [][Next]_vars

(***************************************************************************)
(* The loop keeps delivering what the kernel has finished: closes, cancels *)
(* and their targets.  A read, a write or an accept that nobody cancelled  *)
(* may never finish.  Callbacks return.                                    *)
(***************************************************************************)
Fairness ==
  /\ \A s \in Slots : SF_vars(Teardown(s))
  /\ SF_vars(CallbackReturns) /\ WF_vars(FlushBatch)
  /\ SF_vars(ServerTeardown) /\ SF_vars(LoopSubmits) /\ WF_vars(RunReturns)

FairSpec == Spec /\ Fairness
-----------------------------------------------------------------------------
(* Properties.                                                             *)

Conns ==
  [bound : BOOLEAN, closing : BOOLEAN, close_complete : BOOLEAN, read_active : BOOLEAN,
   is_writing : BOOLEAN, read_cancel_active : BOOLEAN, write_cancel_active : BOOLEAN,
   close_when_drained : BOOLEAN, dispatch_suspended : BOOLEAN, queued : BOOLEAN,
   read : Targets, write : Targets, close : Closes,
   read_cancel : Cancels, write_cancel : Cancels]

Servers ==
  [closing : BOOLEAN, close_complete : BOOLEAN, accept_retry_active : BOOLEAN,
   accept_retry_cancel_active : BOOLEAN, accept : Targets, accept_cancel : Cancels,
   retry : Closes, retry_cancel : Closes, close : Closes]

(* Every variable keeps its type, and the pool's bitset marks exactly the  *)
(* slots whose release callback is set.                                    *)
TypeOK ==
  /\ backend \in Backends
  /\ conn \in [Slots -> Conns]
  /\ active = {s \in Slots : conn[s].bound}
  /\ server \in Servers
  /\ shutting_down \in BOOLEAN
  /\ loop \in {"running", "drained", "incomplete"}
  /\ callback \in {"none", "read", "write", "other"}
  /\ self \in Slots \cup {NoSlot}

(* The release gate: when release_closed_connection returns a slot to the  *)
(* pool, the loop holds none of its completions, so that no callback of    *)
(* the old connection can reach the next one in the same slot.             *)
NoStaleCompletion == \A s \in Slots : ~conn[s].bound => ~Outstanding(conn[s])

(* A completion is storage shared with the loop: no path through the       *)
(* callbacks, resumes and closes hands it over while it is outstanding.    *)
CompletionsArmedOnce ==
  /\ \A s \in Slots : "twice" \notin {conn[s].read, conn[s].write, conn[s].close,
                                       conn[s].read_cancel, conn[s].write_cancel}
  /\ "twice" \notin {server.accept, server.accept_cancel, server.retry,
                     server.retry_cancel, server.close}

(* Between callbacks an open connection always has something to wake it:   *)
(* queued bytes have a write under way, a connection that closes after its *)
(* last byte too, and any other one reads or waits for a deferred answer.  *)
NothingIsStranded ==
  \A s \in Slots :
    Open(s) /\ self # s
      => /\ conn[s].queued => conn[s].is_writing
         /\ conn[s].close_when_drained => conn[s].is_writing
         /\ conn[s].read_active \/ conn[s].dispatch_suspended \/ conn[s].close_when_drained

(* A connection that waits for a deferred answer has no read in the loop:  *)
(* route_http_data takes bytes that arrive meanwhile for a protocol error  *)
(* and closes the connection.                                              *)
SuspendedIsQuiet ==
  \A s \in Slots : Open(s) /\ conn[s].dispatch_suspended => ~conn[s].read_active

(* The listener of a running application always has an accept or a retry   *)
(* timer in the loop, whatever errors accept reported.                     *)
ListenerLives == ~server.closing => server.accept # "none" \/ server.retry # "none"

(* When the loop of a shut down application returns, verify_shutdown finds *)
(* the pool empty and the listener closed, and the assertions of           *)
(* deinit_server hold: no slot is lost on any backend.                     *)
ShutdownIsComplete ==
  loop # "running"
    => /\ loop = "drained"
       /\ ~server.accept_retry_active /\ ~server.accept_retry_cancel_active

\* What the flags of a connection say about its completions.  On epoll the close
\* callback clears the flag of a target whose cancel has not yet removed it;
\* elsewhere a failed submit can lose a target whose flag stays up.
FlagsMatch(b, flag, target, cancel_flag, cancel, x) ==
  /\ target # "twice" /\ cancel # "twice"
  /\ cancel_flag <=> cancel # "none"
  /\ target # "none" => flag \/ (b = "epoll" /\ x.close_complete)
  /\ target # "none" /\ x.closing /\ b = "epoll" => cancel = "pending"
  /\ x.close_complete /\ b = "epoll" => ~flag
  /\ target = "cancelled" => x.closing /\ b # "epoll"
  /\ ~x.closing => cancel = "none" /\ (flag => target # "none")
  /\ x.closing /\ ~SubmitMayFail
       => /\ target # "queued"
          /\ flag => target # "none" \/ b = "epoll"

ConnOK(b, x) ==
  /\ FlagsMatch(b, x.read_active, x.read, x.read_cancel_active, x.read_cancel, x)
  /\ FlagsMatch(b, x.is_writing, x.write, x.write_cancel_active, x.write_cancel, x)
  /\ x.close # "twice"
  /\ x.bound => (x.close # "none" <=> x.closing /\ ~x.close_complete)
  /\ x.close_complete => x.closing
  /\ ~x.bound => ~Outstanding(x)
  /\ x.dispatch_suspended => ~x.read_active

\* What keeps an open connection going, depending on the callback it is in.
Awake(in_callback, x) ==
  x.bound /\ ~x.closing
    => /\ in_callback = "none" => (x.queued => x.is_writing)
       /\ in_callback # "write" => (x.close_when_drained => x.queued \/ x.is_writing)
       /\ in_callback # "read" => x.read_active \/ x.dispatch_suspended \/ x.close_when_drained

\* While its callback runs, a connection keeps its slot.
CallbackOK ==
  /\ callback \in {"read", "write"} => self \in Slots /\ conn[self].bound
  /\ callback \in {"none", "other"} => self = NoSlot
  /\ callback = "read" => ~conn[self].read_active
  /\ loop # "running" => callback = "none"

ServerOK(v) ==
  /\ "twice" \notin {v.accept, v.accept_cancel, v.retry, v.retry_cancel, v.close}
  /\ v.retry # "none" <=> v.accept_retry_active
  /\ v.retry # "none" => v.accept = "none"
  /\ v.retry_cancel # "none" <=> v.accept_retry_cancel_active
  /\ ~v.closing => /\ v.accept # "none" \/ v.retry # "none"
                   /\ v.accept_cancel = "none" /\ v.retry_cancel = "none" /\ v.close = "none"
  /\ v.closing => v.close # "none" \/ v.close_complete

\* begin_shutdown reaches everything that is open, and nothing opens after it.
ShutdownOK == shutting_down => server.closing /\ \A s \in active : conn[s].closing

(* The flags that gate the release agree with what the loop holds, on each *)
(* backend, for every connection and the listener; an open connection has  *)
(* something to wake it; and shutdown leaves nothing open.                 *)
ConnInv ==
  /\ \A s \in Slots : /\ ConnOK(backend, conn[s])
                     /\ ~MayRelease(conn[s])
                     /\ Awake(IF self = s THEN callback ELSE "none", conn[s])
  /\ CallbackOK
  /\ ServerOK(server)
  /\ ShutdownOK

(* A closing connection returns to the pool.                               *)
SlotsReturn == \A s \in Slots : (s \in active /\ conn[s].closing) ~> s \notin active

(* Shutdown ends the run.                                                  *)
ShutdownEnds == shutting_down ~> loop = "drained"
=============================================================================
