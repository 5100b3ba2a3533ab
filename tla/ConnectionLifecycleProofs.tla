---------------------- MODULE ConnectionLifecycleProofs ----------------------
(***************************************************************************)
(* Proofs about the connection lifecycle, for every set of slots and every *)
(* backend.  The lemmas follow one connection through the functions of     *)
(* tcp.zig; the steps of the specification are put together from them.     *)
(***************************************************************************)
EXTENDS ConnectionLifecycle, TLAPS

USE SlotsAssumption DEF Backends

IInv == TypeOK /\ ConnInv

\* A connection whose flags and completions agree.
Good(x) == x \in Conns /\ ConnOK(backend, x)

-----------------------------------------------------------------------------
(* The functions of tcp.zig keep a connection good.                        *)

(* What arming, submitting and cancelling make of a completion.            *)
LEMMA CompletionStates ==
  /\ \A t \in Targets : /\ Armed(t) \in Targets /\ Submitted(t) \in Targets
                        /\ Cancelled(t) \in Targets
                        /\ Armed(t) \notin {"none", "cancelled"}
                        /\ t = "none" => Armed(t) # "twice"
                        /\ t # "none" => Submitted(t) \notin {"none", "queued"}
                        /\ t # "twice" => Submitted(t) # "twice" /\ Cancelled(t) # "twice"
                        /\ Submitted(t) = "cancelled" <=> t = "cancelled"
                        /\ Submitted(t) = "none" <=> t = "none"
                        /\ Cancelled(t) # "queued"
                        /\ Cancelled(t) # "none" => t # "none"
                        /\ Cancelled(t) = "cancelled" /\ t # "cancelled" => backend # "epoll"
                        /\ t \in {"active", "cancelled"} /\ backend # "epoll"
                             => Cancelled(t) # "none"
  /\ \A c \in Cancels : Added(c) \in Cancels /\ Added(c) # "none"
  /\ \A c \in Closes : Added(c) \in Closes /\ Added(c) # "none"
  /\ Added("none") = "pending"
  BY DEF Armed, Submitted, Cancelled, Added, Targets, Cancels, Closes

(* arm_read keeps a connection good and arms at most one read.             *)
LEMMA ArmRead ==
  ASSUME NEW x, Good(x), x.bound
  PROVE  LET y == arm_read(x)
         IN  /\ Good(y) /\ y.bound /\ y.closing = x.closing
             /\ y.close_complete = x.close_complete
             /\ y.queued = x.queued /\ y.is_writing = x.is_writing
             /\ y.close_when_drained = x.close_when_drained
             /\ y.dispatch_suspended = x.dispatch_suspended
             /\ x.closing \/ y.read_active \/ y.dispatch_suspended
<1> DEFINE y == [x EXCEPT !.read_active = TRUE, !.read = Armed(@)]
<1>1. CASE x.read_active \/ x.dispatch_suspended \/ x.closing
  BY <1>1 DEF arm_read
<1>2. CASE ~(x.read_active \/ x.dispatch_suspended \/ x.closing)
  <2>1. x \in Conns /\ x.read \in Targets
    BY DEF Good, Conns
  <2>2. x.read = "none"
    BY <1>2 DEF Good, ConnOK, FlagsMatch
  <2>3. Armed(x.read) \in Targets \ {"none", "cancelled", "twice"}
    BY <2>1, <2>2, CompletionStates
  <2>4. y \in Conns
    BY <2>1, <2>3 DEF Conns
  <2>5. ConnOK(backend, y)
    BY <1>2, <2>1, <2>2, <2>3 DEF Good, Conns, ConnOK, FlagsMatch, Outstanding
  <2>6. arm_read(x) = y
    BY <1>2 DEF arm_read
  <2> QED
    BY <2>1, <2>4, <2>5, <2>6 DEF Good, Conns
<1> QED
  BY <1>1, <1>2

(* arm_write keeps a connection good and arms a write for queued bytes.    *)
LEMMA ArmWrite ==
  ASSUME NEW x, Good(x), x.bound
  PROVE  LET y == arm_write(x)
         IN  /\ Good(y) /\ y.bound /\ y.closing = x.closing
             /\ y.close_complete = x.close_complete
             /\ y.queued = x.queued /\ y.read_active = x.read_active
             /\ y.close_when_drained = x.close_when_drained
             /\ y.dispatch_suspended = x.dispatch_suspended
             /\ x.is_writing => y.is_writing
             /\ x.queued /\ ~x.closing => y.is_writing
<1> DEFINE y == [x EXCEPT !.is_writing = TRUE, !.write = Armed(@)]
<1>1. CASE x.is_writing \/ ~x.queued \/ x.closing
  BY <1>1 DEF arm_write
<1>2. CASE ~(x.is_writing \/ ~x.queued \/ x.closing)
  <2>1. x \in Conns /\ x.write \in Targets
    BY DEF Good, Conns
  <2>2. x.write = "none"
    BY <1>2 DEF Good, ConnOK, FlagsMatch
  <2>3. Armed(x.write) \in Targets \ {"none", "cancelled", "twice"}
    BY <2>1, <2>2, CompletionStates
  <2>4. y \in Conns
    BY <2>1, <2>3 DEF Conns
  <2>5. ConnOK(backend, y)
    BY <1>2, <2>1, <2>2, <2>3 DEF Good, Conns, ConnOK, FlagsMatch, Outstanding
  <2>6. arm_write(x) = y
    BY <1>2 DEF arm_write
  <2> QED
    BY <2>1, <2>4, <2>5, <2>6 DEF Good, Conns
<1> QED
  BY <1>1, <1>2

(* close_connection cancels exactly what the loop holds, and the targets   *)
(* of its cancels have been submitted unless submit failed.                *)
LEMMA CloseConnection ==
  ASSUME NEW x, Good(x), x.bound, NEW ok \in BOOLEAN, SubmitMayFail \/ ok
  PROVE  LET y == close_connection(x, ok)
         IN  /\ Good(y) /\ y.bound /\ y.closing
             /\ y.close_complete = x.close_complete
             /\ y.read_active = x.read_active
<1> DEFINE y == [x EXCEPT !.closing = TRUE, !.close_when_drained = FALSE,
                          !.dispatch_suspended = FALSE,
                          !.read = IF ok THEN Submitted(@) ELSE @,
                          !.write = IF ok THEN Submitted(@) ELSE @,
                          !.read_cancel_active = x.read_active \/ @,
                          !.read_cancel = IF x.read_active THEN Added(@) ELSE @,
                          !.write_cancel_active = x.is_writing \/ @,
                          !.write_cancel = IF x.is_writing THEN Added(@) ELSE @,
                          !.close = Added(@)]
<1>1. CASE x.closing
  BY <1>1 DEF close_connection
<1>2. CASE ~x.closing
  <2>1. /\ x \in Conns /\ x.read \in Targets /\ x.write \in Targets
        /\ x.read_active \in BOOLEAN /\ x.is_writing \in BOOLEAN
    BY DEF Good, Conns
  <2>2. /\ x.read_cancel = "none" /\ x.write_cancel = "none" /\ x.close = "none"
        /\ ~x.read_cancel_active /\ ~x.write_cancel_active /\ ~x.close_complete
        /\ x.read # "none" <=> x.read_active
        /\ x.write # "none" <=> x.is_writing
        /\ x.read \notin {"cancelled", "twice"} /\ x.write \notin {"cancelled", "twice"}
    BY <1>2 DEF Good, ConnOK, FlagsMatch
  <2> DEFINE r == IF ok THEN Submitted(x.read) ELSE x.read
             w == IF ok THEN Submitted(x.write) ELSE x.write
             rc == IF x.read_active THEN "pending" ELSE "none"
             wc == IF x.is_writing THEN "pending" ELSE "none"
  <2>3. y = [x EXCEPT !.closing = TRUE, !.close_when_drained = FALSE,
                      !.dispatch_suspended = FALSE, !.read = r, !.write = w,
                      !.read_cancel_active = x.read_active, !.read_cancel = rc,
                      !.write_cancel_active = x.is_writing, !.write_cancel = wc,
                      !.close = "pending"]
    <3>1. (IF x.read_active THEN Added(x.read_cancel) ELSE x.read_cancel) = rc
      BY <2>2, CompletionStates
    <3>2. (IF x.is_writing THEN Added(x.write_cancel) ELSE x.write_cancel) = wc
      BY <2>2, CompletionStates
    <3>3. Added(x.close) = "pending"
      BY <2>2, CompletionStates
    <3>4. (x.read_active \/ x.read_cancel_active) = x.read_active
      BY <2>1, <2>2
    <3>5. (x.is_writing \/ x.write_cancel_active) = x.is_writing
      BY <2>1, <2>2
    <3> QED
      BY <3>1, <3>2, <3>3, <3>4, <3>5
  <2>4. /\ r \in Targets \ {"cancelled", "twice"} /\ w \in Targets \ {"cancelled", "twice"}
        /\ r # "none" <=> x.read_active
        /\ w # "none" <=> x.is_writing
        /\ ~SubmitMayFail => r # "queued" /\ w # "queued"
    BY <2>1, <2>2, CompletionStates
  <2>5. /\ rc \in Cancels /\ wc \in Cancels /\ "pending" \in Closes
        /\ rc # "twice" /\ wc # "twice"
        /\ IF x.read_active THEN rc = "pending" ELSE rc = "none"
        /\ IF x.is_writing THEN wc = "pending" ELSE wc = "none"
    BY DEF Cancels, Closes
  <2> HIDE DEF r, w, rc, wc
  <2> DEFINE z == [x EXCEPT !.closing = TRUE, !.close_when_drained = FALSE,
                      !.dispatch_suspended = FALSE, !.read = r, !.write = w,
                      !.read_cancel_active = x.read_active, !.read_cancel = rc,
                      !.write_cancel_active = x.is_writing, !.write_cancel = wc,
                      !.close = "pending"]
  <2>6. z \in Conns
    BY <2>1, <2>4, <2>5, ZenonT(40) DEF Conns
  <2>7. /\ z.bound /\ z.closing /\ ~z.dispatch_suspended /\ z.close = "pending"
        /\ z.close_complete = x.close_complete
        /\ z.read_active = x.read_active /\ z.is_writing = x.is_writing
        /\ z.read = r /\ z.write = w /\ z.read_cancel = rc /\ z.write_cancel = wc
        /\ z.read_cancel_active = x.read_active /\ z.write_cancel_active = x.is_writing
    BY <2>1 DEF Conns
  <2>8. close_connection(x, ok) = z
    BY <1>2, <2>3 DEF close_connection
  <2> HIDE DEF z
  <2>9. ConnOK(backend, z)
    BY <2>1, <2>2, <2>4, <2>5, <2>7 DEF ConnOK, FlagsMatch
  <2> QED
    BY <2>6, <2>7, <2>8, <2>9 DEF Good
<1> QED
  BY <1>1, <1>2

(* close_after_flush closes, or leaves bytes whose write will close.       *)
LEMMA CloseAfterFlush1 ==
  ASSUME NEW x, Good(x), x.bound, ~x.closing, NEW ok \in BOOLEAN, SubmitMayFail \/ ok
  PROVE  LET y == close_after_flush(x, ok)
         IN  /\ Good(y) /\ y.bound
             /\ y.close_complete = x.close_complete
             /\ y.read_active = x.read_active
             /\ \/ y.closing
                \/ /\ y.closing = x.closing
                   /\ y.close_when_drained
                   /\ y.queued \/ y.is_writing
                   /\ y.queued = x.queued /\ y.is_writing = x.is_writing
<1> DEFINE y == [x EXCEPT !.close_when_drained = TRUE]
<1>1. x \in Conns
  BY DEF Good
<1>2. Good(y)
  <2>1. y \in Conns
    BY <1>1 DEF Conns
  <2>2. ConnOK(backend, y)
    BY <1>1 DEF Good, Conns, ConnOK, FlagsMatch, Outstanding
  <2> QED
    BY <2>1, <2>2 DEF Good
<1>3. /\ y.bound /\ y.closing = x.closing /\ y.close_when_drained
      /\ y.close_complete = x.close_complete /\ y.read_active = x.read_active
      /\ y.queued = x.queued /\ y.is_writing = x.is_writing
  BY <1>1 DEF Conns
<1> HIDE DEF y
<1>4. CASE ~x.queued /\ ~x.is_writing
  <2>1. close_after_flush(x, ok) = close_connection(y, ok)
    BY <1>4 DEF close_after_flush, y
  <2> QED
    BY <1>2, <1>3, <2>1, CloseConnection
<1>5. CASE x.queued \/ x.is_writing
  <2>1. close_after_flush(x, ok) = y
    BY <1>5 DEF close_after_flush, y
  <2> QED
    BY <1>2, <1>3, <1>5, <2>1
<1> QED
  BY <1>4, <1>5

(* The release gate: a slot that passes it has no completion in the loop.  *)
LEMMA Release ==
  ASSUME NEW x, Good(x)
  PROVE  LET y == release_closed_connection(x)
         IN  /\ Good(y) /\ ~MayRelease(y)
             /\ y.bound => x.bound
             /\ y.closing = x.closing
             /\ y = x \/ ~y.bound
<1> DEFINE y == [x EXCEPT !.bound = FALSE, !.queued = FALSE, !.dispatch_suspended = FALSE]
<1>1. x \in Conns
  BY DEF Good
<1>2. CASE ~MayRelease(x)
  BY <1>2 DEF release_closed_connection
<1>3. CASE MayRelease(x)
  <2>1. ~Outstanding(x)
    BY <1>1, <1>3 DEF Good, ConnOK, FlagsMatch, MayRelease, Outstanding
  <2>2. y \in Conns
    BY <1>1 DEF Conns
  <2>3. ConnOK(backend, y) /\ ~MayRelease(y)
    BY <1>1, <2>1 DEF Good, Conns, ConnOK, FlagsMatch, Outstanding, MayRelease
  <2>4. release_closed_connection(x) = y
    BY <1>3 DEF release_closed_connection
  <2> QED
    BY <1>1, <2>2, <2>3, <2>4 DEF Good, Conns
<1> QED
  BY <1>2, <1>3
-----------------------------------------------------------------------------
(* From one connection to the whole state.                                 *)

InCallback(s) == IF self = s THEN callback ELSE "none"

(* The facts the invariant gives about one connection.                     *)
LEMMA SlotFacts ==
  ASSUME IInv, NEW s \in Slots
  PROVE  /\ Good(conn[s]) /\ ~MayRelease(conn[s]) /\ conn[s] \in Conns
         /\ Awake(InCallback(s), conn[s])
         /\ s \in active <=> conn[s].bound
         /\ self = s => conn[s].bound
         /\ callback = "read" /\ self = s => ~conn[s].read_active
<1>1. s # NoSlot
  BY DEF SlotsAssumption
<1> QED
  BY <1>1 DEF IInv, TypeOK, ConnInv, CallbackOK, Good, InCallback

(* A step that replaces one connection by a good one, and may enter its    *)
(* callback or return from it, keeps the invariant.                        *)
LEMMA StepKeepsInv ==
  ASSUME IInv, NEW s \in Slots, NEW y, Good(y), ~MayRelease(y), Becomes(s, y),
         y.bound => conn[s].bound, conn[s].closing => y.closing,
         UNCHANGED <<environment, server>>,
         Awake(IF self' = s THEN callback' ELSE "none", y),
         \/ /\ UNCHANGED <<callback, self>>
            /\ self = s => y.bound /\ (callback = "read" => ~y.read_active)
         \/ /\ self = NoSlot /\ self' = s /\ loop = "running"
            /\ callback' \in {"read", "write"} /\ y.bound
            /\ callback' = "read" => ~y.read_active
         \/ self = s /\ callback' = "none" /\ self' = NoSlot
  PROVE  IInv'
<1>0. /\ conn \in [Slots -> Conns] /\ active = {r \in Slots : conn[r].bound} /\ s # NoSlot
      /\ y \in Conns /\ ConnOK(backend, y)
  BY DEF IInv, TypeOK, Good, SlotsAssumption
<1>1. conn' = [conn EXCEPT ![s] = y] /\ UNCHANGED <<backend, server, shutting_down, loop>>
  BY DEF Becomes, environment
<1>2. conn'[s] = y /\ \A r \in Slots : r # s => conn'[r] = conn[r]
  BY <1>0, <1>1
<1>3. active' = {r \in Slots : conn'[r].bound}
  <2>1. CASE conn[s].bound /\ ~y.bound
    <3>1. active' = active \ {s}
      BY <2>1 DEF Becomes
    <3> QED
      BY <1>0, <1>2, <2>1, <3>1
  <2>2. CASE ~(conn[s].bound /\ ~y.bound)
    <3>1. active' = active
      BY <2>2 DEF Becomes
    <3>2. conn[s].bound = y.bound
      <4>1. conn[s].bound \in BOOLEAN /\ y.bound \in BOOLEAN
        BY <1>0 DEF Conns
      <4> QED
        BY <2>2, <4>1
    <3> QED
      BY <1>0, <1>2, <3>1, <3>2
  <2> QED
    BY <2>1, <2>2
<1>4. TypeOK'
  <2>1. conn' \in [Slots -> Conns]
    BY <1>0, <1>1
  <2>2. callback' \in {"none", "read", "write", "other"} /\ self' \in Slots \cup {NoSlot}
    BY DEF IInv, TypeOK
  <2> QED
    BY <1>1, <1>3, <2>1, <2>2 DEF IInv, TypeOK
<1>5. ASSUME NEW r \in Slots
      PROVE  /\ ConnOK(backend, conn'[r]) /\ ~MayRelease(conn'[r])
             /\ Awake(IF self' = r THEN callback' ELSE "none", conn'[r])
  <2>1. CASE r = s
    BY <1>0, <1>2, <2>1
  <2>2. CASE r # s
    <3>1. r # NoSlot
      BY DEF SlotsAssumption
    <3>2. (IF self' = r THEN callback' ELSE "none") = (IF self = r THEN callback ELSE "none")
      BY <2>2, <3>1
    <3> QED
      BY <1>2, <2>2, <3>2 DEF IInv, ConnInv
  <2> QED
    BY <2>1, <2>2
<1>6. CallbackOK'
  <2>1. CallbackOK
    BY DEF IInv, ConnInv
  <2>2. CASE UNCHANGED <<callback, self>>
    <3>1. CASE self = s
      BY <1>1, <1>2, <2>1, <2>2, <3>1 DEF CallbackOK, SlotsAssumption
    <3>2. CASE self # s
      BY <1>1, <1>2, <2>1, <2>2, <3>2 DEF CallbackOK
    <3> QED
      BY <3>1, <3>2
  <2>3. CASE ~UNCHANGED <<callback, self>>
    BY <1>0, <1>1, <1>2, <2>1, <2>3 DEF CallbackOK
  <2> QED
    BY <2>2, <2>3
<1>7. ServerOK(server)' /\ ShutdownOK'
  <2>1. ServerOK(server) /\ ShutdownOK
    BY DEF IInv, ConnInv
  <2>2. \A r \in active' : r \in active /\ (conn[r].closing => conn'[r].closing)
    BY <1>0, <1>2, <1>3
  <2> QED
    BY <1>1, <2>1, <2>2 DEF ShutdownOK
<1> QED
  <2>1. backend' = backend
    BY <1>1
  <2>2. \A r \in Slots : ConnOK(backend', conn'[r])
    BY <1>5, <2>1
  <2> QED
    BY <1>4, <1>5, <1>6, <1>7, <2>2 DEF IInv, ConnInv

(* The outcomes of xev.submit in close_connection.                         *)
LEMMA SubmitOutcomes ==
  ASSUME NEW ok \in Submits
  PROVE  ok \in BOOLEAN /\ (SubmitMayFail \/ ok)
  BY DEF Submits, SlotsAssumption

(* An open connection has not reported its close.                          *)
LEMMA NotClosed ==
  ASSUME NEW x, Good(x), ~x.closing
  PROVE  ~x.close_complete /\ ~MayRelease(x)
  BY DEF Good, ConnOK, MayRelease

(* Closing an open connection during any callback.                         *)
LEMMA CloseStep ==
  ASSUME IInv, NEW s \in Slots, NEW x, Good(x), x.bound, ~x.closing, conn[s].bound, ~conn[s].closing,
         self = s /\ callback = "read" => ~x.read_active,
         NEW ok \in Submits, Becomes(s, close_connection(x, ok)), UNCHANGED Unfinished
  PROVE  IInv'
<1> DEFINE y == close_connection(x, ok)
<1>1. /\ Good(y) /\ y.bound /\ y.closing
      /\ y.close_complete = x.close_complete
      /\ y.read_active = x.read_active
  BY CloseConnection, SubmitOutcomes
<1> HIDE DEF y
<1>2. ~MayRelease(y)
  BY <1>1, NotClosed DEF MayRelease
<1>3. Awake(IF self' = s THEN callback' ELSE "none", y)
  BY <1>1 DEF Awake
<1> QED
  BY <1>1, <1>2, <1>3, StepKeepsInv DEF y, Unfinished

(* Queueing bytes, in or outside a write batch, keeps the invariant.       *)
LEMMA SendKeepsInv ==
  ASSUME IInv, NEW s \in Slots, Send(s)
  PROVE  IInv'
<1> DEFINE x == [conn[s] EXCEPT !.queued = TRUE]
<1>0. /\ conn[s] \in Conns /\ Good(conn[s]) /\ Awake(InCallback(s), conn[s])
      /\ self = s /\ callback = "read" => ~conn[s].read_active
      /\ conn[s].bound /\ ~conn[s].closing
      /\ UNCHANGED <<environment, server, callback, self>>
  BY SlotFacts DEF Send, Open, Unfinished
<1>1. Good(x)
  <2>1. x \in Conns
    BY <1>0 DEF Conns
  <2>2. ConnOK(backend, x)
    BY <1>0 DEF Good, Conns, ConnOK, FlagsMatch, Outstanding
  <2> QED
    BY <2>1, <2>2 DEF Good
<1>2. /\ x.bound /\ ~x.closing /\ x.queued /\ x.close_when_drained = conn[s].close_when_drained
      /\ x.read_active = conn[s].read_active /\ x.is_writing = conn[s].is_writing
      /\ x.dispatch_suspended = conn[s].dispatch_suspended
  BY <1>0 DEF Conns
<1>3. Becomes(s, arm_write(x)) \/ (callback = "read" /\ self = s /\ Becomes(s, x))
  BY DEF Send
<1> HIDE DEF x
<1>4. CASE Becomes(s, arm_write(x))
  <2> DEFINE y == arm_write(x)
  <2>1. /\ Good(y) /\ y.bound /\ ~y.closing /\ y.queued /\ y.is_writing
        /\ y.read_active = x.read_active
        /\ y.close_when_drained = x.close_when_drained
        /\ y.dispatch_suspended = x.dispatch_suspended
    BY <1>0, <1>1, <1>2, ArmWrite
  <2> HIDE DEF y
  <2>2. Awake(IF self' = s THEN callback' ELSE "none", y)
    BY <1>0, <1>2, <2>1 DEF Awake, InCallback
  <2> QED
    BY <1>0, <1>2, <1>4, <2>1, <2>2, NotClosed, StepKeepsInv DEF y
<1>5. CASE callback = "read" /\ self = s /\ Becomes(s, x)
  <2>1. Awake(IF self' = s THEN callback' ELSE "none", x)
    BY <1>0, <1>2, <1>5 DEF Awake
  <2> QED
    BY <1>0, <1>1, <1>2, <1>5, <2>1, NotClosed, StepKeepsInv
<1> QED
  BY <1>3, <1>4, <1>5

(* So does closing an open connection from application code.               *)
LEMMA CloseKeepsInv ==
  ASSUME IInv, NEW s \in Slots, Close(s)
  PROVE  IInv'
<1>1. PICK ok \in Submits : Becomes(s, close_connection(conn[s], ok))
  BY DEF Close
<1> QED
  BY <1>1, SlotFacts, CloseStep DEF Close, Open

(* close_after_flush during any callback, from a connection that keeps     *)
(* what wakes it.                                                          *)
LEMMA FlushStep ==
  ASSUME IInv, NEW s \in Slots, NEW x, Good(x), x.bound, ~x.closing, conn[s].bound, ~conn[s].closing,
         self = s /\ callback = "read" => ~x.read_active,
         InCallback(s) = "none" => (x.queued => x.is_writing),
         NEW ok \in Submits, Becomes(s, close_after_flush(x, ok)), UNCHANGED Unfinished
  PROVE  IInv'
<1> DEFINE y == close_after_flush(x, ok)
<1>1. /\ Good(y) /\ y.bound
      /\ y.close_complete = x.close_complete
      /\ y.read_active = x.read_active
      /\ y.closing \/ /\ y.close_when_drained
                      /\ y.queued \/ y.is_writing
                      /\ y.queued = x.queued /\ y.is_writing = x.is_writing
  BY CloseAfterFlush1, SubmitOutcomes
<1> HIDE DEF y
<1>2. ~MayRelease(y)
  BY <1>1, NotClosed DEF MayRelease
<1>3. Awake(IF self' = s THEN callback' ELSE "none", y)
  BY <1>1 DEF Awake, InCallback, Unfinished
<1> QED
  BY <1>1, <1>2, <1>3, StepKeepsInv DEF y, Unfinished

(* So does close_after_flush from application code.                        *)
LEMMA CloseAfterFlushKeepsInv ==
  ASSUME IInv, NEW s \in Slots, CloseAfterFlush(s)
  PROVE  IInv'
<1>1. PICK ok \in Submits : Becomes(s, close_after_flush(conn[s], ok))
  BY DEF CloseAfterFlush
<1>2. /\ Good(conn[s]) /\ Awake(InCallback(s), conn[s])
      /\ callback = "read" /\ self = s => ~conn[s].read_active
  BY SlotFacts
<1>3. InCallback(s) = "none" => (conn[s].queued => conn[s].is_writing)
  BY <1>2 DEF Awake, CloseAfterFlush, Open
<1> QED
  BY <1>1, <1>2, <1>3, FlushStep DEF CloseAfterFlush, Open

(* So does a handler that defers its answer.                               *)
LEMMA SuspendKeepsInv ==
  ASSUME IInv, NEW s \in Slots, Suspend(s)
  PROVE  IInv'
<1> DEFINE x == [conn[s] EXCEPT !.dispatch_suspended = TRUE]
<1>0. /\ conn[s] \in Conns /\ Good(conn[s]) /\ ~conn[s].read_active
      /\ Awake("read", conn[s]) /\ callback = "read" /\ self = s
      /\ conn[s].bound /\ ~conn[s].closing
      /\ UNCHANGED <<environment, server, callback, self>> /\ Becomes(s, x)
  BY SlotFacts DEF Suspend, Open, Unfinished, InCallback
<1>1. Good(x)
  <2>1. x \in Conns
    BY <1>0 DEF Conns
  <2>2. ConnOK(backend, x)
    BY <1>0 DEF Good, Conns, ConnOK, FlagsMatch, Outstanding
  <2> QED
    BY <2>1, <2>2 DEF Good
<1>2. /\ x.bound /\ ~x.closing /\ ~x.read_active
      /\ x.close_when_drained = conn[s].close_when_drained
      /\ x.queued = conn[s].queued /\ x.is_writing = conn[s].is_writing
  BY <1>0 DEF Conns
<1> HIDE DEF x
<1>3. Awake(IF self' = s THEN callback' ELSE "none", x)
  BY <1>0, <1>2 DEF Awake
<1> QED
  BY <1>0, <1>1, <1>2, <1>3, NotClosed, StepKeepsInv

(* So does resume_async_dispatch, whatever the waiting requests do.        *)
LEMMA ResumeKeepsInv ==
  ASSUME IInv, NEW s \in Slots, Resume(s)
  PROVE  IInv'
<1> DEFINE x == [conn[s] EXCEPT !.dispatch_suspended = FALSE]
<1>0. /\ conn[s] \in Conns /\ Good(conn[s]) /\ Awake(InCallback(s), conn[s])
      /\ ~(callback = "read" /\ self = s)
      /\ conn[s].bound /\ ~conn[s].closing
      /\ UNCHANGED <<environment, server, callback, self>> /\ UNCHANGED Unfinished
  BY SlotFacts DEF Resume, Open, Unfinished
<1>1. Good(x)
  <2>1. x \in Conns
    BY <1>0 DEF Conns
  <2>2. ConnOK(backend, x)
    BY <1>0 DEF Good, Conns, ConnOK, FlagsMatch, Outstanding
  <2> QED
    BY <2>1, <2>2 DEF Good
<1>2. /\ x.bound /\ ~x.closing /\ x.close_when_drained = conn[s].close_when_drained
      /\ x.read_active = conn[s].read_active /\ x.is_writing = conn[s].is_writing
      /\ x.queued = conn[s].queued
  BY <1>0 DEF Conns
<1>3. \/ x.close_when_drained /\ Becomes(s, x)
      \/ ~x.close_when_drained /\ Becomes(s, arm_read(x))
      \/ \E ok \in Submits : Becomes(s, close_after_flush(x, ok))
      \/ \E ok \in Submits : Becomes(s, close_connection(x, ok))
  BY DEF Resume
<1> HIDE DEF x
<1>4. /\ InCallback(s) = "none" => (x.queued => x.is_writing)
      /\ InCallback(s) # "write" => (x.close_when_drained => x.queued \/ x.is_writing)
  BY <1>0, <1>2 DEF Awake
<1>5. CASE x.close_when_drained /\ Becomes(s, x)
  <2>1. Awake(IF self' = s THEN callback' ELSE "none", x)
    BY <1>0, <1>2, <1>4, <1>5 DEF Awake, InCallback
  <2> QED
    BY <1>0, <1>1, <1>2, <1>5, <2>1, NotClosed, StepKeepsInv
<1>6. CASE ~x.close_when_drained /\ Becomes(s, arm_read(x))
  <2> DEFINE y == arm_read(x)
  <2>1. /\ Good(y) /\ y.bound /\ ~y.closing
        /\ y.queued = x.queued /\ y.is_writing = x.is_writing
        /\ ~y.close_when_drained
        /\ y.read_active \/ y.dispatch_suspended
    BY <1>1, <1>2, <1>6, ArmRead
  <2> HIDE DEF y
  <2>2. Awake(IF self' = s THEN callback' ELSE "none", y)
    BY <1>0, <1>4, <2>1 DEF Awake, InCallback
  <2> QED
    BY <1>0, <1>6, <2>1, <2>2, NotClosed, StepKeepsInv DEF y
<1>7. CASE \E ok \in Submits : Becomes(s, close_after_flush(x, ok))
  BY <1>0, <1>1, <1>2, <1>4, <1>7, FlushStep
<1>8. CASE \E ok \in Submits : Becomes(s, close_connection(x, ok))
  BY <1>0, <1>1, <1>2, <1>8, CloseStep
<1> QED
  BY <1>3, <1>5, <1>6, <1>7, <1>8

(* A step of the loop itself runs between callbacks.                       *)
LEMMA BetweenCallbacks ==
  ASSUME IInv, LoopFree
  PROVE  self = NoSlot /\ loop = "running" /\ \A s \in Slots : InCallback(s) = "none"
  BY DEF IInv, ConnInv, CallbackOK, LoopFree, InCallback

(* A completion of a closing connection, and the release behind it.        *)
LEMMA ReleaseStep ==
  ASSUME IInv, NEW s \in Slots, NEW x, Good(x), x.closing, x.bound => conn[s].bound,
         self # s, Becomes(s, release_closed_connection(x)),
         UNCHANGED <<environment, server, callback, self>>
  PROVE  IInv'
<1> DEFINE y == release_closed_connection(x)
<1>1. Good(y) /\ ~MayRelease(y) /\ (y.bound => x.bound) /\ y.closing
  BY Release
<1> HIDE DEF y
<1>2. Awake(IF self' = s THEN callback' ELSE "none", y)
  BY <1>1 DEF Awake
<1> QED
  BY <1>1, <1>2, StepKeepsInv DEF y

(* An error or end of file: close, and release if nothing is outstanding.  *)
LEMMA ErrorStep ==
  ASSUME IInv, NEW s \in Slots, NEW x, Good(x), x.bound, conn[s].bound, self # s,
         NEW ok \in Submits, Becomes(s, release_closed_connection(close_connection(x, ok))),
         UNCHANGED <<environment, server, callback, self>>
  PROVE  IInv'
<1> DEFINE y == close_connection(x, ok)
<1>1. Good(y) /\ y.bound /\ y.closing
  BY CloseConnection, SubmitOutcomes
<1> HIDE DEF y
<1> QED
  BY <1>1, ReleaseStep DEF y

(* Only a connection with a slot has completions.                          *)
LEMMA HasSlot ==
  ASSUME NEW x, Good(x), Outstanding(x)
  PROVE  x.bound
  BY DEF Good, ConnOK

(* So does on_read_complete up to the protocol.                            *)
LEMMA ReadCompletesKeepsInv ==
  ASSUME IInv, NEW s \in Slots, ReadCompletes(s)
  PROVE  IInv'
<1> DEFINE x == [conn[s] EXCEPT !.read = "none", !.read_active = FALSE]
<1>0. /\ conn[s] \in Conns /\ Good(conn[s]) /\ Awake("none", conn[s])
      /\ self = NoSlot /\ self # s /\ loop = "running" /\ callback = "none"
      /\ conn[s].read \in {"active", "cancelled"}
      /\ UNCHANGED <<environment, server>>
  BY SlotFacts, BetweenCallbacks DEF ReadCompletes, LoopFree, Delivered, InCallback,
     SlotsAssumption
<1>1. conn[s].bound
  BY <1>0, HasSlot DEF Outstanding
<1>2. Good(x)
  <2>1. x \in Conns
    BY <1>0 DEF Conns, Targets
  <2>2. ConnOK(backend, x)
    BY <1>0, <1>1 DEF Good, Conns, ConnOK, FlagsMatch, Outstanding
  <2> QED
    BY <2>1, <2>2 DEF Good
<1>3. /\ x.bound /\ x.closing = conn[s].closing /\ ~x.read_active
      /\ x.close_when_drained = conn[s].close_when_drained
      /\ x.queued = conn[s].queued /\ x.is_writing = conn[s].is_writing
  BY <1>0, <1>1 DEF Conns
<1>4. \/ /\ x.closing /\ Becomes(s, release_closed_connection(x)) /\ UNCHANGED <<callback, self>>
      \/ /\ \E ok \in Submits : Becomes(s, release_closed_connection(close_connection(x, ok)))
         /\ UNCHANGED <<callback, self>>
      \/ ~x.closing /\ Becomes(s, x) /\ callback' = "read" /\ self' = s
  BY DEF ReadCompletes
<1> HIDE DEF x
<1>5. CASE x.closing /\ Becomes(s, release_closed_connection(x)) /\ UNCHANGED <<callback, self>>
  BY <1>0, <1>1, <1>2, <1>5, ReleaseStep
<1>6. CASE /\ \E ok \in Submits : Becomes(s, release_closed_connection(close_connection(x, ok)))
           /\ UNCHANGED <<callback, self>>
  BY <1>0, <1>1, <1>2, <1>3, <1>6, ErrorStep
<1>7. CASE ~x.closing /\ Becomes(s, x) /\ callback' = "read" /\ self' = s
  <2>1. Awake(IF self' = s THEN callback' ELSE "none", x)
    BY <1>0, <1>1, <1>3, <1>7 DEF Awake
  <2> QED
    BY <1>0, <1>1, <1>2, <1>3, <1>7, <2>1, NotClosed, StepKeepsInv
<1> QED
  BY <1>4, <1>5, <1>6, <1>7

(* So does on_write_complete up to the producers.                          *)
LEMMA WriteCompletesKeepsInv ==
  ASSUME IInv, NEW s \in Slots, WriteCompletes(s)
  PROVE  IInv'
<1> DEFINE x == [conn[s] EXCEPT !.write = "none", !.is_writing = FALSE]
<1>0. /\ conn[s] \in Conns /\ Good(conn[s]) /\ Awake("none", conn[s])
      /\ self = NoSlot /\ self # s /\ loop = "running" /\ callback = "none"
      /\ conn[s].write \in {"active", "cancelled"}
      /\ UNCHANGED <<environment, server>>
  BY SlotFacts, BetweenCallbacks DEF WriteCompletes, LoopFree, Delivered, InCallback,
     SlotsAssumption
<1>1. conn[s].bound
  BY <1>0, HasSlot DEF Outstanding
<1>2. x \in Conns
  BY <1>0 DEF Conns, Targets
<1>3. ConnOK(backend, x)
  BY <1>0, <1>1 DEF Good, Conns, ConnOK, FlagsMatch, Outstanding
<1>4. /\ x.bound /\ x.closing = conn[s].closing /\ x.read_active = conn[s].read_active
      /\ x.close_when_drained = conn[s].close_when_drained
      /\ x.dispatch_suspended = conn[s].dispatch_suspended
  BY <1>0, <1>1 DEF Conns
<1>5. \/ /\ x.closing /\ Becomes(s, release_closed_connection(x)) /\ UNCHANGED <<callback, self>>
      \/ /\ \E ok \in Submits : Becomes(s, release_closed_connection(close_connection(x, ok)))
         /\ UNCHANGED <<callback, self>>
      \/ /\ ~x.closing /\ \E left \in BOOLEAN : Becomes(s, [x EXCEPT !.queued = left])
         /\ callback' = "write" /\ self' = s
  BY DEF WriteCompletes
<1> HIDE DEF x
<1>6. CASE x.closing /\ Becomes(s, release_closed_connection(x)) /\ UNCHANGED <<callback, self>>
  BY <1>0, <1>1, <1>2, <1>3, <1>6, ReleaseStep DEF Good
<1>7. CASE /\ \E ok \in Submits : Becomes(s, release_closed_connection(close_connection(x, ok)))
           /\ UNCHANGED <<callback, self>>
  BY <1>0, <1>1, <1>2, <1>3, <1>4, <1>7, ErrorStep DEF Good
<1>8. ASSUME ~x.closing, NEW left \in BOOLEAN, Becomes(s, [x EXCEPT !.queued = left]),
             callback' = "write", self' = s
      PROVE  IInv'
  <2> DEFINE y == [x EXCEPT !.queued = left]
  <2>1. y \in Conns
    BY <1>2 DEF Conns
  <2>2. ConnOK(backend, y)
    BY <1>2, <1>3 DEF Conns, ConnOK, FlagsMatch, Outstanding
  <2>3. /\ y.bound /\ ~y.closing /\ y.read_active = conn[s].read_active
        /\ y.close_when_drained = conn[s].close_when_drained
        /\ y.dispatch_suspended = conn[s].dispatch_suspended
    BY <1>2, <1>4, <1>8 DEF Conns
  <2>4. Becomes(s, y)
    BY <1>8
  <2> HIDE DEF y
  <2>5. Awake(IF self' = s THEN callback' ELSE "none", y)
    BY <1>0, <1>1, <1>4, <1>8, <2>3 DEF Awake
  <2> QED
    BY <1>0, <1>1, <1>4, <1>8, <2>1, <2>2, <2>3, <2>4, <2>5, NotClosed, StepKeepsInv DEF Good
<1> QED
  BY <1>5, <1>6, <1>7, <1>8

(* The connection whose callback is running.                               *)
LEMMA SelfFacts ==
  ASSUME IInv, callback \in {"read", "write"}
  PROVE  /\ self \in Slots /\ conn[self].bound
         /\ conn[self] \in Conns /\ Good(conn[self]) /\ ~MayRelease(conn[self])
         /\ Awake(callback, conn[self])
         /\ callback = "read" => ~conn[self].read_active
<1>1. self \in Slots /\ conn[self].bound
  BY DEF IInv, ConnInv, CallbackOK
<1> QED
  BY <1>1, SlotFacts DEF InCallback

(* So does end_write_batch.                                                *)
LEMMA FlushBatchKeepsInv ==
  ASSUME IInv, FlushBatch
  PROVE  IInv'
<1> DEFINE x == [conn[self] EXCEPT !.queued = FALSE]
<1>0. /\ self \in Slots /\ conn[self].bound /\ callback = "read"
      /\ conn[self] \in Conns /\ Good(conn[self]) /\ ~conn[self].read_active
      /\ conn[self].queued /\ ~conn[self].is_writing /\ ~conn[self].closing
      /\ UNCHANGED <<environment, server, callback, self>> /\ UNCHANGED Unfinished
  BY SelfFacts DEF FlushBatch, Batched, Unfinished
<1>1. Good(x)
  <2>1. x \in Conns
    BY <1>0 DEF Conns
  <2>2. ConnOK(backend, x)
    BY <1>0 DEF Good, Conns, ConnOK, FlagsMatch, Outstanding
  <2> QED
    BY <2>1, <2>2 DEF Good
<1>2. x.bound /\ ~x.closing /\ ~x.read_active
  BY <1>0 DEF Conns
<1>3. \/ Becomes(self, arm_write(conn[self]))
      \/ ~x.close_when_drained /\ Becomes(self, x)
      \/ \E ok \in Submits : Becomes(self, close_connection(x, ok))
  BY DEF FlushBatch
<1> HIDE DEF x
<1>4. CASE Becomes(self, arm_write(conn[self]))
  <2> DEFINE y == arm_write(conn[self])
  <2>1. /\ Good(y) /\ y.bound /\ ~y.closing /\ ~y.read_active /\ y.is_writing
    BY <1>0, ArmWrite
  <2> HIDE DEF y
  <2>2. Awake(IF self' = self THEN callback' ELSE "none", y)
    BY <1>0, <2>1 DEF Awake
  <2> QED
    BY <1>0, <1>4, <2>1, <2>2, NotClosed, StepKeepsInv DEF y
<1>5. CASE ~x.close_when_drained /\ Becomes(self, x)
  <2>1. Awake(IF self' = self THEN callback' ELSE "none", x)
    BY <1>0, <1>5 DEF Awake
  <2> QED
    BY <1>0, <1>1, <1>2, <1>5, <2>1, NotClosed, StepKeepsInv
<1>6. CASE \E ok \in Submits : Becomes(self, close_connection(x, ok))
  BY <1>0, <1>1, <1>2, <1>6, CloseStep
<1> QED
  BY <1>3, <1>4, <1>5, <1>6

(* So does the tail of on_read_complete.                                   *)
LEMMA ReadReturnsKeepsInv ==
  ASSUME IInv, ReadReturns
  PROVE  IInv'
<1> DEFINE x == conn[self]
<1>0. /\ self \in Slots /\ x.bound /\ callback = "read" /\ self # NoSlot
      /\ x \in Conns /\ Good(x) /\ ~MayRelease(x) /\ ~x.read_active /\ Awake("read", x)
      /\ ~(x.queued /\ ~x.is_writing /\ ~x.closing)
      /\ UNCHANGED <<environment, server>> /\ callback' = "none" /\ self' = NoSlot
  BY SelfFacts DEF ReadReturns, Batched, SlotsAssumption
<1>1. CASE x.closing \/ x.close_when_drained
  <2>1. Becomes(self, release_closed_connection(x))
    BY <1>1 DEF ReadReturns
  <2>2. Becomes(self, x)
    BY <1>0, <2>1 DEF release_closed_connection
  <2> HIDE DEF x
  <2>3. Awake(IF self' = self THEN callback' ELSE "none", x)
    BY <1>0, <1>1 DEF Awake
  <2> QED
    BY <1>0, <2>2, <2>3, StepKeepsInv DEF x
<1>2. CASE ~x.closing /\ ~x.close_when_drained /\ x.dispatch_suspended
  <2>1. Becomes(self, x)
    BY <1>2 DEF ReadReturns
  <2>2. Awake(IF self' = self THEN callback' ELSE "none", x)
    BY <1>0, <1>2 DEF Awake
  <2> QED
    BY <1>0, <2>1, <2>2, StepKeepsInv
<1>3. CASE ~x.closing /\ ~x.close_when_drained /\ ~x.dispatch_suspended
  <2> DEFINE y == arm_read(x)
  <2>1. Becomes(self, y)
    BY <1>0, <1>3 DEF ReadReturns, arm_read
  <2> HIDE DEF x
  <2>2. /\ Good(y) /\ y.bound /\ ~y.closing /\ ~y.close_when_drained
        /\ y.queued = x.queued /\ y.is_writing = x.is_writing
        /\ y.read_active \/ y.dispatch_suspended
    BY <1>0, <1>3, ArmRead
  <2> HIDE DEF y
  <2>3. Awake(IF self' = self THEN callback' ELSE "none", y)
    BY <1>0, <1>3, <2>2 DEF Awake
  <2> QED
    BY <1>0, <1>3, <2>1, <2>2, <2>3, NotClosed, StepKeepsInv DEF x
<1> QED
  BY <1>1, <1>2, <1>3

(* So does the tail of on_write_complete.                                  *)
LEMMA WriteReturnsKeepsInv ==
  ASSUME IInv, WriteReturns
  PROVE  IInv'
<1> DEFINE x == conn[self]
<1>0. /\ self \in Slots /\ x.bound /\ callback = "write" /\ self # NoSlot
      /\ x \in Conns /\ Good(x) /\ ~MayRelease(x) /\ Awake("write", x)
      /\ UNCHANGED <<environment, server>> /\ callback' = "none" /\ self' = NoSlot
  BY SelfFacts DEF WriteReturns, SlotsAssumption
<1>1. \/ \E ok \in Submits : Becomes(self, close_connection(x, ok))
      \/ (x.queued \/ ~x.close_when_drained) /\ Becomes(self, arm_write(x))
  BY DEF WriteReturns
<1>2. ASSUME NEW ok \in Submits, Becomes(self, close_connection(x, ok))
      PROVE  IInv'
  <2> DEFINE y == close_connection(x, ok)
  <2>1. /\ Good(y) /\ y.bound /\ y.closing /\ y.close_complete = x.close_complete
        /\ y.read_active = x.read_active
    BY <1>0, CloseConnection, SubmitOutcomes
  <2>2. ~MayRelease(y)
    <3>1. CASE x.closing
      BY <1>0, <3>1 DEF close_connection
    <3>2. CASE ~x.closing
      BY <1>0, <2>1, <3>2, NotClosed DEF MayRelease
    <3> QED
      BY <3>1, <3>2
  <2>3. Becomes(self, y)
    BY <1>2
  <2> HIDE DEF y
  <2>4. Awake(IF self' = self THEN callback' ELSE "none", y)
    BY <2>1 DEF Awake
  <2> QED
    BY <1>0, <2>1, <2>2, <2>3, <2>4, StepKeepsInv
<1>3. CASE (x.queued \/ ~x.close_when_drained) /\ Becomes(self, arm_write(x))
  <2> DEFINE y == arm_write(x)
  <2>1. /\ Good(y) /\ y.bound /\ y.closing = x.closing
        /\ y.close_complete = x.close_complete
        /\ y.queued = x.queued /\ y.read_active = x.read_active
        /\ y.close_when_drained = x.close_when_drained
        /\ y.dispatch_suspended = x.dispatch_suspended
        /\ x.queued /\ ~x.closing => y.is_writing
    BY <1>0, ArmWrite
  <2>2. ~MayRelease(y)
    <3>1. CASE x.closing
      BY <1>0, <3>1 DEF arm_write
    <3>2. CASE ~x.closing
      BY <1>0, <2>1, <3>2, NotClosed
    <3> QED
      BY <3>1, <3>2
  <2>3. Becomes(self, y)
    BY <1>3
  <2> HIDE DEF y
  <2>4. Awake(IF self' = self THEN callback' ELSE "none", y)
    BY <1>0, <1>3, <2>1 DEF Awake
  <2> QED
    BY <1>0, <2>1, <2>2, <2>3, <2>4, StepKeepsInv
<1> QED
  BY <1>1, <1>2, <1>3

(* So does the close callback, with the flags epoll abandons.              *)
LEMMA CloseCompletesKeepsInv ==
  ASSUME IInv, NEW s \in Slots, CloseCompletes(s)
  PROVE  IInv'
<1> DEFINE x == [conn[s] EXCEPT !.close = "none", !.close_complete = TRUE]
           y == [x EXCEPT !.read_active = FALSE, !.is_writing = FALSE]
<1>0. /\ conn[s] \in Conns /\ Good(conn[s]) /\ conn[s].close = "pending"
      /\ self # s /\ UNCHANGED <<environment, server, callback, self>>
  BY SlotFacts, BetweenCallbacks DEF CloseCompletes, Unfinished, SlotsAssumption
<1>1. conn[s].bound
  BY <1>0, HasSlot DEF Outstanding
<1>2. conn[s].closing /\ ~conn[s].close_complete
  BY <1>0, <1>1 DEF Good, ConnOK
<1>3. x \in Conns
  BY <1>0 DEF Conns, Closes
<1>4. CASE backend = "epoll"
  <2>1. Becomes(s, release_closed_connection(y))
    BY <1>4 DEF CloseCompletes
  <2>2. y \in Conns
    BY <1>3 DEF Conns
  <2>3. y.bound /\ y.closing
    BY <1>0, <1>1, <1>2 DEF Conns
  <2>4. ConnOK(backend, y)
    <3>1. /\ y.bound /\ y.closing /\ y.close_complete /\ y.close = "none"
          /\ ~y.read_active /\ ~y.is_writing
          /\ y.read = conn[s].read /\ y.write = conn[s].write
          /\ y.read_cancel = conn[s].read_cancel /\ y.write_cancel = conn[s].write_cancel
          /\ y.read_cancel_active = conn[s].read_cancel_active
          /\ y.write_cancel_active = conn[s].write_cancel_active
      BY <1>0, <1>1, <1>2 DEF Conns
    <3> HIDE DEF x, y
    <3> QED
      BY <1>0, <1>1, <1>2, <1>4, <3>1 DEF Good, ConnOK, FlagsMatch
  <2> HIDE DEF y
  <2> QED
    BY <1>0, <1>1, <2>1, <2>2, <2>3, <2>4, ReleaseStep DEF Good
<1>5. CASE backend # "epoll"
  <2>1. Becomes(s, release_closed_connection(x))
    BY <1>5 DEF CloseCompletes
  <2>2. x.bound /\ x.closing
    BY <1>0, <1>1, <1>2 DEF Conns
  <2>3. ConnOK(backend, x)
    BY <1>0, <1>1, <1>2, <1>5 DEF Good, Conns, ConnOK, FlagsMatch, Outstanding
  <2> HIDE DEF x
  <2> QED
    BY <1>0, <1>1, <1>3, <2>1, <2>2, <2>3, ReleaseStep DEF Good
<1> QED
  BY <1>4, <1>5

(* So does the callback of the read cancel.                                *)
LEMMA ReadCancelCompletesKeepsInv ==
  ASSUME IInv, NEW s \in Slots, ReadCancelCompletes(s)
  PROVE  IInv'
<1> DEFINE x == [conn[s] EXCEPT !.read_cancel = "none", !.read_cancel_active = FALSE]
<1>0. /\ conn[s] \in Conns /\ Good(conn[s]) /\ conn[s].read_cancel = "ran"
      /\ self # s /\ UNCHANGED <<environment, server, callback, self>>
      /\ Becomes(s, release_closed_connection(x))
  BY SlotFacts, BetweenCallbacks DEF ReadCancelCompletes, Unfinished, SlotsAssumption
<1>1. conn[s].bound /\ conn[s].closing
  BY <1>0, HasSlot DEF Outstanding, Good, ConnOK, FlagsMatch
<1>2. x \in Conns
  BY <1>0 DEF Conns, Cancels
<1>3. ConnOK(backend, x)
  BY <1>0, <1>1 DEF Good, Conns, ConnOK, FlagsMatch, Outstanding
<1>4. x.closing
  BY <1>0, <1>1 DEF Conns
<1> HIDE DEF x
<1> QED
  BY <1>0, <1>1, <1>2, <1>3, <1>4, ReleaseStep DEF Good

(* So does the callback of the write cancel.                               *)
LEMMA WriteCancelCompletesKeepsInv ==
  ASSUME IInv, NEW s \in Slots, WriteCancelCompletes(s)
  PROVE  IInv'
<1> DEFINE x == [conn[s] EXCEPT !.write_cancel = "none", !.write_cancel_active = FALSE]
<1>0. /\ conn[s] \in Conns /\ Good(conn[s]) /\ conn[s].write_cancel = "ran"
      /\ self # s /\ UNCHANGED <<environment, server, callback, self>>
      /\ Becomes(s, release_closed_connection(x))
  BY SlotFacts, BetweenCallbacks DEF WriteCancelCompletes, Unfinished, SlotsAssumption
<1>1. conn[s].bound /\ conn[s].closing
  BY <1>0, HasSlot DEF Outstanding, Good, ConnOK, FlagsMatch
<1>2. x \in Conns
  BY <1>0 DEF Conns, Cancels
<1>3. ConnOK(backend, x)
  BY <1>0, <1>1 DEF Good, Conns, ConnOK, FlagsMatch, Outstanding
<1>4. x.closing
  BY <1>0, <1>1 DEF Conns
<1> HIDE DEF x
<1> QED
  BY <1>0, <1>1, <1>2, <1>3, <1>4, ReleaseStep DEF Good

(* So does the loop when it executes the read cancel.                      *)
LEMMA ReadCancelRunsKeepsInv ==
  ASSUME IInv, NEW s \in Slots, ReadCancelRuns(s)
  PROVE  IInv'
<1> DEFINE x == [conn[s] EXCEPT !.read_cancel = "ran", !.read = Cancelled(@)]
<1>0. /\ conn[s] \in Conns /\ Good(conn[s]) /\ conn[s].read_cancel = "pending"
      /\ self # s /\ UNCHANGED <<environment, server, callback, self>> /\ Becomes(s, x)
      /\ backend \in Backends
  BY SlotFacts, BetweenCallbacks
     DEF ReadCancelRuns, Unfinished, SlotsAssumption, IInv, TypeOK
<1>1. conn[s].bound /\ conn[s].closing /\ conn[s].read_cancel_active
  BY <1>0, HasSlot DEF Outstanding, Good, ConnOK, FlagsMatch
<1>2. conn[s].read \in Targets /\ Cancelled(conn[s].read) \in Targets
  BY <1>0 DEF Conns, Cancelled, Targets
<1>3. x \in Conns
  BY <1>0, <1>2 DEF Conns, Cancels
<1>4. /\ x.bound /\ x.closing /\ x.read_cancel_active /\ x.close = conn[s].close
      /\ x.close_complete = conn[s].close_complete
      /\ x.read_active = conn[s].read_active /\ x.is_writing = conn[s].is_writing
      /\ x.write_cancel_active = conn[s].write_cancel_active
      /\ x.write = conn[s].write /\ x.write_cancel = conn[s].write_cancel
      /\ x.read = Cancelled(conn[s].read) /\ x.read_cancel = "ran"
      /\ x.dispatch_suspended = conn[s].dispatch_suspended
  BY <1>0, <1>1 DEF Conns
<1> HIDE DEF x
<1>5. ConnOK(backend, x)
  BY <1>0, <1>1, <1>2, <1>4 DEF Good, ConnOK, FlagsMatch, Cancelled, Targets
<1>6. ~MayRelease(x) /\ Awake(IF self' = s THEN callback' ELSE "none", x)
  BY <1>4 DEF MayRelease, Awake
<1> QED
  BY <1>0, <1>1, <1>3, <1>4, <1>5, <1>6, StepKeepsInv DEF Good

(* So does the loop when it executes the write cancel.                     *)
LEMMA WriteCancelRunsKeepsInv ==
  ASSUME IInv, NEW s \in Slots, WriteCancelRuns(s)
  PROVE  IInv'
<1> DEFINE x == [conn[s] EXCEPT !.write_cancel = "ran", !.write = Cancelled(@)]
<1>0. /\ conn[s] \in Conns /\ Good(conn[s]) /\ conn[s].write_cancel = "pending"
      /\ self # s /\ UNCHANGED <<environment, server, callback, self>> /\ Becomes(s, x)
      /\ backend \in Backends
  BY SlotFacts, BetweenCallbacks
     DEF WriteCancelRuns, Unfinished, SlotsAssumption, IInv, TypeOK
<1>1. conn[s].bound /\ conn[s].closing /\ conn[s].write_cancel_active
  BY <1>0, HasSlot DEF Outstanding, Good, ConnOK, FlagsMatch
<1>2. conn[s].write \in Targets /\ Cancelled(conn[s].write) \in Targets
  BY <1>0 DEF Conns, Cancelled, Targets
<1>3. x \in Conns
  BY <1>0, <1>2 DEF Conns, Cancels
<1>4. /\ x.bound /\ x.closing /\ x.write_cancel_active /\ x.close = conn[s].close
      /\ x.close_complete = conn[s].close_complete
      /\ x.read_active = conn[s].read_active /\ x.is_writing = conn[s].is_writing
      /\ x.read_cancel_active = conn[s].read_cancel_active
      /\ x.read = conn[s].read /\ x.read_cancel = conn[s].read_cancel
      /\ x.write = Cancelled(conn[s].write) /\ x.write_cancel = "ran"
      /\ x.dispatch_suspended = conn[s].dispatch_suspended
  BY <1>0, <1>1 DEF Conns
<1> HIDE DEF x
<1>5. ConnOK(backend, x)
  BY <1>0, <1>1, <1>2, <1>4 DEF Good, ConnOK, FlagsMatch, Cancelled, Targets
<1>6. ~MayRelease(x) /\ Awake(IF self' = s THEN callback' ELSE "none", x)
  BY <1>4 DEF MayRelease, Awake
<1> QED
  BY <1>0, <1>1, <1>3, <1>4, <1>5, <1>6, StepKeepsInv DEF Good
-----------------------------------------------------------------------------
(* Steps of the listener, and steps that touch every connection.           *)

(* A step that leaves every connection good keeps the invariant.           *)
LEMMA ManyKeepInv ==
  ASSUME IInv, conn' \in [Slots -> Conns], active' = {s \in Slots : conn'[s].bound},
         \A s \in Slots : /\ Good(conn'[s]) /\ ~MayRelease(conn'[s])
                          /\ Awake(InCallback(s), conn'[s])
                          /\ self = s => /\ conn'[s].bound
                                         /\ callback = "read" => ~conn'[s].read_active,
         server' \in Servers, ServerOK(server'),
         shutting_down' \in BOOLEAN, ShutdownOK',
         UNCHANGED <<backend, loop, callback, self>>
  PROVE  IInv'
<1>1. TypeOK'
  BY DEF IInv, TypeOK
<1>2. CallbackOK'
  BY DEF IInv, ConnInv, CallbackOK
<1>3. \A s \in Slots : /\ ConnOK(backend', conn'[s])
                       /\ Awake(IF self' = s THEN callback' ELSE "none", conn'[s])
  BY DEF Good, InCallback
<1> QED
  BY <1>1, <1>2, <1>3 DEF IInv, ConnInv

(* The facts the invariant gives about the listener.                       *)
LEMMA ServerFacts ==
  ASSUME IInv
  PROVE  server \in Servers /\ ServerOK(server)
  BY DEF IInv, TypeOK, ConnInv

(* A step of the listener alone keeps the invariant.                       *)
LEMMA ServerStep ==
  ASSUME IInv, server' \in Servers, ServerOK(server'), server.closing => server'.closing,
         UNCHANGED <<environment, conn, active, callback, self>>
  PROVE  IInv'
<1>1. /\ conn' \in [Slots -> Conns] /\ active' = {s \in Slots : conn'[s].bound}
      /\ shutting_down' \in BOOLEAN /\ conn' = conn
      /\ UNCHANGED <<backend, loop, callback, self>>
  BY DEF IInv, TypeOK, environment
<1>2. ShutdownOK'
  BY DEF IInv, ConnInv, ShutdownOK, environment
<1> QED
  BY <1>1, <1>2, SlotFacts, ManyKeepInv

(* What every value of an armed accept looks like.                         *)
LEMMA AcceptArmed == Armed("none") \in Targets \ {"none", "cancelled", "twice"}
  BY DEF Armed, Targets

(* So does accept_failed.                                                  *)
LEMMA AcceptFailsKeepsInv ==
  ASSUME IInv, AcceptFails
  PROVE  IInv'
<1>0. /\ server \in Servers /\ ServerOK(server) /\ server.accept # "none"
      /\ UNCHANGED <<environment, conn, active, callback, self>>
  BY ServerFacts DEF AcceptFails, Delivered
<1>1. CASE /\ server.closing \/ server.accept_retry_active
           /\ server' = [server EXCEPT !.accept = "none"]
  <2>0. server.closing
    BY <1>0, <1>1 DEF ServerOK
  <2>1. server' \in Servers /\ server'.closing
    BY <1>0, <1>1, <2>0 DEF Servers, Targets
  <2>2. ServerOK(server')
    BY <1>0, <1>1, <2>0 DEF Servers, ServerOK
  <2> QED
    BY <1>0, <2>1, <2>2, ServerStep
<1>2. CASE /\ ~server.closing /\ ~server.accept_retry_active
           /\ server' = [server EXCEPT !.accept = Armed("none")]
  <2>1. server' \in Servers
    BY <1>0, <1>2, AcceptArmed DEF Servers
  <2>2. ServerOK(server')
    BY <1>0, <1>2, AcceptArmed DEF Servers, ServerOK
  <2> QED
    BY <1>0, <1>2, <2>1, <2>2, ServerStep
<1>3. CASE /\ ~server.closing /\ ~server.accept_retry_active
           /\ server' = [server EXCEPT !.accept = "none", !.accept_retry_active = TRUE,
                                       !.retry = Added(@)]
  <2>1. server.retry = "none"
    BY <1>0, <1>3 DEF ServerOK
  <2>2. server' = [server EXCEPT !.accept = "none", !.accept_retry_active = TRUE,
                                 !.retry = "pending"]
    BY <1>3, <2>1, CompletionStates
  <2>3. server' \in Servers
    BY <1>0, <2>2 DEF Servers, Targets, Closes
  <2>4. ServerOK(server')
    BY <1>0, <1>3, <2>2 DEF Servers, ServerOK
  <2> QED
    BY <1>0, <1>3, <2>3, <2>4, ServerStep
<1> QED
  BY <1>1, <1>2, <1>3 DEF AcceptFails

(* So does on_accept_retry.                                                *)
LEMMA AcceptRetriesKeepsInv ==
  ASSUME IInv, AcceptRetries
  PROVE  IInv'
<1> DEFINE x == [server EXCEPT !.retry = "none", !.accept_retry_active = FALSE]
<1>0. /\ server \in Servers /\ ServerOK(server) /\ server.retry = "pending"
      /\ UNCHANGED <<environment, conn, active, callback, self>>
  BY ServerFacts DEF AcceptRetries
<1>1. server.accept = "none" /\ x \in Servers /\ x.closing = server.closing /\ x.accept = "none"
  BY <1>0 DEF ServerOK, Servers, Closes
<1>2. CASE ~x.closing /\ server' = [x EXCEPT !.accept = Armed(@)]
  <2>1. server' = [server EXCEPT !.retry = "none", !.accept_retry_active = FALSE,
                                 !.accept = Armed("none")]
    BY <1>0, <1>1, <1>2 DEF Servers
  <2>2. server' \in Servers
    BY <1>0, <2>1, AcceptArmed DEF Servers, Closes
  <2>3. ServerOK(server')
    BY <1>0, <1>1, <1>2, <2>1, AcceptArmed DEF Servers, ServerOK
  <2> QED
    BY <1>0, <1>1, <1>2, <2>2, <2>3, ServerStep
<1>3. CASE x.closing /\ server' = x
  <2>1. ServerOK(x)
    BY <1>0, <1>1, <1>3 DEF Servers, ServerOK
  <2> QED
    BY <1>0, <1>1, <1>3, <2>1, ServerStep
<1> QED
  BY <1>2, <1>3 DEF AcceptRetries

(* So do the callbacks that finish the listener.                           *)
LEMMA ServerTeardownKeepsInv ==
  ASSUME IInv, ServerTeardown
  PROVE  IInv'
<1>0. server \in Servers /\ ServerOK(server)
  BY ServerFacts
<1>1. CASE AcceptCancelRuns
  <2>1. /\ server.accept_cancel = "pending" /\ server.closing
        /\ server' = [server EXCEPT !.accept_cancel = "ran", !.accept = Cancelled(@)]
        /\ UNCHANGED <<environment, conn, active, callback, self>>
    BY <1>0, <1>1 DEF AcceptCancelRuns, ServerOK
  <2>2. /\ Cancelled(server.accept) \in Targets /\ Cancelled(server.accept) # "twice"
        /\ server.accept = "none" => Cancelled(server.accept) = "none"
    BY <1>0 DEF Servers, Cancelled, Targets
  <2>3. server' \in Servers /\ server'.closing
    BY <1>0, <2>1, <2>2 DEF Servers, Cancels
  <2>4. ServerOK(server')
    BY <1>0, <2>1, <2>2 DEF Servers, ServerOK
  <2> QED
    BY <2>1, <2>3, <2>4, ServerStep
<1>2. CASE AcceptCancelCompletes
  <2>1. /\ server.accept_cancel = "ran" /\ server' = [server EXCEPT !.accept_cancel = "none"]
        /\ UNCHANGED <<environment, conn, active, callback, self>>
    BY <1>2 DEF AcceptCancelCompletes
  <2>2. server' \in Servers /\ server'.closing = server.closing
    BY <1>0, <2>1 DEF Servers, Cancels
  <2>3. ServerOK(server')
    BY <1>0, <2>1 DEF Servers, ServerOK
  <2> QED
    BY <2>1, <2>2, <2>3, ServerStep
<1>3. CASE RetryCancelCompletes
  <2>1. /\ server.retry_cancel = "pending"
        /\ server' = [server EXCEPT !.retry_cancel = "none",
                                    !.accept_retry_cancel_active = FALSE]
        /\ UNCHANGED <<environment, conn, active, callback, self>>
    BY <1>3 DEF RetryCancelCompletes
  <2>2. server' \in Servers /\ server'.closing = server.closing
    BY <1>0, <2>1 DEF Servers, Closes
  <2>3. ServerOK(server')
    BY <1>0, <2>1 DEF Servers, ServerOK
  <2> QED
    BY <2>1, <2>2, <2>3, ServerStep
<1>4. CASE ServerCloseCompletes
  <2>1. /\ server.close = "pending"
        /\ server' = [server EXCEPT !.close = "none", !.close_complete = TRUE]
        /\ UNCHANGED <<environment, conn, active, callback, self>>
    BY <1>4 DEF ServerCloseCompletes
  <2>2. server' \in Servers /\ server'.closing = server.closing
    BY <1>0, <2>1 DEF Servers, Closes
  <2>3. ServerOK(server')
    BY <1>0, <2>1 DEF Servers, ServerOK
  <2> QED
    BY <2>1, <2>2, <2>3, ServerStep
<1> QED
  BY <1>1, <1>2, <1>3, <1>4, AcceptRetriesKeepsInv, AcceptFailsKeepsInv DEF ServerTeardown

(* A slot that was just bound, before its first read.                      *)
LEMMA BoundConn ==
  LET x == [FreshConn EXCEPT !.bound = TRUE]
  IN  /\ Good(x) /\ x.bound /\ ~x.closing /\ ~x.close_complete /\ ~x.queued
      /\ ~x.close_when_drained /\ ~x.read_active
  BY DEF FreshConn, Good, Conns, ConnOK, FlagsMatch, Targets, Cancels, Closes

(* So does on_accept_complete, with on_new_connection.                     *)
LEMMA AcceptCompletesKeepsInv ==
  ASSUME IInv, AcceptCompletes
  PROVE  IInv'
<1>0. /\ server \in Servers /\ ServerOK(server) /\ server.accept = "active"
      /\ UNCHANGED <<environment, callback, self>>
      /\ self = NoSlot /\ callback = "none"
      /\ conn \in [Slots -> Conns] /\ active = {r \in Slots : conn[r].bound}
      /\ shutting_down \in BOOLEAN
  BY ServerFacts, BetweenCallbacks DEF AcceptCompletes, LoopFree, IInv, TypeOK
<1>1. server' \in Servers /\ ServerOK(server') /\ server'.closing = server.closing
  <2>1. CASE server.closing
    <3>1. server' = [server EXCEPT !.accept = "none"]
      BY <2>1 DEF AcceptCompletes
    <3>2. server' \in Servers /\ server'.closing = server.closing
      BY <1>0, <3>1 DEF Servers, Targets
    <3>3. ServerOK(server')
      BY <1>0, <2>1, <3>1 DEF Servers, ServerOK
    <3> QED
      BY <3>2, <3>3
  <2>2. CASE ~server.closing
    <3>1. server' = [server EXCEPT !.accept = Armed("none")]
      BY <2>2 DEF AcceptCompletes
    <3>2. server' \in Servers /\ server'.closing = server.closing
      BY <1>0, <3>1, AcceptArmed DEF Servers
    <3>3. ServerOK(server')
      BY <1>0, <2>2, <3>1, AcceptArmed DEF Servers, ServerOK
    <3> QED
      BY <3>2, <3>3
  <2> QED
    BY <2>1, <2>2
<1>2. CASE UNCHANGED <<conn, active>>
  BY <1>0, <1>1, <1>2, ServerStep
<1>3. ASSUME NEW s \in Slots \ active, ~shutting_down, active' = active \cup {s}, Accepted(s)
      PROVE  IInv'
  <2> DEFINE x == [FreshConn EXCEPT !.bound = TRUE]
             y == conn'[s]
  <2>1. \/ conn' = [conn EXCEPT ![s] = arm_read(x)]
        \/ conn' = [conn EXCEPT ![s] = close_connection(x, TRUE)]
    BY <1>3 DEF Accepted
  <2>2. /\ Good(x) /\ x.bound /\ ~x.closing /\ ~x.close_complete /\ ~x.queued
        /\ ~x.close_when_drained /\ ~x.read_active
    BY BoundConn
  <2> HIDE DEF x
  <2>3. y = arm_read(x) \/ y = close_connection(x, TRUE)
    BY <1>0, <1>3, <2>1
  <2>4. Good(y) /\ y.bound /\ ~y.close_complete /\ Awake("none", y)
    <3>1. CASE y = arm_read(x)
      BY <2>2, <3>1, ArmRead DEF Awake
    <3>2. CASE y = close_connection(x, TRUE)
      BY <2>2, <3>2, CloseConnection DEF Awake
    <3> QED
      BY <2>3, <3>1, <3>2
  <2>5. conn' = [conn EXCEPT ![s] = y]
    BY <1>0, <2>1
  <2> HIDE DEF y
  <2>6. conn' \in [Slots -> Conns] /\ \A r \in Slots : conn'[r] = IF r = s THEN y ELSE conn[r]
    BY <1>0, <1>3, <2>4, <2>5 DEF Good
  <2>7. active' = {r \in Slots : conn'[r].bound}
    BY <1>0, <1>3, <2>4, <2>6
  <2>8. ASSUME NEW r \in Slots
        PROVE  /\ Good(conn'[r]) /\ ~MayRelease(conn'[r]) /\ Awake(InCallback(r), conn'[r])
               /\ self # r
    <3>1. self # r /\ InCallback(r) = "none"
      BY <1>0 DEF InCallback, SlotsAssumption
    <3>2. CASE r = s
      BY <2>4, <2>6, <3>1, <3>2 DEF MayRelease
    <3>3. CASE r # s
      BY <2>6, <3>1, <3>3, SlotFacts
    <3> QED
      BY <3>1, <3>2, <3>3
  <2>9. ShutdownOK' /\ shutting_down' \in BOOLEAN /\ UNCHANGED <<backend, loop, callback, self>>
    BY <1>0, <1>3 DEF ShutdownOK, environment
  <2> QED
    BY <1>1, <2>6, <2>7, <2>8, <2>9, ManyKeepInv
<1> QED
  BY <1>2, <1>3 DEF AcceptCompletes

(* Submitting the completions of a connection keeps it good.               *)
LEMMA SubmitGood ==
  ASSUME NEW x, Good(x)
  PROVE  LET y == [x EXCEPT !.read = Submitted(@), !.write = Submitted(@)]
         IN  /\ Good(y) /\ (MayRelease(y) <=> MayRelease(x))
             /\ y.bound = x.bound /\ y.closing = x.closing
             /\ \A c : Awake(c, x) => Awake(c, y)
<1> DEFINE y == [x EXCEPT !.read = Submitted(@), !.write = Submitted(@)]
<1>0. x \in Conns /\ x.read \in Targets /\ x.write \in Targets
  BY DEF Good, Conns
<1>1. /\ Submitted(x.read) \in Targets /\ Submitted(x.write) \in Targets
      /\ Submitted(x.read) = "none" <=> x.read = "none"
      /\ Submitted(x.write) = "none" <=> x.write = "none"
      /\ Submitted(x.read) = "cancelled" <=> x.read = "cancelled"
      /\ Submitted(x.write) = "cancelled" <=> x.write = "cancelled"
      /\ Submitted(x.read) = "twice" <=> x.read = "twice"
      /\ Submitted(x.write) = "twice" <=> x.write = "twice"
      /\ Submitted(x.read) # "queued" /\ Submitted(x.write) # "queued"
  BY <1>0 DEF Submitted, Targets
<1>2. y \in Conns
  BY <1>0, <1>1 DEF Conns
<1>3. /\ y.bound = x.bound /\ y.closing = x.closing /\ y.close_complete = x.close_complete
      /\ y.read_active = x.read_active /\ y.is_writing = x.is_writing
      /\ y.read_cancel_active = x.read_cancel_active
      /\ y.write_cancel_active = x.write_cancel_active
      /\ y.close_when_drained = x.close_when_drained /\ y.queued = x.queued
      /\ y.dispatch_suspended = x.dispatch_suspended
      /\ y.close = x.close /\ y.read_cancel = x.read_cancel /\ y.write_cancel = x.write_cancel
      /\ y.read = Submitted(x.read) /\ y.write = Submitted(x.write)
  BY <1>0 DEF Conns
<1> HIDE DEF y
<1>4. ConnOK(backend, y)
  BY <1>0, <1>1, <1>3 DEF Good, ConnOK, FlagsMatch, Outstanding
<1>5. (MayRelease(y) <=> MayRelease(x)) /\ \A c : Awake(c, x) => Awake(c, y)
  BY <1>3 DEF MayRelease, Awake
<1> QED
  BY <1>2, <1>3, <1>4, <1>5 DEF Good, y

(* So does a tick of the loop that submits what was queued.                *)
LEMMA LoopSubmitsKeepsInv ==
  ASSUME IInv, LoopSubmits
  PROVE  IInv'
<1> DEFINE y(s) == [conn[s] EXCEPT !.read = Submitted(@), !.write = Submitted(@)]
<1>0. /\ server \in Servers /\ ServerOK(server) /\ self = NoSlot
      /\ server' = [server EXCEPT !.accept = Submitted(@)]
      /\ conn' = [s \in Slots |-> y(s)]
      /\ active = {s \in Slots : conn[s].bound} /\ shutting_down \in BOOLEAN
      /\ UNCHANGED <<environment, active, callback, self>>
  BY ServerFacts, BetweenCallbacks DEF LoopSubmits, IInv, TypeOK
<1>1. \A s \in Slots : /\ Good(y(s)) /\ ~MayRelease(y(s)) /\ Awake(InCallback(s), y(s))
                       /\ y(s).bound = conn[s].bound /\ y(s).closing = conn[s].closing
  BY SlotFacts, SubmitGood
<1> HIDE DEF y
<1>2. /\ conn' \in [Slots -> Conns] /\ active' = {s \in Slots : conn'[s].bound}
      /\ \A s \in Slots : conn'[s] = y(s) /\ self # s
  BY <1>0, <1>1 DEF Good, SlotsAssumption
<1>3. /\ Submitted(server.accept) \in Targets
      /\ Submitted(server.accept) = "none" <=> server.accept = "none"
      /\ Submitted(server.accept) = "twice" <=> server.accept = "twice"
  BY <1>0 DEF Submitted, Targets, Servers
<1>4. server' \in Servers /\ server'.closing = server.closing
  BY <1>0, <1>3 DEF Servers
<1>5. ServerOK(server')
  BY <1>0, <1>3 DEF Servers, ServerOK
<1>6. ShutdownOK' /\ UNCHANGED <<backend, loop, callback, self>> /\ shutting_down' \in BOOLEAN
  BY <1>0, <1>1, <1>2, <1>4 DEF ShutdownOK, environment, IInv, ConnInv
<1> QED
  BY <1>1, <1>2, <1>4, <1>5, <1>6, ManyKeepInv

(* close_server leaves nothing of the listener that it did not cancel.     *)
LEMMA CloseServer ==
  ASSUME IInv, NEW ok \in BOOLEAN
  PROVE  LET v == close_server(ok) IN v \in Servers /\ ServerOK(v) /\ v.closing
<1>0. server \in Servers /\ ServerOK(server)
  BY ServerFacts
<1>1. CASE server.closing
  BY <1>0, <1>1 DEF close_server
<1>2. CASE ~server.closing
  <2> DEFINE a == IF ok THEN Submitted(server.accept) ELSE server.accept
             ac == IF server.accept # "none" THEN "pending" ELSE "none"
             rc == IF server.accept_retry_active THEN "pending" ELSE "none"
             v == [server EXCEPT !.closing = TRUE,
                                 !.accept_retry_cancel_active = server.accept_retry_active,
                                 !.retry_cancel = rc, !.accept_cancel = ac, !.accept = a,
                                 !.close = "pending"]
  <2>1. /\ server.accept_cancel = "none" /\ server.retry_cancel = "none"
        /\ server.close = "none" /\ ~server.accept_retry_cancel_active
    BY <1>0, <1>2 DEF ServerOK
  <2>2. close_server(ok) = v
    <3>1. /\ Added(server.close) = "pending"
          /\ (IF server.accept # "none" THEN Added(server.accept_cancel)
              ELSE server.accept_cancel) = ac
          /\ (IF server.accept_retry_active /\ ~server.accept_retry_cancel_active
              THEN Added(server.retry_cancel) ELSE server.retry_cancel) = rc
      BY <2>1 DEF Added
    <3>2. (server.accept_retry_active \/ server.accept_retry_cancel_active)
             = server.accept_retry_active
      <4>1. server.accept_retry_active \in BOOLEAN
        BY <1>0 DEF Servers
      <4> QED
        BY <2>1, <4>1
    <3> QED
      BY <1>2, <3>1, <3>2 DEF close_server
  <2>3. /\ a \in Targets
        /\ a = "none" <=> server.accept = "none"
        /\ a = "twice" <=> server.accept = "twice"
    BY <1>0 DEF Submitted, Targets, Servers
  <2>4. /\ ac \in Cancels /\ rc \in Closes /\ ac # "twice" /\ rc # "twice"
        /\ "pending" \in Closes
        /\ rc # "none" <=> server.accept_retry_active
    BY DEF Cancels, Closes
  <2> HIDE DEF a, ac, rc
  <2>5. v \in Servers /\ v.closing
    BY <1>0, <2>3, <2>4 DEF Servers
  <2>6. ServerOK(v)
    BY <1>0, <1>2, <2>3, <2>4 DEF Servers, ServerOK
  <2> QED
    BY <2>2, <2>5, <2>6
<1> QED
  BY <1>1, <1>2

(* So does begin_shutdown.                                                 *)
LEMMA ShutdownKeepsInv ==
  ASSUME IInv, Shutdown
  PROVE  IInv'
<1>0. PICK ok \in [Slots -> Submits] :
        conn' = [s \in Slots |-> IF s \in active THEN close_connection(conn[s], ok[s])
                                 ELSE conn[s]]
  BY DEF Shutdown
<1> DEFINE y(s) == IF s \in active THEN close_connection(conn[s], ok[s]) ELSE conn[s]
<1>1. /\ \A s \in Slots : ok[s] \in BOOLEAN /\ (SubmitMayFail \/ ok[s])
      /\ active = {s \in Slots : conn[s].bound}
      /\ shutting_down' = TRUE /\ UNCHANGED <<backend, active, loop, callback, self>>
  BY SubmitOutcomes DEF Shutdown, IInv, TypeOK
<1>2. server' \in Servers /\ ServerOK(server') /\ server'.closing
  BY SubmitOutcomes, CloseServer DEF Shutdown
<1>3. ASSUME NEW s \in Slots
      PROVE  /\ Good(y(s)) /\ ~MayRelease(y(s)) /\ Awake(InCallback(s), y(s))
             /\ y(s).bound <=> s \in active
             /\ s \in active => y(s).closing
             /\ self = s => /\ y(s).bound
                            /\ callback = "read" => ~y(s).read_active
  <2>0. /\ Good(conn[s]) /\ ~MayRelease(conn[s]) /\ Awake(InCallback(s), conn[s])
        /\ s \in active <=> conn[s].bound
        /\ self = s => conn[s].bound
        /\ callback = "read" /\ self = s => ~conn[s].read_active
    BY SlotFacts
  <2>1. CASE s \notin active
    BY <2>0, <2>1
  <2>2. CASE s \in active
    <3> DEFINE x == conn[s]
               z == close_connection(x, ok[s])
    <3>1. /\ Good(z) /\ z.bound /\ z.closing /\ z.close_complete = x.close_complete
          /\ z.read_active = x.read_active
      BY <1>1, <2>0, <2>2, CloseConnection
    <3>2. ~MayRelease(z)
      <4>1. CASE x.closing
        BY <2>0, <4>1 DEF close_connection
      <4>2. CASE ~x.closing
        BY <2>0, <3>1, <4>2, NotClosed DEF MayRelease
      <4> QED
        BY <4>1, <4>2
    <3>3. y(s) = z
      BY <2>2
    <3> HIDE DEF z, y
    <3>4. Awake(InCallback(s), z)
      BY <3>1 DEF Awake
    <3> QED
      BY <2>0, <2>2, <3>1, <3>2, <3>3, <3>4
  <2> QED
    BY <2>1, <2>2
<1>4. conn' = [s \in Slots |-> y(s)]
  BY <1>0
<1> HIDE DEF y
<1>5. /\ conn' \in [Slots -> Conns] /\ active' = {s \in Slots : conn'[s].bound}
      /\ \A s \in Slots : conn'[s] = y(s)
  BY <1>1, <1>3, <1>4 DEF Good
<1>6. ShutdownOK' /\ shutting_down' \in BOOLEAN
  BY <1>1, <1>2, <1>3, <1>5 DEF ShutdownOK
<1> QED
  BY <1>1, <1>2, <1>3, <1>5, <1>6, ManyKeepInv

(* Steps that leave the connections and the listener alone.                *)
LEMMA QuietKeepsInv ==
  ASSUME IInv, OtherCallback \/ OtherReturns \/ RunReturns \/ UNCHANGED vars
  PROVE  IInv'
<1>1. /\ UNCHANGED <<backend, conn, active, server, shutting_down, self>>
      /\ loop' \in {"running", "drained", "incomplete"}
      /\ callback' \in {"none", "read", "write", "other"}
  BY DEF OtherCallback, OtherReturns, RunReturns, vars, environment, IInv, TypeOK
<1>2. /\ callback' = callback \/ /\ callback \in {"none", "other"}
                                 /\ callback' \in {"none", "other"}
      /\ loop' # "running" => callback' = "none"
  BY DEF OtherCallback, OtherReturns, RunReturns, vars, environment, LoopFree, IInv, ConnInv,
     CallbackOK
<1>3. TypeOK' /\ ServerOK(server)' /\ ShutdownOK'
  BY <1>1 DEF IInv, TypeOK, ConnInv, ShutdownOK
<1>4. CallbackOK'
  BY <1>1, <1>2 DEF IInv, ConnInv, CallbackOK
<1>5. ASSUME NEW s \in Slots
      PROVE  /\ ConnOK(backend', conn'[s]) /\ ~MayRelease(conn'[s])
             /\ Awake(IF self' = s THEN callback' ELSE "none", conn'[s])
  <2>1. (IF self' = s THEN callback' ELSE "none") = InCallback(s)
    BY <1>1, <1>2 DEF InCallback, IInv, ConnInv, CallbackOK, SlotsAssumption
  <2> QED
    BY <1>1, <2>1, SlotFacts DEF Good
<1> QED
  BY <1>3, <1>4, <1>5 DEF IInv, ConnInv

(* A freshly started application satisfies the invariant.                  *)
LEMMA InitInv == Init => IInv
<1> SUFFICES ASSUME Init PROVE IInv
  OBVIOUS
<1>1. /\ FreshConn \in Conns /\ ConnOK(backend, FreshConn) /\ ~MayRelease(FreshConn)
      /\ ~FreshConn.bound /\ \A c : Awake(c, FreshConn)
  BY DEF FreshConn, Conns, ConnOK, FlagsMatch, MayRelease, Outstanding, Awake, Targets,
     Cancels, Closes
<1>2. \A s \in Slots : conn[s] = FreshConn
  BY DEF Init
<1>3. server \in Servers /\ ServerOK(server)
  BY AcceptArmed DEF Init, Servers, ServerOK, Cancels, Closes
<1>4. TypeOK
  BY <1>1, <1>2, <1>3 DEF Init, TypeOK
<1> QED
  BY <1>1, <1>2, <1>3, <1>4 DEF Init, IInv, ConnInv, CallbackOK, ShutdownOK

(* Every step keeps the invariant.                                         *)
LEMMA NextInv == IInv /\ [Next]_vars => IInv'
<1> SUFFICES ASSUME IInv, [Next]_vars PROVE IInv'
  OBVIOUS
<1>1. ASSUME NEW s \in Slots, Teardown(s) PROVE IInv'
  BY <1>1, CloseCompletesKeepsInv, ReadCancelRunsKeepsInv, WriteCancelRunsKeepsInv,
     ReadCancelCompletesKeepsInv, WriteCancelCompletesKeepsInv, ReadCompletesKeepsInv,
     WriteCompletesKeepsInv DEF Teardown
<1>2. CASE \E s \in Slots : \/ Send(s) \/ Close(s) \/ CloseAfterFlush(s) \/ Suspend(s)
                            \/ Resume(s) \/ ReadCompletes(s) \/ WriteCompletes(s)
                            \/ Teardown(s)
  BY <1>1, <1>2, SendKeepsInv, CloseKeepsInv, CloseAfterFlushKeepsInv, SuspendKeepsInv,
     ResumeKeepsInv, ReadCompletesKeepsInv, WriteCompletesKeepsInv
<1>3. CASE FlushBatch \/ CallbackReturns
  BY <1>3, FlushBatchKeepsInv, ReadReturnsKeepsInv, WriteReturnsKeepsInv, QuietKeepsInv
     DEF CallbackReturns
<1>4. CASE OtherCallback \/ RunReturns \/ UNCHANGED vars
  BY <1>4, QuietKeepsInv
<1>5. CASE Shutdown \/ LoopSubmits \/ AcceptCompletes \/ AcceptFails \/ ServerTeardown
  BY <1>5, ShutdownKeepsInv, LoopSubmitsKeepsInv, AcceptCompletesKeepsInv,
     AcceptFailsKeepsInv, ServerTeardownKeepsInv
<1> QED
  BY <1>2, <1>3, <1>4, <1>5 DEF Next

(* The flags of every connection and of the listener agree with what the   *)
(* event loop holds, at every step, for any number of slots.               *)
THEOREM Invariance == Spec => [](TypeOK /\ ConnInv)
  BY InitInv, NextInv, PTL DEF Spec, IInv

(* Every flag, completion and pool bit keeps its type, and the bitset of   *)
(* the pool marks exactly the slots whose release callback is set.         *)
THEOREM ConnTypes == Spec => []TypeOK
<1>1. QED BY Invariance, PTL

(* A slot in the pool has no completion in the loop: no callback of an old *)
(* connection reaches the next one that release_closed_connection let in.  *)
THEOREM ReleaseGate == Spec => []NoStaleCompletion
<1>1. IInv => NoStaleCompletion
  BY DEF IInv, ConnInv, ConnOK, NoStaleCompletion
<1> QED
  BY <1>1, InitInv, NextInv, PTL DEF Spec

(* No path through the callbacks hands a completion to the loop twice.     *)
THEOREM ArmedOnce == Spec => []CompletionsArmedOnce
<1>1. IInv => CompletionsArmedOnce
  BY DEF IInv, ConnInv, ConnOK, FlagsMatch, ServerOK, CompletionsArmedOnce
<1> QED
  BY <1>1, InitInv, NextInv, PTL DEF Spec

(* Between callbacks every open connection has something to wake it.       *)
THEOREM AlwaysAwake == Spec => []NothingIsStranded
<1>1. IInv => NothingIsStranded
  BY DEF IInv, ConnInv, Awake, NothingIsStranded, Open
<1> QED
  BY <1>1, InitInv, NextInv, PTL DEF Spec

(* A suspended connection has no read in the loop, and the listener of a   *)
(* running application always has an accept or a retry timer.              *)
THEOREM QuietAndListening == Spec => [](SuspendedIsQuiet /\ ListenerLives)
<1>1. IInv => SuspendedIsQuiet /\ ListenerLives
  BY DEF IInv, ConnInv, ConnOK, ServerOK, SuspendedIsQuiet, ListenerLives
<1> QED
  BY <1>1, InitInv, NextInv, PTL DEF Spec

(* When submit does not fail, the loop of a shut down application returns  *)
(* only with an empty pool and a closed listener, on every backend.        *)
THEOREM Drained == ASSUME ~SubmitMayFail PROVE Spec => []ShutdownIsComplete
<1>1. Init => ShutdownIsComplete
  BY DEF Init, ShutdownIsComplete
<1>2. IInv /\ ShutdownIsComplete /\ [Next]_vars => ShutdownIsComplete'
  <2> SUFFICES ASSUME IInv, ShutdownIsComplete, [Next]_vars PROVE ShutdownIsComplete'
    OBVIOUS
  <2>1. CASE RunReturns
    <3>0. /\ shutting_down /\ ~ServerOutstanding /\ \A s \in Slots : ~Outstanding(conn[s])
          /\ loop' = IF active = {} /\ server.close_complete THEN "drained" ELSE "incomplete"
          /\ server' = server
      BY <2>1 DEF RunReturns
    <3>1. /\ server.closing /\ server.close_complete
          /\ ~server.accept_retry_active /\ ~server.accept_retry_cancel_active
      BY <3>0, ServerFacts DEF ServerOutstanding, ServerOK, IInv, ConnInv, ShutdownOK
    <3>2. ASSUME NEW s \in active PROVE FALSE
      <4>1. s \in Slots /\ conn[s].bound /\ conn[s].closing
        BY <3>0, <3>2 DEF IInv, TypeOK, ConnInv, ShutdownOK
      <4>2. ConnOK(backend, conn[s]) /\ ~MayRelease(conn[s]) /\ ~Outstanding(conn[s])
        BY <3>0, <4>1 DEF IInv, ConnInv
      <4> QED
        BY <4>1, <4>2 DEF ConnOK, FlagsMatch, MayRelease, Outstanding
    <3> QED
      BY <3>0, <3>1, <3>2 DEF ShutdownIsComplete
  <2>2. CASE ~RunReturns /\ Next
    <3>1. loop = "running"
      BY <2>2 DEF IInv, ConnInv, CallbackOK, Next, Send, Close, CloseAfterFlush, Suspend,
         Resume, AppRuns, ReadCompletes, WriteCompletes, Teardown, CloseCompletes,
         ReadCancelRuns, WriteCancelRuns, ReadCancelCompletes, WriteCancelCompletes,
         FlushBatch, OtherCallback, CallbackReturns, ReadReturns, WriteReturns, OtherReturns,
         Shutdown, LoopSubmits, AcceptCompletes, AcceptFails, ServerTeardown, AcceptRetries,
         AcceptCancelRuns, AcceptCancelCompletes, RetryCancelCompletes,
         ServerCloseCompletes, LoopFree
    <3>2. loop' = loop
      BY <2>2 DEF Next, Send, Close, CloseAfterFlush, Suspend,
         Resume, ReadCompletes, WriteCompletes, Teardown, CloseCompletes,
         ReadCancelRuns, WriteCancelRuns, ReadCancelCompletes, WriteCancelCompletes,
         FlushBatch, OtherCallback, CallbackReturns, ReadReturns, WriteReturns, OtherReturns,
         Shutdown, LoopSubmits, AcceptCompletes, AcceptFails, ServerTeardown, AcceptRetries,
         AcceptCancelRuns, AcceptCancelCompletes, RetryCancelCompletes,
         ServerCloseCompletes, Unfinished, environment
    <3> QED
      BY <3>1, <3>2 DEF ShutdownIsComplete
  <2>3. CASE UNCHANGED vars
    BY <2>3 DEF vars, ShutdownIsComplete
  <2> QED
    BY <2>1, <2>2, <2>3
<1> QED
  BY <1>1, <1>2, InitInv, NextInv, PTL DEF Spec
=============================================================================
