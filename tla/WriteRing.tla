----------------------------- MODULE WriteRing ------------------------------
(***************************************************************************)
(* The write path of one plaintext connection: the bounded ring of         *)
(* core/tcp_file.zig with its direct sends, write batches and file bodies, *)
(* the write completion of core/tcp.zig and the backpressure it settles.   *)
(* Bytes are numbered in the order the application hands them over; `wire' *)
(* is what the kernel has taken.  A direct send on a system without one is *)
(* a send that takes nothing.                                              *)
(***************************************************************************)
EXTENDS Integers, Sequences

CONSTANTS
  Capacity,      \* bytes of write_queue
  FrameSizes,    \* sizes of a frame, a response or the head of a file response
  FileLengths,   \* lengths of a file body
  MaxBytes       \* bound: bytes one connection is asked to send

ASSUME CapacityAssumption == Capacity \in Nat /\ Capacity >= 2
ASSUME SizesAssumption ==
  /\ FrameSizes \subseteq Nat \ {0}
  /\ FileLengths \subseteq Nat \ {0}
  /\ MaxBytes \in Nat

VARIABLES
  conn,      \* the fields of TcpConnection this path uses
  wire,      \* the bytes the kernel took, in order
  promised,  \* how many bytes the application has handed over
  waiting,   \* a WebSocket send was refused with WouldBlock and no drain came since
  pc         \* which callback runs: see Places

vars == <<conn, wire, promised, waiting, pc>>

Cells == 0 .. Capacity - 1
Half == Capacity \div 2

(* "loop": none; "read": a read callback, "batch": its write batch is open;*)
(* "settled": in the drain callback of end_write_batch; "drain": in that   *)
(* of the write completion; "finish": the rest of the completion; "resume":*)
(* requests that waited for a file body are dispatched.                    *)
Places == {"loop", "read", "batch", "settled", "drain", "finish", "resume"}
AppRuns == pc \in {"loop", "read", "batch", "settled", "drain", "resume"}

\* A connection as release_closed_connection and accept leave it: the bytes of
\* the ring are those of the connection before.
Fresh(cells, ws) ==
  [ws |-> ws, write_queue |-> cells, write_head |-> 0, write_len |-> 0,
   write_in_flight_len |-> 0, is_writing |-> FALSE, was_backpressured |-> FALSE,
   write_batch_depth |-> 0, closing |-> FALSE, close_when_drained |-> FALSE,
   file_remaining |-> 0, file_close_after |-> FALSE, dispatch_suspended |-> FALSE]

Init ==
  /\ \E ws \in BOOLEAN : conn = Fresh([i \in Cells |-> 0], ws)
  /\ wire = <<>>
  /\ promised = 0
  /\ waiting = FALSE
  /\ pc = "loop"

-----------------------------------------------------------------------------
(* Operations on the connection.                                           *)

\* The connection's file_body is set exactly while bytes of it remain.
HasFile(c) == c.file_remaining # 0

\* The write flags and the open batch; the sockets' own teardown is in ConnectionLifecycle.
close_connection(c) ==
  IF c.closing THEN c
  ELSE [c EXCEPT !.closing = TRUE, !.close_when_drained = FALSE,
                 !.dispatch_suspended = FALSE, !.write_batch_depth = 0, !.file_remaining = 0]

close_after_flush(c) ==
  LET d == [c EXCEPT !.close_when_drained = TRUE]
  IN  IF c.closing THEN c
      ELSE IF c.write_len = 0 /\ ~c.is_writing THEN close_connection(d) ELSE d

advance_write_head(head, written, remaining) ==
  IF remaining = 0 THEN 0 ELSE (head + written) % Capacity

\* The first n queued bytes, and the ring once the kernel has taken them.
Queued(c, n) == [i \in 1 .. n |-> c.write_queue[(c.write_head + i - 1) % Capacity]]
Taken(c, n) ==
  [c EXCEPT !.write_len = @ - n,
            !.write_head = advance_write_head(@, n, c.write_len - n)]

\* Mutant: the bytes after the wrap are written where the first ones were.
copy_to_ring_NoWrap(c, first, n) ==
  LET tail == c.write_head + c.write_len
  IN  [i \in Cells |-> IF i >= tail /\ i < tail + n THEN first + (i - tail) ELSE c.write_queue[i]]

\* The bytes first, first + 1, ... go behind the queued ones, around the end.
copy_to_ring(c, first, n) ==
  LET tail == (c.write_head + c.write_len) % Capacity
      distance(i) == IF i >= tail THEN i - tail ELSE i - tail + Capacity
  IN  [i \in Cells |-> IF distance(i) < n THEN first + distance(i) ELSE c.write_queue[i]]

\* Mutant: a queue exactly half full does not count as backpressure.
append_to_ring_AboveHalf(c, first, n) ==
  [c EXCEPT !.write_queue = copy_to_ring(c, first, n),
            !.write_len = @ + n,
            !.was_backpressured = @ \/ c.write_len + n > Half]

append_to_ring(c, first, n) ==
  [c EXCEPT !.write_queue = copy_to_ring(c, first, n),
            !.write_len = @ + n,
            !.was_backpressured = @ \/ c.write_len + n >= Half]

\* Only the bytes up to the end of the ring, in one piece.
arm_write(c) ==
  LET contiguous == IF c.write_len <= Capacity - c.write_head
                    THEN c.write_len ELSE Capacity - c.write_head
  IN  IF c.is_writing \/ c.write_len = 0 \/ c.closing THEN c
      ELSE [c EXCEPT !.is_writing = TRUE, !.write_in_flight_len = contiguous]

start_write(c) == IF c.write_batch_depth # 0 THEN c ELSE arm_write(c)

\* Mutant: the ring is sent directly while a completion owns a part of it.
may_flush_directly_Unguarded(c) == ~HasFile(c) /\ ~c.closing /\ c.write_len # 0

\* A file body needs the completion that pumps it.
may_flush_directly(c) == ~HasFile(c) /\ ~c.closing /\ ~c.is_writing /\ c.write_len # 0

\* flush_batched once the kernel took n bytes; what it left is armed.
flush_batched(c, n) ==
  LET d == Taken(c, n)
  IN  IF ~may_flush_directly(c) \/ n = 0 THEN arm_write(c)
      ELSE IF d.write_len # 0 THEN arm_write(d)
      ELSE IF d.close_when_drained THEN close_connection(d) ELSE d

\* How many bytes a direct flush may take.
FlushCounts(c) == IF may_flush_directly(c) THEN 0 .. c.write_len ELSE {0}

\* Mutant: the head of a file response may go out without a completion.
may_send_directly_IgnoresFile(c) ==
  /\ c.write_batch_depth = 0
  /\ ~c.closing /\ ~c.close_when_drained
  /\ c.write_len = 0 /\ ~c.is_writing

\* A frame bypasses an empty ring; the head of a file response never does.
may_send_directly(c) ==
  /\ c.write_batch_depth = 0 /\ ~HasFile(c)
  /\ ~c.closing /\ ~c.close_when_drained
  /\ c.write_len = 0 /\ ~c.is_writing

\* settle_backpressure: the flag is cleared and a WebSocket is told.
settles(c) == c.was_backpressured /\ c.write_len < Half
Settled(c) == IF settles(c) THEN [c EXCEPT !.was_backpressured = FALSE] ELSE c
Notifies(c) == settles(c) /\ c.ws

-----------------------------------------------------------------------------
(* enqueue_plain_parts: a frame of n bytes is queued or sent as a whole,   *)
(* or refused as a whole.                                                  *)

\* An open batch with no room for the frame is flushed first.
Overflows(c, n) == c.write_batch_depth # 0 /\ n > Capacity - c.write_len

\* After a direct send of k bytes the rest of the frame is queued.
send_rest(c, first, n, k) ==
  IF k = n THEN c ELSE start_write(append_to_ring(c, first + k, n - k))

Sent(first, k) == [i \in 1 .. k |-> first + i - 1]

\* What may become of a frame on a connection with room for it, or without.
\* `flushed' are the bytes a flush put on the wire before.
Placed(c, flushed, first, n) ==
  IF n > Capacity - c.write_len
  THEN {[conn |-> c, bytes |-> flushed, ok |-> FALSE]}
  ELSE {[conn |-> send_rest(c, first, n, k), bytes |-> flushed \o Sent(first, k), ok |-> TRUE] :
          k \in IF may_send_directly(c) THEN 0 .. n ELSE {0}}

enqueue_plain_parts(c, first, n) ==
  IF n > Capacity \/ ~Overflows(c, n) THEN Placed(c, <<>>, first, n)
  ELSE UNION {Placed(flush_batched(c, f), Queued(c, f), first, n) : f \in FlushCounts(c)}

-----------------------------------------------------------------------------
(* The application: frames, responses, file responses and closes, from a   *)
(* read callback, a drain callback or another callback of the loop.  The   *)
(* requests behind a file response wait (dispatch_suspended).              *)

MayWrite == AppRuns /\ ~conn.closing /\ ~conn.close_when_drained /\ ~conn.dispatch_suspended

Send(n) ==
  /\ MayWrite
  /\ promised + n <= MaxBytes
  /\ \E o \in enqueue_plain_parts(conn, promised + 1, n) :
       /\ conn' = o.conn
       /\ wire' = wire \o o.bytes
       /\ promised' = IF o.ok THEN promised + n ELSE promised
       /\ waiting' = (waiting \/ (~o.ok /\ conn.ws))
  /\ UNCHANGED pc

\* The body is owned before the head is written; a refused head undoes it.
begin_file_response(n, length, close_after) ==
  LET owned == [conn EXCEPT !.file_remaining = length, !.file_close_after = close_after,
                            !.dispatch_suspended = TRUE]
  IN  /\ MayWrite
      /\ pc \in {"read", "batch", "resume"} /\ ~conn.ws /\ ~HasFile(conn)
      /\ promised + n + length <= MaxBytes
      /\ \E o \in enqueue_plain_parts(owned, promised + 1, n) :
           /\ conn' = IF o.ok THEN o.conn
                      ELSE [o.conn EXCEPT !.file_remaining = 0, !.file_close_after = FALSE,
                                          !.dispatch_suspended = FALSE]
           /\ wire' = wire \o o.bytes
           /\ promised' = IF o.ok THEN promised + n + length ELSE promised
      /\ UNCHANGED <<waiting, pc>>

\* A close frame, a rejected request or Connection: close.
CloseAfterFlush ==
  /\ MayWrite
  /\ conn' = close_after_flush(conn)
  /\ UNCHANGED <<wire, promised, waiting, pc>>

\* terminate, a timeout, a read error or shutdown.
Close ==
  /\ AppRuns
  /\ ~conn.closing
  /\ conn' = close_connection(conn)
  /\ UNCHANGED <<wire, promised, waiting, pc>>

-----------------------------------------------------------------------------
(* The read callback and its write batch.                                  *)

ReadBegins ==
  /\ pc = "loop"
  /\ ~conn.closing /\ ~conn.close_when_drained /\ ~conn.dispatch_suspended
  /\ pc' = "read"
  /\ UNCHANGED <<conn, wire, promised, waiting>>

\* Another request or frame follows in the bytes at hand, of this read or of
\* the ones that waited for a file body.
begin_write_batch ==
  /\ pc \in {"read", "resume"}
  /\ ~conn.closing
  /\ conn' = [conn EXCEPT !.write_batch_depth = @ + 1]
  /\ pc' = "batch"
  /\ UNCHANGED <<wire, promised, waiting>>

\* A close inside the batch has ended it.
end_write_batch ==
  /\ pc = "batch"
  /\ \/ /\ conn.write_batch_depth = 0
        /\ pc' = "loop"
        /\ UNCHANGED <<conn, wire, waiting>>
     \/ /\ conn.write_batch_depth # 0
        /\ \E f \in FlushCounts(conn) :
             LET c == flush_batched([conn EXCEPT !.write_batch_depth = @ - 1], f)
             IN  /\ conn' = IF c.closing THEN c ELSE Settled(c)
                 /\ wire' = wire \o Queued(conn, f)
                 /\ waiting' = (waiting /\ (c.closing \/ ~Notifies(c)))
                 /\ pc' = IF ~c.closing /\ Notifies(c) THEN "settled" ELSE "loop"
  /\ UNCHANGED promised

\* A read callback without a batch, or the drain callback at the end of one.
ReadReturns ==
  /\ pc \in {"read", "settled"}
  /\ pc' = "loop"
  /\ UNCHANGED <<conn, wire, promised, waiting>>

-----------------------------------------------------------------------------
(* on_write_complete.                                                      *)

\* The write failed, or the connection is closing.
WriteFails ==
  /\ pc = "loop" /\ conn.is_writing
  /\ conn' = IF conn.closing THEN [conn EXCEPT !.is_writing = FALSE, !.write_in_flight_len = 0]
             ELSE close_connection([conn EXCEPT !.is_writing = FALSE])
  /\ UNCHANGED <<wire, promised, waiting, pc>>

\* The completion up to the drain callback: n bytes of the slice are written.
WriteCompletes ==
  /\ pc = "loop" /\ conn.is_writing /\ ~conn.closing
  /\ \E n \in 1 .. conn.write_in_flight_len :
       LET c == [Taken(conn, n) EXCEPT !.is_writing = FALSE, !.write_in_flight_len = 0]
       IN  /\ conn' = Settled(c)
           /\ wire' = wire \o Queued(conn, n)
           /\ waiting' = (waiting /\ ~Notifies(c))
           /\ pc' = IF Notifies(c) THEN "drain" ELSE "finish"
  /\ UNCHANGED promised

\* pump_file_body proceeds only on an empty ring that no completion owns.
Pumps(c) == HasFile(c) /\ ~c.closing /\ ~c.is_writing /\ c.write_len = 0

\* The body has been handed over: close, or dispatch the requests that waited.
finish_file_body(c) ==
  LET d == [c EXCEPT !.file_close_after = FALSE, !.dispatch_suspended = FALSE]
  IN  IF c.file_close_after THEN close_after_flush(d) ELSE d

\* The completion ends without file work: close a drained connection or write on.
CompletionEnds ==
  /\ pc \in {"drain", "finish"}
  /\ ~Pumps(conn) \/ conn.close_when_drained
  /\ conn' = IF conn.write_len = 0 /\ conn.close_when_drained THEN close_connection(conn)
             ELSE start_write(conn)
  /\ pc' = "loop"
  /\ UNCHANGED <<wire, promised, waiting>>

\* The next byte of the file body.
FileByte == promised - conn.file_remaining + 1

\* sendfile and the read of the fallback copy may fail, or find the file too short.
PumpFails ==
  /\ pc \in {"drain", "finish"}
  /\ Pumps(conn) /\ ~conn.close_when_drained
  /\ \E k \in 0 .. conn.file_remaining : wire' = wire \o Sent(FileByte, k)
  /\ conn' = close_connection(conn)
  /\ pc' = "loop"
  /\ UNCHANGED <<promised, waiting>>

\* The kernel sends k bytes of the file; when it stalls, r more are copied into
\* the ring.  The last byte of the body ends it.
pump_file_body ==
  /\ pc \in {"drain", "finish"}
  /\ Pumps(conn) /\ ~conn.close_when_drained
  /\ \E k \in 0 .. conn.file_remaining :
       LET left == conn.file_remaining - k
           limit == IF left < Capacity THEN left ELSE Capacity
       IN  \E r \in IF left = 0 THEN {0} ELSE 1 .. limit :
             LET copied == IF r = 0 THEN conn
                           ELSE start_write(append_to_ring(conn, FileByte + k, r))
                 c == [copied EXCEPT !.file_remaining = left - r]
             IN  /\ wire' = wire \o Sent(FileByte, k)
                 /\ conn' = IF left = r THEN finish_file_body(c) ELSE c
                 /\ pc' = IF left = r /\ ~conn.file_close_after THEN "resume" ELSE "loop"
  /\ UNCHANGED <<promised, waiting>>

ResumeReturns ==
  /\ pc = "resume"
  /\ conn' = start_write(conn)
  /\ pc' = "loop"
  /\ UNCHANGED <<wire, promised, waiting>>

\* The closed connection's slot goes to another one.
Release ==
  /\ pc = "loop" /\ conn.closing /\ ~conn.is_writing
  /\ \E ws \in BOOLEAN : conn' = Fresh(conn.write_queue, ws)
  /\ wire' = <<>> /\ promised' = 0 /\ waiting' = FALSE
  /\ UNCHANGED pc

CallbackReturns ==
  \/ ReadReturns \/ end_write_batch \/ CompletionEnds \/ PumpFails \/ pump_file_body
  \/ ResumeReturns

Next ==
  \/ \E n \in FrameSizes : Send(n)
  \/ \E n \in FrameSizes, length \in FileLengths, close_after \in BOOLEAN :
       begin_file_response(n, length, close_after)
  \/ CloseAfterFlush \/ Close \/ ReadBegins \/ begin_write_batch
  \/ WriteFails \/ WriteCompletes \/ CallbackReturns \/ Release

Spec == Init /\ [][Next]_vars

(* A callback returns, and the loop delivers a write that can make         *)
(* progress however many other callbacks it runs between (strong           *)
(* fairness): the peer reads, or the write fails.  Nobody is obliged to    *)
(* send, close or release.                                                 *)
FairSpec == Spec /\ WF_vars(CallbackReturns) /\ SF_vars(WriteCompletes \/ WriteFails)

-----------------------------------------------------------------------------
(* Properties.                                                             *)

Conns ==
  [ws : BOOLEAN, write_queue : [Cells -> Nat], write_head : Cells,
   write_len : 0 .. Capacity, write_in_flight_len : 0 .. Capacity,
   is_writing : BOOLEAN, was_backpressured : BOOLEAN, write_batch_depth : {0, 1},
   closing : BOOLEAN, close_when_drained : BOOLEAN, file_remaining : Nat,
   file_close_after : BOOLEAN, dispatch_suspended : BOOLEAN]

(* Lengths, positions and places stay in their ranges.                     *)
TypeOK ==
  /\ conn \in Conns
  /\ wire \in Seq(Nat)
  /\ promised \in Nat
  /\ waiting \in BOOLEAN
  /\ pc \in Places

(* The peer sees one stream: what the kernel took, what is queued and what *)
(* is left of a file body are the bytes handed over, in order, none lost,  *)
(* doubled or overwritten, through wraps, partial direct sends, batches    *)
(* and the switch between ring and file.                                   *)
StreamIntact ==
  /\ \A i \in DOMAIN wire : wire[i] = i
  /\ \A i \in 0 .. conn.write_len - 1 :
       conn.write_queue[(conn.write_head + i) % Capacity] = Len(wire) + i + 1
  /\ ~conn.closing => promised = Len(wire) + conn.write_len + conn.file_remaining

(* What keeps the stream intact: the slice in the kernel is one piece of  *)
(* the queued bytes, a file body holds back every later response, and      *)
(* batches do not nest and end with the connection.                        *)
FlightOK(c) ==
  c.is_writing => /\ c.write_in_flight_len \in 1 .. c.write_len
                  /\ c.write_head + c.write_in_flight_len <= Capacity
FileHolds(c) == HasFile(c) => c.dispatch_suspended /\ ~c.closing
BatchOK(c) == c.write_batch_depth # 0 => pc = "batch" /\ ~c.closing
RingInv == StreamIntact /\ FlightOK(conn) /\ FileHolds(conn) /\ BatchOK(conn)

(* The kernel reads the slice of an armed write at any time until its      *)
(* callback: nothing writes there, and nothing moves the head past it.     *)
InFlightIsStable ==
  [][conn.is_writing /\ conn'.is_writing =>
       /\ conn'.write_head = conn.write_head
       /\ \A i \in conn.write_head .. conn.write_head + conn.write_in_flight_len - 1 :
            conn'.write_queue[i] = conn.write_queue[i]]_vars

(* Every byte handed over reaches the kernel unless the connection closes: *)
(* no path leaves queued bytes or a file body without a completion.        *)
EverythingIsSent ==
  \A n \in 1 .. MaxBytes : promised >= n ~> Len(wire) >= n \/ conn.closing

(* "send returns error.WouldBlock when the bounded write queue is full;    *)
(* use the drain callback ... to resume producers"                         *)
(* (docs/getting_started.md:103): a refused WebSocket send is followed by  *)
(* a drain callback unless the connection closes.                          *)
RefusedSendIsResumed == waiting ~> ~waiting \/ conn.closing
=============================================================================
