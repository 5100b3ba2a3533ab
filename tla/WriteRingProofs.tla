-------------------------- MODULE WriteRingProofs ---------------------------
(***************************************************************************)
(* Proofs about the write path for every capacity of at least two, every   *)
(* set of frame sizes and file lengths and any number of bytes.  The       *)
(* lemmas follow one connection through the functions of tcp_file.zig and  *)
(* tcp.zig; the steps of the specification are put together from them.     *)
(***************************************************************************)
EXTENDS WriteRing, SequenceTheorems, TLAPS

USE CapacityAssumption, SizesAssumption

\* The queued bytes of c follow the w bytes the kernel took.
QueueOK(c, w) ==
  \A i \in 0 .. c.write_len - 1 : c.write_queue[(c.write_head + i) % Capacity] = w + i + 1

\* A connection in good order behind w bytes on the wire.
Good(c, w) ==
  /\ c \in Conns /\ w \in Nat
  /\ QueueOK(c, w) /\ FlightOK(c) /\ FileHolds(c)
  /\ c.write_batch_depth # 0 => ~c.closing

\* s is the stretch of the stream behind its first w bytes.
Follows(s, w) == s \in Seq(Nat) /\ \A j \in 1 .. Len(s) : s[j] = w + j

\* d differs from c neither in its ring nor in what it owes.
SameBytes(c, d) ==
  /\ d.write_queue = c.write_queue /\ d.write_head = c.write_head
  /\ d.write_len = c.write_len /\ d.file_remaining = c.file_remaining

\* The slice a write still holds is the same in c and d.
Stable(c, d) ==
  c.is_writing /\ d.is_writing =>
    /\ d.write_head = c.write_head
    /\ \A i \in c.write_head .. c.write_head + c.write_in_flight_len - 1 :
         d.write_queue[i] = c.write_queue[i]

\* A number below two laps as a cell.
Wrapped(a) == IF a < Capacity THEN a ELSE a - Capacity

-----------------------------------------------------------------------------
(* Ring arithmetic and stretches of the stream.                            *)

(* A cell counted from the head, at most one lap on.                       *)
LEMMA Wrap ==
  ASSUME NEW h \in Cells, NEW i \in 0 .. Capacity
  PROVE  (h + i) % Capacity = Wrapped(h + i) /\ Wrapped(h + i) \in Cells
<1> DEFINE a == h + i
<1>1. a \in 0 .. 2 * Capacity - 1 /\ a \in Nat
  BY DEF Cells
<1>2. \A b \in 0 .. 2 * Capacity - 1 : b % Capacity = Wrapped(b) /\ Wrapped(b) \in Cells
  <2> SUFFICES ASSUME NEW b \in 0 .. 2 * Capacity - 1
               PROVE  b % Capacity = Wrapped(b) /\ Wrapped(b) \in Cells
    OBVIOUS
  <2> b \in Nat
    OBVIOUS
  <2>1. b \div Capacity \in Nat /\ b % Capacity \in 0 .. Capacity - 1
    OBVIOUS
  <2>2. b = (b \div Capacity) * Capacity + (b % Capacity)
    OBVIOUS
  <2> QED
    BY <2>1, <2>2 DEF Wrapped, Cells
<1> QED
  BY <1>1, <1>2

(* How far a cell lies behind the tail of l queued bytes.                  *)
LEMMA Distance ==
  ASSUME NEW h \in Cells, NEW l \in 0 .. Capacity, NEW i \in 0 .. Capacity,
         NEW tail, tail = Wrapped(h + l), NEW x, x = Wrapped(h + i)
  PROVE  LET distance == IF x >= tail THEN x - tail ELSE x - tail + Capacity
         IN  /\ i < l => distance = i - l + Capacity
             /\ i >= l /\ i - l < Capacity => distance = i - l
<1>1. h \in 0 .. Capacity - 1
  BY DEF Cells
<1>2. CASE h + l < Capacity
  BY <1>1, <1>2 DEF Wrapped
<1>3. CASE h + l >= Capacity
  BY <1>1, <1>3 DEF Wrapped
<1> QED
  BY <1>1, <1>2, <1>3

(* A stretch behind another is the longer stretch.                         *)
LEMMA FollowsConcat ==
  ASSUME NEW w \in Nat, NEW s, NEW t, Follows(s, w), Follows(t, w + Len(s))
  PROVE  Follows(s \o t, w) /\ Len(s \o t) = Len(s) + Len(t)
<1>1. s \in Seq(Nat) /\ t \in Seq(Nat) /\ Len(s) \in Nat /\ Len(t) \in Nat
  BY LenProperties DEF Follows
<1>2. /\ s \o t \in Seq(Nat) /\ Len(s \o t) = Len(s) + Len(t)
      /\ \A i \in 1 .. Len(s) + Len(t) :
           (s \o t)[i] = IF i <= Len(s) THEN s[i] ELSE t[i - Len(s)]
  BY <1>1, ConcatProperties
<1>3. ASSUME NEW j \in 1 .. Len(s \o t) PROVE (s \o t)[j] = w + j
  <2>1. CASE j <= Len(s)
    BY <1>1, <1>2, <2>1 DEF Follows
  <2>2. CASE j > Len(s)
    <3>1. j - Len(s) \in 1 .. Len(t)
      BY <1>1, <1>2, <2>2
    <3>2. t[j - Len(s)] = w + Len(s) + (j - Len(s))
      BY <3>1 DEF Follows
    <3> QED
      BY <1>1, <1>2, <2>2, <3>2
  <2> QED
    BY <1>1, <2>1, <2>2
<1> QED
  BY <1>2, <1>3 DEF Follows

(* A function on 1 .. n is a sequence of length n.                         *)
LEMMA FunctionIsSeq ==
  ASSUME NEW n \in Nat, NEW f \in [1 .. n -> Nat]
  PROVE  f \in Seq(Nat) /\ Len(f) = n
<1>1. f \in Seq(Nat)
  BY SeqDef
<1> QED
  BY <1>1, LenProperties

(* What a direct send takes is the next stretch.                           *)
LEMMA SentFollows ==
  ASSUME NEW w \in Nat, NEW k \in Nat
  PROVE  Follows(Sent(w + 1, k), w) /\ Len(Sent(w + 1, k)) = k
<1>1. Sent(w + 1, k) \in [1 .. k -> Nat]
  BY DEF Sent
<1>2. Sent(w + 1, k) \in Seq(Nat) /\ Len(Sent(w + 1, k)) = k
  BY <1>1, FunctionIsSeq
<1>3. \A j \in 1 .. k : Sent(w + 1, k)[j] = w + j
  BY DEF Sent
<1> QED
  BY <1>2, <1>3 DEF Follows

-----------------------------------------------------------------------------
(* The functions on the ring.                                              *)

(* The first queued bytes are the next stretch of the stream.              *)
LEMMA QueuedFollows ==
  ASSUME NEW c, NEW w, Good(c, w), NEW n \in 0 .. c.write_len
  PROVE  Follows(Queued(c, n), w) /\ Len(Queued(c, n)) = n
<1>1. n \in Nat /\ c.write_len \in 0 .. Capacity /\ c.write_head \in 0 .. Capacity - 1 /\ w \in Nat
  BY DEF Good, Conns, Cells
<1>2. \A i \in 1 .. n : c.write_queue[(c.write_head + i - 1) % Capacity] = w + i
  <2> TAKE i \in 1 .. n
  <2>1. i - 1 \in 0 .. c.write_len - 1 /\ c.write_head + (i - 1) = c.write_head + i - 1
    BY <1>1
  <2> QED
    BY <1>1, <2>1 DEF Good, QueueOK
<1>3. Queued(c, n) \in [1 .. n -> Nat]
  BY <1>1, <1>2 DEF Queued
<1>4. Queued(c, n) \in Seq(Nat) /\ Len(Queued(c, n)) = n
  BY <1>1, <1>3, FunctionIsSeq
<1> QED
  BY <1>2, <1>4 DEF Follows, Queued

(* A ring from which the kernel took its first bytes is in order behind    *)
(* them.                                                                   *)
LEMMA TakenGood ==
  ASSUME NEW c, NEW w, Good(c, w), ~c.is_writing, NEW n \in 0 .. c.write_len
  PROVE  /\ Good(Taken(c, n), w + n)
         /\ Taken(c, n).write_len = c.write_len - n
         /\ \A f \in {"ws", "is_writing", "write_batch_depth", "closing", "close_when_drained",
                      "file_remaining", "file_close_after", "dispatch_suspended"} :
              Taken(c, n)[f] = c[f]
<1> DEFINE d == Taken(c, n)
           h == advance_write_head(c.write_head, n, c.write_len - n)
<1>1. c \in Conns /\ w \in Nat /\ n \in Nat /\ c.write_len \in 0 .. Capacity /\ c.write_head \in Cells
  BY DEF Good, Conns
<1>2. c.write_len - n \in 0 .. Capacity
  BY <1>1
<1>3. h = IF c.write_len = n THEN 0 ELSE Wrapped(c.write_head + n)
  <2>1. n \in 0 .. Capacity /\ (c.write_len - n = 0 <=> c.write_len = n)
    BY <1>1
  <2>2. (c.write_head + n) % Capacity = Wrapped(c.write_head + n)
    BY <1>1, <2>1, Wrap
  <2> QED
    BY <2>1, <2>2 DEF advance_write_head
<1>4. h \in Cells
  <2>1. n \in 0 .. Capacity
    BY <1>1
  <2> QED
    BY <1>1, <1>3, <2>1, Wrap DEF Cells
<1>5. d = [c EXCEPT !.write_len = c.write_len - n, !.write_head = h]
  BY DEF Taken
<1>6. d \in Conns
  BY <1>1, <1>2, <1>4, <1>5 DEF Conns
<1>7. /\ d.write_len = c.write_len - n /\ d.write_head = h /\ d.write_queue = c.write_queue
      /\ d.is_writing = c.is_writing /\ d.file_remaining = c.file_remaining
      /\ d.dispatch_suspended = c.dispatch_suspended /\ d.closing = c.closing
      /\ d.write_batch_depth = c.write_batch_depth /\ d.ws = c.ws
      /\ d.close_when_drained = c.close_when_drained /\ d.file_close_after = c.file_close_after
  BY <1>1, <1>5 DEF Conns
<1>8. QueueOK(d, w + n)
  <2> SUFFICES ASSUME NEW i \in 0 .. c.write_len - n - 1
               PROVE  c.write_queue[(h + i) % Capacity] = w + n + i + 1
    BY <1>1, <1>7 DEF QueueOK
  <2>1. n + i \in 0 .. c.write_len - 1 /\ c.write_len # n /\ i \in 0 .. Capacity /\ n + i \in 0 .. Capacity
    BY <1>1
  <2>2. c.write_queue[(c.write_head + (n + i)) % Capacity] = w + (n + i) + 1
    BY <2>1 DEF Good, QueueOK
  <2>3. /\ (c.write_head + (n + i)) % Capacity = Wrapped(c.write_head + (n + i))
        /\ (h + i) % Capacity = Wrapped(h + i)
    BY <1>1, <1>4, <2>1, Wrap
  <2>4. Wrapped(c.write_head + (n + i)) = Wrapped(h + i)
    BY <1>1, <1>3, <2>1 DEF Cells, Wrapped
  <2> QED
    BY <1>1, <2>2, <2>3, <2>4
<1>9. FlightOK(d) /\ FileHolds(d) /\ (d.write_batch_depth # 0 => ~d.closing)
  BY <1>7 DEF FlightOK, FileHolds, HasFile, Good
<1>10. w + n \in Nat
  BY <1>1
<1> QED
  BY <1>6, <1>7, <1>8, <1>9, <1>10 DEF Good

(* Bytes appended behind the queued ones continue the stream, and the      *)
(* queued ones, the slice in the kernel among them, stay where they are.   *)
LEMMA AppendGood ==
  ASSUME NEW c, NEW w, Good(c, w), NEW n \in 1 .. Capacity - c.write_len
  PROVE  LET d == append_to_ring(c, w + c.write_len + 1, n)
         IN  /\ Good(d, w) /\ d.write_len = c.write_len + n /\ d.write_head = c.write_head
             /\ \A i \in 0 .. c.write_len - 1 :
                  d.write_queue[Wrapped(c.write_head + i)] = c.write_queue[Wrapped(c.write_head + i)]
             /\ \A f \in {"ws", "is_writing", "write_in_flight_len", "write_batch_depth", "closing",
                          "close_when_drained", "file_remaining", "file_close_after",
                          "dispatch_suspended"} : d[f] = c[f]
<1> DEFINE first == w + c.write_len + 1
           d == append_to_ring(c, first, n)
           q == copy_to_ring(c, first, n)
           tail == (c.write_head + c.write_len) % Capacity
           distance(i) == IF i >= tail THEN i - tail ELSE i - tail + Capacity
<1>1. /\ c \in Conns /\ w \in Nat /\ n \in Nat /\ c.write_len \in 0 .. Capacity
      /\ c.write_head \in Cells /\ c.write_queue \in [Cells -> Nat] /\ first \in Nat
      /\ c.was_backpressured \in BOOLEAN
  BY DEF Good, Conns
<1>2. c.write_len + n \in 0 .. Capacity
  BY <1>1
<1>3. tail = Wrapped(c.write_head + c.write_len) /\ tail \in Cells
  BY <1>1, Wrap
<1> HIDE DEF first, tail
<1>4. q = [i \in Cells |-> IF distance(i) < n THEN first + distance(i) ELSE c.write_queue[i]]
  BY DEF copy_to_ring, tail
<1>5. \A i \in Cells : distance(i) \in 0 .. Capacity - 1
  BY <1>3 DEF Cells
<1>6. q \in [Cells -> Nat]
  BY <1>1, <1>4, <1>5
<1> DEFINE b == c.was_backpressured \/ c.write_len + n >= Half
<1>7. d = [c EXCEPT !.write_queue = q, !.write_len = c.write_len + n, !.was_backpressured = b]
  BY DEF append_to_ring
<1>8. b \in BOOLEAN
  BY <1>1
<1> HIDE DEF q, b
<1>9. d \in Conns
  BY <1>1, <1>2, <1>6, <1>7, <1>8 DEF Conns
<1>10. /\ d.write_len = c.write_len + n /\ d.write_head = c.write_head /\ d.write_queue = q
       /\ d.is_writing = c.is_writing /\ d.write_in_flight_len = c.write_in_flight_len
       /\ d.write_batch_depth = c.write_batch_depth /\ d.closing = c.closing
       /\ d.close_when_drained = c.close_when_drained /\ d.file_remaining = c.file_remaining
       /\ d.file_close_after = c.file_close_after
       /\ d.dispatch_suspended = c.dispatch_suspended /\ d.ws = c.ws
  BY <1>1, <1>7 DEF Conns
<1>11. ASSUME NEW i \in 0 .. c.write_len - 1
       PROVE  q[Wrapped(c.write_head + i)] = c.write_queue[Wrapped(c.write_head + i)]
  <2>1. i \in 0 .. Capacity /\ Wrapped(c.write_head + i) \in Cells
    BY <1>1, Wrap, SMTT(30)
  <2>2. distance(Wrapped(c.write_head + i)) = i - c.write_len + Capacity
    BY <1>1, <1>3, <2>1, Distance
  <2>3. ~(distance(Wrapped(c.write_head + i)) < n)
    BY <1>1, <2>2
  <2> QED
    BY <1>4, <2>1, <2>3
<1>12. ASSUME NEW i \in c.write_len .. c.write_len + n - 1
       PROVE  q[Wrapped(c.write_head + i)] = w + i + 1
  <2>a. i \in 0 .. Capacity /\ i >= c.write_len /\ i - c.write_len < Capacity
    BY <1>1, <1>2
  <2>1. i \in 0 .. Capacity /\ Wrapped(c.write_head + i) \in Cells
    BY <1>1, <2>a, Wrap
  <2>2. distance(Wrapped(c.write_head + i)) = i - c.write_len
    BY <1>1, <1>3, <2>a, Distance
  <2>3. q[Wrapped(c.write_head + i)] = first + (i - c.write_len)
    BY <1>1, <1>4, <2>1, <2>2
  <2> QED
    BY <1>1, <2>3 DEF first
<1>13. QueueOK(d, w)
  <2> HIDE DEF d
  <2> SUFFICES ASSUME NEW i \in 0 .. d.write_len - 1
               PROVE  d.write_queue[(d.write_head + i) % Capacity] = w + i + 1
    BY DEF QueueOK
  <2>1. i \in 0 .. Capacity /\ i \in 0 .. c.write_len + n - 1
    BY <1>1, <1>2, <1>10
  <2>2. (c.write_head + i) % Capacity = Wrapped(c.write_head + i)
    BY <1>1, <2>1, Wrap
  <2>3. CASE i \in 0 .. c.write_len - 1
    <3>1. c.write_queue[(c.write_head + i) % Capacity] = w + i + 1
      BY <2>3 DEF Good, QueueOK
    <3> QED
      BY <1>10, <1>11, <2>2, <2>3, <3>1
  <2>4. CASE i \in c.write_len .. c.write_len + n - 1
    BY <1>10, <1>12, <2>2, <2>4
  <2> QED
    BY <1>1, <2>1, <2>3, <2>4
<1>14. FlightOK(d)
  BY <1>1, <1>2, <1>10 DEF FlightOK, Good
<1>15. FileHolds(d) /\ (d.write_batch_depth # 0 => ~d.closing)
  BY <1>10 DEF FileHolds, HasFile, Good
<1>16. Good(d, w)
  BY <1>1, <1>9, <1>13, <1>14, <1>15 DEF Good
<1> QED
  BY <1>10, <1>11, <1>16 DEF first

(* A change of flags leaves the queued bytes in order.                     *)
LEMMA SameBytesQueue ==
  ASSUME NEW c, NEW d, NEW w, Good(c, w), SameBytes(c, d)
  PROVE  QueueOK(d, w)
  BY DEF Good, QueueOK, SameBytes

(* arm_write hands the kernel one piece of the queued bytes, and whatever  *)
(* is queued is then under way unless the connection closes.               *)
LEMMA ArmWrite ==
  ASSUME NEW c, NEW w, Good(c, w)
  PROVE  LET d == arm_write(c)
         IN  /\ Good(d, w) /\ SameBytes(c, d)
             /\ \A f \in {"ws", "write_batch_depth", "closing", "close_when_drained",
                          "file_close_after", "dispatch_suspended"} : d[f] = c[f]
             /\ c.is_writing => d = c
<1> DEFINE n == IF c.write_len <= Capacity - c.write_head THEN c.write_len ELSE Capacity - c.write_head
           d == [c EXCEPT !.is_writing = TRUE, !.write_in_flight_len = n]
<1>1. c \in Conns /\ c.write_len \in 0 .. Capacity /\ c.write_head \in Cells /\ w \in Nat
  BY DEF Good, Conns
<1>2. CASE c.is_writing \/ c.write_len = 0 \/ c.closing
  <2>1. arm_write(c) = c
    BY <1>2 DEF arm_write
  <2> QED
    BY <2>1 DEF SameBytes
<1>3. CASE ~(c.is_writing \/ c.write_len = 0 \/ c.closing)
  <2>1. arm_write(c) = d
    BY <1>3 DEF arm_write
  <2>2. n \in 1 .. c.write_len /\ n \in 0 .. Capacity /\ c.write_head + n <= Capacity
    BY <1>1, <1>3 DEF Cells
  <2> HIDE DEF n
  <2>3. d \in Conns
    BY <1>1, <2>2 DEF Conns
  <2>4. /\ SameBytes(c, d) /\ d.is_writing /\ d.write_in_flight_len = n
        /\ d.write_batch_depth = c.write_batch_depth /\ d.closing = c.closing
        /\ d.close_when_drained = c.close_when_drained /\ d.ws = c.ws
        /\ d.file_close_after = c.file_close_after
        /\ d.dispatch_suspended = c.dispatch_suspended
    BY <1>1 DEF SameBytes, Conns
  <2>5. QueueOK(d, w)
    BY <2>4, SameBytesQueue
  <2>6. FlightOK(d)
    BY <2>2, <2>4 DEF FlightOK, SameBytes
  <2>7. FileHolds(d) /\ (d.write_batch_depth # 0 => ~d.closing)
    BY <2>4 DEF FileHolds, HasFile, SameBytes, Good
  <2>8. Good(d, w)
    BY <1>1, <2>3, <2>5, <2>6, <2>7 DEF Good
  <2> QED
    BY <1>3, <2>1, <2>4, <2>8
<1> QED
  BY <1>2, <1>3

(* start_write is arm_write outside a batch.                               *)
LEMMA StartWrite ==
  ASSUME NEW c, NEW w, Good(c, w)
  PROVE  LET d == start_write(c)
         IN  /\ Good(d, w) /\ SameBytes(c, d)
             /\ \A f \in {"ws", "write_batch_depth", "closing", "close_when_drained",
                          "file_close_after", "dispatch_suspended"} : d[f] = c[f]
             /\ c.is_writing => d = c
<1>1. CASE c.write_batch_depth # 0
  BY <1>1 DEF start_write, SameBytes
<1>2. CASE c.write_batch_depth = 0
  BY <1>2, ArmWrite DEF start_write
<1> QED
  BY <1>1, <1>2

(* close_connection drops the file body and the batch, and nothing else.   *)
LEMMA CloseGood ==
  ASSUME NEW c, NEW w, Good(c, w)
  PROVE  LET d == close_connection(c)
         IN  /\ Good(d, w) /\ d.closing /\ d.write_batch_depth = 0
             /\ d.write_len = c.write_len /\ d.write_head = c.write_head
             /\ d.write_queue = c.write_queue
             /\ d.is_writing = c.is_writing /\ d.write_in_flight_len = c.write_in_flight_len
<1> DEFINE d == [c EXCEPT !.closing = TRUE, !.close_when_drained = FALSE,
                          !.dispatch_suspended = FALSE, !.write_batch_depth = 0,
                          !.file_remaining = 0]
<1>1. c \in Conns /\ w \in Nat /\ c.write_batch_depth \in {0, 1}
  BY DEF Good, Conns
<1>2. CASE c.closing
  BY <1>1, <1>2 DEF close_connection, Good
<1>3. CASE ~c.closing
  <2>1. close_connection(c) = d
    BY <1>3 DEF close_connection
  <2>2. d \in Conns
    BY <1>1 DEF Conns
  <2>3. /\ d.closing /\ d.write_batch_depth = 0 /\ d.file_remaining = 0
        /\ d.write_len = c.write_len /\ d.write_head = c.write_head
        /\ d.write_queue = c.write_queue
        /\ d.is_writing = c.is_writing /\ d.write_in_flight_len = c.write_in_flight_len
    BY <1>1 DEF Conns
  <2>4. QueueOK(d, w)
    BY <2>3 DEF Good, QueueOK
  <2>5. FlightOK(d) /\ FileHolds(d)
    BY <2>3 DEF FlightOK, FileHolds, HasFile, Good
  <2> QED
    BY <1>1, <2>1, <2>2, <2>3, <2>4, <2>5 DEF Good
<1> QED
  BY <1>2, <1>3

(* close_after_flush closes a drained connection and marks another one.    *)
LEMMA CloseAfterFlushGood ==
  ASSUME NEW c, NEW w, Good(c, w)
  PROVE  LET d == close_after_flush(c)
         IN  /\ Good(d, w)
             /\ d.write_len = c.write_len /\ d.write_head = c.write_head
             /\ d.write_queue = c.write_queue
             /\ ~d.closing => ~c.closing /\ d.file_remaining = c.file_remaining
             /\ d.write_batch_depth # 0 => c.write_batch_depth # 0
<1> DEFINE e == [c EXCEPT !.close_when_drained = TRUE]
<1>1. c \in Conns /\ w \in Nat
  BY DEF Good, Conns
<1>2. e \in Conns
  BY <1>1 DEF Conns
<1>3. /\ SameBytes(c, e) /\ e.is_writing = c.is_writing /\ e.closing = c.closing
      /\ e.write_in_flight_len = c.write_in_flight_len
      /\ e.dispatch_suspended = c.dispatch_suspended
      /\ e.write_batch_depth = c.write_batch_depth
  BY <1>1 DEF Conns, SameBytes
<1>4. Good(e, w)
  <2>1. QueueOK(e, w)
    BY <1>3, SameBytesQueue
  <2> QED
    BY <1>1, <1>2, <1>3, <2>1 DEF Good, FlightOK, FileHolds, HasFile, SameBytes
<1> HIDE DEF e
<1>5. CASE c.closing
  BY <1>5 DEF close_after_flush
<1>6. CASE ~c.closing /\ c.write_len = 0 /\ ~c.is_writing
  <2>1. close_after_flush(c) = close_connection(e)
    BY <1>6 DEF close_after_flush, e
  <2> QED
    BY <1>3, <1>4, <2>1, CloseGood DEF SameBytes
<1>7. CASE ~c.closing /\ ~(c.write_len = 0 /\ ~c.is_writing)
  <2>1. close_after_flush(c) = e
    BY <1>7 DEF close_after_flush, e
  <2> QED
    BY <1>3, <1>4, <1>7, <2>1 DEF SameBytes
<1> QED
  BY <1>5, <1>6, <1>7

(* A flush puts the next stretch on the wire and arms what it leaves.      *)
LEMMA FlushGood ==
  ASSUME NEW c, NEW w, Good(c, w), NEW n \in FlushCounts(c)
  PROVE  LET d == flush_batched(c, n)
         IN  /\ n \in 0 .. c.write_len
             /\ Good(d, w + n) /\ d.write_len = c.write_len - n
             /\ d.write_batch_depth # 0 => c.write_batch_depth # 0
             /\ ~c.close_when_drained => d.closing = c.closing
             /\ ~d.closing => /\ \A f \in {"ws", "close_when_drained", "file_remaining",
                                           "write_batch_depth", "file_close_after",
                                           "dispatch_suspended"} : d[f] = c[f]
                              /\ ~c.closing
             /\ c.is_writing => d = c /\ n = 0
<1> DEFINE e == Taken(c, n)
<1>1. c \in Conns /\ w \in Nat /\ c.write_len \in Nat /\ c.closing \in BOOLEAN
  BY DEF Good, Conns
<1>2. n \in 0 .. c.write_len /\ (c.is_writing => n = 0)
  BY <1>1 DEF FlushCounts, may_flush_directly
<1>3. CASE ~may_flush_directly(c) \/ n = 0
  <2>1. flush_batched(c, n) = arm_write(c) /\ n = 0
    BY <1>3 DEF flush_batched, FlushCounts
  <2>2. w + n = w /\ c.write_len - n = c.write_len
    BY <1>1, <2>1
  <2> QED
    BY <1>2, <2>1, <2>2, ArmWrite DEF SameBytes
<1>4. CASE may_flush_directly(c) /\ n # 0
  <2>1. ~c.is_writing /\ ~c.closing
    BY <1>4 DEF may_flush_directly
  <2>2. /\ Good(e, w + n) /\ e.write_len = c.write_len - n
        /\ \A f \in {"ws", "is_writing", "write_batch_depth", "closing", "close_when_drained",
                     "file_remaining", "file_close_after", "dispatch_suspended"} : e[f] = c[f]
    BY <1>2, <2>1, TakenGood
  <2> HIDE DEF e
  <2>3. CASE e.write_len # 0
    <3>1. flush_batched(c, n) = arm_write(e)
      BY <1>4, <2>3 DEF flush_batched, e
    <3> QED
      BY <1>2, <2>1, <2>2, <3>1, ArmWrite DEF SameBytes
  <2>4. CASE e.write_len = 0 /\ e.close_when_drained
    <3>1. flush_batched(c, n) = close_connection(e)
      BY <1>4, <2>4 DEF flush_batched, e
    <3>2. LET d == close_connection(e)
          IN  Good(d, w + n) /\ d.closing /\ d.write_batch_depth = 0 /\ d.write_len = e.write_len
      BY <2>2, CloseGood
    <3> QED
      BY <1>2, <2>1, <2>2, <2>4, <3>1, <3>2
  <2>5. CASE e.write_len = 0 /\ ~e.close_when_drained
    <3>1. flush_batched(c, n) = e
      BY <1>4, <2>5 DEF flush_batched, e
    <3> QED
      BY <1>2, <2>1, <2>2, <3>1
  <2> QED
    BY <2>3, <2>4, <2>5
<1> QED
  BY <1>3, <1>4

\* o is what may become of a frame of n bytes on connection c behind w bytes.
Outcome(c, w, n, o) ==
  /\ Follows(o.bytes, w) /\ o.ok \in BOOLEAN
  /\ Good(o.conn, w + Len(o.bytes))
  /\ Len(o.bytes) + o.conn.write_len = c.write_len + (IF o.ok THEN n ELSE 0)
  /\ \A f \in {"ws", "closing", "close_when_drained", "file_remaining", "write_batch_depth",
               "dispatch_suspended"} : o.conn[f] = c[f]
  /\ Stable(c, o.conn)

(* The rest of a direct send is queued behind what the kernel took.        *)
LEMMA RestGood ==
  ASSUME NEW c, NEW w, Good(c, w), NEW n \in 1 .. Capacity - c.write_len, NEW k \in 0 .. n,
         k # 0 => may_send_directly(c)
  PROVE  LET d == send_rest(c, w + c.write_len + 1, n, k)
         IN  /\ Good(d, w + k) /\ k + d.write_len = c.write_len + n
             /\ \A f \in {"ws", "closing", "close_when_drained", "file_remaining",
                          "write_batch_depth", "dispatch_suspended"} : d[f] = c[f]
             /\ Stable(c, d)
<1>1. /\ c \in Conns /\ w \in Nat /\ c.write_len \in 0 .. Capacity /\ c.write_head \in 0 .. Capacity - 1
      /\ k \in Nat /\ n \in Nat
  BY DEF Good, Conns, Cells
<1>2. Good(c, w + k)
  <2>1. CASE k = 0
    BY <1>1, <2>1
  <2>2. CASE k # 0
    <3>1. c.write_len = 0
      BY <2>2 DEF may_send_directly
    <3> QED
      BY <1>1, <3>1 DEF Good, QueueOK
  <2> QED
    BY <2>1, <2>2
<1>3. CASE k = n
  <2>1. k # 0 /\ c.write_len = 0 /\ ~c.is_writing
    BY <1>1, <1>3 DEF may_send_directly
  <2>2. send_rest(c, w + c.write_len + 1, n, k) = c
    BY <1>3 DEF send_rest
  <2> QED
    BY <1>1, <1>2, <1>3, <2>1, <2>2 DEF Stable
<1>4. CASE k # n
  <2> DEFINE e == append_to_ring(c, (w + k) + c.write_len + 1, n - k)
             d == start_write(e)
  <2>1. (w + c.write_len + 1) + k = (w + k) + c.write_len + 1 /\ n - k \in 1 .. Capacity - c.write_len
    BY <1>1, <1>4
  <2>2. send_rest(c, w + c.write_len + 1, n, k) = d
    BY <1>4, <2>1 DEF send_rest
  <2>3. /\ Good(e, w + k) /\ e.write_len = c.write_len + (n - k) /\ e.write_head = c.write_head
        /\ \A i \in 0 .. c.write_len - 1 :
             e.write_queue[Wrapped(c.write_head + i)] = c.write_queue[Wrapped(c.write_head + i)]
        /\ \A f \in {"ws", "is_writing", "write_in_flight_len", "write_batch_depth", "closing",
                     "close_when_drained", "file_remaining", "file_close_after",
                     "dispatch_suspended"} : e[f] = c[f]
    BY <1>2, <2>1, AppendGood
  <2> HIDE DEF e
  <2>4. /\ Good(d, w + k) /\ SameBytes(e, d)
        /\ \A f \in {"ws", "write_batch_depth", "closing", "close_when_drained",
                     "file_close_after", "dispatch_suspended"} : d[f] = e[f]
    BY <2>3, StartWrite
  <2>5. k + d.write_len = c.write_len + n
    BY <1>1, <2>3, <2>4 DEF SameBytes
  <2>6. Stable(c, d)
    <3> SUFFICES ASSUME c.is_writing
                 PROVE  /\ d.write_head = c.write_head
                        /\ \A i \in c.write_head .. c.write_head + c.write_in_flight_len - 1 :
                             d.write_queue[i] = c.write_queue[i]
      BY DEF Stable
    <3>1. d.write_head = c.write_head /\ d.write_queue = e.write_queue
      BY <2>3, <2>4 DEF SameBytes
    <3>2. ASSUME NEW i \in c.write_head .. c.write_head + c.write_in_flight_len - 1
          PROVE  e.write_queue[i] = c.write_queue[i]
      <4>1. /\ c.write_in_flight_len \in 1 .. c.write_len
            /\ c.write_head + c.write_in_flight_len <= Capacity
        BY DEF Good, FlightOK
      <4>2. i - c.write_head \in 0 .. c.write_len - 1 /\ c.write_head + (i - c.write_head) = i /\ i < Capacity
        BY <1>1, <4>1
      <4>3. Wrapped(c.write_head + (i - c.write_head)) = i
        BY <4>2 DEF Wrapped
      <4> QED
        BY <2>3, <4>2, <4>3
    <3> QED
      BY <3>1, <3>2
  <2> QED
    BY <2>2, <2>3, <2>4, <2>5, <2>6 DEF SameBytes
<1> QED
  BY <1>3, <1>4

(* A frame that finds room is sent and queued as a whole, one that finds   *)
(* none changes nothing.                                                   *)
LEMMA PlacedGood ==
  ASSUME NEW c, NEW w \in Nat, NEW s, Follows(s, w), Good(c, w + Len(s)), NEW n \in Nat \ {0},
         NEW o \in Placed(c, s, w + Len(s) + c.write_len + 1, n)
  PROVE  /\ Follows(o.bytes, w) /\ o.ok \in BOOLEAN
         /\ Good(o.conn, w + Len(o.bytes))
         /\ Len(o.bytes) + o.conn.write_len = Len(s) + c.write_len + (IF o.ok THEN n ELSE 0)
         /\ \A f \in {"ws", "closing", "close_when_drained", "file_remaining", "write_batch_depth",
                      "dispatch_suspended"} : o.conn[f] = c[f]
         /\ Stable(c, o.conn)
<1> DEFINE v == w + Len(s)
           first == v + c.write_len + 1
<1>1. /\ s \in Seq(Nat) /\ Len(s) \in Nat /\ v \in Nat /\ c \in Conns
      /\ c.write_len \in 0 .. Capacity
  BY LenProperties DEF Follows, Good, Conns
<1>a. o \in Placed(c, s, first, n) /\ Good(c, v)
  OBVIOUS
<1>b. v = w + Len(s) /\ first = v + c.write_len + 1
  OBVIOUS
<1> HIDE DEF v, first
<1>2. CASE n > Capacity - c.write_len
  <2>1. o = [conn |-> c, bytes |-> s, ok |-> FALSE]
    BY <1>a, <1>2 DEF Placed
  <2>2. o.conn = c /\ o.bytes = s /\ o.ok = FALSE
    BY <2>1
  <2>3. Len(s) + c.write_len + (IF o.ok THEN n ELSE 0) = Len(s) + c.write_len
    BY <1>1, <2>2
  <2>4. Stable(c, o.conn)
    BY <2>2 DEF Stable
  <2> QED
    BY <2>2, <2>3, <2>4
<1>3. CASE ~(n > Capacity - c.write_len)
  <2>1. PICK k \in (IF may_send_directly(c) THEN 0 .. n ELSE {0}) :
          o = [conn |-> send_rest(c, first, n, k), bytes |-> s \o Sent(first, k), ok |-> TRUE]
    BY <1>a, <1>3 DEF Placed
  <2>2. /\ o.conn = send_rest(c, first, n, k) /\ o.bytes = s \o Sent(first, k) /\ o.ok = TRUE
    BY <2>1
  <2>3. k \in 0 .. n /\ k \in Nat /\ (k # 0 => may_send_directly(c)) /\ n \in 1 .. Capacity - c.write_len
    BY <1>1, <1>3
  <2>4. /\ Good(o.conn, v + k) /\ k + o.conn.write_len = c.write_len + n
        /\ \A f \in {"ws", "closing", "close_when_drained", "file_remaining", "write_batch_depth",
                     "dispatch_suspended"} : o.conn[f] = c[f]
        /\ Stable(c, o.conn)
    BY <1>a, <1>b, <2>2, <2>3, RestGood
  <2>5. Follows(Sent(first, k), v) /\ Len(Sent(first, k)) = k
    <3>1. CASE k = 0
      <4>1. Sent(first, k) \in [1 .. k -> Nat]
        BY <1>1, <3>1 DEF Sent
      <4>2. Sent(first, k) \in Seq(Nat) /\ Len(Sent(first, k)) = k
        BY <2>3, <4>1, FunctionIsSeq
      <4> QED
        BY <3>1, <4>2 DEF Follows
    <3>2. CASE k # 0
      <4>1. first = v + 1
        BY <1>1, <1>b, <2>3, <3>2 DEF may_send_directly
      <4> QED
        BY <1>1, <2>3, <4>1, SentFollows
    <3> QED
      BY <3>1, <3>2
  <2>6. Follows(o.bytes, w) /\ Len(o.bytes) = Len(s) + k
    <3>1. Follows(Sent(first, k), w + Len(s))
      BY <1>b, <2>5
    <3>2. Follows(s \o Sent(first, k), w) /\ Len(s \o Sent(first, k)) = Len(s) + Len(Sent(first, k))
      BY <3>1, FollowsConcat
    <3> QED
      BY <2>2, <2>5, <3>2
  <2>7. w + Len(o.bytes) = v + k
    BY <1>1, <1>b, <2>3, <2>6
  <2>8. o.conn.write_len \in Nat
    BY <2>4 DEF Good, Conns
  <2>9. Len(o.bytes) + o.conn.write_len = Len(s) + c.write_len + n
    <3>1. k + o.conn.write_len = c.write_len + n
      BY <2>4
    <3>2. Len(s) \in Nat /\ c.write_len \in Nat /\ n \in Nat
      BY <1>1
    <3>3. ASSUME NEW b \in Nat, NEW d \in Nat, NEW l \in Nat, k + b = d + n
          PROVE  (l + k) + b = l + d + n
      <4>1. k \in Nat /\ n \in Nat
        BY <2>3, <3>2
      <4> QED
        BY <3>3, <4>1
    <3>4. (Len(s) + k) + o.conn.write_len = Len(s) + c.write_len + n
      BY <2>8, <3>1, <3>2, <3>3, Zenon
    <3> QED
      BY <2>6, <3>4
  <2> QED
    BY <2>2, <2>4, <2>6, <2>7, <2>9
<1> QED
  BY <1>2, <1>3

(* enqueue_plain_parts: a frame of n bytes is taken or refused as a whole, *)
(* behind everything before it, with or without a flush of the batch.      *)
LEMMA EnqueueGood ==
  ASSUME NEW c, NEW w, Good(c, w), ~c.close_when_drained, NEW n \in Nat \ {0},
         ~c.closing,
         NEW o \in enqueue_plain_parts(c, w + c.write_len + 1, n)
  PROVE  Outcome(c, w, n, o)
<1>1. c \in Conns /\ w \in Nat /\ c.write_len \in 0 .. Capacity
  BY DEF Good, Conns
<1>2. Follows(<<>>, w) /\ Len(<<>>) = 0
  BY DEF Follows
<1>3. CASE o \in Placed(c, <<>>, w + c.write_len + 1, n)
  <2>1. w + Len(<<>>) + c.write_len + 1 = w + c.write_len + 1 /\ w + Len(<<>>) = w
    BY <1>1, <1>2
  <2>2. Len(<<>>) + c.write_len + (IF o.ok THEN n ELSE 0) = c.write_len + (IF o.ok THEN n ELSE 0)
    BY <1>1, <1>2
  <2>3. o \in Placed(c, <<>>, w + Len(<<>>) + c.write_len + 1, n) /\ Good(c, w + Len(<<>>))
    BY <1>3, <2>1
  <2>4. /\ Follows(o.bytes, w) /\ o.ok \in BOOLEAN
        /\ Good(o.conn, w + Len(o.bytes))
        /\ Len(o.bytes) + o.conn.write_len = Len(<<>>) + c.write_len + (IF o.ok THEN n ELSE 0)
        /\ \A f \in {"ws", "closing", "close_when_drained", "file_remaining", "write_batch_depth",
                     "dispatch_suspended"} : o.conn[f] = c[f]
        /\ Stable(c, o.conn)
    BY <1>1, <1>2, <2>3, PlacedGood, Zenon
  <2> QED
    BY <2>2, <2>4 DEF Outcome
<1>4. CASE o \notin Placed(c, <<>>, w + c.write_len + 1, n)
  <2>1. PICK f \in FlushCounts(c) :
          o \in Placed(flush_batched(c, f), Queued(c, f), w + c.write_len + 1, n)
    BY <1>4 DEF enqueue_plain_parts
  <2> DEFINE d == flush_batched(c, f)
  <2>2. /\ f \in 0 .. c.write_len
        /\ Good(d, w + f) /\ d.write_len = c.write_len - f /\ d.closing = c.closing
        /\ \A g \in {"ws", "close_when_drained", "file_remaining", "write_batch_depth",
                     "dispatch_suspended"} : d[g] = c[g]
        /\ c.is_writing => d = c
    BY FlushGood
  <2>3. Follows(Queued(c, f), w) /\ Len(Queued(c, f)) = f
    BY <2>2, QueuedFollows
  <2> HIDE DEF d
  <2>4. w + Len(Queued(c, f)) = w + f /\ w + f + d.write_len + 1 = w + c.write_len + 1
    BY <1>1, <2>2, <2>3
  <2>5. /\ Follows(o.bytes, w) /\ o.ok \in BOOLEAN
        /\ Good(o.conn, w + Len(o.bytes))
        /\ Len(o.bytes) + o.conn.write_len = f + d.write_len + (IF o.ok THEN n ELSE 0)
        /\ \A g \in {"ws", "closing", "close_when_drained", "file_remaining", "write_batch_depth",
                     "dispatch_suspended"} : o.conn[g] = d[g]
        /\ Stable(d, o.conn)
    <3>1. o \in Placed(d, Queued(c, f), w + Len(Queued(c, f)) + d.write_len + 1, n)
      BY <2>1, <2>3, <2>4 DEF d
    <3>2. Good(d, w + Len(Queued(c, f)))
      BY <2>2, <2>4
    <3>3. /\ Follows(o.bytes, w) /\ o.ok \in BOOLEAN
          /\ Good(o.conn, w + Len(o.bytes))
          /\ Len(o.bytes) + o.conn.write_len =
               Len(Queued(c, f)) + d.write_len + (IF o.ok THEN n ELSE 0)
          /\ \A g \in {"ws", "closing", "close_when_drained", "file_remaining", "write_batch_depth",
                       "dispatch_suspended"} : o.conn[g] = d[g]
          /\ Stable(d, o.conn)
      BY <1>1, <2>3, <3>1, <3>2, PlacedGood, Zenon
    <3> QED
      BY <2>3, <3>3
  <2>6. f + d.write_len = c.write_len
    BY <1>1, <2>2
  <2>7. Stable(c, o.conn)
    BY <2>2, <2>5 DEF Stable
  <2> QED
    BY <2>2, <2>5, <2>6, <2>7 DEF Outcome
<1> QED
  BY <1>3, <1>4

-----------------------------------------------------------------------------
(* The steps.                                                              *)

(* The invariant, read as lemmas about one connection.                     *)
LEMMA InOrder ==
  ASSUME TypeOK, RingInv
  PROVE  /\ Good(conn, Len(wire)) /\ Follows(wire, 0) /\ Len(wire) \in Nat
         /\ conn.write_batch_depth # 0 => pc = "batch"
         /\ ~conn.closing => promised = Len(wire) + conn.write_len + conn.file_remaining
<1>1. wire \in Seq(Nat) /\ Len(wire) \in Nat /\ DOMAIN wire = 1 .. Len(wire)
  BY LenProperties DEF TypeOK
<1>2. Follows(wire, 0)
  BY <1>1 DEF Follows, RingInv, StreamIntact
<1>3. QueueOK(conn, Len(wire))
  BY DEF QueueOK, RingInv, StreamIntact
<1>4. ~conn.closing => promised = Len(wire) + conn.write_len + conn.file_remaining
  BY DEF RingInv, StreamIntact
<1> QED
  BY <1>1, <1>2, <1>3, <1>4 DEF Good, TypeOK, RingInv, BatchOK

(* A step that puts the next stretch on the wire and leaves a connection   *)
(* in order behind it keeps the invariant.                                 *)
LEMMA Kept ==
  ASSUME TypeOK, RingInv, NEW s, Follows(s, Len(wire)), wire' = wire \o s,
         Good(conn', Len(wire) + Len(s)),
         conn'.write_batch_depth # 0 => pc' = "batch",
         ~conn'.closing => promised' = Len(wire) + Len(s) + conn'.write_len + conn'.file_remaining,
         promised' \in Nat, waiting' \in BOOLEAN, pc' \in Places
  PROVE  TypeOK' /\ RingInv'
<1>1. Follows(wire, 0) /\ Len(wire) \in Nat
  BY InOrder
<1>2. Follows(s, 0 + Len(wire))
  BY <1>1
<1>3. Follows(wire', 0) /\ Len(wire') = Len(wire) + Len(s)
  BY <1>1, <1>2, FollowsConcat
<1>4. wire' \in Seq(Nat) /\ DOMAIN wire' = 1 .. Len(wire')
  BY <1>3, LenProperties DEF Follows
<1>5. \A i \in DOMAIN wire' : wire'[i] = i
  BY <1>3, <1>4 DEF Follows
<1>6. Good(conn', Len(wire'))
  BY <1>3
<1>7. /\ conn' \in Conns /\ FlightOK(conn)' /\ FileHolds(conn)' /\ BatchOK(conn)'
      /\ QueueOK(conn', Len(wire'))
  BY <1>6 DEF Good, FlightOK, FileHolds, HasFile, BatchOK
<1>8. \A i \in 0 .. conn'.write_len - 1 :
        conn'.write_queue[(conn'.write_head + i) % Capacity] = Len(wire') + i + 1
  BY <1>7 DEF QueueOK
<1>9. ~conn'.closing => promised' = Len(wire') + conn'.write_len + conn'.file_remaining
  BY <1>3
<1> QED
  BY <1>4, <1>5, <1>7, <1>8, <1>9 DEF TypeOK, RingInv, StreamIntact

(* The same for a step that puts nothing on the wire.                      *)
LEMMA KeptQuietly ==
  ASSUME TypeOK, RingInv, wire' = wire, Good(conn', Len(wire)),
         conn'.write_batch_depth # 0 => pc' = "batch",
         ~conn'.closing => promised' = Len(wire) + conn'.write_len + conn'.file_remaining,
         promised' \in Nat, waiting' \in BOOLEAN, pc' \in Places
  PROVE  TypeOK' /\ RingInv'
<1>1. /\ conn' \in Conns /\ FlightOK(conn)' /\ FileHolds(conn)' /\ BatchOK(conn)'
      /\ QueueOK(conn', Len(wire'))
  BY DEF Good, FlightOK, FileHolds, HasFile, BatchOK
<1>2. \A i \in 0 .. conn'.write_len - 1 :
        conn'.write_queue[(conn'.write_head + i) % Capacity] = Len(wire') + i + 1
  BY <1>1 DEF QueueOK
<1>3. wire' \in Seq(Nat) /\ \A i \in DOMAIN wire' : wire'[i] = i
  BY DEF TypeOK, RingInv, StreamIntact
<1> QED
  BY <1>1, <1>2, <1>3 DEF TypeOK, RingInv, StreamIntact

(* Send.                                                                   *)
LEMMA SendKeeps ==
  ASSUME TypeOK, RingInv, NEW n \in FrameSizes, Send(n)
  PROVE  TypeOK' /\ RingInv' /\ Stable(conn, conn')
<1>1. /\ Good(conn, Len(wire)) /\ Len(wire) \in Nat
      /\ conn.write_batch_depth # 0 => pc = "batch"
      /\ ~conn.closing => promised = Len(wire) + conn.write_len + conn.file_remaining
  BY InOrder
<1>2. ~conn.closing /\ ~conn.close_when_drained /\ ~conn.dispatch_suspended /\ pc' = pc
  BY DEF Send, MayWrite
<1>3. conn.write_len \in Nat /\ conn.file_remaining = 0 /\ n \in Nat \ {0}
  BY <1>1, <1>2 DEF Good, Conns, FileHolds, HasFile
<1>4. promised = Len(wire) + conn.write_len /\ promised + 1 = Len(wire) + conn.write_len + 1
  BY <1>1, <1>2, <1>3
<1>5. PICK o \in enqueue_plain_parts(conn, promised + 1, n) :
        /\ conn' = o.conn /\ wire' = wire \o o.bytes
        /\ promised' = (IF o.ok THEN promised + n ELSE promised)
        /\ waiting' = (waiting \/ (~o.ok /\ conn.ws))
  BY DEF Send
<1>6. o \in enqueue_plain_parts(conn, Len(wire) + conn.write_len + 1, n)
  BY <1>4, <1>5
<1>7. Outcome(conn, Len(wire), n, o)
  BY <1>1, <1>2, <1>3, <1>6, EnqueueGood, Zenon
<1>8. /\ Follows(o.bytes, Len(wire)) /\ o.ok \in BOOLEAN
      /\ Good(conn', Len(wire) + Len(o.bytes))
      /\ Len(o.bytes) + conn'.write_len = conn.write_len + (IF o.ok THEN n ELSE 0)
      /\ conn'.file_remaining = conn.file_remaining
      /\ conn'.write_batch_depth = conn.write_batch_depth
      /\ Stable(conn, conn')
  BY <1>5, <1>7 DEF Outcome
<1>9. Len(o.bytes) \in Nat /\ conn'.write_len \in Nat
  BY <1>8, LenProperties DEF Follows, Good, Conns
<1>10. promised' \in Nat /\ promised' = Len(wire) + Len(o.bytes) + conn'.write_len + conn'.file_remaining
  <2>1. PICK g \in Nat : g = (IF o.ok THEN n ELSE 0)
    BY <1>3
  <2>2. promised' = Len(wire) + conn.write_len + g /\ Len(o.bytes) + conn'.write_len = conn.write_len + g
    BY <1>1, <1>3, <1>4, <1>5, <1>8, <2>1
  <2>4. Len(wire) + conn.write_len + g = Len(wire) + Len(o.bytes) + conn'.write_len + 0
    <3>1. Len(wire) \in Nat /\ conn.write_len \in Nat
      BY <1>1, <1>3
    <3>2. PICK a \in Nat, x \in Nat : a = Len(wire) /\ x = conn.write_len
      BY <3>1
    <3>3. PICK l \in Nat, d \in Nat : l = Len(o.bytes) /\ d = conn'.write_len
      BY <1>9
    <3>4. l + d = x + g
      BY <2>2, <3>2, <3>3
    <3>5. a + x + g = a + l + d + 0
      BY <3>4
    <3> QED
      BY <3>2, <3>3, <3>5
  <2> QED
    BY <1>1, <1>3, <1>8, <1>9, <2>2, <2>4, SMTT(30)
<1>11. waiting' \in BOOLEAN /\ pc' \in Places
  BY <1>2, <1>5 DEF TypeOK
<1>12. TypeOK' /\ RingInv'
  BY <1>1, <1>2, <1>5, <1>8, <1>10, <1>11, Kept
<1> QED
  BY <1>8, <1>12

(* CloseAfterFlush, Close, ReadBegins and ReadReturns.                     *)
LEMMA QuietKeeps ==
  ASSUME TypeOK, RingInv, CloseAfterFlush \/ Close \/ ReadBegins \/ ReadReturns
  PROVE  TypeOK' /\ RingInv' /\ Stable(conn, conn')
<1>1. /\ Good(conn, Len(wire)) /\ Len(wire) \in Nat
      /\ conn.write_batch_depth # 0 => pc = "batch"
      /\ ~conn.closing => promised = Len(wire) + conn.write_len + conn.file_remaining
  BY InOrder
<1>2. wire' = wire /\ promised' = promised /\ waiting' = waiting
  BY DEF CloseAfterFlush, Close, ReadBegins, ReadReturns
<1>3. promised' \in Nat /\ waiting' \in BOOLEAN
  BY <1>2 DEF TypeOK
<1>4. pc' \in Places /\ (pc = "batch" => pc' = "batch")
  BY DEF CloseAfterFlush, Close, ReadBegins, ReadReturns, TypeOK, Places
<1>5. /\ Good(conn', Len(wire)) /\ conn'.write_queue = conn.write_queue
      /\ conn'.write_head = conn.write_head /\ conn'.write_len = conn.write_len
      /\ conn'.write_batch_depth # 0 => conn.write_batch_depth # 0
      /\ ~conn'.closing => ~conn.closing /\ conn'.file_remaining = conn.file_remaining
  <2>1. CASE CloseAfterFlush
    BY <1>1, <2>1, CloseAfterFlushGood DEF CloseAfterFlush
  <2>2. CASE Close
    BY <1>1, <2>2, CloseGood DEF Close
  <2>3. CASE ReadBegins \/ ReadReturns
    BY <1>1, <2>3 DEF ReadBegins, ReadReturns
  <2> QED
    BY <2>1, <2>2, <2>3
<1>6. Stable(conn, conn')
  BY <1>5 DEF Stable
<1>7. ~conn'.closing => promised' = Len(wire) + conn'.write_len + conn'.file_remaining
  BY <1>1, <1>2, <1>5
<1> QED
  BY <1>1, <1>2, <1>3, <1>4, <1>5, <1>6, <1>7, KeptQuietly

(* begin_write_batch.                                                      *)
LEMMA BeginBatchKeeps ==
  ASSUME TypeOK, RingInv, begin_write_batch
  PROVE  TypeOK' /\ RingInv' /\ Stable(conn, conn')
<1>1. /\ Good(conn, Len(wire)) /\ Len(wire) \in Nat
      /\ conn.write_batch_depth # 0 => pc = "batch"
      /\ ~conn.closing => promised = Len(wire) + conn.write_len + conn.file_remaining
  BY InOrder
<1>2. /\ wire' = wire /\ promised' = promised /\ waiting' = waiting /\ pc' = "batch" /\ pc # "batch"
      /\ ~conn.closing /\ conn' = [conn EXCEPT !.write_batch_depth = @ + 1]
  BY DEF begin_write_batch
<1>3. conn.write_batch_depth = 0 /\ conn \in Conns
  BY <1>1, <1>2 DEF Good, Conns
<1>4. /\ SameBytes(conn, conn') /\ conn' \in Conns /\ conn'.write_batch_depth = 1
      /\ \A f \in {"is_writing", "write_in_flight_len", "closing", "dispatch_suspended"} :
           conn'[f] = conn[f]
  BY <1>2, <1>3 DEF SameBytes, Conns
<1>5. Good(conn', Len(wire))
  <2>1. QueueOK(conn', Len(wire))
    BY <1>1, <1>4, SameBytesQueue
  <2> QED
    BY <1>1, <1>2, <1>4, <2>1 DEF Good, FlightOK, FileHolds, HasFile, SameBytes
<1>6. Stable(conn, conn')
  BY <1>4 DEF Stable, SameBytes
<1>7. pc' \in Places /\ promised' \in Nat /\ waiting' \in BOOLEAN
  BY <1>2 DEF Places, TypeOK
<1>8. ~conn'.closing => promised' = Len(wire) + conn'.write_len + conn'.file_remaining
  BY <1>1, <1>2, <1>4 DEF SameBytes
<1> QED
  BY <1>2, <1>5, <1>6, <1>7, <1>8, KeptQuietly

(* settle_backpressure changes nothing but its flag.                       *)
LEMMA SettledGood ==
  ASSUME NEW c, NEW w, Good(c, w)
  PROVE  /\ Good(Settled(c), w) /\ SameBytes(c, Settled(c))
         /\ \A f \in {"is_writing", "write_in_flight_len", "closing", "write_batch_depth"} :
              Settled(c)[f] = c[f]
<1>1. c \in Conns
  BY DEF Good
<1>2. /\ Settled(c) \in Conns /\ SameBytes(c, Settled(c))
      /\ \A f \in {"is_writing", "write_in_flight_len", "closing", "write_batch_depth",
                   "dispatch_suspended"} : Settled(c)[f] = c[f]
  BY <1>1 DEF Settled, SameBytes, Conns
<1>3. QueueOK(Settled(c), w)
  BY <1>2, SameBytesQueue
<1> QED
  BY <1>2, <1>3 DEF Good, FlightOK, FileHolds, HasFile, SameBytes

(* WriteFails: the slice is given up and the connection closed.            *)
LEMMA WriteFailsKeeps ==
  ASSUME TypeOK, RingInv, WriteFails
  PROVE  TypeOK' /\ RingInv' /\ Stable(conn, conn')
<1> DEFINE c == [conn EXCEPT !.is_writing = FALSE]
           d == [conn EXCEPT !.is_writing = FALSE, !.write_in_flight_len = 0]
<1>1. Good(conn, Len(wire)) /\ Len(wire) \in Nat /\ conn \in Conns
  BY InOrder DEF Good
<1>2. /\ wire' = wire /\ promised' = promised /\ waiting' = waiting /\ pc' = pc
      /\ conn' = IF conn.closing THEN d ELSE close_connection(c)
  BY DEF WriteFails
<1>3. promised' \in Nat /\ waiting' \in BOOLEAN /\ pc' \in Places
  BY <1>2 DEF TypeOK
<1>4. /\ c \in Conns /\ d \in Conns /\ SameBytes(conn, c) /\ SameBytes(conn, d)
      /\ ~c.is_writing /\ ~d.is_writing
      /\ \A f \in {"closing", "write_batch_depth", "dispatch_suspended"} :
           c[f] = conn[f] /\ d[f] = conn[f]
  <2>1. 0 \in 0 .. Capacity
    OBVIOUS
  <2>2. c \in Conns
    BY <1>1 DEF Conns
  <2>3. d \in Conns
    BY <1>1, <2>1 DEF Conns
  <2>4. SameBytes(conn, c) /\ SameBytes(conn, d) /\ ~c.is_writing /\ ~d.is_writing
    BY <1>1 DEF Conns, SameBytes
  <2> QED
    BY <1>1, <2>2, <2>3, <2>4 DEF Conns
<1> HIDE DEF c, d
<1>5. QueueOK(c, Len(wire)) /\ QueueOK(d, Len(wire))
  BY <1>1, <1>4, SameBytesQueue
<1>6. Good(c, Len(wire)) /\ Good(d, Len(wire))
  BY <1>1, <1>4, <1>5 DEF Good, FlightOK, FileHolds, HasFile, SameBytes
<1>7. Good(conn', Len(wire)) /\ conn'.closing /\ conn'.write_batch_depth = 0 /\ ~conn'.is_writing
  <2>1. CASE conn.closing
    <3>1. conn.write_batch_depth = 0
      BY <1>1, <2>1 DEF Good
    <3> QED
      BY <1>2, <1>4, <1>6, <2>1, <3>1
  <2>2. CASE ~conn.closing
    <3>1. conn' = close_connection(c)
      BY <1>2, <2>2
    <3> QED
      BY <1>4, <1>6, <3>1, CloseGood
  <2> QED
    BY <2>1, <2>2
<1>8. Stable(conn, conn')
  BY <1>7 DEF Stable
<1> QED
  BY <1>2, <1>3, <1>7, <1>8, KeptQuietly

(* WriteCompletes: the written part of the slice is the next stretch.      *)
LEMMA WriteCompletesKeeps ==
  ASSUME TypeOK, RingInv, WriteCompletes
  PROVE  TypeOK' /\ RingInv' /\ Stable(conn, conn')
<1> DEFINE e == [conn EXCEPT !.is_writing = FALSE, !.write_in_flight_len = 0]
           w == Len(wire)
<1>1. /\ Good(conn, w) /\ w \in Nat /\ conn \in Conns
      /\ conn.write_batch_depth # 0 => pc = "batch"
      /\ ~conn.closing => promised = w + conn.write_len + conn.file_remaining
  BY InOrder DEF Good
<1>2. PICK n \in 1 .. conn.write_in_flight_len :
        LET c == [Taken(conn, n) EXCEPT !.is_writing = FALSE, !.write_in_flight_len = 0]
        IN  /\ conn' = Settled(c)
            /\ wire' = wire \o Queued(conn, n)
            /\ waiting' = (waiting /\ ~Notifies(c))
            /\ pc' = IF Notifies(c) THEN "drain" ELSE "finish"
  BY DEF WriteCompletes
<1>3. pc = "loop" /\ conn.is_writing /\ ~conn.closing /\ promised' = promised
  BY DEF WriteCompletes
<1>4. conn.write_batch_depth = 0 /\ n \in 0 .. conn.write_len /\ n \in Nat
  BY <1>1, <1>3 DEF Good, FlightOK, Conns
<1>5. /\ e \in Conns /\ SameBytes(conn, e) /\ ~e.is_writing /\ e.write_len = conn.write_len
      /\ \A f \in {"closing", "write_batch_depth", "dispatch_suspended", "file_remaining"} : e[f] = conn[f]
  <2>1. 0 \in 0 .. Capacity
    OBVIOUS
  <2>2. e \in Conns
    BY <1>1, <2>1 DEF Conns
  <2>3. SameBytes(conn, e) /\ ~e.is_writing /\ e.write_len = conn.write_len
    BY <1>1 DEF Conns, SameBytes
  <2> QED
    BY <1>1, <2>2, <2>3 DEF Conns
<1>6. Taken(e, n) = [Taken(conn, n) EXCEPT !.is_writing = FALSE, !.write_in_flight_len = 0]
  BY <1>1 DEF Taken, Conns
<1> HIDE DEF e
<1>7. Good(e, w)
  <2>1. QueueOK(e, w)
    BY <1>1, <1>5, SameBytesQueue
  <2> QED
    BY <1>1, <1>5, <2>1 DEF Good, FlightOK, FileHolds, HasFile, SameBytes
<1>8. /\ Good(Taken(e, n), w + n) /\ Taken(e, n).write_len = conn.write_len - n
      /\ Taken(e, n).is_writing = e.is_writing /\ Taken(e, n).write_batch_depth = e.write_batch_depth
      /\ Taken(e, n).closing = e.closing /\ Taken(e, n).file_remaining = e.file_remaining
  BY <1>4, <1>5, <1>7, TakenGood
<1>9. /\ Good(conn', w + n) /\ conn'.write_len = conn.write_len - n
      /\ conn'.file_remaining = conn.file_remaining
      /\ ~conn'.is_writing /\ conn'.write_batch_depth = 0
  <2>1. conn' = Settled(Taken(e, n))
    BY <1>2, <1>6
  <2>2. /\ Good(conn', w + n) /\ SameBytes(Taken(e, n), conn')
        /\ conn'.is_writing = Taken(e, n).is_writing
        /\ conn'.write_batch_depth = Taken(e, n).write_batch_depth
    BY <1>8, <2>1, SettledGood
  <2> QED
    BY <1>4, <1>5, <1>8, <2>2 DEF SameBytes
<1>10. Follows(Queued(conn, n), w) /\ Len(Queued(conn, n)) = n
  BY <1>1, <1>4, QueuedFollows
<1>11. promised' = w + Len(Queued(conn, n)) + conn'.write_len + conn'.file_remaining
  <2>1. conn.write_len \in Nat /\ conn.file_remaining \in Nat
    BY <1>1 DEF Conns
  <2>2. PICK a \in Nat, l \in Nat, r \in Nat : a = w /\ l = conn.write_len /\ r = conn.file_remaining
    BY <1>1, <2>1
  <2>3. a + l + r = a + n + (l - n) + r
    BY <1>4
  <2> QED
    BY <1>1, <1>3, <1>9, <1>10, <2>2, <2>3
<1>12. promised' \in Nat /\ waiting' \in BOOLEAN /\ pc' \in Places
  BY <1>2, <1>3 DEF TypeOK, Places
<1>13. Stable(conn, conn')
  BY <1>9 DEF Stable
<1>14. Good(conn', w + Len(Queued(conn, n))) /\ wire' = wire \o Queued(conn, n)
  BY <1>2, <1>9, <1>10
<1> QED
  BY <1>9, <1>10, <1>11, <1>12, <1>13, <1>14, Kept

(* CompletionEnds and ResumeReturns.                                       *)
LEMMA ReturnKeeps ==
  ASSUME TypeOK, RingInv, CompletionEnds \/ ResumeReturns
  PROVE  TypeOK' /\ RingInv' /\ Stable(conn, conn')
<1>1. /\ Good(conn, Len(wire)) /\ Len(wire) \in Nat
      /\ conn.write_batch_depth # 0 => pc = "batch"
      /\ ~conn.closing => promised = Len(wire) + conn.write_len + conn.file_remaining
  BY InOrder
<1>2. /\ wire' = wire /\ promised' = promised /\ waiting' = waiting /\ pc' = "loop" /\ pc # "batch"
      /\ conn' = close_connection(conn) \/ conn' = start_write(conn)
  BY DEF CompletionEnds, ResumeReturns
<1>3. promised' \in Nat /\ waiting' \in BOOLEAN /\ pc' \in Places
  BY <1>2 DEF TypeOK, Places
<1>4. /\ Good(conn', Len(wire)) /\ conn'.write_batch_depth = 0
      /\ conn'.write_head = conn.write_head /\ conn'.write_queue = conn.write_queue
      /\ ~conn'.closing => /\ ~conn.closing /\ conn'.write_len = conn.write_len
                           /\ conn'.file_remaining = conn.file_remaining
  <2>1. CASE conn' = close_connection(conn)
    BY <1>1, <2>1, CloseGood
  <2>2. CASE conn' = start_write(conn)
    BY <1>1, <1>2, <2>2, StartWrite DEF SameBytes
  <2> QED
    BY <1>2, <2>1, <2>2
<1>5. Stable(conn, conn')
  BY <1>4 DEF Stable
<1>6. ~conn'.closing => promised' = Len(wire) + conn'.write_len + conn'.file_remaining
  BY <1>1, <1>2, <1>4
<1> QED
  BY <1>2, <1>3, <1>4, <1>5, <1>6, KeptQuietly

(* end_write_batch: the flush after the last frame.                        *)
LEMMA EndBatchKeeps ==
  ASSUME TypeOK, RingInv, end_write_batch
  PROVE  TypeOK' /\ RingInv' /\ Stable(conn, conn')
<1> DEFINE w == Len(wire)
           e == [conn EXCEPT !.write_batch_depth = @ - 1]
<1>1. /\ Good(conn, w) /\ w \in Nat /\ conn \in Conns
      /\ ~conn.closing => promised = w + conn.write_len + conn.file_remaining
  BY InOrder DEF Good
<1>2. pc = "batch" /\ promised' = promised /\ promised' \in Nat
  BY DEF end_write_batch, TypeOK
<1>3. CASE conn.write_batch_depth = 0
  <2>1. pc' = "loop" /\ conn' = conn /\ wire' = wire /\ waiting' = waiting
    BY <1>3 DEF end_write_batch
  <2>2. pc' \in Places /\ waiting' \in BOOLEAN /\ Stable(conn, conn')
    BY <2>1 DEF Places, TypeOK, Stable
  <2> QED
    BY <1>1, <1>2, <1>3, <2>1, <2>2, KeptQuietly
<1>4. CASE conn.write_batch_depth # 0
  <2>1. PICK f \in FlushCounts(conn) :
          LET c == flush_batched(e, f)
          IN  /\ conn' = IF c.closing THEN c ELSE Settled(c)
              /\ wire' = wire \o Queued(conn, f)
              /\ waiting' = (waiting /\ (c.closing \/ ~Notifies(c)))
              /\ pc' = IF ~c.closing /\ Notifies(c) THEN "settled" ELSE "loop"
    BY <1>4 DEF end_write_batch
  <2>2. /\ e \in Conns /\ SameBytes(conn, e) /\ e.write_batch_depth = 0
        /\ \A g \in {"is_writing", "write_in_flight_len", "closing", "dispatch_suspended",
                     "file_remaining"} : e[g] = conn[g]
    <3>1. conn.write_batch_depth = 1 /\ conn.write_batch_depth - 1 = 0
      BY <1>1, <1>4 DEF Conns
    <3>2. e \in Conns
      BY <1>1, <3>1 DEF Conns
    <3>3. e.write_batch_depth = 0 /\ SameBytes(conn, e)
      BY <1>1, <3>1 DEF Conns, SameBytes
    <3> QED
      BY <1>1, <3>2, <3>3 DEF Conns
  <2> HIDE DEF e
  <2>3. Good(e, w)
    <3>1. QueueOK(e, w)
      BY <1>1, <2>2, SameBytesQueue
    <3> QED
      BY <1>1, <2>2, <3>1 DEF Good, FlightOK, FileHolds, HasFile, SameBytes
  <2>4. f \in FlushCounts(e)
    BY <2>1, <2>2 DEF FlushCounts, may_flush_directly, HasFile, SameBytes
  <2> DEFINE c == flush_batched(e, f)
  <2>5. /\ f \in 0 .. e.write_len
        /\ Good(c, w + f) /\ c.write_len = e.write_len - f
        /\ c.write_batch_depth # 0 => e.write_batch_depth # 0
        /\ ~c.closing => c.file_remaining = e.file_remaining /\ ~e.closing
        /\ e.is_writing => c = e
    BY <2>3, <2>4, FlushGood
  <2>6. /\ conn' = IF c.closing THEN c ELSE Settled(c)
        /\ wire' = wire \o Queued(conn, f)
        /\ waiting' \in BOOLEAN /\ pc' \in Places
    BY <2>1 DEF TypeOK, Places
  <2> HIDE DEF c
  <2>7. /\ Good(conn', w + f) /\ SameBytes(c, conn') /\ conn'.closing = c.closing
        /\ conn'.write_batch_depth = c.write_batch_depth
    <3>1. CASE c.closing
      BY <2>5, <2>6, <3>1 DEF SameBytes
    <3>2. CASE ~c.closing
      BY <2>5, <2>6, <3>2, SettledGood
    <3> QED
      BY <3>1, <3>2
  <2>8. f \in 0 .. conn.write_len /\ f \in Nat /\ conn'.write_len = conn.write_len - f
    BY <1>1, <2>2, <2>5, <2>7 DEF SameBytes, Conns
  <2>9. Follows(Queued(conn, f), w) /\ Len(Queued(conn, f)) = f
    BY <1>1, <2>8, QueuedFollows
  <2>10. ~conn'.closing => promised' = w + Len(Queued(conn, f)) + conn'.write_len + conn'.file_remaining
    <3> SUFFICES ASSUME ~conn'.closing
                 PROVE  promised' = w + f + (conn.write_len - f) + conn.file_remaining
      BY <2>2, <2>5, <2>7, <2>8, <2>9 DEF SameBytes
    <3>1. promised' = w + conn.write_len + conn.file_remaining
      BY <1>1, <1>2, <2>2, <2>5, <2>7
    <3>2. conn.write_len \in Nat /\ conn.file_remaining \in Nat
      BY <1>1 DEF Conns
    <3>3. PICK a \in Nat, l \in Nat, r \in Nat : a = w /\ l = conn.write_len /\ r = conn.file_remaining
      BY <1>1, <3>2
    <3>4. a + l + r = a + f + (l - f) + r
      BY <2>8
    <3> QED
      BY <3>1, <3>3, <3>4
  <2>11. Stable(conn, conn')
    BY <2>2, <2>5, <2>7 DEF Stable, SameBytes
  <2>12. conn'.write_batch_depth = 0
    BY <2>2, <2>5, <2>7
  <2>13. Good(conn', w + Len(Queued(conn, f)))
    BY <2>7, <2>9
  <2> QED
    BY <1>2, <2>6, <2>9, <2>10, <2>11, <2>12, <2>13, Kept
<1> QED
  BY <1>3, <1>4

(* An empty ring is in order behind any number of bytes.                   *)
LEMMA EmptyGood ==
  ASSUME NEW c, NEW w, Good(c, w), c.write_len = 0, NEW v \in Nat
  PROVE  Good(c, v)
BY DEF Good, QueueOK

(* PumpFails: a part of the file is on the wire, the rest is dropped.      *)
LEMMA PumpFailsKeeps ==
  ASSUME TypeOK, RingInv, PumpFails
  PROVE  TypeOK' /\ RingInv' /\ Stable(conn, conn')
<1> DEFINE w == Len(wire)
<1>1. /\ Good(conn, w) /\ w \in Nat /\ conn \in Conns
      /\ ~conn.closing => promised = w + conn.write_len + conn.file_remaining
  BY InOrder DEF Good
<1>2. ~conn.closing /\ ~conn.is_writing /\ conn.write_len = 0
  BY DEF PumpFails, Pumps
<1>3. PICK k \in 0 .. conn.file_remaining : wire' = wire \o Sent(FileByte, k)
  BY DEF PumpFails
<1>4. /\ conn' = close_connection(conn) /\ pc' = "loop" /\ promised' = promised /\ waiting' = waiting
      /\ promised' \in Nat /\ waiting' \in BOOLEAN /\ pc' \in Places
  BY DEF PumpFails, TypeOK, Places
<1>5. conn.file_remaining \in Nat /\ k \in Nat
  BY <1>1 DEF Conns
<1>6. FileByte = w + 1
  BY <1>1, <1>2, <1>5 DEF FileByte
<1>7. Follows(Sent(FileByte, k), w) /\ Len(Sent(FileByte, k)) = k
  BY <1>1, <1>5, <1>6, SentFollows
<1>8. Good(conn, w + k)
  <2>1. w + k \in Nat
    BY <1>1, <1>5
  <2> QED
    BY <1>1, <1>2, <2>1, EmptyGood
<1>9. Good(conn', w + Len(Sent(FileByte, k))) /\ conn'.closing /\ conn'.write_batch_depth = 0
  BY <1>4, <1>7, <1>8, CloseGood
<1>10. Stable(conn, conn')
  BY <1>2 DEF Stable
<1> QED
  BY <1>3, <1>4, <1>7, <1>9, <1>10, Kept

(* A change of a connection's flags and of what it owes leaves it in order *)
(* where the new flags are consistent.                                     *)
LEMMA FlagsGood ==
  ASSUME NEW c, NEW w, Good(c, w), NEW d \in Conns,
         \A f \in {"write_queue", "write_head", "write_len", "is_writing", "write_in_flight_len",
                   "write_batch_depth", "closing"} : d[f] = c[f],
         FileHolds(d)
  PROVE  Good(d, w)
BY DEF Good, QueueOK, FlightOK

(* begin_file_response: the head behind the stream, the body behind it.    *)
LEMMA FileResponseKeeps ==
  ASSUME TypeOK, RingInv, NEW n \in FrameSizes, NEW length \in FileLengths,
         NEW close_after \in BOOLEAN, begin_file_response(n, length, close_after)
  PROVE  TypeOK' /\ RingInv' /\ Stable(conn, conn')
<1> DEFINE w == Len(wire)
           owned == [conn EXCEPT !.file_remaining = length, !.file_close_after = close_after,
                                 !.dispatch_suspended = TRUE]
<1>1. /\ Good(conn, w) /\ w \in Nat /\ conn \in Conns
      /\ conn.write_batch_depth # 0 => pc = "batch"
      /\ ~conn.closing => promised = w + conn.write_len + conn.file_remaining
  BY InOrder DEF Good
<1>2. ~conn.closing /\ ~conn.close_when_drained /\ ~HasFile(conn) /\ pc' = pc /\ waiting' = waiting
  BY DEF begin_file_response, MayWrite
<1>3. /\ conn.write_len \in Nat /\ conn.file_remaining = 0
      /\ n \in Nat \ {0} /\ length \in Nat \ {0} /\ n \in Nat /\ length \in Nat
  BY <1>1, <1>2 DEF Conns, HasFile
<1>4. promised = w + conn.write_len /\ promised + 1 = w + conn.write_len + 1
  BY <1>1, <1>2, <1>3
<1>5. PICK o \in enqueue_plain_parts(owned, promised + 1, n) :
        /\ conn' = IF o.ok THEN o.conn
                   ELSE [o.conn EXCEPT !.file_remaining = 0, !.file_close_after = FALSE,
                                       !.dispatch_suspended = FALSE]
        /\ wire' = wire \o o.bytes
        /\ promised' = IF o.ok THEN promised + n + length ELSE promised
  BY DEF begin_file_response
<1>6. /\ owned \in Conns /\ owned.file_remaining = length /\ owned.dispatch_suspended
      /\ \A f \in {"write_queue", "write_head", "write_len", "is_writing", "write_in_flight_len",
                   "write_batch_depth", "closing", "close_when_drained"} : owned[f] = conn[f]
  <2>1. owned \in Conns
    BY <1>1, <1>3 DEF Conns
  <2>2. owned.file_remaining = length /\ owned.dispatch_suspended
    BY <1>1 DEF Conns
  <2> QED
    BY <1>1, <2>1, <2>2 DEF Conns
<1> HIDE DEF owned
<1>7. Good(owned, w)
  <2>1. FileHolds(owned)
    BY <1>2, <1>6 DEF FileHolds
  <2> QED
    BY <1>1, <1>6, <2>1, FlagsGood
<1>8. Outcome(owned, w, n, o)
  <2>1. o \in enqueue_plain_parts(owned, w + owned.write_len + 1, n)
    BY <1>4, <1>5, <1>6
  <2>2. ~owned.closing /\ ~owned.close_when_drained
    BY <1>2, <1>6
  <2> QED
    BY <1>3, <1>7, <2>1, <2>2, EnqueueGood, Zenon
<1>9. /\ Follows(o.bytes, w) /\ o.ok \in BOOLEAN
      /\ Good(o.conn, w + Len(o.bytes)) /\ o.conn \in Conns
      /\ Len(o.bytes) + o.conn.write_len = conn.write_len + (IF o.ok THEN n ELSE 0)
      /\ o.conn.file_remaining = length
      /\ o.conn.write_batch_depth = conn.write_batch_depth
      /\ Stable(conn, o.conn)
  <2>1. Stable(owned, o.conn) => Stable(conn, o.conn)
    BY <1>6 DEF Stable
  <2> QED
    BY <1>6, <1>8, <2>1 DEF Outcome, Good
<1>10. Len(o.bytes) \in Nat /\ o.conn.write_len \in Nat
  BY <1>9, LenProperties DEF Follows, Conns
<1>11. waiting' \in BOOLEAN /\ pc' \in Places
  BY <1>2 DEF TypeOK
<1>12. PICK a \in Nat, x \in Nat, l \in Nat, d \in Nat :
         a = w /\ x = conn.write_len /\ l = Len(o.bytes) /\ d = o.conn.write_len
  BY <1>1, <1>3, <1>10
<1>13. CASE o.ok
  <2>1. conn' = o.conn /\ promised' = promised + n + length
    BY <1>5, <1>13
  <2>2. l + d = x + n
    BY <1>9, <1>12, <1>13
  <2>3. a + x + n + length = a + l + d + length /\ a + x + n + length \in Nat
    BY <1>3, <2>2
  <2>4. promised' = w + Len(o.bytes) + conn'.write_len + conn'.file_remaining /\ promised' \in Nat
    BY <1>4, <1>9, <1>12, <2>1, <2>3
  <2>5. Good(conn', w + Len(o.bytes)) /\ (conn'.write_batch_depth # 0 => pc' = "batch") /\ Stable(conn, conn')
    BY <1>1, <1>2, <1>9, <2>1
  <2> QED
    BY <1>5, <1>9, <1>11, <2>4, <2>5, Kept
<1>14. CASE ~o.ok
  <2>1. /\ conn' = [o.conn EXCEPT !.file_remaining = 0, !.file_close_after = FALSE,
                                  !.dispatch_suspended = FALSE]
        /\ promised' = promised
    BY <1>5, <1>14
  <2>2. /\ conn' \in Conns /\ conn'.file_remaining = 0
        /\ \A f \in {"write_queue", "write_head", "write_len", "is_writing", "write_in_flight_len",
                     "write_batch_depth", "closing"} : conn'[f] = o.conn[f]
    <3>1. conn' \in Conns
      BY <1>9, <2>1 DEF Conns
    <3>2. conn'.file_remaining = 0
      BY <1>9, <2>1 DEF Conns
    <3> QED
      BY <1>9, <2>1, <3>1, <3>2 DEF Conns
  <2>3. Good(conn', w + Len(o.bytes))
    <3>1. FileHolds(conn')
      BY <2>2 DEF FileHolds, HasFile
    <3> QED
      BY <1>9, <2>2, <3>1, FlagsGood
  <2>4. l + d = x
    BY <1>9, <1>12, <1>14
  <2>5. a + x = a + l + d + 0 /\ a + x \in Nat
    BY <2>4
  <2>6. promised' = w + Len(o.bytes) + conn'.write_len + conn'.file_remaining /\ promised' \in Nat
    BY <1>4, <1>12, <2>1, <2>2, <2>5
  <2>7. (conn'.write_batch_depth # 0 => pc' = "batch") /\ Stable(conn, conn')
    BY <1>1, <1>2, <1>9, <2>2 DEF Stable
  <2> QED
    BY <1>5, <1>9, <1>11, <2>3, <2>6, <2>7, Kept
<1> QED
  BY <1>9, <1>13, <1>14

(* Release: the ring of the next connection starts empty.                  *)
LEMMA ReleaseKeeps ==
  ASSUME TypeOK, RingInv, Release
  PROVE  TypeOK' /\ RingInv' /\ Stable(conn, conn')
<1>1. conn \in Conns /\ pc \in Places /\ pc' = pc
  BY DEF TypeOK, Release
<1>2. PICK ws \in BOOLEAN : conn' = Fresh(conn.write_queue, ws)
  BY DEF Release
<1>3. wire' = <<>> /\ promised' = 0 /\ waiting' = FALSE /\ ~conn.is_writing
  BY DEF Release
<1>4. conn' \in Conns
  <2>1. 0 \in 0 .. Capacity /\ 0 \in Cells /\ 0 \in {0, 1} /\ 0 \in Nat /\ conn.write_queue \in [Cells -> Nat]
    BY <1>1 DEF Cells, Conns
  <2> QED
    BY <1>2, <2>1 DEF Fresh, Conns
<1>5. /\ conn'.write_len = 0 /\ conn'.file_remaining = 0 /\ ~conn'.is_writing
      /\ conn'.write_batch_depth = 0
  BY <1>2 DEF Fresh
<1>6. TypeOK'
  <2>1. wire' \in Seq(Nat) /\ promised' \in Nat /\ waiting' \in BOOLEAN /\ pc' \in Places
    <3>1. wire' \in Seq(Nat)
      BY <1>3
    <3>2. promised' \in Nat
      BY <1>3
    <3> QED
      BY <1>1, <1>3, <3>1, <3>2
  <2> QED
    BY <1>4, <2>1 DEF TypeOK
<1>7. Len(wire') = 0 /\ DOMAIN wire' = {}
  BY <1>3
<1>8. RingInv'
  BY <1>3, <1>5, <1>7 DEF RingInv, StreamIntact, FlightOK, FileHolds, HasFile, BatchOK
<1> QED
  BY <1>3, <1>6, <1>8 DEF Stable

\* The connection with r more bytes of the file in its ring, before and after
\* the end of the body is seen to.
Pumped(c, first, left, r) ==
  LET copied == IF r = 0 THEN c ELSE start_write(append_to_ring(c, first, r))
  IN  [copied EXCEPT !.file_remaining = left - r]
Ended(c, left, r) == IF left = r THEN finish_file_body(c) ELSE c

(* What pump_file_body makes of the connection: r bytes of the file behind *)
(* an empty ring, and the end of the body with its last byte.              *)
LEMMA PumpGood ==
  ASSUME NEW c, NEW w, Good(c, w), Pumps(c), ~c.close_when_drained, c.write_batch_depth = 0,
         NEW left \in 0 .. c.file_remaining, NEW r \in 0 .. left, r <= Capacity,
         NEW d, d = Pumped(c, w + 1, left, r), NEW e, e = Ended(d, left, r)
  PROVE  /\ Good(e, w) /\ e.write_batch_depth = 0
         /\ ~e.closing => e.write_len = r /\ e.file_remaining = left - r
<1> DEFINE copied == IF r = 0 THEN c ELSE start_write(append_to_ring(c, w + 1, r))
           b == [d EXCEPT !.file_close_after = FALSE, !.dispatch_suspended = FALSE]
<1>1. /\ c \in Conns /\ w \in Nat /\ c.write_len = 0 /\ ~c.closing /\ c.dispatch_suspended
      /\ c.file_remaining \in Nat
  BY DEF Good, Conns, Pumps, FileHolds
<1>2. left \in Nat /\ r \in Nat /\ left - r \in Nat
  BY <1>1
<1>3. /\ Good(copied, w) /\ copied.write_len = r /\ copied.write_batch_depth = 0
      /\ ~copied.closing /\ copied.dispatch_suspended
  <2>1. CASE r = 0
    BY <1>1, <2>1
  <2>2. CASE r # 0
    <3> DEFINE a == append_to_ring(c, w + c.write_len + 1, r)
    <3>1. r \in 1 .. Capacity - c.write_len /\ w + c.write_len + 1 = w + 1
      BY <1>1, <1>2, <2>2
    <3>2. /\ Good(a, w) /\ a.write_len = c.write_len + r
          /\ a.write_batch_depth = c.write_batch_depth /\ a.closing = c.closing
          /\ a.dispatch_suspended = c.dispatch_suspended
      BY <3>1, AppendGood
    <3>3. copied = start_write(a)
      BY <2>2, <3>1
    <3>4. a.write_len = r
      BY <1>1, <1>2, <3>2
    <3> HIDE DEF a, copied
    <3> QED
      BY <1>1, <3>2, <3>3, <3>4, StartWrite DEF SameBytes
  <2> QED
    BY <2>1, <2>2
<1>4. d = [copied EXCEPT !.file_remaining = left - r]
  BY DEF Pumped
<1> HIDE DEF copied
<1>5. copied \in Conns
  BY <1>3 DEF Good
<1>6. /\ d \in Conns /\ d.file_remaining = left - r
      /\ \A f \in {"write_queue", "write_head", "write_len", "is_writing", "write_in_flight_len",
                   "write_batch_depth", "closing", "dispatch_suspended"} : d[f] = copied[f]
  <2>1. d \in Conns /\ d.file_remaining = left - r
    BY <1>2, <1>4, <1>5 DEF Conns
  <2> QED
    BY <1>4, <1>5, <2>1 DEF Conns
<1>7. Good(d, w) /\ d.write_batch_depth = 0 /\ d.write_len = r
  <2>1. FileHolds(d)
    BY <1>3, <1>6 DEF FileHolds
  <2> QED
    BY <1>3, <1>6, <2>1, FlagsGood
<1>8. CASE left # r
  BY <1>6, <1>7, <1>8 DEF Ended
<1>9. CASE left = r
  <2>1. /\ b \in Conns /\ b.file_remaining = 0
        /\ \A f \in {"write_queue", "write_head", "write_len", "is_writing", "write_in_flight_len",
                     "write_batch_depth", "closing"} : b[f] = d[f]
    <3>1. left - r = 0
      BY <1>2, <1>9
    <3>2. b \in Conns /\ b.file_remaining = d.file_remaining
      BY <1>6, ZenonT(40) DEF Conns
    <3> QED
      BY <1>6, <3>1, <3>2 DEF Conns
  <2>2. e = (IF d.file_close_after THEN close_after_flush(b) ELSE b)
    BY <1>9 DEF Ended, finish_file_body
  <2> HIDE DEF b
  <2>3. Good(b, w)
    <3>1. FileHolds(b)
      BY <2>1 DEF FileHolds, HasFile
    <3> QED
      BY <1>7, <2>1, <3>1, FlagsGood
  <2>4. left - r = 0
    BY <1>2, <1>9
  <2>5. Good(e, w) /\ e.write_batch_depth = 0 /\ (~e.closing => e.write_len = r /\ e.file_remaining = 0)
    <3>1. CASE ~d.file_close_after
      BY <1>7, <2>1, <2>2, <2>3, <3>1
    <3>2. CASE d.file_close_after
      <4>1. e = close_after_flush(b)
        BY <2>2, <3>2
      <4> QED
        BY <1>7, <2>1, <2>3, <4>1, CloseAfterFlushGood
    <3> QED
      BY <3>1, <3>2
  <2> QED
    BY <2>4, <2>5
<1> QED
  BY <1>8, <1>9

(* pump_file_body.                                                         *)
LEMMA PumpKeeps ==
  ASSUME TypeOK, RingInv, pump_file_body
  PROVE  TypeOK' /\ RingInv' /\ Stable(conn, conn')
<1> DEFINE w == Len(wire)
<1>1. /\ Good(conn, w) /\ w \in Nat /\ conn \in Conns
      /\ conn.write_batch_depth # 0 => pc = "batch"
      /\ ~conn.closing => promised = w + conn.write_len + conn.file_remaining
  BY InOrder DEF Good
<1>2. /\ Pumps(conn) /\ ~conn.close_when_drained /\ pc \in {"drain", "finish"}
      /\ promised' = promised /\ waiting' = waiting
  BY DEF pump_file_body
<1>3. ~conn.closing /\ ~conn.is_writing /\ conn.write_len = 0 /\ conn.write_batch_depth = 0
  BY <1>1, <1>2 DEF Pumps
<1>4. PICK k \in 0 .. conn.file_remaining :
        LET left == conn.file_remaining - k
            limit == IF left < Capacity THEN left ELSE Capacity
        IN  \E r \in IF left = 0 THEN {0} ELSE 1 .. limit :
              LET copied == IF r = 0 THEN conn
                            ELSE start_write(append_to_ring(conn, FileByte + k, r))
                  c == [copied EXCEPT !.file_remaining = left - r]
              IN  /\ wire' = wire \o Sent(FileByte, k)
                  /\ conn' = IF left = r THEN finish_file_body(c) ELSE c
                  /\ pc' = IF left = r /\ ~conn.file_close_after THEN "resume" ELSE "loop"
  BY DEF pump_file_body
<1> DEFINE left == conn.file_remaining - k
           limit == IF left < Capacity THEN left ELSE Capacity
<1>5. conn.file_remaining \in Nat /\ k \in Nat /\ left \in Nat /\ left \in 0 .. conn.file_remaining
  BY <1>1 DEF Conns
<1>6. PICK r \in IF left = 0 THEN {0} ELSE 1 .. limit :
        LET copied == IF r = 0 THEN conn
                      ELSE start_write(append_to_ring(conn, FileByte + k, r))
            c == [copied EXCEPT !.file_remaining = left - r]
        IN  /\ wire' = wire \o Sent(FileByte, k)
            /\ conn' = IF left = r THEN finish_file_body(c) ELSE c
            /\ pc' = IF left = r /\ ~conn.file_close_after THEN "resume" ELSE "loop"
  BY <1>4
<1>7. r \in 0 .. left /\ r <= Capacity /\ r \in Nat
  BY <1>5
<1> HIDE DEF left, limit
<1>8. FileByte = w + 1 /\ FileByte + k = (w + k) + 1 /\ w + k \in Nat
  BY <1>1, <1>3, <1>5 DEF FileByte
<1>9. Follows(Sent(FileByte, k), w) /\ Len(Sent(FileByte, k)) = k
  BY <1>1, <1>5, <1>8, SentFollows
<1>10. Good(conn, w + k)
  BY <1>1, <1>3, <1>8, EmptyGood
<1>11. PICK c : c = Pumped(conn, (w + k) + 1, left, r) /\ conn' = Ended(c, left, r)
  BY <1>6, <1>8 DEF Pumped, Ended
<1>12. /\ Good(conn', w + k) /\ conn'.write_batch_depth = 0
       /\ ~conn'.closing => conn'.write_len = r /\ conn'.file_remaining = left - r
  BY <1>2, <1>3, <1>5, <1>7, <1>10, <1>11, PumpGood
<1>13. ~conn'.closing => promised' = w + Len(Sent(FileByte, k)) + conn'.write_len + conn'.file_remaining
  <2>1. promised = w + 0 + conn.file_remaining
    BY <1>1, <1>3
  <2>2. PICK a \in Nat, g \in Nat : a = w /\ g = conn.file_remaining
    BY <1>1, <1>5
  <2>3. a + 0 + g = a + k + r + ((g - k) - r)
    BY <1>5, <1>7
  <2>4. promised' = w + k + r + (left - r)
    BY <1>2, <2>1, <2>2, <2>3 DEF left
  <2> QED
    BY <1>9, <1>12, <2>4
<1>14. promised' \in Nat /\ waiting' \in BOOLEAN /\ pc' \in Places /\ wire' = wire \o Sent(FileByte, k)
  BY <1>2, <1>6 DEF TypeOK, Places
<1>15. Good(conn', w + Len(Sent(FileByte, k))) /\ Stable(conn, conn')
  BY <1>3, <1>9, <1>12 DEF Stable
<1> QED
  BY <1>9, <1>12, <1>13, <1>14, <1>15, Kept

-----------------------------------------------------------------------------
(* The theorems.                                                           *)

(* Every connection starts with an empty ring.                             *)
LEMMA InitKeeps == Init => TypeOK /\ RingInv
<1> SUFFICES ASSUME Init
             PROVE  TypeOK /\ RingInv
  OBVIOUS
<1>1. PICK ws \in BOOLEAN : conn = Fresh([i \in Cells |-> 0], ws)
  BY DEF Init
<1>2. wire = <<>> /\ promised = 0 /\ waiting = FALSE /\ pc = "loop"
  BY DEF Init
<1>3. conn \in Conns
  <2>1. 0 \in 0 .. Capacity /\ 0 \in Cells /\ 0 \in {0, 1} /\ 0 \in Nat /\ [i \in Cells |-> 0] \in [Cells -> Nat]
    BY DEF Cells
  <2> QED
    BY <1>1, <2>1 DEF Fresh, Conns
<1>4. /\ conn.write_len = 0 /\ conn.file_remaining = 0 /\ ~conn.is_writing
      /\ conn.write_batch_depth = 0
  BY <1>1 DEF Fresh
<1>5. wire \in Seq(Nat) /\ Len(wire) = 0 /\ DOMAIN wire = {} /\ promised \in Nat
  BY <1>2
<1>6. TypeOK
  BY <1>2, <1>3, <1>5 DEF TypeOK, Places
<1>7. RingInv
  BY <1>2, <1>4, <1>5 DEF RingInv, StreamIntact, FlightOK, FileHolds, HasFile, BatchOK
<1> QED
  BY <1>6, <1>7

(* Every step keeps the invariant and the slice in the kernel.             *)
LEMMA NextKeeps ==
  ASSUME TypeOK, RingInv, [Next]_vars
  PROVE  TypeOK' /\ RingInv' /\ Stable(conn, conn')
<1>1. CASE UNCHANGED vars
  <2>1. conn' = conn /\ wire' = wire /\ promised' = promised /\ waiting' = waiting /\ pc' = pc
    BY <1>1 DEF vars
  <2>2. Stable(conn, conn')
    BY <2>1 DEF Stable
  <2>3. TypeOK'
    BY <2>1 DEF TypeOK
  <2>4. RingInv'
    BY <2>1 DEF RingInv, StreamIntact, FlightOK, FileHolds, HasFile, BatchOK
  <2> QED
    BY <2>2, <2>3, <2>4
<1>2. CASE \E n \in FrameSizes : Send(n)
  BY <1>2, SendKeeps
<1>3. CASE \E n \in FrameSizes, length \in FileLengths, close_after \in BOOLEAN :
             begin_file_response(n, length, close_after)
  BY <1>3, FileResponseKeeps
<1>4. CASE CloseAfterFlush \/ Close \/ ReadBegins \/ ReadReturns
  BY <1>4, QuietKeeps
<1>5. CASE begin_write_batch
  BY <1>5, BeginBatchKeeps
<1>6. CASE WriteFails
  BY <1>6, WriteFailsKeeps
<1>7. CASE WriteCompletes
  BY <1>7, WriteCompletesKeeps
<1>8. CASE end_write_batch
  BY <1>8, EndBatchKeeps
<1>9. CASE CompletionEnds \/ ResumeReturns
  BY <1>9, ReturnKeeps
<1>10. CASE PumpFails
  BY <1>10, PumpFailsKeeps
<1>11. CASE pump_file_body
  BY <1>11, PumpKeeps
<1>12. CASE Release
  BY <1>12, ReleaseKeeps
<1> QED
  BY <1>1, <1>2, <1>3, <1>4, <1>5, <1>6, <1>7, <1>8, <1>9, <1>10, <1>11, <1>12
     DEF Next, CallbackReturns

(* The ring and the counters of TcpConnection stay in their ranges, and    *)
(* what keeps the stream intact is invariant, through every operation of   *)
(* the write path.                                                         *)
THEOREM RingKept == Spec => [](TypeOK /\ RingInv)
<1>1. TypeOK /\ RingInv /\ [Next]_vars => (TypeOK /\ RingInv)'
  BY NextKeeps
<1> QED
  BY <1>1, InitKeeps, PTL DEF Spec

(* The peer sees the bytes the application handed over, in order and none  *)
(* twice, whatever the capacity of write_queue, the frames and the files.  *)
THEOREM OneStream == Spec => []StreamIntact
<1>1. RingInv => StreamIntact
  BY DEF RingInv
<1> QED
  BY <1>1, RingKept, PTL

(* No operation of the connection touches the slice of an armed write.     *)
THEOREM SliceIsStable == Spec => InFlightIsStable
<1>1. TypeOK /\ RingInv /\ [Next]_vars =>
        [conn.is_writing /\ conn'.is_writing =>
           /\ conn'.write_head = conn.write_head
           /\ \A i \in conn.write_head .. conn.write_head + conn.write_in_flight_len - 1 :
                conn'.write_queue[i] = conn.write_queue[i]]_vars
  BY NextKeeps DEF Stable
<1> QED
  BY <1>1, RingKept, PTL DEF Spec, InFlightIsStable
=============================================================================
