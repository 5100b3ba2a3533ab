--------------------------- MODULE Http2Connection --------------------------
(***************************************************************************)
(* The server side of one HTTP/2 connection: the slab of streams, the flow *)
(* control windows, which stream identifiers were opened or reset, and     *)
(* header blocks spread over several frames.  A receive action validates   *)
(* and applies one frame and leaves an event for the session, which        *)
(* Http2Session models.  The model starts after the client preface.        *)
(***************************************************************************)
EXTENDS Integers

CONSTANTS
  MaxStreams,        \* slots of the slab
  Ids,               \* the peer's stream identifiers: odd
  DefaultWindow,     \* default_window_size, 65535
  MaxWindow,         \* 0x7fff_ffff
  Width,             \* bits of opened_peer_bitmap, 32
  DataSizes,         \* payload lengths of the peer's DATA frames
  Increments,        \* increments of the peer's WINDOW_UPDATE frames
  InitialWindows     \* SETTINGS_INITIAL_WINDOW_SIZE values of the peer

Slots == 1 .. MaxStreams

ASSUME Http2Assumption ==
  /\ MaxStreams \in Nat \ {0} /\ Width \in Nat \ {0}
  /\ Ids \subseteq Nat /\ \A id \in Ids : id % 2 = 1
  /\ DefaultWindow \in Nat /\ MaxWindow \in Nat /\ DefaultWindow <= MaxWindow
  /\ DataSizes \subseteq Nat /\ Increments \subseteq Nat /\ InitialWindows \subseteq Nat

VARIABLES
  stream_ids, states, receive_windows, send_windows,   \* the slab, by slot
  initial_window_size,          \* of the peer's settings
  peer_settings_seen,
  connection_receive_window, connection_send_window,
  highest_peer_stream_id,
  opened_peer_bitmap,           \* the bits that are set
  continuation_stream_id,       \* 0 when no CONTINUATION is expected
  discarding,        \* refused_, local_reset_ and closed_continuation_stream_id
  local_reset_stream_ids, local_reset_cursor,
  shutting_down,
  event,             \* what receive_frame returned and the session has not handled yet
  opened,            \* history: every identifier recorded as opened
  allowance, allowances         \* history: the credit the peer counts for the connection and each slot

slabVars == <<stream_ids, states, receive_windows, send_windows, allowances>>
idVars == <<highest_peer_stream_id, opened_peer_bitmap, opened>>
resetVars == <<local_reset_stream_ids, local_reset_cursor>>
blockVars == <<continuation_stream_id, discarding>>
creditVars == <<connection_receive_window, connection_send_window, allowance>>
settingsVars == <<initial_window_size, peer_settings_seen, shutting_down>>

Discards == {"refused", "locally_reset", "closed"}
StreamStates == {"idle", "open", "half_closed_remote", "half_closed_local", "closed"}

-----------------------------------------------------------------------------
(* Events: one record, whose unused fields are 0 and FALSE.                *)

EventOf(kind, slot, id, length, end_headers, end_stream) ==
  [kind |-> kind, slot |-> slot, id |-> id, length |-> length,
   end_headers |-> end_headers, end_stream |-> end_stream, discard |-> "none"]

DiscardEvent(kind, discard, id, end_headers) ==
  [kind |-> kind, slot |-> 0, id |-> id, length |-> 0,
   end_headers |-> end_headers, end_stream |-> FALSE, discard |-> discard]

NoEvent == EventOf("none", 0, 0, 0, FALSE, FALSE)
StreamError(id) == EventOf("stream_error", 0, id, 0, FALSE, FALSE)
ConnectionError == EventOf("connection_error", 0, 0, 0, FALSE, FALSE)

-----------------------------------------------------------------------------
(* The slab.  Its freelist and its count are left out: a new stream takes  *)
(* any idle slot.                                                          *)

Active(i) == states[i] # "idle"

find(id) == {i \in Slots : Active(i) /\ stream_ids[i] = id}

acquire(id, i) ==
  /\ ~Active(i)
  /\ stream_ids' = [stream_ids EXCEPT ![i] = id]
  /\ receive_windows' = [receive_windows EXCEPT ![i] = DefaultWindow]
  /\ send_windows' = [send_windows EXCEPT ![i] = initial_window_size]
  /\ allowances' = [allowances EXCEPT ![i] = initial_window_size]

release(i) ==
  /\ stream_ids' = [stream_ids EXCEPT ![i] = 0]
  /\ states' = [states EXCEPT ![i] = "idle"]
  /\ receive_windows' = [receive_windows EXCEPT ![i] = DefaultWindow]
  /\ send_windows' = [send_windows EXCEPT ![i] = DefaultWindow]
  /\ UNCHANGED allowances

-----------------------------------------------------------------------------
(* Identifiers.                                                            *)

was_locally_reset(id) == \E k \in Slots : local_reset_stream_ids[k] = id

record_local_reset(id) ==
  IF was_locally_reset(id) THEN UNCHANGED resetVars
  ELSE /\ local_reset_stream_ids' = [local_reset_stream_ids EXCEPT ![local_reset_cursor] = id]
       /\ local_reset_cursor' = (local_reset_cursor % MaxStreams) + 1

was_opened(id) == (highest_peer_stream_id - id) \div 2 \in opened_peer_bitmap

(* Mutant: the bitmap is not shifted.                                      *)
shifted_NoShift(steps) == {b \in opened_peer_bitmap : steps < Width}

shifted(steps) == {b \in 0 .. Width - 1 : b - steps \in opened_peer_bitmap}

record_opened_stream(id) ==
  /\ opened_peer_bitmap' = shifted((id - highest_peer_stream_id) \div 2) \cup {0}
  /\ highest_peer_stream_id' = id
  /\ opened' = opened \cup {id}

classify_missing_stream(id) ==
  CASE id > highest_peer_stream_id -> "idle"
    [] id <= highest_peer_stream_id /\ was_locally_reset(id) -> "locally_reset"
    [] OTHER -> "closed"

(* A lower identifier that the bitmap does not know.                       *)
unexpected(id) ==
  id <= highest_peer_stream_id /\ ~was_opened(id) /\ ~was_locally_reset(id)

-----------------------------------------------------------------------------
(* HEADERS and CONTINUATION.                                               *)

(* The block goes on in CONTINUATION frames unless it ends here.           *)
expect_continuation(id, end_headers) ==
  continuation_stream_id' = IF end_headers THEN continuation_stream_id ELSE id

discarded_headers(discard, id, end_headers) ==
  /\ expect_continuation(id, end_headers)
  /\ discarding' = IF end_headers THEN discarding ELSE [discarding EXCEPT ![discard] = id]
  /\ event' = DiscardEvent("discarded_headers", discard, id, end_headers)

accepted_headers(i, id, end_headers, end_stream) ==
  /\ expect_continuation(id, end_headers)
  /\ event' = EventOf("headers", i, id, 0, end_headers, end_stream)
  /\ UNCHANGED discarding

(* The state of a stream once its HEADERS frame is applied.                *)
after_headers(state, end_stream) ==
  CASE end_stream /\ state = "open" -> "half_closed_remote"
    [] end_stream /\ state = "half_closed_local" -> "closed"
    [] OTHER -> state

known_headers(i, id, end_headers, end_stream) ==
  /\ IF states[i] \in {"open", "half_closed_local"}
     THEN /\ accepted_headers(i, id, end_headers, end_stream)
          /\ states' = [states EXCEPT ![i] = after_headers(@, end_stream)]
     ELSE /\ discarded_headers("closed", id, end_headers)
          /\ UNCHANGED states
  /\ UNCHANGED <<stream_ids, receive_windows, send_windows, allowances, idVars>>

(* A stream that closed, and its identifier is still known.                *)
late_headers(id, end_headers) ==
  /\ discarded_headers(classify_missing_stream(id), id, end_headers)
  /\ UNCHANGED <<slabVars, idVars>>

new_headers(id, end_headers, end_stream) ==
  \/ /\ shutting_down
     /\ event' = StreamError(id)
     /\ UNCHANGED <<slabVars, idVars, blockVars>>
  \/ /\ ~shutting_down /\ (\A i \in Slots : Active(i))
     /\ record_opened_stream(id)
     /\ discarded_headers("refused", id, end_headers)
     /\ UNCHANGED slabVars
  \/ /\ ~shutting_down
     /\ \E i \in Slots :
          /\ acquire(id, i)
          /\ states' = [states EXCEPT ![i] = after_headers("open", end_stream)]
          /\ accepted_headers(i, id, end_headers, end_stream)
     /\ record_opened_stream(id)

receive_headers(id, end_headers, end_stream) ==
  /\ \/ \E i \in find(id) : known_headers(i, id, end_headers, end_stream)
     \/ /\ find(id) = {} /\ unexpected(id)
        /\ event' = ConnectionError
        /\ UNCHANGED <<slabVars, idVars, blockVars>>
     \/ /\ find(id) = {} /\ ~unexpected(id)
        /\ IF classify_missing_stream(id) = "idle" THEN new_headers(id, end_headers, end_stream)
           ELSE late_headers(id, end_headers)
  /\ UNCHANGED <<resetVars, creditVars, settingsVars>>

(* A HEADERS frame whose priority makes the stream depend on itself is     *)
(* refused before anything else is looked at; so is a PRIORITY frame.      *)
receive_self_dependency(id) ==
  /\ event' = StreamError(id)
  /\ UNCHANGED <<slabVars, idVars, resetVars, blockVars, creditVars, settingsVars>>

continuation_ends(end_headers) ==
  continuation_stream_id' = IF end_headers THEN 0 ELSE continuation_stream_id

(* Mutant: the discarded block is not forgotten when it ends.              *)
discard_ends_Never(discard, end_headers) == UNCHANGED discarding

discard_ends(discard, end_headers) ==
  discarding' = IF end_headers THEN [discarding EXCEPT ![discard] = 0] ELSE discarding

receive_continuation(id, end_headers) ==
  /\ continuation_stream_id = id
  /\ \/ \E discard \in Discards :
          /\ discarding[discard] = id
          /\ continuation_ends(end_headers)
          /\ discard_ends(discard, end_headers)
          /\ event' = DiscardEvent("discarded_continuation", discard, id, end_headers)
     \/ /\ \A discard \in Discards : discarding[discard] # id
        /\ \E i \in find(id) :
             /\ continuation_ends(end_headers)
             /\ event' = EventOf("continuation", i, id, 0, end_headers, FALSE)
        /\ UNCHANGED discarding
     \/ /\ \A discard \in Discards : discarding[discard] # id
        /\ find(id) = {}
        /\ event' = StreamError(id)
        /\ UNCHANGED blockVars
  /\ UNCHANGED <<slabVars, idVars, resetVars, creditVars, settingsVars>>

-----------------------------------------------------------------------------
(* DATA.                                                                   *)

(* Credit for a frame that no stream takes.                                *)
consume_closed_data(length, answer) ==
  /\ IF length > connection_receive_window
     THEN event' = ConnectionError /\ UNCHANGED connection_receive_window
     ELSE event' = answer /\ connection_receive_window' = connection_receive_window - length
  /\ UNCHANGED receive_windows

known_data(i, id, length, end_stream) ==
  \/ /\ states[i] \notin {"open", "half_closed_local"}
     /\ consume_closed_data(length, StreamError(id))
  \/ /\ states[i] \in {"open", "half_closed_local"}
     /\ length > connection_receive_window \/ length > receive_windows[i]
     /\ event' = IF length > connection_receive_window THEN ConnectionError ELSE StreamError(id)
     /\ UNCHANGED <<connection_receive_window, receive_windows>>
  \/ /\ states[i] \in {"open", "half_closed_local"}
     /\ length <= connection_receive_window /\ length <= receive_windows[i]
     /\ connection_receive_window' = connection_receive_window - length
     /\ receive_windows' = [receive_windows EXCEPT ![i] = @ - length]
     /\ event' = EventOf("data", i, id, length, FALSE, end_stream)

receive_data(id, length, end_stream) ==
  /\ \/ \E i \in find(id) : known_data(i, id, length, end_stream)
     \/ /\ find(id) = {} /\ classify_missing_stream(id) = "idle"
        /\ event' = ConnectionError
        /\ UNCHANGED <<connection_receive_window, receive_windows>>
     \/ /\ find(id) = {} /\ classify_missing_stream(id) = "locally_reset"
        /\ consume_closed_data(length, EventOf("discarded_data", 0, id, length, FALSE, FALSE))
     \/ /\ find(id) = {} /\ classify_missing_stream(id) = "closed"
        /\ consume_closed_data(length, StreamError(id))
  /\ UNCHANGED <<stream_ids, states, send_windows, allowances, idVars,
                 resetVars, blockVars, connection_send_window, allowance, settingsVars>>

-----------------------------------------------------------------------------
(* SETTINGS, RST_STREAM, WINDOW_UPDATE, GOAWAY.                            *)

InRange(window) == -MaxWindow <= window /\ window <= MaxWindow

(* The new size, and every active window it moves, is in range.            *)
update_initial_send_window(value) ==
  /\ value <= MaxWindow
  /\ \A i \in Slots : Active(i) => InRange(send_windows[i] + (value - initial_window_size))

moved(windows, delta) == [i \in Slots |-> IF Active(i) THEN windows[i] + delta ELSE windows[i]]

receive_settings(value) ==
  /\ \/ /\ update_initial_send_window(value)
        /\ send_windows' = moved(send_windows, value - initial_window_size)
        /\ allowances' = moved(allowances, value - initial_window_size)
        /\ initial_window_size' = value
        /\ peer_settings_seen' = TRUE
        /\ event' = EventOf("settings", 0, 0, 0, FALSE, FALSE)
     \/ /\ ~update_initial_send_window(value)
        /\ event' = ConnectionError
        /\ UNCHANGED <<send_windows, allowances, initial_window_size, peer_settings_seen>>
  /\ UNCHANGED <<stream_ids, states, receive_windows, idVars, resetVars,
                 blockVars, creditVars, shutting_down>>

receive_reset(id) ==
  /\ \/ \E i \in find(id) :
          release(i) /\ event' = EventOf("stream_reset", i, id, 0, FALSE, FALSE)
     \/ /\ find(id) = {}
        /\ event' = IF classify_missing_stream(id) = "idle" THEN ConnectionError ELSE NoEvent
        /\ UNCHANGED slabVars
  /\ UNCHANGED <<idVars, resetVars, blockVars, creditVars, settingsVars>>

(* The connection window, when no stream is named.                         *)
receive_connection_update(increment) ==
  /\ IF increment = 0 \/ connection_send_window + increment > MaxWindow
     THEN event' = ConnectionError /\ UNCHANGED <<connection_send_window, allowance>>
     ELSE /\ connection_send_window' = connection_send_window + increment
          /\ allowance' = allowance + increment
          /\ event' = EventOf("window_update", 0, 0, increment, FALSE, FALSE)
  /\ UNCHANGED <<slabVars, idVars, resetVars, blockVars, connection_receive_window, settingsVars>>

known_update(i, id, increment) ==
  IF increment = 0 \/ send_windows[i] + increment > MaxWindow
  THEN event' = StreamError(id) /\ UNCHANGED <<send_windows, allowances>>
  ELSE /\ send_windows' = [send_windows EXCEPT ![i] = @ + increment]
       /\ allowances' = [allowances EXCEPT ![i] = @ + increment]
       /\ event' = EventOf("window_update", i, id, increment, FALSE, FALSE)

receive_window_update(id, increment) ==
  /\ \/ \E i \in find(id) : known_update(i, id, increment)
     \/ /\ find(id) = {}
        /\ event' = IF classify_missing_stream(id) = "idle" THEN ConnectionError ELSE NoEvent
        /\ UNCHANGED <<send_windows, allowances>>
  /\ UNCHANGED <<stream_ids, states, receive_windows, idVars, resetVars,
                 blockVars, creditVars, settingsVars>>

receive_goaway ==
  /\ shutting_down' = TRUE
  /\ UNCHANGED <<slabVars, idVars, resetVars, blockVars, creditVars, initial_window_size,
                 peer_settings_seen, event>>

(* A frame of the wrong size, type, padding, stream or place.              *)
receive_invalid ==
  /\ event' = ConnectionError
  /\ UNCHANGED <<slabVars, idVars, resetVars, blockVars, creditVars, settingsVars>>

-----------------------------------------------------------------------------
(* Any frame.  Only a CONTINUATION of its stream may follow an unfinished  *)
(* header block, and only SETTINGS may come first.                         *)
receive_frame ==
  \/ receive_invalid
  \/ \E value \in InitialWindows \cup {initial_window_size} : continuation_stream_id = 0 /\ receive_settings(value)
  \/ /\ peer_settings_seen
     /\ \E id \in Ids, end_headers \in BOOLEAN : receive_continuation(id, end_headers)
  \/ /\ peer_settings_seen /\ continuation_stream_id = 0
     /\ \/ \E id \in Ids, end_headers, end_stream \in BOOLEAN :
             receive_headers(id, end_headers, end_stream)
        \/ \E id \in Ids : receive_self_dependency(id) \/ receive_reset(id)
        \/ \E id \in Ids, length \in DataSizes, end_stream \in BOOLEAN :
             receive_data(id, length, end_stream)
        \/ \E id \in Ids, increment \in Increments : receive_window_update(id, increment)
        \/ \E increment \in Increments : receive_connection_update(increment)
        \/ receive_goaway
=============================================================================
