---------------------------- MODULE Http2Session ----------------------------
(***************************************************************************)
(* The session that drives an HTTP/2 connection: it turns the events of    *)
(* received frames into requests, resets and GOAWAY, gives receive credit  *)
(* back, and writes responses within the peer's windows and what the       *)
(* transport takes.  A handler runs to its end before the next frame; what *)
(* it calls on the way (request handlers, flushes) is split into steps     *)
(* during which no frame is received.  A write that fails for good ends    *)
(* the connection.                                                         *)
(***************************************************************************)
EXTENDS Http2Connection, Sequences

CONSTANTS
  BodySizes,         \* response bodies
  FrameCapacity      \* data_frame_capacity

ASSUME SessionAssumption == BodySizes \subseteq Nat /\ FrameCapacity \in Nat \ {0}

VARIABLES
  stage,             \* by slot: how far its request got
  response,          \* by slot: how far its response got
  pending,           \* by slot: body bytes of a buffered response not yet written
  header_stream_index, header_end_stream, header_is_trailer,
  discarded_header,  \* refused_, local_reset_ and closed_header_stream_id
  call,              \* the callback a handler is in, and what it does afterwards
  flush,             \* the slots a flush has still to go through
  closed             \* GOAWAY was sent or the transport failed

connectionVars == <<slabVars, idVars, resetVars, blockVars, creditVars, settingsVars>>
streamVars == <<stage, response, pending>>
headerVars == <<header_stream_index, header_end_stream, header_is_trailer, discarded_header>>
vars == <<connectionVars, event, streamVars, headerVars, call, flush, closed>>

(* new: nothing seen; headers: initial_seen; ready: headers_ready;         *)
(* served: dispatched; tunnel: dispatched with a protocol.                 *)
Stages == {"new", "headers", "ready", "served", "tunnel"}

(* none; headers, body: buffered, its HEADERS not written or written;      *)
(* open, retry: streamed, the last write taken or refused; ending:         *)
(* pending_stream_end; ended.                                              *)
Responses == {"none", "headers", "body", "open", "retry", "ending", "ended"}

NoCall == [slot |-> 0, id |-> 0, end_stream |-> FALSE, callback |-> "none"]
Calling(i, id, end_stream, callback) ==
  [slot |-> i, id |-> id, end_stream |-> end_stream, callback |-> callback]

-----------------------------------------------------------------------------
(* Header blocks and slots.                                                *)

NoHeaders ==
  /\ header_stream_index' = 0
  /\ header_end_stream' = FALSE
  /\ header_is_trailer' = FALSE
  /\ discarded_header' = [discard \in Discards |-> 0]

finish_header_block == NoHeaders

clear_stream(i) ==
  /\ stage' = [stage EXCEPT ![i] = "new"]
  /\ response' = [response EXCEPT ![i] = "none"]
  /\ pending' = [pending EXCEPT ![i] = 0]
  /\ IF header_stream_index = i THEN finish_header_block ELSE UNCHANGED headerVars

(* RST_STREAM: the stream is forgotten, its identifier is not.             *)
send_reset(id) ==
  /\ record_local_reset(id)
  /\ \/ \E i \in find(id) : release(i) /\ clear_stream(i)
     \/ find(id) = {} /\ UNCHANGED <<slabVars, streamVars, headerVars>>

(* The same after the handler has finished the header block.               *)
reset_finished(id) ==
  /\ record_local_reset(id)
  /\ finish_header_block
  /\ \/ \E i \in find(id) :
          /\ release(i)
          /\ stage' = [stage EXCEPT ![i] = "new"]
          /\ response' = [response EXCEPT ![i] = "none"]
          /\ pending' = [pending EXCEPT ![i] = 0]
     \/ find(id) = {} /\ UNCHANGED <<slabVars, streamVars>>

send_goaway == closed' = TRUE

Ready == ~closed /\ flush = <<>>
Between == Ready /\ event = NoEvent /\ call = NoCall
Handling(kind) == Ready /\ call = NoCall /\ event.kind = kind

-----------------------------------------------------------------------------
(* process_frame: one frame, then its event.                               *)

ReceiveFrame ==
  /\ Between
  /\ receive_frame
  /\ UNCHANGED <<streamVars, headerVars, call, flush, closed>>

HandleConnectionError ==
  /\ Handling("connection_error")
  /\ send_goaway
  /\ event' = NoEvent
  /\ UNCHANGED <<connectionVars, streamVars, headerVars, call, flush>>

HandleStreamError ==
  /\ Handling("stream_error")
  /\ send_reset(event.id)
  /\ event' = NoEvent
  /\ UNCHANGED <<idVars, blockVars, creditVars, settingsVars, call, flush, closed>>

HandleStreamReset ==
  /\ Handling("stream_reset")
  /\ clear_stream(event.slot)
  /\ event' = NoEvent
  /\ UNCHANGED <<connectionVars, call, flush, closed>>

(* New send credit resumes the pending responses of the stream, or of all. *)
HandleCredit ==
  /\ Ready /\ call = NoCall /\ event.kind \in {"settings", "window_update"}
  /\ flush' = IF event.slot = 0 THEN [i \in Slots |-> i] ELSE <<event.slot>>
  /\ event' = NoEvent
  /\ UNCHANGED <<connectionVars, streamVars, headerVars, call, closed>>

-----------------------------------------------------------------------------
(* Header blocks.                                                          *)

(* What the first fragment of a block for this slot starts from.           *)
FirstFragment ==
  /\ Handling("headers")
  /\ \E i \in {event.slot} :
       /\ stage' = IF stage[i] = "new" THEN [stage EXCEPT ![i] = "headers"] ELSE stage
       /\ response' = IF stage[i] = "new" THEN [response EXCEPT ![i] = "none"] ELSE response
       /\ pending' = IF stage[i] = "new" THEN [pending EXCEPT ![i] = 0] ELSE pending
       /\ header_stream_index' = i
       /\ header_end_stream' = event.end_stream
       /\ header_is_trailer' = (stage[i] # "new")
       /\ discarded_header' = IF stage[i] = "new" /\ header_stream_index = i
                              THEN [discard \in Discards |-> 0] ELSE discarded_header
  /\ event' = [event EXCEPT !.kind = "fragment"]
  /\ UNCHANGED <<connectionVars, call, flush, closed>>

FirstDiscarded ==
  /\ Handling("discarded_headers")
  /\ header_stream_index' = 0
  /\ header_end_stream' = FALSE
  /\ header_is_trailer' = FALSE
  /\ discarded_header' = [discarded_header EXCEPT ![event.discard] = event.id]
  /\ event' = [event EXCEPT !.kind = "discarded_fragment"]
  /\ UNCHANGED <<connectionVars, streamVars, call, flush, closed>>

(* A continuation must be of the block the session is in.                  *)
NextFragment ==
  /\ Ready /\ call = NoCall
  /\ \/ /\ event.kind = "continuation"
        /\ IF header_stream_index = event.slot
           THEN event' = [event EXCEPT !.kind = "fragment", !.end_stream = header_end_stream]
           ELSE event' = ConnectionError
     \/ /\ event.kind = "discarded_continuation"
        /\ IF discarded_header[event.discard] = event.id
           THEN event' = [event EXCEPT !.kind = "discarded_fragment"]
           ELSE event' = ConnectionError
  /\ UNCHANGED <<connectionVars, streamVars, headerVars, call, flush, closed>>

(* The fragment does not fit, or the finished block cannot be decoded.     *)
BlockFails ==
  /\ Ready /\ call = NoCall /\ event.kind \in {"fragment", "discarded_fragment"}
  /\ send_goaway
  /\ event' = NoEvent
  /\ UNCHANGED <<connectionVars, streamVars, headerVars, call, flush>>

(* More fragments are to come.                                             *)
BlockGoesOn ==
  /\ Ready /\ call = NoCall /\ event.kind \in {"fragment", "discarded_fragment"}
  /\ ~event.end_headers
  /\ event' = NoEvent
  /\ UNCHANGED <<connectionVars, streamVars, headerVars, call, flush, closed>>

complete_discarded_headers ==
  /\ Handling("discarded_fragment") /\ event.end_headers
  /\ \/ /\ event.discard = "locally_reset"
        /\ finish_header_block
        /\ UNCHANGED <<slabVars, resetVars, streamVars>>
     \/ /\ event.discard # "locally_reset"
        /\ reset_finished(event.id)
  /\ event' = NoEvent
  /\ UNCHANGED <<idVars, blockVars, creditVars, settingsVars, call, flush, closed>>

-----------------------------------------------------------------------------
(* complete_headers.                                                       *)

Completing(trailer) ==
  Handling("fragment") /\ event.end_headers /\ header_is_trailer = trailer

(* The request or the trailers are not acceptable, or trailers do not end  *)
(* the stream or come before a request.                                    *)
HeadersRejected ==
  /\ Handling("fragment") /\ event.end_headers
  /\ reset_finished(event.id)
  /\ event' = NoEvent
  /\ UNCHANGED <<idVars, blockVars, creditVars, settingsVars, call, flush, closed>>

(* CONNECT without a protocol is answered by the session.                  *)
ConnectRefused(body) ==
  /\ Completing(FALSE)
  /\ response[event.slot] = "none"
  /\ response' = [response EXCEPT ![event.slot] = "headers"]
  /\ pending' = [pending EXCEPT ![event.slot] = body]
  /\ flush' = <<event.slot>>
  /\ call' = Calling(event.slot, event.id, event.end_stream, "connect")
  /\ finish_header_block
  /\ event' = NoEvent
  /\ UNCHANGED <<connectionVars, stage, closed>>

(* dispatch: the request handler runs, then the peer's side is finished.   *)
Dispatched(i, id, end_stream, protocol) ==
  /\ stage' = [stage EXCEPT ![i] = IF protocol THEN "tunnel" ELSE "served"]
  /\ call' = Calling(i, id, end_stream, "request")

RequestHeaders(protocol) ==
  /\ Completing(FALSE)
  /\ IF event.end_stream \/ protocol
     THEN Dispatched(event.slot, event.id, event.end_stream, protocol)
     ELSE stage' = [stage EXCEPT ![event.slot] = "ready"] /\ UNCHANGED call
  /\ response' = [response EXCEPT ![event.slot] = "none"]
  /\ finish_header_block
  /\ event' = NoEvent
  /\ UNCHANGED <<connectionVars, pending, flush, closed>>

(* Trailers end the request; one that was dispatched before only ends.     *)
RequestTrailers ==
  /\ Completing(TRUE) /\ event.end_stream
  /\ \/ /\ stage[event.slot] = "ready"
        /\ Dispatched(event.slot, event.id, TRUE, FALSE)
     \/ /\ stage[event.slot] \in {"served", "tunnel"}
        /\ call' = Calling(event.slot, event.id, TRUE, "return")
        /\ UNCHANGED stage
  /\ finish_header_block
  /\ event' = NoEvent
  /\ UNCHANGED <<connectionVars, response, pending, flush, closed>>

-----------------------------------------------------------------------------
(* DATA.                                                                   *)

(* DATA before a request, or after a dispatched one.                       *)
DataMisplaced ==
  /\ Handling("data")
  /\ stage[event.slot] \notin {"ready", "tunnel"}
  /\ send_reset(event.id)
  /\ event' = NoEvent
  /\ UNCHANGED <<idVars, blockVars, creditVars, settingsVars, call, flush, closed>>

(* The whole payload is given back, padding included.                      *)
restore_receive_credit(i, length) ==
  /\ connection_receive_window' = connection_receive_window + length
  /\ receive_windows' = [receive_windows EXCEPT ![i] = @ + length]

(* The credit is given back before the bytes are looked at.                *)
DataTaken ==
  /\ Handling("data")
  /\ stage[event.slot] \in {"ready", "tunnel"}
  /\ restore_receive_credit(event.slot, event.length)
  /\ event' = [event EXCEPT !.kind = "bytes"]
  /\ UNCHANGED <<stream_ids, states, send_windows, allowances, idVars, resetVars,
                 blockVars, connection_send_window, allowance, settingsVars, streamVars, headerVars,
                 call, flush, closed>>

(* The body is too long, or the tunnel does not take the bytes.            *)
BytesRejected ==
  /\ Handling("bytes")
  /\ send_reset(event.id)
  /\ event' = NoEvent
  /\ UNCHANGED <<idVars, blockVars, creditVars, settingsVars, call, flush, closed>>

BytesTaken ==
  /\ Handling("bytes")
  /\ \/ /\ stage[event.slot] = "tunnel"
        /\ call' = Calling(event.slot, event.id, event.end_stream, "ws_data")
        /\ UNCHANGED stage
     \/ /\ stage[event.slot] = "ready" /\ event.end_stream
        /\ Dispatched(event.slot, event.id, TRUE, FALSE)
     \/ /\ stage[event.slot] = "ready" /\ ~event.end_stream
        /\ UNCHANGED <<stage, call>>
  /\ event' = NoEvent
  /\ UNCHANGED <<connectionVars, response, pending, headerVars, flush, closed>>

HandleDiscardedData ==
  /\ Handling("discarded_data")
  /\ connection_receive_window' = connection_receive_window + event.length
  /\ event' = NoEvent
  /\ UNCHANGED <<slabVars, idVars, resetVars, blockVars, connection_send_window, allowance,
                 settingsVars, streamVars, headerVars, call, flush, closed>>

-----------------------------------------------------------------------------
(* Callbacks return.                                                       *)

(* dispatch_http2_request fails before its response is complete: the stream *)
(* is reset unless the handler has done so itself.                         *)
CallFails ==
  /\ Ready /\ call.callback = "request"
  /\ response[call.slot] \in {"none", "open", "retry"}
  /\ \/ find(call.id) # {} /\ send_reset(call.id)
     \/ find(call.id) = {} /\ UNCHANGED <<slabVars, resetVars, streamVars, headerVars>>
  /\ call' = NoCall
  /\ UNCHANGED <<idVars, blockVars, creditVars, settingsVars, event, flush, closed>>

(* The peer has ended its side.                                            *)
finish_remote(i) ==
  \/ /\ states[i] \in {"half_closed_local", "closed"}
     /\ release(i)
     /\ clear_stream(i)
  \/ /\ states[i] \in {"open", "half_closed_remote"}
     /\ states' = [states EXCEPT ![i] = "half_closed_remote"]
     /\ UNCHANGED <<stream_ids, receive_windows, send_windows, allowances,
                    streamVars, headerVars>>

(* Mutant: the slot of a stream that was released meanwhile is not cleared. *)
CallReturns_NoClear ==
  /\ Ready /\ call # NoCall
  /\ \/ find(call.id) = {} /\ UNCHANGED <<slabVars, streamVars, headerVars>>
     \/ \E i \in find(call.id) :
          IF call.end_stream /\ i = call.slot THEN finish_remote(i)
          ELSE UNCHANGED <<slabVars, streamVars, headerVars>>
  /\ call' = NoCall
  /\ UNCHANGED <<idVars, resetVars, blockVars, creditVars, settingsVars, event, flush, closed>>

(* A stream that was released meanwhile leaves its slot to be cleared.     *)
CallReturns ==
  /\ Ready /\ call # NoCall
  /\ \/ /\ find(call.id) = {}
        /\ clear_stream(call.slot)
        /\ UNCHANGED slabVars
     \/ \E i \in find(call.id) :
          IF call.end_stream /\ i = call.slot THEN finish_remote(i)
          ELSE UNCHANGED <<slabVars, streamVars, headerVars>>
  /\ call' = NoCall
  /\ UNCHANGED <<idVars, resetVars, blockVars, creditVars, settingsVars, event, flush, closed>>

-----------------------------------------------------------------------------
(* The application, in a callback or between frames, on a stream whose     *)
(* request it has been given.                                              *)

Serving(i) ==
  /\ Ready /\ event = NoEvent /\ call.callback \in {"none", "request", "ws_data"}
  /\ Active(i) /\ stage[i] \in {"served", "tunnel"}

SendResponse(i, body) ==
  /\ Serving(i) /\ response[i] = "none"
  /\ response' = [response EXCEPT ![i] = "headers"]
  /\ pending' = [pending EXCEPT ![i] = body]
  /\ flush' = <<i>>
  /\ UNCHANGED <<connectionVars, event, stage, headerVars, call, closed>>

BeginResponse(i) ==
  /\ Serving(i) /\ response[i] = "none"
  /\ response' = [response EXCEPT ![i] = "open"]
  /\ UNCHANGED <<connectionVars, event, stage, pending, headerVars, call, flush, closed>>

(* Mutant: reserve_send_credit looks at the connection's window only.      *)
HasCredit_ConnectionOnly(i, length) == length <= connection_send_window

HasCredit(i, length) == length <= connection_send_window /\ length <= send_windows[i]

(* Mutant: the connection's credit is not refunded.                        *)
send_data_frame_KeepsCredit(i, length, written) ==
  /\ connection_send_window' = connection_send_window - length
  /\ send_windows' = [send_windows EXCEPT ![i] = IF written THEN @ - length ELSE @]
  /\ allowance' = IF written THEN allowance - length ELSE allowance
  /\ allowances' = [allowances EXCEPT ![i] = IF written THEN @ - length ELSE @]
  /\ UNCHANGED <<stream_ids, receive_windows, connection_receive_window>>

(* Credit is reserved, and refunded when the transport does not take the   *)
(* frame; the peer counts what was written.                                *)
send_data_frame(i, length, written) ==
  LET refund == IF written THEN 0 ELSE length
  IN /\ connection_send_window' = connection_send_window - length + refund
     /\ send_windows' = [send_windows EXCEPT ![i] = @ - length + refund]
     /\ allowance' = IF written THEN allowance - length ELSE allowance
     /\ allowances' = [allowances EXCEPT ![i] = IF written THEN @ - length ELSE @]
     /\ UNCHANGED <<stream_ids, receive_windows, connection_receive_window>>

WriteData(i, length) ==
  /\ Serving(i) /\ response[i] \in {"open", "retry"}
  /\ length \in 1 .. FrameCapacity
  /\ \/ /\ HasCredit(i, length)
        /\ \E written \in BOOLEAN :
             /\ send_data_frame(i, length, written)
             /\ response' = [response EXCEPT ![i] = IF written THEN "open" ELSE "retry"]
     \/ /\ ~HasCredit(i, length)
        /\ response' = [response EXCEPT ![i] = "retry"]
        /\ UNCHANGED <<slabVars, creditVars>>
  /\ UNCHANGED <<states, idVars, resetVars, blockVars, settingsVars, event,
                 stage, pending, headerVars, call, flush, closed>>

FinishResponse(i) ==
  /\ Serving(i) /\ response[i] \in {"open", "ending"}
  /\ response' = [response EXCEPT ![i] = "ending"]
  /\ flush' = <<i>>
  /\ UNCHANGED <<connectionVars, event, stage, pending, headerVars, call, closed>>

(* A timeout, a failed producer, the end of a tunnel.                      *)
ResetStream(i) ==
  /\ Serving(i)
  /\ send_reset(stream_ids[i])
  /\ UNCHANGED <<idVars, blockVars, creditVars, settingsVars, event, call, flush, closed>>

-----------------------------------------------------------------------------
(* flush_pending_stream, a step for every frame it writes.                 *)

TransportDrains ==
  /\ Between
  /\ flush' = [i \in Slots |-> i]
  /\ UNCHANGED <<connectionVars, event, streamVars, headerVars, call, closed>>

Least(S) == CHOOSE x \in S : \A y \in S : x <= y

FrameSize(i) == Least({pending[i], FrameCapacity, connection_send_window, send_windows[i]})

Pending == {"headers", "body", "ending"}

(* The last frame of a response ends the local side.  A slot whose request *)
(* handler is running is cleared when the handler returns.                 *)
close_local(i) ==
  \/ /\ states[i] = "open"
     /\ states' = [states EXCEPT ![i] = "half_closed_local"]
     /\ response' = [response EXCEPT ![i] = "ended"]
     /\ pending' = [pending EXCEPT ![i] = 0]
     /\ UNCHANGED <<stream_ids, receive_windows, stage, headerVars>>
  \/ /\ states[i] = "half_closed_remote"
     /\ stream_ids' = [stream_ids EXCEPT ![i] = 0]
     /\ states' = [states EXCEPT ![i] = "idle"]
     /\ receive_windows' = [receive_windows EXCEPT ![i] = DefaultWindow]
     /\ IF call.slot = i /\ call.callback = "request"
        THEN /\ response' = [response EXCEPT ![i] = "ended"]
             /\ pending' = [pending EXCEPT ![i] = 0]
             /\ UNCHANGED <<stage, headerVars>>
        ELSE clear_stream(i)

(* The send windows once the local side of the slot is closed.             *)
closed_windows(i, windows) ==
  IF states[i] = "half_closed_remote" THEN [windows EXCEPT ![i] = DefaultWindow] ELSE windows

(* Nothing is pending, or what is has lost its stream.                     *)
FlushNothing(i) ==
  /\ Active(i) => response[i] \notin Pending
  /\ response' = [response EXCEPT ![i] = IF @ \in Pending THEN "ended" ELSE @]
  /\ pending' = [pending EXCEPT ![i] = IF response[i] \in Pending THEN 0 ELSE @]
  /\ flush' = Tail(flush)
  /\ UNCHANGED <<slabVars, creditVars, stage, headerVars>>

(* The transport would block, or there is no credit.                       *)
FlushBlocked(i) ==
  /\ Active(i) /\ response[i] \in Pending
  /\ flush' = Tail(flush)
  /\ UNCHANGED <<slabVars, creditVars, streamVars, headerVars>>

FlushHeaders(i) ==
  /\ Active(i) /\ response[i] = "headers"
  /\ \/ /\ pending[i] = 0
        /\ close_local(i)
        /\ send_windows' = closed_windows(i, send_windows)
        /\ flush' = Tail(flush)
     \/ /\ pending[i] # 0
        /\ response' = [response EXCEPT ![i] = "body"]
        /\ UNCHANGED <<stream_ids, states, receive_windows, send_windows, stage, pending,
                       headerVars, flush>>
  /\ UNCHANGED <<allowances, creditVars>>

FlushBody(i) ==
  /\ Active(i) /\ response[i] = "body" /\ FrameSize(i) > 0
  /\ connection_send_window' = connection_send_window - FrameSize(i)
  /\ allowance' = allowance - FrameSize(i)
  /\ allowances' = [allowances EXCEPT ![i] = @ - FrameSize(i)]
  /\ LET reserved == [send_windows EXCEPT ![i] = @ - FrameSize(i)]
     IN \/ /\ FrameSize(i) = pending[i]
           /\ close_local(i)
           /\ send_windows' = closed_windows(i, reserved)
           /\ flush' = Tail(flush)
        \/ /\ FrameSize(i) # pending[i]
           /\ pending' = [pending EXCEPT ![i] = @ - FrameSize(i)]
           /\ send_windows' = reserved
           /\ UNCHANGED <<stream_ids, states, receive_windows, stage, response, headerVars, flush>>
  /\ UNCHANGED connection_receive_window

FlushEnding(i) ==
  /\ Active(i) /\ response[i] = "ending"
  /\ close_local(i)
  /\ send_windows' = closed_windows(i, send_windows)
  /\ flush' = Tail(flush)
  /\ UNCHANGED <<allowances, creditVars>>

flush_pending_stream ==
  /\ ~closed /\ flush # <<>>
  /\ \/ FlushNothing(Head(flush))
     \/ FlushBlocked(Head(flush))
     \/ FlushHeaders(Head(flush))
     \/ FlushBody(Head(flush))
     \/ FlushEnding(Head(flush))
  /\ UNCHANGED <<idVars, resetVars, blockVars, settingsVars, event, call, closed>>

(* A frame other than a response cannot be written: the listener closes    *)
(* the connection.                                                         *)
TransportFails ==
  /\ ~closed
  /\ closed' = TRUE
  /\ UNCHANGED <<connectionVars, event, streamVars, headerVars, call, flush>>

-----------------------------------------------------------------------------
Init ==
  /\ stream_ids = [i \in Slots |-> 0]
  /\ states = [i \in Slots |-> "idle"]
  /\ receive_windows = [i \in Slots |-> DefaultWindow]
  /\ send_windows = [i \in Slots |-> DefaultWindow]
  /\ allowances = [i \in Slots |-> DefaultWindow]
  /\ initial_window_size = DefaultWindow
  /\ peer_settings_seen = FALSE
  /\ connection_receive_window = DefaultWindow
  /\ connection_send_window = DefaultWindow
  /\ allowance = DefaultWindow
  /\ highest_peer_stream_id = 0
  /\ opened_peer_bitmap = {}
  /\ opened = {}
  /\ continuation_stream_id = 0
  /\ discarding = [discard \in Discards |-> 0]
  /\ local_reset_stream_ids = [k \in Slots |-> 0]
  /\ local_reset_cursor = 1
  /\ shutting_down = FALSE
  /\ event = NoEvent
  /\ stage = [i \in Slots |-> "new"]
  /\ response = [i \in Slots |-> "none"]
  /\ pending = [i \in Slots |-> 0]
  /\ header_stream_index = 0
  /\ header_end_stream = FALSE
  /\ header_is_trailer = FALSE
  /\ discarded_header = [discard \in Discards |-> 0]
  /\ call = NoCall
  /\ flush = <<>>
  /\ closed = FALSE

(* What the session does with the event of a frame.                        *)
HandleEvent ==
  \/ HandleConnectionError \/ HandleStreamError \/ HandleStreamReset \/ HandleCredit
  \/ FirstFragment \/ FirstDiscarded \/ NextFragment \/ BlockFails \/ BlockGoesOn
  \/ complete_discarded_headers \/ HeadersRejected \/ RequestTrailers
  \/ \E body \in BodySizes : ConnectRefused(body)
  \/ \E protocol \in BOOLEAN : RequestHeaders(protocol)
  \/ DataMisplaced \/ DataTaken \/ BytesRejected \/ BytesTaken \/ HandleDiscardedData

Application ==
  \E i \in Slots :
    \/ \E body \in BodySizes : SendResponse(i, body)
    \/ BeginResponse(i)
    \/ \E length \in 1 .. FrameCapacity : WriteData(i, length)
    \/ FinishResponse(i)
    \/ ResetStream(i)

Next ==
  \/ ReceiveFrame \/ HandleEvent \/ CallFails \/ CallReturns \/ Application
  \/ TransportDrains \/ flush_pending_stream \/ TransportFails

Spec == Init /\ [][Next]_vars

-----------------------------------------------------------------------------
(* Properties.                                                             *)

Windows == -MaxWindow .. MaxWindow
StreamIds == Ids \cup {0}

EventKinds ==
  {"none", "connection_error", "stream_error", "stream_reset", "settings", "window_update",
   "headers", "continuation", "fragment", "data", "bytes", "discarded_headers",
   "discarded_continuation", "discarded_fragment", "discarded_data"}

Events == [kind : EventKinds, slot : Slots \cup {0}, id : StreamIds, length : Nat,
           end_headers : BOOLEAN, end_stream : BOOLEAN, discard : Discards \cup {"none"}]

Calls == [slot : Slots \cup {0}, id : StreamIds, end_stream : BOOLEAN,
          callback : {"none", "request", "ws_data", "connect", "return"}]

(* The types, with the range of every flow control window: a change of the *)
(* initial window size moves a stream's window below zero and not out of   *)
(* the range of RFC 9113 (update_initial_send_window, add_window).         *)
TypeOK ==
  /\ stream_ids \in [Slots -> StreamIds]
  /\ states \in [Slots -> StreamStates]
  /\ receive_windows \in [Slots -> 0 .. DefaultWindow]
  /\ send_windows \in [Slots -> Windows]
  /\ allowances \in [Slots -> Int]
  /\ initial_window_size \in 0 .. MaxWindow
  /\ peer_settings_seen \in BOOLEAN
  /\ connection_receive_window \in 0 .. DefaultWindow
  /\ connection_send_window \in 0 .. MaxWindow
  /\ allowance \in Int
  /\ highest_peer_stream_id \in StreamIds
  /\ opened_peer_bitmap \subseteq 0 .. Width - 1
  /\ opened \subseteq Ids
  /\ continuation_stream_id \in StreamIds
  /\ discarding \in [Discards -> StreamIds]
  /\ local_reset_stream_ids \in [Slots -> StreamIds]
  /\ local_reset_cursor \in Slots
  /\ shutting_down \in BOOLEAN
  /\ event \in Events
  /\ stage \in [Slots -> Stages]
  /\ response \in [Slots -> Responses]
  /\ pending \in [Slots -> Nat]
  /\ header_stream_index \in Slots \cup {0}
  /\ header_end_stream \in BOOLEAN
  /\ header_is_trailer \in BOOLEAN
  /\ discarded_header \in [Discards -> StreamIds]
  /\ call \in Calls
  /\ flush \in Seq(Slots)
  /\ closed \in BOOLEAN

(* An identifier has at most one stream, and every stream was opened by    *)
(* the peer, in order: find has one answer.                                *)
StreamsAreDistinct ==
  \A i \in Slots :
    Active(i) => /\ stream_ids[i] \in opened /\ stream_ids[i] <= highest_peer_stream_id
                 /\ \A j \in Slots : Active(j) /\ stream_ids[j] = stream_ids[i] => i = j

(* Within its width the bitmap of opened identifiers is exact, however     *)
(* many the peer skips.                                                    *)
OpenedIsExact ==
  \A id \in Ids :
    id <= highest_peer_stream_id /\ (highest_peer_stream_id - id) \div 2 < Width
      => (was_opened(id) <=> id \in opened)

(* Both send windows are what the peer counts, whatever was reserved,      *)
(* refused by the transport and refunded, and moved by SETTINGS.           *)
PeerAgrees ==
  /\ connection_send_window = allowance
  /\ \A i \in Slots : Active(i) => send_windows[i] = allowances[i]

(* DATA is written only within the credit the peer counts, for the         *)
(* connection and for the stream.                                          *)
NoOverrun ==
  [][allowance' < allowance
       => /\ allowance' >= 0
          /\ \A i \in Slots : allowances'[i] # allowances[i] => allowances'[i] >= 0]_vars

(* Between frames the receive window of every stream is whole again: the   *)
(* credit of a frame is given back with its padding, once.                 *)
CreditReturned ==
  event.kind # "data" => \A i \in Slots : Active(i) => receive_windows[i] = DefaultWindow

(* A slot that is free carries nothing of its last stream into the next,   *)
(* unless the handler of that stream is still running or its reset is not  *)
(* handled yet.                                                            *)
SlotsAreClean ==
  \A i \in Slots :
    ~Active(i) /\ call.slot # i /\ ~(event.kind = "stream_reset" /\ event.slot = i)
      => stage[i] = "new" /\ response[i] = "none" /\ pending[i] = 0

(* A stream that both sides have closed keeps its slot only until its      *)
(* last header block is complete.                                          *)
ClosedIsReleased ==
  Between => \A i \in Slots : states[i] = "closed" => continuation_stream_id = stream_ids[i]

(* A continuation that the connection lets through belongs to the block    *)
(* the session is in: the session's own checks never fail.                 *)
ContinuationsMatch ==
  /\ event.kind = "continuation" => header_stream_index = event.slot
  /\ event.kind = "discarded_continuation" => discarded_header[event.discard] = event.id

(* A response that is pending can be ended: close_local does not find the  *)
(* local side closed, which would take the connection down.                *)
ResponsesCanEnd ==
  \A i \in Slots :
    Active(i) /\ response[i] \in Pending => states[i] \in {"open", "half_closed_remote"}

-----------------------------------------------------------------------------
(* The parts together.                                                     *)

(* A change of the initial window size moves a stream's window below zero  *)
(* and not out of the range of RFC 9113 (update_initial_send_window,       *)
(* add_window); the other windows stay between zero and the largest.       *)
WindowsInRange ==
  /\ connection_send_window \in 0 .. MaxWindow
  /\ connection_receive_window \in 0 .. DefaultWindow
  /\ \A i \in Slots : send_windows[i] \in Windows /\ receive_windows[i] \in 0 .. DefaultWindow

(* Flow control: every window stays in range, the send windows are what    *)
(* the peer counts after any writes, refusals, refunds, updates and        *)
(* settings, and received credit is given back whole, padding included.    *)
CreditAgrees == WindowsInRange /\ PeerAgrees /\ CreditReturned

(* find and was_opened have one right answer: an identifier has at most    *)
(* one slot, a slot only an opened identifier, and the bitmap forgets none *)
(* within its width, whatever the peer skips, resets and opens.            *)
IdentifiersAreKnown == StreamsAreDistinct /\ OpenedIsExact

(* A stream that both sides have ended gives its slot back, in whichever   *)
(* order they end and whoever runs, and leaves nothing in it.              *)
SlotsComeBack == SlotsAreClean /\ ClosedIsReleased

(* Two checks the session makes of itself, each fatal to the connection,   *)
(* never fail: a continuation is of the block the session is in            *)
(* (receive_continuation), and a response ends an open local side          *)
(* (close_local).                                                          *)
ChecksNeverFail == ContinuationsMatch /\ ResponsesCanEnd
=============================================================================
