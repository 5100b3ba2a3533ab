------------------------- MODULE Http2SessionProofs -------------------------
(***************************************************************************)
(* The safety of an HTTP/2 session, for any number of slots, identifiers,  *)
(* window sizes and bodies.                                                *)
(***************************************************************************)
EXTENDS Http2Session, TLAPS

USE DEF slabVars, idVars, resetVars, blockVars, creditVars, settingsVars,
        connectionVars, streamVars, headerVars

-----------------------------------------------------------------------------
(* The types, by what changes together.                                    *)

SlabTypes ==
  /\ stream_ids \in [Slots -> StreamIds]
  /\ states \in [Slots -> StreamStates]
  /\ receive_windows \in [Slots -> 0 .. DefaultWindow]
  /\ send_windows \in [Slots -> Windows]
  /\ allowances \in [Slots -> Int]

CreditTypes ==
  /\ initial_window_size \in 0 .. MaxWindow
  /\ connection_receive_window \in 0 .. DefaultWindow
  /\ connection_send_window \in 0 .. MaxWindow
  /\ allowance \in Int

IdTypes ==
  /\ highest_peer_stream_id \in StreamIds
  /\ opened_peer_bitmap \subseteq 0 .. Width - 1
  /\ opened \subseteq Ids

ResetTypes ==
  /\ local_reset_stream_ids \in [Slots -> StreamIds]
  /\ local_reset_cursor \in Slots

BlockTypes ==
  /\ continuation_stream_id \in StreamIds
  /\ discarding \in [Discards -> StreamIds]

HeaderTypes ==
  /\ header_stream_index \in Slots \cup {0}
  /\ header_end_stream \in BOOLEAN
  /\ header_is_trailer \in BOOLEAN
  /\ discarded_header \in [Discards -> StreamIds]

StageTypes ==
  /\ stage \in [Slots -> Stages]
  /\ response \in [Slots -> Responses]
  /\ pending \in [Slots -> Nat]

FlagTypes ==
  /\ peer_settings_seen \in BOOLEAN
  /\ shutting_down \in BOOLEAN
  /\ closed \in BOOLEAN

ControlTypes ==
  /\ event \in Events
  /\ call \in Calls
  /\ flush \in Seq(Slots)

\* The parts make up the type invariant.
LEMMA TypeParts ==
  TypeOK <=> /\ SlabTypes /\ CreditTypes /\ IdTypes /\ ResetTypes /\ BlockTypes
             /\ HeaderTypes /\ StageTypes /\ FlagTypes /\ ControlTypes
  BY DEF TypeOK, SlabTypes, CreditTypes, IdTypes, ResetTypes, BlockTypes, HeaderTypes,
         StageTypes, FlagTypes, ControlTypes

-----------------------------------------------------------------------------
(* The inductive invariant.                                                *)

StreamKinds == {"headers", "continuation", "fragment", "data", "bytes"}
BlockKinds == {"headers", "continuation", "fragment"}
DiscardKinds == {"discarded_headers", "discarded_continuation", "discarded_fragment"}

(* The bitmap holds the identifiers opened within its width, no others.    *)
BitmapExact ==
  \A b \in 0 .. Width - 1 : b \in opened_peer_bitmap <=> highest_peer_stream_id - 2 * b \in opened

Streams ==
  /\ StreamsAreDistinct
  /\ \A id \in opened : id <= highest_peer_stream_id
  /\ BitmapExact

(* An event of a stream names its slot.                                    *)
EventOK ==
  /\ event.kind \in StreamKinds => /\ event.slot \in Slots /\ Active(event.slot)
                                   /\ stream_ids[event.slot] = event.id
  /\ event.kind \in DiscardKinds => event.discard \in Discards /\ event.id \in Ids
  /\ event.kind = "stream_error" => event.id \in Ids
  /\ event.kind = "stream_reset" => event.slot \in Slots /\ ~Active(event.slot)

(* Only a DATA frame not handled yet holds receive credit of its stream.   *)
Held(i) == IF event.kind = "data" /\ event.slot = i THEN event.length ELSE 0

ReceiveOK ==
  /\ \A i \in Slots : Active(i) => receive_windows[i] = DefaultWindow - Held(i)
  /\ event.kind \in {"data", "discarded_data"}
       => connection_receive_window + event.length <= DefaultWindow

SlotOK(i) ==
  /\ ~Active(i) /\ call.slot # i /\ ~(event.kind = "stream_reset" /\ event.slot = i)
       => stage[i] = "new"
  /\ stage[i] = "new" => response[i] = "none" /\ pending[i] = 0
  /\ states[i] \in {"half_closed_local", "closed"} => response[i] = "ended"

SlotsOK == \A i \in Slots : SlotOK(i)

(* While a callback runs its slot is not given to another stream.          *)
CallOK ==
  /\ call.callback = "none" => call = NoCall
  /\ call # NoCall =>
       /\ closed \/ event = NoEvent
       /\ call.slot \in Slots /\ call.id \in Ids
       /\ header_stream_index = 0
       /\ \A i \in find(call.id) : i = call.slot
       /\ Active(call.slot) => stream_ids[call.slot] = call.id
       /\ ~Active(call.slot) /\ stage[call.slot] # "new"
            => call.callback = "request" /\ response[call.slot] = "ended" /\ pending[call.slot] = 0

NoDiscard == \A d \in Discards : discarding[d] = 0

(* A discarded block is one block, that connection and session agree on.   *)
DiscardOK ==
  \A d \in Discards : discarding[d] # 0 =>
    /\ discarding[d] = continuation_stream_id
    /\ \A e \in Discards : discarding[e] # 0 => d = e
    /\ \/ discarded_header[d] = discarding[d]
       \/ event.kind = "discarded_headers" /\ event.discard = d /\ event.id = discarding[d]

(* What a fragment that the session handles says of the block.             *)
FragmentOK ==
  /\ event.kind \in BlockKinds =>
       continuation_stream_id = (IF event.end_headers THEN 0 ELSE event.id)
  /\ event.kind \in BlockKinds /\ ~event.end_headers => NoDiscard
  /\ event.kind \in DiscardKinds /\ event.end_headers => continuation_stream_id = 0
  /\ event.kind \in DiscardKinds /\ ~event.end_headers => discarding[event.discard] = event.id
  /\ event.kind \in {"headers", "discarded_headers"} => header_stream_index = 0
  /\ event.kind \in {"continuation", "fragment"} => header_stream_index = event.slot
  /\ event.kind = "fragment" => event.end_stream = header_end_stream
  /\ event.kind \in {"data", "bytes"} => continuation_stream_id = 0

(* The block the session is in is the one the connection expects.          *)
HeaderOK ==
  /\ header_stream_index # 0 =>
       /\ Active(header_stream_index)
       /\ \/ continuation_stream_id = stream_ids[header_stream_index] /\ NoDiscard
          \/ /\ event.kind \in {"continuation", "fragment"} /\ event.slot = header_stream_index
             /\ event.end_headers
       /\ ~header_is_trailer => /\ stage[header_stream_index] = "headers"
                                /\ response[header_stream_index] = "none"
  /\ continuation_stream_id # 0 /\ NoDiscard =>
       \A i \in find(continuation_stream_id) :
         header_stream_index = i \/ (event.kind = "headers" /\ event.slot = i)

(* Who will release a stream that both sides have closed.                  *)
ClosedOK ==
  \A i \in Slots : states[i] = "closed" =>
    \/ event.slot = i /\ event.kind = "headers" /\ event.end_stream
    \/ event.slot = i /\ event.kind \in {"continuation", "fragment"} /\ header_end_stream
    \/ call.slot = i /\ call.end_stream
    \/ header_stream_index = i /\ header_end_stream /\ continuation_stream_id = stream_ids[i]

(* No frame is received while responses are flushed.                       *)
FlushOK == flush # <<>> => event = NoEvent

LiveOK == DiscardOK /\ FragmentOK /\ HeaderOK /\ ClosedOK /\ FlushOK

Inv ==
  /\ SlabTypes /\ CreditTypes /\ IdTypes /\ ResetTypes /\ BlockTypes
  /\ HeaderTypes /\ StageTypes /\ FlagTypes /\ ControlTypes
  /\ Streams /\ EventOK /\ PeerAgrees /\ ReceiveOK
  /\ SlotsOK /\ CallOK /\ ContinuationsMatch
  /\ ~closed => LiveOK

-----------------------------------------------------------------------------
(* Facts about the constants and the operators.                            *)

\* Slot numbers and stream identifiers are never 0, the value for none.
LEMMA Zeros == 0 \notin Slots /\ 0 \notin Ids /\ Slots \subseteq Nat
  BY Http2Assumption DEF Slots

\* The least of four numbers is one of them and below the others.
LEMMA LeastOfFour ==
  ASSUME NEW a \in Int, NEW b \in Int, NEW c \in Int, NEW d \in Int
  PROVE  LET m == Least({a, b, c, d})
         IN m \in {a, b, c, d} /\ m <= a /\ m <= b /\ m <= c /\ m <= d
<1>1. \E x \in {a, b, c, d} : \A y \in {a, b, c, d} : x <= y
  OBVIOUS
<1> QED
  BY <1>1 DEF Least

\* Records of events and calls have their types.
LEMMA EventTypes ==
  /\ \A kind \in EventKinds, slot \in Slots \cup {0}, id \in StreamIds, length \in Nat,
        end_headers \in BOOLEAN, end_stream \in BOOLEAN :
       EventOf(kind, slot, id, length, end_headers, end_stream) \in Events
  /\ \A kind \in EventKinds, discard \in Discards, id \in StreamIds, end_headers \in BOOLEAN :
       DiscardEvent(kind, discard, id, end_headers) \in Events
  /\ NoEvent \in Events /\ ConnectionError \in Events
  /\ \A id \in StreamIds : StreamError(id) \in Events
<1>1. 0 \in Slots \cup {0} /\ 0 \in StreamIds /\ 0 \in Nat /\ "none" \in Discards \cup {"none"}
  BY DEF StreamIds
<1>2. \A kind \in EventKinds, slot \in Slots \cup {0}, id \in StreamIds, length \in Nat,
        end_headers \in BOOLEAN, end_stream \in BOOLEAN :
       EventOf(kind, slot, id, length, end_headers, end_stream) \in Events
  BY <1>1 DEF EventOf, Events
<1>3. \A kind \in EventKinds, discard \in Discards, id \in StreamIds, end_headers \in BOOLEAN :
       DiscardEvent(kind, discard, id, end_headers) \in Events
  BY <1>1 DEF DiscardEvent, Events
<1>4. "none" \in EventKinds /\ "connection_error" \in EventKinds /\ "stream_error" \in EventKinds
      /\ FALSE \in BOOLEAN
  BY DEF EventKinds
<1>5. NoEvent \in Events /\ ConnectionError \in Events
  BY <1>1, <1>2, <1>4, Zenon DEF NoEvent, ConnectionError
<1>6. \A id \in StreamIds : StreamError(id) \in Events
  BY <1>1, <1>2, <1>4, Zenon DEF StreamError
<1> QED
  BY <1>2, <1>3, <1>5, <1>6, Zenon

\* The events of rejected frames, by kind.
LEMMA ErrorFields ==
  /\ NoEvent.kind = "none" /\ ConnectionError.kind = "connection_error"
  /\ \A id \in Ids : StreamError(id).kind = "stream_error" /\ StreamError(id).id = id
  BY DEF NoEvent, ConnectionError, StreamError, EventOf

\* What a frame that is not accepted leaves.
LEMMA ErrorEvents ==
  ASSUME NEW id \in Ids, NEW e \in {NoEvent, ConnectionError, StreamError(id)}
  PROVE  /\ e \in Events /\ e.kind \in {"none", "connection_error", "stream_error"}
         /\ e.kind = "stream_error" => e.id = id
<1>1. CASE e = NoEvent
  BY <1>1, EventTypes, ErrorFields
<1>2. CASE e = ConnectionError
  BY <1>2, EventTypes, ErrorFields
<1>3. CASE e = StreamError(id)
  BY <1>3, EventTypes, ErrorFields DEF StreamIds
<1> QED
  BY <1>1, <1>2, <1>3

\* The constructors of calls have the types of Calls.
LEMMA CallTypes ==
  /\ NoCall \in Calls
  /\ \A i \in Slots, id \in StreamIds, end_stream \in BOOLEAN,
        callback \in {"none", "request", "ws_data", "connect", "return"} :
       Calling(i, id, end_stream, callback) \in Calls
  BY DEF NoCall, Calling, Calls, StreamIds

\* The initial state satisfies the invariant.
LEMMA InitInv == Init => Inv
<1> SUFFICES ASSUME Init PROVE Inv
  OBVIOUS
<1> USE Http2Assumption, Zeros DEF Init
<1>1. /\ SlabTypes /\ CreditTypes /\ IdTypes /\ ResetTypes /\ BlockTypes
      /\ HeaderTypes /\ StageTypes /\ FlagTypes /\ ControlTypes
  <2>1. 1 \in Slots /\ <<>> \in Seq(Slots) /\ 0 \in StreamIds
    BY DEF Slots, StreamIds
  <2>2. SlabTypes /\ CreditTypes
    BY <2>1 DEF SlabTypes, CreditTypes, StreamStates, Windows
  <2>3. IdTypes /\ ResetTypes /\ BlockTypes /\ HeaderTypes /\ FlagTypes
    BY <2>1 DEF IdTypes, ResetTypes, BlockTypes, HeaderTypes, FlagTypes
  <2>4. StageTypes
    BY DEF StageTypes, Stages, Responses
  <2>5. ControlTypes
    BY <2>1, EventTypes, CallTypes DEF ControlTypes
  <2> QED
    BY <2>2, <2>3, <2>4, <2>5
<1>2. Streams
  BY DEF Streams, StreamsAreDistinct, BitmapExact, Active
<1>3. EventOK /\ ContinuationsMatch
  BY DEF EventOK, ContinuationsMatch, StreamKinds, DiscardKinds, NoEvent, EventOf
<1>4. PeerAgrees /\ ReceiveOK
  BY DEF PeerAgrees, ReceiveOK, Active, NoEvent, EventOf
<1>5. SlotsOK /\ CallOK
  BY DEF SlotsOK, SlotOK, CallOK
<1>6. DiscardOK /\ HeaderOK /\ ClosedOK
  BY DEF DiscardOK, HeaderOK, ClosedOK
<1>7. FragmentOK
  BY DEF FragmentOK, BlockKinds, DiscardKinds, NoEvent, EventOf
<1> QED
  BY <1>1, <1>2, <1>3, <1>4, <1>5, <1>6, <1>7 DEF Inv, LiveOK, FlushOK

-----------------------------------------------------------------------------
(* What each part of the invariant reads.                                  *)

\* A part keeps its value when the variables it reads do.
LEMMA TypeFrames ==
  /\ SlabTypes /\ UNCHANGED slabVars => SlabTypes'
  /\ CreditTypes /\ UNCHANGED <<creditVars, initial_window_size>> => CreditTypes'
  /\ IdTypes /\ UNCHANGED idVars => IdTypes'
  /\ ResetTypes /\ UNCHANGED resetVars => ResetTypes'
  /\ BlockTypes /\ UNCHANGED blockVars => BlockTypes'
  /\ HeaderTypes /\ UNCHANGED headerVars => HeaderTypes'
  /\ StageTypes /\ UNCHANGED streamVars => StageTypes'
  /\ FlagTypes /\ UNCHANGED <<peer_settings_seen, shutting_down, closed>> => FlagTypes'
  BY DEF SlabTypes, CreditTypes, IdTypes, ResetTypes, BlockTypes, HeaderTypes, StageTypes, FlagTypes

\* A step that leaves the slab's identifiers alone keeps them distinct and known.
LEMMA StreamsFrame ==
  ASSUME Streams, UNCHANGED <<stream_ids, states, idVars>>
  PROVE  Streams'
  BY DEF Streams, StreamsAreDistinct, BitmapExact, Active

\* A step that neither sends nor moves a window keeps the agreement with the peer.
LEMMA PeerFrame ==
  ASSUME PeerAgrees,
         UNCHANGED <<states, send_windows, allowances, connection_send_window, allowance>>
  PROVE  PeerAgrees'
  BY DEF PeerAgrees, Active

\* An event of no stream leaves nothing to say.
LEMMA QuietEvent ==
  ASSUME event'.kind \in {"none", "connection_error", "settings", "window_update"}
  PROVE  EventOK' /\ ContinuationsMatch' /\ FragmentOK'
  BY DEF EventOK, ContinuationsMatch, FragmentOK, StreamKinds, BlockKinds, DiscardKinds

\* A step that does not touch the receive windows keeps what they owe.
LEMMA ReceiveKept ==
  ASSUME ReceiveOK, UNCHANGED <<states, receive_windows>>,
         event.kind # "data", event'.kind \notin {"data", "discarded_data"}
  PROVE  ReceiveOK'
  BY DEF ReceiveOK, Held, Active

\* A step that leaves the slots alone keeps them in order.
LEMMA SlotsFrame ==
  ASSUME SlotsOK, UNCHANGED <<states, streamVars>>, call'.slot = call.slot \/ call = NoCall,
         event.kind # "stream_reset"
  PROVE  SlotsOK'
  BY Zeros DEF SlotsOK, SlotOK, Active, NoCall

\* Without a callback there is nothing to say of it.
LEMMA IdleCall ==
  ASSUME call' = NoCall
  PROVE  CallOK'
  BY DEF CallOK, NoCall

-----------------------------------------------------------------------------
(* The connection is closed.                                               *)

\* Whatever ends the connection leaves the rest of the state as it is.
LEMMA ClosingInv ==
  ASSUME Inv, closed' = TRUE, UNCHANGED <<connectionVars, streamVars, headerVars, call, flush>>,
         event' = event \/ (event' = NoEvent /\ event.kind \notin {"data", "stream_reset"})
  PROVE  Inv'
<1>1. /\ SlabTypes' /\ CreditTypes' /\ IdTypes' /\ ResetTypes' /\ BlockTypes'
      /\ HeaderTypes' /\ StageTypes' /\ Streams' /\ PeerAgrees'
  BY TypeFrames, StreamsFrame, PeerFrame DEF Inv
<1>2. FlagTypes' /\ ControlTypes'
  BY EventTypes DEF Inv, FlagTypes, ControlTypes
<1>3. EventOK' /\ ContinuationsMatch'
  <2>1. CASE event' = event
    BY <2>1 DEF Inv, EventOK, ContinuationsMatch, Active
  <2>2. CASE event' = NoEvent
    BY <2>2, QuietEvent DEF NoEvent, EventOf
  <2> QED
    BY <2>1, <2>2
<1>4. ReceiveOK' /\ SlotsOK'
  BY DEF Inv, ReceiveOK, Held, SlotsOK, SlotOK, Active, NoEvent, EventOf
<1>5. CallOK'
  BY DEF Inv, CallOK, Active, find
<1> QED
  BY <1>1, <1>2, <1>3, <1>4, <1>5 DEF Inv

\* Every way to close the connection.
LEMMA CloseInv ==
  ASSUME Inv, HandleConnectionError \/ BlockFails \/ TransportFails
  PROVE  Inv'
  BY ClosingInv DEF HandleConnectionError, BlockFails, TransportFails, Handling, send_goaway

-----------------------------------------------------------------------------
(* Slots are freed and cleared.                                            *)

\* The slots of F are free and clean, the others are as they were.
Freed(F) ==
  \A i \in Slots :
    IF i \in F
    THEN /\ states'[i] = "idle" /\ stage'[i] = "new" /\ response'[i] = "none" /\ pending'[i] = 0
    ELSE /\ stream_ids'[i] = stream_ids[i] /\ states'[i] = states[i] /\ stage'[i] = stage[i]
         /\ response'[i] = response[i] /\ pending'[i] = pending[i]
         /\ receive_windows'[i] = receive_windows[i]
         /\ send_windows'[i] = send_windows[i] /\ allowances'[i] = allowances[i]

\* The session leaves the header block of a freed slot.
Left(F) ==
  IF header_stream_index \in F THEN NoHeaders ELSE NoHeaders \/ UNCHANGED headerVars

\* Freeing slots keeps the invariant when the event is done, a callback that
\* is done has lost its slot, and a block that is left is over.
LEMMA FreedInv ==
  ASSUME Inv, ~closed, NEW F \in SUBSET Slots, Freed(F), Left(F),
         SlabTypes', StageTypes', CreditTypes', ResetTypes',
         connection_send_window' = allowance', ControlTypes',
         UNCHANGED <<idVars, blockVars, peer_settings_seen, shutting_down, closed>>,
         event' = NoEvent, event.kind \notin {"stream_reset", "discarded_headers"},
         event.kind \in StreamKinds => event.slot \in F,
         call' = call \/ (call' = NoCall /\ (call = NoCall \/ call.slot \in F)),
         header_stream_index \in F \/ UNCHANGED headerVars
           \/ (continuation_stream_id = 0 /\ header_stream_index = 0)
  PROVE  Inv'
<1> USE Zeros
<1>1. IdTypes' /\ BlockTypes' /\ FlagTypes'
  BY TypeFrames DEF Inv
<1>2. HeaderTypes'
  BY DEF Inv, HeaderTypes, Left, NoHeaders, StreamIds
<1>3. Streams'
  BY DEF Inv, Streams, StreamsAreDistinct, BitmapExact, Active, Freed
<1>4. EventOK' /\ ContinuationsMatch' /\ FragmentOK'
  BY QuietEvent DEF NoEvent, EventOf
<1>5. PeerAgrees'
  BY DEF Inv, PeerAgrees, Active, Freed
<1>6. ReceiveOK'
  BY DEF Inv, ReceiveOK, Held, Active, Freed, NoEvent, EventOf, StreamKinds
<1>7. SlotsOK'
  BY DEF Inv, SlotsOK, SlotOK, Active, Freed, NoEvent, EventOf, NoCall
<1>8. CallOK'
  <2>1. CASE call' = NoCall
    BY <2>1, IdleCall
  <2>2. CASE call' = call /\ call # NoCall
    <3>1. call.slot \in Slots /\ header_stream_index' = 0
      BY <2>2 DEF Inv, CallOK, Left, NoHeaders
    <3>2. \A i \in Slots : Active(i)' => i \notin F /\ Active(i) /\ stream_ids'[i] = stream_ids[i]
      BY DEF Freed, Active
    <3>3. ~Active(call.slot)' /\ stage'[call.slot] # "new"
            => /\ ~Active(call.slot) /\ stage[call.slot] # "new"
               /\ response'[call.slot] = response[call.slot] /\ pending'[call.slot] = pending[call.slot]
      BY <2>2, <3>1 DEF Freed, Active
    <3> QED
      BY <2>2, <3>1, <3>2, <3>3 DEF Inv, CallOK, find
  <2> QED
    BY <2>1, <2>2
<1>9. header_stream_index \in F => continuation_stream_id = 0 \/ NoDiscard
  BY DEF Inv, LiveOK, HeaderOK, FragmentOK, BlockKinds
<1>10. DiscardOK'
  <2>1. CASE UNCHANGED headerVars
    BY <2>1 DEF Inv, LiveOK, DiscardOK
  <2>2. CASE continuation_stream_id = 0 \/ NoDiscard
    BY <2>2 DEF Inv, LiveOK, DiscardOK, NoDiscard
  <2> QED
    BY <1>9, <2>1, <2>2
<1>11. HeaderOK'
  <2>1. ASSUME header_stream_index' # 0
        PROVE  header_stream_index' = header_stream_index /\ header_stream_index \in Slots \ F
               /\ UNCHANGED headerVars
    BY <2>1 DEF Inv, HeaderTypes, Left, NoHeaders
  <2>2. ASSUME header_stream_index' # 0
        PROVE  /\ Active(header_stream_index)'
               /\ continuation_stream_id' = stream_ids'[header_stream_index'] /\ NoDiscard'
               /\ ~header_is_trailer' => /\ stage'[header_stream_index'] = "headers"
                                         /\ response'[header_stream_index'] = "none"
    <3>1. /\ Active(header_stream_index)
          /\ continuation_stream_id = stream_ids[header_stream_index] /\ NoDiscard
          /\ ~header_is_trailer => /\ stage[header_stream_index] = "headers"
                                   /\ response[header_stream_index] = "none"
      BY <2>1, <2>2 DEF Inv, LiveOK, HeaderOK, StreamKinds
    <3> QED
      BY <2>1, <2>2, <3>1 DEF Freed, Active, NoDiscard
  <2>3. ASSUME continuation_stream_id' # 0, NoDiscard', NEW i \in find(continuation_stream_id)'
        PROVE  header_stream_index' = i
    <3>1. i \notin F /\ i \in find(continuation_stream_id)
      BY <2>3 DEF find, Freed, Active
    <3>2. header_stream_index = i
      BY <2>3, <3>1 DEF Inv, LiveOK, HeaderOK, NoDiscard, StreamKinds
    <3>3. i # 0 /\ continuation_stream_id # 0
      BY <2>3 DEF find
    <3> QED
      BY <3>1, <3>2, <3>3 DEF Left
  <2> QED
    BY <2>2, <2>3 DEF HeaderOK
<1>12. ClosedOK'
  BY DEF Inv, LiveOK, ClosedOK, Left, NoHeaders, Freed, Active, find, StreamKinds
<1> QED
  BY <1>1, <1>2, <1>3, <1>4, <1>5, <1>6, <1>7, <1>8, <1>10, <1>11, <1>12 DEF Inv, LiveOK, FlushOK

\* Remembering a reset keeps its types.
LEMMA RecordTypes ==
  ASSUME ResetTypes, NEW id \in Ids, record_local_reset(id)
  PROVE  ResetTypes'
<1>1. (local_reset_cursor % MaxStreams) + 1 \in Slots
  BY Http2Assumption DEF ResetTypes, Slots
<1> QED
  BY <1>1 DEF ResetTypes, record_local_reset, StreamIds

\* Releasing and clearing a slot.
LEMMA ReleaseFreed ==
  ASSUME SlabTypes, StageTypes, NEW i \in Slots, release(i),
         stage' = [stage EXCEPT ![i] = "new"], response' = [response EXCEPT ![i] = "none"],
         pending' = [pending EXCEPT ![i] = 0]
  PROVE  Freed({i}) /\ SlabTypes' /\ StageTypes'
<1>1. Freed({i})
  BY DEF SlabTypes, StageTypes, release, Freed
<1>2. SlabTypes'
  BY Http2Assumption DEF SlabTypes, release, StreamIds, StreamStates, Windows
<1>3. StageTypes'
  BY DEF StageTypes, Stages, Responses
<1> QED
  BY <1>1, <1>2, <1>3

\* A stream has one slot.
LEMMA OneSlot ==
  ASSUME Streams, NEW id, NEW i \in find(id)
  PROVE  i \in Slots /\ find(id) = {i}
  BY DEF Streams, StreamsAreDistinct, find

\* A step that changes no slot frees none.
LEMMA KeptFreed ==
  ASSUME UNCHANGED <<slabVars, streamVars>>
  PROVE  Freed({})
  BY DEF Freed

\* RST_STREAM frees the slot of the stream, if it has one.
LEMMA ResetFreed ==
  ASSUME Inv, NEW id \in Ids, send_reset(id) \/ reset_finished(id)
  PROVE  /\ Freed(find(id)) /\ Left(find(id)) /\ SlabTypes' /\ StageTypes' /\ ResetTypes'
         /\ send_reset(id) => header_stream_index \in find(id) \/ UNCHANGED headerVars
<1>1. ResetTypes'
  BY RecordTypes DEF Inv, send_reset, reset_finished
<1>2. CASE find(id) = {}
  <2>1. Freed(find(id)) /\ SlabTypes' /\ StageTypes'
    BY <1>2, KeptFreed, TypeFrames DEF Inv, send_reset, reset_finished
  <2>2. Left(find(id)) /\ (send_reset(id) => UNCHANGED headerVars)
    BY <1>2 DEF Left, send_reset, reset_finished, finish_header_block
  <2> QED
    BY <1>1, <2>1, <2>2
<1>3. ASSUME NEW i \in find(id) PROVE Freed(find(id)) /\ Left(find(id)) /\ SlabTypes' /\ StageTypes'
         /\ (send_reset(id) => header_stream_index \in find(id) \/ UNCHANGED headerVars)
  <2>1. i \in Slots /\ find(id) = {i}
    BY <1>3, OneSlot DEF Inv
  <2>2. /\ release(i) /\ stage' = [stage EXCEPT ![i] = "new"]
        /\ response' = [response EXCEPT ![i] = "none"] /\ pending' = [pending EXCEPT ![i] = 0]
    BY <2>1 DEF send_reset, reset_finished, clear_stream
  <2>3. Freed({i}) /\ SlabTypes' /\ StageTypes'
    BY <2>1, <2>2, ReleaseFreed DEF Inv
  <2>4. Left({i}) /\ (send_reset(id) => header_stream_index = i \/ UNCHANGED headerVars)
    BY <2>1 DEF Left, send_reset, reset_finished, clear_stream, finish_header_block
  <2> QED
    BY <2>1, <2>3, <2>4
<1> QED
  BY <1>1, <1>2, <1>3

\* A stream that is reset while the session handles an event of it, or none.
LEMMA SendResetInv ==
  ASSUME Inv, ~closed, NEW id \in Ids, send_reset(id), event' = NoEvent,
         event.kind \notin {"stream_reset", "discarded_headers"},
         event.kind \in StreamKinds => event.id = id,
         UNCHANGED <<idVars, blockVars, creditVars, settingsVars, flush, closed>>,
         call' = call \/ (call' = NoCall /\ call.slot \in find(id))
  PROVE  Inv'
<1>1. /\ Freed(find(id)) /\ Left(find(id)) /\ SlabTypes' /\ StageTypes' /\ ResetTypes'
      /\ header_stream_index \in find(id) \/ UNCHANGED headerVars
  BY ResetFreed
<1>2. CreditTypes' /\ connection_send_window' = allowance'
  BY DEF Inv, CreditTypes, PeerAgrees
<1>3. ControlTypes'
  BY EventTypes, CallTypes DEF Inv, ControlTypes
<1>4. event.kind \in StreamKinds => event.slot \in find(id)
  BY DEF Inv, EventOK, find
<1>5. find(id) \in SUBSET Slots
  BY DEF find
<1> QED
  BY <1>1, <1>2, <1>3, <1>4, <1>5, FreedInv

\* The handlers that reset a stream and leave its block as it was.
LEMMA ResetsInv ==
  ASSUME Inv, \/ HandleStreamError \/ DataMisplaced \/ BytesRejected
              \/ \E i \in Slots : ResetStream(i)
  PROVE  Inv'
<1>1. CASE HandleStreamError
  BY <1>1, SendResetInv DEF HandleStreamError, Handling, Ready, Inv, EventOK, StreamKinds
<1>2. CASE DataMisplaced
  <2>1. event.id \in Ids
    BY <1>2 DEF DataMisplaced, Handling, Inv, EventOK, StreamKinds, Streams, StreamsAreDistinct, IdTypes
  <2> QED
    BY <1>2, <2>1, SendResetInv DEF DataMisplaced, Handling, Ready, StreamKinds
<1>3. CASE BytesRejected
  <2>1. event.id \in Ids
    BY <1>3 DEF BytesRejected, Handling, Inv, EventOK, StreamKinds, Streams, StreamsAreDistinct, IdTypes
  <2> QED
    BY <1>3, <2>1, SendResetInv DEF BytesRejected, Handling, Ready, StreamKinds
<1>4. ASSUME NEW i \in Slots, ResetStream(i) PROVE Inv'
  <2>1. stream_ids[i] \in Ids /\ ~closed /\ event = NoEvent
    BY <1>4 DEF ResetStream, Serving, Ready, Inv, Streams, StreamsAreDistinct, IdTypes
  <2> QED
    BY <1>4, <2>1, SendResetInv DEF ResetStream, StreamKinds, NoEvent, EventOf
<1> QED
  BY <1>1, <1>2, <1>3, <1>4

\* While a block that is not of a stream ends, the session is in no block.
LEMMA NoHeaderAtEnd ==
  ASSUME Inv, ~closed, event.kind \in DiscardKinds, event.end_headers
  PROVE  header_stream_index = 0
<1>1. continuation_stream_id = 0
  BY DEF Inv, LiveOK, FragmentOK
<1>2. ASSUME header_stream_index # 0 PROVE FALSE
  <2>1. /\ header_stream_index \in Slots /\ Active(header_stream_index)
        /\ stream_ids[header_stream_index] = 0
    BY <1>1, <1>2 DEF Inv, LiveOK, HeaderOK, HeaderTypes, DiscardKinds
  <2> QED
    BY <2>1, Zeros DEF Inv, Streams, StreamsAreDistinct, IdTypes
<1> QED
  BY <1>2

\* The last fragment of a block: its stream is reset.
LEMMA FinishedResetInv ==
  ASSUME Inv, ~closed, reset_finished(event.id), event' = NoEvent, event.end_headers,
         event.kind \in {"fragment", "discarded_fragment"}, call = NoCall,
         UNCHANGED <<idVars, blockVars, creditVars, settingsVars, call, flush, closed>>
  PROVE  Inv'
<1>1. event.id \in Ids
  BY DEF Inv, EventOK, StreamKinds, DiscardKinds, Streams, StreamsAreDistinct, IdTypes
<1> DEFINE F == find(event.id)
<1>2. Freed(F) /\ Left(F) /\ SlabTypes' /\ StageTypes' /\ ResetTypes'
  BY <1>1, ResetFreed
<1>3. CreditTypes' /\ connection_send_window' = allowance' /\ ControlTypes'
  BY EventTypes DEF Inv, CreditTypes, PeerAgrees, ControlTypes
<1>4. continuation_stream_id = 0
  BY DEF Inv, LiveOK, FragmentOK, BlockKinds, DiscardKinds
<1>5. F \in SUBSET Slots /\ (event.kind \in StreamKinds => event.slot \in F)
  BY DEF find, Inv, EventOK
<1>6. header_stream_index \in F \/ header_stream_index = 0
  BY <1>5, NoHeaderAtEnd DEF Inv, LiveOK, FragmentOK, StreamKinds, DiscardKinds
<1> HIDE DEF F
<1> QED
  BY <1>2, <1>3, <1>4, <1>5, <1>6, FreedInv

\* An event that is done: the block and the streams are as they were.
LEMMA DoneInv ==
  ASSUME Inv, ~closed, event' = NoEvent, flush' \in Seq(Slots),
         event.kind \notin {"data", "stream_reset", "headers", "discarded_headers"},
         event.kind \in {"continuation", "fragment"} => ~event.end_headers,
         UNCHANGED <<connectionVars, streamVars, headerVars, call, closed>>
  PROVE  Inv'
<1>1. /\ SlabTypes' /\ CreditTypes' /\ IdTypes' /\ ResetTypes' /\ BlockTypes'
      /\ HeaderTypes' /\ StageTypes' /\ Streams' /\ PeerAgrees' /\ FlagTypes'
  BY TypeFrames, StreamsFrame, PeerFrame DEF Inv
<1>2. ControlTypes'
  BY EventTypes DEF Inv, ControlTypes
<1>3. EventOK' /\ ContinuationsMatch' /\ FragmentOK'
  BY QuietEvent DEF NoEvent, EventOf
<1>4. ReceiveOK' /\ SlotsOK'
  BY ReceiveKept, SlotsFrame DEF Inv, NoEvent, EventOf
<1>5. CallOK'
  BY DEF Inv, CallOK, Active, find
<1>6. DiscardOK' /\ HeaderOK'
  BY DEF Inv, LiveOK, DiscardOK, HeaderOK, NoDiscard, Active, find
<1>7. ClosedOK'
  BY DEF Inv, LiveOK, ClosedOK, HeaderOK, FragmentOK, EventOK, StreamKinds, BlockKinds
<1> QED
  BY <1>1, <1>2, <1>3, <1>4, <1>5, <1>6, <1>7 DEF Inv, LiveOK, FlushOK

\* The handlers that only look at their event.
LEMMA LooksInv ==
  ASSUME Inv, HandleCredit \/ BlockGoesOn
  PROVE  Inv'
<1>1. CASE HandleCredit
  <2>1. flush' \in Seq(Slots)
    <3>1. [i \in Slots |-> i] \in Seq(Slots)
      BY Http2Assumption DEF Slots
    <3>2. event.slot # 0 => <<event.slot>> \in Seq(Slots)
      BY DEF Inv, ControlTypes, Events
    <3> QED
      BY <1>1, <3>1, <3>2 DEF HandleCredit
  <2> QED
    BY <1>1, <2>1, DoneInv DEF HandleCredit, Ready
<1>2. CASE BlockGoesOn
  BY <1>2, DoneInv DEF BlockGoesOn, Ready, Inv, ControlTypes
<1> QED
  BY <1>1, <1>2

\* The handlers of the last fragment of a block that is not accepted.
LEMMA RejectedInv ==
  ASSUME Inv, complete_discarded_headers \/ HeadersRejected
  PROVE  Inv'
<1>1. CASE HeadersRejected
  BY <1>1, FinishedResetInv DEF HeadersRejected, Handling, Ready
<1>2. CASE complete_discarded_headers /\ event.discard # "locally_reset"
  BY <1>2, FinishedResetInv DEF complete_discarded_headers, Handling, Ready
<1>3. CASE complete_discarded_headers /\ event.discard = "locally_reset"
  <2>1. /\ UNCHANGED <<connectionVars, streamVars, call, flush, closed>> /\ event' = NoEvent
        /\ NoHeaders /\ ~closed /\ call = NoCall /\ event.kind = "discarded_fragment"
        /\ event.end_headers
    BY <1>3 DEF complete_discarded_headers, Handling, Ready, finish_header_block
  <2>2. header_stream_index = 0 /\ continuation_stream_id = 0
    BY <2>1, NoHeaderAtEnd DEF Inv, LiveOK, FragmentOK, DiscardKinds
  <2>3. Freed({}) /\ Left({})
    BY <2>1, KeptFreed DEF Left
  <2>4. /\ SlabTypes' /\ CreditTypes' /\ ResetTypes' /\ StageTypes' /\ ControlTypes'
        /\ connection_send_window' = allowance'
    BY <2>1, TypeFrames, EventTypes DEF Inv, ControlTypes, PeerAgrees
  <2> QED
    BY <2>1, <2>2, <2>3, <2>4, FreedInv DEF StreamKinds
<1> QED
  BY <1>1, <1>2, <1>3

\* A stream the peer has reset is forgotten by the session.
LEMMA HandleStreamResetInv ==
  ASSUME Inv, HandleStreamReset
  PROVE  Inv'
<1> DEFINE i == event.slot
<1>1. /\ ~closed /\ call = NoCall /\ event.kind = "stream_reset" /\ i \in Slots /\ ~Active(i)
      /\ clear_stream(i) /\ event' = NoEvent
      /\ UNCHANGED <<connectionVars, call, flush, closed>>
  BY DEF HandleStreamReset, Handling, Ready, Inv, EventOK
<1>2. header_stream_index # i /\ UNCHANGED headerVars
  BY <1>1, Zeros DEF Inv, LiveOK, HeaderOK, clear_stream
<1> HIDE DEF i
<1>3. /\ stage' = [stage EXCEPT ![i] = "new"] /\ response' = [response EXCEPT ![i] = "none"]
      /\ pending' = [pending EXCEPT ![i] = 0]
  BY <1>1 DEF clear_stream
<1>4. StageTypes'
  BY <1>3 DEF Inv, StageTypes, Stages, Responses
<1>5. /\ SlabTypes' /\ CreditTypes' /\ IdTypes' /\ ResetTypes' /\ BlockTypes'
      /\ HeaderTypes' /\ FlagTypes' /\ Streams' /\ PeerAgrees'
  BY <1>1, <1>2, TypeFrames, StreamsFrame, PeerFrame DEF Inv
<1>6. EventOK' /\ ContinuationsMatch' /\ FragmentOK' /\ ControlTypes'
  BY <1>1, QuietEvent, EventTypes DEF NoEvent, EventOf, Inv, ControlTypes
<1>7. CallOK' /\ ReceiveOK'
  BY <1>1, IdleCall, ReceiveKept DEF Inv, NoEvent, EventOf
<1>8. SlotsOK'
  BY <1>1, <1>3 DEF Inv, SlotsOK, SlotOK, Active, StageTypes, i
<1>9. DiscardOK' /\ ClosedOK'
  BY <1>1, <1>2 DEF Inv, LiveOK, DiscardOK, ClosedOK
<1>10. HeaderOK'
  <2>1. header_stream_index # 0 => header_stream_index \in Slots
           /\ stage'[header_stream_index] = stage[header_stream_index]
           /\ response'[header_stream_index] = response[header_stream_index]
    BY <1>2, <1>3 DEF Inv, HeaderTypes, StageTypes
  <2> QED
    BY <1>1, <1>2, <2>1 DEF Inv, LiveOK, HeaderOK, NoDiscard, Active, find
<1> QED
  BY <1>1, <1>4, <1>5, <1>6, <1>7, <1>8, <1>9, <1>10 DEF Inv, LiveOK, FlushOK

-----------------------------------------------------------------------------
(* Fragments.                                                              *)

\* An event that turns into the fragment it carries keeps its other fields.
LEMMA Fragment ==
  ASSUME event \in Events, NEW kind \in EventKinds, event' = [event EXCEPT !.kind = kind]
  PROVE  /\ event' \in Events /\ event'.kind = kind /\ event'.slot = event.slot
         /\ event'.id = event.id /\ event'.length = event.length
         /\ event'.end_headers = event.end_headers /\ event'.end_stream = event.end_stream
         /\ event'.discard = event.discard
  BY DEF Events

\* receive_refused_headers, receive_locally_reset_headers, receive_closed_headers.
LEMMA FirstDiscardedInv ==
  ASSUME Inv, FirstDiscarded
  PROVE  Inv'
<1>1. /\ ~closed /\ flush = <<>> /\ call = NoCall /\ event.kind = "discarded_headers"
      /\ header_stream_index' = 0 /\ header_stream_index = 0
      /\ header_end_stream' = FALSE /\ header_is_trailer' = FALSE
      /\ discarded_header' = [discarded_header EXCEPT ![event.discard] = event.id]
      /\ UNCHANGED <<connectionVars, streamVars, call, flush, closed>>
  BY DEF FirstDiscarded, Handling, Ready, Inv, LiveOK, FragmentOK
<1>2. /\ event' \in Events /\ event'.kind = "discarded_fragment" /\ event'.slot = event.slot
      /\ event'.id = event.id /\ event'.end_headers = event.end_headers
      /\ event'.discard = event.discard
  BY Fragment DEF Inv, ControlTypes, FirstDiscarded, EventKinds
<1>3. event.discard \in Discards /\ event.id \in Ids
  BY <1>1 DEF Inv, EventOK, DiscardKinds
<1>4. /\ SlabTypes' /\ CreditTypes' /\ IdTypes' /\ ResetTypes' /\ BlockTypes'
      /\ StageTypes' /\ FlagTypes' /\ Streams' /\ PeerAgrees'
  BY <1>1, TypeFrames, StreamsFrame, PeerFrame DEF Inv
<1>5. HeaderTypes' /\ ControlTypes'
  BY <1>1, <1>2, <1>3 DEF Inv, HeaderTypes, ControlTypes, StreamIds
<1>6. EventOK' /\ ContinuationsMatch'
  BY <1>1, <1>2, <1>3 DEF EventOK, ContinuationsMatch, StreamKinds, DiscardKinds
<1>7. ReceiveOK' /\ SlotsOK' /\ CallOK'
  BY <1>1, <1>2, ReceiveKept, SlotsFrame, IdleCall DEF Inv
<1>8. DiscardOK'
  BY <1>1, <1>2, <1>3 DEF Inv, HeaderTypes, LiveOK, DiscardOK, FragmentOK, DiscardKinds
<1>9. FragmentOK'
  BY <1>1, <1>2 DEF Inv, LiveOK, FragmentOK, BlockKinds, DiscardKinds
<1>10. HeaderOK'
  BY <1>1, <1>2 DEF Inv, LiveOK, HeaderOK, NoDiscard, find, Active
<1>11. ClosedOK'
  BY <1>1, <1>2, Zeros DEF Inv, LiveOK, ClosedOK
<1> QED
  BY <1>1, <1>4, <1>5, <1>6, <1>7, <1>8, <1>9, <1>10, <1>11 DEF Inv, LiveOK, FlushOK

\* receive_continuation and its three variants for discarded blocks.
LEMMA NextFragmentInv ==
  ASSUME Inv, NextFragment
  PROVE  Inv'
<1>1. /\ ~closed /\ flush = <<>> /\ call = NoCall /\ event.kind \in {"continuation", "discarded_continuation"}
      /\ UNCHANGED <<connectionVars, streamVars, headerVars, call, flush, closed>>
  BY DEF NextFragment, Ready
<1>2. /\ event' \in Events /\ event'.slot = event.slot
      /\ event'.id = event.id /\ event'.end_headers = event.end_headers
      /\ event'.discard = event.discard
      /\ event.kind = "continuation"
           => event'.kind = "fragment" /\ event'.end_stream = header_end_stream
      /\ event.kind = "discarded_continuation" => event'.kind = "discarded_fragment"
  <2>1. event \in Events /\ header_end_stream \in BOOLEAN
    BY DEF Inv, ControlTypes, HeaderTypes
  <2>2. CASE event.kind = "continuation"
    <3>1. event' = [event EXCEPT !.kind = "fragment", !.end_stream = header_end_stream]
      BY <2>2 DEF NextFragment, Inv, ContinuationsMatch
    <3> QED
      BY <2>1, <2>2, <3>1 DEF Events, EventKinds
  <2>3. CASE event.kind = "discarded_continuation"
    <3>1. event' = [event EXCEPT !.kind = "discarded_fragment"]
      BY <2>3 DEF NextFragment, Inv, ContinuationsMatch
    <3> QED
      BY <2>1, <2>3, <3>1 DEF Events, EventKinds
  <2> QED
    BY <1>1, <2>2, <2>3
<1>4. /\ SlabTypes' /\ CreditTypes' /\ IdTypes' /\ ResetTypes' /\ BlockTypes'
      /\ HeaderTypes' /\ StageTypes' /\ FlagTypes' /\ Streams' /\ PeerAgrees'
  BY <1>1, TypeFrames, StreamsFrame, PeerFrame DEF Inv
<1>5. ControlTypes'
  BY <1>1, <1>2 DEF Inv, ControlTypes
<1>6. EventOK' /\ ContinuationsMatch'
  BY <1>1, <1>2 DEF Inv, EventOK, ContinuationsMatch, StreamKinds, DiscardKinds, Active
<1>7. ReceiveOK' /\ SlotsOK' /\ CallOK'
  BY <1>1, <1>2, ReceiveKept, SlotsFrame, IdleCall DEF Inv
<1>8. DiscardOK'
  BY <1>1, <1>2 DEF Inv, LiveOK, DiscardOK
<1>9. FragmentOK'
  BY <1>1, <1>2 DEF Inv, LiveOK, FragmentOK, BlockKinds, DiscardKinds, NoDiscard
<1>10. HeaderOK'
  BY <1>1, <1>2 DEF Inv, LiveOK, HeaderOK, NoDiscard, find, Active
<1>11. ClosedOK'
  BY <1>1, <1>2 DEF Inv, LiveOK, ClosedOK
<1> QED
  BY <1>1, <1>4, <1>5, <1>6, <1>7, <1>8, <1>9, <1>10, <1>11 DEF Inv, LiveOK, FlushOK

\* receive_headers of the session: a request or its trailers begin.
LEMMA FirstFragmentInv ==
  ASSUME Inv, FirstFragment
  PROVE  Inv'
<1> DEFINE i == event.slot
<1>1. /\ ~closed /\ flush = <<>> /\ call = NoCall /\ event.kind = "headers" /\ i \in Slots /\ Active(i)
      /\ stream_ids[i] = event.id
      /\ header_stream_index = 0 /\ header_stream_index' = i
      /\ header_end_stream' = event.end_stream /\ header_is_trailer' = (stage[i] # "new")
      /\ UNCHANGED <<connectionVars, call, flush, closed>>
  BY DEF FirstFragment, Handling, Ready, Inv, EventOK, StreamKinds, LiveOK, FragmentOK
<1>2. /\ event' \in Events /\ event'.kind = "fragment" /\ event'.slot = event.slot
      /\ event'.id = event.id /\ event'.end_headers = event.end_headers
      /\ event'.end_stream = event.end_stream
  BY Fragment DEF Inv, ControlTypes, FirstFragment, EventKinds
<1>3. UNCHANGED discarded_header
  BY <1>1, Zeros DEF FirstFragment
<1>4. /\ response' = response /\ pending' = pending
      /\ stage' = IF stage[i] = "new" THEN [stage EXCEPT ![i] = "headers"] ELSE stage
  <2>1. stage[i] = "new" => response[i] = "none" /\ pending[i] = 0
    BY <1>1 DEF Inv, SlotsOK, SlotOK
  <2> QED
    BY <1>1, <2>1 DEF FirstFragment, Inv, StageTypes
<1> HIDE DEF i
<1>5. /\ SlabTypes' /\ CreditTypes' /\ IdTypes' /\ ResetTypes' /\ BlockTypes'
      /\ FlagTypes' /\ Streams' /\ PeerAgrees'
  BY <1>1, TypeFrames, StreamsFrame, PeerFrame DEF Inv
<1>6. HeaderTypes' /\ ControlTypes'
  BY <1>1, <1>2, <1>3 DEF Inv, HeaderTypes, ControlTypes, Events
<1>7. StageTypes'
  BY <1>4 DEF Inv, StageTypes, Stages
<1>8. EventOK' /\ ContinuationsMatch'
  BY <1>1, <1>2 DEF i, EventOK, ContinuationsMatch, StreamKinds, DiscardKinds, Active
<1>9. ReceiveOK' /\ CallOK'
  BY <1>1, <1>2, ReceiveKept, IdleCall DEF Inv
<1>10. SlotsOK'
  BY <1>1, <1>2, <1>4 DEF Inv, SlotsOK, SlotOK, Active, StageTypes
<1>11. DiscardOK'
  BY <1>1, <1>2, <1>3 DEF Inv, LiveOK, DiscardOK
<1>12. FragmentOK'
  BY <1>1, <1>2 DEF Inv, LiveOK, FragmentOK, BlockKinds, DiscardKinds, NoDiscard, i
<1>13. HeaderOK'
  <2>1. continuation_stream_id = IF event.end_headers THEN 0 ELSE event.id
    BY <1>1 DEF Inv, LiveOK, FragmentOK, BlockKinds
  <2>2. ~event.end_headers => NoDiscard
    BY <1>1 DEF Inv, LiveOK, FragmentOK, BlockKinds
  <2>3. ~header_is_trailer' => stage'[i] = "headers" /\ response'[i] = "none"
    BY <1>1, <1>4 DEF Inv, StageTypes, SlotsOK, SlotOK
  <2>4. \A j \in find(continuation_stream_id) : continuation_stream_id # 0 => j = i
    BY <1>1, <2>1, OneSlot DEF Inv, find
  <2> QED
    BY <1>1, <1>2, <2>1, <2>2, <2>3, <2>4 DEF HeaderOK, NoDiscard, find, Active, i
<1>14. ClosedOK'
  BY <1>1, <1>2, Zeros DEF Inv, LiveOK, ClosedOK, i
<1> QED
  BY <1>1, <1>5, <1>6, <1>7, <1>8, <1>9, <1>10, <1>11, <1>12, <1>13, <1>14 DEF Inv, LiveOK, FlushOK

-----------------------------------------------------------------------------
(* Requests.                                                               *)

\* The slots other than i are as they were.
OthersKept(i) ==
  \A j \in Slots \ {i} : stage'[j] = stage[j] /\ response'[j] = response[j] /\ pending'[j] = pending[j]

\* A callback is entered on an active stream, or the session goes on.
Entered(i, id) ==
  \/ UNCHANGED call
  \/ \E end_stream \in BOOLEAN, callback \in {"request", "ws_data", "connect", "return"} :
       call' = Calling(i, id, end_stream, callback)

\* What a callback needs when it is entered between frames.
LEMMA EnteredOK ==
  ASSUME Inv, call = NoCall, event' = NoEvent, NEW i \in Slots, Active(i),
         Entered(i, stream_ids[i]), header_stream_index' = 0, UNCHANGED <<stream_ids, states>>
  PROVE  CallOK' /\ call' \in Calls
<1>1. stream_ids[i] \in Ids
  BY DEF Inv, Streams, StreamsAreDistinct, IdTypes
<1>2. CASE call' = NoCall
  BY <1>2, IdleCall, CallTypes
<1>3. ASSUME NEW end_stream \in BOOLEAN, NEW callback \in {"request", "ws_data", "connect", "return"},
             call' = Calling(i, stream_ids[i], end_stream, callback)
      PROVE  CallOK' /\ call' \in Calls
  <2>1. call' \in Calls
    BY <1>1, <1>3, CallTypes DEF StreamIds
  <2>2. /\ call'.slot = i /\ call'.id = stream_ids[i] /\ call'.callback # "none"
        /\ \A j \in find(stream_ids[i]) : j = i
    BY <1>3, OneSlot DEF Calling, Inv, find
  <2> QED
    BY <1>1, <2>1, <2>2 DEF CallOK, find, Active
<1> QED
  BY <1>2, <1>3 DEF Entered

\* The last fragment of a block: its stream has a request, or its end.
LEMMA AcceptedInv ==
  ASSUME Inv, ~closed, call = NoCall, event.kind = "fragment", event.end_headers, NoHeaders,
         event' = NoEvent, UNCHANGED <<connectionVars, closed>>, StageTypes', flush' \in Seq(Slots),
         OthersKept(event.slot), stage'[event.slot] # "new",
         states[event.slot] \in {"half_closed_local", "closed"} => response'[event.slot] = "ended",
         Entered(event.slot, event.id), states[event.slot] = "closed" => call'.end_stream
  PROVE  Inv'
<1>1. PICK i \in Slots : i = event.slot /\ Active(i) /\ stream_ids[i] = event.id
  BY DEF Inv, EventOK, StreamKinds
<1>2. continuation_stream_id = 0 /\ header_stream_index = i
  BY <1>1 DEF Inv, LiveOK, FragmentOK, BlockKinds
<1>3. header_stream_index' = 0 /\ HeaderTypes'
  BY DEF NoHeaders, HeaderTypes, StreamIds
<1>4. /\ SlabTypes' /\ CreditTypes' /\ IdTypes' /\ ResetTypes' /\ BlockTypes'
      /\ FlagTypes' /\ Streams' /\ PeerAgrees'
  BY TypeFrames, StreamsFrame, PeerFrame DEF Inv
<1>5. CallOK' /\ ControlTypes'
  BY <1>1, <1>3, EnteredOK, EventTypes DEF ControlTypes
<1>6. EventOK' /\ ContinuationsMatch' /\ FragmentOK' /\ ReceiveOK'
  BY QuietEvent, ReceiveKept DEF NoEvent, EventOf, Inv
<1>7. SlotsOK'
  <2>1. SlotOK(i)'
    BY <1>1 DEF SlotOK, Active
  <2>2. ASSUME NEW j \in Slots \ {i} PROVE SlotOK(j)'
    BY <1>1, <2>2, Zeros DEF Inv, SlotsOK, SlotOK, Active, OthersKept, NoCall
  <2> QED
    BY <2>1, <2>2 DEF SlotsOK
<1>8. DiscardOK' /\ HeaderOK'
  BY <1>2, <1>3 DEF Inv, LiveOK, DiscardOK, HeaderOK
<1>9. ClosedOK'
  <2>1. ASSUME NEW j \in Slots, states[j] = "closed" PROVE j = i
    BY <1>1, <1>2, <2>1, Zeros DEF Inv, LiveOK, ClosedOK, NoCall
  <2>2. states[i] = "closed" => call'.slot = i
    BY <1>1 DEF Entered, Calling, NoCall
  <2> QED
    BY <1>1, <2>1, <2>2 DEF ClosedOK
<1> QED
  BY <1>3, <1>4, <1>5, <1>6, <1>7, <1>8, <1>9 DEF Inv, LiveOK, FlushOK

\* complete_headers: a request, its trailers or a refused CONNECT.
LEMMA RequestsInv ==
  ASSUME Inv, \/ \E body \in BodySizes : ConnectRefused(body)
              \/ \E protocol \in BOOLEAN : RequestHeaders(protocol)
              \/ RequestTrailers
  PROVE  Inv'
<1>1. PICK i \in Slots : i = event.slot /\ Active(i) /\ stream_ids[i] = event.id
  BY DEF ConnectRefused, RequestHeaders, RequestTrailers, Completing, Handling, Inv, EventOK, StreamKinds
<1>2. /\ ~closed /\ call = NoCall /\ event.kind = "fragment" /\ event.end_headers /\ NoHeaders
      /\ event' = NoEvent /\ UNCHANGED <<connectionVars, closed>>
  BY DEF ConnectRefused, RequestHeaders, RequestTrailers, Completing, Handling, Ready, finish_header_block
<1>3. ~header_is_trailer => stage[i] = "headers" /\ states[i] \notin {"half_closed_local", "closed"}
  <2>1. header_stream_index = i
    BY <1>1, <1>2 DEF Inv, LiveOK, FragmentOK
  <2>2. ~header_is_trailer => stage[i] = "headers" /\ response[i] = "none"
    BY <1>2, <2>1, Zeros DEF Inv, LiveOK, HeaderOK
  <2> QED
    BY <2>2 DEF Inv, SlotsOK, SlotOK
<1>4. ASSUME NEW body \in BodySizes, ConnectRefused(body) PROVE Inv'
  <2>1. StageTypes' /\ OthersKept(i) /\ stage'[i] # "new"
    BY <1>1, <1>3, <1>4, SessionAssumption
       DEF ConnectRefused, Completing, Inv, StageTypes, OthersKept, Responses, Stages
  <2>2. Entered(i, event.id) /\ flush' \in Seq(Slots)
    BY <1>1, <1>4 DEF ConnectRefused, Entered, Inv, ControlTypes, Events
  <2> QED
    BY <1>1, <1>2, <1>3, <1>4, <2>1, <2>2, AcceptedInv DEF ConnectRefused, Completing
<1>5. ASSUME NEW protocol \in BOOLEAN, RequestHeaders(protocol) PROVE Inv'
  <2>1. StageTypes' /\ OthersKept(i) /\ stage'[i] # "new"
    BY <1>1, <1>5 DEF RequestHeaders, Dispatched, Inv, StageTypes, OthersKept, Responses, Stages
  <2>2. Entered(i, event.id) /\ flush' \in Seq(Slots)
    BY <1>1, <1>5 DEF RequestHeaders, Dispatched, Entered, Inv, ControlTypes, Events
  <2> QED
    BY <1>1, <1>2, <1>3, <1>5, <2>1, <2>2, AcceptedInv DEF RequestHeaders, Completing
<1>6. CASE RequestTrailers
  <2>1. StageTypes' /\ OthersKept(i) /\ stage'[i] # "new"
    BY <1>1, <1>6 DEF RequestTrailers, Dispatched, Inv, StageTypes, OthersKept, Stages
  <2>2. PICK callback \in {"request", "return"} : call' = Calling(i, event.id, TRUE, callback)
    BY <1>1, <1>6 DEF RequestTrailers, Dispatched
  <2>4. Entered(i, event.id) /\ flush' \in Seq(Slots)
    BY <1>6, <2>2 DEF RequestTrailers, Entered, Inv, ControlTypes
  <2>5. call'.end_stream
    BY <2>2 DEF Calling
  <2>3. states[i] \in {"half_closed_local", "closed"} => response'[i] = "ended"
    BY <1>6 DEF RequestTrailers, Inv, SlotsOK, SlotOK
  <2> QED
    BY <1>1, <1>2, <2>1, <2>3, <2>4, <2>5, AcceptedInv
<1> QED
  BY <1>4, <1>5, <1>6

-----------------------------------------------------------------------------
(* DATA.                                                                   *)

\* receive_data gives the credit of the frame back.
LEMMA DataTakenInv ==
  ASSUME Inv, DataTaken
  PROVE  Inv'
<1>1. PICK i \in Slots : i = event.slot /\ Active(i) /\ stream_ids[i] = event.id
  BY DEF DataTaken, Handling, Inv, EventOK, StreamKinds
<1>2. /\ ~closed /\ flush = <<>> /\ call = NoCall /\ event.kind = "data"
      /\ UNCHANGED <<stream_ids, states, send_windows, allowances, idVars, resetVars,
                 blockVars, connection_send_window, allowance, settingsVars, streamVars, headerVars,
                 call, flush, closed>>
      /\ connection_receive_window' = connection_receive_window + event.length
      /\ receive_windows' = [receive_windows EXCEPT ![i] = @ + event.length]
  BY <1>1 DEF DataTaken, Handling, Ready, restore_receive_credit
<1>3. /\ event' \in Events /\ event'.kind = "bytes" /\ event'.slot = event.slot
      /\ event'.id = event.id /\ event.length \in Nat
  BY Fragment DEF Inv, ControlTypes, DataTaken, EventKinds, Events
<1>4. /\ receive_windows[i] = DefaultWindow - event.length
      /\ connection_receive_window + event.length <= DefaultWindow
      /\ \A j \in Slots \ {i} : Active(j) => receive_windows[j] = DefaultWindow
  BY <1>1, <1>2, <1>3, Http2Assumption DEF Inv, ReceiveOK, Held
<1>5. SlabTypes' /\ CreditTypes'
  <2>1. receive_windows' \in [Slots -> 0 .. DefaultWindow]
    BY <1>1, <1>2, <1>3, <1>4, Http2Assumption DEF Inv, SlabTypes
  <2>2. SlabTypes'
    BY <1>2, <2>1 DEF Inv, SlabTypes
  <2>3. connection_receive_window' \in 0 .. DefaultWindow
    BY <1>2, <1>3, <1>4, Http2Assumption DEF Inv, CreditTypes
  <2> QED
    BY <1>2, <2>2, <2>3 DEF Inv, CreditTypes
<1>6. /\ IdTypes' /\ ResetTypes' /\ BlockTypes' /\ HeaderTypes'
      /\ StageTypes' /\ FlagTypes' /\ ControlTypes' /\ Streams' /\ PeerAgrees'
  BY <1>2, <1>3, TypeFrames, StreamsFrame, PeerFrame DEF Inv, ControlTypes
<1>7. EventOK' /\ ContinuationsMatch'
  BY <1>1, <1>2, <1>3 DEF EventOK, ContinuationsMatch, StreamKinds, DiscardKinds, Active
<1>8. ReceiveOK'
  BY <1>1, <1>2, <1>3, <1>4, Http2Assumption DEF Inv, SlabTypes, ReceiveOK, Held, Active
<1>9. SlotsOK' /\ CallOK'
  BY <1>2, SlotsFrame, IdleCall DEF Inv
<1>10. DiscardOK' /\ FragmentOK'
  BY <1>2, <1>3 DEF Inv, LiveOK, DiscardOK, FragmentOK, BlockKinds, DiscardKinds
<1>11. HeaderOK'
  BY <1>2, <1>3 DEF Inv, LiveOK, HeaderOK, NoDiscard, find, Active
<1>12. ClosedOK'
  BY <1>2, <1>3 DEF Inv, LiveOK, ClosedOK
<1> QED
  BY <1>2, <1>5, <1>6, <1>7, <1>8, <1>9, <1>10, <1>11, <1>12 DEF Inv, LiveOK, FlushOK

\* receive_data hands the bytes to the tunnel, the body or the handler.
LEMMA BytesTakenInv ==
  ASSUME Inv, BytesTaken
  PROVE  Inv'
<1>1. PICK i \in Slots : i = event.slot /\ Active(i) /\ stream_ids[i] = event.id
  BY DEF BytesTaken, Handling, Inv, EventOK, StreamKinds
<1>2. /\ ~closed /\ call = NoCall /\ event.kind = "bytes" /\ event' = NoEvent
      /\ UNCHANGED <<connectionVars, response, pending, headerVars, flush, closed>>
  BY DEF BytesTaken, Handling, Ready
<1>3. header_stream_index = 0
  <2>1. continuation_stream_id = 0
    BY <1>2 DEF Inv, LiveOK, FragmentOK
  <2>2. ASSUME header_stream_index # 0 PROVE FALSE
    <3>1. /\ header_stream_index \in Slots /\ Active(header_stream_index)
          /\ stream_ids[header_stream_index] = 0
      BY <1>2, <2>1, <2>2 DEF Inv, LiveOK, HeaderOK, HeaderTypes
    <3> QED
      BY <3>1, Zeros DEF Inv, Streams, StreamsAreDistinct, IdTypes
  <2> QED
    BY <2>2
<1>4. StageTypes' /\ OthersKept(i) /\ stage'[i] # "new"
  BY <1>1, <1>2 DEF BytesTaken, Dispatched, Inv, StageTypes, OthersKept, Stages
<1>5. Entered(i, event.id)
  BY <1>1, <1>2 DEF BytesTaken, Dispatched, Entered, Inv, ControlTypes, Events
<1>6. CallOK' /\ ControlTypes'
  BY <1>1, <1>2, <1>3, <1>5, EnteredOK, EventTypes DEF Inv, ControlTypes
<1>7. /\ SlabTypes' /\ CreditTypes' /\ IdTypes' /\ ResetTypes' /\ BlockTypes'
      /\ HeaderTypes' /\ FlagTypes' /\ Streams' /\ PeerAgrees'
  BY <1>2, TypeFrames, StreamsFrame, PeerFrame DEF Inv
<1>8. EventOK' /\ ContinuationsMatch' /\ FragmentOK' /\ ReceiveOK'
  BY <1>2, QuietEvent, ReceiveKept DEF NoEvent, EventOf, Inv
<1>9. SlotsOK'
  BY <1>1, <1>2, <1>4, Zeros DEF Inv, SlotsOK, SlotOK, Active, OthersKept, NoCall
<1>10. DiscardOK' /\ HeaderOK'
  BY <1>2, <1>3 DEF Inv, LiveOK, DiscardOK, HeaderOK, NoDiscard, find, Active
<1>11. ClosedOK'
  BY <1>2, <1>3, Zeros DEF Inv, LiveOK, ClosedOK, NoCall
<1> QED
  BY <1>2, <1>4, <1>6, <1>7, <1>8, <1>9, <1>10, <1>11 DEF Inv, LiveOK, FlushOK

\* The connection's credit of DATA on a reset stream is given back.
LEMMA HandleDiscardedDataInv ==
  ASSUME Inv, HandleDiscardedData
  PROVE  Inv'
<1>1. /\ ~closed /\ call = NoCall /\ event.kind = "discarded_data" /\ event' = NoEvent
      /\ connection_receive_window' = connection_receive_window + event.length
      /\ UNCHANGED <<slabVars, idVars, resetVars, blockVars, connection_send_window, allowance,
                 settingsVars, streamVars, headerVars, call, flush, closed>>
  BY DEF HandleDiscardedData, Handling, Ready
<1>2. CreditTypes'
  BY <1>1, Http2Assumption DEF Inv, CreditTypes, ReceiveOK, ControlTypes, Events
<1>3. /\ SlabTypes' /\ IdTypes' /\ ResetTypes' /\ BlockTypes'
      /\ HeaderTypes' /\ StageTypes' /\ FlagTypes' /\ ControlTypes' /\ Streams' /\ PeerAgrees'
  BY <1>1, TypeFrames, StreamsFrame, PeerFrame, EventTypes DEF Inv, ControlTypes
<1>4. EventOK' /\ ContinuationsMatch' /\ FragmentOK' /\ ReceiveOK' /\ SlotsOK' /\ CallOK'
  BY <1>1, QuietEvent, ReceiveKept, SlotsFrame, IdleCall DEF NoEvent, EventOf, Inv
<1>5. DiscardOK' /\ HeaderOK' /\ ClosedOK'
  BY <1>1 DEF Inv, LiveOK, DiscardOK, HeaderOK, ClosedOK, NoDiscard, find, Active
<1> QED
  BY <1>1, <1>2, <1>3, <1>4, <1>5 DEF Inv, LiveOK, FlushOK

-----------------------------------------------------------------------------
(* Callbacks return.                                                       *)

\* What is known while a callback runs.
LEMMA InCall ==
  ASSUME Inv, ~closed, call # NoCall
  PROVE  /\ event = NoEvent /\ call.slot \in Slots /\ call.id \in Ids /\ header_stream_index = 0
         /\ \A i \in find(call.id) : i = call.slot
         /\ find(call.id) = {} <=> ~Active(call.slot)
         /\ Active(call.slot) => stream_ids[call.slot] = call.id
         /\ states[call.slot] = "closed" => call.end_stream
<1>1. /\ event = NoEvent /\ call.slot \in Slots /\ call.id \in Ids /\ header_stream_index = 0
      /\ \A i \in find(call.id) : i = call.slot
      /\ Active(call.slot) => stream_ids[call.slot] = call.id
  BY DEF Inv, CallOK
<1>2. find(call.id) = {} <=> ~Active(call.slot)
  BY <1>1 DEF find
<1>3. states[call.slot] = "closed" => call.end_stream
  BY <1>1, Zeros DEF Inv, LiveOK, ClosedOK, NoEvent, EventOf
<1> QED
  BY <1>1, <1>2, <1>3

\* The stream is gone: the slot is clean.
LEMMA CallLostInv ==
  ASSUME Inv, ~closed, call # NoCall, call' = NoCall, ~Active(call.slot),
         UNCHANGED <<connectionVars, event, flush, closed>>,
         stage' = [stage EXCEPT ![call.slot] = "new"],
         response' = [response EXCEPT ![call.slot] = "none"],
         pending' = [pending EXCEPT ![call.slot] = 0],
         UNCHANGED headerVars
  PROVE  Inv'
<1>1. event = NoEvent /\ call.slot \in Slots /\ header_stream_index = 0
  BY InCall
<1>2. Freed({call.slot}) /\ Left({call.slot})
  BY <1>1, Zeros DEF Inv, SlabTypes, StageTypes, Freed, Left, Active
<1>3. StageTypes'
  BY <1>1 DEF Inv, StageTypes, Stages, Responses
<1>4. SlabTypes' /\ CreditTypes' /\ ResetTypes' /\ ControlTypes' /\ connection_send_window' = allowance'
  BY TypeFrames, CallTypes DEF Inv, ControlTypes, PeerAgrees
<1> QED
  BY <1>1, <1>2, <1>3, <1>4, FreedInv DEF StreamKinds, NoEvent, EventOf

\* The stream is still there, and not closed or released at once.
LEMMA CallOverInv ==
  ASSUME Inv, ~closed, call # NoCall, call' = NoCall, Active(call.slot),
         UNCHANGED <<stream_ids, receive_windows, send_windows, allowances, idVars, resetVars,
                     blockVars, creditVars, settingsVars, event, streamVars, headerVars, flush, closed>>,
         \/ UNCHANGED states /\ states[call.slot] # "closed"
         \/ /\ states[call.slot] \in {"open", "half_closed_remote"}
            /\ states' = [states EXCEPT ![call.slot] = "half_closed_remote"]
  PROVE  Inv'
<1>1. /\ event = NoEvent /\ header_stream_index = 0 /\ event' = NoEvent
  BY InCall
<1>2. PICK k \in Slots : k = call.slot
  BY InCall
<1>3. \A i \in Slots : /\ Active(i)' <=> Active(i)
                       /\ states'[i] \in {"half_closed_local", "closed"} => states'[i] = states[i]
                       /\ states'[i] = "closed" => i # k
  BY <1>2 DEF Inv, SlabTypes, Active
<1>4. SlabTypes'
  BY <1>2 DEF Inv, SlabTypes, StreamStates
<1>5. /\ CreditTypes' /\ IdTypes' /\ ResetTypes' /\ BlockTypes' /\ HeaderTypes'
      /\ StageTypes' /\ FlagTypes' /\ ControlTypes'
  BY TypeFrames, CallTypes DEF Inv, ControlTypes
<1>6. Streams' /\ PeerAgrees'
  BY <1>3 DEF Inv, Streams, StreamsAreDistinct, BitmapExact, PeerAgrees
<1>7. EventOK' /\ ContinuationsMatch' /\ FragmentOK' /\ CallOK'
  BY <1>1, QuietEvent, IdleCall DEF NoEvent, EventOf
<1>8. ReceiveOK'
  BY <1>1, <1>3 DEF Inv, ReceiveOK, Held, NoEvent, EventOf
<1>9. SlotsOK'
  BY <1>2, <1>3 DEF Inv, SlotsOK, SlotOK
<1>10. DiscardOK' /\ HeaderOK'
  BY <1>1, <1>3 DEF Inv, LiveOK, DiscardOK, HeaderOK, NoDiscard, find
<1>11. ClosedOK'
  BY <1>1, <1>2, <1>3, Zeros DEF Inv, LiveOK, ClosedOK, NoEvent, EventOf
<1> QED
  BY <1>4, <1>5, <1>6, <1>7, <1>8, <1>9, <1>10, <1>11 DEF Inv, LiveOK, FlushOK

\* dispatch when the request handler fails.
LEMMA CallFailsInv ==
  ASSUME Inv, CallFails
  PROVE  Inv'
<1>1. /\ ~closed /\ call # NoCall /\ call' = NoCall /\ response[call.slot] \in {"none", "open", "retry"}
      /\ UNCHANGED <<idVars, blockVars, creditVars, settingsVars, event, flush, closed>>
  BY DEF CallFails, Ready, NoCall
<1>2. /\ event = NoEvent /\ call.slot \in Slots /\ call.id \in Ids
      /\ find(call.id) = {} <=> ~Active(call.slot)
      /\ \A i \in find(call.id) : i = call.slot
  BY <1>1, InCall
<1>3. CASE find(call.id) # {} /\ send_reset(call.id)
  BY <1>1, <1>2, <1>3, SendResetInv DEF StreamKinds, NoEvent, EventOf
<1>4. CASE find(call.id) = {} /\ UNCHANGED <<slabVars, resetVars, streamVars, headerVars>>
  <2>1. stage[call.slot] = "new"
    BY <1>1, <1>2, <1>4 DEF Inv, CallOK
  <2>2. /\ stage' = [stage EXCEPT ![call.slot] = "new"]
        /\ response' = [response EXCEPT ![call.slot] = "none"]
        /\ pending' = [pending EXCEPT ![call.slot] = 0]
    BY <1>2, <1>4, <2>1 DEF Inv, SlotsOK, SlotOK, StageTypes
  <2> QED
    BY <1>1, <1>2, <1>4, <2>2, CallLostInv
<1> QED
  BY <1>3, <1>4 DEF CallFails

\* dispatch when the request handler returns, and finish_remote after it.
LEMMA CallReturnsInv ==
  ASSUME Inv, CallReturns
  PROVE  Inv'
<1>1. /\ ~closed /\ call # NoCall /\ call' = NoCall
      /\ UNCHANGED <<idVars, resetVars, blockVars, creditVars, settingsVars, event, flush, closed>>
  BY DEF CallReturns, Ready
<1>2. /\ event = NoEvent /\ call.slot \in Slots /\ call.id \in Ids /\ header_stream_index = 0
      /\ find(call.id) = {} <=> ~Active(call.slot)
      /\ \A i \in find(call.id) : i = call.slot
      /\ states[call.slot] = "closed" => call.end_stream
  BY <1>1, InCall
<1>3. CASE find(call.id) = {} /\ clear_stream(call.slot) /\ UNCHANGED slabVars
  BY <1>1, <1>2, <1>3, CallLostInv, Zeros DEF clear_stream
<1>4. ASSUME find(call.id) # {}, call.end_stream, finish_remote(call.slot) PROVE Inv'
  <2>1. CASE release(call.slot) /\ clear_stream(call.slot)
    <3>1. Freed({call.slot}) /\ SlabTypes' /\ StageTypes' /\ Left({call.slot}) /\ UNCHANGED headerVars
      BY <1>2, <2>1, ReleaseFreed, Zeros DEF Inv, clear_stream, Left
    <3>2. CreditTypes' /\ ResetTypes' /\ ControlTypes' /\ connection_send_window' = allowance'
      BY <1>1, TypeFrames, CallTypes DEF Inv, ControlTypes, PeerAgrees
    <3> QED
      BY <1>1, <1>2, <3>1, <3>2, FreedInv DEF StreamKinds, NoEvent, EventOf
  <2>2. CASE states[call.slot] \in {"open", "half_closed_remote"}
    BY <1>1, <1>2, <1>4, <2>2, CallOverInv DEF finish_remote
  <2> QED
    BY <1>4, <2>1, <2>2 DEF finish_remote
<1>5. ASSUME find(call.id) # {}, ~call.end_stream, UNCHANGED <<slabVars, streamVars, headerVars>> PROVE Inv'
  BY <1>1, <1>2, <1>5, CallOverInv
<1> QED
  BY <1>2, <1>3, <1>4, <1>5 DEF CallReturns

-----------------------------------------------------------------------------
(* Responses.                                                              *)

\* The response of a stream goes on.
LEMMA RespondInv ==
  ASSUME Inv, ~closed, event = NoEvent, NEW i \in Slots, Active(i),
         stage[i] \in {"served", "tunnel"} \/ response[i] \in Pending, response[i] # "ended",
         NEW r \in Responses, response' = [response EXCEPT ![i] = r],
         pending' \in [Slots -> Nat], \A j \in Slots \ {i} : pending'[j] = pending[j],
         SlabTypes', CreditTypes', PeerAgrees', flush' \in Seq(Slots),
         UNCHANGED <<stream_ids, states, receive_windows, connection_receive_window, idVars,
                     resetVars, blockVars, settingsVars, event, stage, headerVars, call, closed>>
  PROVE  Inv'
<1>0. /\ stage[i] # "new" /\ (header_stream_index = i => header_is_trailer)
      /\ states[i] \notin {"half_closed_local", "closed"}
  BY Zeros DEF Inv, SlotsOK, SlotOK, Pending, LiveOK, HeaderOK
<1>1. StageTypes' /\ ControlTypes'
  BY DEF Inv, StageTypes, ControlTypes
<1>2. IdTypes' /\ ResetTypes' /\ BlockTypes' /\ HeaderTypes' /\ FlagTypes' /\ Streams'
  BY TypeFrames, StreamsFrame DEF Inv
<1>3. EventOK' /\ ContinuationsMatch' /\ FragmentOK'
  BY QuietEvent DEF NoEvent, EventOf
<1>4. ReceiveOK'
  BY ReceiveKept DEF Inv, NoEvent, EventOf
<1>5. SlotsOK'
  BY <1>0 DEF Inv, StageTypes, SlotsOK, SlotOK, Active
<1>6. CallOK'
  BY DEF Inv, StageTypes, CallOK, Active, find
<1>7. DiscardOK' /\ ClosedOK' /\ FlushOK'
  BY DEF Inv, LiveOK, DiscardOK, ClosedOK, FlushOK
<1>8. HeaderOK'
  BY <1>0 DEF Inv, StageTypes, LiveOK, HeaderOK, HeaderTypes, NoDiscard, find, Active
<1> QED
  BY <1>1, <1>2, <1>3, <1>4, <1>5, <1>6, <1>7, <1>8 DEF Inv, LiveOK

\* The application answers, or writes a frame within the credit.
LEMMA ApplicationInv ==
  ASSUME Inv, Application
  PROVE  Inv'
<1>1. ASSUME NEW i \in Slots, NEW body \in BodySizes, SendResponse(i, body) PROVE Inv'
  <2>1. SlabTypes' /\ CreditTypes' /\ PeerAgrees'
    BY <1>1, TypeFrames, PeerFrame DEF SendResponse, Inv
  <2>2. /\ pending' \in [Slots -> Nat] /\ \A j \in Slots \ {i} : pending'[j] = pending[j]
        /\ flush' \in Seq(Slots) /\ "headers" \in Responses
    BY <1>1, SessionAssumption DEF SendResponse, Inv, StageTypes, Responses
  <2> QED
    BY <1>1, <2>1, <2>2, RespondInv DEF SendResponse, Serving, Ready
<1>2. ASSUME NEW i \in Slots, BeginResponse(i) PROVE Inv'
  <2>1. SlabTypes' /\ CreditTypes' /\ PeerAgrees'
    BY <1>2, TypeFrames, PeerFrame DEF BeginResponse, Inv
  <2>2. /\ pending' \in [Slots -> Nat] /\ \A j \in Slots \ {i} : pending'[j] = pending[j]
        /\ flush' \in Seq(Slots) /\ "open" \in Responses
    BY <1>2 DEF BeginResponse, Inv, StageTypes, ControlTypes, Responses
  <2> QED
    BY <1>2, <2>1, <2>2, RespondInv DEF BeginResponse, Serving, Ready
<1>3. ASSUME NEW i \in Slots, FinishResponse(i) PROVE Inv'
  <2>1. SlabTypes' /\ CreditTypes' /\ PeerAgrees'
    BY <1>3, TypeFrames, PeerFrame DEF FinishResponse, Inv
  <2>2. /\ pending' \in [Slots -> Nat] /\ \A j \in Slots \ {i} : pending'[j] = pending[j]
        /\ flush' \in Seq(Slots) /\ "ending" \in Responses
    BY <1>3 DEF FinishResponse, Inv, StageTypes, Responses
  <2> QED
    BY <1>3, <2>1, <2>2, RespondInv DEF FinishResponse, Serving, Ready
<1>4. ASSUME NEW i \in Slots, NEW length \in 1 .. FrameCapacity, WriteData(i, length) PROVE Inv'
  <2>1. PICK r \in {"open", "retry"} : response' = [response EXCEPT ![i] = r]
    BY <1>4 DEF WriteData
  <2>2. SlabTypes' /\ CreditTypes' /\ PeerAgrees' /\ UNCHANGED <<stream_ids, receive_windows, connection_receive_window>>
    <3>1. CASE UNCHANGED <<slabVars, creditVars>>
      BY <1>4, <3>1, TypeFrames, PeerFrame DEF WriteData, Inv
    <3>2. ASSUME NEW written \in BOOLEAN, HasCredit(i, length), send_data_frame(i, length, written),
                 UNCHANGED <<states, initial_window_size>>
          PROVE  SlabTypes' /\ CreditTypes' /\ PeerAgrees'
      <4>1. CASE ~written
        BY <3>2, <4>1, SessionAssumption DEF send_data_frame, Inv, SlabTypes, CreditTypes, PeerAgrees, Windows, Active
      <4>2. CASE written
        BY <3>2, <4>2, SessionAssumption, Http2Assumption
           DEF send_data_frame, HasCredit, Inv, SlabTypes, CreditTypes, PeerAgrees, Windows, Active
      <4> QED
        BY <4>1, <4>2
    <3> QED
      BY <1>4, <3>1, <3>2 DEF WriteData, send_data_frame
  <2>3. /\ pending' \in [Slots -> Nat] /\ \A j \in Slots \ {i} : pending'[j] = pending[j]
        /\ flush' \in Seq(Slots) /\ r \in Responses
    BY <1>4 DEF WriteData, Inv, StageTypes, ControlTypes, Responses
  <2> QED
    BY <1>4, <2>1, <2>2, <2>3, RespondInv DEF WriteData, Serving, Ready
<1>5. CASE \E i \in Slots : ResetStream(i)
  BY <1>5, ResetsInv
<1> QED
  BY <1>1, <1>2, <1>3, <1>4, <1>5 DEF Application

\* flush_pending after the transport drained.
LEMMA TransportDrainsInv ==
  ASSUME Inv, TransportDrains
  PROVE  Inv'
<1>1. [i \in Slots |-> i] \in Seq(Slots)
  BY Http2Assumption DEF Slots
<1> QED
  BY <1>1, DoneInv DEF TransportDrains, Between, Ready, NoEvent, EventOf

-----------------------------------------------------------------------------
(* Flushing.                                                               *)

\* What is known while a response is flushed.
LEMMA InFlush ==
  ASSUME Inv, ~closed, flush # <<>>
  PROVE  Head(flush) \in Slots /\ Tail(flush) \in Seq(Slots) /\ event = NoEvent
  BY DEF Inv, ControlTypes, LiveOK, FlushOK

\* The last frame of a response is written: the stream is half closed, or
\* released, with the credit the frame has used.
LEMMA CloseLocalInv ==
  ASSUME Inv, ~closed, event = NoEvent, NEW i \in Slots, Active(i), response[i] \in Pending,
         close_local(i), NEW W \in [Slots -> Windows], send_windows' = closed_windows(i, W),
         allowances' \in [Slots -> Int], W[i] = allowances'[i],
         \A j \in Slots \ {i} : W[j] = send_windows[j] /\ allowances'[j] = allowances[j],
         CreditTypes', connection_send_window' = allowance', flush' \in Seq(Slots),
         UNCHANGED <<connection_receive_window, idVars, resetVars, blockVars, settingsVars,
                     event, call, closed>>
  PROVE  Inv'
<1>1. stage[i] # "new" /\ (header_stream_index = i => header_is_trailer)
  BY Zeros DEF Inv, SlotsOK, SlotOK, Pending, LiveOK, HeaderOK
<1>2. SlabTypes' /\ StageTypes'
  <2>1. send_windows' \in [Slots -> Windows]
    BY Http2Assumption DEF closed_windows, Windows
  <2>2. stream_ids' \in [Slots -> StreamIds] /\ states' \in [Slots -> StreamStates]
    BY DEF Inv, SlabTypes, close_local, StreamIds, StreamStates
  <2>3. receive_windows' \in [Slots -> 0 .. DefaultWindow]
    <3>1. /\ DefaultWindow \in 0 .. DefaultWindow /\ receive_windows \in [Slots -> 0 .. DefaultWindow]
          /\ receive_windows' \in {receive_windows, [receive_windows EXCEPT ![i] = DefaultWindow]}
      BY Http2Assumption DEF Inv, SlabTypes, close_local
    <3> QED
      BY <3>1
  <2>4. StageTypes'
    <3>1. /\ stage' \in {stage, [stage EXCEPT ![i] = "new"]}
          /\ response' \in {[response EXCEPT ![i] = "ended"], [response EXCEPT ![i] = "none"]}
          /\ pending' = [pending EXCEPT ![i] = 0]
      BY DEF close_local, clear_stream
    <3> QED
      BY <3>1 DEF Inv, StageTypes, Responses, Stages
  <2> QED
    BY <2>1, <2>2, <2>3, <2>4 DEF SlabTypes
<1>3. /\ IdTypes' /\ ResetTypes' /\ BlockTypes' /\ FlagTypes' /\ ControlTypes'
      /\ EventOK' /\ ContinuationsMatch' /\ FragmentOK' /\ FlushOK'
  BY TypeFrames, QuietEvent DEF Inv, ControlTypes, NoEvent, EventOf, FlushOK
<1>4. \A j \in Slots \ {i} :
        /\ stream_ids'[j] = stream_ids[j] /\ states'[j] = states[j] /\ stage'[j] = stage[j]
        /\ response'[j] = response[j] /\ pending'[j] = pending[j]
        /\ receive_windows'[j] = receive_windows[j]
        /\ send_windows'[j] = send_windows[j] /\ allowances'[j] = allowances[j]
  BY DEF Inv, SlabTypes, StageTypes, close_local, closed_windows, clear_stream
<1>5. CASE states[i] = "open"
  <2>1. /\ stream_ids'[i] = stream_ids[i] /\ states'[i] = "half_closed_local" /\ stage'[i] = stage[i]
        /\ response'[i] = "ended" /\ receive_windows'[i] = receive_windows[i]
        /\ send_windows'[i] = allowances'[i] /\ UNCHANGED headerVars
    BY <1>5 DEF Inv, SlabTypes, StageTypes, close_local, closed_windows
  <2>2. \A j \in Slots : (Active(j)' <=> Active(j)) /\ stream_ids'[j] = stream_ids[j]
    BY <1>4, <1>5, <2>1 DEF Active
  <2>3. HeaderTypes' /\ Streams'
    BY <2>1, <2>2, TypeFrames DEF Inv, Streams, StreamsAreDistinct, BitmapExact
  <2>4. PeerAgrees' /\ ReceiveOK'
    <3>1. PeerAgrees'
      BY <1>4, <2>1, <2>2 DEF Inv, PeerAgrees
    <3>2. ReceiveOK'
      BY <1>4, <2>1, <2>2 DEF Inv, ReceiveOK, Held
    <3> QED
      BY <3>1, <3>2
  <2>5. SlotsOK' /\ CallOK'
    <3>1. SlotsOK'
      BY <1>1, <1>4, <2>1, <2>2 DEF Inv, SlotsOK, SlotOK
    <3>2. CallOK'
      <4>1. CASE call = NoCall
        BY <4>1, IdleCall
      <4>2. CASE call # NoCall
        <5>1. /\ call.slot \in Slots /\ header_stream_index' = 0
              /\ \A j \in find(call.id)' : j = call.slot
              /\ Active(call.slot)' => stream_ids'[call.slot] = call.id
          BY <2>1, <2>2, <4>2 DEF Inv, CallOK, find
        <5>2. ~Active(call.slot)' => call.slot # i /\ ~Active(call.slot)
          BY <2>2, <5>1
        <5>3. call.slot # i => /\ stage'[call.slot] = stage[call.slot]
                               /\ response'[call.slot] = response[call.slot]
                               /\ pending'[call.slot] = pending[call.slot]
          BY <1>4, <5>1
        <5> QED
          BY <4>2, <5>1, <5>2, <5>3 DEF Inv, CallOK
      <4> QED
        BY <4>1, <4>2
    <3> QED
      BY <3>1, <3>2
  <2>6. DiscardOK' /\ ClosedOK'
    BY <1>4, <2>1, <2>2 DEF Inv, LiveOK, DiscardOK, ClosedOK
  <2>7. HeaderOK'
    BY <1>1, <1>4, <2>1, <2>2 DEF Inv, LiveOK, HeaderTypes, HeaderOK, NoDiscard, find, NoEvent, EventOf
  <2> QED
    BY <1>2, <1>3, <2>3, <2>4, <2>5, <2>6, <2>7 DEF Inv, LiveOK
<1>6. CASE states[i] = "half_closed_remote" /\ call.slot = i /\ call.callback = "request"
  <2>1. /\ states'[i] = "idle" /\ stage'[i] = stage[i] /\ response'[i] = "ended" /\ pending'[i] = 0
        /\ UNCHANGED headerVars
    BY <1>6 DEF Inv, SlabTypes, StageTypes, close_local
  <2>2. \A j \in Slots : Active(j)' => j # i /\ Active(j) /\ stream_ids'[j] = stream_ids[j]
    BY <1>4, <2>1 DEF Active
  <2>3. call # NoCall /\ header_stream_index = 0
    BY <1>6, InCall, Zeros DEF NoCall
  <2>4. HeaderTypes' /\ Streams'
    BY <2>1, <2>2, TypeFrames DEF Inv, Streams, StreamsAreDistinct, BitmapExact
  <2>5. PeerAgrees' /\ ReceiveOK'
    BY <1>4, <2>2 DEF Inv, PeerAgrees, ReceiveOK, Held, NoEvent, EventOf
  <2>6. SlotsOK'
    <3>1. SlotOK(i)'
      BY <1>1, <1>6, <2>1 DEF SlotOK
    <3>2. ASSUME NEW j \in Slots \ {i} PROVE SlotOK(j)'
      BY <1>4, <3>2 DEF Inv, SlotsOK, SlotOK, Active
    <3> QED
      BY <3>1, <3>2 DEF SlotsOK
  <2>7. CallOK'
    BY <1>6, <2>1, <2>2, <2>3 DEF Inv, CallOK, find
  <2>8. DiscardOK' /\ ClosedOK'
    BY <1>4, <1>6, <2>1, <2>2 DEF Inv, LiveOK, DiscardOK, ClosedOK
  <2>9. HeaderOK'
    BY <2>1, <2>2, <2>3 DEF Inv, LiveOK, HeaderOK, NoDiscard, find, NoEvent, EventOf
  <2> QED
    BY <1>2, <1>3, <2>4, <2>5, <2>6, <2>7, <2>8, <2>9 DEF Inv, LiveOK
<1>7. CASE states[i] = "half_closed_remote" /\ ~(call.slot = i /\ call.callback = "request")
  <2>1. clear_stream(i) /\ states' = [states EXCEPT ![i] = "idle"]
    BY <1>7 DEF close_local
  <2>2. Freed({i}) /\ Left({i}) /\ (header_stream_index \in {i} \/ UNCHANGED headerVars)
    BY <1>4, <2>1 DEF Inv, SlabTypes, StageTypes, Freed, Left, clear_stream, finish_header_block
  <2> QED
    BY <1>2, <1>3, <2>2, TypeFrames, FreedInv DEF Inv, StreamKinds, NoEvent, EventOf
<1> QED
  BY <1>5, <1>6, <1>7 DEF close_local

\* The frame a flush writes is within every limit.
LEMMA FrameFits ==
  ASSUME SlabTypes, CreditTypes, StageTypes, NEW i \in Slots
  PROVE  /\ FrameSize(i) \in Int /\ FrameSize(i) <= pending[i]
         /\ FrameSize(i) <= connection_send_window /\ FrameSize(i) <= send_windows[i]
<1>1. pending[i] \in Int /\ FrameCapacity \in Int /\ connection_send_window \in Int /\ send_windows[i] \in Int
  BY SessionAssumption DEF SlabTypes, CreditTypes, StageTypes, Windows
<1> DEFINE m == Least({pending[i], FrameCapacity, connection_send_window, send_windows[i]})
<1>2. /\ m \in {pending[i], FrameCapacity, connection_send_window, send_windows[i]}
      /\ m <= pending[i] /\ m <= connection_send_window /\ m <= send_windows[i]
  BY <1>1, LeastOfFour
<1> HIDE DEF m
<1>3. m \in Int
  BY <1>1, <1>2
<1> QED
  BY <1>2, <1>3 DEF FrameSize, m

\* A flush that writes nothing.
LEMMA FlushQuietInv ==
  ASSUME Inv, ~closed, flush # <<>>, NEW i \in Slots, i = Head(flush),
         FlushNothing(i) \/ FlushBlocked(i),
         UNCHANGED <<idVars, resetVars, blockVars, settingsVars, event, call, closed>>
  PROVE  Inv'
<1>1. event = NoEvent /\ Tail(flush) \in Seq(Slots)
  BY InFlush
<1>2. ASSUME ~Active(i), response[i] \in Pending PROVE FALSE
  <2>1. stage[i] # "new"
    BY <1>2 DEF Inv, SlotsOK, SlotOK, Pending
  <2>2. call.slot = i
    BY <1>1, <1>2, <2>1 DEF Inv, SlotsOK, SlotOK, NoEvent, EventOf
  <2>3. call # NoCall
    BY <2>2, Zeros DEF NoCall
  <2> QED
    BY <1>2, <2>1, <2>2, <2>3 DEF Inv, CallOK, Pending
<1>3. UNCHANGED <<connectionVars, streamVars, headerVars>> /\ flush' = Tail(flush)
  BY <1>2 DEF FlushNothing, FlushBlocked, Inv, StageTypes
<1> QED
  BY <1>1, <1>3, DoneInv DEF NoEvent, EventOf


\* flush_pending_stream, frame by frame.
LEMMA FlushInv ==
  ASSUME Inv, flush_pending_stream
  PROVE  Inv'
<1>1. /\ ~closed /\ flush # <<>>
      /\ UNCHANGED <<idVars, resetVars, blockVars, settingsVars, event, call, closed>>
  BY DEF flush_pending_stream
<1>2. PICK i \in Slots : i = Head(flush) /\ Tail(flush) \in Seq(Slots) /\ event = NoEvent
  BY <1>1, InFlush
<1>3. CASE FlushNothing(i) \/ FlushBlocked(i)
  BY <1>1, <1>2, <1>3, FlushQuietInv
<1>4. CASE FlushHeaders(i) \/ FlushEnding(i)
  <2>1. /\ Active(i) /\ response[i] \in Pending /\ UNCHANGED <<allowances, creditVars>>
    BY <1>4 DEF FlushHeaders, FlushEnding, Pending
  <2>2. CreditTypes' /\ connection_send_window' = allowance'
    BY <1>1, <2>1 DEF Inv, CreditTypes, PeerAgrees
  <2>3. CASE close_local(i) /\ send_windows' = closed_windows(i, send_windows) /\ flush' = Tail(flush)
    BY <1>1, <1>2, <2>1, <2>2, <2>3, CloseLocalInv DEF Inv, SlabTypes, PeerAgrees
  <2>4. CASE /\ response' = [response EXCEPT ![i] = "body"]
             /\ UNCHANGED <<stream_ids, states, receive_windows, send_windows, stage, pending,
                            headerVars, flush>>
    <3>1. SlabTypes' /\ PeerAgrees' /\ pending' \in [Slots -> Nat] /\ flush' \in Seq(Slots) /\ "body" \in Responses
          /\ response[i] # "ended"
      BY <1>1, <2>1, <2>4, TypeFrames, PeerFrame DEF Inv, StageTypes, ControlTypes, Responses, Pending
    <3> QED
      BY <1>1, <1>2, <2>1, <2>2, <2>4, <3>1, RespondInv
  <2> QED
    BY <1>4, <2>3, <2>4 DEF FlushHeaders, FlushEnding
<1>5. CASE FlushBody(i)
  <2> DEFINE n == FrameSize(i)
             W == [send_windows EXCEPT ![i] = @ - n]
  <2>1. /\ n \in Int /\ n > 0 /\ n <= pending[i] /\ n <= connection_send_window /\ n <= send_windows[i]
        /\ Active(i) /\ response[i] = "body"
        /\ connection_send_window' = connection_send_window - n /\ allowance' = allowance - n
        /\ allowances' = [allowances EXCEPT ![i] = @ - n] /\ UNCHANGED connection_receive_window
    BY <1>5, FrameFits DEF Inv, FlushBody
  <2>2. \/ n = pending[i] /\ close_local(i) /\ send_windows' = closed_windows(i, W) /\ flush' = Tail(flush)
        \/ /\ pending' = [pending EXCEPT ![i] = @ - n] /\ send_windows' = W
           /\ UNCHANGED <<stream_ids, states, receive_windows, stage, response, headerVars, flush>>
    BY <1>5 DEF FlushBody
  <2> HIDE DEF n
  <2>3. W \in [Slots -> Windows] /\ allowances' \in [Slots -> Int] /\ W[i] = allowances'[i]
        /\ \A j \in Slots \ {i} : W[j] = send_windows[j] /\ allowances'[j] = allowances[j]
    BY <2>1, Http2Assumption DEF Inv, SlabTypes, PeerAgrees, Windows
  <2>4. CreditTypes' /\ connection_send_window' = allowance'
    <3>1. connection_send_window \in 0 .. MaxWindow /\ allowance = connection_send_window
      BY DEF Inv, CreditTypes, PeerAgrees
    <3>2. connection_send_window - n \in 0 .. MaxWindow
      BY <2>1, <3>1, Http2Assumption
    <3> QED
      BY <1>1, <2>1, <3>1, <3>2 DEF Inv, CreditTypes
  <2> HIDE DEF W
  <2>5. CASE close_local(i) /\ send_windows' = closed_windows(i, W) /\ flush' = Tail(flush)
    BY <1>1, <1>2, <2>1, <2>3, <2>4, <2>5, CloseLocalInv DEF Pending
  <2>6. CASE /\ pending' = [pending EXCEPT ![i] = @ - n] /\ send_windows' = W
             /\ UNCHANGED <<stream_ids, states, receive_windows, stage, response, headerVars, flush>>
    <3>1. SlabTypes'
      BY <2>3, <2>6 DEF Inv, SlabTypes
    <3>2. PeerAgrees'
      BY <2>3, <2>4, <2>6 DEF Inv, PeerAgrees, Active
    <3>3. /\ pending' \in [Slots -> Nat] /\ \A j \in Slots \ {i} : pending'[j] = pending[j]
          /\ response' = [response EXCEPT ![i] = "body"] /\ "body" \in Responses
          /\ flush' \in Seq(Slots)
      BY <2>1, <2>6 DEF Inv, StageTypes, Responses, ControlTypes
    <3> QED
      BY <1>1, <1>2, <2>1, <2>4, <2>6, <3>1, <3>2, <3>3, RespondInv DEF Pending
  <2> QED
    BY <2>2, <2>5, <2>6
<1> QED
  BY <1>2, <1>3, <1>4, <1>5 DEF flush_pending_stream

-----------------------------------------------------------------------------
(* Received frames.                                                        *)

\* Between frames, when no CONTINUATION is due, no block is open.
LEMMA NoBlock ==
  ASSUME Inv, Between, continuation_stream_id = 0
  PROVE  NoDiscard /\ header_stream_index = 0 /\ \A i \in Slots : states[i] # "closed"
<1>1. ~closed /\ event = NoEvent /\ call = NoCall
  BY DEF Between, Ready
<1>2. NoDiscard
  BY <1>1 DEF Inv, LiveOK, DiscardOK, NoDiscard
<1>3. ASSUME header_stream_index # 0 PROVE FALSE
  <2>1. /\ header_stream_index \in Slots /\ Active(header_stream_index)
        /\ stream_ids[header_stream_index] = 0
    BY <1>1, <1>3 DEF Inv, LiveOK, HeaderOK, HeaderTypes, NoEvent, EventOf
  <2> QED
    BY <2>1, Zeros DEF Inv, Streams, StreamsAreDistinct, IdTypes
<1>4. \A i \in Slots : states[i] # "closed"
  BY <1>1, <1>3, Zeros DEF Inv, LiveOK, ClosedOK, NoEvent, EventOf, NoCall
<1> QED
  BY <1>2, <1>3, <1>4

\* A frame that moves no stream: an error, or credit.
LEMMA QuietFrameInv ==
  ASSUME Inv, Between, event' \in Events,
         event'.kind \in {"none", "connection_error", "stream_error", "settings", "window_update",
                          "discarded_data"},
         event'.kind = "stream_error" => event'.id \in Ids,
         event'.kind = "discarded_data"
           => connection_receive_window' + event'.length <= DefaultWindow,
         SlabTypes', CreditTypes', PeerAgrees', FlagTypes',
         UNCHANGED <<stream_ids, states, receive_windows, idVars, resetVars, blockVars,
                     streamVars, headerVars, call, flush, closed>>
  PROVE  Inv'
<1>1. ~closed /\ flush = <<>> /\ event = NoEvent /\ call = NoCall
  BY DEF Between, Ready
<1>2. IdTypes' /\ ResetTypes' /\ BlockTypes' /\ HeaderTypes' /\ StageTypes' /\ Streams' /\ ControlTypes'
  BY TypeFrames, StreamsFrame DEF Inv, ControlTypes
<1>3. EventOK' /\ ContinuationsMatch' /\ FragmentOK'
  BY DEF EventOK, ContinuationsMatch, FragmentOK, StreamKinds, BlockKinds, DiscardKinds
<1>4. ReceiveOK'
  BY <1>1 DEF Inv, ReceiveOK, Held, Active, NoEvent, EventOf
<1>5. SlotsOK' /\ CallOK'
  BY <1>1, SlotsFrame, IdleCall DEF Inv, NoEvent, EventOf
<1>6. DiscardOK' /\ FlushOK'
  BY <1>1 DEF Inv, LiveOK, DiscardOK, NoEvent, EventOf, FlushOK
<1>7. HeaderOK'
  BY <1>1 DEF Inv, LiveOK, HeaderOK, NoDiscard, find, Active, NoEvent, EventOf
<1>8. ClosedOK'
  BY <1>1 DEF Inv, LiveOK, ClosedOK, NoEvent, EventOf
<1> QED
  BY <1>2, <1>3, <1>4, <1>5, <1>6, <1>7, <1>8 DEF Inv, LiveOK

\* SETTINGS moves every window of a stream by the same amount, in range.
LEMMA SettingsInv ==
  ASSUME Inv, Between, NEW value \in InitialWindows \cup {initial_window_size},
         receive_settings(value), UNCHANGED <<streamVars, headerVars, call, flush, closed>>
  PROVE  Inv'
<1>1. CASE event' = ConnectionError /\ UNCHANGED <<send_windows, allowances, initial_window_size, peer_settings_seen>>
  <2>1. SlabTypes' /\ CreditTypes' /\ PeerAgrees' /\ FlagTypes'
    BY <1>1, TypeFrames, PeerFrame DEF receive_settings, Inv
  <2> QED
    BY <1>1, <2>1, EventTypes, QuietFrameInv DEF receive_settings, ConnectionError, EventOf
<1>2. CASE /\ update_initial_send_window(value)
           /\ send_windows' = moved(send_windows, value - initial_window_size)
           /\ allowances' = moved(allowances, value - initial_window_size)
           /\ initial_window_size' = value /\ peer_settings_seen' = TRUE
           /\ event' = EventOf("settings", 0, 0, 0, FALSE, FALSE)
  <2>1. value \in 0 .. MaxWindow /\ initial_window_size \in 0 .. MaxWindow
    BY <1>2, Http2Assumption DEF Inv, CreditTypes, update_initial_send_window
  <2>2. send_windows' \in [Slots -> Windows] /\ allowances' \in [Slots -> Int]
    BY <1>2, <2>1, Http2Assumption DEF Inv, SlabTypes, moved, update_initial_send_window, InRange, Windows
  <2>3. SlabTypes' /\ CreditTypes' /\ FlagTypes'
    BY <1>2, <2>1, <2>2 DEF receive_settings, Inv, SlabTypes, CreditTypes, FlagTypes
  <2>4. PeerAgrees'
    BY <1>2 DEF receive_settings, Inv, PeerAgrees, moved, Active
  <2>5. event' \in Events /\ event'.kind = "settings"
    BY <1>2, EventTypes DEF EventOf, EventKinds, StreamIds
  <2> QED
    BY <1>2, <2>3, <2>4, <2>5, QuietFrameInv DEF receive_settings
<1> QED
  BY <1>1, <1>2 DEF receive_settings

\* WINDOW_UPDATE, for the connection or for a stream.
LEMMA WindowUpdateInv ==
  ASSUME Inv, Between, NEW increment \in Increments,
         receive_connection_update(increment) \/ \E id \in Ids : receive_window_update(id, increment),
         UNCHANGED <<streamVars, headerVars, call, flush, closed>>
  PROVE  Inv'
<1> increment \in Nat
  BY Http2Assumption
<1>1. CASE receive_connection_update(increment)
  <2>1. SlabTypes' /\ FlagTypes'
    BY <1>1, TypeFrames DEF receive_connection_update, Inv
  <2>2. CASE event' = ConnectionError /\ UNCHANGED <<connection_send_window, allowance>>
    <3>1. CreditTypes' /\ PeerAgrees'
      BY <1>1, <2>2, TypeFrames, PeerFrame DEF receive_connection_update, Inv
    <3> QED
      BY <1>1, <2>1, <2>2, <3>1, EventTypes, ErrorFields, QuietFrameInv DEF receive_connection_update
  <2>3. CASE /\ connection_send_window + increment <= MaxWindow
             /\ connection_send_window' = connection_send_window + increment
             /\ allowance' = allowance + increment
             /\ event' = EventOf("window_update", 0, 0, increment, FALSE, FALSE)
    <3>1. CreditTypes'
      BY <1>1, <2>3, Http2Assumption DEF receive_connection_update, Inv, CreditTypes
    <3>2. PeerAgrees'
      BY <1>1, <2>3 DEF receive_connection_update, Inv, PeerAgrees, Active
    <3>3. event' \in Events /\ event'.kind = "window_update"
      BY <2>3, EventTypes DEF EventOf, EventKinds, StreamIds
    <3> QED
      BY <1>1, <2>1, <3>1, <3>2, <3>3, QuietFrameInv DEF receive_connection_update
  <2>4. CASE increment = 0 \/ connection_send_window + increment > MaxWindow
    BY <1>1, <2>2, <2>4 DEF receive_connection_update
  <2>5. CASE ~(increment = 0 \/ connection_send_window + increment > MaxWindow)
    <3>1. connection_send_window + increment <= MaxWindow
      BY <2>5, Http2Assumption DEF Inv, CreditTypes
    <3> QED
      BY <1>1, <2>3, <2>5, <3>1, Zenon DEF receive_connection_update
  <2> QED
    BY <2>4, <2>5
<1>2. ASSUME NEW id \in Ids, receive_window_update(id, increment) PROVE Inv'
  <2>1. CreditTypes' /\ FlagTypes'
    BY <1>2, TypeFrames DEF receive_window_update, Inv
  <2>2. CASE UNCHANGED <<send_windows, allowances>> /\ event' \in {ConnectionError, NoEvent, StreamError(id)}
    <3>1. SlabTypes' /\ PeerAgrees'
      BY <1>2, <2>2, TypeFrames, PeerFrame DEF receive_window_update, Inv
    <3>2. /\ event' \in Events /\ event'.kind \in {"none", "connection_error", "stream_error"}
          /\ event'.kind = "stream_error" => event'.id = id
      BY <2>2, ErrorEvents
    <3> QED
      BY <1>2, <2>1, <3>1, <3>2, QuietFrameInv DEF receive_window_update
  <2>3. ASSUME NEW i \in Slots, send_windows[i] + increment <= MaxWindow,
               send_windows' = [send_windows EXCEPT ![i] = @ + increment],
               allowances' = [allowances EXCEPT ![i] = @ + increment],
               event' = EventOf("window_update", i, id, increment, FALSE, FALSE)
        PROVE  Inv'
    <3>1. SlabTypes' /\ PeerAgrees'
      BY <1>2, <2>3, Http2Assumption DEF receive_window_update, Inv, SlabTypes, Windows, PeerAgrees, Active
    <3>2. event' \in Events /\ event'.kind = "window_update"
      BY <2>3, EventTypes DEF EventOf, EventKinds, StreamIds
    <3> QED
      BY <1>2, <2>1, <3>1, <3>2, QuietFrameInv DEF receive_window_update
  <2> QED
    <3>1. ASSUME NEW i \in find(id), known_update(i, id, increment) PROVE Inv'
      <4>1. i \in Slots /\ send_windows[i] \in Int
        BY <3>1 DEF find, Inv, SlabTypes, Windows
      <4>2. CASE increment = 0 \/ send_windows[i] + increment > MaxWindow
        BY <3>1, <4>2, <2>2 DEF known_update
      <4>3. CASE ~(increment = 0 \/ send_windows[i] + increment > MaxWindow)
        <5>1. send_windows[i] + increment <= MaxWindow
          BY <4>1, <4>3, Http2Assumption
        <5> QED
          BY <3>1, <4>1, <4>3, <5>1, <2>3, Zenon DEF known_update
      <4> QED
        BY <4>2, <4>3
    <3> QED
      BY <1>2, <2>2, <3>1 DEF receive_window_update
<1> QED
  BY <1>1, <1>2

\* A frame that is not accepted, or changes no stream.
LEMMA RefusedInv ==
  ASSUME Inv, Between, NEW id \in Ids, event' \in {NoEvent, ConnectionError, StreamError(id)},
         UNCHANGED <<slabVars, idVars, resetVars, blockVars, creditVars, initial_window_size,
                     streamVars, headerVars, call, flush, closed>>, FlagTypes'
  PROVE  Inv'
<1>1. /\ event' \in Events /\ event'.kind \in {"none", "connection_error", "stream_error"}
      /\ event'.kind = "stream_error" => event'.id = id
  BY ErrorEvents
<1>2. SlabTypes' /\ CreditTypes' /\ PeerAgrees'
  BY TypeFrames, PeerFrame DEF Inv
<1> QED
  BY <1>1, <1>2, QuietFrameInv

\* RST_STREAM releases the stream; the session still has to forget it.
LEMMA ResetReceivedInv ==
  ASSUME Inv, Between, continuation_stream_id = 0, NEW id \in Ids, receive_reset(id),
         UNCHANGED <<streamVars, headerVars, call, flush, closed>>
  PROVE  Inv'
<1>1. /\ ~closed /\ flush = <<>> /\ event = NoEvent /\ call = NoCall /\ NoDiscard
      /\ header_stream_index = 0 /\ \A j \in Slots : states[j] # "closed"
  BY NoBlock DEF Between, Ready
<1>2. ASSUME NEW i \in find(id), release(i), event' = EventOf("stream_reset", i, id, 0, FALSE, FALSE)
      PROVE  Inv'
  <2>1. i \in Slots /\ Active(i)
    BY <1>2 DEF find
  <2>2. event' \in Events /\ event'.kind = "stream_reset" /\ event'.slot = i
    BY <1>2, <2>1, EventTypes DEF EventOf, EventKinds, StreamIds
  <2>3. SlabTypes'
    BY <1>2, <2>1, Http2Assumption DEF Inv, SlabTypes, release, StreamIds, StreamStates, Windows
  <2>4. \A j \in Slots : /\ Active(j)' <=> Active(j) /\ j # i
                         /\ j # i => /\ stream_ids'[j] = stream_ids[j] /\ states'[j] = states[j]
                                     /\ receive_windows'[j] = receive_windows[j]
                                     /\ send_windows'[j] = send_windows[j]
                         /\ allowances'[j] = allowances[j]
    BY <1>2, <2>1 DEF Inv, SlabTypes, release, Active
  <2>5. states'[i] = "idle"
    BY <1>2, <2>1 DEF Inv, SlabTypes, release
  <2>6. /\ CreditTypes' /\ IdTypes' /\ ResetTypes' /\ BlockTypes' /\ HeaderTypes'
        /\ StageTypes' /\ FlagTypes' /\ ControlTypes'
    BY <2>2, TypeFrames DEF receive_reset, Inv, ControlTypes
  <2>7. Streams'
    BY <2>4 DEF receive_reset, Inv, Streams, StreamsAreDistinct, BitmapExact
  <2>8. PeerAgrees'
    BY <2>4 DEF receive_reset, Inv, PeerAgrees
  <2>9. EventOK' /\ ContinuationsMatch' /\ FragmentOK' /\ FlushOK'
    BY <1>1, <2>1, <2>2, <2>5 DEF EventOK, ContinuationsMatch, FragmentOK, FlushOK, Active,
                           StreamKinds, BlockKinds, DiscardKinds
  <2>10. ReceiveOK'
    BY <1>1, <2>2, <2>4 DEF Inv, ReceiveOK, Held, NoEvent, EventOf
  <2>11. SlotsOK' /\ CallOK'
    <3>1. CallOK'
      BY <1>1, IdleCall
    <3>2. SlotsOK'
      BY <1>1, <2>2, <2>4, <2>5 DEF Inv, SlotsOK, SlotOK, NoEvent, EventOf
    <3> QED
      BY <3>1, <3>2
  <2>12. DiscardOK' /\ HeaderOK' /\ ClosedOK'
    BY <1>1, <2>4, <2>5 DEF receive_reset, NoDiscard, DiscardOK, HeaderOK, ClosedOK
  <2> QED
    BY <2>3, <2>6, <2>7, <2>8, <2>9, <2>10, <2>11, <2>12 DEF Inv, LiveOK
<1>3. CASE event' \in {ConnectionError, NoEvent} /\ UNCHANGED slabVars
  BY <1>3, RefusedInv, TypeFrames DEF receive_reset, Inv
<1> QED
  BY <1>2, <1>3 DEF receive_reset

\* DATA takes credit of the connection and of its stream, or is refused.
LEMMA DataReceivedInv ==
  ASSUME Inv, Between, continuation_stream_id = 0, NEW id \in Ids, NEW length \in DataSizes,
         NEW end_stream \in BOOLEAN, receive_data(id, length, end_stream),
         UNCHANGED <<streamVars, headerVars, call, flush, closed>>
  PROVE  Inv'
<1> length \in Nat
  BY Http2Assumption
<1>1. /\ ~closed /\ flush = <<>> /\ event = NoEvent /\ call = NoCall /\ NoDiscard
      /\ header_stream_index = 0 /\ \A j \in Slots : states[j] # "closed"
  BY NoBlock DEF Between, Ready
<1>2. /\ FlagTypes' /\ connection_receive_window \in 0 .. DefaultWindow
      /\ UNCHANGED <<stream_ids, states, send_windows, allowances, idVars,
                     resetVars, blockVars, connection_send_window, allowance, settingsVars>>
  BY TypeFrames DEF receive_data, Inv, CreditTypes
<1>3. CASE UNCHANGED <<connection_receive_window, receive_windows>> /\ event' \in {ConnectionError, StreamError(id)}
  BY <1>2, <1>3, RefusedInv
<1>4. CASE /\ length <= connection_receive_window
           /\ connection_receive_window' = connection_receive_window - length
           /\ UNCHANGED receive_windows
           /\ event' \in {StreamError(id), EventOf("discarded_data", 0, id, length, FALSE, FALSE)}
  <2>1. SlabTypes' /\ PeerAgrees'
    BY <1>2, <1>4, TypeFrames, PeerFrame DEF Inv
  <2>2. CreditTypes'
    <3>1. connection_receive_window' \in 0 .. DefaultWindow
      BY <1>2, <1>4, Http2Assumption
    <3> QED
      BY <1>2, <3>1 DEF Inv, CreditTypes
  <2>3. CASE event' = StreamError(id)
    BY <1>2, <1>4, <2>1, <2>2, <2>3, ErrorEvents, ErrorFields, QuietFrameInv
  <2>4. CASE event' = EventOf("discarded_data", 0, id, length, FALSE, FALSE)
    <3>1. event' \in Events /\ event'.kind = "discarded_data" /\ event'.length = length
      BY <2>4, EventTypes DEF EventOf, EventKinds, StreamIds
    <3>2. connection_receive_window' + length <= DefaultWindow
      BY <1>2, <1>4, Http2Assumption
    <3> QED
      BY <1>2, <1>4, <2>1, <2>2, <3>1, <3>2, QuietFrameInv
  <2> QED
    BY <1>4, <2>3, <2>4
<1>5. ASSUME NEW i \in find(id), length <= connection_receive_window, length <= receive_windows[i],
             connection_receive_window' = connection_receive_window - length,
             receive_windows' = [receive_windows EXCEPT ![i] = @ - length],
             event' = EventOf("data", i, id, length, FALSE, end_stream)
      PROVE  Inv'
  <2>1. i \in Slots /\ Active(i) /\ stream_ids[i] = id
    BY <1>5 DEF find
  <2>2. /\ event' \in Events /\ event'.kind = "data" /\ event'.slot = i /\ event'.id = id
        /\ event'.length = length
    BY <1>5, <2>1, EventTypes DEF EventOf, EventKinds, StreamIds
  <2>3. receive_windows[i] = DefaultWindow /\ receive_windows[i] \in 0 .. DefaultWindow
    BY <1>1, <2>1, Http2Assumption DEF Inv, SlabTypes, ReceiveOK, Held, NoEvent, EventOf
  <2>4. SlabTypes' /\ CreditTypes'
    <3>1. receive_windows' \in [Slots -> 0 .. DefaultWindow]
      BY <1>5, <2>1, <2>3 DEF Inv, SlabTypes
    <3>2. connection_receive_window' \in 0 .. DefaultWindow
      BY <1>2, <1>5, Http2Assumption
    <3> QED
      BY <1>2, <3>1, <3>2 DEF Inv, SlabTypes, CreditTypes
  <2>5. /\ IdTypes' /\ ResetTypes' /\ BlockTypes' /\ HeaderTypes' /\ StageTypes' /\ ControlTypes'
        /\ Streams' /\ PeerAgrees'
    BY <1>2, <2>2, TypeFrames, StreamsFrame, PeerFrame DEF Inv, ControlTypes
  <2>6. EventOK' /\ ContinuationsMatch' /\ FragmentOK' /\ FlushOK'
    BY <1>1, <1>2, <2>1, <2>2 DEF EventOK, ContinuationsMatch, FragmentOK, FlushOK, Active,
                           StreamKinds, BlockKinds, DiscardKinds
  <2>7. ReceiveOK'
    <3>1. ASSUME NEW j \in Slots, Active(j)'
          PROVE  receive_windows'[j] = DefaultWindow - (IF j = i THEN length ELSE 0)
      BY <1>1, <1>2, <1>5, <2>1, <2>3, <3>1, Http2Assumption
         DEF Inv, SlabTypes, ReceiveOK, Held, Active, NoEvent, EventOf
    <3>2. connection_receive_window' + length <= DefaultWindow
      BY <1>2, <1>5, Http2Assumption
    <3> QED
      BY <2>1, <2>2, <3>1, <3>2 DEF ReceiveOK, Held
  <2>8. SlotsOK' /\ CallOK'
    BY <1>1, <1>2, SlotsFrame, IdleCall DEF Inv, NoEvent, EventOf
  <2>9. DiscardOK' /\ HeaderOK' /\ ClosedOK'
    BY <1>1, <1>2 DEF NoDiscard, DiscardOK, HeaderOK, ClosedOK
  <2> QED
    BY <1>2, <2>4, <2>5, <2>6, <2>7, <2>8, <2>9 DEF Inv, LiveOK
<1>6. ASSUME NEW answer \in {StreamError(id), EventOf("discarded_data", 0, id, length, FALSE, FALSE)},
             consume_closed_data(length, answer)
      PROVE  Inv'
  <2>1. CASE length > connection_receive_window
    BY <1>3, <1>6, <2>1 DEF consume_closed_data
  <2>2. CASE ~(length > connection_receive_window)
    <3>1. length <= connection_receive_window
      BY <1>2, <2>2, Http2Assumption
    <3> QED
      BY <1>4, <1>6, <2>2, <3>1, Zenon DEF consume_closed_data
  <2> QED
    BY <2>1, <2>2
<1>7. ASSUME NEW i \in find(id), known_data(i, id, length, end_stream) PROVE Inv'
  BY <1>3, <1>5, <1>6, <1>7 DEF known_data
<1> QED
  BY <1>3, <1>6, <1>7 DEF receive_data

-----------------------------------------------------------------------------
(* HEADERS and CONTINUATION.                                               *)

\* A newly opened identifier shifts the bitmap to where it is exact again.
LEMMA RecordOpened ==
  ASSUME IdTypes, Streams, NEW id \in Ids, id > highest_peer_stream_id, record_opened_stream(id)
  PROVE  /\ IdTypes' /\ BitmapExact' /\ \A x \in opened' : x <= highest_peer_stream_id'
         /\ id \notin opened
<1> DEFINE h == highest_peer_stream_id
           steps == (id - h) \div 2
<1>1. /\ h \in Nat /\ id \in Nat /\ id > h /\ id % 2 = 1 /\ (h = 0 \/ h % 2 = 1)
      /\ opened \subseteq Ids /\ opened \subseteq Nat /\ opened_peer_bitmap \subseteq 0 .. Width - 1
      /\ \A x \in opened : x <= h
  BY Http2Assumption DEF IdTypes, StreamIds, Streams
<1>2. /\ opened_peer_bitmap' = {b \in 0 .. Width - 1 : b - steps \in opened_peer_bitmap} \cup {0}
      /\ highest_peer_stream_id' = id /\ opened' = opened \cup {id}
  BY DEF record_opened_stream, shifted
<1>3. steps \in Nat /\ (h # 0 => id = h + 2 * steps)
  BY <1>1
<1>4. h = 0 => opened = {} /\ opened_peer_bitmap = {}
  <2>1. h = 0 => opened = {}
    BY <1>1, Zeros
  <2> QED
    BY <1>1, <2>1 DEF Streams, BitmapExact
<1>5. Width \in Nat \ {0}
  BY Http2Assumption
<1> HIDE DEF steps
<1>6. BitmapExact'
  <2> SUFFICES ASSUME NEW b \in 0 .. Width - 1
               PROVE  b \in opened_peer_bitmap' <=> id - 2 * b \in opened \cup {id}
    BY <1>2 DEF BitmapExact
  <2>1. CASE b = 0
    BY <1>1, <1>2, <2>1
  <2>2. CASE b # 0 /\ h = 0
    <3>1. id - 2 * b # id
      BY <1>1, <2>2
    <3> QED
      BY <1>2, <1>4, <2>2, <3>1
  <2>3. CASE b # 0 /\ h # 0
    <3>1. b \in opened_peer_bitmap' <=> b - steps \in opened_peer_bitmap
      BY <1>2, <2>3
    <3>2. id - 2 * b = h - 2 * (b - steps) /\ id - 2 * b # id
      BY <1>1, <1>3, <2>3
    <3>3. CASE b >= steps
      <4>1. b - steps \in 0 .. Width - 1
        BY <1>3, <1>5, <3>3
      <4> QED
        BY <3>1, <3>2, <4>1 DEF Streams, BitmapExact
    <3>4. CASE b < steps
      <4>1. b - steps \notin opened_peer_bitmap
        BY <1>1, <1>3, <1>5, <3>4
      <4>2. id - 2 * b > h
        BY <1>1, <1>3, <2>3, <3>4
      <4> QED
        BY <1>1, <3>1, <3>2, <4>1, <4>2
    <3> QED
      BY <1>3, <3>3, <3>4
  <2> QED
    BY <2>1, <2>2, <2>3
<1>7. IdTypes'
  BY <1>1, <1>2, <1>5 DEF IdTypes, StreamIds
<1> QED
  BY <1>1, <1>2, <1>6, <1>7

\* The first frame of a block that the session discards.
LEMMA DiscardedHeadersInv ==
  ASSUME Inv, Between, continuation_stream_id = 0, NEW id \in Ids, NEW d \in Discards,
         NEW end_headers \in BOOLEAN, discarded_headers(d, id, end_headers),
         IdTypes', Streams',
         UNCHANGED <<slabVars, resetVars, creditVars, settingsVars, streamVars, headerVars,
                     call, flush, closed>>
  PROVE  Inv'
<1>1. /\ ~closed /\ flush = <<>> /\ event = NoEvent /\ call = NoCall /\ NoDiscard
      /\ header_stream_index = 0 /\ \A j \in Slots : states[j] # "closed"
  BY NoBlock DEF Between, Ready
<1>2. /\ event' \in Events /\ event'.kind = "discarded_headers" /\ event'.discard = d
      /\ event'.id = id /\ event'.end_headers = end_headers
  BY EventTypes DEF discarded_headers, DiscardEvent, EventKinds, StreamIds
<1>3. /\ continuation_stream_id' = IF end_headers THEN 0 ELSE id
      /\ \A e \in Discards : discarding'[e] = IF ~end_headers /\ e = d THEN id ELSE 0
      /\ BlockTypes'
  BY <1>1 DEF discarded_headers, expect_continuation, NoDiscard, Inv, BlockTypes, StreamIds
<1>4. /\ SlabTypes' /\ CreditTypes' /\ ResetTypes' /\ HeaderTypes' /\ StageTypes' /\ FlagTypes'
      /\ ControlTypes' /\ PeerAgrees'
  BY <1>2, TypeFrames, PeerFrame DEF Inv, ControlTypes
<1>5. EventOK' /\ ContinuationsMatch' /\ FlushOK'
  BY <1>1, <1>2 DEF EventOK, ContinuationsMatch, FlushOK, StreamKinds, DiscardKinds
<1>6. ReceiveOK' /\ SlotsOK' /\ CallOK'
  BY <1>1, <1>2, ReceiveKept, SlotsFrame, IdleCall DEF Inv, NoEvent, EventOf
<1>7. DiscardOK'
  BY <1>2, <1>3 DEF DiscardOK
<1>8. FragmentOK'
  BY <1>1, <1>2, <1>3 DEF FragmentOK, BlockKinds, DiscardKinds
<1>9. HeaderOK' /\ ClosedOK'
  BY <1>1, <1>2, <1>3, Zeros DEF HeaderOK, ClosedOK, NoDiscard
<1> QED
  BY <1>3, <1>4, <1>5, <1>6, <1>7, <1>8, <1>9 DEF Inv, LiveOK

\* The first frame of a block for the stream of slot i.
LEMMA AcceptedHeadersInv ==
  ASSUME Inv, Between, continuation_stream_id = 0, NEW id \in Ids, NEW i \in Slots,
         NEW end_headers \in BOOLEAN, NEW end_stream \in BOOLEAN,
         accepted_headers(i, id, end_headers, end_stream),
         SlabTypes', IdTypes', Streams', PeerAgrees',
         Active(i)', stream_ids'[i] = id, receive_windows'[i] = DefaultWindow,
         states'[i] \in {"half_closed_local", "closed"} => response[i] = "ended",
         states'[i] = "closed" => end_stream,
         \A j \in Slots \ {i} : /\ states'[j] = states[j] /\ stream_ids'[j] = stream_ids[j]
                                /\ receive_windows'[j] = receive_windows[j],
         UNCHANGED <<resetVars, creditVars, settingsVars, streamVars, headerVars, call, flush, closed>>
  PROVE  Inv'
<1>1. /\ ~closed /\ flush = <<>> /\ event = NoEvent /\ call = NoCall /\ NoDiscard
      /\ header_stream_index = 0 /\ \A j \in Slots : states[j] # "closed"
  BY NoBlock DEF Between, Ready
<1>2. /\ event' \in Events /\ event'.kind = "headers" /\ event'.slot = i
      /\ event'.id = id /\ event'.end_headers = end_headers /\ event'.end_stream = end_stream
  BY EventTypes DEF accepted_headers, EventOf, EventKinds, StreamIds
<1>3. /\ continuation_stream_id' = IF end_headers THEN 0 ELSE id
      /\ UNCHANGED discarding
  BY DEF accepted_headers, expect_continuation
<1>4. CreditTypes' /\ ResetTypes' /\ HeaderTypes' /\ StageTypes' /\ FlagTypes' /\ ControlTypes'
  BY <1>2, TypeFrames DEF Inv, ControlTypes
<1>5. BlockTypes'
  BY <1>3 DEF Inv, BlockTypes, StreamIds
<1>6. EventOK' /\ ContinuationsMatch' /\ FlushOK' /\ CallOK'
  BY <1>1, <1>2, IdleCall DEF EventOK, ContinuationsMatch, FlushOK, StreamKinds, DiscardKinds, Active
<1>7. ReceiveOK'
  BY <1>1, <1>2, Http2Assumption DEF Inv, ReceiveOK, Held, Active, NoEvent, EventOf
<1>8. SlotsOK'
  BY <1>1, <1>2, Zeros DEF Inv, SlotsOK, SlotOK, Active, NoEvent, EventOf, NoCall
<1>9. DiscardOK' /\ FragmentOK'
  BY <1>1, <1>2, <1>3 DEF DiscardOK, FragmentOK, NoDiscard, BlockKinds, DiscardKinds
<1>10. ClosedOK'
  BY <1>1, <1>2 DEF ClosedOK
<1>11. HeaderOK'
  <2>1. \A j \in Slots : Active(j)' /\ stream_ids'[j] = id => j = i
    BY DEF Streams, StreamsAreDistinct
  <2> QED
    BY <1>1, <1>2, <1>3, <2>1 DEF HeaderOK, find
<1> QED
  BY <1>4, <1>5, <1>6, <1>7, <1>8, <1>9, <1>10, <1>11 DEF Inv, LiveOK

\* A stream that is opened now is not one that has a slot.
LEMMA OpenedStreams ==
  ASSUME Inv, NEW id \in Ids, id > highest_peer_stream_id, record_opened_stream(id),
         UNCHANGED <<stream_ids, states>>
  PROVE  IdTypes' /\ Streams'
<1>1. /\ IdTypes' /\ BitmapExact' /\ \A x \in opened' : x <= highest_peer_stream_id'
  BY RecordOpened DEF Inv
<1>2. opened' = opened \cup {id} /\ highest_peer_stream_id' = id
  BY DEF record_opened_stream
<1>3. StreamsAreDistinct'
  <2>1. \A i \in Slots : Active(i) => stream_ids[i] \in opened /\ stream_ids[i] <= id
    BY <1>1, <1>2 DEF Inv, Streams, StreamsAreDistinct
  <2> QED
    BY <1>2, <2>1 DEF Inv, Streams, StreamsAreDistinct, Active
<1> QED
  BY <1>1, <1>3 DEF Streams

\* A new stream takes an idle slot and the peer's initial window.
LEMMA NewStreamInv ==
  ASSUME Inv, Between, continuation_stream_id = 0, NEW id \in Ids, id > highest_peer_stream_id,
         NEW i \in Slots, NEW end_headers \in BOOLEAN, NEW end_stream \in BOOLEAN,
         acquire(id, i), states' = [states EXCEPT ![i] = after_headers("open", end_stream)],
         accepted_headers(i, id, end_headers, end_stream), record_opened_stream(id),
         UNCHANGED <<resetVars, creditVars, settingsVars, streamVars, headerVars, call, flush, closed>>
  PROVE  Inv'
<1>1. after_headers("open", end_stream) \in {"open", "half_closed_remote"}
  BY DEF after_headers
<1>2. /\ ~Active(i) /\ Active(i)' /\ stream_ids'[i] = id /\ receive_windows'[i] = DefaultWindow
      /\ states'[i] \notin {"half_closed_local", "closed"} /\ send_windows'[i] = allowances'[i]
      /\ \A j \in Slots \ {i} : /\ states'[j] = states[j] /\ stream_ids'[j] = stream_ids[j]
                                /\ receive_windows'[j] = receive_windows[j]
                                /\ send_windows'[j] = send_windows[j] /\ allowances'[j] = allowances[j]
  BY <1>1 DEF Inv, SlabTypes, acquire, Active
<1>3. SlabTypes'
  <2>1. initial_window_size \in Windows /\ initial_window_size \in Int /\ DefaultWindow \in 0 .. DefaultWindow
    BY Http2Assumption DEF Inv, CreditTypes, Windows
  <2> QED
    BY <1>1, <2>1 DEF Inv, SlabTypes, acquire, StreamIds, StreamStates
<1>4. PeerAgrees'
  BY <1>2 DEF Inv, PeerAgrees, Active
<1>5. /\ IdTypes' /\ BitmapExact' /\ \A x \in opened' : x <= highest_peer_stream_id'
      /\ id \notin opened /\ opened' = opened \cup {id} /\ highest_peer_stream_id' = id
  BY RecordOpened DEF Inv, record_opened_stream
<1>6. StreamsAreDistinct'
  <2>1. \A j \in Slots \ {i} : Active(j)' => Active(j) /\ stream_ids'[j] \in opened
    BY <1>2 DEF Inv, Streams, StreamsAreDistinct, Active
  <2>2. \A j \in Slots : Active(j)' => stream_ids'[j] \in opened'
    BY <1>2, <1>5, <2>1
  <2>3. \A j, k \in Slots : Active(j)' /\ Active(k)' /\ stream_ids'[j] = stream_ids'[k] => j = k
    BY <1>2, <1>5, <2>1 DEF Inv, Streams, StreamsAreDistinct
  <2> QED
    BY <1>5, <2>2, <2>3 DEF StreamsAreDistinct
<1>7. Streams'
  BY <1>5, <1>6 DEF Streams
<1> QED
  BY <1>2, <1>3, <1>4, <1>5, <1>7, AcceptedHeadersInv

\* HEADERS, on a known stream, a closed one or a new one.
LEMMA HeadersReceivedInv ==
  ASSUME Inv, Between, continuation_stream_id = 0, NEW id \in Ids,
         NEW end_headers \in BOOLEAN, NEW end_stream \in BOOLEAN,
         receive_headers(id, end_headers, end_stream),
         UNCHANGED <<streamVars, headerVars, call, flush, closed>>
  PROVE  Inv'
<1>1. UNCHANGED <<resetVars, creditVars, settingsVars>> /\ FlagTypes'
  BY TypeFrames DEF receive_headers, Inv
<1>2. ASSUME NEW i \in find(id), known_headers(i, id, end_headers, end_stream) PROVE Inv'
  <2>1. i \in Slots /\ Active(i) /\ stream_ids[i] = id
    BY <1>2 DEF find
  <2>2. UNCHANGED <<stream_ids, receive_windows, send_windows, allowances, idVars>>
    BY <1>2 DEF known_headers
  <2>3. CASE discarded_headers("closed", id, end_headers) /\ UNCHANGED states
    <3>1. IdTypes' /\ Streams' /\ "closed" \in Discards
      BY <2>2, <2>3, TypeFrames, StreamsFrame DEF Inv, Discards
    <3> QED
      BY <1>1, <2>2, <2>3, <3>1, DiscardedHeadersInv
  <2>4. CASE /\ states[i] \in {"open", "half_closed_local"}
             /\ accepted_headers(i, id, end_headers, end_stream)
             /\ states' = [states EXCEPT ![i] = after_headers(@, end_stream)]
    <3>1. /\ states'[i] = after_headers(states[i], end_stream)
          /\ states'[i] \in {"open", "half_closed_remote", "half_closed_local", "closed"}
          /\ states'[i] \in {"half_closed_local", "closed"} => states[i] = "half_closed_local"
          /\ states'[i] = "closed" => end_stream
      BY <2>1, <2>4 DEF Inv, SlabTypes, after_headers
    <3>2. SlabTypes' /\ \A j \in Slots : (Active(j)' <=> Active(j)) /\ (j # i => states'[j] = states[j])
      BY <2>1, <2>2, <2>4, <3>1 DEF Inv, SlabTypes, StreamStates, Active
    <3>3. IdTypes' /\ Streams' /\ PeerAgrees'
      BY <1>1, <2>2, <3>2, TypeFrames DEF Inv, Streams, StreamsAreDistinct, BitmapExact, PeerAgrees
    <3>4. receive_windows[i] = DefaultWindow
      BY <2>1, Http2Assumption DEF Inv, ReceiveOK, Held, Between, NoEvent, EventOf
    <3>5. states'[i] \in {"half_closed_local", "closed"} => response[i] = "ended"
      BY <2>1, <3>1 DEF Inv, SlotsOK, SlotOK
    <3> QED
      BY <1>1, <2>1, <2>2, <2>4, <3>1, <3>2, <3>3, <3>4, <3>5, AcceptedHeadersInv
  <2> QED
    BY <1>2, <2>3, <2>4 DEF known_headers
<1>3. CASE event' = ConnectionError /\ UNCHANGED <<slabVars, idVars, blockVars>>
  BY <1>1, <1>3, RefusedInv
<1>4. CASE late_headers(id, end_headers) /\ classify_missing_stream(id) # "idle"
  <2>1. classify_missing_stream(id) \in Discards
    BY <1>4 DEF classify_missing_stream, Discards
  <2>2. IdTypes' /\ Streams'
    BY <1>4, TypeFrames, StreamsFrame DEF late_headers, Inv
  <2> QED
    BY <1>1, <1>4, <2>1, <2>2, DiscardedHeadersInv DEF late_headers
<1>5. CASE new_headers(id, end_headers, end_stream) /\ classify_missing_stream(id) = "idle"
  <2>1. id > highest_peer_stream_id
    BY <1>5, Http2Assumption DEF classify_missing_stream, Inv, IdTypes, StreamIds
  <2>2. CASE event' = StreamError(id) /\ UNCHANGED <<slabVars, idVars, blockVars>>
    BY <1>1, <2>2, RefusedInv
  <2>3. CASE record_opened_stream(id) /\ discarded_headers("refused", id, end_headers) /\ UNCHANGED slabVars
    <3>1. IdTypes' /\ Streams' /\ "refused" \in Discards
      BY <2>1, <2>3, OpenedStreams DEF Discards
    <3> QED
      BY <1>1, <2>3, <3>1, DiscardedHeadersInv
  <2>4. ASSUME NEW i \in Slots, acquire(id, i), record_opened_stream(id),
               states' = [states EXCEPT ![i] = after_headers("open", end_stream)],
               accepted_headers(i, id, end_headers, end_stream)
        PROVE  Inv'
    BY <1>1, <2>1, <2>4, NewStreamInv
  <2> QED
    BY <1>5, <2>2, <2>3, <2>4 DEF new_headers
<1> QED
  BY <1>2, <1>3, <1>4, <1>5 DEF receive_headers

\* CONTINUATION of the block that is open.
LEMMA ContinuationReceivedInv ==
  ASSUME Inv, Between, NEW id \in Ids, NEW end_headers \in BOOLEAN,
         receive_continuation(id, end_headers),
         UNCHANGED <<streamVars, headerVars, call, flush, closed>>
  PROVE  Inv'
<1>1. /\ ~closed /\ flush = <<>> /\ event = NoEvent /\ call = NoCall /\ continuation_stream_id = id /\ id # 0
      /\ UNCHANGED <<slabVars, idVars, resetVars, creditVars, settingsVars>>
  BY Zeros DEF Between, Ready, receive_continuation
<1>2. /\ SlabTypes' /\ CreditTypes' /\ IdTypes' /\ ResetTypes' /\ HeaderTypes' /\ StageTypes'
      /\ FlagTypes' /\ Streams' /\ PeerAgrees' /\ CallOK'
  BY <1>1, TypeFrames, StreamsFrame, PeerFrame, IdleCall DEF Inv
<1>3. ASSUME NEW d \in Discards, discarding[d] = id, continuation_ends(end_headers),
             discard_ends(d, end_headers),
             event' = DiscardEvent("discarded_continuation", d, id, end_headers)
      PROVE  Inv'
  <2>1. /\ event' \in Events /\ event'.kind = "discarded_continuation" /\ event'.discard = d
        /\ event'.id = id /\ event'.end_headers = end_headers
    BY <1>3, EventTypes DEF DiscardEvent, EventKinds, StreamIds
  <2>2. /\ discarded_header[d] = id /\ \A e \in Discards : discarding[e] # 0 => e = d
    BY <1>1, <1>3 DEF Inv, LiveOK, DiscardOK, NoEvent, EventOf
  <2>3. header_stream_index = 0
    BY <1>1, <1>3 DEF Inv, LiveOK, HeaderOK, NoDiscard, NoEvent, EventOf
  <2>4. /\ continuation_stream_id' = (IF end_headers THEN 0 ELSE id)
        /\ \A e \in Discards : discarding'[e] = (IF ~end_headers /\ e = d THEN id ELSE 0)
        /\ BlockTypes'
    BY <1>1, <1>3, <2>2 DEF continuation_ends, discard_ends, Inv, BlockTypes, StreamIds
  <2>5. EventOK' /\ ContinuationsMatch' /\ FlushOK' /\ ControlTypes'
    BY <1>1, <2>1, <2>2 DEF EventOK, ContinuationsMatch, FlushOK, StreamKinds, DiscardKinds, Inv, ControlTypes
  <2>6. ReceiveOK' /\ SlotsOK'
    BY <1>1, <2>1, ReceiveKept, SlotsFrame DEF Inv, NoEvent, EventOf
  <2>7. DiscardOK' /\ FragmentOK'
    BY <1>1, <2>1, <2>2, <2>3, <2>4 DEF DiscardOK, FragmentOK, BlockKinds, DiscardKinds
  <2>8. HeaderOK'
    BY <1>1, <2>3, <2>4 DEF HeaderOK, NoDiscard
  <2>9. ClosedOK'
    BY <1>1, <2>3, Zeros DEF Inv, LiveOK, ClosedOK, NoEvent, EventOf, NoCall
  <2> QED
    BY <1>2, <2>4, <2>5, <2>6, <2>7, <2>8, <2>9 DEF Inv, LiveOK
<1>4. ASSUME \A d \in Discards : discarding[d] # id, NEW i \in find(id), continuation_ends(end_headers),
             event' = EventOf("continuation", i, id, 0, end_headers, FALSE), UNCHANGED discarding
      PROVE  Inv'
  <2>1. i \in Slots /\ Active(i) /\ stream_ids[i] = id
    BY <1>4 DEF find
  <2>2. /\ event' \in Events /\ event'.kind = "continuation" /\ event'.slot = i
        /\ event'.id = id /\ event'.end_headers = end_headers
    BY <1>4, <2>1, EventTypes DEF EventOf, EventKinds, StreamIds
  <2>3. NoDiscard
    BY <1>1, <1>4 DEF Inv, LiveOK, DiscardOK, NoDiscard
  <2>4. header_stream_index = i
    BY <1>1, <1>4, <2>3 DEF Inv, LiveOK, HeaderOK, NoEvent, EventOf
  <2>5. continuation_stream_id' = (IF end_headers THEN 0 ELSE id) /\ BlockTypes'
    BY <1>1, <1>4 DEF continuation_ends, Inv, BlockTypes, StreamIds
  <2>6. EventOK' /\ ContinuationsMatch' /\ FlushOK' /\ ControlTypes'
    BY <1>1, <2>1, <2>2, <2>4 DEF EventOK, ContinuationsMatch, FlushOK, StreamKinds, DiscardKinds, Inv, ControlTypes, Active
  <2>7. ReceiveOK' /\ SlotsOK'
    BY <1>1, <2>2, ReceiveKept, SlotsFrame DEF Inv, NoEvent, EventOf
  <2>8. DiscardOK' /\ FragmentOK'
    BY <1>4, <2>2, <2>3, <2>4, <2>5 DEF DiscardOK, FragmentOK, NoDiscard, BlockKinds, DiscardKinds
  <2>9. HeaderOK'
    <3>1. \A j \in find(id) : j = i
      BY <1>4, OneSlot DEF Inv
    <3>2. ~header_is_trailer => stage[i] = "headers" /\ response[i] = "none"
      BY <1>1, <2>1, <2>4, Zeros DEF Inv, LiveOK, HeaderOK
    <3> QED
      BY <1>1, <1>4, <2>1, <2>2, <2>3, <2>4, <2>5, <3>1, <3>2 DEF HeaderOK, NoDiscard, find, Active
  <2>10. ClosedOK'
    BY <1>1, <2>2, <2>4, Zeros DEF Inv, LiveOK, ClosedOK, NoEvent, EventOf, NoCall
  <2> QED
    BY <1>2, <2>5, <2>6, <2>7, <2>8, <2>9, <2>10 DEF Inv, LiveOK
<1>5. CASE event' = StreamError(id) /\ UNCHANGED blockVars
  BY <1>1, <1>2, <1>5, RefusedInv
<1> QED
  BY <1>3, <1>4, <1>5 DEF receive_continuation

\* receive_frame: one case for each type of frame.
LEMMA ReceiveFrameInv ==
  ASSUME Inv, ReceiveFrame
  PROVE  Inv'
<1>1. Between /\ receive_frame /\ UNCHANGED <<streamVars, headerVars, call, flush, closed>>
  BY DEF ReceiveFrame
<1>2. CASE receive_invalid
  <2>1. SlabTypes' /\ CreditTypes' /\ PeerAgrees' /\ FlagTypes'
    BY <1>1, <1>2, TypeFrames, PeerFrame DEF receive_invalid, Inv
  <2> QED
    BY <1>1, <1>2, <2>1, EventTypes, ErrorFields, QuietFrameInv DEF receive_invalid
<1>3. ASSUME NEW value \in InitialWindows \cup {initial_window_size}, receive_settings(value) PROVE Inv'
  BY <1>1, <1>3, SettingsInv
<1>4. ASSUME NEW id \in Ids, NEW end_headers \in BOOLEAN, receive_continuation(id, end_headers) PROVE Inv'
  BY <1>1, <1>4, ContinuationReceivedInv
<1>5. ASSUME continuation_stream_id = 0, NEW id \in Ids, NEW end_headers \in BOOLEAN,
             NEW end_stream \in BOOLEAN, receive_headers(id, end_headers, end_stream)
      PROVE  Inv'
  BY <1>1, <1>5, HeadersReceivedInv
<1>6. ASSUME continuation_stream_id = 0, NEW id \in Ids, receive_self_dependency(id) \/ receive_reset(id)
      PROVE  Inv'
  <2>1. CASE receive_self_dependency(id)
    BY <1>1, <2>1, RefusedInv, TypeFrames DEF receive_self_dependency, Inv
  <2> QED
    BY <1>1, <1>6, <2>1, ResetReceivedInv
<1>7. ASSUME continuation_stream_id = 0, NEW id \in Ids, NEW length \in DataSizes,
             NEW end_stream \in BOOLEAN, receive_data(id, length, end_stream)
      PROVE  Inv'
  BY <1>1, <1>7, DataReceivedInv
<1>8. ASSUME NEW increment \in Increments,
             receive_connection_update(increment) \/ \E id \in Ids : receive_window_update(id, increment)
      PROVE  Inv'
  BY <1>1, <1>8, WindowUpdateInv
<1>9. CASE receive_goaway
  <2>1. event' = NoEvent /\ FlagTypes' /\ SlabTypes' /\ CreditTypes' /\ PeerAgrees'
    BY <1>1, <1>9, TypeFrames, PeerFrame DEF receive_goaway, Between, Inv, FlagTypes
  <2> QED
    BY <1>1, <1>9, <2>1, EventTypes, ErrorFields, QuietFrameInv DEF receive_goaway
<1> QED
  BY <1>1, <1>2, <1>3, <1>4, <1>5, <1>6, <1>7, <1>8, <1>9 DEF receive_frame

-----------------------------------------------------------------------------
(* The theorems.                                                           *)

\* Every step of the session keeps the invariant.
LEMMA NextInv ==
  ASSUME Inv, [Next]_vars
  PROVE  Inv'
<1>1. CASE UNCHANGED vars
  <2>1. /\ UNCHANGED <<connectionVars, streamVars, headerVars, call, flush, closed>> /\ event' = event
    BY <1>1 DEF vars
  <2>2. /\ SlabTypes' /\ CreditTypes' /\ IdTypes' /\ ResetTypes' /\ BlockTypes'
        /\ HeaderTypes' /\ StageTypes' /\ FlagTypes' /\ Streams' /\ PeerAgrees'
    BY <2>1, TypeFrames, StreamsFrame, PeerFrame DEF Inv
  <2>3. ~closed => FragmentOK' /\ FlushOK'
    BY <2>1 DEF Inv, LiveOK, FragmentOK, FlushOK, NoDiscard
  <2>4. ControlTypes' /\ EventOK' /\ ContinuationsMatch'
    BY <2>1 DEF Inv, ControlTypes, EventOK, ContinuationsMatch, Active
  <2>5. ReceiveOK' /\ SlotsOK'
    BY <2>1 DEF Inv, ReceiveOK, Held, SlotsOK, SlotOK, Active
  <2>6. CallOK'
    BY <2>1 DEF Inv, CallOK, Active, find
  <2>7. ~closed => DiscardOK' /\ HeaderOK' /\ ClosedOK'
    BY <2>1 DEF Inv, LiveOK, DiscardOK, HeaderOK, ClosedOK, NoDiscard, Active, find
  <2> QED
    BY <2>1, <2>2, <2>3, <2>4, <2>5, <2>6, <2>7 DEF Inv, LiveOK
<1>2. CASE ReceiveFrame
  BY <1>2, ReceiveFrameInv
<1>3. CASE HandleEvent
  BY <1>3, CloseInv, ResetsInv, HandleStreamResetInv, LooksInv, FirstFragmentInv, FirstDiscardedInv,
     NextFragmentInv, RejectedInv, RequestsInv, DataTakenInv, BytesTakenInv, HandleDiscardedDataInv
     DEF HandleEvent
<1>4. CASE CallFails \/ CallReturns \/ Application
  BY <1>4, CallFailsInv, CallReturnsInv, ApplicationInv
<1>5. CASE TransportDrains \/ flush_pending_stream \/ TransportFails
  BY <1>5, TransportDrainsInv, FlushInv, CloseInv
<1> QED
  BY <1>1, <1>2, <1>3, <1>4, <1>5 DEF Next

\* The inductive invariant holds in every state of a session.
THEOREM Invariance == Spec => []Inv
  BY InitInv, NextInv, PTL DEF Spec

\* Every variable keeps its type and every window its range: connection.zig's
\* update_initial_send_window and add_window, server.zig's reserve and refund.
THEOREM TypeSafety == Spec => []TypeOK
<1>1. Inv => TypeOK
  BY TypeParts DEF Inv
<1> QED
  BY <1>1, Invariance, PTL

\* An identifier has one stream, opened by the peer.
THEOREM StreamsAlwaysDistinct == Spec => []StreamsAreDistinct
<1>1. Inv => StreamsAreDistinct
  BY DEF Inv, Streams
<1> QED
  BY <1>1, Invariance, PTL

\* Within its width opened_peer_bitmap says of every identifier whether the
\* peer opened it.
THEOREM OpenedAlwaysExact == Spec => []OpenedIsExact
<1>1. Inv => OpenedIsExact
  <2> SUFFICES ASSUME Inv, NEW id \in Ids, id <= highest_peer_stream_id,
                      (highest_peer_stream_id - id) \div 2 < Width
               PROVE  was_opened(id) <=> id \in opened
    BY DEF OpenedIsExact
  <2> DEFINE h == highest_peer_stream_id
             b == (h - id) \div 2
  <2>1. h \in Nat /\ id \in Nat /\ id >= 1 /\ id <= h /\ id % 2 = 1 /\ h % 2 = 1
    BY Http2Assumption, Zeros DEF Inv, IdTypes, StreamIds
  <2>2. b \in Nat /\ h - 2 * b = id
    BY <2>1
  <2>3. b \in 0 .. Width - 1
    BY <2>2, Http2Assumption
  <2> HIDE DEF b
  <2>4. b \in opened_peer_bitmap <=> id \in opened
    BY <2>2, <2>3 DEF Inv, Streams, BitmapExact
  <2> QED
    BY <2>4 DEF was_opened, b
<1> QED
  BY <1>1, Invariance, PTL

\* Both send windows are the credit the peer counts.
THEOREM PeerAlwaysAgrees == Spec => []PeerAgrees
<1>1. Inv => PeerAgrees
  BY DEF Inv
<1> QED
  BY <1>1, Invariance, PTL

\* The credit of a handled DATA frame has been given back, padding included.
THEOREM CreditAlwaysReturned == Spec => []CreditReturned
<1>1. Inv => CreditReturned
  BY Http2Assumption DEF Inv, ReceiveOK, Held, CreditReturned
<1> QED
  BY <1>1, Invariance, PTL

\* A free slot carries nothing into its next stream.
THEOREM SlotsAlwaysClean == Spec => []SlotsAreClean
<1>1. Inv => SlotsAreClean
  BY DEF Inv, SlotsOK, SlotOK, SlotsAreClean
<1> QED
  BY <1>1, Invariance, PTL

\* A stream that both sides closed keeps its slot only for its last block.
THEOREM ClosedAlwaysReleased == Spec => []ClosedIsReleased
<1>1. Inv => ClosedIsReleased
  BY Zeros DEF Inv, LiveOK, ClosedOK, ClosedIsReleased, Between, Ready, NoEvent, EventOf, NoCall
<1> QED
  BY <1>1, Invariance, PTL

\* A CONTINUATION the connection lets through is of the session's block.
THEOREM ContinuationsAlwaysMatch == Spec => []ContinuationsMatch
<1>1. Inv => ContinuationsMatch
  BY DEF Inv
<1> QED
  BY <1>1, Invariance, PTL

\* A pending response finds its local side open.
THEOREM ResponsesCanAlwaysEnd == Spec => []ResponsesCanEnd
<1>1. Inv => ResponsesCanEnd
  BY DEF Inv, SlabTypes, StreamStates, SlotsOK, SlotOK, ResponsesCanEnd, Pending, Active
<1> QED
  BY <1>1, Invariance, PTL

\* Flow control: windows in range, what the peer counts, and credit given back
\* (connection.zig's window arithmetic, server.zig's reserve, refund and restore).
THEOREM CreditAlwaysAgrees == Spec => []CreditAgrees
<1>1. TypeOK => WindowsInRange
  BY DEF TypeOK, WindowsInRange
<1> QED
  BY <1>1, TypeSafety, PeerAlwaysAgrees, CreditAlwaysReturned, PTL DEF CreditAgrees

\* find and was_opened have one right answer.
THEOREM IdentifiersAlwaysKnown == Spec => []IdentifiersAreKnown
  BY StreamsAlwaysDistinct, OpenedAlwaysExact, PTL DEF IdentifiersAreKnown

\* A stream that both sides ended gives its slot back, and leaves nothing in it.
THEOREM SlotsAlwaysComeBack == Spec => []SlotsComeBack
  BY SlotsAlwaysClean, ClosedAlwaysReleased, PTL DEF SlotsComeBack

\* receive_continuation and close_local never fail where the session calls them.
THEOREM ChecksNeverFailAlways == Spec => []ChecksNeverFail
  BY ContinuationsAlwaysMatch, ResponsesCanAlwaysEnd, PTL DEF ChecksNeverFail

\* What a step does to the credit the peer counts.
Within ==
  allowance' < allowance
    => /\ allowance' >= 0
       /\ \A i \in Slots : allowances'[i] # allowances[i] => allowances'[i] >= 0

\* Spending n of the credit of slot i stays within it.
LEMMA SpendWithin ==
  ASSUME Inv, NEW i \in Slots, Active(i), NEW n \in Int, n <= connection_send_window,
         n <= send_windows[i], allowance' = allowance - n,
         allowances' = [allowances EXCEPT ![i] = @ - n]
  PROVE  Within
<1>1. /\ allowance \in Int /\ allowance = connection_send_window /\ allowances[i] \in Int
      /\ allowances[i] = send_windows[i] /\ allowances \in [Slots -> Int]
  BY DEF Inv, CreditTypes, SlabTypes, PeerAgrees
<1> QED
  BY <1>1 DEF Within

\* DATA is written only within the credit the peer counts.
THEOREM NeverOverruns == Spec => NoOverrun
<1>1. ASSUME Inv, [Next]_vars PROVE Within
  <2>0. allowance \in Int
    BY <1>1 DEF Inv, CreditTypes
  <2>1. CASE UNCHANGED allowance
    BY <2>0, <2>1 DEF Within
  <2>2. CASE ReceiveFrame
    <3>1. allowance' = allowance \/ \E n \in Increments : allowance' = allowance + n
      BY <2>2 DEF ReceiveFrame, receive_frame, receive_invalid, receive_settings, receive_continuation,
           receive_headers, receive_self_dependency, receive_reset, receive_data,
           receive_window_update, receive_connection_update, receive_goaway
    <3> QED
      BY <2>0, <3>1, Http2Assumption DEF Within
  <2>3. CASE HandleEvent \/ CallFails \/ CallReturns \/ TransportDrains \/ TransportFails
    <3>1. UNCHANGED allowance
      BY <2>3 DEF HandleEvent, HandleConnectionError, HandleStreamError, HandleStreamReset,
           HandleCredit, FirstFragment, FirstDiscarded, NextFragment, BlockFails, BlockGoesOn,
           complete_discarded_headers, HeadersRejected, RequestTrailers, ConnectRefused,
           RequestHeaders, DataMisplaced, DataTaken, BytesRejected, BytesTaken,
           HandleDiscardedData, CallFails, CallReturns, TransportDrains, TransportFails
    <3> QED
      BY <3>1, <2>1
  <2>4. CASE Application
    <3>1. ASSUME NEW i \in Slots, NEW length \in 1 .. FrameCapacity, WriteData(i, length) PROVE Within
      <4>1. CASE UNCHANGED <<slabVars, creditVars>>
        BY <4>1, <2>1
      <4>2. ASSUME NEW written \in BOOLEAN, HasCredit(i, length), send_data_frame(i, length, written)
            PROVE  Within
        <5>1. CASE written
          <6>1. /\ Active(i) /\ length \in Int /\ length <= connection_send_window
                /\ length <= send_windows[i]
            BY <3>1, <4>2, SessionAssumption DEF WriteData, Serving, HasCredit
          <6>2. allowance' = allowance - length /\ allowances' = [allowances EXCEPT ![i] = @ - length]
            BY <4>2, <5>1 DEF send_data_frame
          <6> QED
            BY <1>1, <6>1, <6>2, SpendWithin
        <5>2. CASE ~written
          BY <4>2, <5>2, <2>1 DEF send_data_frame
        <5> QED
          BY <5>1, <5>2
      <4> QED
        BY <3>1, <4>1, <4>2 DEF WriteData
    <3>2. CASE \E i \in Slots : (\E body \in BodySizes : SendResponse(i, body)) \/ BeginResponse(i)
                                 \/ FinishResponse(i) \/ ResetStream(i)
      BY <3>2, <2>1 DEF SendResponse, BeginResponse, FinishResponse, ResetStream
    <3> QED
      BY <2>4, <3>1, <3>2 DEF Application
  <2>5. CASE flush_pending_stream
    <3>1. ~closed /\ flush # <<>>
      BY <2>5 DEF flush_pending_stream
    <3>2. PICK i \in Slots : i = Head(flush)
      BY <1>1, <3>1, InFlush
    <3>3. CASE FlushBody(i)
      <4>1. /\ FrameSize(i) \in Int /\ FrameSize(i) <= connection_send_window
            /\ FrameSize(i) <= send_windows[i]
        BY <1>1, FrameFits DEF Inv
      <4> QED
        BY <1>1, <3>3, <4>1, SpendWithin DEF FlushBody
    <3>4. CASE FlushNothing(i) \/ FlushBlocked(i) \/ FlushHeaders(i) \/ FlushEnding(i)
      BY <3>4, <2>1 DEF FlushNothing, FlushBlocked, FlushHeaders, FlushEnding
    <3> QED
      BY <2>5, <3>2, <3>3, <3>4 DEF flush_pending_stream
  <2>6. CASE UNCHANGED vars
    BY <2>1, <2>6 DEF vars
  <2> QED
    BY <1>1, <2>2, <2>3, <2>4, <2>5, <2>6 DEF Next
<1>2. ASSUME Inv, [Next]_vars
      PROVE  [allowance' < allowance
                => /\ allowance' >= 0
                   /\ \A i \in Slots : allowances'[i] # allowances[i] => allowances'[i] >= 0]_vars
  BY <1>1, <1>2 DEF Within
<1> QED
  BY <1>2, Invariance, PTL DEF Spec, NoOverrun
=============================================================================
