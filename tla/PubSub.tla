------------------------------- MODULE PubSub -------------------------------
(***************************************************************************)
(* The topic registry of ws/pubsub.zig and the parts of ws/socket.zig that *)
(* reach it.  One event loop owns it, so nothing runs concurrently; what   *)
(* is hard is re-entrancy.  A send inside publish can tear its transport   *)
(* down, which runs the application's close callback in the middle of the  *)
(* fan-out, and that callback may subscribe, unsubscribe, publish or close *)
(* other sockets.  `stack` is the call stack of publish frames and close   *)
(* callbacks.                                                              *)
(*                                                                         *)
(* The registry is the record `engine`; its functions are operators from   *)
(* one record to the next.  Names and hashes are abstract; the SoA rows,   *)
(* the intrusive lists and the two open-addressed indexes are not.         *)
(***************************************************************************)
EXTENDS Integers, Sequences, FiniteSets, FiniteSetsExt, SequencesExt

CONSTANTS
  Sockets, Tunnels,      \* WebSockets, and those carried by an HTTP/2 stream
  Names,                 \* topic names
  MaxTopics, MaxSubs,    \* max_topics, max_subscriptions
  TopicHash(_),          \* fnv1a_64
  SubHash(_, _),         \* sub_hash
  Nobody,                \* the null socket, and the unused topic name
  MaxDepth               \* bound: frames on the call stack

ASSUME BoundsAssumption == /\ MaxTopics \in Nat \ {0}
                           /\ MaxSubs \in Nat \ {0}
                           /\ MaxDepth \in Nat \ {0}
ASSUME NamesAssumption == Tunnels \subseteq Sockets /\ Nobody \notin Sockets \cup Names

VARIABLES
  engine,     \* PubSubEngine
  link,       \* per socket: what its transport accepts
  notified,   \* per socket: close_notified
  stack       \* the call stack, innermost frame last

vars == <<engine, link, notified, stack>>

NoLink == -1
Topics == 0 .. MaxTopics - 1
Rows == 0 .. MaxSubs - 1
TopicCells == 0 .. 2 * MaxTopics - 1
SubCells == 0 .. 2 * MaxSubs - 1
VisitBound == 2 * MaxSubs + 1

ASSUME HashAssumption == /\ \A name \in Names : TopicHash(name) \in Nat
                         /\ \A s \in Sockets, id \in Topics : SubHash(s, id) \in Nat

\* Slots of the indexes; a topic slot holds its id, a subscription slot its key and row.
Unused == [state |-> "unused"]
Tombstone == [state |-> "tombstone"]
TopicSlot(id) == [state |-> "used", topic |-> id]
SubSlot(s, id, row) == [state |-> "used", socket |-> s, topic |-> id, row |-> row]

EmptyEngine ==
  [names |-> [id \in Topics |-> Nobody],   \* Nobody: not topic_active
   counts |-> [id \in Topics |-> 0],
   heads |-> [id \in Topics |-> NoLink],
   tails |-> [id \in Topics |-> NoLink],
   free |-> <<>>, high_water |-> 0, topic_count |-> 0,
   sockets |-> [r \in Rows |-> Nobody],
   topic_ids |-> [r \in Rows |-> 0],
   next |-> [r \in Rows |-> NoLink],
   prev |-> [r \in Rows |-> NoLink],
   sub_count |-> 0, retired |-> 0, empty_topic_pending |-> FALSE,
   topic_index |-> [c \in TopicCells |-> Unused],
   topic_tombstones |-> 0,
   sub_index |-> [c \in SubCells |-> Unused],
   sub_tombstones |-> 0]

-----------------------------------------------------------------------------
(* The open-addressed indexes.                                             *)

\* The probe sequence of a hash over a table of n cells.
Cell(hash, i, n) == (hash + i) % n

\* Probes before the first cell that was never used.
ProbeLimit(table, hash, n) ==
  Min({n} \cup {i \in 0 .. n - 1 : table[Cell(hash, i, n)].state = "unused"})

\* The first cell on the probe path that holds one of the given slots, or NoLink.
ProbeFind(table, hash, n, slots) ==
  LET hits == {i \in 0 .. ProbeLimit(table, hash, n) - 1 : table[Cell(hash, i, n)] \in slots}
  IN  IF hits = {} THEN NoLink ELSE Cell(hash, Min(hits), n)

\* The first tombstone on the probe path, else the unused cell that ends it.
ProbeInsert(table, hash, n) ==
  LET limit == ProbeLimit(table, hash, n)
      tombs == {i \in 0 .. limit - 1 : table[Cell(hash, i, n)].state = "tombstone"}
  IN  IF tombs # {} THEN Cell(hash, Min(tombs), n)
      ELSE IF limit < n THEN Cell(hash, limit, n) ELSE NoLink

TopicProbe(e, name) ==
  ProbeFind(e.topic_index, TopicHash(name), 2 * MaxTopics,
            {TopicSlot(id) : id \in {t \in Topics : e.names[t] = name}})

SubProbe(e, s, id) ==
  ProbeFind(e.sub_index, SubHash(s, id), 2 * MaxSubs, {SubSlot(s, id, row) : row \in Rows})

used_cells(table) == {c \in DOMAIN table : table[c].state = "used"}

\* One round of each rebuild: an active topic, or a live row, is put into the table.
place_topic(e, table, id) ==
  LET cell == ProbeInsert(table, TopicHash(e.names[id]), 2 * MaxTopics)
  IN  IF e.names[id] = Nobody \/ cell = NoLink THEN table
      ELSE [table EXCEPT ![cell] = TopicSlot(id)]

place_row(e, table, r) ==
  LET cell == ProbeInsert(table, SubHash(e.sockets[r], e.topic_ids[r]), 2 * MaxSubs)
  IN  IF e.sockets[r] = Nobody \/ cell = NoLink THEN table
      ELSE [table EXCEPT ![cell] = SubSlot(e.sockets[r], e.topic_ids[r], r)]

rebuild_topic_index(e) ==
  LET table[k \in 0 .. e.high_water] ==   \* with the first k topics
        IF k = 0 THEN [c \in TopicCells |-> Unused] ELSE place_topic(e, table[k - 1], k - 1)
  IN  [e EXCEPT !.topic_index = table[e.high_water], !.topic_tombstones = 0]

rebuild_sub_index(e) ==
  LET table[k \in 0 .. e.sub_count] ==    \* with the first k rows
        IF k = 0 THEN [c \in SubCells |-> Unused] ELSE place_row(e, table[k - 1], k - 1)
  IN  [e EXCEPT !.sub_index = table[e.sub_count], !.sub_tombstones = 0]

\* A lookup first rebuilds an index that holds nothing while rows exist.
fresh_topic_index(e) ==
  IF used_cells(e.topic_index) = {} /\ e.topic_count # 0
  THEN rebuild_topic_index(e) ELSE e

fresh_sub_index(e) ==
  IF used_cells(e.sub_index) = {} /\ e.sub_count # 0 THEN rebuild_sub_index(e) ELSE e

find_topic(e, name) ==
  LET cell == TopicProbe(e, name)
  IN  IF cell = NoLink THEN NoLink ELSE e.topic_index[cell].topic

find_subscription(e, s, id) ==
  LET cell == SubProbe(e, s, id)
  IN  IF cell = NoLink THEN NoLink ELSE e.sub_index[cell].row

insert_topic_index(e, id) ==
  LET cell == ProbeInsert(e.topic_index, TopicHash(e.names[id]), 2 * MaxTopics)
  IN  IF e.topic_tombstones > (2 * MaxTopics) \div 4 \/ cell = NoLink
      THEN rebuild_topic_index(e)
      ELSE [e EXCEPT !.topic_index[cell] = TopicSlot(id)]

insert_sub_index(e, s, id, row) ==
  LET cell == ProbeInsert(e.sub_index, SubHash(s, id), 2 * MaxSubs)
  IN  IF e.sub_tombstones > (2 * MaxSubs) \div 4 \/ cell = NoLink
      THEN rebuild_sub_index(e)
      ELSE [e EXCEPT !.sub_index[cell] = SubSlot(s, id, row)]

remove_topic_index(e, id) ==
  LET cell == ProbeFind(e.topic_index, TopicHash(e.names[id]), 2 * MaxTopics,
                        {TopicSlot(id)})
  IN  IF cell = NoLink THEN e
      ELSE [e EXCEPT !.topic_index[cell] = Tombstone, !.topic_tombstones = @ + 1]

\* Mutant: a removed entry leaves a hole instead of a tombstone.
remove_sub_index_Hole(e, s, id) ==
  LET cell == SubProbe(e, s, id)
  IN  IF cell = NoLink THEN e ELSE [e EXCEPT !.sub_index[cell] = Unused]

remove_sub_index(e, s, id) ==
  LET cell == SubProbe(e, s, id)
  IN  IF cell = NoLink THEN e
      ELSE [e EXCEPT !.sub_index[cell] = Tombstone, !.sub_tombstones = @ + 1]

update_sub_index_row(e, s, id, row) ==
  LET cell == SubProbe(e, s, id)
  IN  IF cell = NoLink THEN e ELSE [e EXCEPT !.sub_index[cell].row = row]

-----------------------------------------------------------------------------
(* Topics and subscription rows.                                           *)

\* A new topic takes a recycled id before a fresh one.
create_topic(e, name) ==
  LET recycled == e.free # <<>>
      id == IF recycled THEN Last(e.free) ELSE e.high_water
  IN  insert_topic_index(
        [e EXCEPT !.free = IF recycled THEN Front(@) ELSE @,
                  !.high_water = IF recycled THEN @ ELSE @ + 1,
                  !.names[id] = name, !.counts[id] = 0,
                  !.heads[id] = NoLink, !.tails[id] = NoLink,
                  !.topic_count = @ + 1], id)

\* The row is appended to the arrays and to the tail of the topic's list.
append_row(e, s, id) ==
  LET row == e.sub_count
      tail == e.tails[id]
      e1 == [e EXCEPT !.sockets[row] = s, !.topic_ids[row] = id,
                      !.next[row] = NoLink, !.prev[row] = tail,
                      !.tails[id] = row, !.sub_count = @ + 1, !.counts[id] = @ + 1]
      e2 == IF tail # NoLink THEN [e1 EXCEPT !.next[tail] = row]
                             ELSE [e1 EXCEPT !.heads[id] = row]
  IN  insert_sub_index(e2, s, id, row)

\* Idempotent; a full row table or topic table leaves the registry as it was.
subscribe(e, s, name) ==
  LET e0 == fresh_topic_index(e)
      id == find_topic(e0, name)
      e1 == IF id = NoLink THEN e0 ELSE fresh_sub_index(e0)
      known == id # NoLink /\ find_subscription(e1, s, id) # NoLink
  IN  IF known \/ e1.sub_count >= MaxSubs \/ (id = NoLink /\ e1.topic_count >= MaxTopics)
      THEN e1
      ELSE LET e2 == IF id = NoLink THEN create_topic(e1, name) ELSE e1
           IN  append_row(e2, s, find_topic(e2, name))

unlink_subscription(e, row) ==
  LET id == e.topic_ids[row]
      p == e.prev[row]
      n == e.next[row]
      e1 == IF p # NoLink THEN [e EXCEPT !.next[p] = n] ELSE [e EXCEPT !.heads[id] = n]
  IN  IF n # NoLink THEN [e1 EXCEPT !.prev[n] = p] ELSE [e1 EXCEPT !.tails[id] = p]

\* Mutant: the neighbours of the moved row are not told its new place.
move_row_Unlinked(e, from, to) ==
  LET s == e.sockets[from]
      id == e.topic_ids[from]
      e1 == [e EXCEPT !.sockets[to] = s, !.topic_ids[to] = id,
                      !.next[to] = e.next[from], !.prev[to] = e.prev[from]]
  IN  update_sub_index_row(e1, s, id, to)

\* The last row fills the hole, and its neighbours and index entry follow it.
move_row(e, from, to) ==
  LET s == e.sockets[from]
      id == e.topic_ids[from]
      n == e.next[from]
      p == e.prev[from]
      e1 == [e EXCEPT !.sockets[to] = s, !.topic_ids[to] = id,
                      !.next[to] = n, !.prev[to] = p]
      e2 == IF p # NoLink THEN [e1 EXCEPT !.next[p] = to] ELSE [e1 EXCEPT !.heads[id] = to]
      e3 == IF n # NoLink THEN [e2 EXCEPT !.prev[n] = to] ELSE [e2 EXCEPT !.tails[id] = to]
  IN  update_sub_index_row(e3, s, id, to)

remove_subscription(e, row) ==
  IF e.sockets[row] = Nobody THEN e
  ELSE LET id == e.topic_ids[row]
           last == e.sub_count - 1
           e1 == [unlink_subscription(e, row) EXCEPT !.counts[id] = @ - 1]
           e2 == remove_sub_index(e1, e.sockets[row], id)
           e3 == IF row # last THEN move_row(e2, last, row) ELSE e2
       IN  [e3 EXCEPT !.sockets[last] = Nobody, !.next[last] = NoLink,
                      !.prev[last] = NoLink, !.sub_count = @ - 1]

remove_topic(e, id) ==
  [remove_topic_index(e, id) EXCEPT
     !.names[id] = Nobody, !.heads[id] = NoLink, !.tails[id] = NoLink,
     !.topic_count = @ - 1, !.free = Append(@, id)]

\* Mutant: the emptied topic is not remembered for the sweep.
retire_subscription_NoSweep(e, row) ==
  IF e.sockets[row] = Nobody THEN e
  ELSE LET id == e.topic_ids[row]
           e1 == remove_sub_index(e, e.sockets[row], id)
       IN  [e1 EXCEPT !.sockets[row] = Nobody, !.counts[id] = @ - 1, !.retired = @ + 1]

\* Inside a publish frame a row becomes a tombstone and keeps its links.
retire_subscription(e, row) ==
  IF e.sockets[row] = Nobody THEN e
  ELSE LET id == e.topic_ids[row]
           e1 == remove_sub_index(e, e.sockets[row], id)
       IN  [e1 EXCEPT !.sockets[row] = Nobody, !.counts[id] = @ - 1, !.retired = @ + 1,
                      !.empty_topic_pending = @ \/ e.counts[id] = 1]

sweep_topic(e, id) ==
  IF e.names[id] # Nobody /\ e.counts[id] = 0 THEN remove_topic(e, id) ELSE e

sweep_empty_topics(e) ==
  LET swept[k \in 0 .. e.high_water] ==   \* the first k topics
        IF k = 0 THEN [e EXCEPT !.empty_topic_pending = FALSE]
        ELSE sweep_topic(swept[k - 1], k - 1)
  IN  swept[e.high_water]

\* Live rows slide down in order, and every topic's list is relinked in that order.
compact_subscriptions(e) ==
  LET live[k \in 0 .. e.sub_count] ==     \* the live ones of the first k rows
        IF k = 0 THEN <<>>
        ELSE IF e.sockets[k - 1] # Nobody THEN Append(live[k - 1], k - 1) ELSE live[k - 1]
      n == Len(live[e.sub_count])
      at(r) == live[e.sub_count][r + 1]
      same(r) == {q \in 0 .. n - 1 : e.topic_ids[at(q)] = e.topic_ids[at(r)]}
      rows(id) == {q \in 0 .. n - 1 : e.topic_ids[at(q)] = id}
      least(S) == IF S = {} THEN NoLink ELSE Min(S)
      greatest(S) == IF S = {} THEN NoLink ELSE Max(S)
  IN  rebuild_sub_index(
        [e EXCEPT
          !.heads = [id \in Topics |-> least(rows(id))],
          !.tails = [id \in Topics |-> greatest(rows(id))],
          !.sockets = [r \in Rows |-> IF r < n THEN e.sockets[at(r)]
                                      ELSE IF r < e.sub_count THEN Nobody ELSE @[r]],
          !.topic_ids = [r \in Rows |-> IF r < n THEN e.topic_ids[at(r)] ELSE @[r]],
          !.next = [r \in Rows |-> IF r < n THEN least({q \in same(r) : q > r})
                                   ELSE IF r < e.sub_count THEN NoLink ELSE @[r]],
          !.prev = [r \in Rows |-> IF r < n THEN greatest({q \in same(r) : q < r})
                                   ELSE IF r < e.sub_count THEN NoLink ELSE @[r]],
          !.sub_count = n, !.retired = 0])

\* Mutant: a removal inside a publish frame moves rows at once.
unsubscribe_Immediate(e, depth, s, name) ==
  LET e0 == fresh_topic_index(e)
      id == find_topic(e0, name)
      e1 == IF id = NoLink THEN e0 ELSE fresh_sub_index(e0)
      row == IF id = NoLink THEN NoLink ELSE find_subscription(e1, s, id)
  IN  IF row = NoLink THEN e1
      ELSE LET e2 == remove_subscription(e1, row)
           IN  IF e2.counts[id] = 0 THEN remove_topic(e2, id) ELSE e2

unsubscribe(e, depth, s, name) ==
  LET e0 == fresh_topic_index(e)
      id == find_topic(e0, name)
      e1 == IF id = NoLink THEN e0 ELSE fresh_sub_index(e0)
      row == IF id = NoLink THEN NoLink ELSE find_subscription(e1, s, id)
  IN  IF row = NoLink THEN e1
      ELSE IF depth > 0 THEN retire_subscription(e1, row)
      ELSE LET e2 == remove_subscription(e1, row)
           IN  IF e2.counts[id] = 0 THEN remove_topic(e2, id) ELSE e2

\* One round of the scan: step past a row of another socket, drop the row of this one.
scan_row(acc, depth, s) ==
  IF acc.e.sockets[acc.row] # s THEN [acc EXCEPT !.row = @ + 1]
  ELSE IF depth > 0
  THEN [e |-> retire_subscription(acc.e, acc.row), row |-> acc.row + 1]
  ELSE [e |-> remove_subscription(acc.e, acc.row), row |-> acc.row]

\* Mutant: the scan steps past the row that was just moved into the hole.
unsubscribe_all_SkipMoved(e, depth, s) ==
  LET scan[k \in 0 .. e.sub_count] ==
        IF k = 0 THEN [e |-> e, row |-> 0]
        ELSE LET acc == scan[k - 1]
             IN  IF acc.row >= acc.e.sub_count THEN acc
                 ELSE [scan_row(acc, depth, s) EXCEPT !.row = acc.row + 1]
      scanned == scan[e.sub_count].e
  IN  IF depth > 0 THEN scanned ELSE sweep_empty_topics(scanned)

\* Each round of the scan advances or shrinks the table, so sub_count rounds are enough.
unsubscribe_all(e, depth, s) ==
  LET scan[k \in 0 .. e.sub_count] ==
        IF k = 0 THEN [e |-> e, row |-> 0] ELSE scan_row(scan[k - 1], depth, s)
      scanned == scan[e.sub_count].e
  IN  IF depth > 0 THEN scanned ELSE sweep_empty_topics(scanned)

\* Mutant: a nested frame compacts while the outer one still walks its list.
end_publish_Nested(e, depth) ==
  LET e1 == IF e.retired # 0 THEN compact_subscriptions(e) ELSE e
  IN  IF e1.empty_topic_pending THEN sweep_empty_topics(e1) ELSE e1

\* The outermost frame reclaims tombstones and then empty topics.
end_publish(e, depth) ==
  IF depth # 0 THEN e
  ELSE LET e1 == IF e.retired # 0 THEN compact_subscriptions(e) ELSE e
       IN  IF e1.empty_topic_pending THEN sweep_empty_topics(e1) ELSE e1

-----------------------------------------------------------------------------
(* The call stack.                                                         *)

Depth(frames) == Cardinality({i \in DOMAIN frames : frames[i].kind = "publish"})

\* The rows of a topic below sub_count, tombstones included, and the live ones.
TopicRows(e, id) == {r \in 0 .. e.sub_count - 1 : e.topic_ids[r] = id}
LiveRows(e, id) == {r \in TopicRows(e, id) : e.sockets[r] # Nobody}

\* sent and owed are history: who was served, and which rows were live at the start.
PublishFrame(e, id, name) ==
  [kind |-> "publish", topic |-> id, name |-> name, last |-> e.tails[id],
   row |-> e.heads[id], visits |-> 0, sent |-> {}, owed |-> LiveRows(e, id)]

CallbackFrame(s, then) == [kind |-> "callback", socket |-> s, then |-> then]

Init ==
  /\ engine = EmptyEngine
  /\ link = [s \in Sockets |-> "gone"]
  /\ notified = [s \in Sockets |-> FALSE]
  /\ stack = <<>>

\* Application code runs from the event loop or from a close callback.
AppRuns == stack # <<>> => Last(stack).kind = "callback"
HasRoom == Len(stack) < MaxDepth

\* The tail of WebSocket.deinit, after the close callback.
FinishDeinit(s, frames) ==
  /\ engine' = unsubscribe_all(engine, Depth(frames), s)
  /\ link' = [link EXCEPT ![s] = "gone"]
  /\ stack' = frames

\* close_connection or an HTTP/2 stream reset: notify once, then drop the subscriptions.
Teardown(s) ==
  \/ /\ notified[s]
     /\ FinishDeinit(s, stack)
     /\ UNCHANGED notified
  \/ /\ ~notified[s]
     /\ HasRoom
     /\ notified' = [notified EXCEPT ![s] = TRUE]
     /\ link' = [link EXCEPT ![s] = "closing"]
     /\ stack' = Append(stack, CallbackFrame(s, "deinit"))
     /\ UNCHANGED engine

-----------------------------------------------------------------------------
(* The event loop and the application.                                     *)

\* A connection slot is upgraded, possibly one that an earlier socket used.
Upgrade(s) ==
  /\ stack = <<>>
  /\ link[s] = "gone"
  /\ link' = [link EXCEPT ![s] = "open"]
  /\ notified' = [notified EXCEPT ![s] = FALSE]
  /\ UNCHANGED <<engine, stack>>

Subscribe(s, name) ==
  /\ AppRuns
  /\ link[s] # "gone"
  /\ engine' = subscribe(engine, s, name)
  /\ UNCHANGED <<link, notified, stack>>

Unsubscribe(s, name) ==
  /\ AppRuns
  /\ link[s] # "gone"
  /\ engine' = unsubscribe(engine, Depth(stack), s, name)
  /\ UNCHANGED <<link, notified, stack>>

\* publish up to its loop; an unknown or empty topic returns at once.
Publish(name) ==
  LET e == fresh_topic_index(engine)
      id == find_topic(e, name)
  IN  /\ AppRuns
      /\ HasRoom
      /\ id # NoLink
      /\ e.heads[id] # NoLink
      /\ engine' = e
      /\ stack' = Append(stack, PublishFrame(e, id, name))
      /\ UNCHANGED <<link, notified>>

\* The peer stops reading, and the bounded write queue fills; or it drains again.
Backlog(s) ==
  /\ AppRuns
  /\ link[s] = "open"
  /\ link' = [link EXCEPT ![s] = "full"]
  /\ UNCHANGED <<engine, notified, stack>>

Drain(s) ==
  /\ stack = <<>>
  /\ link[s] = "full"
  /\ link' = [link EXCEPT ![s] = "open"]
  /\ UNCHANGED <<engine, notified, stack>>

\* The application sends a close frame that still has to be flushed.
SendClose(s) ==
  /\ AppRuns
  /\ link[s] = "open"
  /\ link' = [link EXCEPT ![s] = "shut"]
  /\ UNCHANGED <<engine, notified, stack>>

\* The peer's close frame: answer it, notify, and close once the answer is flushed.
ReceiveClose(s) ==
  /\ stack = <<>>
  /\ link[s] = "open"
  /\ link' = [link EXCEPT ![s] = "shut"]
  /\ notified' = [notified EXCEPT ![s] = TRUE]
  /\ stack' = <<CallbackFrame(s, "flush")>>
  /\ UNCHANGED engine

\* close_connection: idempotent once the connection is closing.
CloseConnection(s) ==
  /\ AppRuns
  /\ link[s] \in {"open", "full", "shut"}
  /\ Teardown(s)

CallbackReturns ==
  /\ stack # <<>>
  /\ LET f == Last(stack)
         s == f.socket
     IN  /\ f.kind = "callback"
         /\ \/ /\ f.then = "deinit" \/ link[s] = "shut"
               /\ FinishDeinit(s, Front(stack))
            \/ /\ f.then = "flush"
               /\ s \in Tunnels => link[s] # "shut"
               /\ stack' = Front(stack)
               /\ UNCHANGED <<engine, link>>
  /\ UNCHANGED notified

-----------------------------------------------------------------------------
(* The loop of publish.                                                    *)

Visiting(f) == f.kind = "publish" /\ f.row # NoLink
Visit(f) == [f EXCEPT !.visits = Min({@ + 1, VisitBound})]

\* Mutant: the loop does not stop at the tail it captured.
Advance_PastLast(f) == [Visit(f) EXCEPT !.row = engine.next[f.row]]

\* Break at the tail captured before the loop, else follow the link.
Advance(f) ==
  [Visit(f) EXCEPT !.row = IF f.row = f.last THEN NoLink ELSE engine.next[f.row]]

\* A retired row is a tombstone.
VisitTombstone ==
  /\ stack # <<>>
  /\ LET f == Last(stack)
     IN  /\ Visiting(f)
         /\ engine.sockets[f.row] = Nobody
         /\ stack' = Append(Front(stack), Advance(f))
  /\ UNCHANGED <<engine, link, notified>>

\* The frame is queued; it may be the one that fills the queue.
SendSucceeds ==
  /\ stack # <<>>
  /\ LET f == Last(stack)
         s == engine.sockets[f.row]
     IN  /\ Visiting(f)
         /\ s # Nobody
         /\ link[s] = "open"
         /\ stack' = Append(Front(stack),
                            [Advance(f) EXCEPT !.sent = @ \cup {<<f.row, s>>}])
         /\ link' \in {link, [link EXCEPT ![s] = "full"]}
  /\ UNCHANGED <<engine, notified>>

\* send returns an error and changes nothing; `catch continue` skips `row = next`.
SendRefused ==
  /\ stack # <<>>
  /\ LET f == Last(stack)
         s == engine.sockets[f.row]
     IN  /\ Visiting(f)
         /\ s # Nobody
         /\ link[s] # "open"
         /\ stack' = Append(Front(stack), Visit(f))
  /\ UNCHANGED <<engine, link, notified>>

\* An HTTP/2 tunnel that stalls inside a frame resets its stream within send.
SendTerminates ==
  /\ stack # <<>>
  /\ LET f == Last(stack)
         s == engine.sockets[f.row]
     IN  /\ Visiting(f)
         /\ s \in Tunnels
         /\ link[s] = "open"
         /\ Teardown(s)

PublishReturns ==
  /\ stack # <<>>
  /\ Last(stack).kind = "publish"
  /\ Last(stack).row = NoLink
  /\ stack' = Front(stack)
  /\ engine' = end_publish(engine, Depth(stack'))
  /\ UNCHANGED <<link, notified>>

Next ==
  \/ \E s \in Sockets, name \in Names : Subscribe(s, name) \/ Unsubscribe(s, name)
  \/ \E name \in Names : Publish(name)
  \/ \E s \in Sockets :
       \/ Upgrade(s) \/ Backlog(s) \/ Drain(s)
       \/ SendClose(s) \/ ReceiveClose(s) \/ CloseConnection(s)
  \/ CallbackReturns
  \/ VisitTombstone \/ SendSucceeds \/ SendRefused \/ SendTerminates
  \/ PublishReturns

Spec == Init /\ [][Next]_vars

-----------------------------------------------------------------------------
(* Properties.                                                             *)

PublishFrames == {stack[i] : i \in {j \in DOMAIN stack : stack[j].kind = "publish"}}
Active(id) == engine.names[id] # Nobody

\* The rows of a list are doubly linked, from the head to the tail of the topic.
Threaded(e, id, list) ==
  /\ e.heads[id] = IF list = <<>> THEN NoLink ELSE list[1]
  /\ e.tails[id] = IF list = <<>> THEN NoLink ELSE list[Len(list)]
  /\ \A i \in 1 .. Len(list) :
       /\ e.next[list[i]] = IF i = Len(list) THEN NoLink ELSE list[i + 1]
       /\ e.prev[list[i]] = IF i = 1 THEN NoLink ELSE list[i - 1]

(* After any interleaving of removals by swap, retirements and             *)
(* compactions, each topic's doubly linked list holds exactly the rows of  *)
(* that topic, once each, with its tail at the end; the subscriber count   *)
(* is the number of live rows and the retired count that of tombstones.    *)
ListsMatchRows ==
  /\ \A id \in Topics : Active(id) =>
       /\ \E list \in SetToSeqs(TopicRows(engine, id)) : Threaded(engine, id, list)
       /\ engine.counts[id] = Cardinality(LiveRows(engine, id))
  /\ engine.retired = Cardinality({r \in 0 .. engine.sub_count - 1 :
                                     engine.sockets[r] = Nobody})

(* The indexes answer what the tables hold, whatever collisions, reused    *)
(* tombstones and rebuilds came before: a lookup finds the one row of a    *)
(* subscription or the one id of a topic, and finds nothing otherwise.     *)
IndexesAgree ==
  /\ \A name \in Names :
       {id \in Topics : engine.names[id] = name}
         = {find_topic(engine, name)} \ {NoLink}
  /\ \A s \in Sockets, id \in Topics : Active(id) =>
       {r \in TopicRows(engine, id) : engine.sockets[r] = s}
         = {find_subscription(engine, s, id)} \ {NoLink}

(* A socket whose deinit has completed owns no subscription row, even if   *)
(* its own close callback subscribed it again: publish never reaches a     *)
(* freed connection slot.                                                  *)
NoDeadSubscriber ==
  \A r \in 0 .. engine.sub_count - 1 :
    engine.sockets[r] # Nobody => link[engine.sockets[r]] # "gone"

(* While a publish frame is on the stack, nothing a callback does may move *)
(* the rows it walks or give its topic id to another name.                 *)
FramesKeepTheirTopic ==
  \A f \in PublishFrames :
    /\ engine.names[f.topic] = f.name
    /\ f.last < engine.sub_count /\ engine.topic_ids[f.last] = f.topic
    /\ f.row # NoLink => f.row < engine.sub_count /\ engine.topic_ids[f.row] = f.topic

(* One publish reaches a socket at most once, also when a callback         *)
(* unsubscribes and resubscribes it in the middle of the fan-out, and      *)
(* reaches only rows that were live when it began.                         *)
DeliveredOnce ==
  \A f \in PublishFrames :
    /\ \A x, y \in f.sent : x[2] = y[2] => x = y
    /\ \A x \in f.sent : x[1] \in f.owed

(* A publish that returns has served every subscriber it started with that *)
(* is still subscribed.                                                    *)
EveryoneServed ==
  \A f \in PublishFrames : f.row = NoLink =>
    \A r \in f.owed : engine.sockets[r] = Nobody \/ \E x \in f.sent : x[1] = r

(* Outside publish no tombstone row and no empty topic is left behind, so  *)
(* capacity lost inside a frame always comes back.                         *)
CapacityReturns ==
  Depth(stack) = 0 =>
    /\ engine.retired = 0 /\ ~engine.empty_topic_pending
    /\ \A id \in Topics : Active(id) => engine.counts[id] > 0

(* The header comment of PubSubEngine: publish work is proportional to the *)
(* subscribers of the topic.  A row is visited at most twice, the second   *)
(* time when its own teardown made it a tombstone.                         *)
PublishWorkIsBounded == \A f \in PublishFrames : f.visits <= 2 * MaxSubs
=============================================================================
