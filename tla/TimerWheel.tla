----------------------------- MODULE TimerWheel -----------------------------
(***************************************************************************)
(* The hierarchical timing wheel of core/timer_wheel.zig, as operators     *)
(* from one wheel record to the next.  Level sizes are parameters (the     *)
(* code has 256, 64, 64 and 64 slots); the intrusive lists are sequences.  *)
(* `advance` runs callbacks, so its loop is a state machine: see Scheduler.*)
(***************************************************************************)
EXTENDS Integers, Sequences, FiniteSets, SequencesExt

CONSTANTS
  Nodes,    \* TimerNodes, embedded in connections
  Sizes,    \* Sizes[l]: slots of level l, finest first
  Spans     \* Spans[l]: milliseconds that level l covers; Spans[0]: one millisecond

Levels == 1 .. Len(Sizes)

ASSUME NodesAssumption == IsFiniteSet(Nodes)
ASSUME SizesAssumption == Sizes \in Seq(Nat \ {0}) /\ Len(Sizes) > 0

\* level_sizes, level_shifts and level_span_shifts agree.
ASSUME SpansAssumption ==
  /\ DOMAIN Spans = 0 .. Len(Sizes)
  /\ Spans[0] = 1
  /\ \A l \in Levels : Spans[l] \in Nat \ {0} /\ Spans[l] = Spans[l - 1] * Sizes[l]

\* level_span_shifts and level_shifts, as powers.
Span(l) == Spans[l]
Grain(l) == Span(l - 1)
MaxExactDelay == Span(Len(Sizes)) - 1

\* The slot array of the code: a level's offset plus an index.
Slots == UNION {[level : {l}, index : 0 .. Sizes[l] - 1] : l \in Levels}
Slot(l, i) == [level |-> l, index |-> i]

EmptyWheel(now) ==
  [now |-> now,
   slots |-> [s \in Slots |-> <<>>],
   processing |-> <<>>, overflow |-> <<>>, count |-> 0,
   state |-> [n \in Nodes |-> "idle"],
   deadline |-> [n \in Nodes |-> 0]]

\* node.level and node.index say which slot holds the node: the one with it on its list.
unlink_slot(slots, n) == [s \in Slots |-> RemoveFirst(slots[s], n)]

\* The finest level whose span covers the delay.
level_for_delta(delta) ==
  CHOOSE l \in Levels : delta < Span(l) /\ (l = 1 \/ delta >= Span(l - 1))

\* Mutant: a slot whose window start is the present moment waits a whole span.
slot_due_NextLap(l, i, now) ==
  LET due == (now \div Span(l)) * Span(l) + i * Grain(l)
  IN  IF due <= now THEN due + Span(l) ELSE due

\* The next start of the slot's window, from now on.
slot_due(l, i, now) ==
  LET due == (now \div Span(l)) * Span(l) + i * Grain(l)
  IN  IF due < now THEN due + Span(l) ELSE due

\* Mutant: a cancelled node stays on the list being dispatched.
remove_KeepProcessing(w, n) ==
  LET w1 == CASE w.state[n] = "queued" -> [w EXCEPT !.slots = unlink_slot(@, n)]
              [] w.state[n] = "processing" -> w
              [] w.state[n] = "overflow" -> [w EXCEPT !.overflow = RemoveFirst(@, n)]
  IN  IF w.state[n] = "idle" THEN w
      ELSE [w1 EXCEPT !.state[n] = "idle", !.count = @ - 1]

\* Unlink from whichever list holds the node; an idle node is left alone.
remove(w, n) ==
  LET w1 == CASE w.state[n] = "queued" -> [w EXCEPT !.slots = unlink_slot(@, n)]
              [] w.state[n] = "processing" -> [w EXCEPT !.processing = RemoveFirst(@, n)]
              [] w.state[n] = "overflow" -> [w EXCEPT !.overflow = RemoveFirst(@, n)]
  IN  IF w.state[n] = "idle" THEN w
      ELSE [w1 EXCEPT !.state[n] = "idle", !.count = @ - 1]

\* File the node by its distance from now; what is already due goes into the present slot.
insert(w0, n, d) ==
  LET w == [remove(w0, n) EXCEPT !.deadline[n] = d, !.count = @ + 1]
      delta == IF d > w.now THEN d - w.now ELSE 0
      l == level_for_delta(delta)
      slot_time == IF delta = 0 THEN w.now ELSE d
      i == (slot_time \div Grain(l)) % Sizes[l]
  IN  IF delta > MaxExactDelay
      THEN [w EXCEPT !.state[n] = "overflow", !.overflow = Append(@, n)]
      ELSE [w EXCEPT !.state[n] = "queued", !.slots[Slot(l, i)] = Append(@, n)]

\* Whatever came into range is filed, in the order of the overflow list.
migrate_overflow(w) ==
  LET after[k \in 0 .. Len(w.overflow)] ==   \* the wheel after k nodes of the list
        IF k = 0 THEN w
        ELSE IF w.deadline[w.overflow[k]] - w.now <= MaxExactDelay
        THEN insert(after[k - 1], w.overflow[k], w.deadline[w.overflow[k]])
        ELSE after[k - 1]
  IN  after[Len(w.overflow)]

\* Slots that hold nodes.
Occupied(w) == {s \in Slots : w.slots[s] # <<>>}

Due(w, s) == slot_due(s.level, s.index, w.now)

\* When an overflow node enters the range of the wheel.
EntersRange(w, n) == IF w.deadline[n] > MaxExactDelay THEN w.deadline[n] - MaxExactDelay ELSE 0

has_deadline(w) == Occupied(w) # {} \/ w.overflow # <<>>

\* The earliest slot; on a tie the finest level and then the lowest index.
EarliestSlot(w) ==
  CHOOSE s \in Occupied(w) : \A r \in Occupied(w) :
    \/ Due(w, s) < Due(w, r)
    \/ Due(w, s) = Due(w, r) /\ s.level < r.level
    \/ Due(w, s) = Due(w, r) /\ s.level = r.level /\ s.index <= r.index

NoEvent == [kind |-> "none"]

\* Mutant: far deadlines are left to the migration that starts the next advance.
next_event_SlotsOnly(w) ==
  LET slot == EarliestSlot(w)
  IN  IF Occupied(w) # {}
      THEN [kind |-> "slot", due |-> Due(w, slot), slot |-> slot]
      ELSE NoEvent

\* The next thing to do: a slot, or the head of the overflow list, or nothing.
next_event(w) ==
  LET slots == Occupied(w) # {}
      slot == EarliestSlot(w)
      over == w.overflow # <<>>
      overDue == EntersRange(w, Head(w.overflow))
  IN  IF over /\ (slots => overDue < Due(w, slot))
      THEN [kind |-> "overflow", due |-> overDue]
      ELSE IF slots
      THEN [kind |-> "slot", due |-> Due(w, slot), slot |-> slot]
      ELSE NoEvent

\* expire_slot up to its loop: the slot's list joins the processing list.
detach_slot(w, s) ==
  LET list == w.slots[s]
  IN  [w EXCEPT !.slots[s] = <<>>, !.processing = @ \o list,
                !.state = [n \in Nodes |-> IF n \in ToSet(list) THEN "processing" ELSE @[n]]]

\* The head leaves the processing list before it is fired or filed again.
take_head(w) ==
  LET n == Head(w.processing)
  IN  [w EXCEPT !.processing = Tail(@), !.state[n] = "idle", !.count = @ - 1]
=============================================================================
