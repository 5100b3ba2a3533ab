----------------------------- MODULE Scheduler ------------------------------
(***************************************************************************)
(* Scheduler of core/timer.zig: one libxev timer drives the wheel of one   *)
(* event loop.  A tick reads the clock and advances the wheel; callbacks   *)
(* run in the middle of advance and may schedule and cancel nodes.         *)
(***************************************************************************)
EXTENDS TimerWheel

CONSTANTS
  Delays,   \* delays the program asks for
  MaxTime   \* bound: the clock and every deadline

ASSUME DelaysAssumption == Delays \subseteq Nat /\ MaxTime \in Nat

VARIABLES
  wheel,     \* the wheel record
  clock,     \* the monotonic millisecond clock
  bound,     \* start has bound the owning loop
  active,    \* the driving completion is armed
  stopping,
  pc,        \* "loop": event loop; "advance", "expire", "callback": inside on_tick
  target,    \* to_ms of the running advance
  armed,     \* per node: scheduled and neither cancelled nor fired since
  since,     \* per node: the wheel's time when it was scheduled
  failed     \* a tick reported an error, and nothing re-armed the timer since

driver == <<bound, active, stopping, failed>>
advancing == <<pc, target>>
vars == <<wheel, clock, driver, advancing, armed, since>>

Init ==
  /\ wheel = EmptyWheel(0) /\ clock = 0
  /\ bound = FALSE /\ active = FALSE /\ stopping = FALSE /\ failed = FALSE
  /\ pc = "loop" /\ target = 0
  /\ armed = [n \in Nodes |-> FALSE]
  /\ since = [n \in Nodes |-> 0]

\* arm: only a bound, running loop with work and no live completion.
arm ==
  /\ active' = (active \/ (bound /\ ~stopping /\ has_deadline(wheel')))
  /\ failed' = (failed /\ ~active')
  /\ UNCHANGED <<bound, stopping>>

\* The application runs from the event loop or inside a timer callback.
AppRuns == pc \in {"loop", "callback"}

start ==
  /\ pc = "loop"
  /\ bound' = TRUE /\ stopping' = FALSE
  /\ active' = (active \/ has_deadline(wheel))
  /\ failed' = (failed /\ ~active')
  /\ UNCHANGED <<wheel, clock, advancing, armed, since>>

\* schedule_after: the deadline comes from the clock, not from the wheel's time.
schedule_after(n, delay) ==
  /\ AppRuns
  /\ clock + delay <= MaxTime
  /\ wheel' = insert(wheel, n, clock + delay)
  /\ armed' = [armed EXCEPT ![n] = TRUE]
  /\ since' = [since EXCEPT ![n] = wheel.now]
  /\ arm
  /\ UNCHANGED <<clock, advancing>>

\* cancel: a node the wheel does not own is left alone.
cancel(n) ==
  /\ AppRuns
  /\ wheel.state[n] # "idle"
  /\ wheel' = remove(wheel, n)
  /\ armed' = [armed EXCEPT ![n] = FALSE]
  /\ since' = [since EXCEPT ![n] = 0]
  /\ arm
  /\ UNCHANGED <<clock, advancing>>

\* stop does not cancel the driving timer; the next tick sees the flag.
stop ==
  /\ AppRuns
  /\ stopping' = TRUE /\ bound' = TRUE
  /\ UNCHANGED <<wheel, clock, active, failed, advancing, armed, since>>

\* Nothing reads the clock between the callbacks of a tick.
ClockTicks ==
  /\ AppRuns
  /\ clock < MaxTime
  /\ \E t \in clock + 1 .. MaxTime : clock' = t
  /\ UNCHANGED <<wheel, driver, advancing, armed, since>>

-----------------------------------------------------------------------------
(* on_tick.                                                                *)

TickFails ==
  /\ pc = "loop" /\ active
  /\ active' = FALSE
  /\ failed' = TRUE
  /\ UNCHANGED <<wheel, clock, bound, stopping, advancing, armed, since>>

TickStops ==
  /\ pc = "loop" /\ active /\ stopping
  /\ active' = FALSE
  /\ UNCHANGED <<wheel, clock, bound, stopping, failed, advancing, armed, since>>

\* The start of advance, at the time the clock shows.
TickBegins ==
  /\ pc = "loop" /\ active /\ ~stopping
  /\ target' = clock
  /\ wheel' = migrate_overflow(wheel)
  /\ pc' = "advance"
  /\ UNCHANGED <<clock, driver, armed, since>>

\* The loop of advance goes on while its next event is not past the target.
EventIsDue == next_event(wheel) # NoEvent /\ next_event(wheel).due <= target

\* Move to the next event that is not past the target, and open its slot.
AdvanceEvent ==
  LET event == next_event(wheel)
      w == [wheel EXCEPT !.now = IF event.due > @ THEN event.due ELSE @]
  IN  /\ pc = "advance"
      /\ EventIsDue
      /\ \/ /\ event.kind = "overflow"
            /\ wheel' = migrate_overflow(w)
            /\ UNCHANGED pc
         \/ /\ event.kind = "slot"
            /\ wheel' = detach_slot(w, event.slot)
            /\ pc' = "expire"
      /\ UNCHANGED <<clock, driver, target, armed, since>>

\* The slot boundary came before the deadline: file the node again.
Refile ==
  /\ pc = "expire"
  /\ wheel.processing # <<>>
  /\ LET n == Head(wheel.processing)
     IN  /\ wheel.deadline[n] > wheel.now
         /\ wheel' = insert(take_head(wheel), n, wheel.deadline[n])
  /\ UNCHANGED <<clock, driver, advancing, armed, since>>

Fire ==
  /\ pc = "expire"
  /\ wheel.processing # <<>>
  /\ LET n == Head(wheel.processing)
     IN  /\ wheel.deadline[n] <= wheel.now
         /\ wheel' = take_head(wheel)
         /\ armed' = [armed EXCEPT ![n] = FALSE]
         /\ since' = [since EXCEPT ![n] = 0]
  /\ pc' = "callback"
  /\ UNCHANGED <<clock, driver, target>>

CallbackReturns ==
  /\ pc = "callback"
  /\ pc' = "expire"
  /\ UNCHANGED <<wheel, clock, driver, target, armed, since>>

SlotDone ==
  /\ pc = "expire"
  /\ wheel.processing = <<>>
  /\ wheel' = migrate_overflow(wheel)
  /\ pc' = "advance"
  /\ UNCHANGED <<clock, driver, target, armed, since>>

\* Mutant: the tick counts on schedule to arm the next one.
TickEnds_NoRearm ==
  /\ pc = "advance"
  /\ ~EventIsDue
  /\ wheel' = [wheel EXCEPT !.now = IF target > @ THEN target ELSE @]
  /\ pc' = "loop"
  /\ active' = FALSE
  /\ UNCHANGED <<clock, bound, stopping, failed, target, armed, since>>

\* advance returns; the completion is dead, and a new one is armed if work is left.
TickEnds ==
  /\ pc = "advance"
  /\ ~EventIsDue
  /\ wheel' = [wheel EXCEPT !.now = IF target > @ THEN target ELSE @]
  /\ pc' = "loop"
  /\ active' = (~stopping /\ has_deadline(wheel))
  /\ UNCHANGED <<clock, bound, stopping, failed, target, armed, since>>

TickStep ==
  \/ TickStops \/ TickBegins \/ AdvanceEvent \/ Refile \/ Fire \/ CallbackReturns
  \/ SlotDone \/ TickEnds

Next ==
  \/ start \/ stop
  \/ \E n \in Nodes : cancel(n) \/ \E delay \in Delays : schedule_after(n, delay)
  \/ ClockTicks \/ TickFails \/ TickStep

Spec == Init /\ [][Next]_vars

(* Time passes whatever the loop does (strong fairness, because ClockTicks *)
(* is disabled in the middle of a tick), and the event loop completes an   *)
(* armed timer and returns from its callbacks.  Nobody is obliged to       *)
(* schedule, cancel or stop.                                               *)
FairSpec == Spec /\ SF_vars(ClockTicks) /\ WF_vars(TickStep)

-----------------------------------------------------------------------------
(* Properties.                                                             *)

Owned(n) == wheel.state[n] # "idle"

\* The places of a node on a list, and on all lists.
Places(list, n) == {k \in DOMAIN list : list[k] = n}
Occurrences(n) ==
  Cardinality(Places(wheel.processing, n)) + Cardinality(Places(wheel.overflow, n))
    + Cardinality(UNION {{s} \X Places(wheel.slots[s], n) : s \in Slots})

(* A node is on exactly one list while it is scheduled and on none after   *)
(* it fired or was cancelled, also when a callback cancels or re-arms a    *)
(* sibling of the slot being dispatched; count is their number.            *)
OnOneList ==
  /\ \A n \in Nodes : Occurrences(n) = IF armed[n] THEN 1 ELSE 0
  /\ \A n \in Nodes : Owned(n) <=> armed[n]
  /\ wheel.count = Cardinality({n \in Nodes : armed[n]})

(* A timer fires at its exact deadline on the wheel's time, or at the time *)
(* it was scheduled when that was later.                                   *)
FiresOnTime ==
  [][pc = "expire" /\ pc' = "callback" =>
       LET n == Head(wheel.processing)
       IN  wheel.now = IF wheel.deadline[n] > since[n] THEN wheel.deadline[n]
                                                       ELSE since[n]]_vars

(* advance's comment: it fires every callback whose deadline is due.       *)
NothingDueIsLeft ==
  [][pc = "advance" /\ pc' = "loop"
       => \A n \in Nodes : armed[n] => wheel.deadline[n] > target]_vars

(* A scheduled timer fires, unless it is cancelled, the scheduler stops, a *)
(* tick fails and no later call arms the driver again, or callbacks that   *)
(* re-arm themselves with no delay keep advance in one tick for ever.      *)
TimersFire ==
  \/ <>[](pc # "loop")
  \/ \A n \in Nodes : bound /\ armed[n] ~> ~armed[n] \/ stopping \/ failed
=============================================================================
