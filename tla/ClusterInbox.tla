---------------------------- MODULE ClusterInbox ----------------------------
(***************************************************************************)
(* One worker's cluster inbox: the Vyukov sequence ring of                 *)
(* router/cluster.zig (message_queue), the wakeup that publishers signal   *)
(* after a push, and the drain loop of the owning worker                   *)
(* (router/app.zig, on_cluster_wakeup).                                    *)
(*                                                                         *)
(* Every atomic access of the code is one action; a thread's local         *)
(* variables are its `pos` and its program counter.  Positions are usize   *)
(* counters that wrap at 2^64, a multiple of the capacity 64, so they are  *)
(* modelled as naturals.  pop_scratch passes buffers of the maximum size, so *)
(* the "does not fit" return of pop_copy cannot occur here, and with one     *)
(* consumer its "position moved" case cannot either.                         *)
(***************************************************************************)
EXTENDS Integers, Sequences, FiniteSets

CONSTANTS
  Capacity,     \* queue_capacity
  Producers,    \* threads that may call Cluster.publish
  MaxMessages   \* bound: publish attempts of each producer

\* With one slot a published cell (sequence = pos + 1) is indistinguishable
\* from a cell that is free for the next position.
ASSUME CapacityAssumption == Capacity \in Nat \ {0, 1}
ASSUME MaxMessagesAssumption == MaxMessages \in Nat

\* The k-th message a producer publishes; payload bytes are abstracted to it.
Message == Producers \X (1 .. MaxMessages)

\* Content of a cell nobody has written yet.
Unwritten == <<>>

VARIABLES
  enqueue_pos,   \* next position to claim for a push
  dequeue_pos,   \* next position to claim for a pop
  sequences,     \* the ownership word of every slot
  cells,         \* topic, payload and lengths of every slot
  pc, pos,       \* per producer: place in push_validated and its local pos
  published,     \* per producer: publish attempts begun
  wake,          \* the loop's async completion has been notified
  stop,          \* cluster_stop_requested
  spc,           \* the thread that calls request_shutdown
  cpc, cpos,     \* the consumer: place in on_cluster_wakeup/pop_copy, its pos
  peeked,        \* the cell whose lengths pop_copy read before its claim
  taken,         \* the bytes pop_copy copied out
  accepted,      \* history: messages in the order their slots were claimed
  delivered      \* history: messages handed to pubsub.publish

ring == <<enqueue_pos, dequeue_pos, sequences, cells>>
producer == <<pc, pos, published>>
consumer == <<cpc, cpos, peeked, taken>>
signals == <<wake, stop, spc>>
vars == <<ring, producer, consumer, signals, accepted, delivered>>

Slot(p) == p % Capacity

\* sequence -% pos as a signed difference, for the producer's three cases.
Difference(p) == sequences[Slot(pos[p])] - pos[p]

\* sequence -% (pos +% 1), for the consumer's three cases.
PopDifference == sequences[Slot(cpos)] - (cpos + 1)

Current(p) == <<p, published[p]>>

PushStates == {"idle", "load", "claim", "copy", "store", "notify"}
PopStates == {"parked", "start", "load", "claim", "copy", "store", "stopped"}

Init ==
  /\ enqueue_pos = 0
  /\ dequeue_pos = 0
  /\ sequences = [i \in 0 .. Capacity - 1 |-> i]
  /\ cells = [i \in 0 .. Capacity - 1 |-> Unwritten]
  /\ pc = [p \in Producers |-> "idle"]
  /\ pos = [p \in Producers |-> 0]
  /\ published = [p \in Producers |-> 0]
  /\ wake = FALSE
  /\ stop = FALSE
  /\ spc = "idle"
  /\ cpc = "parked"
  /\ cpos = 0
  /\ peeked = Unwritten
  /\ taken = Unwritten
  /\ accepted = <<>>
  /\ delivered = <<>>

-----------------------------------------------------------------------------
(* Producers: broadcast -> push_validated -> notify_cluster_delivery.      *)

PushBegin(p) ==
  /\ pc[p] = "idle"
  /\ published[p] < MaxMessages
  /\ published' = [published EXCEPT ![p] = @ + 1]
  /\ pos' = [pos EXCEPT ![p] = enqueue_pos]
  /\ pc' = [pc EXCEPT ![p] = "load"]
  /\ UNCHANGED <<ring, consumer, signals, accepted, delivered>>

\* Mutant: a full slot is taken for a free one.
PushSlotFree_Overrun(p) ==
  /\ pc[p] = "load"
  /\ Difference(p) <= 0
  /\ pc' = [pc EXCEPT ![p] = "claim"]
  /\ UNCHANGED <<ring, pos, published, consumer, signals, accepted, delivered>>

\* The slot looks free for this position: try to claim it.
PushSlotFree(p) ==
  /\ pc[p] = "load"
  /\ Difference(p) = 0
  /\ pc' = [pc EXCEPT ![p] = "claim"]
  /\ UNCHANGED <<ring, pos, published, consumer, signals, accepted, delivered>>

\* Mutant: any sequence mismatch is reported as a full queue.
PushFull_OnMismatch(p) ==
  /\ pc[p] = "load"
  /\ Difference(p) # 0
  /\ pc' = [pc EXCEPT ![p] = "idle"]
  /\ UNCHANGED <<ring, pos, published, consumer, signals, accepted, delivered>>

\* The slot still belongs to the previous lap: error.ClusterQueueFull, which
\* broadcast counts as dropped without notifying.
PushFull(p) ==
  /\ pc[p] = "load"
  /\ Difference(p) < 0
  /\ pc' = [pc EXCEPT ![p] = "idle"]
  /\ UNCHANGED <<ring, pos, published, consumer, signals, accepted, delivered>>

\* Another producer passed this position: reload enqueue_pos.
PushStale(p) ==
  /\ pc[p] = "load"
  /\ Difference(p) > 0
  /\ pos' = [pos EXCEPT ![p] = enqueue_pos]
  /\ UNCHANGED <<ring, pc, published, consumer, signals, accepted, delivered>>

PushClaim(p) ==
  /\ pc[p] = "claim"
  /\ enqueue_pos = pos[p]
  /\ enqueue_pos' = enqueue_pos + 1
  /\ accepted' = Append(accepted, Current(p))
  /\ pc' = [pc EXCEPT ![p] = "copy"]
  /\ UNCHANGED <<dequeue_pos, sequences, cells, pos, published, consumer,
                 signals, delivered>>

\* cmpxchgWeak failed, because the position moved or spuriously.
PushClaimFails(p) ==
  /\ pc[p] = "claim"
  /\ pos' = [pos EXCEPT ![p] = enqueue_pos]
  /\ pc' = [pc EXCEPT ![p] = "load"]
  /\ UNCHANGED <<ring, published, consumer, signals, accepted, delivered>>

PushCopy(p) ==
  /\ pc[p] = "copy"
  /\ cells' = [cells EXCEPT ![Slot(pos[p])] = Current(p)]
  /\ pc' = [pc EXCEPT ![p] = "store"]
  /\ UNCHANGED <<enqueue_pos, dequeue_pos, sequences, pos, published, consumer,
                 signals, accepted, delivered>>

PushStore(p) ==
  /\ pc[p] = "store"
  /\ sequences' = [sequences EXCEPT ![Slot(pos[p])] = pos[p] + 1]
  /\ pc' = [pc EXCEPT ![p] = "notify"]
  /\ UNCHANGED <<enqueue_pos, dequeue_pos, cells, pos, published, consumer,
                 signals, accepted, delivered>>

\* notify_cluster_delivery: a stopping loop is not woken.
PushNotify(p) ==
  /\ pc[p] = "notify"
  /\ wake' = (wake \/ ~stop)
  /\ pc' = [pc EXCEPT ![p] = "idle"]
  /\ UNCHANGED <<ring, pos, published, consumer, stop, spc, accepted, delivered>>

\* Mutant: the wakeup is sent before the flag is stored.
RequestShutdown_WakeFirst ==
  /\ spc \in {"idle", "woken"}
  /\ wake' = (wake \/ spc = "idle")
  /\ stop' = (spc = "woken")
  /\ spc' = IF spc = "idle" THEN "woken" ELSE "done"
  /\ UNCHANGED <<ring, producer, consumer, accepted, delivered>>

(* App.request_shutdown, from any thread: the flag first, then the wakeup. *)
RequestShutdown ==
  /\ spc = "idle"
  /\ stop' = TRUE
  /\ spc' = "notify"
  /\ UNCHANGED <<ring, producer, consumer, wake, accepted, delivered>>

ShutdownNotify ==
  /\ spc = "notify"
  /\ wake' = TRUE
  /\ spc' = "done"
  /\ UNCHANGED <<ring, producer, consumer, stop, accepted, delivered>>

-----------------------------------------------------------------------------
(* The owning loop: on_cluster_wakeup drains until pop_scratch is null.    *)

\* The async completion fires; a stop request disarms instead of draining.
Wakeup ==
  /\ cpc = "parked"
  /\ wake
  /\ wake' = FALSE
  /\ cpc' = IF stop THEN "stopped" ELSE "start"
  /\ UNCHANGED <<ring, producer, cpos, peeked, taken, stop, spc, accepted, delivered>>

PopBegin ==
  /\ cpc = "start"
  /\ cpos' = dequeue_pos
  /\ cpc' = "load"
  /\ UNCHANGED <<ring, producer, peeked, taken, signals, accepted, delivered>>

\* The slot holds a published message: its lengths are read before the claim.
PopSlotFull ==
  /\ cpc = "load"
  /\ PopDifference = 0
  /\ peeked' = cells[Slot(cpos)]
  /\ cpc' = "claim"
  /\ UNCHANGED <<ring, producer, cpos, taken, signals, accepted, delivered>>

\* pop_copy returns null: the callback rearms the wakeup.
PopEmpty ==
  /\ cpc = "load"
  /\ PopDifference < 0
  /\ cpc' = "parked"
  /\ UNCHANGED <<ring, producer, cpos, peeked, taken, signals, accepted, delivered>>

PopClaim ==
  /\ cpc = "claim"
  /\ dequeue_pos = cpos
  /\ dequeue_pos' = dequeue_pos + 1
  /\ cpc' = "copy"
  /\ UNCHANGED <<enqueue_pos, sequences, cells, producer, cpos, peeked, taken,
                 signals, accepted, delivered>>

\* cmpxchgWeak failed spuriously: there is no other consumer.
PopClaimFails ==
  /\ cpc = "claim"
  /\ cpos' = dequeue_pos
  /\ cpc' = "load"
  /\ UNCHANGED <<ring, producer, peeked, taken, signals, accepted, delivered>>

PopCopy ==
  /\ cpc = "copy"
  /\ taken' = cells[Slot(cpos)]
  /\ cpc' = "store"
  /\ UNCHANGED <<ring, producer, cpos, peeked, signals, accepted, delivered>>

\* Mutant: one message per wakeup instead of draining the ring.
PopStore_OnePerWakeup ==
  /\ cpc = "store"
  /\ sequences' = [sequences EXCEPT ![Slot(cpos)] = cpos + Capacity]
  /\ delivered' = Append(delivered, taken)
  /\ cpc' = "parked"
  /\ UNCHANGED <<enqueue_pos, dequeue_pos, cells, producer, cpos, peeked, taken,
                 signals, accepted>>

\* The slot is handed to the producer one lap ahead, and the callback passes
\* the message to pubsub.publish.
PopStore ==
  /\ cpc = "store"
  /\ sequences' = [sequences EXCEPT ![Slot(cpos)] = cpos + Capacity]
  /\ delivered' = Append(delivered, taken)
  /\ cpc' = "start"
  /\ UNCHANGED <<enqueue_pos, dequeue_pos, cells, producer, cpos, peeked, taken,
                 signals, accepted>>

PushStep(p) ==
  \/ PushSlotFree(p) \/ PushFull(p) \/ PushStale(p)
  \/ PushClaim(p) \/ PushClaimFails(p) \/ PushCopy(p) \/ PushStore(p)
  \/ PushNotify(p)

Drain ==
  \/ Wakeup \/ PopBegin \/ PopSlotFull \/ PopEmpty
  \/ PopClaim \/ PopClaimFails \/ PopCopy \/ PopStore

Next ==
  \/ RequestShutdown \/ ShutdownNotify
  \/ Drain
  \/ \E p \in Producers : PushBegin(p) \/ PushStep(p)

Spec == Init /\ [][Next]_vars

(***************************************************************************)
(* Threads that have entered a push, a drain or request_shutdown keep      *)
(* being scheduled, and a weak compare-exchange that can succeed does not  *)
(* fail spuriously for ever.  Publishing and shutting down are choices of  *)
(* the caller and carry no fairness.                                       *)
(***************************************************************************)
Fairness ==
  /\ WF_vars(Drain) /\ SF_vars(PopClaim)
  /\ WF_vars(ShutdownNotify)
  /\ \A p \in Producers : WF_vars(PushStep(p)) /\ SF_vars(PushClaim(p))

FairSpec == Spec /\ Fairness
-----------------------------------------------------------------------------
(* Properties.                                                             *)

(* Every variable keeps its type; in particular no position or sequence    *)
(* word leaves the range of the unsigned counters of message_queue.        *)
TypeOK ==
  /\ enqueue_pos \in Nat
  /\ dequeue_pos \in Nat
  /\ sequences \in [0 .. Capacity - 1 -> Nat]
  /\ cells \in [0 .. Capacity - 1 -> Message \cup {Unwritten}]
  /\ pc \in [Producers -> PushStates]
  /\ pos \in [Producers -> Nat]
  /\ published \in [Producers -> 0 .. MaxMessages]
  /\ wake \in BOOLEAN
  /\ stop \in BOOLEAN
  /\ spc \in {"idle", "notify", "done"}
  /\ cpc \in PopStates
  /\ cpos \in Nat
  /\ peeked \in Message \cup {Unwritten}
  /\ taken \in Message \cup {Unwritten}
  /\ accepted \in Seq(Message)
  /\ delivered \in Seq(Message \cup {Unwritten})

Writing(p) == pc[p] \in {"copy", "store"}

(* Whatever the interleaving of push_validated and pop_copy, the messages  *)
(* handed to pubsub.publish are the claimed ones, each once, unaltered and *)
(* in the order of the enqueue_pos claims.                                 *)
DeliveredInOrder ==
  /\ Len(delivered) <= Len(accepted)
  /\ \A i \in 1 .. Len(delivered) : delivered[i] = accepted[i]

(* The plain arrays of a slot have one user at a time: between a claim and *)
(* the sequence store that ends it, no other producer writes the slot and  *)
(* the consumer neither reads its lengths nor copies it, so the lengths    *)
(* read before the consumer's claim fit the bytes copied after it.         *)
SlotsHaveOneUser ==
  /\ \A p, q \in Producers :
       p # q /\ Writing(p) /\ Writing(q) => Slot(pos[p]) # Slot(pos[q])
  /\ \A p \in Producers :
       Writing(p) /\ cpc \in {"claim", "copy", "store"} => Slot(pos[p]) # Slot(cpos)
  /\ cpc = "store" => taken = peeked

-----------------------------------------------------------------------------
(* The inductive invariant of the ring, in named parts.  Positions below   *)
(* Len(delivered) are finished, those below enqueue_pos are claimed, and   *)
(* the positions up to one lap ahead of the finished ones are free.        *)

Counters ==
  /\ Len(accepted) = enqueue_pos
  /\ dequeue_pos = Len(delivered) + (IF cpc \in {"copy", "store"} THEN 1 ELSE 0)
  /\ dequeue_pos <= enqueue_pos
  /\ enqueue_pos <= Len(delivered) + Capacity

ClaimedSlots ==
  \A q \in Len(delivered) .. enqueue_pos - 1 :
    /\ sequences[Slot(q)] \in {q, q + 1}
    /\ sequences[Slot(q)] = q + 1 => cells[Slot(q)] = accepted[q + 1]

FreeSlots ==
  \A q \in enqueue_pos .. Len(delivered) + Capacity - 1 : sequences[Slot(q)] = q

Pushers ==
  \A p \in Producers :
    /\ pos[p] <= enqueue_pos
    /\ pc[p] # "idle" => published[p] >= 1
    /\ pc[p] = "claim" /\ pos[p] = enqueue_pos
         => enqueue_pos < Len(delivered) + Capacity
    /\ Writing(p) => /\ Len(delivered) <= pos[p]
                     /\ pos[p] < enqueue_pos
                     /\ sequences[Slot(pos[p])] = pos[p]
                     /\ accepted[pos[p] + 1] = Current(p)
    /\ pc[p] = "store" => cells[Slot(pos[p])] = Current(p)
    /\ \A q \in Producers : p # q /\ Writing(p) /\ Writing(q) => pos[p] # pos[q]

Popper ==
  /\ cpc \in {"load", "claim", "copy", "store"} => cpos = Len(delivered)
  /\ cpc \in {"claim", "copy", "store"}
       => /\ cpos < enqueue_pos
          /\ sequences[Slot(cpos)] = cpos + 1
          /\ peeked = accepted[cpos + 1]
  /\ cpc = "store" => taken = accepted[cpos + 1]

(* The sequence word of every slot says who owns it: a claimed position is *)
(* either still with its one producer or holds the accepted message, a     *)
(* free position waits for its claim, and the consumer's slot is full.     *)
RingInv ==
  /\ Counters
  /\ ClaimedSlots
  /\ FreeSlots
  /\ Pushers
  /\ Popper
  /\ DeliveredInOrder
-----------------------------------------------------------------------------
(* push answers error.ClusterQueueFull, and broadcast drops the message,   *)
(* only when Capacity claimed messages are still in their slots: a stale   *)
(* position or a slow neighbour is never reported as a full queue.         *)
FullOnlyWhenFull ==
  [][\A p \in Producers :
       pc[p] = "load" /\ pc'[p] = "idle"
         => Len(accepted) = Len(delivered) + Capacity]_vars

(* A message accepted by push reaches pubsub.publish unless the loop is    *)
(* asked to stop, although the consumer sleeps between wakeups and an      *)
(* unfinished push hides the finished ones behind it.                      *)
AcceptedIsDelivered ==
  \A n \in 1 .. MaxMessages * Cardinality(Producers) :
    Len(accepted) = n ~> Len(delivered) >= n \/ stop

(* request_shutdown is never lost: the loop always gets to run its stop    *)
(* branch, also when the request meets a drain in progress.                *)
ShutdownIsSeen == stop ~> cpc = "stopped"

(* The ring implements the bounded FIFO channel; a claim is the point      *)
(* where a message is accepted, and the sequence store of pop_copy the     *)
(* point where it is delivered.                                            *)
Fifo == INSTANCE BoundedFifo WITH Capacity <- Capacity, Message <- Message,
                                 accepted <- accepted, delivered <- delivered
FifoSpec == Fifo!Spec
=============================================================================
