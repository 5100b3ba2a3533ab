------------------------- MODULE ClusterInboxProofs -------------------------
(***************************************************************************)
(* Proofs about the cluster inbox for every capacity of at least two and   *)
(* every set of producers.                                                 *)
(***************************************************************************)
EXTENDS ClusterInbox, TLAPS

USE CapacityAssumption, MaxMessagesAssumption

-----------------------------------------------------------------------------
(* Slot arithmetic.                                                        *)

(* A position's slot index is inside the arrays of message_queue.          *)
LEMMA SlotRange ==
  ASSUME NEW a \in Nat
  PROVE  Slot(a) \in 0 .. Capacity - 1
  BY DEF Slot

(* Division with remainder, the form the other lemmas use.                 *)
LEMMA SlotDivision ==
  ASSUME NEW a \in Nat
  PROVE  \E k \in Nat : a = k * Capacity + Slot(a)
<1>1. a \div Capacity \in Nat
  OBVIOUS
<1>2. a = (a \div Capacity) * Capacity + Slot(a)
  BY DEF Slot
<1> QED
  BY <1>1, <1>2

(* Two different positions less than one lap apart use different slots.    *)
LEMMA SlotsDiffer ==
  ASSUME NEW a \in Nat, NEW b \in Nat, a < b, b < a + Capacity
  PROVE  Slot(a) # Slot(b)
<1> SUFFICES ASSUME Slot(a) = Slot(b) PROVE FALSE
  OBVIOUS
<1>1. PICK k \in Nat : a = k * Capacity + Slot(a)
  BY SlotDivision
<1>2. PICK l \in Nat : b = l * Capacity + Slot(b)
  BY SlotDivision
<1>3. b - a = (l - k) * Capacity
  BY <1>1, <1>2, SlotRange
<1>4. l - k \in Int
  OBVIOUS
<1>5. CASE l - k <= 0
  BY <1>3, <1>4, <1>5
<1>6. CASE l - k >= 1
  BY <1>3, <1>4, <1>6
<1> QED
  BY <1>4, <1>5, <1>6

(* The remainder is unique: it is enough to exhibit a quotient.            *)
LEMMA SlotUnique ==
  ASSUME NEW a \in Nat, NEW k \in Nat, NEW r \in 0 .. Capacity - 1,
         a = k * Capacity + r
  PROVE  Slot(a) = r
<1>1. PICK l \in Nat : a = l * Capacity + Slot(a)
  BY SlotDivision
<1>2. (l - k) * Capacity = r - Slot(a)
  BY <1>1, SlotRange
<1>3. l - k \in Int /\ r - Slot(a) < Capacity /\ Slot(a) - r < Capacity
  BY SlotRange
<1>4. CASE l - k >= 1
  <2>1. (l - k) * Capacity >= Capacity
    BY <1>3, <1>4
  <2> QED
    BY <2>1, <1>2, <1>3, SlotRange
<1>5. CASE l - k <= -1
  <2>1. (l - k) * Capacity <= -Capacity
    BY <1>3, <1>5
  <2> QED
    BY <2>1, <1>2, <1>3, SlotRange
<1>6. CASE l - k = 0
  BY <1>2, <1>6, SlotRange
<1> QED
  BY <1>3, <1>4, <1>5, <1>6

(* A position and the one a lap ahead share a slot.                        *)
LEMMA SlotLap ==
  ASSUME NEW a \in Nat
  PROVE  Slot(a + Capacity) = Slot(a)
<1>1. PICK k \in Nat : a = k * Capacity + Slot(a)
  BY SlotDivision
<1>2. a + Capacity = (k + 1) * Capacity + Slot(a)
  BY <1>1, SlotRange
<1>3. a + Capacity \in Nat /\ k + 1 \in Nat
  OBVIOUS
<1> QED
  BY <1>2, <1>3, SlotRange, SlotUnique

(* Every slot is used by some position of any window of one lap.           *)
LEMMA WindowCovers ==
  ASSUME NEW lo \in Nat, NEW i \in 0 .. Capacity - 1
  PROVE  \E q \in lo .. lo + Capacity - 1 : Slot(q) = i
<1>1. PICK k \in Nat : lo = k * Capacity + Slot(lo)
  BY SlotDivision
<1>2. CASE Slot(lo) <= i
  <2> DEFINE q == k * Capacity + i
  <2>1. q \in lo .. lo + Capacity - 1 /\ q \in Nat
    BY <1>1, <1>2, SlotRange
  <2>2. Slot(q) = i
    BY <2>1, SlotUnique
  <2> QED
    BY <2>1, <2>2
<1>3. CASE Slot(lo) > i
  <2> DEFINE q == (k + 1) * Capacity + i
  <2>1. q \in lo .. lo + Capacity - 1 /\ q \in Nat
    BY <1>1, <1>3, SlotRange
  <2>2. k + 1 \in Nat
    OBVIOUS
  <2>3. Slot(q) = i
    BY <2>1, <2>2, SlotUnique
  <2> QED
    BY <2>1, <2>3
<1> QED
  BY <1>2, <1>3, SlotRange

(* An older position of the same slot is at least a lap behind.            *)
LEMMA SlotBehind ==
  ASSUME NEW a \in Nat, NEW b \in Nat, Slot(a) = Slot(b), a < b
  PROVE  a + Capacity <= b
  BY SlotsDiffer
-----------------------------------------------------------------------------
(* The inductive invariant.                                                *)

IInv == TypeOK /\ RingInv

(* A store to one sequence word keeps them all unsigned.                   *)
LEMMA StoreWord ==
  ASSUME NEW f \in [0 .. Capacity - 1 -> Nat], NEW i \in 0 .. Capacity - 1,
         NEW v \in Nat
  PROVE  [f EXCEPT ![i] = v] \in [0 .. Capacity - 1 -> Nat]
  OBVIOUS

(* The initial ring: every slot waits for the position of its own index.   *)
LEMMA InitIInv == Init => IInv
<1> SUFFICES ASSUME Init PROVE IInv
  OBVIOUS
<1>1. TypeOK
  <2>1. sequences \in [0 .. Capacity - 1 -> Nat]
    BY DEF Init
  <2>2. cells \in [0 .. Capacity - 1 -> Message \cup {Unwritten}]
    BY DEF Init
  <2>3. accepted \in Seq(Message) /\ delivered \in Seq(Message \cup {Unwritten})
    BY DEF Init
  <2>4. /\ pc \in [Producers -> PushStates]
        /\ pos \in [Producers -> Nat]
        /\ published \in [Producers -> 0 .. MaxMessages]
    BY DEF Init, PushStates
  <2>5. /\ wake \in BOOLEAN /\ stop \in BOOLEAN
        /\ spc \in {"idle", "notify", "done"}
        /\ cpc \in PopStates
        /\ peeked \in Message \cup {Unwritten} /\ taken \in Message \cup {Unwritten}
    BY DEF Init, PopStates
  <2>6. enqueue_pos \in Nat /\ dequeue_pos \in Nat /\ cpos \in Nat
    BY DEF Init
  <2> QED
    BY <2>1, <2>2, <2>3, <2>4, <2>5, <2>6 DEF TypeOK
<1>2. \A q \in 0 .. Capacity - 1 : Slot(q) = q
  <2> SUFFICES ASSUME NEW q \in 0 .. Capacity - 1 PROVE Slot(q) = q
    OBVIOUS
  <2>1. q = 0 * Capacity + q
    OBVIOUS
  <2> QED
    BY <2>1, SlotUnique
<1>3. Len(accepted) = 0 /\ Len(delivered) = 0
  BY DEF Init
<1>4. RingInv
  BY <1>2, <1>3 DEF Init, RingInv, Counters, ClaimedSlots, FreeSlots, Pushers,
     Popper, DeliveredInOrder, Writing
<1> QED
  BY <1>1, <1>4 DEF IInv

(* Every step keeps the variables in their types.                          *)
LEMMA StepTypeOK ==
  ASSUME IInv, [Next]_vars
  PROVE  TypeOK'
<1> USE DEF IInv, TypeOK, PushStates, PopStates
<1>1. ASSUME NEW p \in Producers, pc[p] # "idle" PROVE Current(p) \in Message
  BY <1>1 DEF RingInv, Pushers, Current, Message
<1>2. \A a \in Nat : Slot(a) \in 0 .. Capacity - 1
  BY SlotRange
<1>3. ASSUME NEW p \in Producers, PushBegin(p) \/ PushStep(p) PROVE TypeOK'
  <2>1. CASE PushBegin(p)
    BY <2>1 DEF PushBegin, ring, consumer, signals
  <2>2. CASE PushSlotFree(p)
    BY <2>2 DEF PushSlotFree, ring, consumer, signals
  <2>3. CASE PushFull(p)
    BY <2>3 DEF PushFull, ring, consumer, signals
  <2>4. CASE PushStale(p)
    BY <2>4 DEF PushStale, ring, consumer, signals
  <2>5. CASE PushClaim(p)
    BY <2>5, <1>1 DEF PushClaim, consumer, signals
  <2>6. CASE PushClaimFails(p)
    BY <2>6 DEF PushClaimFails, ring, consumer, signals
  <2>7. CASE PushCopy(p)
    BY <2>7, <1>1, <1>2 DEF PushCopy, consumer, signals
  <2>8. CASE PushStore(p)
    <3>1. sequences' \in [0 .. Capacity - 1 -> Nat]
      <4>1. pos[p] \in Nat /\ pos[p] + 1 \in Nat
        OBVIOUS
      <4> QED
        BY <2>8, <1>2, <4>1, StoreWord DEF PushStore
    <3> QED
      BY <2>8, <3>1 DEF PushStore, consumer, signals
  <2>9. CASE PushNotify(p)
    BY <2>9 DEF PushNotify, ring, consumer
  <2> QED
    BY <1>3, <2>1, <2>2, <2>3, <2>4, <2>5, <2>6, <2>7, <2>8, <2>9 DEF PushStep
<1>4. CASE RequestShutdown \/ ShutdownNotify
  BY <1>4 DEF RequestShutdown, ShutdownNotify, ring, producer, consumer
<1>5. CASE Drain
  <2>1. CASE Wakeup
    BY <2>1 DEF Wakeup, ring, producer
  <2>2. CASE PopBegin
    BY <2>2 DEF PopBegin, ring, producer, signals
  <2>3. CASE PopSlotFull
    BY <2>3, <1>2 DEF PopSlotFull, ring, producer, signals
  <2>4. CASE PopEmpty
    BY <2>4 DEF PopEmpty, ring, producer, signals
  <2>5. CASE PopClaim
    BY <2>5, SMTT(30) DEF PopClaim, producer, signals
  <2>6. CASE PopClaimFails
    BY <2>6 DEF PopClaimFails, ring, producer, signals
  <2>7. CASE PopCopy
    BY <2>7, <1>2 DEF PopCopy, ring, producer, signals
  <2>8. CASE PopStore
    <3>1. sequences' \in [0 .. Capacity - 1 -> Nat]
      <4>1. cpos \in Nat /\ cpos + Capacity \in Nat
        OBVIOUS
      <4> QED
        BY <2>8, <1>2, <4>1, StoreWord DEF PopStore
    <3>2. delivered' \in Seq(Message \cup {Unwritten})
      BY <2>8 DEF PopStore
    <3> QED
      BY <2>8, <3>1, <3>2 DEF PopStore, producer, signals
  <2> QED
    BY <1>5, <2>1, <2>2, <2>3, <2>4, <2>5, <2>6, <2>7, <2>8 DEF Drain
<1>6. CASE UNCHANGED vars
  BY <1>6 DEF vars, ring, producer, consumer, signals
<1> QED
  BY <1>3, <1>4, <1>5, <1>6 DEF Next

(* Inside one lap above the finished positions, slots identify positions.  *)
LEMMA LapInjective ==
  ASSUME NEW lo \in Nat, NEW a \in lo .. lo + Capacity - 1,
         NEW b \in lo .. lo + Capacity - 1, Slot(a) = Slot(b)
  PROVE  a = b
<1>1. a \in Nat /\ b \in Nat
  OBVIOUS
<1>2. CASE a < b
  BY <1>1, <1>2, SlotsDiffer
<1>3. CASE b < a
  BY <1>1, <1>3, SlotsDiffer
<1> QED
  BY <1>1, <1>2, <1>3

(* A position whose word equals it is free for a claim if it is the next.  *)
LEMMA FreeMeansRoom ==
  ASSUME TypeOK, RingInv, sequences[Slot(enqueue_pos)] = enqueue_pos
  PROVE  enqueue_pos < Len(delivered) + Capacity
<1> DEFINE F == Len(delivered)
<1>0. F \in Nat /\ enqueue_pos \in Nat /\ enqueue_pos <= F + Capacity
  BY DEF TypeOK, RingInv, Counters
<1> SUFFICES ASSUME enqueue_pos = F + Capacity PROVE FALSE
  BY <1>0
<1>1. Slot(enqueue_pos) = Slot(F)
  BY <1>0, SlotLap
<1>2. F \in F .. enqueue_pos - 1
  BY <1>0
<1>3. sequences[Slot(F)] \in {F, F + 1}
  BY <1>2 DEF RingInv, ClaimedSlots
<1> QED
  BY <1>0, <1>1, <1>3

\* A producer that is not between its claim and its sequence store moves to
\* another such place, and may reload its position.
OutsideSteps(p, place, at) ==
  /\ ~Writing(p) /\ (place # "idle" => pc[p] # "idle")
  /\ pc' = [pc EXCEPT ![p] = place] /\ pos' = [pos EXCEPT ![p] = at]
  /\ UNCHANGED <<enqueue_pos, dequeue_pos, sequences, cells, published,
                 cpc, cpos, peeked, taken, accepted, delivered>>

\* Such a step disturbs nobody else.
LEMMA OutsideKeeps ==
  ASSUME TypeOK, RingInv, NEW p \in Producers, NEW place \in {"idle", "load", "claim"},
         NEW at \in Nat, at <= enqueue_pos, OutsideSteps(p, place, at),
         place = "claim" /\ at = enqueue_pos => enqueue_pos < Len(delivered) + Capacity
  PROVE  RingInv'
<1>1. /\ pc'[p] = place /\ pos'[p] = at /\ ~Writing(p) /\ ~Writing(p)'
      /\ \A q \in Producers : q # p => pc'[q] = pc[q] /\ pos'[q] = pos[q]
  BY DEF OutsideSteps, TypeOK, Writing
<1>2. /\ enqueue_pos' = enqueue_pos /\ dequeue_pos' = dequeue_pos /\ sequences' = sequences
      /\ cells' = cells /\ published' = published /\ cpc' = cpc /\ cpos' = cpos
      /\ peeked' = peeked /\ taken' = taken /\ accepted' = accepted /\ delivered' = delivered
  BY DEF OutsideSteps
<1>3. ASSUME NEW r \in Producers PROVE Pushers!(r)'
  <2>1. Pushers!(r)
    BY DEF RingInv, Pushers
  <2>2. CASE r = p
    <3>1. pc'[r] # "idle" => published[r] >= 1
      BY <1>1, <2>1, <2>2 DEF OutsideSteps
    <3> QED
      BY <1>1, <1>2, <2>2, <3>1 DEF Writing
  <2>3. CASE r # p
    <3>1. pc'[r] = pc[r] /\ pos'[r] = pos[r] /\ (Writing(r)' <=> Writing(r))
      BY <1>1, <2>3 DEF Writing
    <3>2. \A q \in Producers : Writing(q)' => Writing(q) /\ pos'[q] = pos[q]
      BY <1>1 DEF Writing
    <3>3. Current(r)' = Current(r)
      BY <1>2 DEF Current
    <3>4. \A q \in Producers : r # q /\ Writing(r)' /\ Writing(q)' => pos'[r] # pos'[q]
      BY <2>1, <3>1, <3>2
    <3> QED
      BY <1>2, <2>1, <3>1, <3>3, <3>4 DEF Slot
  <2> QED
    BY <2>2, <2>3
<1>4. Pushers'
  BY <1>3 DEF Pushers
<1> QED
  BY <1>2, <1>4 DEF RingInv, Counters, ClaimedSlots, FreeSlots, Popper, DeliveredInOrder, Slot

(* A producer's step on the ring keeps the invariant.                      *)
LEMMA PushRingInv ==
  ASSUME IInv, TypeOK', NEW p \in Producers, PushBegin(p) \/ PushStep(p)
  PROVE  RingInv'
<1> USE DEF IInv
<1> DEFINE F == Len(delivered)
<1>0. F \in Nat /\ enqueue_pos \in Nat /\ enqueue_pos <= F + Capacity
  BY DEF TypeOK, RingInv, Counters
<1>a. pos[p] \in Nat /\ pos[p] <= enqueue_pos
  BY DEF TypeOK, RingInv, Pushers
<1>b. UNCHANGED pos => pos' = [pos EXCEPT ![p] = pos[p]]
  BY DEF TypeOK
<1>1. CASE PushBegin(p)
  <2>1. /\ pc[p] = "idle" /\ pos' = [pos EXCEPT ![p] = enqueue_pos]
        /\ published' = [published EXCEPT ![p] = @ + 1]
        /\ pc' = [pc EXCEPT ![p] = "load"]
        /\ UNCHANGED <<enqueue_pos, dequeue_pos, sequences, cells, cpc, cpos, peeked, taken,
                       accepted, delivered>>
    BY <1>1 DEF PushBegin, ring, consumer
  <2>2. Pushers'
    <3> SUFFICES ASSUME NEW r \in Producers PROVE Pushers!(r)'
      BY DEF Pushers
    <3>1. ~Writing(p)' /\ \A q \in Producers : q # p => /\ pc'[q] = pc[q] /\ pos'[q] = pos[q]
                                                      /\ published'[q] = published[q]
      BY <2>1 DEF Writing, TypeOK
    <3>2. CASE r = p
      BY <1>0, <2>1, <3>1, <3>2 DEF RingInv, Pushers, TypeOK
    <3>3. CASE r # p
      BY <2>1, <3>1, <3>3 DEF RingInv, Pushers, Writing, Current
    <3> QED
      BY <3>2, <3>3
  <2> QED
    BY <2>1, <2>2 DEF RingInv, Counters, ClaimedSlots, FreeSlots, Popper, DeliveredInOrder
<1>2. CASE PushSlotFree(p)
  <2>1. Slot(pos[p]) \in 0 .. Capacity - 1
    BY SlotRange DEF TypeOK
  <2>2. sequences[Slot(pos[p])] = pos[p]
    <3>1. sequences[Slot(pos[p])] - pos[p] = 0
      BY <1>2 DEF PushSlotFree, Difference
    <3>2. sequences[Slot(pos[p])] \in Nat /\ pos[p] \in Nat
      BY <2>1 DEF TypeOK
    <3> QED
      BY <3>1, <3>2
  <2>3. pos[p] = enqueue_pos => enqueue_pos < F + Capacity
    BY <2>2, FreeMeansRoom
  <2>4. OutsideSteps(p, "claim", pos[p])
    BY <1>2, <1>b DEF PushSlotFree, OutsideSteps, ring, consumer, Writing
  <2> QED
    BY <2>3, <2>4, <1>a, OutsideKeeps
<1>3. CASE PushFull(p)
  <2>1. OutsideSteps(p, "idle", pos[p])
    BY <1>3, <1>b DEF PushFull, OutsideSteps, ring, consumer, Writing
  <2> QED
    BY <2>1, <1>a, OutsideKeeps
<1>4. CASE PushStale(p)
  <2>1. OutsideSteps(p, "load", enqueue_pos)
    BY <1>4 DEF PushStale, OutsideSteps, ring, consumer, Writing, TypeOK
  <2> QED
    BY <1>0, <2>1, OutsideKeeps
<1>5. CASE PushClaimFails(p)
  <2>1. OutsideSteps(p, "load", enqueue_pos)
    BY <1>5 DEF PushClaimFails, OutsideSteps, ring, consumer, Writing
  <2> QED
    BY <1>0, <2>1, OutsideKeeps
<1>6. CASE PushNotify(p)
  <2>1. OutsideSteps(p, "idle", pos[p])
    BY <1>6, <1>b DEF PushNotify, OutsideSteps, ring, consumer, Writing
  <2> QED
    BY <2>1, <1>a, OutsideKeeps
<1>7. CASE PushClaim(p)
  <2>1. /\ enqueue_pos = pos[p] /\ enqueue_pos < F + Capacity
        /\ enqueue_pos' = enqueue_pos + 1
        /\ UNCHANGED <<sequences, cells, pos, published, cpc, cpos, peeked, taken,
                       dequeue_pos, delivered>>
        /\ Len(accepted) = enqueue_pos
    BY <1>7 DEF PushClaim, consumer, RingInv, Pushers, Counters
  <2>2. /\ Len(accepted') = enqueue_pos + 1
        /\ accepted'[enqueue_pos + 1] = Current(p)
        /\ \A i \in 1 .. enqueue_pos : accepted'[i] = accepted[i]
    BY <1>7, <2>1 DEF PushClaim, TypeOK
  <2>3. Counters'
    BY <1>0, <2>1, <2>2 DEF RingInv, Counters, TypeOK
  <2>4. sequences[Slot(enqueue_pos)] = enqueue_pos
    BY <1>0, <2>1 DEF RingInv, FreeSlots
  <2>5. ClaimedSlots'
    <3> SUFFICES ASSUME NEW q \in F .. enqueue_pos
                 PROVE  /\ sequences[Slot(q)] \in {q, q + 1}
                        /\ sequences[Slot(q)] = q + 1 => cells[Slot(q)] = accepted'[q + 1]
      BY <1>0, <2>1 DEF ClaimedSlots
    <3>1. CASE q = enqueue_pos
      BY <1>0, <2>4, <3>1
    <3>2. CASE q \in F .. enqueue_pos - 1
      <4>1. accepted'[q + 1] = accepted[q + 1]
        BY <1>0, <2>2, <3>2
      <4> QED
        BY <3>2, <4>1 DEF RingInv, ClaimedSlots
    <3> QED
      BY <1>0, <3>1, <3>2
  <2>6. FreeSlots'
    BY <1>0, <2>1 DEF RingInv, FreeSlots
  <2>7. Pushers'
    <3> SUFFICES ASSUME NEW r \in Producers PROVE Pushers!(r)'
      BY DEF Pushers
    <3>1. pc' = [pc EXCEPT ![p] = "copy"]
      BY <1>7 DEF PushClaim
    <3>2. \A q \in Producers : q # p => (Writing(q)' <=> Writing(q)) /\ pc'[q] = pc[q]
      BY <3>1 DEF Writing, TypeOK
    <3>3. \A q \in Producers : Writing(q) => pos[q] < enqueue_pos /\ F <= pos[q]
      BY DEF RingInv, Pushers
    <3>4. pc'[p] = "copy" /\ Writing(p)' /\ Current(p)' = Current(p)
      BY <2>1, <3>1 DEF Writing, Current, TypeOK
    <3>5. CASE r = p
      <4>1. published[p] >= 1
        BY <1>7 DEF PushClaim, RingInv, Pushers
      <4>2. \A q \in Producers : p # q /\ Writing(q)' => pos[p] # pos[q]
        BY <1>0, <2>1, <3>2, <3>3 DEF TypeOK
      <4> QED
        <5>1. pos'[p] <= enqueue_pos' /\ F <= pos'[p] /\ pos'[p] < enqueue_pos'
          BY <1>0, <2>1 DEF RingInv, Counters
        <5>2. sequences'[Slot(pos'[p])] = pos'[p] /\ accepted'[pos'[p] + 1] = Current(p)'
          BY <2>1, <2>2, <2>4, <3>4
        <5>3. \A q \in Producers : p # q /\ Writing(q)' => pos'[p] # pos'[q]
          BY <2>1, <4>2
        <5> QED
          BY <2>1, <3>4, <3>5, <4>1, <5>1, <5>2, <5>3
    <3>6. CASE r # p
      <4>1. Pushers!(r)
        BY DEF RingInv, Pushers
      <4>2. ASSUME Writing(r) PROVE accepted'[pos[r] + 1] = accepted[pos[r] + 1]
        <5>1. pos[r] \in Nat
          BY DEF TypeOK
        <5>2. pos[r] < enqueue_pos
          BY <3>3, <4>2
        <5>3. pos[r] + 1 \in 1 .. enqueue_pos
          BY <1>0, <5>1, <5>2
        <5> QED
          BY <2>2, <5>3
      <4>3. pos[r] <= enqueue_pos' /\ pos[r] # enqueue_pos'
        BY <1>0, <2>1, <4>1 DEF TypeOK
      <4>4. \A q \in Producers : r # q /\ Writing(r)' /\ Writing(q)' => pos[r] # pos[q]
        BY <1>0, <2>1, <3>2, <3>3, <3>6, <4>1 DEF TypeOK
      <4> QED
        <5>1. /\ pc'[r] = pc[r] /\ (Writing(r)' <=> Writing(r)) /\ Current(r)' = Current(r)
              /\ pos'[r] = pos[r] /\ published'[r] = published[r]
          BY <2>1, <3>2, <3>6 DEF Current
        <5>2. Writing(r) => pos[r] < enqueue_pos'
          <6>1. pos[r] \in Nat
            BY DEF TypeOK
          <6>2. Writing(r) => pos[r] < enqueue_pos
            BY <3>3
          <6> QED
            BY <1>0, <2>1, <6>1, <6>2
        <5> QED
          BY <2>1, <4>1, <4>2, <4>3, <4>4, <5>1, <5>2
    <3> QED
      BY <3>5, <3>6
  <2>8. Popper'
    BY <1>0, <2>1, <2>2 DEF RingInv, Popper, TypeOK
  <2>9. DeliveredInOrder'
    BY <1>0, <2>1, <2>2 DEF RingInv, DeliveredInOrder, TypeOK
  <2> QED
    BY <2>3, <2>5, <2>6, <2>7, <2>8, <2>9 DEF RingInv
<1>8. CASE PushCopy(p)
  <2>1. /\ F <= pos[p] /\ pos[p] < enqueue_pos /\ pos[p] \in Nat
        /\ sequences[Slot(pos[p])] = pos[p]
        /\ cells' = [cells EXCEPT ![Slot(pos[p])] = Current(p)]
        /\ UNCHANGED <<enqueue_pos, dequeue_pos, sequences, pos, published, cpc, cpos,
                       peeked, taken, accepted, delivered>>
    BY <1>8 DEF PushCopy, consumer, RingInv, Pushers, Writing, TypeOK
  <2>2. \A q \in F .. F + Capacity - 1 : Slot(q) = Slot(pos[p]) => q = pos[p]
    BY <1>0, <2>1, LapInjective
  <2>3. ClaimedSlots'
    <3> SUFFICES ASSUME NEW q \in F .. enqueue_pos - 1
                 PROVE  /\ sequences[Slot(q)] \in {q, q + 1}
                        /\ sequences[Slot(q)] = q + 1 => cells'[Slot(q)] = accepted[q + 1]
      BY <2>1 DEF ClaimedSlots
    <3>1. q \in Nat /\ q \in F .. F + Capacity - 1
      BY <1>0
    <3>2. Slot(q) \in 0 .. Capacity - 1
      BY <3>1, SlotRange
    <3>3. CASE q = pos[p]
      BY <2>1, <3>3
    <3>4. CASE q # pos[p]
      <4>1. cells'[Slot(q)] = cells[Slot(q)]
        BY <2>1, <2>2, <3>1, <3>2, <3>4 DEF TypeOK
      <4> QED
        BY <4>1 DEF RingInv, ClaimedSlots
    <3> QED
      BY <3>3, <3>4
  <2>4. Pushers'
    <3>1. Slot(pos[p]) \in 0 .. Capacity - 1
      BY <2>1, SlotRange
    <3>2. pc[p] = "copy" /\ pc' = [pc EXCEPT ![p] = "store"]
      BY <1>8 DEF PushCopy
    <3> SUFFICES ASSUME NEW r \in Producers PROVE Pushers!(r)'
      BY DEF Pushers
    <3>3. \A q \in Producers : (Writing(q)' <=> Writing(q)) /\ (Current(q)' = Current(q))
      BY <2>1, <3>2 DEF Writing, Current, TypeOK
    <3>4. pc'[r] = "store" => cells'[Slot(pos[r])] = Current(r)
      <4>1. CASE r = p
        BY <2>1, <3>1, <4>1 DEF TypeOK
      <4>2. CASE r # p
        <5> SUFFICES ASSUME pc'[r] = "store" PROVE cells'[Slot(pos[r])] = Current(r)
          OBVIOUS
        <5>1. pc[r] = "store" /\ Writing(r) /\ Writing(p)
          BY <3>2, <4>2 DEF Writing, TypeOK
        <5>2. /\ pos[r] # pos[p] /\ F <= pos[r] /\ pos[r] < enqueue_pos
              /\ cells[Slot(pos[r])] = Current(r)
          BY <4>2, <5>1 DEF RingInv, Pushers
        <5>3. pos[r] \in Nat
          BY DEF TypeOK
        <5>4. Slot(pos[r]) # Slot(pos[p])
          BY <1>0, <2>2, <5>2, <5>3
        <5> QED
          BY <2>1, <3>1, <5>2, <5>3, <5>4, SlotRange DEF TypeOK
      <4> QED
        BY <4>1, <4>2
    <3> QED
      BY <2>1, <3>2, <3>3, <3>4 DEF RingInv, Pushers, TypeOK
  <2> QED
    BY <1>0, <2>1, <2>3, <2>4 DEF RingInv, Counters, FreeSlots, Popper, DeliveredInOrder
<1>9. CASE PushStore(p)
  <2>1. /\ F <= pos[p] /\ pos[p] < enqueue_pos /\ pos[p] \in Nat
        /\ sequences[Slot(pos[p])] = pos[p]
        /\ cells[Slot(pos[p])] = accepted[pos[p] + 1]
        /\ sequences' = [sequences EXCEPT ![Slot(pos[p])] = pos[p] + 1]
        /\ UNCHANGED <<enqueue_pos, dequeue_pos, cells, pos, published, cpc, cpos,
                       peeked, taken, accepted, delivered>>
    BY <1>9 DEF PushStore, consumer, RingInv, Pushers, Writing, TypeOK
  <2>2. \A q \in F .. F + Capacity - 1 : Slot(q) = Slot(pos[p]) => q = pos[p]
    BY <1>0, <2>1, LapInjective
  <2>3. Slot(pos[p]) \in 0 .. Capacity - 1
    BY <2>1, SlotRange
  <2>4. ClaimedSlots'
    <3> SUFFICES ASSUME NEW q \in F .. enqueue_pos - 1
                 PROVE  /\ sequences'[Slot(q)] \in {q, q + 1}
                        /\ sequences'[Slot(q)] = q + 1 => cells[Slot(q)] = accepted[q + 1]
      BY <2>1 DEF ClaimedSlots
    <3>1. q \in Nat /\ q \in F .. F + Capacity - 1
      BY <1>0
    <3>2. Slot(q) \in 0 .. Capacity - 1
      BY <3>1, SlotRange
    <3>3. CASE q = pos[p]
      BY <2>1, <2>3, <3>3 DEF TypeOK
    <3>4. CASE q # pos[p]
      <4>1. sequences'[Slot(q)] = sequences[Slot(q)]
        BY <2>1, <2>2, <3>1, <3>2, <3>4 DEF TypeOK
      <4> QED
        BY <4>1 DEF RingInv, ClaimedSlots
    <3> QED
      BY <3>3, <3>4
  <2>5. FreeSlots'
    BY <1>0, <2>1, <2>2, <2>3, SMTT(30) DEF RingInv, FreeSlots, TypeOK
  <2>6. Pushers'
    <3> SUFFICES ASSUME NEW r \in Producers PROVE Pushers!(r)'
      BY DEF Pushers
    <3>1. pc' = [pc EXCEPT ![p] = "notify"]
      BY <1>9 DEF PushStore
    <3>2. CASE r = p
      BY <1>0, <1>9, <2>1, <3>1, <3>2 DEF PushStore, RingInv, Pushers, Writing, Current,
         TypeOK
    <3>3. CASE r # p
      <4>1. Writing(r)' <=> Writing(r)
        BY <3>1, <3>3 DEF Writing, TypeOK
      <4>2. ASSUME Writing(r) PROVE sequences'[Slot(pos[r])] = sequences[Slot(pos[r])]
        <5>1. pos[r] # pos[p] /\ pos[r] \in F .. F + Capacity - 1 /\ pos[r] \in Nat
          BY <1>0, <1>9, <3>3, <4>2, SMTT(30) DEF PushStore, RingInv, Pushers, Writing, TypeOK
        <5>2. Slot(pos[r]) \in 0 .. Capacity - 1
          BY <5>1, SlotRange
        <5> QED
          BY <2>1, <2>2, <5>1, <5>2 DEF TypeOK
      <4> QED
        BY <1>0, <2>1, <3>1, <3>3, <4>1, <4>2 DEF RingInv, Pushers, Writing, Current, TypeOK
    <3> QED
      BY <3>2, <3>3
  <2>7. Popper'
    <3>1. ASSUME cpc \in {"claim", "copy", "store"}
          PROVE  sequences'[Slot(cpos)] = sequences[Slot(cpos)]
      <4>1. /\ cpos = F /\ cpos < enqueue_pos /\ sequences[Slot(cpos)] = cpos + 1
            /\ cpos \in Nat
        BY <3>1 DEF RingInv, Popper, TypeOK
      <4>2. cpos \in F .. F + Capacity - 1 /\ cpos # pos[p]
        BY <1>0, <2>1, <4>1
      <4>3. Slot(cpos) \in 0 .. Capacity - 1
        BY <4>1, SlotRange
      <4> QED
        BY <2>1, <2>2, <4>2, <4>3 DEF TypeOK
    <3> QED
      BY <2>1, <3>1 DEF RingInv, Popper
  <2> QED
    BY <1>0, <2>1, <2>4, <2>5, <2>6, <2>7 DEF RingInv, Counters, DeliveredInOrder
<1> QED
  BY <1>1, <1>2, <1>3, <1>4, <1>5, <1>6, <1>7, <1>8, <1>9 DEF PushStep

(* A step of the owning loop keeps the invariant.                          *)
LEMMA DrainRingInv ==
  ASSUME IInv, TypeOK', Drain
  PROVE  RingInv'
<1> USE DEF IInv
<1> DEFINE F == Len(delivered)
<1>0. F \in Nat /\ enqueue_pos \in Nat /\ enqueue_pos <= F + Capacity
  BY DEF TypeOK, RingInv, Counters
<1>1. CASE Wakeup
  BY <1>1 DEF Wakeup, ring, producer, RingInv, Counters, ClaimedSlots, FreeSlots, Pushers,
     Popper, DeliveredInOrder, Writing, Current
<1>2. CASE PopBegin
  <2>1. dequeue_pos = F
    BY <1>0, <1>2 DEF PopBegin, RingInv, Counters
  <2> QED
    BY <1>2, <2>1 DEF PopBegin, ring, producer, signals, RingInv, Counters, ClaimedSlots,
       FreeSlots, Pushers, Popper, DeliveredInOrder, Writing, Current
<1>3. CASE PopSlotFull
  <2>1. cpos = F /\ cpos \in Nat
    BY <1>0, <1>3 DEF PopSlotFull, RingInv, Popper
  <2>2. Slot(cpos) \in 0 .. Capacity - 1
    BY <2>1, SlotRange
  <2>3. sequences[Slot(cpos)] = cpos + 1
    BY <1>3, <2>1, <2>2, SMTT(30) DEF PopSlotFull, PopDifference, TypeOK
  <2>4. F < enqueue_pos
    <3> SUFFICES ASSUME F = enqueue_pos PROVE FALSE
      BY <1>0, SMTT(30) DEF RingInv, Counters, TypeOK
    <3>1. F \in enqueue_pos .. F + Capacity - 1
      BY <1>0
    <3>2. sequences[Slot(F)] = F
      BY <3>1 DEF RingInv, FreeSlots
    <3> QED
      BY <1>0, <2>1, <2>3, <3>2
  <2>5. cells[Slot(cpos)] = accepted[cpos + 1]
    <3>1. cpos \in F .. enqueue_pos - 1
      BY <1>0, <2>1, <2>4
    <3> QED
      BY <2>3, <3>1 DEF RingInv, ClaimedSlots
  <2>6. Popper'
    BY <1>3, <2>1, <2>3, <2>4, <2>5 DEF PopSlotFull, ring, Popper
  <2> QED
    BY <1>3, <2>6 DEF PopSlotFull, ring, producer, signals, RingInv, Counters, ClaimedSlots,
       FreeSlots, Pushers, DeliveredInOrder, Writing, Current
<1>4. CASE PopEmpty
  BY <1>4 DEF PopEmpty, ring, producer, signals, RingInv, Counters, ClaimedSlots,
     FreeSlots, Pushers, Popper, DeliveredInOrder, Writing, Current
<1>5. CASE PopClaim
  <2>1. Counters'
    BY <1>0, <1>5 DEF PopClaim, RingInv, Counters, Popper, TypeOK
  <2> QED
    BY <1>5, <2>1 DEF PopClaim, producer, signals, RingInv, ClaimedSlots,
       FreeSlots, Pushers, Popper, DeliveredInOrder, Writing, Current
<1>6. CASE PopClaimFails
  <2>1. dequeue_pos = F
    BY <1>0, <1>6 DEF PopClaimFails, RingInv, Counters
  <2> QED
    BY <1>6, <2>1 DEF PopClaimFails, ring, producer, signals, RingInv, Counters,
       ClaimedSlots, FreeSlots, Pushers, Popper, DeliveredInOrder, Writing, Current
<1>7. CASE PopCopy
  <2>1. cpos = F /\ cpos < enqueue_pos /\ sequences[Slot(cpos)] = cpos + 1
    BY <1>7 DEF PopCopy, RingInv, Popper
  <2>2. cpos \in F .. enqueue_pos - 1
    BY <1>0, <2>1
  <2>3. cells[Slot(cpos)] = accepted[cpos + 1]
    BY <2>1, <2>2 DEF RingInv, ClaimedSlots
  <2> QED
    BY <1>7, <2>3 DEF PopCopy, ring, producer, signals, RingInv, Counters,
       ClaimedSlots, FreeSlots, Pushers, Popper, DeliveredInOrder, Writing, Current
<1>8. CASE PopStore
  <2>1. /\ cpos = F /\ F < enqueue_pos /\ sequences[Slot(F)] = F + 1
        /\ taken = accepted[F + 1] /\ dequeue_pos = F + 1
    BY <1>0, <1>8 DEF PopStore, RingInv, Popper, Counters
  <2>2. /\ sequences' = [sequences EXCEPT ![Slot(F)] = F + Capacity]
        /\ cpc' = "start"
        /\ UNCHANGED <<enqueue_pos, dequeue_pos, cells, pc, pos, published, accepted>>
    BY <1>8, <2>1 DEF PopStore, producer
  <2>3. /\ Len(delivered') = F + 1
        /\ delivered'[F + 1] = accepted[F + 1]
        /\ \A i \in 1 .. F : delivered'[i] = delivered[i]
    BY <1>8, <2>1 DEF PopStore, TypeOK
  <2>4. Slot(F) \in 0 .. Capacity - 1
    BY <1>0, SlotRange
  <2>5. ASSUME NEW q \in F + 1 .. F + Capacity - 1
        PROVE  sequences'[Slot(q)] = sequences[Slot(q)]
    <3>1. q \in Nat /\ F < q /\ q < F + Capacity
      BY <1>0
    <3>2. Slot(q) # Slot(F) /\ Slot(q) \in 0 .. Capacity - 1
      BY <1>0, <3>1, SlotsDiffer, SlotRange
    <3> QED
      BY <2>2, <2>4, <3>2 DEF TypeOK
  <2>6. sequences'[Slot(F + Capacity)] = F + Capacity
    BY <1>0, <2>2, <2>4, SlotLap DEF TypeOK
  <2>7. Counters'
    BY <1>0, <2>1, <2>2, <2>3 DEF RingInv, Counters
  <2>8. ClaimedSlots'
    <3> SUFFICES ASSUME NEW q \in F + 1 .. enqueue_pos - 1
                 PROVE  /\ sequences'[Slot(q)] \in {q, q + 1}
                        /\ sequences'[Slot(q)] = q + 1 => cells[Slot(q)] = accepted[q + 1]
      BY <2>2, <2>3 DEF ClaimedSlots
    <3>1. q \in F .. enqueue_pos - 1 /\ q \in F + 1 .. F + Capacity - 1
      BY <1>0
    <3> QED
      BY <2>5, <3>1 DEF RingInv, ClaimedSlots
  <2>9. FreeSlots'
    <3> SUFFICES ASSUME NEW q \in enqueue_pos .. F + Capacity
                 PROVE  sequences'[Slot(q)] = q
      BY <1>0, <2>2, <2>3 DEF FreeSlots
    <3>1. CASE q = F + Capacity
      BY <2>6, <3>1
    <3>2. CASE q # F + Capacity
      <4>1. q \in enqueue_pos .. F + Capacity - 1 /\ q \in F + 1 .. F + Capacity - 1
        BY <1>0, <2>1, <3>2
      <4> QED
        BY <2>5, <4>1 DEF RingInv, FreeSlots
    <3> QED
      BY <3>1, <3>2
  <2>10. Pushers'
    <3> SUFFICES ASSUME NEW r \in Producers PROVE Pushers!(r)'
      BY DEF Pushers
    <3>1. Pushers!(r) /\ pos[r] \in Nat
      BY DEF RingInv, Pushers, TypeOK
    <3>2. ASSUME Writing(r)
          PROVE  F + 1 <= pos[r] /\ sequences'[Slot(pos[r])] = sequences[Slot(pos[r])]
      <4>1. F <= pos[r] /\ pos[r] < enqueue_pos /\ pos[r] # F
        BY <1>0, <2>1, <3>1, <3>2
      <4>2. pos[r] \in F + 1 .. F + Capacity - 1
        BY <1>0, <3>1, <4>1
      <4> QED
        BY <1>0, <2>5, <4>2
    <3>3. pos[r] = enqueue_pos /\ pc[r] = "claim" => enqueue_pos < F + 1 + Capacity
      BY <1>0, <3>1
    <3> QED
      BY <2>2, <2>3, <3>1, <3>2, <3>3 DEF Writing, Current, RingInv, Pushers
  <2>11. Popper'
    BY <2>2 DEF Popper
  <2>12. DeliveredInOrder'
    BY <1>0, <2>1, <2>2, <2>3 DEF RingInv, Counters, DeliveredInOrder
  <2> QED
    BY <2>7, <2>8, <2>9, <2>10, <2>11, <2>12 DEF RingInv
<1> QED
  BY <1>1, <1>2, <1>3, <1>4, <1>5, <1>6, <1>7, <1>8 DEF Drain

(* The invariant is inductive.                                             *)
LEMMA StepIInv == IInv /\ [Next]_vars => IInv'
<1> SUFFICES ASSUME IInv, [Next]_vars PROVE IInv'
  OBVIOUS
<1>1. TypeOK'
  BY StepTypeOK
<1>2. CASE \E p \in Producers : PushBegin(p) \/ PushStep(p)
  BY <1>1, <1>2, PushRingInv DEF IInv
<1>3. CASE Drain
  BY <1>1, <1>3, DrainRingInv DEF IInv
<1>4. CASE UNCHANGED <<ring, producer, consumer, accepted, delivered>>
  <2>1. UNCHANGED <<enqueue_pos, dequeue_pos, sequences, cells, pc, pos, published, cpc,
                    cpos, peeked, taken, accepted, delivered>>
    BY <1>4 DEF ring, producer, consumer
  <2> QED
    BY <1>1, <2>1 DEF IInv, RingInv, Counters, ClaimedSlots, FreeSlots, Pushers, Popper,
       DeliveredInOrder, Writing, Current
<1>5. CASE RequestShutdown \/ ShutdownNotify
  BY <1>4, <1>5 DEF RequestShutdown, ShutdownNotify
<1>6. CASE UNCHANGED vars
  BY <1>4, <1>6 DEF vars
<1> QED
  BY <1>2, <1>3, <1>5, <1>6 DEF Next

(* Type correctness and the ring invariant hold in every reachable state.  *)
THEOREM RingCorrect == Spec => [](TypeOK /\ RingInv)
<1>1. IInv <=> TypeOK /\ RingInv
  BY DEF IInv
<1> QED
  BY <1>1, InitIInv, StepIInv, PTL DEF Spec

(* Type correctness alone.                                                 *)
THEOREM TypeCorrect == Spec => []TypeOK
  BY RingCorrect, PTL

(* Messages leave the inbox once each, unaltered, in claim order.          *)
THEOREM FifoDelivery == Spec => []DeliveredInOrder
<1>1. RingInv => DeliveredInOrder
  BY DEF RingInv
<1> QED
  BY <1>1, RingCorrect, PTL

(* No slot is ever used by two threads at once, and the bytes the consumer *)
(* copies belong to the lengths it read before its claim.                  *)
THEOREM SlotExclusion == Spec => []SlotsHaveOneUser
<1>1. TypeOK /\ RingInv => SlotsHaveOneUser
  <2> SUFFICES ASSUME TypeOK, RingInv PROVE SlotsHaveOneUser
    OBVIOUS
  <2> DEFINE F == Len(delivered)
  <2>0. F \in Nat /\ enqueue_pos \in Nat /\ enqueue_pos <= F + Capacity
    BY DEF TypeOK, RingInv, Counters
  <2>1. ASSUME NEW p \in Producers, Writing(p)
        PROVE  pos[p] \in F .. F + Capacity - 1 /\ sequences[Slot(pos[p])] = pos[p]
    BY <2>0, <2>1 DEF RingInv, Pushers, TypeOK
  <2>2. ASSUME NEW p \in Producers, NEW q \in Producers, p # q, Writing(p), Writing(q)
        PROVE  Slot(pos[p]) # Slot(pos[q])
    <3>1. pos[p] # pos[q]
      BY <2>2 DEF RingInv, Pushers
    <3>2. pos[p] \in F .. F + Capacity - 1 /\ pos[q] \in F .. F + Capacity - 1
      BY <2>1, <2>2
    <3> QED
      BY <2>0, <3>1, <3>2, LapInjective
  <2>3. ASSUME NEW p \in Producers, Writing(p), cpc \in {"claim", "copy", "store"}
        PROVE  Slot(pos[p]) # Slot(cpos)
    <3>1. cpos = F /\ sequences[Slot(cpos)] = cpos + 1
      BY <2>3 DEF RingInv, Popper
    <3>2. pos[p] \in F .. F + Capacity - 1 /\ sequences[Slot(pos[p])] = pos[p]
      BY <2>1, <2>3
    <3>3. cpos \in F .. F + Capacity - 1
      BY <2>0, <3>1
    <3> SUFFICES ASSUME Slot(pos[p]) = Slot(cpos) PROVE FALSE
      OBVIOUS
    <3>4. pos[p] = cpos
      BY <2>0, <3>2, <3>3, LapInjective
    <3> QED
      BY <2>0, <3>1, <3>2, <3>4
  <2>4. cpc = "store" => taken = peeked
    BY DEF RingInv, Popper
  <2> QED
    BY <2>2, <2>3, <2>4 DEF SlotsHaveOneUser
<1> QED
  BY <1>1, RingCorrect, PTL

(* A position whose slot still belongs to an earlier lap lies a full ring  *)
(* above the finished messages.                                            *)
LEMMA BehindMeansFull ==
  ASSUME TypeOK, RingInv, NEW p \in Producers, Difference(p) < 0
  PROVE  Len(accepted) = Len(delivered) + Capacity
<1> DEFINE F == Len(delivered)
           a == pos[p]
<1>0. /\ F \in Nat /\ enqueue_pos \in Nat /\ enqueue_pos <= F + Capacity
      /\ Len(accepted) = enqueue_pos /\ a \in Nat /\ a <= enqueue_pos
  BY DEF TypeOK, RingInv, Counters, Pushers
<1> HIDE DEF a
<1> SUFFICES ASSUME enqueue_pos < F + Capacity PROVE FALSE
  BY <1>0
<1>1. Slot(a) \in 0 .. Capacity - 1
  BY <1>0, SlotRange
<1>2. PICK q \in F .. F + Capacity - 1 : Slot(q) = Slot(a)
  BY <1>0, <1>1, WindowCovers
<1>3. q \in Nat /\ q >= F /\ q < F + Capacity
  BY <1>0, <1>2
<1>4. a <= q
  BY <1>0, <1>2, <1>3, SlotBehind
<1>5. sequences[Slot(q)] \in {q, q + 1}
  <2>1. CASE q < enqueue_pos
    <3>1. q \in F .. enqueue_pos - 1
      BY <1>0, <1>3, <2>1
    <3> QED
      BY <3>1 DEF RingInv, ClaimedSlots
  <2>2. CASE q >= enqueue_pos
    <3>1. q \in enqueue_pos .. F + Capacity - 1
      BY <1>0, <1>3, <2>2
    <3> QED
      BY <3>1 DEF RingInv, FreeSlots
  <2> QED
    BY <1>0, <1>3, <2>1, <2>2
<1>6. sequences[Slot(a)] - a < 0
  BY DEF Difference, a
<1> QED
  BY <1>0, <1>2, <1>3, <1>4, <1>5, <1>6

(* A push is refused only while Capacity messages occupy their slots.      *)
THEOREM FullIsFull == Spec => FullOnlyWhenFull
<1> DEFINE Refused == \A p \in Producers :
             pc[p] = "load" /\ pc'[p] = "idle" => Len(accepted) = Len(delivered) + Capacity
<1>1. TypeOK /\ RingInv /\ [Next]_vars => [Refused]_vars
  <2> SUFFICES ASSUME TypeOK, RingInv, Next, NEW p \in Producers,
                      pc[p] = "load", pc'[p] = "idle"
               PROVE  Len(accepted) = Len(delivered) + Capacity
    OBVIOUS
  <2>1. PushFull(p)
    <3>1. \A q \in Producers : PushBegin(q) \/ PushStep(q) => PushFull(p)
      BY DEF PushBegin, PushStep, PushSlotFree, PushFull, PushStale, PushClaim,
         PushClaimFails, PushCopy, PushStore, PushNotify, TypeOK
    <3>2. ~(RequestShutdown \/ ShutdownNotify \/ Drain)
      BY DEF RequestShutdown, ShutdownNotify, Drain, Wakeup, PopBegin, PopSlotFull,
         PopEmpty, PopClaim, PopClaimFails, PopCopy, PopStore, producer
    <3> QED
      BY <3>1, <3>2 DEF Next
  <2> QED
    BY <2>1, BehindMeansFull DEF PushFull
<1> QED
  BY <1>1, RingCorrect, PTL DEF Spec, FullOnlyWhenFull

(* The ring implements the bounded FIFO channel.                           *)
THEOREM RingImplementsFifo == Spec => FifoSpec
<1>1. Init => Fifo!Init
  BY DEF Init, Fifo!Init
<1>2. TypeOK /\ RingInv /\ [Next]_vars => [Fifo!Next]_(Fifo!fifoVars)
  <2> SUFFICES ASSUME TypeOK, RingInv, [Next]_vars
               PROVE  Fifo!Next \/ UNCHANGED <<accepted, delivered>>
    BY DEF Fifo!fifoVars
  <2>1. ASSUME NEW p \in Producers, PushClaim(p) PROVE Fifo!Accept(Current(p))
    <3>1. Len(accepted) < Len(delivered) + Capacity
      BY <2>1 DEF PushClaim, RingInv, Counters, Pushers
    <3> QED
      BY <2>1, <3>1 DEF PushClaim, Fifo!Accept
  <2>2. ASSUME NEW p \in Producers, PushClaim(p) PROVE Current(p) \in Message
    BY <2>2 DEF PushClaim, RingInv, Pushers, Current, Message, TypeOK
  <2>3. ASSUME PopStore PROVE Fifo!Deliver
    <3>1. taken = accepted[Len(delivered) + 1] /\ Len(delivered) < Len(accepted)
      BY <2>3 DEF PopStore, RingInv, Counters, Popper
    <3> QED
      BY <2>3, <3>1 DEF PopStore, Fifo!Deliver
  <2>4. ASSUME NEW p \in Producers, PushBegin(p) \/ PushStep(p)
        PROVE  PushClaim(p) \/ UNCHANGED <<accepted, delivered>>
    BY <2>4 DEF PushBegin, PushStep, PushSlotFree, PushFull, PushStale, PushClaimFails,
       PushCopy, PushStore, PushNotify
  <2>5. ASSUME Drain PROVE PopStore \/ UNCHANGED <<accepted, delivered>>
    BY <2>5 DEF Drain, Wakeup, PopBegin, PopSlotFull, PopEmpty, PopClaim, PopClaimFails,
       PopCopy
  <2>6. ASSUME RequestShutdown \/ ShutdownNotify PROVE UNCHANGED <<accepted, delivered>>
    BY <2>6 DEF RequestShutdown, ShutdownNotify
  <2>7. ASSUME UNCHANGED vars PROVE UNCHANGED <<accepted, delivered>>
    BY <2>7 DEF vars
  <2> QED
    BY <2>1, <2>2, <2>3, <2>4, <2>5, <2>6, <2>7 DEF Next, Fifo!Next
<1> QED
  BY <1>1, <1>2, RingCorrect, PTL DEF Spec, FifoSpec, Fifo!Spec
=============================================================================
