----------------------------- MODULE BoundedFifo -----------------------------
(***************************************************************************)
(* What a cluster inbox promises to the threads that use it: a bounded     *)
(* first-in first-out channel.  A message is accepted in one atomic step,  *)
(* only while fewer than Capacity accepted messages are undelivered, and   *)
(* messages are delivered once each, in the order they were accepted.      *)
(***************************************************************************)
EXTENDS Naturals, Sequences

CONSTANTS Capacity, Message

VARIABLES
  accepted,   \* every message accepted so far, in acceptance order
  delivered   \* every message delivered so far, in delivery order

fifoVars == <<accepted, delivered>>

Init ==
  /\ accepted = <<>>
  /\ delivered = <<>>

Accept(m) ==
  /\ Len(accepted) < Len(delivered) + Capacity
  /\ accepted' = Append(accepted, m)
  /\ UNCHANGED delivered

Deliver ==
  /\ Len(delivered) < Len(accepted)
  /\ delivered' = Append(delivered, accepted[Len(delivered) + 1])
  /\ UNCHANGED accepted

Next == Deliver \/ \E m \in Message : Accept(m)

Spec == Init /\ [][Next]_fifoVars
=============================================================================
