------------------------------ MODULE Delivery ------------------------------
(***************************************************************************)
(* What the error reporter promises of the reports it accepts: they reach  *)
(* the chat in the order they were accepted in, each at most once, no more *)
(* than Capacity of them are kept, and each is settled sooner or later:    *)
(* delivered, or given up.                                                 *)
(***************************************************************************)
EXTENDS Naturals, Sequences

CONSTANTS Reports, Capacity

VARIABLES
  pending,   \* reports accepted and not settled, oldest first
  received   \* what the chat shows

dvars == <<pending, received>>

Listed(seq) == {seq[i] : i \in DOMAIN seq}

DeliveryInit == pending = <<>> /\ received = <<>>

Accept(r) ==
  /\ r \notin Listed(pending) \cup Listed(received)
  /\ Len(pending) < Capacity
  /\ pending' = Append(pending, r)
  /\ UNCHANGED received

Deliver ==
  /\ pending # <<>>
  /\ received' = Append(received, Head(pending))
  /\ pending' = Tail(pending)

GiveUp ==
  /\ pending # <<>>
  /\ pending' = Tail(pending)
  /\ UNCHANGED received

(* A reporter that is closed late gives up what it still holds.            *)
GiveUpAll ==
  /\ pending # <<>>
  /\ pending' = <<>>
  /\ UNCHANGED received

DeliveryNext ==
  \/ \E r \in Reports : Accept(r)
  \/ Deliver \/ GiveUp \/ GiveUpAll

DeliverySafe == DeliveryInit /\ [][DeliveryNext]_dvars

DeliverySpec == DeliverySafe /\ WF_dvars(Deliver \/ GiveUp \/ GiveUpAll)
=============================================================================
