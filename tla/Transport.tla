----------------------------- MODULE Transport -----------------------------
(***************************************************************************)
(* RabbitMQ as the three services use it: durable queues, manual           *)
(* acknowledgement, at-least-once delivery.  The queues inventory.commands,*)
(* payment.commands and order.events (each with its retry queue, which     *)
(* feeds the same consumers after a delay) are one set of waiting messages;*)
(* the kind of a message says which service consumes it.                   *)
(*                                                                         *)
(* The set does not count copies: a second copy of a waiting message is    *)
(* indistinguishable from one put there after the first was taken, and     *)
(* every action that puts a copy may happen at that moment as well.  It    *)
(* does not order messages either: sixteen workers per queue, the retry    *)
(* delay and redelivery reorder them.                                      *)
(*                                                                         *)
(* MaxFaults bounds the faults of one behaviour: handler errors, lost or   *)
(* timed-out publishes, dropped channels and crashes.                      *)
(***************************************************************************)
EXTENDS Integers

CONSTANTS Orders,    \* the orders customers may place
          CmdIds,    \* message ids of ProcessPaymentCmd
          EventIds,  \* message ids of events
          MaxFaults  \* bound on the faults of a behaviour

ASSUME FaultBound == MaxFaults \in Nat

VARIABLES queue,   \* messages with a copy waiting for a consumer
          faults   \* faults so far

netVars == <<queue, faults>>

InventoryCmds == [kind : {"Reserve", "Release"}, order : Orders]
PaymentCmds   == [kind : {"Pay"}, order : Orders, id : CmdIds]
Events        == [kind : {"Reserved", "Released", "Paid"},
                  order : Orders, ok : BOOLEAN, id : EventIds]

Messages == InventoryCmds \cup PaymentCmds \cup Events

ReserveCmd(o)        == [kind |-> "Reserve", order |-> o]
ReleaseCmd(o)        == [kind |-> "Release", order |-> o]
PayCmd(o, id)        == [kind |-> "Pay", order |-> o, id |-> id]
Event(k, o, ok, id)  == [kind |-> k, order |-> o, ok |-> ok, id |-> id]

(* The column event_id of a processed_events table.  Ids are UUIDs; one    *)
(* that is unique among the messages of a kind for an order does as well.  *)
Key(m) == <<m.kind, m.order, m.id>>

(* Only messages the services publish are queued; faults keep their bound. *)
TransportTypeOK ==
  /\ queue \subseteq Messages
  /\ faults \in 0 .. MaxFaults

TransportInit == queue = {} /\ faults = 0

-----------------------------------------------------------------------------
(* Publisher.Publish, confirmed by the broker. *)
Publish(m) == queue' = queue \cup {m}

(* A delivery: the message is unacknowledged, held by one worker, until an  *)
(* Ack removes it (nothing more happens to queue) or it returns.            *)
Take(m) == m \in queue /\ queue' = queue \ {m}

(* The message comes back: the handler failed and dispatchMsg republished   *)
(* it to <queue>.retry, or the process died before the Ack.                 *)
Return(m) == queue' = queue \cup {m}

Fault    == faults < MaxFaults /\ faults' = faults + 1
NoFault  == UNCHANGED faults

(* What can befall a delivery m whose handler has not completed:            *)
(*  Requeued:    error or crash, the message will be delivered again;       *)
(*  Parked:      retries exhausted, it is in the dead-letter queue; or its  *)
(*               publish was confirmed but unroutable (mandatory = false);  *)
(*  Redelivered: the channel dropped, the broker hands m out again while    *)
(*               the worker, unaware, carries on.                           *)
Requeued(m)    == Fault /\ Return(m)
Parked         == Fault /\ UNCHANGED queue
Redelivered(m) == Fault /\ Return(m)
=============================================================================
