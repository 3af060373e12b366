------------------------------ MODULE Delivery ------------------------------
(***************************************************************************)
(* One queue of one service, close up: the broker's queue with its retry   *)
(* queue and dead-letter queue, the publishers of other services, the      *)
(* service's consumer with its workers, its starts and stops, and the      *)
(* script that empties the dead-letter queue.  The three services share    *)
(* this code.  Transport abstracts it to a set of waiting messages;        *)
(* AtLeastOnce says what that abstraction relies on.                       *)
(*                                                                         *)
(* The broker keeps copies of messages.  A copy given to a worker stays    *)
(* with the broker, unacknowledged, until the worker settles it or the     *)
(* channel closes; then it is ready again, and the worker holds a delivery *)
(* that is no longer live: to settle it has no effect.  A delivery that    *)
(* waits in a channel (prefetch, work) is as good as ready or as good as   *)
(* held by a worker that has not begun, so neither buffer is modelled.     *)
(*                                                                         *)
(* MaxFaults bounds the faults of a behaviour: lost confirms, dropped      *)
(* channels, panics, crashes, shutdowns, failures of the script.           *)
(***************************************************************************)
EXTENDS Integers, FiniteSets

CONSTANTS Msgs,             \* messages published to the queue
          Malformed,        \* those whose body no handler can parse
          Copies,           \* room for copies at the broker (a bound)
          Workers,          \* workers of the consumer (16 in the code)
          MaxRetries,       \* RETRY_MAX_ATTEMPTS
          PublishAttempts,  \* attempts of Publish (3)
          Topic,            \* TRUE for order.events, bound to every routing key
          MaxFaults         \* bound on the faults of a behaviour

ASSUME DeliveryAssumption ==
  /\ Malformed \subseteq Msgs
  /\ MaxRetries \in Nat
  /\ PublishAttempts \in Nat
  /\ Topic \in BOOLEAN
  /\ MaxFaults \in Nat

VARIABLES bound,      \* Setup has run: the queues exist and are bound
          copy,       \* the copies the broker has
          attempts,   \* attempts of Publish that failed, per message
          confirmed,  \* messages whose Publish returned nil
          consumer,   \* "down", "open", "closed" (channel lost) or "stopped"
          cancelled,  \* stopConsumers has cancelled the consumer's context
          worker,     \* the delivery each worker holds
          accepted,   \* history: messages the broker took into the queue
          handled,    \* history: messages a handler has completed
          failures,   \* history: runs of a handler that failed, capped
          panicked,   \* history: messages whose handler has panicked
          redriven,   \* history: messages the script took out
          faults

histories == <<accepted, handled, failures, panicked, redriven>>
process   == <<consumer, cancelled>>
publisher == <<attempts, confirmed>>
vars      == <<bound, copy, worker, process, publisher, histories, faults>>

(* What is delivered: the message, its x-retry-count, and whether it still  *)
(* carries its own routing key or that of the dead-letter queue.            *)
Body(m, r, key) == [msg |-> m, retries |-> r, key |-> key]
Bodies == [msg : Msgs, retries : 0 .. MaxRetries, key : {"own", "dlq"}]

Stored(at, d) == [at |-> at, d |-> d]
NoCopy        == [at |-> "none"]
Places        == {"ready", "unacked", "delay", "dlq", "script"}

Held(pc, c, d, live) == [pc |-> pc, c |-> c, d |-> d, live |-> live]
Idle == [pc |-> "idle"]
Pcs  == {"work", "retry", "dead", "ack", "requeue", "reject"}

(* The broker and the workers keep deliveries within the retry budget. *)
DeliveryTypeOK ==
  /\ bound \in BOOLEAN
  /\ copy \in [Copies -> [at : Places, d : Bodies] \cup {NoCopy}]
  /\ attempts \in [Msgs -> 0 .. PublishAttempts]
  /\ confirmed \subseteq Msgs
  /\ consumer \in {"down", "open", "closed", "stopped"}
  /\ cancelled \in BOOLEAN
  /\ worker \in [Workers -> [pc : Pcs, c : Copies, d : Bodies, live : BOOLEAN] \cup {Idle}]
  /\ accepted \subseteq Msgs
  /\ handled \subseteq Msgs
  /\ failures \in [Msgs -> 0 .. MaxRetries + 1]
  /\ panicked \subseteq Msgs
  /\ redriven \subseteq Msgs
  /\ faults \in 0 .. MaxFaults

DeliveryInit ==
  /\ bound = FALSE
  /\ copy = [c \in Copies |-> NoCopy]
  /\ attempts = [m \in Msgs |-> 0]
  /\ confirmed = {}
  /\ consumer = "down"
  /\ cancelled = FALSE
  /\ worker = [w \in Workers |-> Idle]
  /\ accepted = {}
  /\ handled = {}
  /\ failures = [m \in Msgs |-> 0]
  /\ panicked = {}
  /\ redriven = {}
  /\ faults = 0

Fault   == faults < MaxFaults /\ faults' = faults + 1
NoFault == UNCHANGED faults

-----------------------------------------------------------------------------
(* The broker. *)

(* Room for copies is bounded: whatever adds a copy for good leaves every   *)
(* worker the room to republish the delivery it is going to acknowledge.    *)
Spare == Cardinality({c \in Copies : copy[c] = NoCopy}) > Cardinality(Workers)

(* A new copy goes into a queue. *)
Put(n, stored) == copy[n] = NoCopy /\ copy' = [copy EXCEPT ![n] = stored]

(* The retry queue holds a copy for RetryTTLMillis, then dead-letters it    *)
(* back to the exchange under its own routing key.                          *)
Expire(c) ==
  /\ copy[c].at = "delay"
  /\ copy' = [copy EXCEPT ![c].at = "ready"]
  /\ UNCHANGED <<bound, worker, process, publisher, histories, faults>>

(* When a channel closes, what it has not acknowledged is ready again. *)
Requeued == [c \in Copies |-> IF copy[c].at = "unacked" THEN Stored("ready", copy[c].d) ELSE copy[c]]

-----------------------------------------------------------------------------
(* Publisher.Publish in another service.  The broker confirms a message     *)
(* that it cannot route (mandatory = false), and drops it.                  *)

MayPublish(m) == m \notin confirmed /\ attempts[m] < PublishAttempts

Routed(n, m) ==
  /\ bound /\ Spare
  /\ Put(n, Stored("ready", Body(m, 0, "own")))
  /\ accepted' = accepted \cup {m}

Dropped == ~ bound /\ UNCHANGED <<copy, accepted>>

PublishConfirmed(m, n) ==
  /\ MayPublish(m)
  /\ confirmed' = confirmed \cup {m}
  /\ Routed(n, m) \/ Dropped
  /\ UNCHANGED <<bound, worker, process, attempts, handled, failures, panicked, redriven, faults>>

(* An attempt fails, or succeeds and is not confirmed in time. *)
PublishUnconfirmed(m, n) ==
  /\ MayPublish(m)
  /\ Fault
  /\ attempts' = [attempts EXCEPT ![m] = @ + 1]
  /\ Routed(n, m) \/ UNCHANGED <<copy, accepted>>
  /\ UNCHANGED <<bound, worker, process, confirmed, handled, failures, panicked, redriven>>

-----------------------------------------------------------------------------
(* The service: start, channel, shutdown. *)

(* Setup declares and binds the queues, StartConsumer opens a channel. *)
Start ==
  /\ consumer = "down"
  /\ bound' = TRUE
  /\ consumer' = "open"
  /\ UNCHANGED <<copy, worker, cancelled, publisher, histories, faults>>

(* Deliveries held when their channel closes are delivered again. *)
Unlive == [w \in Workers |-> IF worker[w] = Idle THEN Idle ELSE [worker[w] EXCEPT !.live = FALSE]]

ChannelCloses == copy' = Requeued /\ worker' = Unlive

DropChannel ==
  /\ consumer = "open"
  /\ Fault
  /\ consumer' = "closed"
  /\ ChannelCloses
  /\ UNCHANGED <<bound, cancelled, publisher, histories>>

Reconnect ==
  /\ consumer = "closed"
  /\ consumer' = "open"
  /\ UNCHANGED <<bound, copy, worker, cancelled, publisher, histories, faults>>

(* SIGTERM: main cancels the context and does not wait for the workers. *)
Stop ==
  /\ consumer \in {"open", "closed"}
  /\ ~ cancelled
  /\ Fault
  /\ cancelled' = TRUE
  /\ UNCHANGED <<bound, copy, worker, consumer, publisher, histories>>

(* The distributor notices; the workers go on with what they hold. *)
CloseChannel ==
  /\ cancelled
  /\ consumer = "open"
  /\ consumer' = "stopped"
  /\ ChannelCloses
  /\ UNCHANGED <<bound, cancelled, publisher, histories, faults>>

ProcessEnds ==
  /\ consumer' = "down"
  /\ cancelled' = FALSE
  /\ copy' = Requeued
  /\ worker' = [w \in Workers |-> Idle]
  /\ UNCHANGED <<bound, publisher, histories>>

(* main returns, before or after the distributor has noticed. *)
Exit == cancelled /\ ProcessEnds /\ NoFault

(* A crash, or the panic after five failed attempts to reconnect. *)
Crash == consumer # "down" /\ ProcessEnds /\ Fault

-----------------------------------------------------------------------------
(* dispatchMsg, one worker. *)

At(w, pc)    == worker[w].pc = pc
Set(w, h)    == worker' = [worker EXCEPT ![w] = h]
Goto(w, pc)  == worker' = [worker EXCEPT ![w].pc = pc]
Message(w)   == worker[w].d.msg

Deliver(w, c) ==
  /\ consumer = "open"
  /\ worker[w] = Idle
  /\ copy[c].at = "ready"
  /\ copy' = [copy EXCEPT ![c].at = "unacked"]
  /\ Set(w, Held("work", c, copy[c].d, TRUE))
  /\ UNCHANGED <<bound, process, publisher, histories, faults>>

(* A settled delivery leaves the worker; the broker moves the copy to what  *)
(* the settlement asks for, unless the channel it came on is gone.          *)
Settle(w, next) ==
  /\ Set(w, Idle)
  /\ copy' = IF worker[w].live THEN [copy EXCEPT ![worker[w].c] = next] ELSE copy
  /\ UNCHANGED <<bound, process, publisher, histories, faults>>

(* Under an unknown routing key a handler logs and returns nil, before it   *)
(* would parse the body.                                                    *)
HandlerReturns(w) ==
  /\ At(w, "work")
  /\ Message(w) \notin Malformed \/ worker[w].d.key # "own"
  /\ Goto(w, "ack")
  /\ handled' = IF worker[w].d.key = "own" THEN handled \cup {Message(w)} ELSE handled
  /\ UNCHANGED <<bound, copy, process, publisher, accepted, failures, panicked, redriven, faults>>

(* amqpretry.Decide.                                                        *)
(* Mutants: the budget is one retry short; one retry long.                  *)
Decide_Short(permanent, r) == IF permanent \/ r + 1 >= MaxRetries THEN "dead" ELSE "retry"
Decide_Long(permanent, r)  == IF permanent \/ r > MaxRetries THEN "dead" ELSE "retry"

Decide(permanent, r) == IF permanent \/ r >= MaxRetries THEN "dead" ELSE "retry"

HandlerFails(w) ==
  /\ At(w, "work")
  /\ worker[w].d.key = "own"
  /\ Goto(w, Decide(Message(w) \in Malformed, worker[w].d.retries))
  /\ failures' = [failures EXCEPT ![Message(w)] = IF @ <= MaxRetries THEN @ + 1 ELSE @]
  /\ UNCHANGED <<bound, copy, process, publisher, accepted, handled, panicked, redriven, faults>>

HandlerPanics(w) ==
  /\ At(w, "work")
  /\ Fault
  /\ Goto(w, "reject")
  /\ panicked' = panicked \cup {Message(w)}
  /\ UNCHANGED <<bound, copy, process, publisher, accepted, handled, failures, redriven>>

(* The copy that PublishRaw makes of a failed delivery.                     *)
(* Mutant: x-retry-count is not incremented.                                *)
Republished_SameCount(w) ==
  LET d == worker[w].d
  IN  IF At(w, "retry") THEN Stored("delay", d) ELSE Stored("dlq", [d EXCEPT !.key = "dlq"])

Republished(w) ==
  LET d == worker[w].d
  IN  IF At(w, "retry") THEN Stored("delay", Body(d.msg, d.retries + 1, "own"))
                        ELSE Stored("dlq", Body(d.msg, d.retries, "dlq"))

(* Mutant: the original is requeued as well. *)
Republish_Requeues(w, n) ==
  /\ worker[w].pc \in {"retry", "dead"}
  /\ worker[w].live \/ Spare
  /\ Put(n, Republished(w))
  /\ Goto(w, "requeue")
  /\ UNCHANGED <<bound, process, publisher, histories, faults>>

Republish(w, n) ==
  /\ worker[w].pc \in {"retry", "dead"}
  /\ worker[w].live \/ Spare
  /\ Put(n, Republished(w))
  /\ Goto(w, "ack")
  /\ UNCHANGED <<bound, process, publisher, histories, faults>>

(* PublishRaw returns an error, whether or not it took effect: on a fault,  *)
(* or because the context is cancelled while it waits for the confirm.      *)
(* Mutant: the error is ignored.                                            *)
RepublishFails_Ignored(w, n) ==
  /\ worker[w].pc \in {"retry", "dead"}
  /\ Fault \/ (cancelled /\ NoFault)
  /\ Goto(w, "ack")
  /\ UNCHANGED copy \/ (Spare /\ Put(n, Republished(w)))
  /\ UNCHANGED <<bound, process, publisher, histories>>

RepublishFails(w, n) ==
  /\ worker[w].pc \in {"retry", "dead"}
  /\ Fault \/ (cancelled /\ NoFault)
  /\ Goto(w, IF At(w, "retry") THEN "requeue" ELSE "reject")
  /\ \/ UNCHANGED copy
     \/ Spare /\ Put(n, Republished(w))
  /\ UNCHANGED <<bound, process, publisher, histories>>

Ack(w)         == At(w, "ack") /\ Settle(w, NoCopy)
NackRequeue(w) == At(w, "requeue") /\ Settle(w, Stored("ready", worker[w].d))

(* Nack(false, false): the queue's dead-letter exchange routes it. *)
(* Mutant: the queue is declared without one.                      *)
Reject_NoExchange(w) == At(w, "reject") /\ Settle(w, NoCopy)

Reject(w) == At(w, "reject") /\ Settle(w, Stored("dlq", [worker[w].d EXCEPT !.key = "dlq"]))

-----------------------------------------------------------------------------
(* scripts/redrive-dlq.sh: gets a batch, acknowledged as it is read, then   *)
(* publishes message by message under the routing key that the message has  *)
(* in the dead-letter queue, without x-retry-count.                         *)
InScript == {c \in Copies : copy[c].at = "script"}
InDlq    == {c \in Copies : copy[c].at = "dlq"}

GetBatch ==
  /\ InScript = {} /\ InDlq # {}
  /\ copy' = [c \in Copies |-> IF c \in InDlq THEN Stored("script", copy[c].d) ELSE copy[c]]
  /\ redriven' = redriven \cup {copy[c].d.msg : c \in InDlq}
  /\ UNCHANGED <<bound, worker, process, publisher, accepted, handled, failures, panicked, faults>>

Redrive(c) ==
  /\ c \in InScript
  /\ copy' = [copy EXCEPT ![c] = IF Topic THEN Stored("ready", Body(@.d.msg, 0, @.d.key)) ELSE NoCopy]
  /\ UNCHANGED <<bound, worker, process, publisher, histories, faults>>

ScriptFails ==
  /\ InScript # {}
  /\ Fault
  /\ copy' = [c \in Copies |-> IF c \in InScript THEN NoCopy ELSE copy[c]]
  /\ UNCHANGED <<bound, worker, process, publisher, histories>>

-----------------------------------------------------------------------------
Lifecycle == Start \/ DropChannel \/ Reconnect \/ Stop \/ CloseChannel \/ Exit \/ Crash

Finish(w) == Ack(w) \/ NackRequeue(w) \/ Reject(w)

Dispatch(w) ==
  \/ HandlerReturns(w) \/ HandlerFails(w) \/ HandlerPanics(w) \/ Finish(w)
  \/ \E c \in Copies : Deliver(w, c) \/ Republish(w, c) \/ RepublishFails(w, c)

Script == GetBatch \/ ScriptFails \/ \E c \in Copies : Redrive(c)

Publishes == \E m \in Msgs, n \in Copies : PublishConfirmed(m, n) \/ PublishUnconfirmed(m, n)

DeliveryNext ==
  \/ Lifecycle \/ Publishes \/ Script
  \/ \E c \in Copies : Expire(c)
  \/ \E w \in Workers : Dispatch(w)

DeliverySpec == DeliveryInit /\ [][DeliveryNext]_vars

(* The platform restarts the service (an ECS service of one task), its      *)
(* goroutines run, the broker delivers what is ready and expires what is    *)
(* delayed.  Nothing is assumed of publishers, operators or faults, nor     *)
(* that a handler succeeds.                                                 *)
DeliveryFairness ==
  /\ WF_vars(Start) /\ WF_vars(Reconnect) /\ WF_vars(CloseChannel) /\ WF_vars(Exit)
  /\ \A c \in Copies : WF_vars(Expire(c)) /\ SF_vars(\E w \in Workers : Deliver(w, c))
  /\ \A w \in Workers :
       WF_vars(HandlerReturns(w) \/ HandlerFails(w) \/ Finish(w) \/ \E c \in Copies : Republish(w, c))

FairDelivery == DeliverySpec /\ DeliveryFairness

-----------------------------------------------------------------------------
(* Properties *)

(* A copy that a live Ack in progress is about to remove does not count. *)
Doomed(c) == \E w \in Workers : worker[w] # Idle /\ worker[w].live /\ worker[w].c = c /\ At(w, "ack")
Kept(c)   == copy[c].at \in Places \ {"script"} /\ ~ Doomed(c)

(* Once the broker has taken a message into the queue, it has a copy of it  *)
(* until a handler has completed, whatever fails in between, unless the     *)
(* script has taken it out.                                                 *)
NothingLost ==
  \A m \in accepted \ redriven :
    m \in handled \/ \E c \in Copies : Kept(c) /\ copy[c].d.msg = m

(* A message is in the dead-letter queue for a reason: it cannot be parsed, *)
(* its handler panicked, or it failed MaxRetries + 1 times.  Copies with    *)
(* different counts, requeues and redeliveries never use up the budget.     *)
BurialIsEarned ==
  \A c \in Copies :
    copy[c].at = "dlq" =>
      LET m == copy[c].d.msg
      IN  m \in Malformed \/ m \in panicked \/ failures[m] > MaxRetries \/ m \in redriven

(* Without a fault, no two workers are in a handler of the same message.    *)
ExclusiveHandling ==
  faults = 0 =>
    \A v, w \in Workers :
      At(v, "work") /\ At(w, "work") /\ Message(v) = Message(w) => v = w

(* Delivery implements AtLeastOnce. *)
MessagesAt(places) == {copy[c].d.msg : c \in {k \in Copies : copy[k].at \in places}}

Promise == INSTANCE AtLeastOnce
             WITH pending <- MessagesAt({"ready", "unacked", "delay"}),
                  buried  <- MessagesAt({"dlq"}),
                  removed <- redriven

ImplementsPromise == Promise!PromiseSpec

(* Every message in the queue is eventually handled, or in the dead-letter  *)
(* queue for someone to see: no interleaving of retries, redeliveries,      *)
(* reconnections and restarts keeps it going round for ever.                *)
Accounted(m) ==
  m \in handled \cup redriven \/ \E c \in Copies : copy[c].at = "dlq" /\ copy[c].d.msg = m

EveryMessageSettles == \A m \in Msgs : m \in accepted ~> Accounted(m)
=============================================================================
