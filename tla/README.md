# Formal verification of the distributed order saga

TLA+ models of order-service, inventory-service and payment-service, checked
with TLC and proved about with TLAPS. Every definition is translated from the Go
source; `PROJECT.json` ("map") names the lines each one stands for.

## 1. The system

A customer's `POST /orders` starts a saga: reserve stock, take the payment and,
if the payment is refused, release the stock. The three services have a MySQL
database each and share nothing but RabbitMQ. Every queue is consumed by 16
worker goroutines with manual acknowledgement, and every publish waits for a
broker confirm.

```
POST /orders -> order-service --ReserveInventoryCmd--> inventory-service
                     |  ^------InventoryReservedEvent-----'   |  ^
                     |                                        |  |
                     +--ProcessPaymentCmd--> payment-service  |  |
                     |  ^--PaymentProcessedEvent--'           |  |
                     +--ReleaseInventoryCmd (refused payment)-'  |
                        <---InventoryReleasedEvent---------------'
     recovery loop: every 30 s re-sends the command of each live saga's step
```

### Inventory of components

| Component | State | Operations | What is hard about it | What makes it correct |
|---|---|---|---|---|
| order-service HTTP (`order_handler.go`, `order_service.go`) | `orders` | `POST /orders`: row, saga, first command | three writes, no common transaction | an accepted order ends |
| Saga orchestrator and repository (`saga_orchestrator.go`, `saga_repository.go`) | `saga_states`, `processed_events`, `orders.status` | `CommitInventoryReserved`, `CommitPaymentProcessed`, `CommitInventoryReleased`, then a publish | snapshot reads without a lock, 16 workers, duplicates with new ids, commit then publish | statuses are true of the other databases; order and saga agree; a finished saga stays |
| Recovery loop (`saga_orchestrator.go`) | the list it read | `runRecovery`, `recoverInProgress`, `recoverCompensating` | stale list, duplicates of commands in flight | every live saga is recoverable and ends |
| inventory-service commands (`inventory_command_handler.go`, repositories) | `inventories`, `inventory_logs` | reserve (optimistic lock, bounded attempts), release | check-then-act on the log, stale version, error published as verdict | no unit sold twice or lost; a success is backed by a log row |
| inventory-service HTTP | the same rows | create a product, correct `available_qty` | `PUT` does not advance the version | stock is conserved around corrections |
| payment-service commands (`payment_command_handler.go`, repositories) | `payments`, `processed_events` | look up, pay (random verdict), publish | check-then-act saved by unique indexes, skip without answer | one verdict per order, for good |
| payment-service HTTP | `payments` | create a `PENDING` payment | occupies the row the saga needs | never becomes a charge |
| Messaging (`consumer.go`, `publisher.go`, `topology.go`, `amqpretry.go`) | queues, retry and dead-letter queues, the workers' deliveries | publish with confirms, deliver, retry, dead-letter, settle | at least once, no order, lost confirms, a republish that fails after it took effect, redelivery while the worker goes on | what the broker took is handled or dead-lettered, and dead-lettered for a reason |
| Connection (`mq.go`) | `mq.conn` under a read-write lock | `New`, `dial`, `watch`, `Channel`, `Close` | the lock is held through five dials, a read without the lock, panics | one watcher; a redial costs no caller more than one attempt |
| Redrive script (`redrive-dlq.sh`) | the batch it took | get, publish message by message | fails half way; the key a dead letter has | - (see section 4) |
| Start-up and shutdown (`cmd/main.go`) | - | `New`, `Setup`, `StartConsumer`, seeding, SIGTERM | workers are not waited for; queues that do not exist yet | nothing is lost by a restart |
| DLQ sampler, admin endpoints, observability, configuration, deployment, tests | - | read-only, or outside the protocol | - | - |

The hazards of this code, each at its line with the properties that cover it,
are listed in `PROJECT.json`.

## 2. Modules

| Module | Models | State | Actions |
|---|---|---|---|
| `Transport` | RabbitMQ as the services use it | `queue` (messages with a copy waiting), `faults` | `Publish`, `Take`, `Return`, and what befalls a delivery: `Requeued`, `Parked`, `Redelivered` |
| `OrderService` | HTTP orders, orchestrator, saga repository, recovery loop | `order`, `saga`, `processed`, `request` (how far a POST has come), `ow` (workers), `todo` (rows listed by recovery) | `CreateOrder`, `CreateSaga`, `SendReserve`, `RequestFails`; `BeginEvent` (the snapshot reads), `Commit...` (the writes), `CommitConflict`, `PublishNext...`, `OrdFault`; `ListByStatus`, `RecoverSaga`, `SkipSaga`, `RecoveryFault` |
| `InventoryService` | command handler, repositories, HTTP administration | `catalogue`, `stock`, `reserveLogs`, `releaseLogs`, `iw`, and the history `granted` | `CheckReserve`, `ReadStock`, `ReadNothing`, `ReserveAtomic`, `LockConflict`; `CheckRelease`, `ReleaseAtomic`, `ReleaseNothing`, `ReleaseError`; `PublishVerdict`, `PublishUnconfirmed`, `InvFault`; `CreateSKU`, `UpdateAvailableQty` |
| `PaymentService` | command handler, repositories, `POST /payments` | `payment`, `paidCmds`, `pw` | `CheckProcessed`, `LookupPayment`, `CreatePayment`, `CreateConflict`, `PublishPaid...`, `PayFault`, `PostPayment` |
| `SagaSystem` | the three services over one broker; message ids; fairness | all of the above | the services' actions, one at a time |
| `SagaEffects` | the abstract saga: what happens to stock, money and the status shown | `hold`, `verdict`, `shown` per order | `Hold`, `Pay`, `Decline`, `Return`, `Show` |
| `AtLeastOnce` | what the services rely on when they hand a message to the broker | sets of messages: `accepted`, `pending`, `handled`, `buried`, `removed` | `Accept`, `Handle`, `Again`, `Forget`, `Bury`, `Remove` |
| `Delivery` | one queue close up: `publisher.go`, `topology.go`, `consumer.go`, `amqpretry.go`, the service's starts and stops, `redrive-dlq.sh` | `copy` (the copies at the broker: ready, unacked, delay, dlq, script), `worker` (the delivery each holds, and whether its channel is still there), `consumer`, `cancelled`, `bound`, `attempts`, `confirmed`, histories | `PublishConfirmed`, `PublishUnconfirmed`; `Start`, `DropChannel`, `Reconnect`, `Stop`, `CloseChannel`, `Exit`, `Crash`; `Deliver`, `HandlerReturns/Fails/Panics`, `Republish`, `RepublishFails`, `Ack`, `NackRequeue`, `Reject`; `Expire`; `GetBatch`, `Redrive`, `ScriptFails` |
| `Connection` | `mq.go` and its callers: `Publish`, `reconnectConsumer`, the sampler | `main`, `conn`, `watch` (where each watch goroutine is), `dials`, `call`, `tries`, `channel`, `reachable`, and the history `due` | `New`, `Shutdown`, `CloseLocks`, `CloseConn`, `Exit`; `Listen`, `Wake`, `WatchLocks`, `Redial`, `WatchUnlocks`; `BeginCall`, `RLock`, `ChannelOpens`, `ChannelFails`, `Completes`, `OperationFails`, `Cancelled`, `Retry`; `ConnLost`, `ChannelLost`, `BrokerGone`, `BrokerBack` |
| `MC...` | the instances TLC checks | | |
| `...Proofs` | theorems and their proofs; `SagaPoolProofs` has those about the system's pools of workers | | |
| `QuantitySums` | facts about the sum of a function over a finite set, proved | | |

The messaging code is the same in the three services, so `Delivery` and
`Connection` are modelled once. The three levels fit together like this:
`Delivery` implements `AtLeastOnce` (`ImplementsPromise`), and `Transport` is
that promise in the form the saga's modules use: a taken message is handled
(`Take`, then nothing), comes back (`Return`, `Redelivered`) or is buried
(`Parked`). What `Transport` calls a fault, `Delivery` and `Connection` show in
its parts. The step from `AtLeastOnce` to `Transport` is by reading: the saga's
actions join a message's acceptance with the writes around it.

`InventoryService` and `PaymentService` are also specifications of their own
(`InventorySpec`, `PaymentSpec`) in which any command may arrive at any time,
under any id: their properties do not depend on a well-behaved orchestrator.
Operators named `X_Mutant` (`PutBack_Unclamped`, `Paid_AnyRow`, ...) are wrong
variants of `X`; they are used only to show that a run's property notices them.

Conventions and abstractions:

- *Atomicity.* One action per statement or transaction a handler sends to its
  database, and one per publish. Between two of them any other worker may act.
  The transactions of `saga_repository.go` are two actions, because they read
  `processed_events` and `saga_states` without a lock from a snapshot (InnoDB,
  REPEATABLE READ) and write later without looking again. Only the primary key
  of `processed_events` is checked at the write (`CommitConflict`).
- *Queues are sets.* A second copy of a waiting message is indistinguishable
  from one put there after the first was taken, and every action that puts a
  copy may happen then too. So duplicates are covered without counting them. A
  worker's held message is outside the set, so a copy can be waiting meanwhile.
  The publisher's repeated attempts (same id) are `PublishUnconfirmed`,
  `Redelivered` or `Return`. The set is unordered because 16 workers, the retry
  delay and redelivery reorder messages.
- *Ids.* Commands to inventory-service carry no id the service looks at.
  Payment commands and events do, and `processed_events` remembers them.
  `NewId` draws the smallest id that neither a message nor a table carries;
  a publish whose message already waits under some id takes that id, as the
  two differ in nothing the receiver can tell apart. A pool that has run out
  blocks the publish. The services on their own (`InventorySpec`,
  `PaymentSpec`) draw ids without that restriction.
- *Faults.* At most `MaxFaults` per behaviour: a handler error or crash (the
  message returns), an exhausted retry or an unroutable publish (`Parked`: it is
  gone), a channel that drops while the worker carries on (`Redelivered`), a
  publish that took effect although its confirm is lost, a POST that stops
  halfway, a recovery pass that stops halfway, an error of `ReleaseAtomic`
  (which the code publishes as a verdict). Conflicts that the code itself
  causes (`CommitConflict`, `CreateConflict`, `ReadNothing`) are not faults and
  are unbounded.
- *Copies (`Delivery`).* A copy given to a worker stays at the broker,
  unacknowledged, until it is settled or its channel closes. Then it is ready
  again while the worker goes on with a delivery that is no longer `live`, whose
  settlement has no effect. A delivery that waits in the prefetch window or in the
  `work` channel is as good as ready (nobody runs its handler) or as good as held
  by a worker that has not begun, so neither buffer is a variable. Room for
  copies is bounded by `Copies`; `Spare` keeps back one place per worker for the
  republish of a live delivery, which its acknowledgement frees again.
- *The read-write lock (`Connection`).* It is not a variable: who holds it
  and who waits for it follows from where the goroutines are (`Reading`,
  `Writing`, `WriteAsked`). As in Go, a writer that waits keeps new readers out.
- *Calls (`Connection`).* What a caller does with its channel (Qos and Consume;
  Confirm, publish and the wait for the broker's ack) runs outside the lock
  (`"use"`) and may fail on an open connection (`OperationFails`, a fault) or
  because the connection has gone in the meantime (`Sever`). The sleep between
  two attempts, half a second at least, normally lets a watch goroutine that can
  run ask for the lock; a retry that comes earlier is possible, and counts as a
  fault (`Retry`). `due` records, per call, what has happened to it that costs
  an attempt. That an operation on a channel times out is not modelled as time:
  it may fail at any moment.
- *Data.* Amounts, transaction ids, reasons, user ids, timestamps, trace headers
  and metrics are left out. `saga_id` and `order_id` correspond one to one.
  A malformed body, an unknown routing key and a missing message id cannot be
  produced by the three services; the saga's modules leave them out, `Delivery`
  has them (`Malformed`, the key `"dlq"` of a redriven message). The verdict of a payment is
  drawn nondeterministically; `PAYMENT_FAILURE_RATE` decides it in the code.
  Quantities are naturals: the binding `min=1` and the guard of the UPDATE keep
  them far from the width of an `int`. `UpdateAvailableQty` takes naturals, as
  the request's validation does.

## 3. Runs

Each run answers a question. All end in about 90 s or less on two TLC workers.

| Run | Instance | Checks |
|---|---|---|
| `saga_races` | 1 order, **2 order workers**, one of the others, a shelf that is empty until it is **filled by hand**, no fault | `TypeOK`, `TrueEvidence` (the inductive invariant of the proofs), `PaymentFollowsReserve`, `ReleaseFollowsDecline`, `StatusIsTrue`, `FailedChargeNeedsTwoAnswers`, `ImplementsEffects` |
| `saga_faults` | 1 order, 1 worker each, **1 fault** anywhere, fairness | `OrderMatchesSaga`, `LiveSagasAreRecoverable`, `HoldMatchesStatus`, `StockAddsUp`, `FinishedStays`, `SagaEnds` |
| `saga_scarce` | **2 orders**, for 1 and 2 units, of **1 unit**; **2 inventory workers**, one of the others, no fault | `OversoldIsOverReleased` |
| `saga_late_product` | 1 order for a **product without a row**, created and refilled by hand at any time, `POST /payments`, fairness | `SagaEndsOnceStocked` |
| `inventory_races` | any commands of an order, **3 workers**, 2 lock attempts, a product created and **corrected to 0 or 1 by hand**, 1 fault | `InventoryTypeOK`, `StockConserved`, `DoubleReserveBound`, `DoubleReleaseBound`, `SuccessIsLogged`, `ReservedCoversLog` |
| `payment_races` | any commands with 2 ids, 2 orders, 2 workers, 1 fault, `POST /payments` | `PaymentTypeOK`, `VerdictsAgree`, `MarkedWithPayment`, `VerdictIsFinal` |
| `delivery_faults` | 1 message on `order.events` (bound to every key), 2 workers, 4 copies, 2 attempts of `Publish`, **1 fault**, the script, fairness | `DeliveryTypeOK`, `NothingLost`, `BurialIsEarned`, `ExclusiveHandling`, `ImplementsPromise`, `EveryMessageSettles` |
| `connection_races` | main, 3 places for `watch`, the consumer and a publisher (2 attempts each), 2 dials, **2 faults**, fairness | `ConnectionTypeOK`, `OneWatcher`, `UnlockedReadIsSafe`, `AttemptsCostLosses`, `ConnIsStable`, `CallsReturn`, `ConsumerReturns`, `CloseReturns` |
| `double_reserve`, `refused_stock`, `stale_commit`, `lost_order` | see section 4 | a sentence of the documentation, violated |

Why the bounds suffice. The races of this code are between copies of one
order's messages, so two workers and two ids per kind reach them;
`saga_races` has two event ids, one for each answer of a reserve that is refused
and then succeeds. Two orders meet only in the stock row, which `saga_scarce` makes
too small for both, and of different size, so that what one of them puts back
twice is enough for the other; in `inventory_races` three workers contend for the row with reserves and
releases, to which it makes no difference whose they are. One fault is
enough to lose, duplicate or tear any single step, and the recovery loop supplies
further copies without any fault. One lock attempt in the system runs makes a
conflict surface as a refusal at once; the retry itself is in `inventory_races`.

In `delivery_faults`, with `MaxRetries = 1` a message takes both ways out of a
failure (retry, then dead-letter); four copies are the two workers' live
deliveries with a republish each. More faults would leave more copies than there
is room for, and a full room stops what the broker's memory does not; that the
safety properties hold for any number of faults, messages and malformed bodies
is proved. Three places for watch goroutines are one more than ever run at
once (`OneWatcher`: the one that watches and its predecessor at its deferred `Unlock`).
Callers have as many attempts as there are faults, so the consumer's panic and a
publish that gives up are reached, and so are a dial that gives up and a
connection that is lost while it is redialled; that the three and five attempts
of the code obey `AttemptsCostLosses` under any number of faults is proved.

`CHECK_DEADLOCK FALSE` is set where the modelled part may rightly stop: in
`delivery_faults` when the message is settled and nothing more is published, in
`connection_races` when the process has exited or panicked, and in `saga_races`
and `saga_scarce` for their bound: they have one or two ids for payment commands
and for events, so once these are in `processed_events` a re-sent command or an
answer must wait for an id, and the bounded instance may stop where the program,
with its UUIDs, would not. All other runs check deadlock.

Symmetry is over the workers of a pool and used only with invariants and step properties, never with liveness.

### Fairness

`FairSpec` assumes that a request once begun, each worker and the recovery
loop go on whenever they can, as goroutines do. Weak fairness suffices for the
request, inventory, payment and recovery steps, whose enabling lasts until they
are taken. Order workers have strong fairness: publishing needs an id from the
bounded pool, which is free, then not, then free again, a disturbance the
program's UUIDs do not have. No fairness is assumed of faults, of the payment's verdict, of POSTs (a customer
need not order) or of administrators. That an event eventually reaches a free
worker is part of a worker's fairness: a worker takes some message whenever one
waits, and with finitely many ids the queue cannot grow for ever.

`FairDelivery` assumes that a service that is down is started again (an ECS
service of one task, `deploy/terraform/ecs.tf:88-93`), that its goroutines go on,
that the broker expires what is delayed, and that a ready copy which is
deliverable again and again is delivered (strong fairness per copy, as channels
close in between; RabbitMQ serves a queue in order). It assumes neither that a
handler ever succeeds nor that anybody publishes: a message settles because its
retries run out.

`FairConnection` assumes that goroutines which can run do, that main closes when
it has been told to, and that a consumer without a channel asks for one. `RLock`
has strong fairness: between two writers Go's `RWMutex` lets the waiting readers
in. Nothing is assumed of the broker: it may never come back.

## 4. Disagreements with the documentation

Four runs check a sentence of the documentation and find it violated:

- `double_reserve`: README.md:467 calls `inventory_logs` "unique on
  `(order_id, action)`", but the index `idx_order_action`
  (`inventory_log.go:13-14`) is not unique and the check is outside the inserting
  transaction. Two workers with copies of one command reserve twice. What does
  hold is `DoubleReserveBound`: at most one reservation per worker.
- `refused_stock`: "re-publishing blindly is always safe"
  (`outbox-and-dual-write.md:52-54`). A refusal leaves no log row, so a reserve
  re-sent by the recovery loop while the refusal is in flight can succeed once a
  compensation of another order refills the stock. The finished saga skips the
  event and nothing ever releases the stock.
- `stale_commit`: the loop "re-publishes the step-appropriate command for any
  non-terminal saga" (`outbox-and-dual-write.md:16-18`). Two workers commit two
  reserved events of one order, the later from a snapshot older than the refused
  payment: the saga is COMPENSATING with step PROCESSING_PAYMENT, which
  `recoverCompensating` skips.
- `lost_order`: "never a lost order" (`outbox-and-dual-write.md:56-57`). A crash
  between the order row and the saga row leaves an order PENDING for ever, since
  recovery lists sagas only.

What `saga_faults` checks it checks of one worker per service, because of the
code's 16 it is false:

- Because of `stale_commit`, `OrderMatchesSaga`, `FinishedStays`,
  `LiveSagasAreRecoverable` and `SagaEnds` are false with two or more workers on
  order.events.
- `StockAddsUp`, the "`available_qty + reserved_qty` remaining conserved" of
  README.md:239-241, and `HoldMatchesStatus` are false with two workers on
  inventory.commands: two copies of one release both pass the check of the log
  and both put the quantity back, where `GREATEST` hides that the second found
  nothing left in `reserved_qty`.

Two goals a reader would expect are in no run, because the code does not reach
them with its pools, and no sentence of the documentation promises them in these
words. `SagaSystem` defines them, and the runs check what is true in their place:

- `NoOversell`: the confirmed orders of a product fit into the stock it was given.
  With two inventory workers what was put back twice can be sold to an order that
  asks for more than there is. In the instance of `saga_scarce` TLC finds this
  after some 40 steps (replace the invariant in `SagaScarce.cfg`).
  `OversoldIsOverReleased` says that nothing else oversells: what is confirmed
  beyond the stock is at most what orders had put back more often than they had
  reserved it; and `DoubleReleaseBound` that an order is released at most once per
  worker.
- `FailedIsNotCharged`: nobody is charged for an order shown as failed. With two
  order workers a reserve is refused and, sent again by the recovery loop,
  succeeds; the success is committed, the payment asked for, and then the refusal
  is committed from a snapshot older than both. The customer is shown FAILED and
  pays. In the instance of `saga_races` TLC finds this after some 20 steps.
  `FailedChargeNeedsTwoAnswers` says that nothing less does it: two answers to
  the order's reserve were committed.

`StatusIsTrue`, `TrueEvidence`, the refinement and the two properties just named
do not depend on the number of workers, and they are proved for any. Section 5
names, and proves, what each of the others needs: no stale commit, no second row
in the log.

Two more show in a single step of `Delivery` and need no run. `Redrive`:
`redrive-dlq.sh:2-3` speaks of messages going "back to the saga command/event
exchange under their original routing key", but the key a message has in the
dead-letter queue is that queue's own (`consumer.go:135`, `topology.go:34`). On the
command exchange nothing is bound to it and the message is gone; on the event
exchange it comes back and is skipped as unknown. `Dropped`: "startup order
doesn't matter because RabbitMQ buffers" (`tests/integration/helpers_test.go:223`),
but a queue exists from the first `Setup` of the service that consumes it, and
`Publish` is not mandatory, so until then a message is confirmed and dropped; an
order survives this, as the recovery loop re-sends its command.

## 5. Proofs

Checked by TLAPS for every value of the constants, under the assumptions
`FaultBound`, `InventoryAssumption`, `PoolAssumption`, `OrdersAssumption`,
`PaymentAssumption`, `IdAssumption`, `DeliveryAssumption` and
`ConnectionAssumption` of the modules (bounds and quantities are naturals, an
order asks for at least one unit of one product, ids are numbers, the inventory
pool and the orders there will ever be are finite, malformed messages are
messages, every caller has an attempt). No theorem assumes anything of the
constants beyond these; those of `SagaPoolProofs` named `UniqueRows...` and
`FreshCommits...` have a condition on the behaviour, which is part of their
statement.

| Theorem | States | Argument |
|---|---|---|
| `InventoryTypeCorrect` | `InventorySpec => [](TransportTypeOK /\ InventoryTypeOK)` | `stock` stays natural by the WHERE clause of `ReserveAtomic` and the clamp of `ReleaseAtomic` |
| `SuccessIsAlwaysLogged` | `InventorySpec => []SuccessIsLogged` | log rows are never deleted, so a claim once backed stays backed |
| `PaymentTypeCorrect`, `VerdictStaysFinal`, `VerdictsAlwaysAgree` | the payment row is final, and every verdict published is the one on record | the unique index of `payments.order_id` |
| `TypeCorrect` | `Spec => []TypeOK` | `CommitHasSaga` is needed as well: a success of `CommitInventoryReserved` writes only `current_step`, so the row must exist |
| `EvidenceIsTrue` | `Spec => []TrueEvidence` | the inductive invariant, see below |
| `NoPaymentBeforeReserve`, `NoReleaseUnlessDeclined`, `StatusIsAlwaysTrue` | `PaymentFollowsReserve`, `ReleaseFollowsDecline`, `StatusIsTrue` are invariants | from `TrueEvidence` |
| `SagaImplementsEffects` | `Spec => ImplementsEffects` | the refinement mapping reads `hold` from the logs, `verdict` from the payment row and `shown` from the order's status; a step changes at most one of the three, for one order |
| `DoubleReserveIsBounded` | `InventorySpec => []DoubleReserveBound` | `BoundOf`: once an order has a log row, its rows plus the workers that are past the check of the log never exceed the pool, for nobody passes the check any more |
| `MarksHavePayments` | `PaymentSpec => []MarkedWithPayment` | mark and row are written in one transaction, and rows stay |
| `DoubleReleaseIsBounded` | `InventorySpec => []DoubleReleaseBound` | `ReleaseBoundOf`, the same argument; an error of `ReleaseAtomic` takes its worker out of the transaction whether or not it committed |
| `StockIsConserved`, `ReservedAlwaysCoversLog` | `StockConserved` and `ReservedCoversLog` are invariants of `InventorySpec` | `StockInv`: each step changes the row and the sum over the log by the same quantity; see *Sums* below |
| `InventoryKeepsItsPromises`, `PaymentKeepsItsPromises` | what `InventorySpec` and `PaymentSpec` promise is true in `Spec` as well | `PoolInv`: `TrueEvidence`, `StockInv` and the two bounds together |
| `OversoldIsAlwaysOverReleased` | `Spec => []OversoldIsOverReleased`, for any pools | per order, what the log says it holds plus what it has over-released is never negative, and at least its quantity once it is confirmed: it was charged, so it was reserved and (`ReleaseFollowsDecline`) never released. Summed over the orders of a product, what they hold was granted (`StockConserved`) |
| `FailedChargeTakesTwoAnswers` | `Spec => []FailedChargeNeedsTwoAnswers`, for any pools | see *Charges* below |
| `UniqueRowsNeverOversell`, `UniqueRowsHoldWhatIsShown`, `UniqueRowsAddUp` | `Spec /\ []OneEach` implies `NoOversell`, `HoldMatchesStatus`, `StockAddsUp`, for any pools | nothing is over-released then, so the first follows from `OversoldIsOverReleased`; `ReservedIsLogged` is inductive under `OneEach`: an order that is refunded for the first time is still reserved, so `GREATEST` never clamps |
| `FreshCommitsAgree`, `FreshCommitsRecover`, `FreshCommitsKeepTheFinished` | `Spec /\ [][FreshCommits]_vars` implies `OrderMatchesSaga`, `LiveSagasAreRecoverable`, `FinishedStays`, for any pools | `StoryInv`: the eight pairs of rows an order can have; a fresh commit goes from one to the next |
| `FreshCommitsNeverChargeFailed` | `Spec /\ [][FreshCommits]_vars => []FailedIsNotCharged` | `AnsweredOnce`: a fresh commit of an answer finds none before it; then `FailedChargeTakesTwoAnswers` |
| `DeliveryTypeCorrect`, `BurialAlwaysEarned`, `NothingIsLost` | `DeliverySpec` keeps its types (no copy exceeds the retry budget), dead-letters only with reason, and loses nothing | see below |
| `HandlingIsExclusive` | `DeliverySpec => []ExclusiveHandling` | as long as `faults = 0`, a message has one copy that is still going, and every delivery is live (`CalmInv`) |
| `DeliveryImplementsPromise` | `DeliverySpec => ImplementsPromise` | the mapping reads `pending` and `buried` from where the copies are; each action is one step of `AtLeastOnce` or none |
| `ConnectionTypeCorrect`, `AlwaysOneWatcher`, `UnlockedReadIsAlwaysSafe`, `ConnIsAlwaysStable` | `ConnectionSpec` keeps its types, has one watcher, no race on `mq.conn`, no replacement under a reader | `WatchInv` (one goroutine is active and it alone dials), `LockInv` (no reader while someone writes) |
| `AttemptsAlwaysCostLosses` | `ConnectionSpec => []AttemptsCostLosses`, for any numbers of attempts, callers and faults | `OwedInv`: while a caller has an attempt in hand that is bound to fail (it is inside `Channel` on a lost connection, or its channel has gone), something in `due` is still unpaid; one that is about to ask for the lock on a lost connection has something unpaid as well, or `watch` is about to keep it out |

*The invariant of a queue.* `NothingLost` alone is not inductive: an
acknowledgement removes a copy, and why that is safe lies in what the worker did
before. `Inv` adds `CopiesBacked` and `HandsBacked` (the retry count of every
copy and delivery is covered by failures of its message, and everything in the
dead-letter queue has a reason), and `Linked` (a live delivery is the very copy
that is unacknowledged at the broker, and no two workers have the same). With
these, `Ack` is reached only after the handler has completed or after a
republished copy exists, so whatever the interleaving of lost channels,
restarts and failed republishes, some copy is `Kept`.

*The inductive invariant of the saga.* A worker acts on a message, on a task it read
earlier, or on a saga row listed earlier; none of them need agree with the
present state of its own service, let alone of another's database. What saves
the saga is that the facts they rely on are stable: `Reserved(o)` and
`Released(o)` (log rows are never deleted), `Charged(o)` and `Declined(o)` (payment
rows are never changed). `TrueEvidence` says of every message, held task, saga
row and listed row which facts it is evidence of: a payment command of
`Reserved`, a release command of `Reserved` and `Declined`, and so on. It is
inductive because (1) facts once true stay true (`FactsStayTrue`), so old
evidence stays good, however stale, duplicated or reordered, and (2) each action
that produces new evidence does so from evidence it holds or from a fact it
establishes. There is one lemma per kind of action. It holds under stale commits: a
stale `CommitInventoryReserved` may spoil the step, never the truth of what the step
says.

*What the pools would need.* The properties that a second worker breaks (section
4) are proved, for pools of any size, from conditions that the code could ensure
and does not:

- `OneEach`: no order ever gets two rows of a kind in `inventory_logs`. This is
  what the unique index of README.md:467 would give. `handleReserve` and
  `handleRelease` check the log outside the transaction that writes it, so 16
  workers need not meet it.
- `FreshCommits`: whenever a worker of order.events commits, the row that it
  overwrites still awaits its event (`StepExpects`). A `SELECT ... FOR UPDATE` of
  the saga row in the transactions of `saga_repository.go`, or a condition on
  `current_step` in their UPDATEs, would give it. The code reads a snapshot.

Of the code as it is these theorems say where to look: every behaviour that
breaks one of the properties has a second row of a kind in the log, or a commit
from a stale row. That the conditions are not void is shown by the lemmas
`OneWorkerLogsOnce` and `OneWorkerCommitsFresh`: a pool of one meets them, with
any number of workers, faults and duplicates everywhere else.

*Charges.* `FailedChargeNeedsTwoAnswers` alone is not inductive: an order may fail
while a payment command for it is under way. `ChargeInv` says that of every order
that a payment command, a worker of payment-service, a row listed by the recovery
loop, a saga row or an order worker about to publish may bring a charge to, the
payment is `Granted`: its reserve has an answer that was committed, and the order
is INVENTORY_RESERVED or CONFIRMED, or the payment is declined, or a second answer
was committed too. `Granted` once true stays true (`StepGrants`): an order leaves
INVENTORY_RESERVED and CONFIRMED only on a verdict that declined the payment or on a
second answer, answers are never deleted from `processed_events`, and verdicts are
final.

*Sums.* `Outstanding(p)` adds up what the log says orders hold, with
`SumFunctionOnSet` of the community modules, which folds over a set. Induction over
a set is not within the provers' reach, since the library's induction theorems
take an operator. `QuantitySums` gets by without: the fold's definition
is a recursive function over the subsets of the set, and the strict subset relation
on them is well-founded, so a least counterexample exists (`WFMin`) and refutes
itself. This gives the value of the fold when an element is taken out,
and from it what the proofs need: a sum is a number, changes with one summand by
as much, is monotonic in its summands, and is at least the sum over a part.

Stays with TLC: liveness (`SagaEnds`, `SagaEndsOnceStocked`,
`EveryMessageSettles`, `CallsReturn`, `ConsumerReturns`, `CloseReturns`) and
everything under fairness. Every other property of a passing run is proved,
under the condition named above where it needs one (those of `saga_faults`).

## 6. Not modelled, and the plan

Done, in this order: the services and the saga over an at-least-once transport;
`SagaEffects` and the refinement; liveness through recovery; `TrueEvidence`;
`Delivery` and the promise it implements; `Connection`; the invariants of the
optimistic lock, of duplicate reserves and releases, and of the stock; what the
system needs of its pools.

Left for later: `AtLeastOnce` and `Transport` as a checked refinement rather than
by reading.

Partly modelled: the dead-letter sampler is a caller of `Channel` in `Connection`,
while its passive declare and the gauge it sets are not modelled; of start-up and
shutdown, opening the database, the HTTP server and `logger.Fatal` (the process
ends, as in `Crash`) are left out. `Close` wakes `watch` like a loss does, so the
process may redial while it exits; `Connection` has this, and it is harmless
because main returns after `Close`.

Left out for good: the admin endpoints and GETs (read only), observability,
configuration, deployment, load test and the scripts other than the redrive. The
script's own crash after it has taken a batch loses that batch; `Delivery` has it
(`ScriptFails`), no document promises otherwise, and `NothingLost` counts
redriven messages out.
