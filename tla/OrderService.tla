---------------------------- MODULE OrderService ----------------------------
(***************************************************************************)
(* order-service: POST /orders writes an order, then its saga, then sends  *)
(* the first command.  A pool of workers consumes order.events; each event *)
(* is one transaction over orders, saga_states and processed_events,       *)
(* followed by the next command.  The recovery loop re-sends the command   *)
(* of the current step of every saga that is not finished.                 *)
(*                                                                         *)
(* A Commit... transaction reads processed_events and saga_states from one *)
(* snapshot (InnoDB, REPEATABLE READ, no FOR UPDATE) and writes without    *)
(* looking at either again, so the read and the commit are two steps that  *)
(* other workers' commits may come between.                                *)
(***************************************************************************)
EXTENDS Transport

CONSTANTS OrdWorkers   \* workers of the consumer (16 in the code)

VARIABLES order,      \* orders.status, or "NONE" before the row exists
          saga,       \* saga_states: current_step and status
          request,    \* how far the POST of an order has come
          processed,  \* processed_events of order-service
          ow,         \* what each worker is doing
          todo        \* rows it has listed and not yet dealt with

ordVars == <<order, saga, request, processed, ow, todo>>

OrderStatuses == {"PENDING", "INVENTORY_RESERVED", "CONFIRMED", "FAILED", "COMPENSATED"}

Steps == {"RESERVING_INVENTORY", "PROCESSING_PAYMENT", "RELEASING_INVENTORY", "DONE"}
Live     == {"IN_PROGRESS", "COMPENSATING"}
Terminal == {"COMPLETED", "COMPENSATED", "FAILED"}

SagaRow(step, status) == [step |-> step, status |-> status]
SagaRows              == [step : Steps, status : Live \cup Terminal]
NoSaga                == SagaRow("NONE", "NONE")

OrdFree          == [pc |-> "free"]
EventTask(pc, m) == [pc |-> pc, msg |-> m]

(* Rows and tasks keep their shapes: every saga row is one the code writes. *)
OrderTypeOK ==
  /\ order \in [Orders -> OrderStatuses \cup {"NONE"}]
  /\ saga \in [Orders -> SagaRows \cup {NoSaga}]
  /\ request \in [Orders -> {"new", "saga", "publish", "done"}]
  /\ processed \subseteq {"Reserved", "Released", "Paid"} \X Orders \X EventIds
  /\ ow \in [OrdWorkers -> [pc : {"commit", "publish"}, msg : Events] \cup {OrdFree}]
  /\ todo \subseteq [order : Orders, row : SagaRows]

OrderInit ==
  /\ order = [o \in Orders |-> "NONE"]
  /\ saga = [o \in Orders |-> NoSaga]
  /\ request = [o \in Orders |-> "new"]
  /\ processed = {}
  /\ ow = [w \in OrdWorkers |-> OrdFree]
  /\ todo = {}

OrderRows == <<order, saga, processed, request>>

-----------------------------------------------------------------------------
(* OrderHandler.Create: CreateOrder, then StartSaga's two writes. *)
RequestSame == UNCHANGED <<processed, ow, todo>>

CreateOrder(o) ==
  /\ request[o] = "new"
  /\ order' = [order EXCEPT ![o] = "PENDING"]
  /\ request' = [request EXCEPT ![o] = "saga"]
  /\ UNCHANGED saga /\ RequestSame /\ UNCHANGED netVars

CreateSaga(o) ==
  /\ request[o] = "saga"
  /\ saga' = [saga EXCEPT ![o] = SagaRow("RESERVING_INVENTORY", "IN_PROGRESS")]
  /\ request' = [request EXCEPT ![o] = "publish"]
  /\ UNCHANGED order /\ RequestSame /\ UNCHANGED netVars

SendReserve(o) ==
  /\ request[o] = "publish"
  /\ Publish(ReserveCmd(o))
  /\ request' = [request EXCEPT ![o] = "done"]
  /\ UNCHANGED <<order, saga>> /\ RequestSame /\ NoFault

(* The next write fails or the process dies: nothing resumes the request.  *)
RequestFails(o) ==
  /\ request[o] \in {"saga", "publish"}
  /\ request' = [request EXCEPT ![o] = "done"]
  /\ UNCHANGED <<order, saga>> /\ RequestSame /\ UNCHANGED queue /\ Fault

-----------------------------------------------------------------------------
(* HandleEvent. *)
OrdSet(w, task) == ow' = [ow EXCEPT ![w] = task]
OrdAt(w, pc)    == ow[w].pc = pc

(* The guard of the event's Commit... on the saga row it reads.             *)
(* Mutant: the guard is missing for one of the events.                      *)
StepExpects_AnyReserved(s, kind) ==
  CASE kind = "Reserved" -> TRUE
    [] kind = "Paid"     -> s.step = "PROCESSING_PAYMENT"
    [] kind = "Released" -> s.step = "RELEASING_INVENTORY" /\ s.status = "COMPENSATING"

StepExpects(s, kind) ==
  CASE kind = "Reserved" -> s.step = "RESERVING_INVENTORY"
    [] kind = "Paid"     -> s.step = "PROCESSING_PAYMENT"
    [] kind = "Released" -> s.step = "RELEASING_INVENTORY" /\ s.status = "COMPENSATING"

Applies(m) == Key(m) \notin processed /\ StepExpects(saga[m.order], m.kind)

(* The reads: a duplicate, or an event of another step, is acknowledged.   *)
BeginEvent(w, m) ==
  /\ ow[w] = OrdFree
  /\ m \in Events
  /\ Take(m)
  /\ OrdSet(w, IF Applies(m) THEN EventTask("commit", m) ELSE OrdFree)
  /\ UNCHANGED <<OrderRows, todo>> /\ NoFault

(* The writes, whatever the rows hold by now. *)
Commit(w, status, row, next) ==
  LET m == ow[w].msg
  IN  /\ Key(m) \notin processed
      /\ order' = [order EXCEPT ![m.order] = status]
      /\ saga' = [saga EXCEPT ![m.order] = row]
      /\ processed' = processed \cup {Key(m)}
      /\ OrdSet(w, IF next THEN EventTask("publish", m) ELSE OrdFree)
      /\ UNCHANGED request /\ UNCHANGED todo /\ UNCHANGED netVars

(* On success the saga's status column is not written. *)
CommitInventoryReserved(w) ==
  LET m == ow[w].msg
  IN  /\ OrdAt(w, "commit") /\ m.kind = "Reserved"
      /\ \/ m.ok /\ Commit(w, "INVENTORY_RESERVED",
                           [saga[m.order] EXCEPT !.step = "PROCESSING_PAYMENT"], TRUE)
         \/ ~ m.ok /\ Commit(w, "FAILED", SagaRow("DONE", "FAILED"), FALSE)

(* The saga row of a refused payment.                                      *)
(* Mutant: its status column is not written either.                         *)
Compensation_StepOnly(s) == [s EXCEPT !.step = "RELEASING_INVENTORY"]

Compensation(s) == SagaRow("RELEASING_INVENTORY", "COMPENSATING")

CommitPaymentProcessed(w) ==
  LET m == ow[w].msg
  IN  /\ OrdAt(w, "commit") /\ m.kind = "Paid"
      /\ \/ m.ok /\ Commit(w, "CONFIRMED", SagaRow("DONE", "COMPLETED"), FALSE)
         \/ ~ m.ok /\ Commit(w, "FAILED", Compensation(saga[m.order]), TRUE)

(* A compensation that failed leaves the order FAILED. *)
CommitInventoryReleased(w) ==
  LET m == ow[w].msg
  IN  /\ OrdAt(w, "commit") /\ m.kind = "Released"
      /\ \/ m.ok /\ Commit(w, "COMPENSATED", SagaRow("DONE", "COMPENSATED"), FALSE)
         \/ ~ m.ok /\ Commit(w, order[m.order], SagaRow("DONE", "FAILED"), FALSE)

(* Another worker committed the same event id since the snapshot: the      *)
(* primary key of processed_events rolls everything back, and the event    *)
(* returns to be recognised as a duplicate.                                *)
CommitConflict(w) ==
  /\ OrdAt(w, "commit")
  /\ Key(ow[w].msg) \in processed
  /\ Return(ow[w].msg)
  /\ OrdSet(w, OrdFree)
  /\ UNCHANGED <<OrderRows, todo>> /\ NoFault

(* The command that follows the commit, under a new message id. *)
NextCommand(m, id) == IF m.kind = "Reserved" THEN PayCmd(m.order, id) ELSE ReleaseCmd(m.order)

PublishNext(w, id) ==
  /\ OrdAt(w, "publish")
  /\ Publish(NextCommand(ow[w].msg, id))
  /\ OrdSet(w, OrdFree)
  /\ UNCHANGED <<OrderRows, todo>> /\ NoFault

(* The command is out, but the handler fails or dies: the event returns.    *)
PublishNextUnconfirmed(w, id) ==
  /\ OrdAt(w, "publish")
  /\ queue' = queue \cup {NextCommand(ow[w].msg, id), ow[w].msg}
  /\ OrdSet(w, OrdFree)
  /\ UNCHANGED <<OrderRows, todo>> /\ Fault

OrdFault(w) ==
  /\ ow[w] # OrdFree
  /\ \/ Requeued(ow[w].msg) /\ OrdSet(w, OrdFree)
     \/ Parked /\ OrdSet(w, OrdFree)
     \/ Redelivered(ow[w].msg) /\ UNCHANGED ow
  /\ UNCHANGED <<OrderRows, todo>>

-----------------------------------------------------------------------------
(* runRecovery, at start-up and every 30 s: the sagas IN_PROGRESS are      *)
(* listed and dealt with, then those COMPENSATING.  A list that fails is   *)
(* skipped, so the lists may come in any order.                            *)
ListByStatus(status) ==
  /\ todo = {}
  /\ todo' = {[order |-> o, row |-> saga[o]] : o \in {q \in Orders : saga[q].status = status}}
  /\ UNCHANGED <<OrderRows, ow>> /\ UNCHANGED netVars

(* Mutant: current_step taken for the last step that was completed.        *)
Resend_NextStep(row, o, id) ==
  CASE row.step = "RESERVING_INVENTORY" -> PayCmd(o, id)
    [] row.step = "PROCESSING_PAYMENT"  -> ReleaseCmd(o)
    [] row.step = "RELEASING_INVENTORY" -> ReleaseCmd(o)

Resend(row, o, id) ==
  CASE row.step = "RESERVING_INVENTORY" -> ReserveCmd(o)
    [] row.step = "PROCESSING_PAYMENT"  -> PayCmd(o, id)
    [] row.step = "RELEASING_INVENTORY" -> ReleaseCmd(o)

(* recoverInProgress and recoverCompensating each know their own steps;    *)
(* a row with any other is skipped with a warning.                         *)
(* Mutants: only the forward steps are recovered; only those that follow   *)
(* the reserve are.                                                        *)
Recoverable_Forward(row) ==
  row.status = "IN_PROGRESS" /\ row.step \in {"RESERVING_INVENTORY", "PROCESSING_PAYMENT"}

Recoverable_Reserved(row) ==
  \/ row.status = "IN_PROGRESS"  /\ row.step = "PROCESSING_PAYMENT"
  \/ row.status = "COMPENSATING" /\ row.step = "RELEASING_INVENTORY"

Recoverable(row) ==
  \/ row.status = "IN_PROGRESS"  /\ row.step \in {"RESERVING_INVENTORY", "PROCESSING_PAYMENT"}
  \/ row.status = "COMPENSATING" /\ row.step = "RELEASING_INVENTORY"

RecoverSaga(t, id) ==
  /\ Recoverable(t.row)
  /\ Publish(Resend(t.row, t.order, id))
  /\ todo' = todo \ {t}
  /\ UNCHANGED <<OrderRows, ow>> /\ NoFault

SkipSaga(t) ==
  /\ ~ Recoverable(t.row)
  /\ todo' = todo \ {t}
  /\ UNCHANGED <<OrderRows, ow>> /\ UNCHANGED netVars

(* The order cannot be read, the publish fails, or the process dies.       *)
RecoveryFault ==
  /\ todo # {}
  /\ \E S \in SUBSET todo : S # todo /\ todo' = S
  /\ UNCHANGED <<OrderRows, ow>> /\ UNCHANGED queue /\ Fault

-----------------------------------------------------------------------------
(* What the service does under message ids drawn for the commands it sends. *)
HandleRequest(o) == CreateOrder(o) \/ CreateSaga(o) \/ SendReserve(o)

OrdWork(w) ==
  \/ \E m \in queue : BeginEvent(w, m)
  \/ CommitInventoryReserved(w) \/ CommitPaymentProcessed(w) \/ CommitInventoryReleased(w)
  \/ CommitConflict(w)

=============================================================================
