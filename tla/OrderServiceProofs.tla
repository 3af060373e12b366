------------------------- MODULE OrderServiceProofs -------------------------
(* Lemmas about the steps of order-service, for every number of orders,    *)
(* workers and message ids.                                                *)
EXTENDS OrderService, TLAPS

(* What the service may do, under any message ids. *)
OrdWorkerStep(w) ==
  OrdWork(w) \/ OrdFault(w) \/ \E id \in CmdIds : PublishNext(w, id) \/ PublishNextUnconfirmed(w, id)

OrdStep ==
  \/ \E o \in Orders : HandleRequest(o) \/ RequestFails(o)
  \/ \E w \in OrdWorkers : OrdWorkerStep(w)
  \/ \E status \in Live : ListByStatus(status)
  \/ \E t \in todo : SkipSaga(t) \/ \E id \in CmdIds : RecoverSaga(t, id)
  \/ RecoveryFault

(* A worker that will commit has seen a saga row, and rows are not deleted: *)
(* what the type of saga rests on.                                          *)
CommitHasSaga == \A w \in OrdWorkers : ow[w].pc = "commit" => saga[ow[w].msg.order] # NoSaga

OrderTypeInv == OrderTypeOK /\ CommitHasSaga

-----------------------------------------------------------------------------
LEMMA OrdMessages ==
  /\ Events \subseteq Messages
  /\ \A m \in Events : /\ m.order \in Orders /\ m.id \in EventIds /\ m.ok \in BOOLEAN
                       /\ m.kind \in {"Reserved", "Released", "Paid"}
  /\ \A o \in Orders : ReserveCmd(o) \in Messages /\ ReleaseCmd(o) \in Messages
  /\ \A o \in Orders, id \in CmdIds : PayCmd(o, id) \in Messages
BY DEF Events, Messages, InventoryCmds, PaymentCmds, ReserveCmd, ReleaseCmd, PayCmd

(* A worker that is not free holds an event. *)
LEMMA OrdBusyTask ==
  ASSUME OrderTypeOK, NEW w \in OrdWorkers, ow[w].pc # "free" \/ ow[w] # OrdFree
  PROVE  /\ ow[w].pc \in {"commit", "publish"}
         /\ ow[w].msg \in Events
         /\ ow[w].msg.order \in Orders
BY OrdMessages DEF OrderTypeOK, OrdFree

LEMMA RowTypes ==
  /\ \A s \in Steps, t \in Live \cup Terminal : SagaRow(s, t) \in SagaRows /\ SagaRow(s, t) # NoSaga
  /\ NoSaga \notin SagaRows
  /\ \A r \in SagaRows : /\ [r EXCEPT !.step = "PROCESSING_PAYMENT"] \in SagaRows
                         /\ r.step \in Steps /\ r.status \in Live \cup Terminal
BY DEF SagaRow, SagaRows, NoSaga, Steps, Live, Terminal

LEMMA OrderInitType ==
  TransportInit /\ OrderInit => TransportTypeOK /\ OrderTypeInv
BY FaultBound
DEF FaultBound, TransportInit, OrderInit, TransportTypeOK, OrderTypeInv, OrderTypeOK, CommitHasSaga, OrdFree

-----------------------------------------------------------------------------
(* The writes of a transaction that has read a saga row. *)
LEMMA CommitType ==
  ASSUME OrderTypeInv, NEW w \in OrdWorkers, ow[w].pc = "commit",
         NEW status \in OrderStatuses \cup {"NONE"}, NEW row \in SagaRows, NEW next \in BOOLEAN,
         Commit(w, status, row, next)
  PROVE  OrderTypeInv' /\ UNCHANGED netVars
<1>. DEFINE m == ow[w].msg
<1>0. OrderTypeOK /\ CommitHasSaga
  BY DEF OrderTypeInv
<1>1. m \in Events /\ m.order \in Orders /\ Key(m) \in {"Reserved", "Released", "Paid"} \X Orders \X EventIds
  BY <1>0, OrdBusyTask, OrdMessages DEF Key
<1>2. EventTask("publish", m) \in [pc : {"commit", "publish"}, msg : Events]
  BY <1>1 DEF EventTask
<1>3. OrderTypeOK'
  BY <1>0, <1>1, <1>2 DEF Commit, OrdSet, netVars, OrderTypeOK
<1>4. CommitHasSaga'
  <2>. SUFFICES ASSUME NEW v \in OrdWorkers, ow'[v].pc = "commit"
                PROVE  saga'[ow'[v].msg.order] # NoSaga
    BY DEF CommitHasSaga
  <2>1. v # w /\ ow'[v] = ow[v]
    BY <1>0 DEF Commit, OrdSet, EventTask, OrdFree, OrderTypeOK
  <2>2. saga[ow[v].msg.order] # NoSaga /\ ow[v].msg.order \in Orders
    BY <1>0, <2>1, OrdBusyTask DEF CommitHasSaga
  <2>. QED
    BY <1>0, <1>1, <2>1, <2>2, RowTypes DEF Commit, OrderTypeOK
<1>. QED
  BY <1>3, <1>4 DEF Commit, OrderTypeInv

LEMMA CommitsType ==
  ASSUME OrderTypeInv, NEW w \in OrdWorkers,
         CommitInventoryReserved(w) \/ CommitPaymentProcessed(w) \/ CommitInventoryReleased(w)
  PROVE  OrderTypeInv' /\ UNCHANGED netVars
<1>. DEFINE m == ow[w].msg
<1>0. OrderTypeOK /\ CommitHasSaga /\ ow[w].pc = "commit"
  BY DEF OrderTypeInv, CommitInventoryReserved, CommitPaymentProcessed, CommitInventoryReleased, OrdAt
<1>1. m.order \in Orders
  BY <1>0, OrdBusyTask
<1>2. saga[m.order] \in SagaRows
  BY <1>0, <1>1 DEF CommitHasSaga, OrderTypeOK
<1>3. /\ {"INVENTORY_RESERVED", "CONFIRMED", "FAILED", "COMPENSATED", order[m.order]}
           \subseteq OrderStatuses \cup {"NONE"}
      /\ SagaRow("DONE", "COMPLETED") \in SagaRows /\ SagaRow("DONE", "FAILED") \in SagaRows
      /\ SagaRow("DONE", "COMPENSATED") \in SagaRows
      /\ SagaRow("RELEASING_INVENTORY", "COMPENSATING") \in SagaRows
      /\ [saga[m.order] EXCEPT !.step = "PROCESSING_PAYMENT"] \in SagaRows
  BY <1>0, <1>1, <1>2, RowTypes DEF OrderTypeOK, OrderStatuses, Steps, Live, Terminal
<1>4. CASE CommitInventoryReserved(w)
  BY <1>0, <1>3, <1>4, CommitType DEF CommitInventoryReserved
<1>5. CASE CommitPaymentProcessed(w)
  BY <1>0, <1>3, <1>5, CommitType DEF Compensation, CommitPaymentProcessed
<1>6. CASE CommitInventoryReleased(w)
  BY <1>0, <1>3, <1>6, CommitType DEF CommitInventoryReleased
<1>. QED
  BY <1>4, <1>5, <1>6

(* A step that commits nothing: rows of sagas only appear. *)
LEMMA TasksType ==
  ASSUME OrderTypeInv, OrderTypeOK',
         \A o \in Orders : saga[o] # NoSaga => saga'[o] # NoSaga,
         \A v \in OrdWorkers : \/ ow'[v] = ow[v]
                               \/ ow'[v].pc # "commit"
                               \/ ow'[v].msg.order \in Orders /\ saga'[ow'[v].msg.order] # NoSaga
  PROVE  OrderTypeInv'
<1>. SUFFICES ASSUME NEW v \in OrdWorkers, ow'[v].pc = "commit"
              PROVE  saga'[ow'[v].msg.order] # NoSaga
  BY DEF OrderTypeInv, CommitHasSaga
<1>1. CASE ow'[v] = ow[v]
  BY <1>1, OrdBusyTask DEF OrderTypeInv, CommitHasSaga
<1>. QED
  BY <1>1

LEMMA RequestType ==
  ASSUME TransportTypeOK, OrderTypeInv, NEW o \in Orders, HandleRequest(o) \/ RequestFails(o)
  PROVE  TransportTypeOK' /\ OrderTypeInv'
<1>. USE RowTypes, FaultBound DEF FaultBound, OrderTypeInv
<1>1. TransportTypeOK'
  BY OrdMessages
  DEF HandleRequest, CreateOrder, CreateSaga, SendReserve, RequestFails, Publish, NoFault, Fault, netVars,
      TransportTypeOK
<1>2. SagaRow("RESERVING_INVENTORY", "IN_PROGRESS") \in SagaRows
  BY DEF Steps, Live
<1>3. /\ order' \in [Orders -> OrderStatuses \cup {"NONE"}]
      /\ request' \in [Orders -> {"new", "saga", "publish", "done"}]
  BY DEF HandleRequest, CreateOrder, CreateSaga, SendReserve, RequestFails, OrderTypeOK, OrderStatuses
<1>4. /\ saga' \in [Orders -> SagaRows \cup {NoSaga}]
      /\ \A q \in Orders : saga[q] # NoSaga => saga'[q] # NoSaga
  BY <1>2 DEF HandleRequest, CreateOrder, CreateSaga, SendReserve, RequestFails, OrderTypeOK
<1>5. UNCHANGED <<processed, ow, todo>>
  BY DEF HandleRequest, CreateOrder, CreateSaga, SendReserve, RequestFails, RequestSame
<1>6. OrderTypeOK'
  BY <1>3, <1>4, <1>5 DEF OrderTypeOK
<1>. QED
  BY <1>1, <1>4, <1>5, <1>6, TasksType

LEMMA WorkerType ==
  ASSUME TransportTypeOK, OrderTypeInv, NEW w \in OrdWorkers, OrdWorkerStep(w)
  PROVE  TransportTypeOK' /\ OrderTypeInv'
<1>. USE FaultBound DEF FaultBound, TransportTypeOK
<1>0. OrderTypeOK
  BY DEF OrderTypeInv
<1>1. ASSUME NEW m \in queue, BeginEvent(w, m)
      PROVE  TransportTypeOK' /\ OrderTypeInv'
  <2>1. m \in Events /\ m.order \in Orders /\ EventTask("commit", m) \in [pc : {"commit", "publish"}, msg : Events]
    BY <1>1, OrdMessages DEF BeginEvent, EventTask
  <2>2. TransportTypeOK' /\ OrderTypeOK' /\ saga' = saga
    BY <1>0, <1>1, <2>1 DEF BeginEvent, Take, OrdSet, OrderRows, NoFault, OrderTypeOK
  <2>3. Applies(m) => saga[m.order] # NoSaga
    <3>1. m.kind \in {"Reserved", "Released", "Paid"}
      BY <2>1, OrdMessages
    <3>2. StepExpects(saga[m.order], m.kind) => saga[m.order].step # "NONE"
      BY <3>1 DEF StepExpects
    <3>. QED
      BY <3>2 DEF Applies, NoSaga, SagaRow
  <2>4. \A v \in OrdWorkers : ow'[v] = ow[v] \/ ow'[v].pc # "commit" \/ (Applies(m) /\ ow'[v].msg = m)
    BY <1>0, <1>1 DEF BeginEvent, OrdSet, OrderTypeOK, OrdFree, EventTask
  <2>. QED
    BY <2>1, <2>2, <2>3, <2>4, TasksType
<1>2. CASE CommitInventoryReserved(w) \/ CommitPaymentProcessed(w) \/ CommitInventoryReleased(w)
  BY <1>2, CommitsType DEF netVars
<1>3. ASSUME ow[w] # OrdFree,
             queue' \subseteq queue \cup Messages, Fault \/ NoFault,
             ow' = [ow EXCEPT ![w] = OrdFree] \/ ow' = ow, UNCHANGED <<OrderRows, todo>>
      PROVE  TransportTypeOK' /\ OrderTypeInv'
  <2>1. TransportTypeOK'
    BY <1>3 DEF Fault, NoFault
  <2>2. OrderTypeOK'
    BY <1>0, <1>3 DEF OrderRows, OrderTypeOK
  <2>. QED
    BY <1>0, <1>3, <2>1, <2>2, TasksType DEF OrderRows, OrderTypeOK, OrdFree
<1>4. CASE CommitConflict(w) \/ OrdFault(w)
  <2>1. ow[w] # OrdFree /\ ow[w].msg \in Messages
    BY <1>0, <1>4, OrdBusyTask, OrdMessages DEF CommitConflict, OrdFault, OrdAt, OrdFree
  <2>. QED
    BY <1>3, <1>4, <2>1
    DEF CommitConflict, OrdFault, Requeued, Parked, Redelivered, Return, Fault, NoFault, OrdSet, OrderRows
<1>5. ASSUME NEW id \in CmdIds, PublishNext(w, id) \/ PublishNextUnconfirmed(w, id)
      PROVE  TransportTypeOK' /\ OrderTypeInv'
  <2>1. /\ ow[w] # OrdFree /\ ow[w].msg \in Messages
        /\ NextCommand(ow[w].msg, id) \in Messages
    BY <1>0, <1>5, OrdBusyTask, OrdMessages DEF PublishNext, PublishNextUnconfirmed, OrdAt, OrdFree, NextCommand
  <2>. QED
    BY <1>3, <1>5, <2>1
    DEF PublishNext, PublishNextUnconfirmed, Publish, Fault, NoFault, OrdSet, OrderRows
<1>. QED
  BY <1>1, <1>2, <1>4, <1>5 DEF OrdWorkerStep, OrdWork

LEMMA RecoveryType ==
  ASSUME TransportTypeOK, OrderTypeInv,
         \/ \E status \in Live : ListByStatus(status)
         \/ \E t \in todo : SkipSaga(t) \/ \E id \in CmdIds : RecoverSaga(t, id)
         \/ RecoveryFault
  PROVE  TransportTypeOK' /\ OrderTypeInv'
<1>0. OrderTypeOK
  BY DEF OrderTypeInv
<1>1. todo' \subseteq [order : Orders, row : SagaRows]
  <2>1. ASSUME NEW status \in Live, ListByStatus(status)
        PROVE  todo' \subseteq [order : Orders, row : SagaRows]
    <3>1. \A o \in Orders : saga[o].status = status => saga[o] \in SagaRows
      BY <1>0 DEF OrderTypeOK, NoSaga, SagaRow, Live
    <3>. QED
      BY <2>1, <3>1 DEF ListByStatus
  <2>. QED
    BY <1>0, <2>1 DEF SkipSaga, RecoverSaga, RecoveryFault, OrderTypeOK
<1>2. TransportTypeOK'
  <2>1. ASSUME NEW t \in todo, NEW id \in CmdIds, RecoverSaga(t, id)
        PROVE  TransportTypeOK'
    <3>1. t.order \in Orders
      BY <1>0 DEF OrderTypeOK
    <3>2. Resend(t.row, t.order, id) \in Messages
      BY <2>1, <3>1, OrdMessages DEF RecoverSaga, Recoverable, Resend
    <3>. QED
      BY <2>1, <3>2 DEF RecoverSaga, Publish, NoFault, TransportTypeOK
  <2>. QED
    BY <2>1, FaultBound DEF FaultBound, ListByStatus, SkipSaga, RecoveryFault, netVars, Fault, TransportTypeOK
<1>3. UNCHANGED <<order, saga, request, processed, ow>>
  BY DEF ListByStatus, SkipSaga, RecoverSaga, RecoveryFault, OrderRows
<1>. QED
  BY <1>0, <1>1, <1>2, <1>3, TasksType DEF OrderTypeOK

(* Every step of order-service keeps the types. *)
LEMMA OrdStepType ==
  ASSUME TransportTypeOK, OrderTypeInv, OrdStep
  PROVE  TransportTypeOK' /\ OrderTypeInv'
BY RequestType, WorkerType, RecoveryType DEF OrdStep
=============================================================================
