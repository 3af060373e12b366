------------------------ MODULE PaymentServiceProofs ------------------------
(* Theorems about payment-service for every number of orders, workers and  *)
(* message ids.                                                            *)
EXTENDS PaymentService, TLAPS

(* What a worker may do, under any message id. *)
PayStep(w) == PayWork(w) \/ PayFault(w) \/ \E id \in EventIds : PayPublish(w, id)

-----------------------------------------------------------------------------
LEMMA PayMessages ==
  /\ PaymentCmds \subseteq Messages
  /\ \A c \in PaymentCmds : c \notin Events /\ c.order \in Orders
BY DEF PaymentCmds, Events, Messages

LEMMA PayTaskType ==
  ASSUME NEW pc \in {"lookup", "create", "answer"}, NEW c \in PaymentCmds, NEW ok \in BOOLEAN
  PROVE  PayTask(pc, c, ok) \in PayTasks
BY DEF PayTask, PayTasks

(* A worker that is not free holds a task. *)
LEMMA PayBusyTask ==
  ASSUME PaymentTypeOK, NEW w \in PayWorkers, pw[w].pc # "free" \/ pw[w] # PayFree
  PROVE  /\ pw[w] \in PayTasks
         /\ pw[w].cmd \in PaymentCmds
         /\ pw[w].cmd.order \in Orders
         /\ pw[w].ok \in BOOLEAN
BY DEF PaymentTypeOK, PayTasks, PayFree, PaymentCmds

LEMMA PaidVerdictType ==
  ASSUME PaymentTypeOK, NEW w \in PayWorkers, pw[w].pc = "answer", NEW id \in EventIds
  PROVE  PaidVerdict(w, id) \in Events /\ PaidVerdict(w, id) \in Messages
BY PayBusyTask DEF PaidVerdict, Event, Events, Messages

LEMMA PaymentInitType ==
  TransportInit /\ PaymentInit => TransportTypeOK /\ PaymentTypeOK
BY FaultBound
DEF FaultBound, TransportInit, PaymentInit, TransportTypeOK, PaymentTypeOK, PaymentStatuses

LEMMA PayStepType ==
  ASSUME TransportTypeOK, PaymentTypeOK, NEW w \in PayWorkers, PayStep(w)
  PROVE  TransportTypeOK' /\ PaymentTypeOK'
<1>. USE FaultBound DEF FaultBound, TransportTypeOK
<1>1. ASSUME NEW c \in queue, CheckProcessed(w, c)
      PROVE  TransportTypeOK' /\ PaymentTypeOK'
  <2>1. c \in PaymentCmds
    BY <1>1 DEF CheckProcessed, Messages, InventoryCmds, PaymentCmds, Events
  <2>2. PayTask("lookup", c, FALSE) \in PayTasks
    BY <2>1, PayTaskType
  <2>. QED
    BY <1>1, <2>2 DEF CheckProcessed, Take, PaySet, PaymentsSame, NoFault, PaymentTypeOK
<1>2. CASE LookupPayment(w)
  <2>1. pw[w].cmd \in PaymentCmds
    BY <1>2, PayBusyTask DEF LookupPayment, PayAt
  <2>2. \A ok \in BOOLEAN : PayTask("create", pw[w].cmd, ok) \in PayTasks
                         /\ PayTask("answer", pw[w].cmd, ok) \in PayTasks
    BY <2>1, PayTaskType
  <2>. QED
    BY <1>2, <2>2 DEF Paid, LookupPayment, PaySet, PaymentsSame, netVars, PaymentTypeOK
<1>3. ASSUME NEW ok \in BOOLEAN, CreatePayment(w, ok)
      PROVE  TransportTypeOK' /\ PaymentTypeOK'
  <2>1. pw[w].cmd \in PaymentCmds /\ pw[w].cmd.order \in Orders
    BY <1>3, PayBusyTask DEF CreatePayment, PayAt
  <2>2. PayTask("answer", pw[w].cmd, ok) \in PayTasks
    BY <2>1, PayTaskType
  <2>3. Key(pw[w].cmd) \in {"Pay"} \X Orders \X CmdIds
    BY <2>1 DEF Key, PaymentCmds
  <2>4. payment' \in [Orders -> PaymentStatuses]
    BY <1>3, <2>1 DEF CreatePayment, PaymentTypeOK, PaymentStatuses
  <2>. QED
    BY <1>3, <2>2, <2>3, <2>4 DEF CreatePayment, PaySet, netVars, PaymentTypeOK
<1>4. CASE CreateConflict(w)
  BY <1>4, PayBusyTask, PayMessages
  DEF CreateConflict, PayAt, Return, PaySet, PaymentsSame, NoFault, PaymentTypeOK
<1>5. CASE PayFault(w)
  <2>1. pw[w].cmd \in Messages
    BY <1>5, PayBusyTask, PayMessages DEF PayFault
  <2>. QED
    BY <1>5, <2>1
    DEF PayFault, Requeued, Parked, Redelivered, Return, Fault, PaySet, PaymentsSame, PaymentTypeOK
<1>6. ASSUME NEW id \in EventIds, PayPublish(w, id)
      PROVE  TransportTypeOK' /\ PaymentTypeOK'
  <2>1. PaidVerdict(w, id) \in Messages /\ pw[w].cmd \in Messages
    BY <1>6, PayBusyTask, PayMessages, PaidVerdictType
    DEF PayPublish, PublishPaid, PublishPaidUnconfirmed, PayAt
  <2>2. CASE PublishPaid(w, id)
    BY <2>1, <2>2 DEF PublishPaid, Publish, NoFault, PaySet, PaymentsSame, PaymentTypeOK
  <2>3. CASE PublishPaidUnconfirmed(w, id)
    BY <2>1, <2>3 DEF PublishPaidUnconfirmed, Fault, PaySet, PaymentsSame, PaymentTypeOK
  <2>. QED
    BY <1>6, <2>2, <2>3 DEF PayPublish
<1>. QED
  BY <1>1, <1>2, <1>3, <1>4, <1>5, <1>6 DEF PayStep, PayWork

LEMMA PostPaymentType ==
  ASSUME PaymentTypeOK, NEW o \in Orders, PostPayment(o)
  PROVE  PaymentTypeOK' /\ UNCHANGED netVars
BY DEF PostPayment, PaymentTypeOK, PaymentStatuses

LEMMA PaymentTypeStep ==
  TransportTypeOK /\ PaymentTypeOK /\ [PaymentNext]_<<netVars, payVars>>
    => TransportTypeOK' /\ PaymentTypeOK'
<1>. SUFFICES ASSUME TransportTypeOK, PaymentTypeOK, [PaymentNext]_<<netVars, payVars>>
              PROVE  TransportTypeOK' /\ PaymentTypeOK'
  OBVIOUS
<1>1. ASSUME NEW c \in PaymentCmds, PayCmdArrives(c)
      PROVE  TransportTypeOK' /\ PaymentTypeOK'
  BY <1>1, PayMessages DEF PayCmdArrives, Publish, NoFault, payVars, TransportTypeOK, PaymentTypeOK
<1>2. ASSUME NEW w \in PayWorkers, PayStep(w)
      PROVE  TransportTypeOK' /\ PaymentTypeOK'
  BY <1>2, PayStepType
<1>3. ASSUME NEW o \in HttpPayments, PostPayment(o)
      PROVE  TransportTypeOK' /\ PaymentTypeOK'
  BY <1>3, PostPaymentType, PaymentAssumption DEF PaymentAssumption, netVars, TransportTypeOK
<1>4. CASE UNCHANGED <<netVars, payVars>>
  BY <1>4 DEF netVars, payVars, TransportTypeOK, PaymentTypeOK
<1>. QED
  BY <1>1, <1>2, <1>3, <1>4 DEF PaymentNext, PayStep

(* Every row, mark and task of payment-service is well formed. *)
THEOREM PaymentTypeCorrect == PaymentSpec => [](TransportTypeOK /\ PaymentTypeOK)
BY PaymentInitType, PaymentTypeStep, PTL DEF PaymentSpec, PaymentAlone

-----------------------------------------------------------------------------
(* No row of payments is overwritten, by a worker ... *)
LEMMA WorkerKeepsPayments ==
  ASSUME PaymentTypeOK, NEW w \in PayWorkers, PayStep(w), NEW o \in Orders, payment[o] # "NONE"
  PROVE  payment'[o] = payment[o]
<1>1. ASSUME NEW ok \in BOOLEAN, CreatePayment(w, ok)
      PROVE  payment'[o] = payment[o]
  BY <1>1 DEF Insertable, CreatePayment, PaymentTypeOK
<1>2. CASE UNCHANGED payment
  BY <1>2
<1>. QED
  BY <1>1, <1>2
  DEF PayStep, PayWork, PayPublish, CheckProcessed, LookupPayment, CreateConflict, PayFault,
      PublishPaid, PublishPaidUnconfirmed, PaymentsSame

(* ... or by a caller of POST /payments. *)
LEMMA PostKeepsPayments ==
  ASSUME PaymentTypeOK, NEW q \in Orders, PostPayment(q), NEW o \in Orders, payment[o] # "NONE"
  PROVE  payment'[o] = payment[o]
BY DEF PostPayment, PaymentTypeOK

(* An order's verdict, once on record, is never changed or charged again:  *)
(* whatever commands are duplicated and however workers interleave.        *)
THEOREM VerdictStaysFinal == PaymentSpec => VerdictIsFinal
<1>1. PaymentTypeOK /\ [PaymentNext]_<<netVars, payVars>>
        => [\A o \in Orders : payment[o] # "NONE" => payment'[o] = payment[o]]_payVars
  <2>. SUFFICES ASSUME PaymentTypeOK, [PaymentNext]_<<netVars, payVars>>, ~ UNCHANGED payVars,
                       NEW o \in Orders, payment[o] # "NONE"
                PROVE  payment'[o] = payment[o]
    OBVIOUS
  <2>. QED
    BY WorkerKeepsPayments, PostKeepsPayments, PaymentAssumption
    DEF PaymentAssumption, PaymentNext, PayStep, PayCmdArrives, payVars
<1>. QED
  BY <1>1, PaymentTypeCorrect, PTL DEF PaymentSpec, PaymentAlone, VerdictIsFinal

-----------------------------------------------------------------------------
(* VerdictsAgree, worker by worker and message by message; inductive with  *)
(* the types because a verdict on record is final.                         *)
WorkerAgrees(w)  == pw[w].pc = "answer" => VerdictIs(pw[w].cmd.order, pw[w].ok)
MessageAgrees(m) == m \in Events /\ m.kind = "Paid" => VerdictIs(m.order, m.ok)

LEMMA AgreeParts ==
  VerdictsAgree <=> (\A w \in PayWorkers : WorkerAgrees(w)) /\ (\A m \in queue : MessageAgrees(m))
BY DEF VerdictsAgree, WorkerAgrees, MessageAgrees, PayAt

LEMMA VerdictStays ==
  ASSUME NEW o \in Orders, payment[o] # "NONE" => payment'[o] = payment[o], NEW ok
  PROVE  VerdictIs(o, ok) => VerdictIs(o, ok)'
BY DEF VerdictIs, Charged, Declined

(* Final rows keep what others hold in agreement, so only the worker that  *)
(* steps and the messages it adds need a new proof.                        *)
LEMMA AgreeFrame ==
  ASSUME PaymentTypeOK, VerdictsAgree,
         \A o \in Orders : payment[o] # "NONE" => payment'[o] = payment[o],
         \A v \in PayWorkers : pw'[v] = pw[v] \/ WorkerAgrees(v)',
         \A m \in queue' \ queue : MessageAgrees(m)'
  PROVE  VerdictsAgree'
<1>1. ASSUME NEW v \in PayWorkers, pw'[v] = pw[v]
      PROVE  WorkerAgrees(v)'
  <2>1. WorkerAgrees(v) /\ (pw[v].pc = "answer" => pw[v].cmd.order \in Orders)
    BY AgreeParts, PayBusyTask
  <2>. QED
    BY <1>1, <2>1, VerdictStays DEF WorkerAgrees, VerdictIs, Charged, Declined
<1>2. ASSUME NEW m \in queue
      PROVE  MessageAgrees(m)'
  <2>1. MessageAgrees(m) /\ (m \in Events => m.order \in Orders)
    BY AgreeParts DEF Events
  <2>. QED
    BY <2>1, VerdictStays DEF MessageAgrees, VerdictIs, Charged, Declined
<1>3. (\A w \in PayWorkers : WorkerAgrees(w)') /\ (\A m \in queue' : MessageAgrees(m)')
  BY <1>1, <1>2
<1>. QED
  BY <1>3 DEF VerdictsAgree, WorkerAgrees, MessageAgrees, PayAt

LEMMA AgreeStep ==
  ASSUME PaymentTypeOK, VerdictsAgree, NEW w \in PayWorkers, PayStep(w)
  PROVE  VerdictsAgree'
<1>. DEFINE Goal == /\ \A v \in PayWorkers \ {w} : pw'[v] = pw[v]
                    /\ WorkerAgrees(w)'
                    /\ \A m \in queue' \ queue : MessageAgrees(m)'
<1>. SUFFICES Goal
  BY WorkerKeepsPayments, AgreeFrame
<1>0. WorkerAgrees(w)
  BY AgreeParts
<1>1. ASSUME NEW c \in queue, CheckProcessed(w, c)
      PROVE  Goal
  BY <1>1 DEF CheckProcessed, Take, PaySet, PaymentTypeOK, PayTask, PayFree, WorkerAgrees
<1>2. CASE LookupPayment(w)
  <2>1. pw[w].cmd.order \in Orders
    BY <1>2, PayBusyTask DEF LookupPayment, PayAt
  <2>. QED
    BY <1>2, <2>1
    DEF Paid, LookupPayment, PaySet, PaymentsSame, netVars, PaymentTypeOK, PaymentStatuses, PayTask, WorkerAgrees,
        VerdictIs, Charged, Declined
<1>3. ASSUME NEW ok \in BOOLEAN, CreatePayment(w, ok)
      PROVE  Goal
  <2>1. pw[w].cmd.order \in Orders
    BY <1>3, PayBusyTask DEF CreatePayment, PayAt
  <2>. QED
    BY <1>3, <2>1
    DEF CreatePayment, PaySet, netVars, PaymentTypeOK, PayTask, WorkerAgrees, VerdictIs, Charged, Declined
<1>4. CASE CreateConflict(w)
  <2>1. pw[w].cmd \notin Events
    BY <1>4, PayBusyTask, PayMessages DEF CreateConflict, PayAt
  <2>. QED
    BY <1>4, <2>1
    DEF CreateConflict, Return, PaySet, PaymentTypeOK, PayFree, WorkerAgrees, MessageAgrees
<1>5. CASE PayFault(w)
  <2>1. pw[w].cmd \notin Events
    BY <1>5, PayBusyTask, PayMessages DEF PayFault
  <2>. QED
    BY <1>0, <1>5, <2>1
    DEF PayFault, Requeued, Parked, Redelivered, Return, PaySet, PaymentsSame, PaymentTypeOK, PayFree,
        WorkerAgrees, MessageAgrees, VerdictIs, Charged, Declined
<1>6. ASSUME NEW id \in EventIds, PayPublish(w, id)
      PROVE  Goal
  <2>1. pw[w].pc = "answer" /\ pw[w].cmd \notin Events
    BY <1>6, PayBusyTask, PayMessages DEF PayPublish, PublishPaid, PublishPaidUnconfirmed, PayAt
  <2>2. PICK m : m = PaidVerdict(w, id)
    OBVIOUS
  <2>3. PICK c : c = pw[w].cmd
    OBVIOUS
  <2>4. /\ pw'[w] = PayFree
        /\ \A v \in PayWorkers \ {w} : pw'[v] = pw[v]
        /\ queue' \subseteq queue \cup {m, c}
        /\ payment' = payment
    BY <1>6, <2>2, <2>3
    DEF PayPublish, PublishPaid, PublishPaidUnconfirmed, Publish, PaySet, PaymentsSame, PaymentTypeOK
  <2>5. MessageAgrees(m)' /\ MessageAgrees(c)'
    BY <1>0, <2>1, <2>2, <2>3, <2>4
    DEF WorkerAgrees, MessageAgrees, PaidVerdict, Event, VerdictIs, Charged, Declined
  <2>. QED
    BY <2>4, <2>5 DEF PayFree, WorkerAgrees
<1>. QED
  BY <1>1, <1>2, <1>3, <1>4, <1>5, <1>6 DEF PayStep, PayWork

(* Every answer given for an order, to any copy of any of its commands, is *)
(* the verdict on record.                                                  *)
THEOREM VerdictsAlwaysAgree == PaymentSpec => []VerdictsAgree
<1>1. TransportInit /\ PaymentInit => VerdictsAgree
  BY DEF TransportInit, PaymentInit, VerdictsAgree, PayAt, PayFree
<1>2. PaymentTypeOK /\ VerdictsAgree /\ [PaymentNext]_<<netVars, payVars>> => VerdictsAgree'
  <2>. SUFFICES ASSUME PaymentTypeOK, VerdictsAgree, [PaymentNext]_<<netVars, payVars>>
                PROVE  VerdictsAgree'
    OBVIOUS
  <2>1. ASSUME NEW c \in PaymentCmds, PayCmdArrives(c)
        PROVE  VerdictsAgree'
    <3>1. queue' = queue \cup {c} /\ c \notin Events /\ UNCHANGED payVars
      BY <2>1, PayMessages DEF PayCmdArrives, Publish
    <3>. QED
      BY <3>1 DEF payVars, VerdictsAgree, PayAt, VerdictIs, Charged, Declined
  <2>2. ASSUME NEW w \in PayWorkers, PayStep(w)
        PROVE  VerdictsAgree'
    BY <2>2, AgreeStep
  <2>3. ASSUME NEW o \in HttpPayments, PostPayment(o)
        PROVE  VerdictsAgree'
    <3>1. \A q \in Orders : payment[q] # "NONE" => payment'[q] = payment[q]
      BY <2>3, PostKeepsPayments, PaymentAssumption DEF PaymentAssumption
    <3>2. pw' = pw /\ queue' = queue
      BY <2>3 DEF PostPayment, netVars
    <3>. QED
      BY <3>1, <3>2, AgreeFrame
  <2>4. CASE UNCHANGED <<netVars, payVars>>
    BY <2>4 DEF netVars, payVars, VerdictsAgree, PayAt, VerdictIs, Charged, Declined
  <2>. QED
    BY <2>1, <2>2, <2>3, <2>4 DEF PaymentNext, PayStep
<1>. QED
  BY <1>1, <1>2, PaymentTypeCorrect, PTL DEF PaymentSpec, PaymentAlone

-----------------------------------------------------------------------------
(* MarkedWithPayment is inductive with the types: a mark is added only with *)
(* the row it goes with, which the order did not have, so none of its       *)
(* commands was marked.                                                     *)
LEMMA MarksStay ==
  ASSUME PaymentTypeOK, MarkedWithPayment, paidCmds' = paidCmds,
         \A o \in Orders : payment[o] # "NONE" => payment'[o] = payment[o]
  PROVE  MarkedWithPayment'
<1>1. \A k \in paidCmds : k[2] \in Orders
  BY DEF PaymentTypeOK
<1>. QED
  BY <1>1 DEF MarkedWithPayment

LEMMA MarkedStep ==
  ASSUME PaymentTypeOK, MarkedWithPayment, NEW w \in PayWorkers, PayStep(w)
  PROVE  MarkedWithPayment'
<1>1. ASSUME NEW ok \in BOOLEAN, CreatePayment(w, ok)
      PROVE  MarkedWithPayment'
  <2>1. PICK c : c = pw[w].cmd
    OBVIOUS
  <2>2. c.order \in Orders /\ c.kind = "Pay"
    BY <1>1, <2>1, PayBusyTask DEF CreatePayment, PayAt, PaymentCmds
  <2>3. PICK n : n = Key(c)
    OBVIOUS
  <2>4. n[2] = c.order
    BY <2>3 DEF Key
  <2>5. /\ payment[c.order] = "NONE"
        /\ payment'[c.order] \in {"SUCCESS", "FAILED"}
        /\ \A o \in Orders \ {c.order} : payment'[o] = payment[o]
        /\ paidCmds' = paidCmds \cup {n}
    BY <1>1, <2>1, <2>2, <2>3 DEF CreatePayment, Insertable, PaymentTypeOK
  <2>6. \A k \in paidCmds : k[2] \in Orders \ {c.order}
    BY <2>5 DEF PaymentTypeOK, MarkedWithPayment
  <2>. QED
    BY <2>2, <2>4, <2>5, <2>6 DEF MarkedWithPayment
<1>2. CASE UNCHANGED paidCmds
  BY <1>2, WorkerKeepsPayments, MarksStay
<1>. QED
  BY <1>1, <1>2
  DEF PayStep, PayWork, PayPublish, CheckProcessed, LookupPayment, CreateConflict, PayFault,
      PublishPaid, PublishPaidUnconfirmed, PaymentsSame

(* A command is skipped as processed only if its own payment is on record,  *)
(* so never is an order left without a payment because of a mark.           *)
THEOREM MarksHavePayments == PaymentSpec => []MarkedWithPayment
<1>1. TransportInit /\ PaymentInit => MarkedWithPayment
  BY DEF PaymentInit, MarkedWithPayment
<1>2. PaymentTypeOK /\ MarkedWithPayment /\ [PaymentNext]_<<netVars, payVars>> => MarkedWithPayment'
  <2>. SUFFICES ASSUME PaymentTypeOK, MarkedWithPayment, [PaymentNext]_<<netVars, payVars>>
                PROVE  MarkedWithPayment'
    OBVIOUS
  <2>1. ASSUME NEW w \in PayWorkers, PayStep(w)
        PROVE  MarkedWithPayment'
    BY <2>1, MarkedStep
  <2>2. ASSUME NEW o \in HttpPayments, PostPayment(o)
        PROVE  MarkedWithPayment'
    <3>1. \A q \in Orders : payment[q] # "NONE" => payment'[q] = payment[q]
      BY <2>2, PostKeepsPayments, PaymentAssumption DEF PaymentAssumption
    <3>. QED
      BY <2>2, <3>1, MarksStay DEF PostPayment
  <2>3. CASE UNCHANGED payVars
    BY <2>3 DEF payVars, MarkedWithPayment
  <2>. QED
    BY <2>1, <2>2, <2>3 DEF PaymentNext, PayStep, PayCmdArrives
<1>. QED
  BY <1>1, <1>2, PaymentTypeCorrect, PTL DEF PaymentSpec, PaymentAlone
=============================================================================
