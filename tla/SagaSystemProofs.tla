-------------------------- MODULE SagaSystemProofs --------------------------
(* Theorems about the composed system, for every number of orders, workers, *)
(* products, message ids and faults.                                       *)
EXTENDS SagaSystem, OrderServiceProofs, InventoryServiceProofs, PaymentServiceProofs

TypeInv == TransportTypeOK /\ OrderTypeInv /\ InventoryTypeOK /\ PaymentTypeOK

InvSide == (\E w \in InvWorkers : InvStep(w)) \/ Admin
PaySide == (\E w \in PayWorkers : PayStep(w)) \/ (\E o \in Orders : PostPayment(o))

-----------------------------------------------------------------------------
(* A step of the system is a step of one service. *)
LEMMA OneService ==
  ASSUME [Next]_vars
  PROVE  \/ OrdStep /\ UNCHANGED <<invVars, payVars>>
         \/ InvSide /\ UNCHANGED <<ordVars, payVars>>
         \/ PaySide /\ UNCHANGED <<ordVars, invVars>>
         \/ UNCHANGED vars
<1>1. ASSUME ByOrder(\/ \E o \in Orders : HandleRequest(o)
                     \/ \E w \in OrdWorkers : OrderProgress(w)
                     \/ Recovery \/ OrderFault)
      PROVE  OrdStep /\ UNCHANGED <<invVars, payVars>>
  BY <1>1 DEF ByOrder, OrderProgress, Recovery, OrderFault, OrdStep, OrdWorkerStep
<1>2. ASSUME ByInventory((\E w \in InvWorkers : InventoryProgress(w)) \/ Admin \/ InventoryFault)
      PROVE  InvSide /\ UNCHANGED <<ordVars, payVars>>
  BY <1>2 DEF ByInventory, InventoryProgress, InventoryFault, InvSide, InvStep, InvPublish
<1>3. ASSUME ByPayment(\/ \E w \in PayWorkers : PaymentProgress(w)
                       \/ \E o \in HttpPayments : PostPayment(o)
                       \/ PaymentFault)
      PROVE  PaySide /\ UNCHANGED <<ordVars, invVars>>
  BY <1>3, PaymentAssumption
  DEF ByPayment, PaymentProgress, PaymentFault, PaySide, PayStep, PayPublish, PaymentAssumption
<1>. QED
  BY <1>1, <1>2, <1>3 DEF Next

-----------------------------------------------------------------------------
LEMMA InitType == Init => TypeInv
BY OrderInitType, InventoryInitType, PaymentInitType DEF Init, TypeInv

LEMMA StepType == TypeInv /\ [Next]_vars => TypeInv'
<1>. SUFFICES ASSUME TypeInv, [Next]_vars
              PROVE  TypeInv'
  OBVIOUS
<1>0. TransportTypeOK /\ OrderTypeInv /\ InventoryTypeOK /\ PaymentTypeOK
  BY DEF TypeInv
<1>1. UNCHANGED ordVars => OrderTypeInv'
  BY <1>0 DEF ordVars, OrderTypeInv, OrderTypeOK, CommitHasSaga
<1>2. UNCHANGED invVars => InventoryTypeOK'
  BY <1>0 DEF invVars, InventoryTypeOK
<1>3. UNCHANGED payVars => PaymentTypeOK'
  BY <1>0 DEF payVars, PaymentTypeOK
<1>4. UNCHANGED netVars => TransportTypeOK'
  BY <1>0 DEF netVars, TransportTypeOK
<1>5. CASE OrdStep /\ UNCHANGED <<invVars, payVars>>
  BY <1>0, <1>2, <1>3, <1>5, OrdStepType DEF TypeInv
<1>6. CASE InvSide /\ UNCHANGED <<ordVars, payVars>>
  BY <1>0, <1>1, <1>3, <1>4, <1>6, InvStepType, AdminType DEF InvSide, TypeInv
<1>7. CASE PaySide /\ UNCHANGED <<ordVars, invVars>>
  BY <1>0, <1>1, <1>2, <1>4, <1>7, PayStepType, PostPaymentType DEF PaySide, TypeInv
<1>8. CASE UNCHANGED vars
  BY <1>1, <1>2, <1>3, <1>4, <1>8 DEF vars, TypeInv
<1>. QED
  BY <1>5, <1>6, <1>7, <1>8, OneService

(* The composed system never leaves its types, whatever is requested,      *)
(* duplicated, lost or retried: no quantity becomes negative, no worker    *)
(* handles what it cannot, no saga has a step the code does not know.      *)
THEOREM TypeCorrect == Spec => []TypeOK
<1>1. TypeInv => TypeOK
  BY DEF TypeInv, TypeOK, OrderTypeInv
<1>. QED
  BY <1>1, InitType, StepType, PTL DEF Spec

-----------------------------------------------------------------------------
(* What one service has done to an order, no later step undoes. *)
FactsStay ==
  \A o \in Orders : /\ Reserved(o) => Reserved(o)'
                    /\ Released(o) => Released(o)'
                    /\ Charged(o) => Charged(o)'
                    /\ Declined(o) => Declined(o)'

LEMMA UnchangedFacts ==
  UNCHANGED <<reserveLogs, releaseLogs, payment>> => FactsStay
BY DEF FactsStay, Reserved, Released, Charged, Declined

LEMMA PaymentFacts ==
  (\A o \in Orders : payment[o] # "NONE" => payment'[o] = payment[o])
    /\ UNCHANGED <<reserveLogs, releaseLogs>> => FactsStay
BY DEF FactsStay, Reserved, Released, Charged, Declined

LEMMA FactsStayTrue ==
  ASSUME TypeInv, [Next]_vars
  PROVE  FactsStay
<1>0. InventoryTypeOK /\ PaymentTypeOK
  BY DEF TypeInv
<1>1. CASE OrdStep /\ UNCHANGED <<invVars, payVars>>
  BY <1>1, UnchangedFacts DEF invVars, payVars
<1>2. CASE InvSide /\ UNCHANGED <<ordVars, payVars>>
  <2>1. CASE \E w \in InvWorkers : InvStep(w)
    <3>1. payment' = payment
      BY <1>2 DEF payVars
    <3>. QED
      BY <1>0, <2>1, <3>1, LogsGrow DEF FactsStay, Charged, Declined
  <2>2. CASE Admin
    BY <1>2, <2>2, UnchangedFacts DEF Admin, CreateSKU, UpdateAvailableQty, payVars
  <2>. QED
    BY <1>2, <2>1, <2>2 DEF InvSide
<1>3. CASE PaySide /\ UNCHANGED <<ordVars, invVars>>
  <2>1. \A o \in Orders : payment[o] # "NONE" => payment'[o] = payment[o]
    BY <1>0, <1>3, WorkerKeepsPayments, PostKeepsPayments DEF PaySide
  <2>. QED
    BY <1>3, <2>1, PaymentFacts DEF invVars
<1>4. CASE UNCHANGED vars
  BY <1>4, UnchangedFacts DEF vars, invVars, payVars
<1>. QED
  BY <1>1, <1>2, <1>3, <1>4, OneService

-----------------------------------------------------------------------------
(* Evidence stays true: a message or a task that nobody touches needs no   *)
(* new proof.                                                              *)
LEMMA EvidenceStays ==
  ASSUME FactsStay, NEW m \in Messages, Evidence(m)
  PROVE  Evidence(m)'
<1>1. m.order \in Orders
  BY DEF Messages, InventoryCmds, PaymentCmds, Events
<1>. QED
  BY <1>1 DEF FactsStay, Evidence, VerdictIs, Reserved, Released, Charged, Declined

LEMMA StepEvidenceStays ==
  ASSUME FactsStay, NEW o \in Orders, NEW r, StepEvidence(o, r)
  PROVE  StepEvidence(o, r)'
BY DEF FactsStay, StepEvidence, Reserved, Charged, Declined

(* The facts themselves, and what customers are shown, of one order. *)
OrderEvidence(o) ==
  /\ Charged(o) => Reserved(o)
  /\ Released(o) => Reserved(o) /\ Declined(o)
  /\ order[o] = "CONFIRMED" => Charged(o)
  /\ order[o] = "COMPENSATED" => Released(o)

LEMMA OrderEvidenceStays ==
  ASSUME FactsStay, UNCHANGED <<reserveLogs, releaseLogs, payment>>, NEW o \in Orders, OrderEvidence(o),
         \/ order'[o] = order[o]
         \/ order'[o] \notin {"CONFIRMED", "COMPENSATED"}
         \/ order'[o] = "CONFIRMED" /\ Charged(o)
         \/ order'[o] = "COMPENSATED" /\ Released(o)
  PROVE  OrderEvidence(o)'
BY DEF OrderEvidence, Reserved, Released, Charged, Declined

EvidenceInv == TypeInv /\ TrueEvidence

LEMMA EvidenceParts ==
  ASSUME TrueEvidence
  PROVE  /\ \A m \in queue : Evidence(m)
         /\ \A w \in OrdWorkers : OrdTaskEvidence(ow[w])
         /\ \A w \in InvWorkers : InvTaskEvidence(iw[w])
         /\ \A w \in PayWorkers : PayTaskEvidence(pw[w])
         /\ \A o \in Orders : StepEvidence(o, saga[o])
         /\ \A t \in todo : StepEvidence(t.order, t.row)
         /\ \A o \in Orders : OrderEvidence(o)
BY DEF TrueEvidence, OrderEvidence

(* What a step leaves alone stays true; what it sets must be shown.  One   *)
(* lemma per kind of state.                                                *)
LEMMA MessagesStay ==
  ASSUME EvidenceInv, FactsStay, \A m \in queue' \ queue : Evidence(m)'
  PROVE  (\A m \in queue : Evidence(m))'
<1>1. ASSUME NEW m \in queue
      PROVE  Evidence(m)'
  BY <1>1, EvidenceStays, EvidenceParts DEF EvidenceInv, TypeInv, TransportTypeOK
<1>. QED
  BY <1>1

LEMMA OrdTasksStay ==
  ASSUME EvidenceInv, FactsStay,
         \A w \in OrdWorkers : ow'[w] = ow[w] \/ OrdTaskEvidence(ow[w])'
  PROVE  (\A w \in OrdWorkers : OrdTaskEvidence(ow[w]))'
<1>1. ASSUME NEW w \in OrdWorkers, ow'[w] = ow[w]
      PROVE  OrdTaskEvidence(ow[w])'
  <2>1. ow[w] # OrdFree => ow[w].msg \in Messages
    BY OrdBusyTask, OrdMessages DEF EvidenceInv, TypeInv, OrderTypeInv
  <2>2. PICK t : t = ow[w]
    OBVIOUS
  <2>3. OrdTaskEvidence(t) /\ (t # OrdFree => t.msg \in Messages)
    BY <2>1, <2>2, EvidenceParts DEF EvidenceInv
  <2>4. t # OrdFree => Evidence(t.msg)'
    BY <2>3, EvidenceStays DEF OrdTaskEvidence
  <2>. QED
    BY <1>1, <2>2, <2>3, <2>4
    DEF OrdTaskEvidence, Evidence, VerdictIs, Reserved, Released, Charged, Declined
<1>. QED
  BY <1>1

LEMMA InvTasksStay ==
  ASSUME EvidenceInv, FactsStay,
         \A w \in InvWorkers : iw'[w] = iw[w] \/ InvTaskEvidence(iw[w])'
  PROVE  (\A w \in InvWorkers : InvTaskEvidence(iw[w]))'
<1>1. ASSUME NEW w \in InvWorkers, iw'[w] = iw[w]
      PROVE  InvTaskEvidence(iw[w])'
  <2>1. iw[w] # InvFree => iw[w].cmd \in Messages /\ iw[w].cmd.order \in Orders
    BY BusyTask, BusyIsNotFree, InvMessages DEF EvidenceInv, TypeInv
  <2>2. PICK t : t = iw[w]
    OBVIOUS
  <2>3. InvTaskEvidence(t) /\ (t # InvFree => t.cmd \in Messages /\ t.cmd.order \in Orders)
    BY <2>1, <2>2, EvidenceParts DEF EvidenceInv
  <2>4. t # InvFree => Evidence(t.cmd)'
    BY <2>3, EvidenceStays DEF InvTaskEvidence
  <2>. QED
    BY <1>1, <2>2, <2>3, <2>4
    DEF FactsStay, InvTaskEvidence, Backed, Evidence, VerdictIs, Reserved, Released, Charged, Declined
<1>. QED
  BY <1>1

LEMMA PayTasksStay ==
  ASSUME EvidenceInv, FactsStay,
         \A w \in PayWorkers : pw'[w] = pw[w] \/ PayTaskEvidence(pw[w])'
  PROVE  (\A w \in PayWorkers : PayTaskEvidence(pw[w]))'
<1>1. ASSUME NEW w \in PayWorkers, pw'[w] = pw[w]
      PROVE  PayTaskEvidence(pw[w])'
  <2>1. pw[w] # PayFree => pw[w].cmd \in Messages /\ pw[w].cmd.order \in Orders
    BY PayBusyTask, PayMessages DEF EvidenceInv, TypeInv
  <2>2. PICK t : t = pw[w]
    OBVIOUS
  <2>3. PayTaskEvidence(t) /\ (t # PayFree => t.cmd \in Messages /\ t.cmd.order \in Orders)
    BY <2>1, <2>2, EvidenceParts DEF EvidenceInv
  <2>4. t # PayFree => Evidence(t.cmd)'
    BY <2>3, EvidenceStays DEF PayTaskEvidence
  <2>. QED
    BY <1>1, <2>2, <2>3, <2>4
    DEF FactsStay, PayTaskEvidence, Evidence, VerdictIs, Reserved, Released, Charged, Declined
<1>. QED
  BY <1>1

LEMMA RowsStay ==
  ASSUME EvidenceInv, FactsStay,
         \A o \in Orders : saga'[o] = saga[o] \/ StepEvidence(o, saga[o])',
         \A t \in todo' \ todo : StepEvidence(t.order, t.row)'
  PROVE  /\ (\A o \in Orders : StepEvidence(o, saga[o]))'
         /\ (\A t \in todo : StepEvidence(t.order, t.row))'
<1>1. ASSUME NEW o \in Orders, saga'[o] = saga[o]
      PROVE  StepEvidence(o, saga[o])'
  <2>1. PICK r : r = saga[o]
    OBVIOUS
  <2>2. StepEvidence(o, r)'
    BY <2>1, EvidenceParts, StepEvidenceStays DEF EvidenceInv
  <2>. QED
    BY <1>1, <2>1, <2>2 DEF StepEvidence, Reserved, Charged, Declined
<1>2. ASSUME NEW t \in todo
      PROVE  StepEvidence(t.order, t.row)'
  <2>1. t.order \in Orders
    BY DEF EvidenceInv, TypeInv, OrderTypeInv, OrderTypeOK
  <2>. QED
    BY <2>1, EvidenceParts, StepEvidenceStays DEF EvidenceInv
<1>. QED
  BY <1>1, <1>2

-----------------------------------------------------------------------------
(* Steps of order-service: no fact changes; it must have evidence for what *)
(* it sends, writes and shows.                                             *)
LEMMA OrdFrame ==
  ASSUME EvidenceInv, UNCHANGED <<invVars, payVars>>,
         \A m \in queue' \ queue : Evidence(m)',
         \A w \in OrdWorkers : ow'[w] = ow[w] \/ OrdTaskEvidence(ow[w])',
         \A o \in Orders : saga'[o] = saga[o] \/ StepEvidence(o, saga[o])',
         \A t \in todo' \ todo : StepEvidence(t.order, t.row)',
         \A o \in Orders : \/ order'[o] = order[o]
                           \/ order'[o] \notin {"CONFIRMED", "COMPENSATED"}
                           \/ order'[o] = "CONFIRMED" /\ Charged(o)
                           \/ order'[o] = "COMPENSATED" /\ Released(o)
  PROVE  TrueEvidence'
<1>1. FactsStay
  BY UnchangedFacts DEF invVars, payVars
<1>2. \A w \in InvWorkers : iw'[w] = iw[w]
  BY DEF invVars
<1>3. \A w \in PayWorkers : pw'[w] = pw[w]
  BY DEF payVars
<1>4. \A o \in Orders : OrderEvidence(o)'
  BY <1>1, EvidenceParts, OrderEvidenceStays DEF EvidenceInv, invVars, payVars
<1>5. /\ (\A m \in queue : Evidence(m))'
      /\ (\A w \in OrdWorkers : OrdTaskEvidence(ow[w]))'
      /\ (\A w \in InvWorkers : InvTaskEvidence(iw[w]))'
      /\ (\A w \in PayWorkers : PayTaskEvidence(pw[w]))'
      /\ (\A o \in Orders : StepEvidence(o, saga[o]))'
      /\ (\A t \in todo : StepEvidence(t.order, t.row))'
  BY <1>1, <1>2, <1>3, MessagesStay, OrdTasksStay, InvTasksStay, PayTasksStay, RowsStay
<1>. QED
  BY <1>4, <1>5 DEF TrueEvidence, OrderEvidence

LEMMA UnprimedEvidence ==
  ASSUME UNCHANGED <<invVars, payVars>>
  PROVE  /\ \A m : Evidence(m) => Evidence(m)'
         /\ \A o, r : StepEvidence(o, r) => StepEvidence(o, r)'
BY DEF invVars, payVars, Evidence, StepEvidence, VerdictIs, Reserved, Released, Charged, Declined

LEMMA RequestEvidence ==
  ASSUME EvidenceInv, UNCHANGED <<invVars, payVars>>,
         NEW o \in Orders, HandleRequest(o) \/ RequestFails(o)
  PROVE  TrueEvidence'
<1>. USE DEF EvidenceInv, TypeInv, OrderTypeInv
<1>1. Evidence(ReserveCmd(o)) /\ StepEvidence(o, SagaRow("RESERVING_INVENTORY", "IN_PROGRESS"))
  BY DEF Evidence, StepEvidence, ReserveCmd, SagaRow
<1>2. \A m \in queue' \ queue : Evidence(m)'
  BY <1>1, UnprimedEvidence
  DEF HandleRequest, CreateOrder, CreateSaga, SendReserve, RequestFails, Publish, netVars
<1>3. /\ ow' = ow /\ todo' = todo
      /\ \A q \in Orders : order'[q] = order[q] \/ order'[q] = "PENDING"
      /\ \/ saga' = saga
         \/ saga' = [saga EXCEPT ![o] = SagaRow("RESERVING_INVENTORY", "IN_PROGRESS")]
  BY DEF HandleRequest, CreateOrder, CreateSaga, SendReserve, RequestFails, RequestSame, OrderTypeOK
<1>4. \A q \in Orders : saga'[q] = saga[q] \/ StepEvidence(q, saga[q])'
  BY <1>1, <1>3, UnprimedEvidence
  DEF OrderTypeOK, StepEvidence, Reserved, Charged, Declined, invVars, payVars
<1>. QED
  BY <1>2, <1>3, <1>4, OrdFrame

(* A transaction writes, for the order of the event it holds, a row and a  *)
(* status that the event is evidence for.                                  *)
LEMMA CommitEvidence ==
  ASSUME EvidenceInv, UNCHANGED <<invVars, payVars>>,
         NEW w \in OrdWorkers, ow[w].pc = "commit",
         NEW m, m = ow[w].msg, NEW status, NEW row, NEW next \in BOOLEAN,
         Commit(w, status, row, next),
         StepEvidence(m.order, row),
         next => (m.kind = "Reserved" /\ m.ok) \/ (m.kind = "Paid" /\ ~ m.ok),
         \/ status = order[m.order]
         \/ status \notin {"CONFIRMED", "COMPENSATED"}
         \/ status = "CONFIRMED" /\ Charged(m.order)
         \/ status = "COMPENSATED" /\ Released(m.order)
  PROVE  TrueEvidence'
<1>. USE DEF EvidenceInv, TypeInv, OrderTypeInv
<1>1. Evidence(m) /\ ow[w] # OrdFree
  BY EvidenceParts DEF OrdTaskEvidence, OrdFree
<1>2. /\ ow'[w] = OrdFree \/ (next /\ ow'[w] = EventTask("publish", m))
      /\ \A v \in OrdWorkers : v # w => ow'[v] = ow[v]
      /\ queue' = queue /\ todo' = todo
      /\ \A o \in Orders : o # m.order => order'[o] = order[o] /\ saga'[o] = saga[o]
      /\ m.order \in Orders => order'[m.order] = status /\ saga'[m.order] = row
  BY DEF Commit, OrdSet, netVars, OrderTypeOK
<1>3. OrdTaskEvidence(ow[w])'
  <2>1. Evidence(m)'
    BY <1>1, UnprimedEvidence
  <2>. QED
    BY <1>2, <2>1
    DEF OrdTaskEvidence, OrdFree, EventTask, Evidence, VerdictIs, Reserved, Released, Charged, Declined
<1>4. m.order \in Orders => StepEvidence(m.order, saga[m.order])'
  <2>1. StepEvidence(m.order, row)'
    BY UnprimedEvidence
  <2>. QED
    BY <1>2, <2>1 DEF StepEvidence, Reserved, Charged, Declined
<1>5. \A o \in Orders : saga'[o] = saga[o] \/ StepEvidence(o, saga[o])'
  BY <1>2, <1>4 DEF StepEvidence, Reserved, Charged, Declined
<1>. QED
  BY <1>2, <1>3, <1>5, OrdFrame

LEMMA CommitsEvidence ==
  ASSUME EvidenceInv, UNCHANGED <<invVars, payVars>>, NEW w \in OrdWorkers,
         CommitInventoryReserved(w) \/ CommitPaymentProcessed(w) \/ CommitInventoryReleased(w)
  PROVE  TrueEvidence'
<1>a. ow[w].pc = "commit"
  BY DEF CommitInventoryReserved, CommitPaymentProcessed, CommitInventoryReleased, OrdAt
<1>0. PICK m : m = ow[w].msg
  OBVIOUS
<1>1. /\ ow[w].pc = "commit" /\ ow[w] # OrdFree
      /\ Evidence(m) /\ m \in Events /\ m.order \in Orders
  <2>1. ow[w].pc = "commit" /\ ow[w] # OrdFree
    BY <1>a DEF OrdFree
  <2>2. m \in Events /\ m.order \in Orders
    BY <1>0, <2>1, OrdBusyTask DEF EvidenceInv, TypeInv, OrderTypeInv
  <2>3. Evidence(m)
    BY <1>0, <2>1, EvidenceParts DEF EvidenceInv, OrdTaskEvidence
  <2>. QED
    BY <2>1, <2>2, <2>3
<1>2. StepEvidence(m.order, saga[m.order]) /\ OrderEvidence(m.order)
  BY <1>1, EvidenceParts DEF EvidenceInv
<1>3. StepEvidence(m.order, SagaRow("DONE", "FAILED"))
  BY DEF StepEvidence, SagaRow
<1>4. CASE CommitInventoryReserved(w)
  <2>1. saga[m.order] \in SagaRows
    BY <1>0, <1>1 DEF EvidenceInv, TypeInv, OrderTypeInv, OrderTypeOK, CommitHasSaga
  <2>2. m.kind = "Reserved"
    BY <1>0, <1>4 DEF CommitInventoryReserved
  <2>3. m.ok => StepEvidence(m.order, [saga[m.order] EXCEPT !.step = "PROCESSING_PAYMENT"])
    BY <1>1, <1>2, <2>1, <2>2 DEF StepEvidence, SagaRows, Evidence
  <2>. QED
    BY <1>0, <1>1, <1>3, <1>4, <2>2, <2>3, CommitEvidence DEF CommitInventoryReserved
<1>5. CASE CommitPaymentProcessed(w)
  <2>1. m.kind = "Paid"
    BY <1>0, <1>5 DEF CommitPaymentProcessed
  <2>2. /\ m.ok => Charged(m.order) /\ StepEvidence(m.order, SagaRow("DONE", "COMPLETED"))
        /\ ~ m.ok => StepEvidence(m.order, SagaRow("RELEASING_INVENTORY", "COMPENSATING"))
    BY <1>1, <2>1 DEF StepEvidence, SagaRow, Evidence, VerdictIs
  <2>. QED
    BY <1>0, <1>1, <1>5, <2>1, <2>2, CommitEvidence DEF Compensation, CommitPaymentProcessed
<1>6. CASE CommitInventoryReleased(w)
  <2>1. m.kind = "Released"
    BY <1>0, <1>6 DEF CommitInventoryReleased
  <2>2. m.ok => Released(m.order) /\ StepEvidence(m.order, SagaRow("DONE", "COMPENSATED"))
    BY <1>1, <1>2, <2>1 DEF StepEvidence, SagaRow, Evidence, OrderEvidence
  <2>. QED
    BY <1>0, <1>1, <1>3, <1>6, <2>1, <2>2, CommitEvidence DEF CommitInventoryReleased
<1>. QED
  BY <1>4, <1>5, <1>6

LEMMA OrdWorkerEvidence ==
  ASSUME EvidenceInv, UNCHANGED <<invVars, payVars>>, NEW w \in OrdWorkers, OrdWorkerStep(w)
  PROVE  TrueEvidence'
<1>0. OrderTypeOK
  BY DEF EvidenceInv, TypeInv, OrderTypeInv
<1>1. \A m \in queue : Evidence(m)
  BY EvidenceParts DEF EvidenceInv
<1>2. ow[w] # OrdFree => Evidence(ow[w].msg)
  BY EvidenceParts DEF EvidenceInv, OrdTaskEvidence
<1>3. ASSUME NEW m \in queue, BeginEvent(w, m)
      PROVE  TrueEvidence'
  <2>1. Evidence(m)'
    BY <1>1, UnprimedEvidence
  <2>2. /\ ow'[w] = OrdFree \/ ow'[w] = EventTask("commit", m)
        /\ \A v \in OrdWorkers : v # w => ow'[v] = ow[v]
        /\ queue' \subseteq queue
        /\ UNCHANGED <<order, saga, todo>>
    BY <1>0, <1>3 DEF BeginEvent, OrdSet, Take, OrderRows, OrderTypeOK
  <2>3. OrdTaskEvidence(ow[w])'
    BY <2>1, <2>2
    DEF OrdTaskEvidence, EventTask, OrdFree, Evidence, VerdictIs, Reserved, Released, Charged, Declined
  <2>. QED
    BY <2>2, <2>3, OrdFrame
<1>4. CASE CommitInventoryReserved(w) \/ CommitPaymentProcessed(w) \/ CommitInventoryReleased(w)
  BY <1>4, CommitsEvidence
<1>5. ASSUME \A m \in queue' \ queue : Evidence(m),
             ow' = [ow EXCEPT ![w] = OrdFree] \/ ow' = ow, UNCHANGED <<OrderRows, todo>>
      PROVE  TrueEvidence'
  <2>1. \A m \in queue' \ queue : Evidence(m)'
    BY <1>5, UnprimedEvidence
  <2>2. \A v \in OrdWorkers : ow'[v] = ow[v] \/ ow'[v] = OrdFree
    BY <1>0, <1>5 DEF OrderTypeOK
  <2>3. \A v \in OrdWorkers : ow'[v] = ow[v] \/ OrdTaskEvidence(ow[v])'
    BY <2>2 DEF OrdTaskEvidence
  <2>4. order' = order /\ saga' = saga /\ todo' = todo
    BY <1>5 DEF OrderRows
  <2>. QED
    BY <2>1, <2>3, <2>4, OrdFrame
<1>6. CASE CommitConflict(w) \/ OrdFault(w)
  <2>1. Evidence(ow[w].msg)
    BY <1>2, <1>6 DEF CommitConflict, OrdFault, OrdAt, OrdFree
  <2>2. \A m \in queue' \ queue : Evidence(m)
    BY <1>6, <2>1 DEF CommitConflict, OrdFault, Requeued, Parked, Redelivered, Return
  <2>3. (ow' = [ow EXCEPT ![w] = OrdFree] \/ ow' = ow) /\ UNCHANGED <<OrderRows, todo>>
    BY <1>6 DEF CommitConflict, OrdFault, OrdSet
  <2>. QED
    BY <1>5, <2>2, <2>3
<1>7. ASSUME NEW id \in CmdIds, PublishNext(w, id) \/ PublishNextUnconfirmed(w, id)
      PROVE  TrueEvidence'
  <2>1. PICK m : m = ow[w].msg
    OBVIOUS
  <2>2. /\ Evidence(m)
        /\ (m.kind = "Reserved" /\ m.ok) \/ (m.kind = "Paid" /\ ~ m.ok)
    BY <1>2, <1>7, <2>1, EvidenceParts
    DEF PublishNext, PublishNextUnconfirmed, OrdAt, OrdFree, OrdTaskEvidence, EvidenceInv
  <2>3. Evidence(NextCommand(m, id))
    BY <2>2 DEF NextCommand, Evidence, PayCmd, ReleaseCmd, VerdictIs
  <2>4. /\ queue' \subseteq queue \cup {NextCommand(m, id), m}
        /\ ow' = [ow EXCEPT ![w] = OrdFree] /\ UNCHANGED <<OrderRows, todo>>
    BY <1>7, <2>1 DEF PublishNext, PublishNextUnconfirmed, Publish, OrdSet
  <2>5. \A n \in queue' \ queue : Evidence(n)
    BY <2>2, <2>3, <2>4
  <2>. QED
    BY <1>5, <2>4, <2>5
<1>. QED
  BY <1>3, <1>4, <1>6, <1>7 DEF OrdWorkerStep, OrdWork

(* The recovery loop: a listed row is old evidence, but evidence still. *)
LEMMA RecoveryEvidence ==
  ASSUME EvidenceInv, UNCHANGED <<invVars, payVars>>,
         \/ \E status \in Live : ListByStatus(status)
         \/ \E t \in todo : SkipSaga(t) \/ \E id \in CmdIds : RecoverSaga(t, id)
         \/ RecoveryFault
  PROVE  TrueEvidence'
<1>1. /\ \A o \in Orders : StepEvidence(o, saga[o])
      /\ \A t \in todo : StepEvidence(t.order, t.row)
  BY EvidenceParts DEF EvidenceInv
<1>2. \A t \in todo' \ todo : StepEvidence(t.order, t.row)'
  <2>1. ASSUME NEW t \in todo' \ todo
        PROVE  StepEvidence(t.order, t.row)
    <3>1. PICK o \in Orders : t = [order |-> o, row |-> saga[o]]
      BY <2>1 DEF ListByStatus, SkipSaga, RecoverSaga, RecoveryFault
    <3>. QED
      BY <1>1, <3>1
  <2>. QED
    BY <2>1, UnprimedEvidence
<1>3. \A m \in queue' \ queue : Evidence(m)'
  <2>1. ASSUME NEW t \in todo, NEW id \in CmdIds, RecoverSaga(t, id)
        PROVE  Evidence(Resend(t.row, t.order, id))
    BY <1>1, <2>1
    DEF RecoverSaga, Recoverable, Resend, StepEvidence, Evidence, ReserveCmd, ReleaseCmd, PayCmd
  <2>. QED
    BY <2>1, UnprimedEvidence DEF ListByStatus, SkipSaga, RecoverSaga, RecoveryFault, Publish, netVars
<1>4. UNCHANGED <<order, saga, ow>>
  BY DEF ListByStatus, SkipSaga, RecoverSaga, RecoveryFault, OrderRows
<1>. QED
  BY <1>2, <1>3, <1>4, OrdFrame

LEMMA OrdEvidence ==
  ASSUME EvidenceInv, OrdStep, UNCHANGED <<invVars, payVars>>
  PROVE  TrueEvidence'
BY RequestEvidence, OrdWorkerEvidence, RecoveryEvidence DEF OrdStep

-----------------------------------------------------------------------------
(* Steps of inventory-service. *)
LEMMA InvFrame ==
  ASSUME EvidenceInv, FactsStay, UNCHANGED <<ordVars, payVars>>,
         \A m \in queue' \ queue : Evidence(m)',
         \A w \in InvWorkers : iw'[w] = iw[w] \/ InvTaskEvidence(iw[w])',
         \A o \in Orders : Released(o)' => Released(o) \/ (Reserved(o) /\ Declined(o))
  PROVE  TrueEvidence'
<1>1. \A o \in Orders : OrderEvidence(o)'
  BY EvidenceParts
  DEF EvidenceInv, FactsStay, OrderEvidence, ordVars, payVars, Reserved, Released, Charged, Declined
<1>2. (\A w \in OrdWorkers : ow'[w] = ow[w]) /\ (\A w \in PayWorkers : pw'[w] = pw[w])
      /\ saga' = saga /\ todo' = todo
  BY DEF ordVars, payVars
<1>3. /\ (\A m \in queue : Evidence(m))'
      /\ (\A w \in OrdWorkers : OrdTaskEvidence(ow[w]))'
      /\ (\A w \in InvWorkers : InvTaskEvidence(iw[w]))'
      /\ (\A w \in PayWorkers : PayTaskEvidence(pw[w]))'
      /\ (\A o \in Orders : StepEvidence(o, saga[o]))'
      /\ (\A t \in todo : StepEvidence(t.order, t.row))'
  BY <1>2, MessagesStay, OrdTasksStay, InvTasksStay, PayTasksStay, RowsStay
<1>. QED
  BY <1>1, <1>3 DEF TrueEvidence, OrderEvidence

(* A worker whose command is evidence, whose place fits the command and    *)
(* whose success is logged.                                                *)
LEMMA NewInvTask ==
  ASSUME NEW w \in InvWorkers, NEW t, t = iw'[w],
         t = InvFree \/ (/\ Evidence(t.cmd)'
                         /\ t.pc \in {"read", "cas"} => t.cmd.kind = "Reserve"
                         /\ t.pc = "refund" => t.cmd.kind = "Release"
                         /\ t.pc = "answer" /\ t.ok => Backed(t.cmd.kind, t.cmd.order)')
  PROVE  InvTaskEvidence(iw[w])'
BY DEF InvTaskEvidence, Evidence, Backed, VerdictIs, Reserved, Released, Charged, Declined

LEMMA InvWorkerEvidence ==
  ASSUME EvidenceInv, FactsStay, UNCHANGED <<ordVars, payVars>>, NEW w \in InvWorkers, InvStep(w)
  PROVE  TrueEvidence'
<1>0. InventoryTypeOK /\ (\A m \in queue : Evidence(m)) /\ InvTaskEvidence(iw[w]) /\ payment' = payment
  BY EvidenceParts DEF EvidenceInv, TypeInv, payVars
<1>a. PICK t : t = iw[w]
  OBVIOUS
<1>b. PICK u : u = iw'[w]
  OBVIOUS
<1>c. t # InvFree => /\ Evidence(t.cmd) /\ Evidence(t.cmd)'
                     /\ t.cmd \in InventoryCmds /\ t.cmd.order \in Orders
  BY <1>0, <1>a, BusyTask, BusyIsNotFree, InvMessages, EvidenceStays DEF InvTaskEvidence
<1>. DEFINE Others == \A v \in InvWorkers : v # w => iw'[v] = iw[v]
            NoRelease == \A o \in Orders : Released(o)' => Released(o)
            TaskGoal == u = InvFree \/ (/\ Evidence(u.cmd)'
                                        /\ u.pc \in {"read", "cas"} => u.cmd.kind = "Reserve"
                                        /\ u.pc = "refund" => u.cmd.kind = "Release"
                                        /\ u.pc = "answer" /\ u.ok => Backed(u.cmd.kind, u.cmd.order)')
<1>d. ASSUME Others, TaskGoal, \A m \in queue' \ queue : Evidence(m)',
             \A o \in Orders : Released(o)' => Released(o) \/ (Reserved(o) /\ Declined(o))
      PROVE  TrueEvidence'
  BY <1>b, <1>d, NewInvTask, InvFrame
<1>1. ASSUME NEW o \in Orders, CheckReserve(w, o)
      PROVE  TrueEvidence'
  <2>1. Others /\ queue' \subseteq queue /\ NoRelease
    BY <1>0, <1>1 DEF CheckReserve, InvSet, Take, StockSame, InventoryTypeOK, Released
  <2>2. Evidence(ReserveCmd(o))'
    BY DEF Evidence, ReserveCmd
  <2>3. \/ u = Answer(ReserveCmd(o), TRUE) /\ Reserved(o)'
        \/ u = Task("read", ReserveCmd(o), 0, 0, FALSE)
    BY <1>0, <1>1, <1>b DEF ExistsReserve, CheckReserve, InvSet, StockSame, Reserved, InventoryTypeOK
  <2>4. TaskGoal
    BY <2>2, <2>3 DEF Answer, Task, ReserveCmd, Backed, Reserved
  <2>. QED
    BY <1>d, <2>1, <2>4
<1>2. ASSUME NEW o \in Orders, CheckRelease(w, o)
      PROVE  TrueEvidence'
  <2>1. Others /\ queue' \subseteq queue /\ NoRelease
    BY <1>0, <1>2 DEF CheckRelease, InvSet, Take, StockSame, InventoryTypeOK, Released
  <2>2. Evidence(ReleaseCmd(o))'
    BY <1>0, <1>2, InvMessages, EvidenceStays DEF CheckRelease, Take
  <2>3. \/ u = Answer(ReleaseCmd(o), TRUE) /\ Released(o)'
        \/ u = Task("refund", ReleaseCmd(o), 0, 0, FALSE)
    BY <1>0, <1>2, <1>b DEF ExistsRelease, CheckRelease, InvSet, StockSame, Released, InventoryTypeOK
  <2>4. TaskGoal
    BY <2>2, <2>3 DEF Answer, Task, ReleaseCmd, Backed, Released
  <2>. QED
    BY <1>d, <2>1, <2>4
<1>3. CASE ReadStock(w) \/ LockConflict(w)
  <2>1. Others /\ queue' = queue /\ NoRelease
    BY <1>0, <1>3 DEF ReadStock, LockConflict, InvSet, StockSame, netVars, InventoryTypeOK, Released
  <2>2. t # InvFree /\ t.cmd.kind = "Reserve"
    <3>1. t.pc \in {"read", "cas"}
      BY <1>3, <1>a DEF ReadStock, LockConflict, InvAt
    <3>. QED
      BY <1>0, <1>a, <3>1 DEF InvFree, InvTaskEvidence
  <2>3. \/ u = Answer(t.cmd, FALSE)
        \/ \E n, v : u = Task("cas", t.cmd, n, v, FALSE) \/ u = Task("read", t.cmd, n, v, FALSE)
    BY <1>0, <1>3, <1>a, <1>b DEF ReadStock, LockConflict, InvSet, InventoryTypeOK
  <2>4. TaskGoal
    BY <1>c, <2>2, <2>3 DEF Answer, Task
  <2>. QED
    BY <1>d, <2>1, <2>4
<1>4. CASE ReadNothing(w) \/ InvFault(w)
  <2>1. Others /\ queue' \subseteq queue \cup {t.cmd} /\ NoRelease
    BY <1>0, <1>4, <1>a
    DEF ReadNothing, InvFault, Requeued, Parked, Redelivered, Return, InvSet, StockSame, InventoryTypeOK, Released
  <2>2. t # InvFree
    BY <1>4, <1>a DEF ReadNothing, InvFault, InvBusy, InvAt, InvFree
  <2>3. u = InvFree \/ (u = t /\ reserveLogs' = reserveLogs /\ releaseLogs' = releaseLogs)
    BY <1>0, <1>4, <1>a, <1>b DEF ReadNothing, InvFault, InvSet, StockSame, InventoryTypeOK
  <2>4. TaskGoal
    BY <1>0, <1>a, <1>c, <2>2, <2>3 DEF InvTaskEvidence, Backed, Reserved, Released
  <2>5. \A m \in queue' \ queue : Evidence(m)'
    BY <1>c, <2>1, <2>2
  <2>. QED
    BY <1>d, <2>1, <2>4, <2>5
<1>5. CASE ReserveAtomic(w)
  <2>1. Others /\ queue' = queue /\ NoRelease
    BY <1>0, <1>5 DEF ReserveAtomic, InvSet, netVars, InventoryTypeOK, Released
  <2>2. t # InvFree /\ t.cmd.kind = "Reserve"
    BY <1>0, <1>5, <1>a DEF ReserveAtomic, InvAt, InvFree, InvTaskEvidence
  <2>3. u = Answer(t.cmd, TRUE)
    BY <1>0, <1>5, <1>a, <1>b DEF ReserveAtomic, InvSet, InventoryTypeOK
  <2>4. reserveLogs'[t.cmd.order] > 0
    BY <1>0, <1>5, <1>a, <1>c, <2>2 DEF Logged, ReserveAtomic, InventoryTypeOK
  <2>5. TaskGoal
    BY <1>c, <2>2, <2>3, <2>4 DEF Answer, Task, Backed, Reserved
  <2>. QED
    BY <1>d, <2>1, <2>5
<1>6. ASSUME InvAt(w, "refund")
      PROVE  /\ t # InvFree /\ t.cmd.kind = "Release"
             /\ t.cmd.order \in Orders /\ Reserved(t.cmd.order) /\ Declined(t.cmd.order)
  BY <1>0, <1>6, <1>a, <1>c DEF InvAt, InvFree, InvTaskEvidence, Evidence
<1>7. ASSUME InvAt(w, "refund"), Refund(t.cmd.order) \/ StockSame
      PROVE  \A o \in Orders : Released(o)' => Released(o) \/ (Reserved(o) /\ Declined(o))
  BY <1>0, <1>6, <1>7 DEF Logged, Refund, StockSame, Released, InventoryTypeOK
<1>8. CASE ReleaseAtomic(w)
  <2>1. Others /\ queue' = queue /\ InvAt(w, "refund") /\ Refund(t.cmd.order)
    BY <1>0, <1>8, <1>a DEF ReleaseAtomic, InvSet, netVars, InventoryTypeOK
  <2>2. u = Answer(t.cmd, TRUE)
    BY <1>0, <1>8, <1>a, <1>b DEF ReleaseAtomic, InvSet, InventoryTypeOK
  <2>3. releaseLogs'[t.cmd.order] > 0
    BY <1>0, <1>6, <2>1 DEF Logged, Refund, InventoryTypeOK
  <2>4. TaskGoal
    BY <1>c, <1>6, <2>1, <2>2, <2>3 DEF Answer, Task, Backed, Released
  <2>. QED
    BY <1>d, <1>7, <2>1, <2>4
<1>9. CASE ReleaseNothing(w) \/ ReleaseError(w)
  <2>1. /\ Others /\ queue' = queue /\ InvAt(w, "refund")
        /\ Refund(t.cmd.order) \/ StockSame
    BY <1>0, <1>9, <1>a DEF ReleaseNothing, ReleaseError, InvSet, netVars, InventoryTypeOK
  <2>2. u = Answer(t.cmd, FALSE)
    BY <1>0, <1>9, <1>a, <1>b DEF ReleaseNothing, ReleaseError, InvSet, InventoryTypeOK
  <2>3. TaskGoal
    BY <1>c, <1>6, <2>1, <2>2 DEF Answer, Task
  <2>. QED
    BY <1>d, <1>7, <2>1, <2>3
<1>10. ASSUME NEW id \in EventIds, InvPublish(w, id)
       PROVE  TrueEvidence'
  <2>1. t # InvFree /\ t.pc = "answer"
    BY <1>10, <1>a DEF InvPublish, PublishVerdict, PublishUnconfirmed, InvAt, InvFree
  <2>2. PICK m : m = Verdict(t.cmd, t.ok, id)
    OBVIOUS
  <2>3. Others /\ u = InvFree /\ queue' \subseteq queue \cup {m, t.cmd} /\ NoRelease
    BY <1>0, <1>10, <1>a, <1>b, <2>2
    DEF InvPublish, PublishVerdict, PublishUnconfirmed, Publish, InvSet, StockSame, InventoryTypeOK, Released
  <2>4. t.cmd.kind \in {"Reserve", "Release"}
    BY <1>c, <2>1 DEF InventoryCmds
  <2>5. Evidence(m)
    BY <1>0, <1>a, <2>1, <2>2, <2>4
    DEF InvTaskEvidence, Backed, Evidence, Verdict, VerdictKind, Event
  <2>6. m \in Messages
    BY <1>0, <1>a, <1>c, <2>1, <2>2, BusyTask, VerdictType
  <2>7. Evidence(m)'
    BY <2>5, <2>6, EvidenceStays
  <2>. QED
    BY <1>c, <1>d, <2>1, <2>3, <2>7
<1>. QED
  BY <1>1, <1>2, <1>3, <1>4, <1>5, <1>8, <1>9, <1>10 DEF InvStep, InvWork

LEMMA InvEvidence ==
  ASSUME EvidenceInv, FactsStay, InvSide, UNCHANGED <<ordVars, payVars>>
  PROVE  TrueEvidence'
<1>1. CASE Admin
  <2>1. UNCHANGED <<queue, iw, releaseLogs>>
    BY <1>1 DEF Admin, CreateSKU, UpdateAvailableQty, netVars
  <2>. QED
    BY <2>1, InvFrame DEF Released
<1>. QED
  BY <1>1, InvWorkerEvidence DEF InvSide

-----------------------------------------------------------------------------
(* Steps of payment-service. *)
LEMMA PayFrame ==
  ASSUME EvidenceInv, FactsStay, UNCHANGED <<ordVars, invVars>>,
         \A m \in queue' \ queue : Evidence(m)',
         \A w \in PayWorkers : pw'[w] = pw[w] \/ PayTaskEvidence(pw[w])',
         \A o \in Orders : Charged(o)' => Charged(o) \/ Reserved(o)
  PROVE  TrueEvidence'
<1>1. \A o \in Orders : OrderEvidence(o)'
  BY EvidenceParts
  DEF EvidenceInv, FactsStay, OrderEvidence, ordVars, invVars, Reserved, Released, Charged, Declined
<1>2. (\A w \in OrdWorkers : ow'[w] = ow[w]) /\ (\A w \in InvWorkers : iw'[w] = iw[w])
      /\ saga' = saga /\ todo' = todo
  BY DEF ordVars, invVars
<1>3. /\ (\A m \in queue : Evidence(m))'
      /\ (\A w \in OrdWorkers : OrdTaskEvidence(ow[w]))'
      /\ (\A w \in InvWorkers : InvTaskEvidence(iw[w]))'
      /\ (\A w \in PayWorkers : PayTaskEvidence(pw[w]))'
      /\ (\A o \in Orders : StepEvidence(o, saga[o]))'
      /\ (\A t \in todo : StepEvidence(t.order, t.row))'
  BY <1>2, MessagesStay, OrdTasksStay, InvTasksStay, PayTasksStay, RowsStay
<1>. QED
  BY <1>1, <1>3 DEF TrueEvidence, OrderEvidence

LEMMA NewPayTask ==
  ASSUME NEW w \in PayWorkers, NEW t, t = pw'[w],
         t = PayFree \/ (/\ Evidence(t.cmd)'
                         /\ t.pc = "answer" => VerdictIs(t.cmd.order, t.ok)')
  PROVE  PayTaskEvidence(pw[w])'
BY DEF PayTaskEvidence, Evidence, VerdictIs, Reserved, Released, Charged, Declined

LEMMA PayWorkerEvidence ==
  ASSUME EvidenceInv, FactsStay, UNCHANGED <<ordVars, invVars>>, NEW w \in PayWorkers, PayStep(w)
  PROVE  TrueEvidence'
<1>0. PaymentTypeOK /\ (\A m \in queue : Evidence(m)) /\ PayTaskEvidence(pw[w])
      /\ reserveLogs' = reserveLogs
  BY EvidenceParts DEF EvidenceInv, TypeInv, invVars
<1>a. PICK t : t = pw[w]
  OBVIOUS
<1>b. PICK u : u = pw'[w]
  OBVIOUS
<1>c. t # PayFree => /\ Evidence(t.cmd) /\ Evidence(t.cmd)'
                     /\ t.cmd \in PaymentCmds /\ t.cmd.order \in Orders
                     /\ Reserved(t.cmd.order) /\ Reserved(t.cmd.order)'
  <2>1. t # PayFree => Evidence(t.cmd) /\ t.cmd \in PaymentCmds /\ t.cmd.order \in Orders
    BY <1>0, <1>a, PayBusyTask DEF PayTaskEvidence
  <2>2. t # PayFree => Evidence(t.cmd)'
    BY <2>1, PayMessages, EvidenceStays
  <2>3. t # PayFree => Reserved(t.cmd.order)
    BY <2>1 DEF Evidence, PaymentCmds
  <2>. QED
    BY <2>1, <2>2, <2>3 DEF FactsStay
<1>. DEFINE Others == \A v \in PayWorkers : v # w => pw'[v] = pw[v]
            TaskGoal == u = PayFree \/ (/\ Evidence(u.cmd)'
                                        /\ u.pc = "answer" => VerdictIs(u.cmd.order, u.ok)')
<1>d. ASSUME Others, TaskGoal, \A m \in queue' \ queue : Evidence(m)',
             \A o \in Orders : Charged(o)' => Charged(o) \/ Reserved(o)
      PROVE  TrueEvidence'
  BY <1>b, <1>d, NewPayTask, PayFrame
<1>1. ASSUME NEW c \in queue, CheckProcessed(w, c)
      PROVE  TrueEvidence'
  <2>1. Others /\ queue' \subseteq queue /\ payment' = payment
    BY <1>0, <1>1 DEF CheckProcessed, PaySet, Take, PaymentsSame, PaymentTypeOK
  <2>2. Evidence(c)'
    BY <1>0, <1>1, EvidenceStays DEF EvidenceInv, TypeInv, TransportTypeOK
  <2>3. u = PayFree \/ u = PayTask("lookup", c, FALSE)
    BY <1>0, <1>1, <1>b DEF CheckProcessed, PaySet, PaymentTypeOK
  <2>4. TaskGoal
    BY <2>2, <2>3 DEF PayTask
  <2>. QED
    BY <1>d, <2>1, <2>4 DEF Charged
<1>2. CASE LookupPayment(w)
  <2>1. Others /\ queue' = queue /\ payment' = payment /\ t # PayFree
    BY <1>0, <1>2, <1>a DEF LookupPayment, PaySet, PaymentsSame, PayAt, PayFree, netVars, PaymentTypeOK
  <2>2. \/ u = PayTask("create", t.cmd, FALSE)
        \/ u = PayTask("answer", t.cmd, TRUE) /\ payment[t.cmd.order] = "SUCCESS"
        \/ u = PayTask("answer", t.cmd, FALSE) /\ payment[t.cmd.order] \notin {"NONE", "SUCCESS"}
    <3>1. \/ u = PayTask("create", t.cmd, FALSE)
          \/ payment[t.cmd.order] # "NONE"
             /\ u = PayTask("answer", t.cmd, payment[t.cmd.order] = "SUCCESS")
      BY <1>0, <1>2, <1>a, <1>b DEF Paid, LookupPayment, PaySet, PaymentTypeOK
    <3>2. CASE payment[t.cmd.order] = "SUCCESS"
      <4>1. (payment[t.cmd.order] = "SUCCESS") = TRUE
        BY <3>2
      <4>. QED
        BY <3>1, <3>2, <4>1
    <3>3. CASE payment[t.cmd.order] # "SUCCESS"
      <4>1. (payment[t.cmd.order] = "SUCCESS") = FALSE
        BY <3>3
      <4>. QED
        BY <3>1, <3>3, <4>1
    <3>. QED
      BY <3>2, <3>3
  <2>3. payment[t.cmd.order] \in PaymentStatuses
    BY <1>0, <1>c, <2>1 DEF PaymentTypeOK
  <2>4. TaskGoal
    <3>1. CASE u = PayTask("create", t.cmd, FALSE)
      BY <1>c, <2>1, <3>1 DEF PayTask
    <3>2. CASE u = PayTask("answer", t.cmd, TRUE) /\ payment[t.cmd.order] = "SUCCESS"
      BY <1>c, <2>1, <3>2 DEF PayTask, VerdictIs, Charged
    <3>3. CASE u = PayTask("answer", t.cmd, FALSE) /\ payment[t.cmd.order] \notin {"NONE", "SUCCESS"}
      BY <1>c, <2>1, <2>3, <3>3 DEF PayTask, VerdictIs, Declined, PaymentStatuses
    <3>. QED
      BY <2>2, <3>1, <3>2, <3>3
  <2>. QED
    BY <1>d, <2>1, <2>4 DEF Charged
<1>3. ASSUME NEW ok \in BOOLEAN, CreatePayment(w, ok)
      PROVE  TrueEvidence'
  <2>1. Others /\ queue' = queue /\ t # PayFree
    BY <1>0, <1>3, <1>a DEF CreatePayment, PaySet, PayAt, PayFree, netVars, PaymentTypeOK
  <2>2. /\ u = PayTask("answer", t.cmd, ok)
        /\ payment' = [payment EXCEPT ![t.cmd.order] = IF ok THEN "SUCCESS" ELSE "FAILED"]
    BY <1>0, <1>3, <1>a, <1>b DEF CreatePayment, PaySet, PaymentTypeOK
  <2>3. TaskGoal
    BY <1>0, <1>c, <2>1, <2>2 DEF PayTask, VerdictIs, Charged, Declined, PaymentTypeOK
  <2>4. \A o \in Orders : Charged(o)' => Charged(o) \/ Reserved(o)
    BY <1>0, <1>c, <2>1, <2>2 DEF Charged, PaymentTypeOK
  <2>. QED
    BY <1>d, <2>1, <2>3, <2>4
<1>4. CASE CreateConflict(w) \/ PayFault(w)
  <2>1. Others /\ queue' \subseteq queue \cup {t.cmd} /\ payment' = payment /\ t # PayFree
    BY <1>0, <1>4, <1>a
    DEF CreateConflict, PayFault, Requeued, Parked, Redelivered, Return, PaySet, PaymentsSame, PayAt, PayFree,
        PaymentTypeOK
  <2>2. u = PayFree \/ u = t
    BY <1>0, <1>4, <1>a, <1>b DEF CreateConflict, PayFault, PaySet, PaymentTypeOK
  <2>3. TaskGoal
    BY <1>0, <1>a, <1>c, <2>1, <2>2 DEF PayTaskEvidence, VerdictIs, Charged, Declined
  <2>4. \A m \in queue' \ queue : Evidence(m)'
    BY <1>c, <2>1
  <2>. QED
    BY <1>d, <2>1, <2>3, <2>4 DEF Charged
<1>5. ASSUME NEW id \in EventIds, PayPublish(w, id)
      PROVE  TrueEvidence'
  <2>1. t # PayFree /\ t.pc = "answer"
    BY <1>5, <1>a DEF PayPublish, PublishPaid, PublishPaidUnconfirmed, PayAt, PayFree
  <2>2. PICK m : m = Event("Paid", t.cmd.order, t.ok, id)
    OBVIOUS
  <2>3. Others /\ u = PayFree /\ queue' \subseteq queue \cup {m, t.cmd} /\ payment' = payment
    BY <1>0, <1>5, <1>a, <1>b, <2>2
    DEF PayPublish, PublishPaid, PublishPaidUnconfirmed, Publish, PaidVerdict, PaySet, PaymentsSame, PaymentTypeOK
  <2>4. Evidence(m)
    BY <1>0, <1>a, <1>c, <2>1, <2>2 DEF PayTaskEvidence, Evidence, Event
  <2>5. m \in Messages
    BY <1>0, <1>a, <2>1, <2>2, PaidVerdictType DEF PaidVerdict
  <2>6. Evidence(m)'
    BY <2>4, <2>5, EvidenceStays
  <2>. QED
    BY <1>c, <1>d, <2>1, <2>3, <2>6 DEF Charged
<1>. QED
  BY <1>1, <1>2, <1>3, <1>4, <1>5 DEF PayStep, PayWork

LEMMA PayEvidence ==
  ASSUME EvidenceInv, FactsStay, PaySide, UNCHANGED <<ordVars, invVars>>
  PROVE  TrueEvidence'
<1>1. ASSUME NEW o \in Orders, PostPayment(o)
      PROVE  TrueEvidence'
  <2>1. queue' = queue /\ pw' = pw /\ \A q \in Orders : Charged(q)' => Charged(q)
    BY <1>1 DEF PostPayment, netVars, Charged, EvidenceInv, TypeInv, PaymentTypeOK
  <2>. QED
    BY <2>1, PayFrame
<1>. QED
  BY <1>1, PayWorkerEvidence DEF PaySide

-----------------------------------------------------------------------------
LEMMA InitEvidence == Init => EvidenceInv
<1>. SUFFICES ASSUME Init
              PROVE  TrueEvidence
  BY InitType DEF EvidenceInv
<1>1. queue = {} /\ todo = {}
  BY DEF Init, TransportInit, OrderInit
<1>2. /\ \A w \in OrdWorkers : ow[w] = OrdFree
      /\ \A w \in InvWorkers : iw[w] = InvFree
      /\ \A w \in PayWorkers : pw[w] = PayFree
      /\ \A o \in Orders : /\ saga[o] = NoSaga /\ order[o] = "NONE"
                           /\ payment[o] = "NONE" /\ releaseLogs[o] = 0
  BY DEF Init, OrderInit, InventoryInit, PaymentInit
<1>3. /\ \A w \in OrdWorkers : OrdTaskEvidence(ow[w])
      /\ \A w \in InvWorkers : InvTaskEvidence(iw[w])
      /\ \A w \in PayWorkers : PayTaskEvidence(pw[w])
      /\ \A o \in Orders : StepEvidence(o, saga[o])
  BY <1>2 DEF OrdTaskEvidence, InvTaskEvidence, PayTaskEvidence, StepEvidence, NoSaga, SagaRow
<1>4. \A o \in Orders : ~ Charged(o) /\ ~ Released(o) /\ order[o] = "NONE"
  <2>1. ASSUME NEW o \in Orders
        PROVE  ~ Released(o)
    BY <1>2 DEF Released
  <2>2. ASSUME NEW o \in Orders
        PROVE  ~ Charged(o) /\ order[o] = "NONE"
    BY <1>2 DEF Charged
  <2>. QED
    BY <2>1, <2>2
<1>. QED
  BY <1>1, <1>3, <1>4 DEF TrueEvidence

LEMMA StepKeepsEvidence == EvidenceInv /\ [Next]_vars => EvidenceInv'
<1>. SUFFICES ASSUME EvidenceInv, [Next]_vars
              PROVE  TrueEvidence'
  BY StepType DEF EvidenceInv
<1>1. FactsStay
  BY FactsStayTrue DEF EvidenceInv
<1>2. CASE UNCHANGED vars
  BY <1>2, OrdFrame DEF vars, netVars, ordVars
<1>. QED
  BY <1>1, <1>2, OneService, OrdEvidence, InvEvidence, PayEvidence

(* Every message in flight, task under way and saga row, however old or     *)
(* duplicated, is evidence of facts that the other databases still hold.   *)
THEOREM EvidenceIsTrue == Spec => []TrueEvidence
<1>1. EvidenceInv => TrueEvidence
  BY DEF EvidenceInv
<1>. QED
  BY <1>1, InitEvidence, StepKeepsEvidence, PTL DEF Spec

(* No customer is charged for an order that holds no stock.                *)
THEOREM NoPaymentBeforeReserve == Spec => []PaymentFollowsReserve
<1>1. TrueEvidence => PaymentFollowsReserve
  BY DEF TrueEvidence, PaymentFollowsReserve
<1>. QED
  BY <1>1, EvidenceIsTrue, PTL

(* Stock of a paid order is never returned, nor stock that was never held. *)
THEOREM NoReleaseUnlessDeclined == Spec => []ReleaseFollowsDecline
<1>1. TrueEvidence => ReleaseFollowsDecline
  BY DEF TrueEvidence, ReleaseFollowsDecline
<1>. QED
  BY <1>1, EvidenceIsTrue, PTL

(* CONFIRMED and COMPENSATED, in orders and in saga_states, are true of    *)
(* the payment and inventory databases whenever they are read.             *)
THEOREM StatusIsAlwaysTrue == Spec => []StatusIsTrue
<1>1. TrueEvidence => StatusIsTrue
  BY DEF TrueEvidence, StepEvidence, StatusIsTrue
<1>. QED
  BY <1>1, EvidenceIsTrue, PTL

-----------------------------------------------------------------------------
(* The three services implement SagaEffects: each step is, seen through the *)
(* mapping, one of its steps or none.                                      *)
LEMMA EffectsInit == Init => Effects!Init
<1>. SUFFICES ASSUME Init
              PROVE  Effects!Init
  OBVIOUS
<1>1. \A o \in Orders : order[o] = "NONE" /\ payment[o] = "NONE" /\ releaseLogs[o] = 0 /\ reserveLogs[o] = 0
  BY DEF Init, OrderInit, InventoryInit, PaymentInit
<1>2. ASSUME NEW o \in Orders
      PROVE  HoldOf(o) = "none"
  <2>1. ~ Released(o)
    BY <1>1 DEF Released
  <2>2. ~ Reserved(o)
    BY <1>1 DEF Reserved
  <2>. QED
    BY <2>1, <2>2 DEF HoldOf
<1>3. \A o \in Orders : VerdictOf(o) = "none" /\ ShownOf(o) = "open"
  BY <1>1 DEF VerdictOf, Charged, Declined, ShownOf
<1>. QED
  BY <1>2, <1>3 DEF Effects!Init

LEMMA SameEffects ==
  ASSUME \A o \in Orders : HoldOf(o)' = HoldOf(o) /\ VerdictOf(o)' = VerdictOf(o) /\ ShownOf(o)' = ShownOf(o)
  PROVE  UNCHANGED Effects!vars
BY DEF Effects!vars

(* A step that changes the status, the verdict or the hold of one order q. *)
LEMMA OneShow ==
  ASSUME NEW q \in Orders, NEW s \in {"open", "confirmed", "failed", "compensated"}, ShownOf(q)' = s,
         \A o \in Orders : HoldOf(o)' = HoldOf(o) /\ VerdictOf(o)' = VerdictOf(o),
         \A o \in Orders : o # q => ShownOf(o)' = ShownOf(o),
         s = "confirmed" => VerdictOf(q) = "paid",
         s = "compensated" => HoldOf(q) = "returned"
  PROVE  Effects!Next
<1>1. Effects!Show(q, s)
  BY DEF Effects!Show
<1>. QED
  BY <1>1 DEF Effects!Next

LEMMA OneVerdict ==
  ASSUME NEW q \in Orders, VerdictOf(q) = "none",
         \/ VerdictOf(q)' = "paid" /\ HoldOf(q) = "held"
         \/ VerdictOf(q)' = "declined",
         \A o \in Orders : HoldOf(o)' = HoldOf(o) /\ ShownOf(o)' = ShownOf(o),
         \A o \in Orders : o # q => VerdictOf(o)' = VerdictOf(o)
  PROVE  Effects!Next
<1>1. CASE VerdictOf(q)' = "paid" /\ HoldOf(q) = "held"
  <2>1. Effects!Pay(q)
    BY <1>1 DEF Effects!Pay
  <2>. QED
    BY <2>1 DEF Effects!Next
<1>2. CASE VerdictOf(q)' = "declined"
  <2>1. Effects!Decline(q)
    BY <1>2 DEF Effects!Decline
  <2>. QED
    BY <2>1 DEF Effects!Next
<1>. QED
  BY <1>1, <1>2

LEMMA OneHold ==
  ASSUME NEW q \in Orders,
         \/ HoldOf(q) = "none" /\ HoldOf(q)' = "held"
         \/ HoldOf(q) = "held" /\ HoldOf(q)' = "returned" /\ VerdictOf(q) = "declined",
         \A o \in Orders : VerdictOf(o)' = VerdictOf(o) /\ ShownOf(o)' = ShownOf(o),
         \A o \in Orders : o # q => HoldOf(o)' = HoldOf(o)
  PROVE  Effects!Next
<1>1. CASE HoldOf(q) = "none" /\ HoldOf(q)' = "held"
  <2>1. Effects!Hold(q)
    BY <1>1 DEF Effects!Hold
  <2>. QED
    BY <2>1 DEF Effects!Next
<1>2. CASE HoldOf(q) = "held" /\ HoldOf(q)' = "returned" /\ VerdictOf(q) = "declined"
  <2>1. Effects!Return(q)
    BY <1>2 DEF Effects!Return
  <2>. QED
    BY <2>1 DEF Effects!Next
<1>. QED
  BY <1>1, <1>2

(* order-service shows. *)
LEMMA ShowStep ==
  ASSUME EvidenceInv, EvidenceInv', OrdStep, UNCHANGED <<invVars, payVars>>
  PROVE  [Effects!Next]_(Effects!vars)
<1>1. \A o \in Orders : HoldOf(o)' = HoldOf(o) /\ VerdictOf(o)' = VerdictOf(o)
  BY DEF invVars, payVars, HoldOf, VerdictOf, Reserved, Released, Charged, Declined
<1>2. \/ order' = order
      \/ \E q \in Orders : \A o \in Orders : o # q => order'[o] = order[o]
  <2>1. ASSUME NEW o \in Orders, HandleRequest(o) \/ RequestFails(o)
        PROVE  order' = order \/ \A q \in Orders : q # o => order'[q] = order[q]
    BY <2>1 DEF HandleRequest, CreateOrder, CreateSaga, SendReserve, RequestFails, EvidenceInv, TypeInv,
                OrderTypeInv, OrderTypeOK
  <2>2. ASSUME NEW w \in OrdWorkers, OrdWorkerStep(w), order' # order
        PROVE  \E q \in Orders : \A o \in Orders : o # q => order'[o] = order[o]
    <3>1. /\ ow[w].pc = "commit"
          /\ \A q \in Orders : q # ow[w].msg.order => order'[q] = order[q]
      BY <2>2
      DEF OrdWorkerStep, OrdWork, BeginEvent, CommitInventoryReserved, CommitPaymentProcessed, OrdAt,
          CommitInventoryReleased, Commit, CommitConflict, PublishNext, PublishNextUnconfirmed, OrdFault,
          OrderRows, EvidenceInv, TypeInv, OrderTypeInv, OrderTypeOK
    <3>. QED
      BY <3>1, OrdBusyTask DEF EvidenceInv, TypeInv, OrderTypeInv
  <2>3. CASE \/ \E status \in Live : ListByStatus(status)
             \/ \E t \in todo : SkipSaga(t) \/ \E id \in CmdIds : RecoverSaga(t, id)
             \/ RecoveryFault
    BY <2>3 DEF ListByStatus, SkipSaga, RecoverSaga, RecoveryFault, OrderRows
  <2>. QED
    BY <2>1, <2>2, <2>3 DEF OrdStep
<1>3. CASE order' = order
  BY <1>1, <1>3, SameEffects DEF ShownOf
<1>4. ASSUME NEW q \in Orders, \A o \in Orders : o # q => order'[o] = order[o]
      PROVE  Effects!Next
  <2>1. PICK s : s = ShownOf(q)'
    OBVIOUS
  <2>2. s \in {"open", "confirmed", "failed", "compensated"}
    BY <2>1 DEF ShownOf
  <2>3. OrderEvidence(q)'
    BY DEF EvidenceInv, TrueEvidence, OrderEvidence
  <2>4. s = "confirmed" => VerdictOf(q)' = "paid"
    BY <2>1, <2>3 DEF ShownOf, OrderEvidence, VerdictOf, Charged
  <2>5. s = "compensated" => HoldOf(q)' = "returned"
    BY <2>1, <2>3 DEF ShownOf, OrderEvidence, HoldOf, Released
  <2>6. \A o \in Orders : o # q => ShownOf(o)' = ShownOf(o)
    BY <1>4 DEF ShownOf
  <2>. QED
    BY <1>1, <2>1, <2>2, <2>4, <2>5, <2>6, OneShow
<1>. QED
  BY <1>2, <1>3, <1>4

(* A release is logged only for an order that was declined before. *)
LEMMA ReleaseOnEvidence ==
  ASSUME EvidenceInv, NEW w \in InvWorkers, InvStep(w), NEW o \in Orders, Released(o)'
  PROVE  Released(o) \/ (Reserved(o) /\ Declined(o))
<1>0. InventoryTypeOK /\ InvTaskEvidence(iw[w])
  BY EvidenceParts DEF EvidenceInv, TypeInv
<1>1. CASE releaseLogs' = releaseLogs
  BY <1>1 DEF Released
<1>2. CASE InvAt(w, "refund") /\ Refund(iw[w].cmd.order)
  <2>1. Reserved(iw[w].cmd.order) /\ Declined(iw[w].cmd.order)
    BY <1>0, <1>2 DEF InvAt, InvFree, InvTaskEvidence, Evidence
  <2>2. o # iw[w].cmd.order => releaseLogs'[o] = releaseLogs[o]
    BY <1>0, <1>2 DEF Logged, Refund, InventoryTypeOK
  <2>. QED
    BY <2>1, <2>2 DEF Released
<1>. QED
  BY <1>1, <1>2
  DEF InvStep, InvWork, InvPublish, CheckReserve, CheckRelease, ReadStock, ReadNothing, ReserveAtomic,
      LockConflict, ReleaseAtomic, ReleaseNothing, ReleaseError, PublishVerdict, PublishUnconfirmed,
      InvFault, StockSame

(* inventory-service holds and returns. *)
LEMMA HoldStep ==
  ASSUME EvidenceInv, EvidenceInv', FactsStay, InvSide, UNCHANGED <<ordVars, payVars>>
  PROVE  [Effects!Next]_(Effects!vars)
<1>1. \A o \in Orders : VerdictOf(o)' = VerdictOf(o) /\ ShownOf(o)' = ShownOf(o)
  BY DEF ordVars, payVars, VerdictOf, ShownOf, Charged, Declined
<1>0. InventoryTypeOK
  BY DEF EvidenceInv, TypeInv
<1>2. \/ UNCHANGED <<reserveLogs, releaseLogs>>
      \/ \E q \in Orders : \A o \in Orders : o # q => UNCHANGED <<reserveLogs[o], releaseLogs[o]>>
  <2>1. CASE Admin
    BY <2>1 DEF Admin, CreateSKU, UpdateAvailableQty
  <2>2. ASSUME NEW w \in InvWorkers, InvStep(w), ~ UNCHANGED <<reserveLogs, releaseLogs>>
        PROVE  /\ iw[w].pc # "free"
               /\ \A o \in Orders : o # iw[w].cmd.order => UNCHANGED <<reserveLogs[o], releaseLogs[o]>>
    BY <1>0, <2>2
    DEF Logged, InvStep, InvWork, InvPublish, CheckReserve, CheckRelease, ReadStock, ReadNothing, ReserveAtomic,
        LockConflict, ReleaseAtomic, ReleaseNothing, ReleaseError, Refund, PublishVerdict,
        PublishUnconfirmed, InvFault, StockSame, InvAt, InventoryTypeOK
  <2>. QED
    BY <1>0, <2>1, <2>2, BusyTask DEF InvSide
<1>3. CASE UNCHANGED <<reserveLogs, releaseLogs>>
  BY <1>1, <1>3, SameEffects DEF HoldOf, Reserved, Released
<1>4. ASSUME NEW q \in Orders, \A o \in Orders : o # q => UNCHANGED <<reserveLogs[o], releaseLogs[o]>>
      PROVE  [Effects!Next]_(Effects!vars)
  <2>1. \A o \in Orders : o # q => HoldOf(o)' = HoldOf(o)
    BY <1>4 DEF HoldOf, Reserved, Released
  <2>2. CASE HoldOf(q)' = HoldOf(q)
    BY <1>1, <2>1, <2>2, SameEffects
  <2>3. CASE ~ Released(q) /\ Released(q)'
    <3>1. HoldOf(q) = "held" /\ HoldOf(q)' = "returned" /\ ~ Charged(q) /\ Declined(q)
      <4>1. Admin => releaseLogs' = releaseLogs
        BY DEF Admin, CreateSKU, UpdateAvailableQty
      <4>2. Reserved(q) /\ Declined(q)
        BY <2>3, <4>1, ReleaseOnEvidence DEF InvSide, Released
      <4>. QED
        BY <2>3, <4>2 DEF HoldOf, Charged, Declined
    <3>2. VerdictOf(q) = "declined"
      BY <3>1 DEF VerdictOf
    <3>. QED
      BY <1>1, <2>1, <3>1, <3>2, OneHold
  <2>4. CASE ~ Released(q)' /\ HoldOf(q)' # HoldOf(q)
    <3>1. ~ Released(q) /\ (Reserved(q) => Reserved(q)')
      BY <2>4 DEF FactsStay
    <3>2. HoldOf(q) = "none" /\ HoldOf(q)' = "held"
      BY <2>4, <3>1 DEF HoldOf
    <3>. QED
      BY <1>1, <2>1, <3>2, OneHold
  <2>5. Released(q) => HoldOf(q)' = HoldOf(q)
    BY DEF FactsStay, HoldOf
  <2>. QED
    BY <2>2, <2>3, <2>4, <2>5
<1>. QED
  BY <1>2, <1>3, <1>4

(* payment-service decides. *)
LEMMA VerdictStep ==
  ASSUME EvidenceInv, EvidenceInv', FactsStay, PaySide, UNCHANGED <<ordVars, invVars>>
  PROVE  [Effects!Next]_(Effects!vars)
<1>0. PaymentTypeOK /\ PaymentTypeOK'
  BY DEF EvidenceInv, TypeInv
<1>1. \A o \in Orders : HoldOf(o)' = HoldOf(o) /\ ShownOf(o)' = ShownOf(o)
  BY DEF ordVars, invVars, HoldOf, ShownOf, Reserved, Released
<1>2. payment' = payment \/ \E q \in Orders : /\ payment[q] = "NONE"
                                              /\ \A o \in Orders : o # q => payment'[o] = payment[o]
  <2>1. ASSUME NEW o \in Orders, PostPayment(o)
        PROVE  payment[o] = "NONE" /\ \A q \in Orders : q # o => payment'[q] = payment[q]
    BY <1>0, <2>1 DEF PostPayment, PaymentTypeOK
  <2>2. ASSUME NEW w \in PayWorkers, PayStep(w), payment' # payment
        PROVE  /\ pw[w].pc # "free" /\ payment[pw[w].cmd.order] = "NONE"
               /\ \A o \in Orders : o # pw[w].cmd.order => payment'[o] = payment[o]
    BY <1>0, <2>2
    DEF Insertable, PayStep, PayWork, PayPublish, CheckProcessed, LookupPayment, CreatePayment, CreateConflict, PayFault,
        PublishPaid, PublishPaidUnconfirmed, PaymentsSame, PayAt, PaymentTypeOK
  <2>. QED
    BY <1>0, <2>1, <2>2, PayBusyTask DEF PaySide
<1>3. CASE payment' = payment
  BY <1>1, <1>3, SameEffects DEF VerdictOf, Charged, Declined
<1>4. ASSUME NEW q \in Orders, payment[q] = "NONE", \A o \in Orders : o # q => payment'[o] = payment[o]
      PROVE  [Effects!Next]_(Effects!vars)
  <2>1. \A o \in Orders : o # q => VerdictOf(o)' = VerdictOf(o)
    BY <1>4 DEF VerdictOf, Charged, Declined
  <2>2. VerdictOf(q) = "none" /\ ~ Declined(q)
    BY <1>4 DEF VerdictOf, Charged, Declined
  <2>3. OrderEvidence(q) /\ OrderEvidence(q)'
    BY DEF EvidenceInv, TrueEvidence, OrderEvidence
  <2>4. VerdictOf(q)' \in {"none", "paid", "declined"}
    BY DEF VerdictOf
  <2>5. VerdictOf(q)' = "paid" => HoldOf(q) = "held"
    <3>1. ~ Released(q)
      BY <2>2, <2>3 DEF OrderEvidence
    <3>2. Charged(q)' => Reserved(q)
      BY <2>3 DEF OrderEvidence, invVars, Reserved
    <3>3. VerdictOf(q)' = "paid" => Charged(q)'
      BY DEF VerdictOf
    <3>. QED
      BY <3>1, <3>2, <3>3 DEF HoldOf
  <2>6. CASE VerdictOf(q)' = "none"
    BY <1>1, <2>1, <2>2, <2>6, SameEffects
  <2>. QED
    BY <1>1, <2>1, <2>2, <2>4, <2>5, <2>6, OneVerdict
<1>. QED
  BY <1>2, <1>3, <1>4

(* Through every interleaving, duplicate, loss and retry that the model    *)
(* admits, the three services together do what one atomic saga would.      *)
THEOREM SagaImplementsEffects == Spec => ImplementsEffects
<1>1. EvidenceInv /\ EvidenceInv' /\ [Next]_vars => [Effects!Next]_(Effects!vars)
  <2>. SUFFICES ASSUME EvidenceInv, EvidenceInv', [Next]_vars
                PROVE  [Effects!Next]_(Effects!vars)
    OBVIOUS
  <2>1. FactsStay
    BY FactsStayTrue DEF EvidenceInv
  <2>2. CASE UNCHANGED vars
    BY <2>2, SameEffects
    DEF vars, ordVars, invVars, payVars, HoldOf, VerdictOf, ShownOf, Reserved, Released, Charged, Declined
  <2>. QED
    BY <2>1, <2>2, OneService, ShowStep, HoldStep, VerdictStep
<1>. QED
  BY <1>1, EffectsInit, InitEvidence, StepKeepsEvidence, PTL DEF Spec, ImplementsEffects, Effects!Spec
=============================================================================
