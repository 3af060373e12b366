--------------------------- MODULE SagaPoolProofs ---------------------------
(* More about the composed system, for pools of any size: the promises of   *)
(* its parts, what becomes of the stock and of the money when workers race, *)
(* and what else would hold under one of two conditions that the code does  *)
(* not enforce: that no worker of order.events commits from a stale row,    *)
(* that no order gets two rows of a kind in inventory_logs.                 *)
EXTENDS SagaSystemProofs

-----------------------------------------------------------------------------
(* The two tables of order-service.  A worker commits from the row it read: *)
(* that they agree rests on nobody else committing in between.  Such a      *)
(* commit is fresh: the row it overwrites still awaits the event, as it     *)
(* would if the transaction had locked the row that it reads.               *)
Commits(w) == CommitInventoryReserved(w) \/ CommitPaymentProcessed(w) \/ CommitInventoryReleased(w)

Awaited(w) == StepExpects(saga[ow[w].msg.order], ow[w].msg.kind)

FreshCommits == \A w \in OrdWorkers : Commits(w) => Awaited(w)

Story(o) ==
  \/ order[o] \in {"NONE", "PENDING"} /\ saga[o] = NoSaga
  \/ order[o] = "PENDING" /\ saga[o] = SagaRow("RESERVING_INVENTORY", "IN_PROGRESS")
  \/ order[o] = "INVENTORY_RESERVED" /\ saga[o] = SagaRow("PROCESSING_PAYMENT", "IN_PROGRESS")
  \/ order[o] = "CONFIRMED" /\ saga[o] = SagaRow("DONE", "COMPLETED")
  \/ order[o] = "FAILED" /\ saga[o] = SagaRow("RELEASING_INVENTORY", "COMPENSATING")
  \/ order[o] = "FAILED" /\ saga[o] = SagaRow("DONE", "FAILED")
  \/ order[o] = "COMPENSATED" /\ saga[o] = SagaRow("DONE", "COMPENSATED")

Begun(o) == /\ request[o] \in {"new", "saga"} => saga[o] = NoSaga
            /\ request[o] = "saga" => order[o] = "PENDING"

StoryInv == OrderTypeOK /\ \A o \in Orders : Story(o) /\ Begun(o)

Kept(o) == saga[o].status \in Terminal => saga'[o] = saga[o] /\ order'[o] = order[o]

StorySteps == \A o \in Orders : Story(o)' /\ Begun(o)' /\ Kept(o)

LEMMA StorySaid == (\A o \in Orders : Story(o)) => OrderMatchesSaga /\ LiveSagasAreRecoverable
BY DEF Story, OrderMatchesSaga, LiveSagasAreRecoverable, Recoverable, SagaRow, NoSaga, Live

LEMMA RowsUntouched ==
  ASSUME StoryInv, UNCHANGED OrderRows
  PROVE  StorySteps
BY DEF StoryInv, OrderRows, Story, Begun, Kept, StorySteps

LEMMA RequestTells ==
  ASSUME StoryInv, NEW q \in Orders, HandleRequest(q) \/ RequestFails(q)
  PROVE  StorySteps
<1>. USE DEF StoryInv
<1>. SUFFICES ASSUME NEW o \in Orders
              PROVE  Story(o)' /\ Begun(o)' /\ Kept(o)
  BY DEF StorySteps
<1>1. Story(o) /\ Begun(o)
  OBVIOUS
<1>2. CASE o # q
  <2>1. order'[o] = order[o] /\ saga'[o] = saga[o] /\ request'[o] = request[o]
    BY <1>2 DEF HandleRequest, CreateOrder, CreateSaga, SendReserve, RequestFails, OrderTypeOK
  <2>. QED
    BY <1>1, <2>1 DEF Story, Begun, Kept
<1>3. CASE o = q /\ CreateOrder(q)
  BY <1>1, <1>3 DEF CreateOrder, OrderTypeOK, Story, Begun, Kept, NoSaga, SagaRow, Terminal
<1>4. CASE o = q /\ CreateSaga(q)
  BY <1>1, <1>4 DEF CreateSaga, OrderTypeOK, Story, Begun, Kept, NoSaga, SagaRow, Terminal
<1>5. CASE o = q /\ (SendReserve(q) \/ RequestFails(q))
  BY <1>1, <1>5 DEF SendReserve, RequestFails, OrderTypeOK, Story, Begun, Kept
<1>. QED
  BY <1>2, <1>3, <1>4, <1>5 DEF HandleRequest

LEMMA CommitTells ==
  ASSUME StoryInv, NEW w \in OrdWorkers, Commits(w), Awaited(w)
  PROVE  StorySteps
<1>. USE DEF StoryInv
<1>1. PICK m : m = ow[w].msg
  OBVIOUS
<1>2. ow[w].pc = "commit" /\ m \in Events /\ m.order \in Orders
  BY <1>1, OrdBusyTask
  DEF Commits, CommitInventoryReserved, CommitPaymentProcessed, CommitInventoryReleased, OrdAt
<1>3. StepExpects(saga[m.order], m.kind) /\ Story(m.order)
  BY <1>1, <1>2 DEF Awaited
<1>4. /\ \A o \in Orders \ {m.order} : saga'[o] = saga[o] /\ order'[o] = order[o]
      /\ request' = request
  BY <1>1, <1>2
  DEF Commits, CommitInventoryReserved, CommitPaymentProcessed, CommitInventoryReleased, Commit, OrderTypeOK
<1>5. saga[m.order].status \notin Terminal /\ saga[m.order] # NoSaga
  <2>1. m.kind \in {"Reserved", "Released", "Paid"}
    BY <1>2, OrdMessages
  <2>2. saga[m.order].step \in {"RESERVING_INVENTORY", "PROCESSING_PAYMENT", "RELEASING_INVENTORY"}
    BY <1>3, <2>1 DEF StepExpects
  <2>. QED
    BY <1>3, <2>2 DEF Story, SagaRow, NoSaga, Terminal
<1>6. Story(m.order)'
  <2>1. CASE CommitInventoryReserved(w)
    BY <1>1, <1>2, <1>3, <2>1 DEF CommitInventoryReserved, Commit, OrderTypeOK, StepExpects, Story, SagaRow, NoSaga
  <2>2. CASE CommitPaymentProcessed(w)
    BY <1>1, <1>2, <1>3, <2>2
    DEF CommitPaymentProcessed, Compensation, Commit, OrderTypeOK, StepExpects, Story, SagaRow, NoSaga
  <2>3. CASE CommitInventoryReleased(w)
    BY <1>1, <1>2, <1>3, <2>3 DEF CommitInventoryReleased, Commit, OrderTypeOK, StepExpects, Story, SagaRow, NoSaga
  <2>. QED
    BY <2>1, <2>2, <2>3 DEF Commits
<1>7. request[m.order] \notin {"new", "saga"}
  BY <1>2, <1>5 DEF Begun
<1>. SUFFICES ASSUME NEW o \in Orders
              PROVE  Story(o)' /\ Begun(o)' /\ Kept(o)
  BY DEF StorySteps
<1>8. CASE o = m.order
  BY <1>4, <1>5, <1>6, <1>7, <1>8 DEF Begun, Kept
<1>9. CASE o # m.order
  <2>1. Story(o) /\ Begun(o)
    OBVIOUS
  <2>. QED
    BY <1>4, <1>9, <2>1 DEF Story, Begun, Kept
<1>. QED
  BY <1>8, <1>9

LEMMA SystemTells ==
  ASSUME TypeInv, StoryInv, [Next]_vars, FreshCommits
  PROVE  StorySteps /\ StoryInv'
<1>1. ASSUME UNCHANGED OrderRows
      PROVE  StorySteps
  BY <1>1, RowsUntouched
<1>2. ASSUME NEW q \in Orders, HandleRequest(q) \/ RequestFails(q)
      PROVE  StorySteps
  BY <1>2, RequestTells
<1>3. ASSUME NEW w \in OrdWorkers, OrdWorkerStep(w)
      PROVE  StorySteps
  <2>1. CASE Commits(w)
    BY <2>1, CommitTells DEF FreshCommits
  <2>2. CASE ~ Commits(w)
    <3>1. UNCHANGED OrderRows
      BY <1>3, <2>2
      DEF Commits, OrdWorkerStep, OrdWork, BeginEvent, CommitConflict, OrdFault, PublishNext, PublishNextUnconfirmed
    <3>. QED
      BY <3>1, RowsUntouched
  <2>. QED
    BY <2>1, <2>2
<1>4. ASSUME \/ \E status \in Live : ListByStatus(status)
             \/ \E t \in todo : SkipSaga(t) \/ \E id \in CmdIds : RecoverSaga(t, id)
             \/ RecoveryFault
      PROVE  StorySteps
  BY <1>4, RowsUntouched DEF ListByStatus, SkipSaga, RecoverSaga, RecoveryFault
<1>5. StorySteps
  BY <1>1, <1>2, <1>3, <1>4, OneService DEF OrdStep, ordVars, vars, OrderRows
<1>6. OrderTypeOK'
  BY StepType DEF TypeInv, OrderTypeInv
<1>. QED
  BY <1>5, <1>6 DEF StorySteps, StoryInv

LEMMA InitTells == Init => StoryInv
BY InitType DEF TypeInv, OrderTypeInv, Init, OrderInit, StoryInv, Story, Begun

LEMMA FreshTells == Spec /\ [][FreshCommits]_vars => []StoryInv
<1>1. TypeInv /\ StoryInv /\ [Next]_vars /\ [FreshCommits]_vars => TypeInv' /\ StoryInv'
  <2>1. TypeInv /\ StoryInv /\ [Next]_vars /\ FreshCommits => StoryInv'
    BY SystemTells
  <2>2. StoryInv /\ UNCHANGED vars => StoryInv'
    BY DEF vars, ordVars, StoryInv, OrderTypeOK, Story, Begun
  <2>. QED
    BY <2>1, <2>2, StepType
<1>. QED
  BY <1>1, InitType, InitTells, PTL DEF Spec

(* However many workers, as long as no commit is stale: the status of an    *)
(* order and its saga row tell the same story ...                           *)
THEOREM FreshCommitsAgree == Spec /\ [][FreshCommits]_vars => []OrderMatchesSaga
<1>1. StoryInv => OrderMatchesSaga
  BY StorySaid DEF StoryInv
<1>. QED
  BY <1>1, FreshTells, PTL

(* ... the recovery loop knows what to send for every saga that is not      *)
(* finished ...                                                             *)
THEOREM FreshCommitsRecover == Spec /\ [][FreshCommits]_vars => []LiveSagasAreRecoverable
<1>1. StoryInv => LiveSagasAreRecoverable
  BY StorySaid DEF StoryInv
<1>. QED
  BY <1>1, FreshTells, PTL

(* ... and a finished saga stays as it is.                                  *)
THEOREM FreshCommitsKeepTheFinished == Spec /\ [][FreshCommits]_vars => FinishedStays
<1>1. TypeInv /\ StoryInv /\ [Next]_vars /\ [FreshCommits]_vars
        => [\A o \in Orders :
              saga[o].status \in Terminal => saga'[o] = saga[o] /\ order'[o] = order[o]]_vars
  BY SystemTells DEF StorySteps, Kept
<1>2. Spec => []TypeInv
  BY InitType, StepType, PTL DEF Spec
<1>. QED
  BY <1>1, <1>2, FreshTells, PTL DEF Spec, FinishedStays

-----------------------------------------------------------------------------
(* The stock and the log of inventory-service, with the commands the system *)
(* sends.                                                                   *)

(* A row of stock changes with the log, whoever takes the step. *)
LEMMA SystemConserves ==
  ASSUME InventoryTypeOK, InventoryTypeOK', StockInv, [Next]_vars
  PROVE  StockInv'
<1>1. CASE UNCHANGED invVars
  BY <1>1, SameStockConserved DEF invVars, StockSame
<1>2. CASE InvSide
  BY <1>2, WorkerConserves, AdminConserves DEF InvSide
<1>. QED
  BY <1>1, <1>2, OneService DEF vars

(* The bounds on rows of the log, under the commands the system sends.      *)
LogBounds == \A o \in Orders : BoundOf(o) /\ ReleaseBoundOf(o)

LEMMA SystemBounds ==
  ASSUME InventoryTypeOK, LogBounds, [Next]_vars
  PROVE  LogBounds'
<1>. SUFFICES ASSUME NEW o \in Orders
              PROVE  BoundOf(o)' /\ ReleaseBoundOf(o)'
  BY DEF LogBounds
<1>1. BoundOf(o) /\ ReleaseBoundOf(o)
  BY DEF LogBounds
<1>2. CASE UNCHANGED <<reserveLogs, releaseLogs, iw>>
  BY <1>1, <1>2 DEF BoundOf, Past, ReleaseBoundOf, Refunding
<1>3. ASSUME NEW w \in InvWorkers, InvStep(w)
      PROVE  BoundOf(o)' /\ ReleaseBoundOf(o)'
  BY <1>1, <1>3, BoundStep, ReleaseBoundStep
<1>4. Admin => UNCHANGED <<reserveLogs, releaseLogs, iw>>
  BY DEF Admin, CreateSKU, UpdateAvailableQty
<1>. QED
  BY <1>2, <1>3, <1>4, OneService DEF InvSide, invVars, vars

PoolInv == EvidenceInv /\ StockInv /\ LogBounds

LEMMA PoolInit == Init => PoolInv
<1>1. Init => StockInv
  BY StockInit DEF Init
<1>2. Init => LogBounds
  <2>. SUFFICES ASSUME Init, NEW o \in Orders
                PROVE  BoundOf(o) /\ ReleaseBoundOf(o)
    BY DEF LogBounds
  <2>1. reserveLogs[o] = 0 /\ releaseLogs[o] = 0
    BY DEF Init, InventoryInit
  <2>. QED
    BY <2>1 DEF BoundOf, ReleaseBoundOf
<1>. QED
  BY <1>1, <1>2, InitEvidence DEF PoolInv

LEMMA PoolStep == PoolInv /\ [Next]_vars => PoolInv'
<1>. SUFFICES ASSUME PoolInv, [Next]_vars
              PROVE  PoolInv'
  OBVIOUS
<1>1. EvidenceInv' /\ InventoryTypeOK /\ InventoryTypeOK'
  <2>1. EvidenceInv'
    BY StepKeepsEvidence DEF PoolInv
  <2>2. EvidenceInv => InventoryTypeOK
    BY DEF EvidenceInv, TypeInv
  <2>3. EvidenceInv' => InventoryTypeOK'
    BY DEF EvidenceInv, TypeInv
  <2>. QED
    BY <2>1, <2>2, <2>3 DEF PoolInv
<1>. QED
  BY <1>1, SystemConserves, SystemBounds DEF PoolInv

-----------------------------------------------------------------------------
(* Each service promised something of the messages a client of its own sent *)
(* (InventorySpec, PaymentSpec).  It still does where the others send them. *)
LEMMA EvidenceAgrees == EvidenceInv => SuccessIsLogged /\ VerdictsAgree
<1>. SUFFICES ASSUME EvidenceInv
              PROVE  SuccessIsLogged /\ VerdictsAgree
  OBVIOUS
<1>0. /\ \A m \in queue : Evidence(m)
      /\ \A w \in InvWorkers : InvTaskEvidence(iw[w])
      /\ \A w \in PayWorkers : PayTaskEvidence(pw[w])
  BY EvidenceParts DEF EvidenceInv
<1>1. SuccessIsLogged
  <2>1. ASSUME NEW w \in InvWorkers, InvAt(w, "answer"), iw[w].ok
        PROVE  Backed(iw[w].cmd.kind, iw[w].cmd.order)
    BY <1>0, <2>1 DEF InvAt, InvFree, InvTaskEvidence
  <2>2. ASSUME NEW m \in queue \cap Events, m.kind \in {"Reserved", "Released"}, m.ok
        PROVE  Backed(m.kind, m.order)
    BY <1>0, <2>2 DEF Evidence, Backed
  <2>. QED
    BY <2>1, <2>2 DEF SuccessIsLogged
<1>2. VerdictsAgree
  BY <1>0 DEF PayAt, PayFree, PayTaskEvidence, Evidence, VerdictsAgree
<1>. QED
  BY <1>1, <1>2

LEMMA PaymentsStay ==
  ASSUME PaymentTypeOK, [Next]_vars, NEW o \in Orders, payment[o] # "NONE"
  PROVE  payment'[o] = payment[o]
<1>1. CASE UNCHANGED payVars
  BY <1>1 DEF payVars
<1>2. CASE PaySide
  BY <1>2, WorkerKeepsPayments, PostKeepsPayments DEF PaySide
<1>. QED
  BY <1>1, <1>2, OneService DEF vars

LEMMA SystemMarks ==
  ASSUME PaymentTypeOK, MarkedWithPayment, [Next]_vars
  PROVE  MarkedWithPayment'
<1>1. CASE UNCHANGED payVars
  BY <1>1 DEF payVars, MarkedWithPayment
<1>2. ASSUME NEW w \in PayWorkers, PayStep(w)
      PROVE  MarkedWithPayment'
  BY <1>2, MarkedStep
<1>3. ASSUME NEW o \in Orders, PostPayment(o)
      PROVE  MarkedWithPayment'
  BY <1>3, PaymentsStay, MarksStay DEF PostPayment
<1>. QED
  BY <1>1, <1>2, <1>3, OneService DEF PaySide, vars

(* Of the stock and its log: what is conserved, and how often an order can  *)
(* take from it or give back to it; and no success without its row.         *)
THEOREM InventoryKeepsItsPromises ==
  Spec => [](/\ StockConserved /\ ReservedCoversLog
             /\ DoubleReserveBound /\ DoubleReleaseBound /\ SuccessIsLogged)
<1>1. PoolInv => /\ StockConserved /\ ReservedCoversLog
                 /\ DoubleReserveBound /\ DoubleReleaseBound /\ SuccessIsLogged
  <2>. SUFFICES ASSUME PoolInv
                PROVE  /\ StockConserved /\ ReservedCoversLog
                       /\ DoubleReserveBound /\ DoubleReleaseBound /\ SuccessIsLogged
    OBVIOUS
  <2>1. InventoryTypeOK /\ EvidenceInv /\ StockInv /\ LogBounds
    BY DEF PoolInv, EvidenceInv, TypeInv
  <2>2. DoubleReserveBound
    <3>. SUFFICES ASSUME NEW o \in Orders
                  PROVE  reserveLogs[o] <= Cardinality(InvWorkers)
      BY DEF DoubleReserveBound
    <3>1. BoundOf(o) /\ reserveLogs[o] \in Nat
      BY <2>1 DEF LogBounds, InventoryTypeOK
    <3>. QED
      BY <3>1, PastFinite, PoolSize DEF BoundOf
  <2>3. DoubleReleaseBound
    BY <2>1, ReleaseBoundSaid DEF LogBounds
  <2>. QED
    BY <2>1, <2>2, <2>3, EvidenceAgrees DEF StockInv
<1>. QED
  BY <1>1, PoolInit, PoolStep, PTL DEF Spec

(* Of the payments: one verdict for an order, given to every copy of every  *)
(* command, whoever sent it, and never changed; a command is skipped only   *)
(* for a payment on record.                                                 *)
THEOREM PaymentKeepsItsPromises == Spec => [](VerdictsAgree /\ MarkedWithPayment) /\ VerdictIsFinal
<1>1. Init => MarkedWithPayment
  BY DEF Init, PaymentInit, MarkedWithPayment
<1>2. EvidenceInv /\ MarkedWithPayment /\ [Next]_vars => MarkedWithPayment'
  BY SystemMarks DEF EvidenceInv, TypeInv
<1>3. EvidenceInv /\ [Next]_vars
        => [\A o \in Orders : payment[o] # "NONE" => payment'[o] = payment[o]]_payVars
  BY PaymentsStay DEF EvidenceInv, TypeInv
<1>. QED
  BY <1>1, <1>2, <1>3, InitEvidence, StepKeepsEvidence, EvidenceAgrees, PTL DEF Spec, VerdictIsFinal

-----------------------------------------------------------------------------
(* Orders that are confirmed hold what they asked for.  What the log says an*)
(* order holds is negative only by what was put back too often.             *)
LEMMA OverReleasedMakesUp ==
  ASSUME InventoryTypeOK, NEW o \in Orders
  PROVE  /\ OverReleased[o] \in Nat
         /\ Holding[o] + OverReleased[o] \in Nat
         /\ reserveLogs[o] > releaseLogs[o] => QtyOf[o] <= Holding[o] + OverReleased[o]
         /\ releaseLogs[o] <= reserveLogs[o] => OverReleased[o] = 0
<1>1. PICK n : n = reserveLogs[o] - releaseLogs[o]
  OBVIOUS
<1>2. PICK q : q = QtyOf[o]
  OBVIOUS
<1>3. n \in Int /\ q \in Nat /\ (n > 0 <=> reserveLogs[o] > releaseLogs[o])
  BY <1>1, <1>2, InventoryAssumption DEF InventoryAssumption, InventoryTypeOK
<1>4. Holding[o] = q * n
  BY <1>1, <1>2, HoldingType
<1>5. OverReleased[o] = IF n < 0 THEN q * (-n) ELSE 0
  BY <1>1, <1>2 DEF OverReleased, InventoryTypeOK
<1>6. CASE n < 0
  <2>1. PICK k \in Nat : n = -k
    <3>1. -n \in Nat /\ n = -(-n)
      BY <1>3, <1>6
    <3>. QED
      BY <3>1
  <2>2. q * (-k) = -(q * k) /\ q * k \in Nat /\ -(-k) = k
    BY <1>3, <2>1
  <2>3. Holding[o] = -(q * k) /\ OverReleased[o] = q * k
    BY <1>4, <1>5, <1>6, <2>1, <2>2
  <2>4. ~ (reserveLogs[o] > releaseLogs[o]) /\ ~ (releaseLogs[o] <= reserveLogs[o])
    BY <1>1, <1>6 DEF InventoryTypeOK
  <2>. QED
    BY <2>2, <2>3, <2>4
<1>7. CASE n >= 0
  <2>1. q * n \in Nat /\ OverReleased[o] = 0 /\ Holding[o] + OverReleased[o] = q * n
    BY <1>3, <1>4, <1>5, <1>7
  <2>2. ASSUME n > 0
        PROVE  q <= q * n
    <3>1. PICK k \in Nat : n = k + 1
      <4>1. n - 1 \in Nat /\ n = (n - 1) + 1
        BY <1>3, <2>2
      <4>. QED
        BY <4>1
    <3>2. q * n = q * k + q /\ q * k \in Nat
      BY <1>3, <3>1
    <3>. QED
      BY <1>3, <3>2
  <2>. QED
    BY <1>2, <1>3, <2>1, <2>2
<1>. QED
  BY <1>3, <1>6, <1>7

LEMMA ConfirmedHolds ==
  ASSUME EvidenceInv, NEW o \in Orders
  PROVE  /\ order[o] = "CONFIRMED" => reserveLogs[o] > 0 /\ releaseLogs[o] = 0
         /\ order[o] = "COMPENSATED" => reserveLogs[o] > 0 /\ releaseLogs[o] > 0
         /\ releaseLogs[o] > 0 => reserveLogs[o] > 0
<1>1. OrderEvidence(o)
  BY EvidenceParts DEF EvidenceInv
<1>2. releaseLogs[o] \in Nat
  BY DEF EvidenceInv, TypeInv, InventoryTypeOK
<1>3. order[o] = "CONFIRMED" => Charged(o) /\ Reserved(o) /\ ~ Released(o)
  BY <1>1 DEF OrderEvidence, Charged, Declined
<1>4. order[o] = "COMPENSATED" => Released(o)
  BY <1>1 DEF OrderEvidence
<1>5. Released(o) => Reserved(o)
  BY <1>1 DEF OrderEvidence
<1>. QED
  BY <1>2, <1>3, <1>4, <1>5 DEF Reserved, Released

LEMMA ConfirmedFit ==
  ASSUME EvidenceInv, StockInv
  PROVE  OversoldIsOverReleased
<1>. SUFFICES ASSUME NEW p \in Products
              PROVE  SumFunctionOnSet(QtyOf, {o \in OrdersFor(p) : order[o] = "CONFIRMED"})
                       <= granted[p] + SumFunctionOnSet(OverReleased, OrdersFor(p))
  BY DEF OversoldIsOverReleased
<1>0. InventoryTypeOK
  BY DEF EvidenceInv, TypeInv
<1>1. PICK S : S = OrdersFor(p)
  OBVIOUS
<1>2. PICK T : T = {o \in S : order[o] = "CONFIRMED"}
  OBVIOUS
<1>3. PICK h : h = Holding
  OBVIOUS
<1>4. PICK e : e = OverReleased
  OBVIOUS
<1>5. PICK s : s = [o \in Orders |-> h[o] + e[o]]
  OBVIOUS
<1>6. IsFiniteSet(S) /\ S \subseteq Orders /\ T \in SUBSET S
  BY <1>1, <1>2, OrdersForFinite
<1>7. IsFiniteSet(T)
  BY <1>6, FS_Subset
<1>8. \A o \in S : h[o] \in Int /\ e[o] \in Int /\ s[o] = h[o] + e[o] /\ s[o] \in Nat
  <2>. TAKE o \in S
  <2>1. o \in Orders /\ s[o] = h[o] + e[o]
    BY <1>5, <1>6
  <2>2. h[o] \in Int /\ e[o] \in Nat /\ h[o] + e[o] \in Nat
    BY <1>0, <1>3, <1>4, <2>1, HoldingType, OverReleasedMakesUp
  <2>. QED
    BY <2>1, <2>2
<1>9. \A o \in T : QtyOf[o] \in Int /\ s[o] \in Int /\ QtyOf[o] <= s[o]
  <2>. TAKE o \in T
  <2>1. o \in Orders /\ o \in S /\ order[o] = "CONFIRMED"
    BY <1>2, <1>6
  <2>2. reserveLogs[o] > releaseLogs[o]
    BY <2>1, ConfirmedHolds
  <2>3. QtyOf[o] <= s[o]
    BY <1>0, <1>3, <1>4, <1>8, <2>1, <2>2, OverReleasedMakesUp
  <2>. QED
    BY <1>8, <2>1, <2>3, InventoryAssumption DEF InventoryAssumption
<1>10. SumFunctionOnSet(QtyOf, T) <= SumFunctionOnSet(s, T)
  BY <1>7, <1>9, SumMonotonic
<1>11. SumFunctionOnSet(s, T) <= SumFunctionOnSet(s, S)
  BY <1>6, <1>8, SumOfPart
<1>12. SumFunctionOnSet(s, S) = SumFunctionOnSet(h, S) + SumFunctionOnSet(e, S)
  BY <1>6, <1>8, SumAdds
<1>13. /\ SumFunctionOnSet(QtyOf, T) \in Int
       /\ SumFunctionOnSet(s, T) \in Int
       /\ SumFunctionOnSet(h, S) \in Int
       /\ SumFunctionOnSet(e, S) \in Int
  BY <1>6, <1>7, <1>8, <1>9, SumType
<1>14. SumFunctionOnSet(h, S) <= granted[p] /\ granted[p] \in Int
  <2>1. Outstanding(p) = SumFunctionOnSet(h, S)
    BY <1>1, <1>3 DEF Outstanding
  <2>2. stock[p].available = granted[p] - Outstanding(p)
    BY DEF StockInv, StockConserved
  <2>3. stock[p].available \in Nat /\ granted[p] \in Int
    BY <1>0 DEF InventoryTypeOK
  <2>. QED
    BY <1>13, <2>1, <2>2, <2>3
<1>15. SumFunctionOnSet(QtyOf, T) <= granted[p] + SumFunctionOnSet(e, S)
  BY <1>10, <1>11, <1>12, <1>13, <1>14
<1>. QED
  BY <1>1, <1>2, <1>4, <1>15

(* However many workers there are, and whatever fails, a product is oversold*)
(* by no more than was put back for some order over and above its reserve.  *)
THEOREM OversoldIsAlwaysOverReleased == Spec => []OversoldIsOverReleased
<1>1. PoolInv => OversoldIsOverReleased
  BY ConfirmedFit DEF PoolInv
<1>. QED
  BY <1>1, PoolInit, PoolStep, PTL DEF Spec

NothingOverReleased == \A o \in Orders : releaseLogs[o] <= reserveLogs[o]

LEMMA HoldingGrows ==
  ASSUME InventoryTypeOK, NothingOverReleased, NEW o \in Orders
  PROVE  /\ Holding[o] \in Nat
         /\ reserveLogs[o] > releaseLogs[o] => QtyOf[o] <= Holding[o]
BY OverReleasedMakesUp, HoldingType DEF NothingOverReleased

LEMMA NothingOversold ==
  ASSUME PoolInv, NothingOverReleased
  PROVE  NoOversell
<1>. SUFFICES ASSUME NEW p \in Products
              PROVE  SumFunctionOnSet(QtyOf, {o \in OrdersFor(p) : order[o] = "CONFIRMED"}) <= granted[p]
  BY DEF NoOversell
<1>1. InventoryTypeOK
  BY DEF PoolInv, EvidenceInv, TypeInv
<1>2. PICK e : e = OverReleased
  OBVIOUS
<1>3. \A o \in OrdersFor(p) : e[o] = 0
  BY <1>1, <1>2, OverReleasedMakesUp DEF NothingOverReleased, OrdersFor
<1>4. SumFunctionOnSet(e, OrdersFor(p)) = 0
  BY <1>3, OrdersForFinite, SumOfZeros
<1>5. granted[p] \in Int
  BY <1>1 DEF InventoryTypeOK
<1>6. SumFunctionOnSet(QtyOf, {o \in OrdersFor(p) : order[o] = "CONFIRMED"})
        <= granted[p] + SumFunctionOnSet(e, OrdersFor(p))
  BY <1>2, ConfirmedFit DEF PoolInv, OversoldIsOverReleased
<1>7. granted[p] + SumFunctionOnSet(e, OrdersFor(p)) = granted[p]
  BY <1>4, <1>5
<1>. QED
  BY <1>6, <1>7

-----------------------------------------------------------------------------
(* What an index of inventory_logs on (order_id, action) that is unique would*)
(* give: an order reserves and releases at most once.                       *)
OneEach == \A o \in Orders : reserveLogs[o] <= 1 /\ releaseLogs[o] <= 1

LEMMA ReleasedOnce ==
  ASSUME EvidenceInv, OneEach
  PROVE  NothingOverReleased
<1>. SUFFICES ASSUME NEW o \in Orders
              PROVE  releaseLogs[o] <= reserveLogs[o]
  BY DEF NothingOverReleased
<1>1. reserveLogs[o] \in Nat /\ releaseLogs[o] \in Nat
  BY DEF EvidenceInv, TypeInv, InventoryTypeOK
<1>. QED
  BY <1>1, ConfirmedHolds DEF OneEach

(* However orders compete for a product, those confirmed fit into it, as    *)
(* long as none has two rows of a kind in the log ...                       *)
THEOREM UniqueRowsNeverOversell == Spec /\ []OneEach => []NoOversell
<1>1. PoolInv /\ OneEach => NoOversell
  BY ReleasedOnce, NothingOversold DEF PoolInv
<1>. QED
  BY <1>1, PoolInit, PoolStep, PTL DEF Spec

(* ... and what the log says an order holds is what its customer was told.  *)
THEOREM UniqueRowsHoldWhatIsShown == Spec /\ []OneEach => []HoldMatchesStatus
<1>1. PoolInv /\ OneEach => HoldMatchesStatus
  <2>. SUFFICES ASSUME PoolInv, OneEach, NEW o \in Orders
                PROVE  /\ order[o] = "CONFIRMED" => reserveLogs[o] = 1 /\ releaseLogs[o] = 0
                       /\ order[o] = "COMPENSATED" => reserveLogs[o] = releaseLogs[o]
    BY DEF HoldMatchesStatus
  <2>1. EvidenceInv /\ InventoryTypeOK
    BY DEF PoolInv, EvidenceInv, TypeInv
  <2>2. /\ reserveLogs[o] \in Nat /\ reserveLogs[o] <= 1
        /\ releaseLogs[o] \in Nat /\ releaseLogs[o] <= 1
    BY <2>1 DEF OneEach, InventoryTypeOK
  <2>. QED
    BY <2>1, <2>2, ConfirmedHolds
<1>. QED
  BY <1>1, PoolInit, PoolStep, PTL DEF Spec

-----------------------------------------------------------------------------
(* README's "available_qty + reserved_qty remaining conserved": reserved_qty*)
(* follows the log exactly as long as no refund finds less reserved than    *)
(* its order took, which GREATEST would hide.                               *)
ReservedIsLogged == \A p \in Products : stock[p].reserved = Outstanding(p)

(* A refund that leaves one release of its order: the order holds its       *)
(* quantity once.                                                           *)
LEMMA RefundIsCovered ==
  ASSUME PoolInv, OneEach, OneEach', ReservedIsLogged, NEW w \in InvWorkers, InvAt(w, "refund"),
         NEW o \in Orders, o = iw[w].cmd.order, Refund(o)
  PROVE  stock[ProductOf[o]].reserved >= QtyOf[o]
<1>0. EvidenceInv /\ InventoryTypeOK /\ NothingOverReleased
  BY ReleasedOnce DEF PoolInv, EvidenceInv, TypeInv
<1>1. Reserved(o)
  <2>1. InvTaskEvidence(iw[w])
    BY <1>0, EvidenceParts DEF EvidenceInv
  <2>. QED
    BY <2>1 DEF InvAt, InvFree, InvTaskEvidence, Evidence
<1>2. releaseLogs[o] = 0
  <2>1. releaseLogs'[o] = releaseLogs[o] + 1 /\ releaseLogs'[o] <= 1 /\ releaseLogs[o] \in Nat
    BY <1>0 DEF Refund, Logged, OneEach, InventoryTypeOK
  <2>. QED
    BY <2>1
<1>3. PICK h : h = Holding
  OBVIOUS
<1>4. PICK S : S = OrdersFor(ProductOf[o])
  OBVIOUS
<1>5. IsFiniteSet(S) /\ o \in S /\ \A q \in S : h[q] \in Nat
  BY <1>0, <1>3, <1>4, OrdersForFinite, HoldingGrows DEF OrdersFor
<1>6. QtyOf[o] <= h[o] /\ QtyOf[o] \in Nat
  BY <1>0, <1>1, <1>2, <1>3, HoldingGrows, InventoryAssumption DEF InventoryAssumption, Reserved
<1>7. SumFunctionOnSet(h, {o}) <= SumFunctionOnSet(h, S)
  BY <1>5, SumOfPart
<1>8. SumFunctionOnSet(h, {o}) = h[o]
  <2>1. IsFiniteSet({o})
    BY FS_Singleton
  <2>2. SumFunctionOnSet(h, {o}) = h[o] + SumFunctionOnSet(h, {o} \ {o})
    <3>1. \A q \in {o} : h[q] \in Int
      BY <1>5
    <3>. QED
      BY <2>1, <3>1, AnyElement DEF TakesOut
  <2>3. {o} \ {o} = {}
    OBVIOUS
  <2>. QED
    BY <1>5, <2>2, <2>3, SumOfNone
<1>9. SumFunctionOnSet(h, S) = stock[ProductOf[o]].reserved
  BY <1>3, <1>4, InventoryAssumption DEF InventoryAssumption, ReservedIsLogged, Outstanding
<1>10. stock[ProductOf[o]].reserved \in Nat /\ h[o] \in Nat
  BY <1>0, <1>5, InventoryAssumption DEF InventoryAssumption, InventoryTypeOK
<1>. QED
  BY <1>6, <1>7, <1>8, <1>9, <1>10

LEMMA RefundFollowsLog ==
  ASSUME InventoryTypeOK, InventoryTypeOK', ReservedIsLogged, NEW o \in Orders, Refund(o),
         stock[ProductOf[o]].reserved >= QtyOf[o]
  PROVE  ReservedIsLogged'
<1>1. /\ ProductOf[o] \in Products
      /\ stock[ProductOf[o]].available \in Nat /\ stock[ProductOf[o]].reserved \in Nat
  BY InventoryAssumption DEF InventoryAssumption, InventoryTypeOK
<1>2. stock'[ProductOf[o]].reserved = stock[ProductOf[o]].reserved - QtyOf[o]
  BY <1>1 DEF Refund, PutBack, Row, InventoryTypeOK
<1>3. \A p \in Products : p # ProductOf[o] => stock'[p] = stock[p]
  BY DEF Refund, InventoryTypeOK
<1>4. \A p \in Products :
        Outstanding(p)' = IF p = ProductOf[o] THEN Outstanding(p) - QtyOf[o] ELSE Outstanding(p)
  BY RefundHolds DEF Refund
<1>. QED
  BY <1>1, <1>2, <1>3, <1>4 DEF ReservedIsLogged

LEMMA ReserveFollowsLog ==
  ASSUME InventoryTypeOK, InventoryTypeOK', ReservedIsLogged, NEW w \in InvWorkers, ReserveAtomic(w)
  PROVE  ReservedIsLogged'
<1>0. PICK o \in Orders : o = iw[w].cmd.order
  BY BusyTask DEF ReserveAtomic, InvAt
<1>1. ProductOf[o] \in Products
  BY InventoryAssumption DEF InventoryAssumption
<1>2. stock'[ProductOf[o]].reserved = stock[ProductOf[o]].reserved + QtyOf[o]
  BY <1>0, <1>1 DEF ReserveAtomic, Taken, Row, InventoryTypeOK
<1>3. \A p \in Products : p # ProductOf[o] => stock'[p] = stock[p]
  BY <1>0 DEF ReserveAtomic, InventoryTypeOK
<1>4. \A p \in Products :
        Outstanding(p)' = IF p = ProductOf[o] THEN Outstanding(p) + QtyOf[o] ELSE Outstanding(p)
  BY <1>0, ReserveHolds DEF ReserveAtomic
<1>. QED
  BY <1>1, <1>2, <1>3, <1>4 DEF ReservedIsLogged

LEMMA AdminFollowsLog ==
  ASSUME InventoryTypeOK, StockInv, ReservedIsLogged, Admin
  PROVE  ReservedIsLogged'
<1>1. PICK r \in Products, q \in AdminQty : CreateSKU(r, q) \/ UpdateAvailableQty(r, q)
  BY DEF Admin
<1>2. \A p : Outstanding(p)' = Outstanding(p)
  BY <1>1, NothingHeldAnew DEF CreateSKU, UpdateAvailableQty
<1>3. \A p \in Products : p # r => stock'[p] = stock[p]
  BY <1>1 DEF CreateSKU, UpdateAvailableQty, InventoryTypeOK
<1>4. stock'[r].reserved = stock[r].reserved
  <2>1. CASE CreateSKU(r, q)
    <3>1. stock'[r].reserved = 0
      BY <2>1 DEF CreateSKU, Row, InventoryTypeOK
    <3>2. stock[r].reserved = 0
      BY <2>1 DEF CreateSKU, StockInv, Blank
    <3>. QED
      BY <3>1, <3>2
  <2>2. CASE UpdateAvailableQty(r, q)
    BY <2>2 DEF UpdateAvailableQty, Corrected, Row, InventoryTypeOK
  <2>. QED
    BY <1>1, <2>1, <2>2
<1>. QED
  BY <1>2, <1>3, <1>4 DEF ReservedIsLogged

LEMMA SystemFollowsLog ==
  ASSUME PoolInv, OneEach, OneEach', ReservedIsLogged, [Next]_vars
  PROVE  ReservedIsLogged'
<1>0. InventoryTypeOK /\ InventoryTypeOK'
  BY StepType DEF PoolInv, EvidenceInv, TypeInv
<1>1. CASE StockSame
  BY <1>1, NothingHeldAnew DEF StockSame, ReservedIsLogged
<1>2. ASSUME NEW w \in InvWorkers, InvStep(w)
      PROVE  ReservedIsLogged'
  <2>1. CASE ReserveAtomic(w)
    BY <1>0, <2>1, ReserveFollowsLog
  <2>2. CASE InvAt(w, "refund") /\ Refund(iw[w].cmd.order)
    <3>1. PICK o \in Orders : o = iw[w].cmd.order
      BY <1>0, <2>2, BusyTask DEF InvAt
    <3>2. stock[ProductOf[o]].reserved >= QtyOf[o]
      BY <2>2, <3>1, RefundIsCovered
    <3>. QED
      BY <1>0, <2>2, <3>1, <3>2, RefundFollowsLog
  <2>. QED
    BY <1>1, <1>2, <2>1, <2>2
    DEF InvStep, InvWork, InvPublish, CheckReserve, CheckRelease, ReadStock, ReadNothing, LockConflict,
        ReleaseAtomic, ReleaseNothing, ReleaseError, PublishVerdict, PublishUnconfirmed, InvFault
<1>3. CASE Admin
  BY <1>0, <1>3, AdminFollowsLog DEF PoolInv
<1>. QED
  BY <1>1, <1>2, <1>3, OneService DEF InvSide, invVars, vars, StockSame

(* What is available and what is reserved of a product are together what it *)
(* was granted, as long as no order has two rows of a kind in the log.      *)
THEOREM UniqueRowsAddUp == Spec /\ []OneEach => []StockAddsUp
<1>1. Init => ReservedIsLogged
  <2>. SUFFICES ASSUME Init, NEW p \in Products
                PROVE  stock[p].reserved = Outstanding(p)
    BY DEF ReservedIsLogged
  <2>1. StockInv /\ InventoryTypeOK
    BY StockInit, InitType DEF Init, TypeInv
  <2>2. stock[p].available = granted[p] /\ stock[p].reserved = 0
    BY DEF Init, InventoryInit, Row
  <2>3. stock[p].available = granted[p] - Outstanding(p)
    BY <2>1 DEF StockInv, StockConserved
  <2>. QED
    BY <2>1, <2>2, <2>3, OutstandingType DEF InventoryTypeOK
<1>2. PoolInv /\ ReservedIsLogged /\ OneEach /\ OneEach' /\ [Next]_vars => ReservedIsLogged'
  BY SystemFollowsLog
<1>3. PoolInv /\ ReservedIsLogged => StockAddsUp
  <2>. SUFFICES ASSUME PoolInv, ReservedIsLogged, NEW p \in Products
                PROVE  stock[p].available + stock[p].reserved = granted[p]
    BY DEF StockAddsUp
  <2>1. InventoryTypeOK /\ StockInv
    BY DEF PoolInv, EvidenceInv, TypeInv
  <2>. QED
    BY <2>1, OutstandingType DEF ReservedIsLogged, StockInv, StockConserved, InventoryTypeOK
<1>. QED
  BY <1>1, <1>2, <1>3, PoolInit, PoolStep, PTL DEF Spec

-----------------------------------------------------------------------------
(* A payment is asked for only of an order whose reserve was answered, and  *)
(* the answer committed: the order moves on from there, or its payment is   *)
(* refused, or a second answer has overwritten what the first one wrote.    *)
Answers(o) == {i \in EventIds : <<"Reserved", o, i>> \in processed}

Granted(o) ==
  /\ Answers(o) # {}
  /\ \/ order[o] \in {"INVENTORY_RESERVED", "CONFIRMED"}
     \/ Declined(o)
     \/ \E i, j \in Answers(o) : i # j

AskedFor(m) == m.kind = "Pay" => Granted(m.order)

ChargeInv ==
  /\ \A m \in queue : AskedFor(m)
  /\ \A w \in OrdWorkers : ow[w].pc = "publish" /\ ow[w].msg.kind = "Reserved" => Granted(ow[w].msg.order)
  /\ \A w \in PayWorkers : pw[w] # PayFree => Granted(pw[w].cmd.order)
  /\ \A t \in todo : t.row.step = "PROCESSING_PAYMENT" => Granted(t.order)
  /\ \A o \in Orders : saga[o].step = "PROCESSING_PAYMENT" => Granted(o)
  /\ \A o \in Orders : Charged(o) => Granted(o)

(* Nothing has been answered before POST /orders has written the saga.      *)
Unasked == \A o \in Orders : request[o] \in {"new", "saga"} => saga[o] = NoSaga /\ Answers(o) = {}

GrantedStays == \A o \in Orders : Granted(o) => Granted(o)'

(* What a transaction writes, with one answer more if its event is one.     *)
LEMMA CommitWrites ==
  ASSUME OrderTypeInv, NEW w \in OrdWorkers, Commits(w), NEW m, m = ow[w].msg
  PROVE  /\ m \in Events /\ m.order \in Orders /\ m.id \in EventIds /\ ow[w] # OrdFree
         /\ saga[m.order] # NoSaga /\ UNCHANGED <<request, todo, queue, faults>>
         /\ \A v \in OrdWorkers : v # w => ow'[v] = ow[v]
         /\ \A o \in Orders : o # m.order => order'[o] = order[o] /\ saga'[o] = saga[o] /\ Answers(o)' = Answers(o)
         /\ Answers(m.order)' = Answers(m.order) \cup (IF m.kind = "Reserved" THEN {m.id} ELSE {})
         /\ m.kind = "Reserved" => m.id \notin Answers(m.order)
<1>1. OrderTypeOK /\ ow[w].pc = "commit"
  BY DEF OrderTypeInv, Commits, CommitInventoryReserved, CommitPaymentProcessed, CommitInventoryReleased, OrdAt
<1>2. m \in Events /\ m.order \in Orders /\ m.id \in EventIds /\ ow[w] # OrdFree /\ saga[m.order] # NoSaga
  BY <1>1, OrdBusyTask, OrdMessages DEF OrderTypeInv, CommitHasSaga, OrdFree
<1>3. PICK status, row, next : Commit(w, status, row, next)
  BY DEF Commits, CommitInventoryReserved, CommitPaymentProcessed, CommitInventoryReleased
<1>4. /\ Key(m) \notin processed /\ processed' = processed \cup {Key(m)}
      /\ UNCHANGED <<request, todo, queue, faults>>
      /\ \A v \in OrdWorkers : v # w => ow'[v] = ow[v]
      /\ \A o \in Orders : o # m.order => order'[o] = order[o] /\ saga'[o] = saga[o]
  BY <1>1, <1>3 DEF Commit, OrdSet, OrderTypeOK, netVars
<1>5. Key(m) = <<m.kind, m.order, m.id>>
  BY DEF Key
<1>6. /\ \A o \in Orders : o # m.order => Answers(o)' = Answers(o)
      /\ Answers(m.order)' = Answers(m.order) \cup (IF m.kind = "Reserved" THEN {m.id} ELSE {})
      /\ m.kind = "Reserved" => m.id \notin Answers(m.order)
  BY <1>2, <1>4, <1>5 DEF Answers
<1>. QED
  BY <1>2, <1>4, <1>6

LEMMA CommitGrants ==
  ASSUME EvidenceInv, NEW w \in OrdWorkers, UNCHANGED payVars, Commits(w)
  PROVE  GrantedStays
<1>0. OrderTypeInv /\ OrderTypeOK
  BY DEF EvidenceInv, TypeInv, OrderTypeInv
<1>1. PICK m : m = ow[w].msg
  OBVIOUS
<1>2. /\ m \in Events /\ m.order \in Orders /\ m.id \in EventIds /\ ow[w] # OrdFree
      /\ \A o \in Orders : o # m.order => order'[o] = order[o] /\ Answers(o)' = Answers(o)
      /\ Answers(m.order)' = Answers(m.order) \cup (IF m.kind = "Reserved" THEN {m.id} ELSE {})
      /\ m.kind = "Reserved" => m.id \notin Answers(m.order)
  BY <1>0, <1>1, CommitWrites
<1>3. Evidence(m)
  BY <1>1, <1>2, EvidenceParts DEF EvidenceInv, OrdTaskEvidence
<1>4. \A o : Declined(o)' = Declined(o)
  BY DEF Declined, payVars
<1>5. ASSUME Granted(m.order)
      PROVE  Granted(m.order)'
  <2>1. Answers(m.order) # {} /\ Answers(m.order) \subseteq Answers(m.order)'
    BY <1>2, <1>5 DEF Granted
  <2>2. CASE CommitInventoryReserved(w)
    <3>1. CASE m.ok
      <4>1. order'[m.order] = "INVENTORY_RESERVED"
        BY <1>0, <1>1, <1>2, <2>2, <3>1 DEF CommitInventoryReserved, Commit, OrderTypeOK
      <4>. QED
        BY <2>1, <4>1 DEF Granted
    <3>2. CASE ~ m.ok
      <4>1. PICK i \in Answers(m.order) : TRUE
        BY <2>1
      <4>2. i \in Answers(m.order)' /\ m.id \in Answers(m.order)' /\ i # m.id
        BY <1>1, <1>2, <2>2, <4>1 DEF CommitInventoryReserved
      <4>. QED
        BY <2>1, <4>2 DEF Granted
    <3>. QED
      BY <3>1, <3>2
  <2>3. ASSUME Declined(m.order)
        PROVE  Granted(m.order)'
    BY <1>4, <2>1, <2>3 DEF Granted
  <2>4. CASE CommitPaymentProcessed(w)
    <3>1. m.kind = "Paid"
      BY <1>1, <2>4 DEF CommitPaymentProcessed
    <3>2. CASE m.ok
      <4>1. order'[m.order] = "CONFIRMED"
        BY <1>0, <1>1, <1>2, <2>4, <3>2 DEF CommitPaymentProcessed, Commit, OrderTypeOK
      <4>. QED
        BY <2>1, <4>1 DEF Granted
    <3>3. CASE ~ m.ok
      BY <1>3, <2>3, <3>1, <3>3 DEF Evidence, VerdictIs
    <3>. QED
      BY <3>2, <3>3
  <2>5. CASE CommitInventoryReleased(w)
    <3>1. m.kind = "Released"
      BY <1>1, <2>5 DEF CommitInventoryReleased
    <3>2. CASE m.ok
      <4>1. Released(m.order) /\ OrderEvidence(m.order)
        BY <1>2, <1>3, <3>1, <3>2, EvidenceParts DEF Evidence, EvidenceInv
      <4>. QED
        BY <2>3, <4>1 DEF OrderEvidence
    <3>3. CASE ~ m.ok
      <4>1. order'[m.order] = order[m.order]
        BY <1>0, <1>1, <1>2, <2>5, <3>3 DEF CommitInventoryReleased, Commit, OrderTypeOK
      <4>. QED
        BY <1>4, <1>5, <2>1, <4>1 DEF Granted
    <3>. QED
      BY <3>2, <3>3
  <2>. QED
    BY <2>2, <2>4, <2>5 DEF Commits
<1>. QED
  BY <1>2, <1>4, <1>5 DEF GrantedStays, Granted

LEMMA StepGrants ==
  ASSUME EvidenceInv, Unasked, [Next]_vars
  PROVE  GrantedStays
<1>1. FactsStay
  BY FactsStayTrue DEF EvidenceInv
<1>2. CASE order' = order /\ processed' = processed
  BY <1>1, <1>2 DEF FactsStay, GrantedStays, Granted, Answers
<1>3. ASSUME NEW q \in Orders, HandleRequest(q) \/ RequestFails(q), UNCHANGED payVars
      PROVE  GrantedStays
  <2>1. OrderTypeOK
    BY DEF EvidenceInv, TypeInv, OrderTypeInv
  <2>2. processed' = processed /\ (order' = order \/ Answers(q) = {})
    BY <1>3 DEF HandleRequest, CreateOrder, CreateSaga, SendReserve, RequestFails, RequestSame, Unasked
  <2>3. \A o \in Orders : o # q => order'[o] = order[o]
    BY <1>3, <2>1 DEF HandleRequest, CreateOrder, CreateSaga, SendReserve, RequestFails, OrderTypeOK
  <2>. QED
    BY <1>3, <2>2, <2>3 DEF GrantedStays, Granted, Answers, Declined, payVars
<1>4. ASSUME NEW w \in OrdWorkers, OrdWorkerStep(w), UNCHANGED payVars
      PROVE  GrantedStays
  <2>1. CASE Commits(w)
    BY <1>4, <2>1, CommitGrants
  <2>. QED
    BY <1>2, <1>4, <2>1
    DEF Commits, OrdWorkerStep, OrdWork, BeginEvent, CommitConflict, PublishNext, PublishNextUnconfirmed, OrdFault, OrderRows
<1>5. CASE \/ \E status \in Live : ListByStatus(status)
           \/ \E t \in todo : SkipSaga(t) \/ \E id \in CmdIds : RecoverSaga(t, id)
           \/ RecoveryFault
  BY <1>2, <1>5 DEF ListByStatus, SkipSaga, RecoverSaga, RecoveryFault, OrderRows
<1>. QED
  BY <1>2, <1>3, <1>4, <1>5, OneService DEF OrdStep, ordVars, vars

LEMMA StepUnasked ==
  ASSUME TypeInv, Unasked, [Next]_vars
  PROVE  Unasked'
<1>0. OrderTypeInv /\ OrderTypeOK
  BY DEF TypeInv, OrderTypeInv
<1>1. CASE UNCHANGED OrderRows
  BY <1>1 DEF OrderRows, Unasked, Answers
<1>2. ASSUME NEW q \in Orders, HandleRequest(q) \/ RequestFails(q)
      PROVE  Unasked'
  <2>1. /\ processed' = processed
        /\ \A o \in Orders : o # q => request'[o] = request[o] /\ saga'[o] = saga[o]
        /\ request'[q] \in {"new", "saga"} => request[q] = "new" /\ saga'[q] = saga[q]
    BY <1>0, <1>2 DEF HandleRequest, CreateOrder, CreateSaga, SendReserve, RequestFails, RequestSame, OrderTypeOK
  <2>. QED
    BY <2>1 DEF Unasked, Answers
<1>3. ASSUME NEW w \in OrdWorkers, Commits(w)
      PROVE  Unasked'
  <2>1. PICK m : m = ow[w].msg
    OBVIOUS
  <2>2. /\ m.order \in Orders /\ saga[m.order] # NoSaga /\ request' = request
        /\ \A o \in Orders : o # m.order => saga'[o] = saga[o] /\ Answers(o)' = Answers(o)
    BY <1>0, <1>3, <2>1, CommitWrites
  <2>. QED
    BY <2>2 DEF Unasked
<1>4. ASSUME NEW w \in OrdWorkers, OrdWorkerStep(w), ~ Commits(w)
      PROVE  UNCHANGED OrderRows
  BY <1>4
  DEF Commits, OrdWorkerStep, OrdWork, BeginEvent, CommitConflict, PublishNext, PublishNextUnconfirmed, OrdFault
<1>5. CASE \/ \E status \in Live : ListByStatus(status)
           \/ \E t \in todo : SkipSaga(t) \/ \E id \in CmdIds : RecoverSaga(t, id)
           \/ RecoveryFault
  BY <1>1, <1>5 DEF ListByStatus, SkipSaga, RecoverSaga, RecoveryFault
<1>. QED
  BY <1>1, <1>2, <1>3, <1>4, <1>5, OneService DEF OrdStep, ordVars, vars, OrderRows

(* What a step adds must be granted; what it leaves is.                     *)
LEMMA ChargeFrame ==
  ASSUME TypeInv, ChargeInv, GrantedStays,
         \A m \in queue' \ queue : AskedFor(m)',
         \A w \in OrdWorkers : \/ ow'[w] = ow[w]
                               \/ ow'[w].pc = "publish" /\ ow'[w].msg.kind = "Reserved"
                                    => Granted(ow[w].msg.order)',
         \A w \in PayWorkers : pw'[w] = pw[w] \/ (pw'[w] # PayFree => Granted(pw[w].cmd.order)'),
         \A t \in todo' \ todo : t.row.step = "PROCESSING_PAYMENT" => Granted(t.order)',
         \A o \in Orders : saga'[o].step = "PROCESSING_PAYMENT" => saga[o].step = "PROCESSING_PAYMENT" \/ Granted(o)',
         \A o \in Orders : Charged(o)' => Charged(o) \/ Granted(o)
  PROVE  ChargeInv'
<1>1. ASSUME NEW m \in queue
      PROVE  AskedFor(m)'
  <2>1. m.order \in Orders
    BY DEF TypeInv, TransportTypeOK, Messages, InventoryCmds, PaymentCmds, Events
  <2>2. AskedFor(m)
    BY DEF ChargeInv
  <2>. QED
    BY <2>1, <2>2 DEF AskedFor, GrantedStays
<1>2. ASSUME NEW w \in OrdWorkers, ow'[w].pc = "publish", ow'[w].msg.kind = "Reserved"
      PROVE  Granted(ow[w].msg.order)'
  <2>1. CASE ow'[w] = ow[w]
    <3>1. PICK o \in Orders : o = ow[w].msg.order
      BY <1>2, <2>1, OrdBusyTask DEF TypeInv, OrderTypeInv
    <3>2. Granted(o)
      BY <1>2, <2>1, <3>1 DEF ChargeInv
    <3>3. Granted(o)'
      BY <3>2 DEF GrantedStays
    <3>. QED
      BY <2>1, <3>1, <3>3 DEF Granted, Answers, Declined
  <2>. QED
    BY <1>2, <2>1
<1>3. ASSUME NEW w \in PayWorkers, pw'[w] # PayFree
      PROVE  Granted(pw[w].cmd.order)'
  <2>1. CASE pw'[w] = pw[w]
    <3>1. PICK o \in Orders : o = pw[w].cmd.order
      BY <1>3, <2>1, PayBusyTask DEF TypeInv
    <3>2. Granted(o)
      BY <1>3, <2>1, <3>1 DEF ChargeInv
    <3>3. Granted(o)'
      BY <3>2 DEF GrantedStays
    <3>. QED
      BY <2>1, <3>1, <3>3 DEF Granted, Answers, Declined
  <2>. QED
    BY <1>3, <2>1
<1>4. ASSUME NEW t \in todo, t.row.step = "PROCESSING_PAYMENT"
      PROVE  Granted(t.order)'
  BY <1>4 DEF TypeInv, OrderTypeInv, OrderTypeOK, ChargeInv, GrantedStays
<1>5. ASSUME NEW o \in Orders, Charged(o)'
      PROVE  Granted(o)'
  BY <1>5 DEF ChargeInv, GrantedStays
<1>6. ASSUME NEW o \in Orders, saga'[o].step = "PROCESSING_PAYMENT"
      PROVE  Granted(o)'
  BY <1>6 DEF ChargeInv, GrantedStays
<1>. QED
  BY <1>1, <1>2, <1>3, <1>4, <1>5, <1>6 DEF ChargeInv

LEMMA OrdCharges ==
  ASSUME EvidenceInv, ChargeInv, GrantedStays, OrdStep, UNCHANGED payVars
  PROVE  ChargeInv'
<1>0. /\ TypeInv /\ OrderTypeInv /\ OrderTypeOK
      /\ \A o \in Orders : Charged(o)' => Charged(o)
      /\ \A w \in PayWorkers : pw'[w] = pw[w]
      /\ (UNCHANGED saga) => \A o \in Orders : saga'[o].step = saga[o].step
  BY DEF EvidenceInv, TypeInv, OrderTypeInv, payVars, Charged
<1>1. ASSUME NEW q \in Orders, HandleRequest(q) \/ RequestFails(q)
      PROVE  ChargeInv'
  <2>1. /\ \A m \in queue' \ queue : m = ReserveCmd(q)
        /\ ow' = ow /\ todo' = todo
        /\ \A o \in Orders : saga'[o].step = "PROCESSING_PAYMENT" => saga[o].step = "PROCESSING_PAYMENT"
    BY <1>0, <1>1
    DEF HandleRequest, CreateOrder, CreateSaga, SendReserve, RequestFails, RequestSame, Publish, netVars, SagaRow,
        OrderTypeOK
  <2>2. \A m \in queue' \ queue : AskedFor(m)'
    BY <2>1 DEF AskedFor, ReserveCmd
  <2>. QED
    BY <1>0, <2>1, <2>2, ChargeFrame
<1>2. ASSUME NEW w \in OrdWorkers, OrdWorkerStep(w)
      PROVE  ChargeInv'
  <2>1. ASSUME NEW m \in queue, BeginEvent(w, m)
        PROVE  ChargeInv'
    <3>1. /\ queue' \subseteq queue /\ todo' = todo /\ saga' = saga
          /\ \A v \in OrdWorkers : ow'[v] = ow[v] \/ ow'[v].pc # "publish"
      BY <1>0, <2>1 DEF BeginEvent, Take, OrdSet, OrderTypeOK, EventTask, OrdFree, OrderRows
    <3>. QED
      BY <1>0, <3>1, ChargeFrame
  <2>2. CASE Commits(w)
    <3>1. PICK m : m = ow[w].msg
      OBVIOUS
    <3>2. /\ m.order \in Orders /\ queue' = queue /\ todo' = todo
          /\ \A v \in OrdWorkers : v # w => ow'[v] = ow[v]
          /\ \A o \in Orders : o # m.order => saga'[o] = saga[o]
          /\ m.kind = "Reserved" => Answers(m.order)' # {}
      BY <1>0, <2>2, <3>1, CommitWrites
    <3>3. ASSUME CommitInventoryReserved(w), m.ok
          PROVE  Granted(m.order)'
      <4>1. order'[m.order] = "INVENTORY_RESERVED" /\ m.kind = "Reserved"
        BY <1>0, <3>1, <3>2, <3>3 DEF CommitInventoryReserved, Commit, OrderTypeOK
      <4>. QED
        BY <3>2, <4>1 DEF Granted
    <3>4. ASSUME ow'[w].pc = "publish", ow'[w].msg.kind = "Reserved"
          PROVE  Granted(ow[w].msg.order)'
      <4>1. ow'[w].msg = m /\ CommitInventoryReserved(w) /\ m.ok
        BY <1>0, <2>2, <3>1, <3>4
        DEF Commits, CommitInventoryReserved, CommitPaymentProcessed, CommitInventoryReleased, Commit, OrdSet,
            OrderTypeOK, OrdFree, EventTask
      <4>2. Granted(m.order)'
        BY <3>3, <4>1
      <4>. QED
        BY <4>1, <4>2 DEF Granted, Answers, Declined
    <3>5. ASSUME saga'[m.order].step = "PROCESSING_PAYMENT"
          PROVE  Granted(m.order)'
      <4>1. CommitInventoryReserved(w) /\ m.ok
        BY <1>0, <2>2, <3>1, <3>2, <3>5
        DEF Commits, CommitInventoryReserved, CommitPaymentProcessed, CommitInventoryReleased, Commit, Compensation,
            SagaRow, OrderTypeOK
      <4>. QED
        BY <3>3, <4>1
    <3>6. \A o \in Orders :
            saga'[o].step = "PROCESSING_PAYMENT" => saga[o].step = "PROCESSING_PAYMENT" \/ Granted(o)'
      BY <3>2, <3>5
    <3>. QED
      BY <1>0, <3>2, <3>4, <3>6, ChargeFrame
  <2>3. CASE CommitConflict(w) \/ OrdFault(w)
    <3>1. /\ ow[w] # OrdFree /\ todo' = todo /\ saga' = saga
          /\ \A v \in OrdWorkers : ow'[v] = ow[v] \/ ow'[v] = OrdFree
          /\ queue' \subseteq queue \cup {ow[w].msg}
      BY <1>0, <2>3
      DEF CommitConflict, OrdFault, OrdAt, OrdFree, Requeued, Parked, Redelivered, Return, OrdSet, OrderTypeOK, OrderRows
    <3>2. \A m \in queue' \ queue : AskedFor(m)'
      BY <1>0, <3>1, OrdBusyTask DEF Events, AskedFor
    <3>. QED
      BY <1>0, <3>1, <3>2, ChargeFrame DEF OrdFree
  <2>4. ASSUME NEW id \in CmdIds, PublishNext(w, id) \/ PublishNextUnconfirmed(w, id)
        PROVE  ChargeInv'
    <3>1. PICK m : m = ow[w].msg
      OBVIOUS
    <3>2. ow[w].pc = "publish" /\ m \in Events /\ m.order \in Orders
      BY <1>0, <2>4, <3>1, OrdBusyTask DEF PublishNext, PublishNextUnconfirmed, OrdAt
    <3>3. /\ todo' = todo /\ saga' = saga
          /\ \A v \in OrdWorkers : ow'[v] = ow[v] \/ ow'[v] = OrdFree
          /\ queue' \subseteq queue \cup {NextCommand(m, id), m}
      BY <1>0, <2>4, <3>1 DEF PublishNext, PublishNextUnconfirmed, Publish, OrdSet, OrderTypeOK, OrderRows
    <3>4. m.kind = "Reserved" => Granted(m.order)'
      BY <3>1, <3>2 DEF ChargeInv, GrantedStays
    <3>5. AskedFor(NextCommand(m, id))' /\ AskedFor(m)'
      BY <3>2, <3>4 DEF AskedFor, NextCommand, PayCmd, ReleaseCmd, Events
    <3>6. \A n \in queue' \ queue : AskedFor(n)'
      BY <3>3, <3>5
    <3>. QED
      BY <1>0, <3>3, <3>6, ChargeFrame DEF OrdFree
  <2>. QED
    BY <1>2, <2>1, <2>2, <2>3, <2>4 DEF OrdWorkerStep, OrdWork, Commits
<1>3. ASSUME NEW status \in Live, ListByStatus(status)
      PROVE  ChargeInv'
  <2>1. queue' = queue /\ ow' = ow /\ saga' = saga
        /\ \A t \in todo' : \E o \in Orders : t = [order |-> o, row |-> saga[o]]
    BY <1>3 DEF ListByStatus, netVars, OrderRows
  <2>2. \A o \in Orders : saga[o].step = "PROCESSING_PAYMENT" => Granted(o)'
    BY DEF ChargeInv, GrantedStays
  <2>. QED
    BY <1>0, <2>1, <2>2, ChargeFrame
<1>4. ASSUME NEW t \in todo, SkipSaga(t) \/ \E id \in CmdIds : RecoverSaga(t, id)
      PROVE  ChargeInv'
  <2>1. t.order \in Orders /\ (t.row.step = "PROCESSING_PAYMENT" => Granted(t.order)')
    BY <1>0 DEF OrderTypeOK, ChargeInv, GrantedStays
  <2>2. ow' = ow /\ todo' \subseteq todo /\ saga' = saga
    BY <1>4 DEF SkipSaga, RecoverSaga, OrderRows
  <2>3. \A m \in queue' \ queue : AskedFor(m)'
    BY <1>4, <2>1
    DEF SkipSaga, RecoverSaga, Recoverable, Publish, Resend, netVars, AskedFor, ReserveCmd, PayCmd, ReleaseCmd
  <2>. QED
    BY <1>0, <2>2, <2>3, ChargeFrame
<1>5. CASE RecoveryFault
  <2>1. queue' = queue /\ ow' = ow /\ todo' \subseteq todo /\ saga' = saga
    BY <1>5 DEF RecoveryFault, OrderRows
  <2>. QED
    BY <1>0, <2>1, ChargeFrame
<1>. QED
  BY <1>1, <1>2, <1>3, <1>4, <1>5 DEF OrdStep

LEMMA InvCharges ==
  ASSUME EvidenceInv, ChargeInv, GrantedStays, InvSide, UNCHANGED <<ordVars, payVars>>
  PROVE  ChargeInv'
<1>0. /\ TypeInv /\ InventoryTypeOK
      /\ \A o \in Orders : Charged(o)' => Charged(o)
      /\ ow' = ow /\ pw' = pw /\ todo' = todo /\ saga' = saga
  BY DEF EvidenceInv, TypeInv, payVars, ordVars, Charged
<1>1. ASSUME NEW w \in InvWorkers, InvStep(w)
      PROVE  \A m \in queue' \ queue : m.kind # "Pay"
  <2>1. queue' \subseteq queue \cup {iw[w].cmd} \cup {Verdict(iw[w].cmd, iw[w].ok, id) : id \in EventIds}
    BY <1>1
    DEF InvStep, InvWork, InvPublish, CheckReserve, CheckRelease, ReadStock, ReadNothing, ReserveAtomic,
        LockConflict, ReleaseAtomic, ReleaseNothing, ReleaseError, PublishVerdict, PublishUnconfirmed, InvFault,
        Take, Return, Requeued, Parked, Redelivered, Publish, netVars
  <2>2. queue' \subseteq queue \/ iw[w].cmd.kind # "Pay"
    <3>1. CASE iw[w] = InvFree
      <4>1. iw[w].pc = "free"
        BY <3>1 DEF InvFree
      <4>2. \E o \in Orders : CheckReserve(w, o) \/ CheckRelease(w, o)
        BY <1>1, <3>1, <4>1
        DEF InvStep, InvWork, InvPublish, ReadStock, ReadNothing, ReserveAtomic, LockConflict, ReleaseAtomic,
            ReleaseNothing, ReleaseError, PublishVerdict, PublishUnconfirmed, InvFault, InvAt, InvBusy
      <4>. QED
        BY <4>2 DEF CheckReserve, CheckRelease, Take
    <3>2. CASE iw[w] # InvFree
      BY <1>0, <3>2, BusyIsNotFree, BusyTask DEF InventoryCmds
    <3>. QED
      BY <3>1, <3>2
  <2>. QED
    BY <2>1, <2>2 DEF Verdict, VerdictKind, Event
<1>2. Admin => queue' = queue
  BY DEF Admin, CreateSKU, UpdateAvailableQty, netVars
<1>3. \A m \in queue' \ queue : m.kind # "Pay"
  BY <1>1, <1>2 DEF InvSide
<1>. QED
  BY <1>0, <1>3, ChargeFrame DEF AskedFor

LEMMA PayCharges ==
  ASSUME EvidenceInv, ChargeInv, GrantedStays, PaySide, UNCHANGED <<ordVars, invVars>>
  PROVE  ChargeInv'
<1>0. TypeInv /\ PaymentTypeOK /\ ow' = ow /\ todo' = todo /\ saga' = saga
  BY DEF EvidenceInv, TypeInv, ordVars
<1>1. ASSUME NEW o \in Orders, PostPayment(o)
      PROVE  ChargeInv'
  <2>1. queue' = queue /\ pw' = pw /\ \A q \in Orders : Charged(q)' => Charged(q)
    BY <1>0, <1>1 DEF PostPayment, netVars, Charged, PaymentTypeOK
  <2>. QED
    BY <1>0, <2>1, ChargeFrame
<1>2. ASSUME NEW w \in PayWorkers, PayStep(w), pw[w] # PayFree
      PROVE  ChargeInv'
  <2>1. PICK c : c = pw[w].cmd
    OBVIOUS
  <2>2. c.order \in Orders /\ Granted(c.order) /\ Granted(c.order)'
    BY <1>0, <1>2, <2>1, PayBusyTask DEF ChargeInv, GrantedStays
  <2>3. /\ queue' \subseteq queue \cup {c} \cup {Event("Paid", c.order, pw[w].ok, id) : id \in EventIds}
        /\ \A v \in PayWorkers : v # w => pw'[v] = pw[v]
        /\ pw'[w] # PayFree => pw'[w].cmd = c
        /\ \A o \in Orders : o # c.order => payment'[o] = payment[o]
    BY <1>0, <1>2, <2>1
    DEF PayStep, PayWork, PayPublish, CheckProcessed, LookupPayment, CreatePayment, CreateConflict, PayFault,
        PublishPaid, PublishPaidUnconfirmed, PaidVerdict, Publish, Requeued, Parked, Redelivered, Return, Take,
        PaySet, PayTask, PaymentsSame, PaymentTypeOK, netVars
  <2>4. \A m \in queue' \ queue : AskedFor(m)'
    BY <2>2, <2>3 DEF AskedFor, Event
  <2>5. \A o \in Orders : Charged(o)' => Charged(o) \/ Granted(o)
    BY <2>2, <2>3 DEF Charged
  <2>6. \A v \in PayWorkers : pw'[v] = pw[v] \/ (pw'[v] # PayFree => Granted(pw[v].cmd.order)')
    BY <2>2, <2>3 DEF Granted, Answers, Declined
  <2>. QED
    BY <1>0, <2>4, <2>5, <2>6, ChargeFrame
<1>3. ASSUME NEW w \in PayWorkers, PayStep(w), pw[w] = PayFree
      PROVE  ChargeInv'
  <2>1. PICK c \in queue : CheckProcessed(w, c)
    BY <1>3
    DEF PayStep, PayWork, PayPublish, LookupPayment, CreatePayment, CreateConflict, PayFault, PublishPaid,
        PublishPaidUnconfirmed, PayAt, PayFree
  <2>2. c.order \in Orders /\ Granted(c.order) /\ Granted(c.order)'
    BY <1>0, <2>1
    DEF CheckProcessed, ChargeInv, AskedFor, GrantedStays, TypeInv, TransportTypeOK, Messages, InventoryCmds,
        PaymentCmds, Events
  <2>3. /\ queue' \subseteq queue /\ payment' = payment
        /\ \A v \in PayWorkers : v # w => pw'[v] = pw[v]
        /\ pw'[w] # PayFree => pw'[w].cmd = c
    BY <1>0, <2>1 DEF CheckProcessed, Take, PaySet, PayTask, PaymentsSame, PaymentTypeOK
  <2>4. \A v \in PayWorkers : pw'[v] = pw[v] \/ (pw'[v] # PayFree => Granted(pw[v].cmd.order)')
    BY <2>2, <2>3 DEF Granted, Answers, Declined
  <2>. QED
    BY <1>0, <2>3, <2>4, ChargeFrame DEF Charged
<1>. QED
  BY <1>1, <1>2, <1>3 DEF PaySide

LEMMA AlwaysCharged == Spec => [](EvidenceInv /\ Unasked /\ ChargeInv)
<1>1. Init => Unasked /\ ChargeInv
  BY DEF Init, TransportInit, OrderInit, PaymentInit, ChargeInv, Unasked, Answers, OrdFree, Charged, NoSaga, SagaRow
<1>2. EvidenceInv /\ Unasked /\ ChargeInv /\ [Next]_vars => Unasked' /\ ChargeInv'
  <2>. SUFFICES ASSUME EvidenceInv, Unasked, ChargeInv, [Next]_vars
                PROVE  Unasked' /\ ChargeInv'
    OBVIOUS
  <2>1. Unasked' /\ GrantedStays
    BY StepUnasked, StepGrants DEF EvidenceInv
  <2>2. CASE UNCHANGED vars
    <3>1. /\ queue' = queue /\ ow' = ow /\ pw' = pw /\ todo' = todo /\ saga' = saga
          /\ \A o \in Orders : Charged(o)' => Charged(o)
      BY <2>2 DEF vars, netVars, ordVars, payVars, Charged
    <3>. QED
      BY <2>1, <3>1, ChargeFrame DEF EvidenceInv
  <2>3. CASE OrdStep /\ UNCHANGED <<invVars, payVars>>
    BY <2>1, <2>3, OrdCharges
  <2>4. CASE InvSide /\ UNCHANGED <<ordVars, payVars>>
    BY <2>1, <2>4, InvCharges
  <2>5. CASE PaySide /\ UNCHANGED <<ordVars, invVars>>
    BY <2>1, <2>5, PayCharges
  <2>. QED
    BY <2>1, <2>2, <2>3, <2>4, <2>5, OneService
<1>. QED
  BY <1>1, <1>2, InitEvidence, StepKeepsEvidence, PTL DEF Spec

(* However many workers there are, and whatever fails, somebody is charged  *)
(* for an order shown as failed only if two answers to its reserve were     *)
(* committed.                                                               *)
THEOREM FailedChargeTakesTwoAnswers == Spec => []FailedChargeNeedsTwoAnswers
<1>1. ASSUME EvidenceInv, ChargeInv, NEW o \in Orders, order[o] \in {"FAILED", "COMPENSATED"}, Charged(o)
      PROVE  \E i, j \in EventIds : i # j /\ {<<"Reserved", o, i>>, <<"Reserved", o, j>>} \subseteq processed
  <2>1. Granted(o) /\ ~ Declined(o)
    BY <1>1 DEF ChargeInv, Charged, Declined
  <2>2. PICK i, j \in Answers(o) : i # j
    BY <1>1, <2>1 DEF Granted
  <2>. QED
    BY <2>2 DEF Answers
<1>2. EvidenceInv /\ ChargeInv => FailedChargeNeedsTwoAnswers
  BY <1>1 DEF FailedChargeNeedsTwoAnswers
<1>. QED
  BY <1>2, AlwaysCharged, PTL

(* A reserve is answered once where no commit is stale.                     *)
AnsweredOnce ==
  \A o \in Orders : /\ saga[o].step \in {"NONE", "RESERVING_INVENTORY"} => Answers(o) = {}
                    /\ \A i, j \in Answers(o) : i = j

LEMMA FreshAnswers ==
  ASSUME TypeInv, Unasked, AnsweredOnce, [Next]_vars, FreshCommits
  PROVE  AnsweredOnce'
<1>0. OrderTypeInv /\ OrderTypeOK
  BY DEF TypeInv, OrderTypeInv
<1>1. CASE UNCHANGED OrderRows
  BY <1>1 DEF OrderRows, AnsweredOnce, Answers
<1>2. ASSUME NEW q \in Orders, HandleRequest(q) \/ RequestFails(q)
      PROVE  AnsweredOnce'
  <2>1. /\ processed' = processed
        /\ \A o \in Orders : saga'[o] = saga[o] \/ request[o] = "saga"
    BY <1>0, <1>2 DEF HandleRequest, CreateOrder, CreateSaga, SendReserve, RequestFails, RequestSame, OrderTypeOK
  <2>. QED
    BY <2>1 DEF AnsweredOnce, Unasked, Answers
<1>3. ASSUME NEW w \in OrdWorkers, Commits(w)
      PROVE  AnsweredOnce'
  <2>1. PICK m : m = ow[w].msg
    OBVIOUS
  <2>2. /\ m \in Events /\ m.order \in Orders
        /\ \A o \in Orders : o # m.order => saga'[o] = saga[o] /\ Answers(o)' = Answers(o)
        /\ Answers(m.order)' = Answers(m.order) \cup (IF m.kind = "Reserved" THEN {m.id} ELSE {})
    BY <1>0, <1>3, <2>1, CommitWrites
  <2>3. StepExpects(saga[m.order], m.kind)
    BY <1>3, <2>1 DEF FreshCommits, Awaited
  <2>4. m.kind = "Reserved" => Answers(m.order) = {}
    BY <2>2, <2>3 DEF StepExpects, AnsweredOnce
  <2>5. saga'[m.order].step \notin {"NONE", "RESERVING_INVENTORY"}
    BY <1>0, <1>3, <2>1, <2>2
    DEF Commits, CommitInventoryReserved, CommitPaymentProcessed, CommitInventoryReleased, Commit, Compensation,
        SagaRow, SagaRows, OrderTypeOK, NoSaga
  <2>. QED
    BY <2>2, <2>4, <2>5 DEF AnsweredOnce
<1>4. ASSUME NEW w \in OrdWorkers, OrdWorkerStep(w), ~ Commits(w)
      PROVE  UNCHANGED OrderRows
  BY <1>4
  DEF Commits, OrdWorkerStep, OrdWork, BeginEvent, CommitConflict, PublishNext, PublishNextUnconfirmed, OrdFault
<1>5. CASE \/ \E status \in Live : ListByStatus(status)
           \/ \E t \in todo : SkipSaga(t) \/ \E id \in CmdIds : RecoverSaga(t, id)
           \/ RecoveryFault
  BY <1>1, <1>5 DEF ListByStatus, SkipSaga, RecoverSaga, RecoveryFault
<1>. QED
  BY <1>1, <1>2, <1>3, <1>4, <1>5, OneService DEF OrdStep, ordVars, vars, OrderRows

(* Nobody is charged for an order that is shown as failed, as long as no    *)
(* commit is stale: a second answer is never committed then.                *)
THEOREM FreshCommitsNeverChargeFailed == Spec /\ [][FreshCommits]_vars => []FailedIsNotCharged
<1>1. Init => AnsweredOnce
  BY DEF Init, OrderInit, AnsweredOnce, Answers
<1>2. EvidenceInv /\ Unasked /\ AnsweredOnce /\ [Next]_vars /\ [FreshCommits]_vars => AnsweredOnce'
  <2>1. UNCHANGED vars /\ AnsweredOnce => AnsweredOnce'
    BY DEF vars, ordVars, AnsweredOnce, Answers
  <2>2. EvidenceInv => TypeInv
    BY DEF EvidenceInv
  <2>. QED
    BY <2>1, <2>2, FreshAnswers
<1>3. AnsweredOnce /\ FailedChargeNeedsTwoAnswers => FailedIsNotCharged
  <2>. SUFFICES ASSUME AnsweredOnce, FailedChargeNeedsTwoAnswers,
                       NEW o \in Orders, order[o] \in {"FAILED", "COMPENSATED"}, Charged(o)
                PROVE  FALSE
    BY DEF FailedIsNotCharged
  <2>1. PICK i, j \in EventIds : i # j /\ {<<"Reserved", o, i>>, <<"Reserved", o, j>>} \subseteq processed
    BY DEF FailedChargeNeedsTwoAnswers
  <2>2. i \in Answers(o) /\ j \in Answers(o)
    BY <2>1 DEF Answers
  <2>. QED
    BY <2>1, <2>2 DEF AnsweredOnce
<1>. QED
  BY <1>1, <1>2, <1>3, AlwaysCharged, FailedChargeTakesTwoAnswers, PTL DEF Spec

-----------------------------------------------------------------------------
(* Neither condition is idle: systems with a pool of one worker meet it,    *)
(* through every fault and with any number of workers elsewhere.  On        *)
(* inventory.commands nobody else commits between a check of the log and    *)
(* the transaction that follows it.                                         *)
LEMMA OneWorkerPool ==
  ASSUME \A u, v \in InvWorkers : u = v
  PROVE  /\ Cardinality(InvWorkers) <= 1
         /\ \A w \in InvWorkers : \A S : w \in S /\ S \subseteq InvWorkers => Cardinality(S) = 1
<1>1. CASE InvWorkers = {}
  BY <1>1, FS_EmptySet
<1>2. ASSUME NEW w \in InvWorkers
      PROVE  /\ Cardinality(InvWorkers) <= 1
             /\ \A S : w \in S /\ S \subseteq InvWorkers => Cardinality(S) = 1
  <2>1. InvWorkers = {w}
    OBVIOUS
  <2>2. Cardinality({w}) = 1
    BY FS_Singleton
  <2>3. \A S : w \in S /\ S \subseteq InvWorkers => S = {w}
    BY <2>1
  <2>. QED
    BY <2>1, <2>2, <2>3
<1>. QED
  BY <1>1, <1>2

LEMMA OneEachSaid ==
  ASSUME \A u, v \in InvWorkers : u = v, InventoryTypeOK, LogBounds
  PROVE  OneEach
<1>. SUFFICES ASSUME NEW o \in Orders
              PROVE  reserveLogs[o] <= 1 /\ releaseLogs[o] <= 1
  BY DEF OneEach
<1>1. Cardinality(InvWorkers) \in Nat /\ Cardinality(InvWorkers) <= 1
  BY OneWorkerPool, PoolSize
<1>2. BoundOf(o) /\ ReleaseBoundOf(o) /\ reserveLogs[o] \in Nat /\ releaseLogs[o] \in Nat
  BY DEF LogBounds, InventoryTypeOK
<1>. QED
  BY <1>1, <1>2, PastFinite, RefundingFinite DEF BoundOf, ReleaseBoundOf

LEMMA OneWorkerLogsOnce ==
  ASSUME \A u, v \in InvWorkers : u = v
  PROVE  Spec => []OneEach
<1>1. PoolInv => OneEach
  BY OneEachSaid DEF PoolInv, EvidenceInv, TypeInv
<1>. QED
  BY <1>1, PoolInit, PoolStep, PTL DEF Spec

(* On order.events nobody else commits between a read and its commit: the   *)
(* row that a worker read is the row it overwrites.                         *)
Snapshots == \A w \in OrdWorkers : ow[w].pc = "commit" => Awaited(w)

LEMMA RowAwaited ==
  ASSUME OrderTypeOK, Snapshots, NEW w \in OrdWorkers, ow[w].pc = "commit"
  PROVE  ow[w].msg.order \in Orders /\ saga[ow[w].msg.order] # NoSaga
<1>1. PICK m : m = ow[w].msg
  OBVIOUS
<1>2. m.order \in Orders /\ m.kind \in {"Reserved", "Released", "Paid"}
  BY <1>1, OrdBusyTask, OrdMessages
<1>3. StepExpects(saga[m.order], m.kind)
  BY <1>1 DEF Snapshots, Awaited
<1>4. saga[m.order].step # "NONE"
  BY <1>2, <1>3 DEF StepExpects
<1>. QED
  BY <1>1, <1>2, <1>4 DEF NoSaga, SagaRow

LEMMA SnapshotsStay ==
  ASSUME \A u, v \in OrdWorkers : u = v, TypeInv, StoryInv, Snapshots, [Next]_vars
  PROVE  Snapshots'
<1>0. OrderTypeOK
  BY DEF StoryInv
<1>1. ASSUME saga' = saga, \A w \in OrdWorkers : ow'[w] = ow[w] \/ ow'[w].pc # "commit"
      PROVE  Snapshots'
  BY <1>1 DEF Snapshots, Awaited
<1>2. ASSUME NEW q \in Orders, HandleRequest(q) \/ RequestFails(q)
      PROVE  Snapshots'
  <2>1. ow' = ow /\ \A o \in Orders : saga[o] # NoSaga => saga'[o] = saga[o]
    BY <1>0, <1>2
    DEF HandleRequest, CreateOrder, CreateSaga, SendReserve, RequestFails, RequestSame, OrderTypeOK, StoryInv, Begun
  <2>. SUFFICES ASSUME NEW w \in OrdWorkers, ow[w].pc = "commit"
                PROVE  Awaited(w)'
    BY <2>1 DEF Snapshots
  <2>2. PICK m : m = ow[w].msg
    OBVIOUS
  <2>3. saga'[m.order] = saga[m.order] /\ ow'[w].msg = m
    BY <1>0, <2>1, <2>2, RowAwaited
  <2>4. StepExpects(saga[m.order], m.kind)
    BY <2>2 DEF Snapshots, Awaited
  <2>. QED
    BY <2>3, <2>4 DEF Awaited
<1>3. ASSUME NEW w \in OrdWorkers, OrdWorkerStep(w)
      PROVE  Snapshots'
  <2>1. ASSUME NEW m \in queue, BeginEvent(w, m)
        PROVE  Snapshots'
    <3>1. CASE Applies(m)
      <4>1. ow'[w].msg = m /\ saga' = saga
        BY <1>0, <2>1, <3>1 DEF BeginEvent, OrdSet, OrderTypeOK, EventTask, OrderRows
      <4>2. Awaited(w)'
        BY <3>1, <4>1 DEF Applies, Awaited
      <4>. QED
        BY <4>2 DEF Snapshots
    <3>2. CASE ~ Applies(m)
      BY <1>0, <1>1, <2>1, <3>2 DEF BeginEvent, OrdSet, OrderTypeOK, OrdFree, OrderRows
    <3>. QED
      BY <3>1, <3>2
  <2>2. CASE Commits(w)
    <3>1. ow'[w].pc # "commit"
      BY <1>0, <2>2
      DEF Commits, CommitInventoryReserved, CommitPaymentProcessed, CommitInventoryReleased, Commit, OrdSet,
          OrderTypeOK, OrdFree, EventTask
    <3>. QED
      BY <3>1 DEF Snapshots
  <2>3. CASE CommitConflict(w) \/ OrdFault(w) \/ \E id \in CmdIds : PublishNext(w, id) \/ PublishNextUnconfirmed(w, id)
    BY <1>0, <1>1, <2>3
    DEF CommitConflict, OrdFault, PublishNext, PublishNextUnconfirmed, OrdSet, OrderTypeOK, OrdFree, OrderRows
  <2>. QED
    BY <1>3, <2>1, <2>2, <2>3 DEF OrdWorkerStep, OrdWork, Commits
<1>4. ASSUME \/ \E status \in Live : ListByStatus(status)
             \/ \E t \in todo : SkipSaga(t) \/ \E id \in CmdIds : RecoverSaga(t, id)
             \/ RecoveryFault
      PROVE  Snapshots'
  BY <1>1, <1>4 DEF ListByStatus, SkipSaga, RecoverSaga, RecoveryFault, OrderRows
<1>5. CASE UNCHANGED ordVars
  BY <1>1, <1>5 DEF ordVars, OrderRows
<1>. QED
  BY <1>2, <1>3, <1>4, <1>5, OneService DEF OrdStep, vars

LEMMA OneWorkerCommitsFresh ==
  ASSUME \A u, v \in OrdWorkers : u = v
  PROVE  Spec => [][FreshCommits]_vars
<1>1. Init => Snapshots
  BY DEF Init, OrderInit, Snapshots, OrdFree
<1>2. Snapshots => FreshCommits
  BY DEF Snapshots, FreshCommits, Commits, CommitInventoryReserved, CommitPaymentProcessed,
         CommitInventoryReleased, OrdAt
<1>3. TypeInv /\ StoryInv /\ Snapshots /\ [Next]_vars => TypeInv' /\ StoryInv' /\ Snapshots'
  BY <1>2, StepType, SystemTells, SnapshotsStay
<1>. QED
  BY <1>1, <1>2, <1>3, InitType, InitTells, PTL DEF Spec
=============================================================================
