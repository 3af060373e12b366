----------------------- MODULE InventoryServiceProofs -----------------------
(* Theorems about inventory-service for every number of orders, products,  *)
(* workers and retries, and every stock.                                   *)
EXTENDS InventoryService, QuantitySums

(* What a worker may do, under any message id. *)
InvStep(w) ==
  \/ InvWork(w) \/ ReleaseError(w) \/ InvFault(w)
  \/ \E id \in EventIds : InvPublish(w, id)

-----------------------------------------------------------------------------
(* Messages and tasks are what they are built from. *)
LEMMA InvMessages ==
  ASSUME NEW o \in Orders
  PROVE  /\ ReserveCmd(o) \in InventoryCmds
         /\ ReleaseCmd(o) \in InventoryCmds
         /\ InventoryCmds \subseteq Messages
BY DEF ReserveCmd, ReleaseCmd, InventoryCmds, Messages

LEMMA VerdictType ==
  ASSUME NEW c \in InventoryCmds, NEW ok \in BOOLEAN, NEW id \in EventIds
  PROVE  Verdict(c, ok, id) \in Messages
<1>1. c.order \in Orders /\ VerdictKind(c) \in {"Reserved", "Released"}
  BY DEF InventoryCmds, VerdictKind
<1>2. Verdict(c, ok, id) \in Events
  BY <1>1 DEF Verdict, Event, Events
<1>. QED
  BY <1>2 DEF Messages

LEMMA TaskType ==
  ASSUME NEW pc \in {"read", "cas", "refund", "answer"}, NEW c \in InventoryCmds,
         NEW n \in 0 .. ReserveMaxRetries - 1, NEW v \in Nat, NEW ok \in BOOLEAN
  PROVE  Task(pc, c, n, v, ok) \in InvTasks
BY DEF Task, InvTasks

LEMMA AnswerType ==
  ASSUME NEW c \in InventoryCmds, NEW ok \in BOOLEAN
  PROVE  Answer(c, ok) \in InvTasks
BY TaskType, InventoryAssumption DEF Answer, InventoryAssumption

LEMMA StartType ==
  ASSUME NEW pc \in {"read", "refund"}, NEW c \in InventoryCmds
  PROVE  Task(pc, c, 0, 0, FALSE) \in InvTasks
BY InventoryAssumption DEF Task, InvTasks, InventoryAssumption

(* A worker that is not free holds a task. *)
LEMMA BusyTask ==
  ASSUME InventoryTypeOK, NEW w \in InvWorkers, iw[w].pc # "free"
  PROVE  /\ iw[w] \in InvTasks
         /\ iw[w].cmd \in InventoryCmds
         /\ iw[w].cmd.order \in Orders
         /\ iw[w].ok \in BOOLEAN
BY DEF InventoryTypeOK, InvTasks, InvFree, InventoryCmds

LEMMA BusyIsNotFree ==
  ASSUME InventoryTypeOK, NEW w \in InvWorkers, iw[w] # InvFree
  PROVE  iw[w].pc # "free" /\ iw[w].pc \in {"read", "cas", "refund", "answer"}
BY DEF InventoryTypeOK, InvTasks, InvFree

-----------------------------------------------------------------------------
(* A worker's step keeps both types: stock and reserved_qty never become   *)
(* negative, and no attempt exceeds ReserveMaxRetries.                     *)
LEMMA InvStepType ==
  ASSUME TransportTypeOK, InventoryTypeOK, NEW w \in InvWorkers, InvStep(w)
  PROVE  TransportTypeOK' /\ InventoryTypeOK'
<1>. USE FaultBound, InventoryAssumption DEF TransportTypeOK, InventoryAssumption
<1>1. ASSUME NEW o \in Orders, CheckReserve(w, o)
      PROVE  TransportTypeOK' /\ InventoryTypeOK'
  <2>1. /\ Answer(ReserveCmd(o), TRUE) \in InvTasks
        /\ Task("read", ReserveCmd(o), 0, 0, FALSE) \in InvTasks
    BY InvMessages, AnswerType, StartType
  <2>2. iw' \in [InvWorkers -> InvTasks \cup {InvFree}]
    BY <1>1, <2>1 DEF CheckReserve, InvSet, InventoryTypeOK
  <2>. QED
    BY <1>1, <2>2 DEF CheckReserve, Take, StockSame, NoFault, InventoryTypeOK
<1>2. ASSUME NEW o \in Orders, CheckRelease(w, o)
      PROVE  TransportTypeOK' /\ InventoryTypeOK'
  <2>1. /\ Answer(ReleaseCmd(o), TRUE) \in InvTasks
        /\ Task("refund", ReleaseCmd(o), 0, 0, FALSE) \in InvTasks
    BY InvMessages, AnswerType, StartType
  <2>2. iw' \in [InvWorkers -> InvTasks \cup {InvFree}]
    BY <1>2, <2>1 DEF CheckRelease, InvSet, InventoryTypeOK
  <2>. QED
    BY <1>2, <2>2 DEF CheckRelease, Take, StockSame, NoFault, InventoryTypeOK
<1>3. CASE ReadStock(w)
  <2>1. /\ iw[w] \in InvTasks /\ iw[w].cmd \in InventoryCmds
        /\ iw[w].cmd.order \in Orders /\ iw[w].tries \in 0 .. ReserveMaxRetries - 1
    BY <1>3, BusyTask DEF ReadStock, InvAt, InvTasks
  <2>2. stock[ProductOf[iw[w].cmd.order]].version \in Nat
    BY <2>1 DEF InventoryTypeOK
  <2>3. iw' \in [InvWorkers -> InvTasks \cup {InvFree}]
    BY <1>3, <2>1, <2>2, AnswerType, TaskType DEF ReadStock, InvSet, InventoryTypeOK
  <2>. QED
    BY <1>3, <2>3 DEF ReadStock, StockSame, netVars, InventoryTypeOK
<1>4. CASE ReadNothing(w)
  BY <1>4, BusyTask, InvMessages
  DEF ReadNothing, InvAt, Return, InvSet, StockSame, NoFault, InventoryTypeOK
<1>5. CASE ReserveAtomic(w)
  <2>1. iw[w].cmd \in InventoryCmds /\ iw[w].cmd.order \in Orders
    BY <1>5, BusyTask DEF ReserveAtomic, InvAt
  <2>. DEFINE o == iw[w].cmd.order
              s == stock[ProductOf[o]]
  <2>2. s \in [available : Nat, reserved : Nat, version : Nat] /\ QtyOf[o] \in Nat
    BY <2>1 DEF InventoryTypeOK
  <2>3. s.available >= QtyOf[o]
    BY <1>5 DEF ReserveAtomic, LockHolds
  <2>4. Row(s.available - QtyOf[o], s.reserved + QtyOf[o], s.version + 1)
          \in [available : Nat, reserved : Nat, version : Nat]
    BY <2>2, <2>3 DEF Row
  <2>5. stock' \in [Products -> [available : Nat, reserved : Nat, version : Nat]]
    BY <1>5, <2>4 DEF Taken, Row, ReserveAtomic, InventoryTypeOK
  <2>6. reserveLogs' \in [Orders -> Nat]
    BY <1>5, <2>1 DEF Logged, ReserveAtomic, InventoryTypeOK
  <2>7. iw' \in [InvWorkers -> InvTasks \cup {InvFree}]
    BY <1>5, <2>1, AnswerType DEF ReserveAtomic, InvSet, InventoryTypeOK
  <2>. QED
    BY <1>5, <2>5, <2>6, <2>7 DEF ReserveAtomic, netVars, InventoryTypeOK
<1>6. CASE LockConflict(w)
  <2>1. /\ iw[w] \in InvTasks /\ iw[w].cmd \in InventoryCmds
        /\ iw[w].tries \in 0 .. ReserveMaxRetries - 1
    BY <1>6, BusyTask DEF LockConflict, InvAt, InvTasks
  <2>2. ASSUME iw[w].tries + 1 < ReserveMaxRetries
        PROVE  iw[w].tries + 1 \in 0 .. ReserveMaxRetries - 1
    BY <2>1, <2>2
  <2>3. iw' \in [InvWorkers -> InvTasks \cup {InvFree}]
    BY <1>6, <2>1, <2>2, AnswerType, TaskType DEF LockConflict, InvSet, InventoryTypeOK
  <2>. QED
    BY <1>6, <2>3 DEF LockConflict, StockSame, netVars, InventoryTypeOK
<1>7. ASSUME NEW o \in Orders, Refund(o)
      PROVE  /\ stock' \in [Products -> [available : Nat, reserved : Nat, version : Nat]]
             /\ releaseLogs' \in [Orders -> Nat]
  <2>. DEFINE s == stock[ProductOf[o]]
              r == IF s.reserved >= QtyOf[o] THEN s.reserved - QtyOf[o] ELSE 0
  <2>1. s \in [available : Nat, reserved : Nat, version : Nat] /\ QtyOf[o] \in Nat
    BY DEF InventoryTypeOK
  <2>2. Row(s.available + QtyOf[o], r, s.version + 1)
          \in [available : Nat, reserved : Nat, version : Nat]
    BY <2>1 DEF Row
  <2>. QED
    BY <1>7, <2>2 DEF PutBack, Logged, Row, Refund, InventoryTypeOK
<1>8. CASE ReleaseAtomic(w)
  <2>1. iw[w].cmd \in InventoryCmds /\ iw[w].cmd.order \in Orders
    BY <1>8, BusyTask DEF ReleaseAtomic, InvAt
  <2>. QED
    BY <1>8, <2>1, <1>7, AnswerType
    DEF ReleaseAtomic, Refund, InvSet, netVars, InventoryTypeOK
<1>9. CASE ReleaseNothing(w)
  BY <1>9, BusyTask, AnswerType
  DEF ReleaseNothing, InvAt, InvSet, StockSame, netVars, InventoryTypeOK
<1>10. CASE ReleaseError(w)
  <2>1. iw[w].cmd \in InventoryCmds /\ iw[w].cmd.order \in Orders
    BY <1>10, BusyTask DEF ReleaseError, InvAt
  <2>2. TransportTypeOK'
    BY <1>10 DEF ReleaseError, Fault
  <2>3. iw' \in [InvWorkers -> InvTasks \cup {InvFree}]
    BY <1>10, <2>1, AnswerType DEF ReleaseError, InvSet, InventoryTypeOK
  <2>4. CASE Refund(iw[w].cmd.order)
    BY <2>1, <2>2, <2>3, <2>4, <1>7 DEF Refund, InventoryTypeOK
  <2>5. CASE StockSame
    BY <2>2, <2>3, <2>5 DEF StockSame, InventoryTypeOK
  <2>. QED
    BY <1>10, <2>4, <2>5 DEF ReleaseError
<1>11. CASE InvFault(w)
  <2>1. iw[w].cmd \in Messages
    BY <1>11, BusyTask, BusyIsNotFree, InvMessages DEF InvFault, InvBusy
  <2>. QED
    BY <1>11, <2>1
    DEF InvFault, Requeued, Parked, Redelivered, Return, Fault, InvSet, StockSame, InventoryTypeOK
<1>12. ASSUME NEW id \in EventIds, InvPublish(w, id)
       PROVE  TransportTypeOK' /\ InventoryTypeOK'
  <2>1. iw[w].cmd \in Messages /\ Verdict(iw[w].cmd, iw[w].ok, id) \in Messages
    BY <1>12, BusyTask, VerdictType, InvMessages
    DEF InvPublish, PublishVerdict, PublishUnconfirmed, InvAt
  <2>2. CASE PublishVerdict(w, id)
    BY <2>1, <2>2 DEF PublishVerdict, Publish, NoFault, InvSet, StockSame, InventoryTypeOK
  <2>3. CASE PublishUnconfirmed(w, id)
    BY <2>1, <2>3 DEF PublishUnconfirmed, Fault, InvSet, StockSame, InventoryTypeOK
  <2>. QED
    BY <1>12, <2>2, <2>3 DEF InvPublish
<1>. QED
  BY <1>1, <1>2, <1>3, <1>4, <1>5, <1>6, <1>8, <1>9, <1>10, <1>11, <1>12 DEF InvStep, InvWork

LEMMA AdminType ==
  ASSUME InventoryTypeOK, Admin
  PROVE  InventoryTypeOK' /\ UNCHANGED netVars
<1>. USE InventoryAssumption DEF InventoryAssumption
<1>1. PICK p \in Products, q \in AdminQty : CreateSKU(p, q) \/ UpdateAvailableQty(p, q)
  BY DEF Admin
<1>2. q \in Nat
  BY <1>1
<1>3. CASE CreateSKU(p, q)
  BY <1>1, <1>2, <1>3 DEF CreateSKU, Row, InventoryTypeOK
<1>4. CASE UpdateAvailableQty(p, q)
  <2>1. stock[p] \in [available : Nat, reserved : Nat, version : Nat] /\ granted[p] \in Int
    BY <1>1 DEF InventoryTypeOK
  <2>2. /\ stock' \in [Products -> [available : Nat, reserved : Nat, version : Nat]]
        /\ granted' \in [Products -> Int]
    BY <1>1, <1>2, <1>4, <2>1 DEF Corrected, Row, UpdateAvailableQty, InventoryTypeOK
  <2>. QED
    BY <1>4, <2>2 DEF UpdateAvailableQty, InventoryTypeOK
<1>. QED
  BY <1>1, <1>3, <1>4

LEMMA InventoryInitType ==
  TransportInit /\ InventoryInit => TransportTypeOK /\ InventoryTypeOK
<1>. SUFFICES ASSUME TransportInit, InventoryInit
              PROVE  TransportTypeOK /\ InventoryTypeOK
  OBVIOUS
<1>. USE InventoryAssumption, FaultBound DEF InventoryAssumption, FaultBound
<1>1. stock \in [Products -> [available : Nat, reserved : Nat, version : Nat]]
  BY DEF InventoryInit, Row
<1>. QED
  BY <1>1 DEF TransportInit, InventoryInit, TransportTypeOK, InventoryTypeOK

LEMMA InventoryTypeStep ==
  TransportTypeOK /\ InventoryTypeOK /\ [InventoryNext]_<<netVars, invVars>>
    => TransportTypeOK' /\ InventoryTypeOK'
<1>. SUFFICES ASSUME TransportTypeOK, InventoryTypeOK, [InventoryNext]_<<netVars, invVars>>
              PROVE  TransportTypeOK' /\ InventoryTypeOK'
  OBVIOUS
<1>1. ASSUME NEW c \in InventoryCmds, CommandArrives(c)
      PROVE  TransportTypeOK' /\ InventoryTypeOK'
  BY <1>1 DEF CommandArrives, Publish, NoFault, invVars, Messages, TransportTypeOK, InventoryTypeOK
<1>2. ASSUME NEW w \in InvWorkers, InvStep(w)
      PROVE  TransportTypeOK' /\ InventoryTypeOK'
  BY <1>2, InvStepType
<1>3. CASE Admin
  BY <1>3, AdminType DEF netVars, TransportTypeOK
<1>4. CASE UNCHANGED <<netVars, invVars>>
  BY <1>4 DEF netVars, invVars, TransportTypeOK, InventoryTypeOK
<1>. QED
  BY <1>1, <1>2, <1>3, <1>4 DEF InventoryNext, InvStep

(* Whatever the administrator enters and however the workers interleave,   *)
(* no quantity of a row ever becomes negative and no worker exceeds its    *)
(* attempts.                                                               *)
THEOREM InventoryTypeCorrect == InventorySpec => [](TransportTypeOK /\ InventoryTypeOK)
BY InventoryInitType, InventoryTypeStep, PTL DEF InventorySpec, InventoryAlone

-----------------------------------------------------------------------------
(* inventory_logs only grows: what was once reserved or released stays so. *)
LEMMA LogsGrow ==
  ASSUME InventoryTypeOK, NEW w \in InvWorkers, InvStep(w), NEW o \in Orders
  PROVE  (Reserved(o) => Reserved(o)') /\ (Released(o) => Released(o)')
<1>. DEFINE d == iw[w].cmd.order
<1>1. CASE ReserveAtomic(w)
  <2>1. d \in Orders
    BY <1>1, BusyTask DEF ReserveAtomic, InvAt
  <2>. QED
    BY <1>1, <2>1 DEF Logged, ReserveAtomic, Reserved, Released, InventoryTypeOK
<1>2. CASE InvAt(w, "refund") /\ Refund(d)
  <2>1. d \in Orders
    BY <1>2, BusyTask DEF InvAt
  <2>. QED
    BY <1>2, <2>1 DEF Logged, Refund, Reserved, Released, InventoryTypeOK
<1>3. CASE UNCHANGED <<reserveLogs, releaseLogs>>
  BY <1>3 DEF Reserved, Released
<1>. QED
  BY <1>1, <1>2, <1>3
  DEF InvStep, InvWork, InvPublish, CheckReserve, CheckRelease, ReadStock, ReadNothing, LockConflict,
      ReleaseAtomic, ReleaseNothing, ReleaseError, PublishVerdict, PublishUnconfirmed, InvFault, StockSame

LEMMA BackedStays ==
  ASSUME InventoryTypeOK, NEW w \in InvWorkers, InvStep(w), NEW o \in Orders, NEW k, Backed(k, o)
  PROVE  Backed(k, o)'
BY LogsGrow DEF Backed, Reserved, Released

(* SuccessIsLogged is not inductive: a worker that has checked its command *)
(* must also hold one of the kind that its place in the handler is for.    *)
WorkerSuccess(w) ==
  /\ iw[w].pc \in {"read", "cas"} => iw[w].cmd.kind = "Reserve"
  /\ iw[w].pc = "refund" => iw[w].cmd.kind = "Release"
  /\ iw[w].pc = "answer" /\ iw[w].ok => Backed(iw[w].cmd.kind, iw[w].cmd.order)

MessageSuccess(m) == m \in Events /\ m.kind \in {"Reserved", "Released"} /\ m.ok
                       => Backed(m.kind, m.order)

SuccessInv ==
  /\ TransportTypeOK /\ InventoryTypeOK
  /\ \A w \in InvWorkers : WorkerSuccess(w)
  /\ \A m \in queue : MessageSuccess(m)

LEMMA CommandsClaimNothing == \A c \in InventoryCmds : MessageSuccess(c) /\ MessageSuccess(c)'
BY DEF InventoryCmds, Events, MessageSuccess

(* Only the worker that steps and the messages it adds need a new proof.   *)
LEMMA SuccessFrame ==
  ASSUME SuccessInv, NEW w \in InvWorkers, InvStep(w),
         \A v \in InvWorkers \ {w} : iw'[v] = iw[v],
         WorkerSuccess(w)',
         \A m \in queue' \ queue : MessageSuccess(m)'
  PROVE  SuccessInv'
<1>. USE DEF SuccessInv
<1>1. ASSUME NEW v \in InvWorkers, v # w
      PROVE  WorkerSuccess(v)'
  <2>1. iw'[v] = iw[v]
    BY <1>1
  <2>2. InvAt(v, "answer") => iw[v].cmd.order \in Orders
    BY BusyTask DEF InvAt
  <2>3. WorkerSuccess(v)
    OBVIOUS
  <2>. QED
    BY <2>1, <2>2, <2>3, LogsGrow DEF WorkerSuccess, InvAt, Backed, Reserved, Released
<1>2. ASSUME NEW m \in queue
      PROVE  MessageSuccess(m)'
  <2>1. MessageSuccess(m)
    BY DEF SuccessInv
  <2>2. m \in Events => m.order \in Orders
    BY DEF Events
  <2>. QED
    BY <2>1, <2>2, LogsGrow DEF MessageSuccess, Backed, Reserved, Released
<1>3. (\A v \in InvWorkers : WorkerSuccess(v)') /\ (\A m \in queue' : MessageSuccess(m)')
  BY <1>1, <1>2
<1>. QED
  BY <1>3, InvStepType

LEMMA SuccessStep ==
  ASSUME SuccessInv, NEW w \in InvWorkers, InvStep(w)
  PROVE  SuccessInv'
<1>. DEFINE c == iw[w].cmd
            o == c.order
            Goal == /\ \A v \in InvWorkers \ {w} : iw'[v] = iw[v]
                    /\ WorkerSuccess(w)'
                    /\ \A m \in queue' \ queue : MessageSuccess(m)'
<1>0. TransportTypeOK /\ InventoryTypeOK /\ WorkerSuccess(w)
  BY DEF SuccessInv
<1>. SUFFICES Goal
  BY SuccessFrame
<1>1. ASSUME NEW q \in Orders, CheckReserve(w, q)
      PROVE  Goal
  BY <1>0, <1>1 DEF ExistsReserve, CheckReserve, InvSet, Take, StockSame, InventoryTypeOK, Answer, Task, ReserveCmd,
              WorkerSuccess, InvAt, Backed, Reserved
<1>2. ASSUME NEW q \in Orders, CheckRelease(w, q)
      PROVE  Goal
  BY <1>0, <1>2 DEF ExistsRelease, CheckRelease, InvSet, Take, StockSame, InventoryTypeOK, Answer, Task, ReleaseCmd,
              WorkerSuccess, InvAt, Backed, Released
<1>3. CASE ReadStock(w)
  <2>1. /\ iw'[w] = Answer(c, FALSE) \/ iw'[w] = Task("cas", c, iw[w].tries, stock[ProductOf[o]].version, FALSE)
        /\ \A v \in InvWorkers \ {w} : iw'[v] = iw[v]
        /\ queue' = queue
        /\ c.kind = "Reserve"
    BY <1>0, <1>3 DEF ReadStock, InvSet, InvAt, netVars, InventoryTypeOK, WorkerSuccess
  <2>. QED
    BY <2>1 DEF Answer, Task, WorkerSuccess, InvAt
<1>4. CASE ReadNothing(w)
  <2>1. c \in InventoryCmds
    BY <1>0, <1>4, BusyTask DEF ReadNothing, InvAt
  <2>2. /\ iw'[w] = InvFree
        /\ \A v \in InvWorkers \ {w} : iw'[v] = iw[v]
        /\ queue' \subseteq queue \cup {c}
    BY <1>0, <1>4 DEF ReadNothing, InvSet, Return, InventoryTypeOK
  <2>. QED
    BY <2>1, <2>2, CommandsClaimNothing DEF InvFree, WorkerSuccess, InvAt
<1>5. CASE ReserveAtomic(w)
  <2>1. o \in Orders /\ c.kind = "Reserve"
    BY <1>0, <1>5, BusyTask DEF ReserveAtomic, InvAt, WorkerSuccess
  <2>2. /\ iw'[w] = Answer(c, TRUE) 
        /\ \A v \in InvWorkers \ {w} : iw'[v] = iw[v]
        /\ queue' = queue
        /\ reserveLogs'[o] = reserveLogs[o] + 1 /\ reserveLogs[o] \in Nat
    BY <1>0, <1>5, <2>1 DEF Logged, ReserveAtomic, InvSet, netVars, InventoryTypeOK
  <2>. QED
    BY <2>1, <2>2 DEF Answer, Task, WorkerSuccess, InvAt, Backed, Reserved
<1>6. CASE LockConflict(w)
  <2>1. /\ iw'[w] = Answer(c, FALSE) \/ iw'[w] = Task("read", c, iw[w].tries + 1, 0, FALSE)
        /\ \A v \in InvWorkers \ {w} : iw'[v] = iw[v]
        /\ queue' = queue
        /\ c.kind = "Reserve"
    BY <1>0, <1>6 DEF LockConflict, InvSet, InvAt, netVars, InventoryTypeOK, WorkerSuccess
  <2>. QED
    BY <2>1 DEF Answer, Task, WorkerSuccess, InvAt
<1>7. CASE ReleaseAtomic(w)
  <2>1. o \in Orders /\ c.kind = "Release"
    BY <1>0, <1>7, BusyTask DEF ReleaseAtomic, InvAt, WorkerSuccess
  <2>2. /\ iw'[w] = Answer(c, TRUE)
        /\ \A v \in InvWorkers \ {w} : iw'[v] = iw[v]
        /\ queue' = queue
        /\ releaseLogs'[o] = releaseLogs[o] + 1 /\ releaseLogs[o] \in Nat
    BY <1>0, <1>7, <2>1 DEF Logged, ReleaseAtomic, Refund, InvSet, netVars, InventoryTypeOK
  <2>. QED
    BY <2>1, <2>2 DEF Answer, Task, WorkerSuccess, InvAt, Backed, Released
<1>8. CASE ReleaseNothing(w) \/ ReleaseError(w)
  <2>1. /\ iw'[w] = Answer(c, FALSE)
        /\ \A v \in InvWorkers \ {w} : iw'[v] = iw[v]
        /\ queue' = queue
    BY <1>0, <1>8 DEF ReleaseNothing, ReleaseError, InvSet, netVars, InventoryTypeOK
  <2>. QED
    BY <2>1 DEF Answer, Task, WorkerSuccess, InvAt
<1>9. CASE InvFault(w)
  <2>1. c \in InventoryCmds /\ o \in Orders
    BY <1>0, <1>9, BusyTask, BusyIsNotFree DEF InvFault, InvBusy
  <2>2. /\ iw'[w] = InvFree \/ iw'[w] = iw[w]
        /\ \A v \in InvWorkers \ {w} : iw'[v] = iw[v]
        /\ queue' \subseteq queue \cup {c}
    BY <1>0, <1>9 DEF InvFault, Requeued, Parked, Redelivered, Return, InvSet, InventoryTypeOK
  <2>3. WorkerSuccess(w)'
    BY <1>0, <2>1, <2>2, LogsGrow DEF InvFree, WorkerSuccess, InvAt, Backed, Reserved, Released
  <2>. QED
    BY <2>1, <2>2, <2>3, CommandsClaimNothing
<1>10. ASSUME NEW id \in EventIds, InvPublish(w, id)
       PROVE  Goal
  <2>. PICK m : m = Verdict(c, iw[w].ok, id)
    OBVIOUS
  <2>. PICK d : d = c
    OBVIOUS
  <2>1. c \in InventoryCmds /\ o \in Orders /\ iw[w].pc = "answer"
    BY <1>0, <1>10, BusyTask DEF InvPublish, PublishVerdict, PublishUnconfirmed, InvAt
  <2>2. /\ iw'[w] = InvFree
        /\ \A v \in InvWorkers \ {w} : iw'[v] = iw[v]
        /\ queue' \subseteq queue \cup {m, d}
        /\ UNCHANGED <<reserveLogs, releaseLogs>>
    BY <1>0, <1>10 DEF InvPublish, PublishVerdict, PublishUnconfirmed, Publish, InvSet, StockSame, InventoryTypeOK
  <2>3. MessageSuccess(m)'
    BY <1>0, <2>1, <2>2
    DEF MessageSuccess, WorkerSuccess, InvAt, Verdict, VerdictKind, Event, Backed, Reserved, Released,
        InventoryCmds
  <2>. QED
    BY <2>1, <2>2, <2>3, CommandsClaimNothing DEF InvFree, WorkerSuccess, InvAt
<1>. QED
  BY <1>0, <1>1, <1>2, <1>3, <1>4, <1>5, <1>6, <1>7, <1>8, <1>9, <1>10 DEF InvStep, InvWork

(* A success that inventory-service publishes, or is about to, is backed by *)
(* a committed row of inventory_logs.                                       *)
THEOREM SuccessIsAlwaysLogged == InventorySpec => []SuccessIsLogged
<1>1. TransportInit /\ InventoryInit => SuccessInv
  BY InventoryInitType DEF TransportInit, InventoryInit, SuccessInv, WorkerSuccess, InvFree
<1>2. SuccessInv /\ [InventoryNext]_<<netVars, invVars>> => SuccessInv'
  <2>. SUFFICES ASSUME SuccessInv, [InventoryNext]_<<netVars, invVars>>
                PROVE  SuccessInv'
    OBVIOUS
  <2>0. /\ TransportTypeOK /\ InventoryTypeOK
        /\ (TransportTypeOK /\ InventoryTypeOK)'
    BY InventoryTypeStep DEF SuccessInv
  <2>1. ASSUME NEW c \in InventoryCmds, CommandArrives(c)
        PROVE  SuccessInv'
    BY <2>0, <2>1, CommandsClaimNothing
    DEF CommandArrives, Publish, invVars, SuccessInv, WorkerSuccess, MessageSuccess, Backed, Reserved, Released
  <2>2. ASSUME NEW w \in InvWorkers, InvStep(w)
        PROVE  SuccessInv'
    BY <2>2, SuccessStep
  <2>3. CASE UNCHANGED <<netVars, reserveLogs, releaseLogs, iw>>
    BY <2>0, <2>3
    DEF netVars, SuccessInv, WorkerSuccess, MessageSuccess, Backed, Reserved, Released
  <2>. QED
    BY <2>0, <2>1, <2>2, <2>3, AdminType
    DEF InventoryNext, InvStep, Admin, CreateSKU, UpdateAvailableQty, netVars, invVars
<1>3. SuccessInv => SuccessIsLogged
  BY DEF SuccessInv, SuccessIsLogged, WorkerSuccess, MessageSuccess, InvAt
<1>. QED
  BY <1>1, <1>2, <1>3, PTL DEF InventorySpec, InventoryAlone

-----------------------------------------------------------------------------
(* DoubleReserveBound: the workers past the check of the log when the first *)
(* row of an order is committed are the only ones that can add more.        *)
Past(o) == {w \in InvWorkers : iw[w].pc \in {"read", "cas"} /\ iw[w].cmd.order = o}

BoundOf(o) == reserveLogs[o] > 0 => reserveLogs[o] + Cardinality(Past(o)) <= Cardinality(InvWorkers)

LEMMA PastFinite ==
  \A o : /\ IsFiniteSet(Past(o)) /\ Cardinality(Past(o)) \in Nat
         /\ Cardinality(Past(o)) <= Cardinality(InvWorkers)
<1>. TAKE o
<1>1. Past(o) \in SUBSET InvWorkers
  BY DEF Past
<1>. QED
  BY <1>1, PoolAssumption, FS_Subset, FS_CardinalityType DEF PoolAssumption

LEMMA PoolSize == Cardinality(InvWorkers) \in Nat
BY PoolAssumption, FS_CardinalityType DEF PoolAssumption

(* A step that adds no row and lets no worker past the check. *)
LEMMA BoundShrinks ==
  ASSUME InventoryTypeOK, NEW o \in Orders, BoundOf(o),
         reserveLogs'[o] = reserveLogs[o], Past(o)' \subseteq Past(o)
  PROVE  BoundOf(o)'
<1>1. PICK P : P = Past(o)'
  OBVIOUS
<1>2. P \in SUBSET Past(o)
  BY <1>1
<1>3. Cardinality(P) \in Nat /\ Cardinality(P) <= Cardinality(Past(o))
  BY <1>2, PastFinite, FS_Subset, FS_CardinalityType
<1>4. reserveLogs[o] \in Nat /\ Cardinality(Past(o)) \in Nat
  BY PastFinite DEF InventoryTypeOK
<1>. QED
  BY <1>1, <1>3, <1>4, PoolSize DEF BoundOf

LEMMA BoundStep ==
  ASSUME InventoryTypeOK, NEW w \in InvWorkers, InvStep(w), NEW o \in Orders, BoundOf(o)
  PROVE  BoundOf(o)'
<1>1. ASSUME NEW q \in Orders, CheckReserve(w, q)
      PROVE  BoundOf(o)'
  <2>1. CASE reserveLogs[o] = 0
    BY <1>1, <2>1 DEF CheckReserve, StockSame, BoundOf
  <2>2. CASE reserveLogs[o] # 0
    <3>1. reserveLogs[o] > 0
      BY <2>2 DEF InventoryTypeOK
    <3>2. Past(o)' \subseteq Past(o)
      BY <1>1, <3>1
      DEF CheckReserve, ExistsReserve, InvSet, InventoryTypeOK, Answer, Task, ReserveCmd, Past
    <3>. QED
      BY <1>1, <3>2, BoundShrinks DEF CheckReserve, StockSame
  <2>. QED
    BY <2>1, <2>2
<1>2. CASE ReserveAtomic(w) /\ iw[w].cmd.order = o
  <2>1. w \in Past(o)
    BY <1>2 DEF ReserveAtomic, InvAt, Past
  <2>2. PICK P : P = Past(o)'
    OBVIOUS
  <2>3. P \in SUBSET (Past(o) \ {w})
    BY <1>2, <2>2 DEF ReserveAtomic, InvSet, InventoryTypeOK, Answer, Task, Past
  <2>4. /\ IsFiniteSet(Past(o) \ {w})
        /\ Cardinality(Past(o) \ {w}) = Cardinality(Past(o)) - 1
    BY <2>1, PastFinite, FS_RemoveElement
  <2>5. Cardinality(P) \in Nat /\ Cardinality(P) <= Cardinality(Past(o)) - 1
    BY <2>3, <2>4, FS_Subset, FS_CardinalityType
  <2>6. reserveLogs[o] \in Nat /\ reserveLogs'[o] = reserveLogs[o] + 1
    BY <1>2 DEF ReserveAtomic, Logged, InventoryTypeOK
  <2>7. reserveLogs[o] + Cardinality(Past(o)) <= Cardinality(InvWorkers)
    BY <2>6, PastFinite, PoolSize DEF BoundOf
  <2>. QED
    BY <2>2, <2>5, <2>6, <2>7, PastFinite, PoolSize DEF BoundOf
<1>3. CASE ReserveAtomic(w) /\ iw[w].cmd.order # o
  <2>1. reserveLogs'[o] = reserveLogs[o]
    BY <1>3 DEF ReserveAtomic, Logged, InventoryTypeOK
  <2>2. Past(o)' \subseteq Past(o)
    BY <1>3 DEF ReserveAtomic, InvSet, InventoryTypeOK, Answer, Task, Past
  <2>. QED
    BY <2>1, <2>2, BoundShrinks
<1>4. ASSUME NEW q \in Orders, CheckRelease(w, q)
      PROVE  BoundOf(o)'
  <2>1. Past(o)' \subseteq Past(o)
    BY <1>4 DEF CheckRelease, InvSet, InventoryTypeOK, Answer, Task, Past
  <2>. QED
    BY <1>4, <2>1, BoundShrinks DEF CheckRelease, StockSame
<1>5. CASE ReadStock(w) \/ LockConflict(w)
  <2>1. Past(o)' \subseteq Past(o)
    BY <1>5 DEF ReadStock, LockConflict, InvAt, InvSet, InventoryTypeOK, Answer, Task, Past
  <2>. QED
    BY <1>5, <2>1, BoundShrinks DEF ReadStock, LockConflict, StockSame
<1>6. CASE ReadNothing(w) \/ ReleaseNothing(w) \/ ReleaseAtomic(w) \/ ReleaseError(w) \/ InvFault(w)
  <2>1. Past(o)' \subseteq Past(o)
    BY <1>6
    DEF ReadNothing, ReleaseNothing, ReleaseAtomic, ReleaseError, InvFault, InvSet, InventoryTypeOK, InvFree,
        Answer, Task, Past
  <2>2. reserveLogs' = reserveLogs
    BY <1>6 DEF ReadNothing, ReleaseNothing, ReleaseAtomic, ReleaseError, InvFault, Refund, StockSame
  <2>. QED
    BY <2>1, <2>2, BoundShrinks
<1>7. ASSUME NEW id \in EventIds, InvPublish(w, id)
      PROVE  BoundOf(o)'
  <2>1. Past(o)' \subseteq Past(o)
    BY <1>7 DEF InvPublish, PublishVerdict, PublishUnconfirmed, InvSet, InventoryTypeOK, InvFree, Past
  <2>. QED
    BY <1>7, <2>1, BoundShrinks DEF InvPublish, PublishVerdict, PublishUnconfirmed, StockSame
<1>. QED
  BY <1>1, <1>2, <1>3, <1>4, <1>5, <1>6, <1>7 DEF InvStep, InvWork

(* However many copies of a reserve command there are, an order reserves at *)
(* most once per worker of the pool.                                        *)
THEOREM DoubleReserveIsBounded == InventorySpec => []DoubleReserveBound
<1>. DEFINE Inv == \A o \in Orders : BoundOf(o)
<1>1. TransportInit /\ InventoryInit => Inv
  BY DEF InventoryInit, BoundOf
<1>2. InventoryTypeOK /\ Inv /\ [InventoryNext]_<<netVars, invVars>> => Inv'
  <2>. SUFFICES ASSUME InventoryTypeOK, Inv, [InventoryNext]_<<netVars, invVars>>, NEW o \in Orders
                PROVE  BoundOf(o)'
    OBVIOUS
  <2>1. BoundOf(o)
    OBVIOUS
  <2>2. ASSUME NEW w \in InvWorkers, InvStep(w)
        PROVE  BoundOf(o)'
    BY <2>1, <2>2, BoundStep
  <2>3. CASE UNCHANGED <<reserveLogs, iw>>
    BY <2>1, <2>3 DEF BoundOf, Past
  <2>. QED
    BY <2>2, <2>3
    DEF InventoryNext, InvStep, CommandArrives, Admin, CreateSKU, UpdateAvailableQty, invVars
<1>3. InventoryTypeOK /\ Inv => DoubleReserveBound
  <2>. SUFFICES ASSUME InventoryTypeOK, Inv, NEW o \in Orders
                PROVE  reserveLogs[o] <= Cardinality(InvWorkers)
    BY DEF DoubleReserveBound
  <2>1. BoundOf(o) /\ reserveLogs[o] \in Nat
    BY DEF InventoryTypeOK
  <2>. QED
    BY <2>1, PastFinite, PoolSize DEF BoundOf
<1>. QED
  BY <1>1, <1>2, <1>3, InventoryTypeCorrect, PTL DEF InventorySpec, InventoryAlone

-----------------------------------------------------------------------------
(* StockConserved and ReservedCoversLog: every change of a row comes with   *)
(* the log row that accounts for it, and a product without a row has        *)
(* nothing to account for.                                                  *)
Blank ==
  \A p \in Products : p \notin catalogue =>
    stock[p].available = 0 /\ stock[p].reserved = 0 /\ granted[p] = 0

StockInv == StockConserved /\ ReservedCoversLog /\ Blank

LEMMA OrdersForFinite ==
  \A p : IsFiniteSet(OrdersFor(p)) /\ OrdersFor(p) \subseteq Orders
<1>. TAKE p
<1>1. OrdersFor(p) \in SUBSET Orders
  BY DEF OrdersFor
<1>. QED
  BY <1>1, OrdersAssumption, FS_Subset DEF OrdersAssumption

LEMMA HoldingType ==
  ASSUME InventoryTypeOK, NEW o \in Orders
  PROVE  Holding[o] = QtyOf[o] * (reserveLogs[o] - releaseLogs[o]) /\ Holding[o] \in Int
BY InventoryAssumption DEF InventoryAssumption, InventoryTypeOK, Holding

LEMMA OutstandingType ==
  ASSUME InventoryTypeOK, NEW p
  PROVE  Outstanding(p) \in Int
BY OrdersForFinite, HoldingType, SumType DEF Outstanding

(* A log row of order o changes what is out of its product, by its quantity. *)
LEMMA OutstandingChange ==
  ASSUME InventoryTypeOK, InventoryTypeOK', NEW o \in Orders, NEW d \in Int,
         Holding'[o] = Holding[o] + d,
         \A q \in Orders : q # o => Holding'[q] = Holding[q]
  PROVE  \A p \in Products :
           Outstanding(p)' = IF p = ProductOf[o] THEN Outstanding(p) + d ELSE Outstanding(p)
<1>. TAKE p \in Products
<1>1. PICK h : h = Holding'
  OBVIOUS
<1>2. \A q \in OrdersFor(p) : Holding[q] \in Int /\ h[q] \in Int
  <2>1. \A q \in Orders : Holding[q] \in Int
    BY HoldingType
  <2>. QED
    BY <1>1, <2>1, OrdersForFinite
<1>3. Outstanding(p)' = SumFunctionOnSet(h, OrdersFor(p))
  BY <1>1 DEF Outstanding, OrdersFor
<1>4. CASE p = ProductOf[o]
  <2>1. o \in OrdersFor(p)
    BY <1>4 DEF OrdersFor
  <2>2. PICK S : S = OrdersFor(p)
    OBVIOUS
  <2>3. PICK g : g = Holding
    OBVIOUS
  <2>4. SumFunctionOnSet(h, S) = SumFunctionOnSet(g, S) + (h[o] - g[o])
    <3>1. IsFiniteSet(S) /\ o \in S
      BY <2>1, <2>2, OrdersForFinite
    <3>2. \A q \in S : g[q] \in Int /\ h[q] \in Int
      BY <1>2, <2>2, <2>3
    <3>3. \A q \in S \ {o} : h[q] = g[q]
      BY <1>1, <2>2, <2>3, OrdersForFinite
    <3>. QED
      BY <3>1, <3>2, <3>3, SumChange
  <2>5. h[o] - g[o] = d
    BY <1>1, <2>3, HoldingType
  <2>. QED
    BY <1>3, <1>4, <2>2, <2>3, <2>4, <2>5 DEF Outstanding
<1>5. CASE p # ProductOf[o]
  <2>1. o \notin OrdersFor(p)
    BY <1>5 DEF OrdersFor
  <2>2. \A q \in OrdersFor(p) : Holding[q] = h[q]
    BY <1>1, <2>1, OrdersForFinite
  <2>3. SumFunctionOnSet(Holding, OrdersFor(p)) = SumFunctionOnSet(h, OrdersFor(p))
    BY <1>2, <2>2, OrdersForFinite, SumSame
  <2>. QED
    BY <1>3, <1>5, <2>3 DEF Outstanding
<1>. QED
  BY <1>4, <1>5

LEMMA ReserveHolds ==
  ASSUME InventoryTypeOK, InventoryTypeOK', NEW o \in Orders,
         reserveLogs' = Logged(reserveLogs, o), releaseLogs' = releaseLogs
  PROVE  \A p \in Products :
           Outstanding(p)' = IF p = ProductOf[o] THEN Outstanding(p) + QtyOf[o] ELSE Outstanding(p)
<1>1. QtyOf[o] \in Nat /\ reserveLogs[o] \in Nat /\ releaseLogs[o] \in Nat
  BY InventoryAssumption DEF InventoryAssumption, InventoryTypeOK
<1>2. Holding'[o] = QtyOf[o] * ((reserveLogs[o] + 1) - releaseLogs[o])
  BY DEF Holding, Logged, InventoryTypeOK
<1>3. Holding'[o] = Holding[o] + QtyOf[o]
  BY <1>1, <1>2, HoldingType
<1>4. \A q \in Orders : q # o => Holding'[q] = Holding[q]
  BY DEF Holding, Logged, InventoryTypeOK
<1>. QED
  BY <1>1, <1>3, <1>4, OutstandingChange

LEMMA RefundHolds ==
  ASSUME InventoryTypeOK, InventoryTypeOK', NEW o \in Orders,
         releaseLogs' = Logged(releaseLogs, o), reserveLogs' = reserveLogs
  PROVE  \A p \in Products :
           Outstanding(p)' = IF p = ProductOf[o] THEN Outstanding(p) - QtyOf[o] ELSE Outstanding(p)
<1>1. QtyOf[o] \in Nat /\ reserveLogs[o] \in Nat /\ releaseLogs[o] \in Nat
  BY InventoryAssumption DEF InventoryAssumption, InventoryTypeOK
<1>2. Holding'[o] = QtyOf[o] * (reserveLogs[o] - (releaseLogs[o] + 1))
  BY DEF Holding, Logged, InventoryTypeOK
<1>3. Holding'[o] = Holding[o] + (-QtyOf[o])
  BY <1>1, <1>2, HoldingType
<1>4. \A q \in Orders : q # o => Holding'[q] = Holding[q]
  BY DEF Holding, Logged, InventoryTypeOK
<1>5. \A p \in Products :
        Outstanding(p)' = IF p = ProductOf[o] THEN Outstanding(p) + (-QtyOf[o]) ELSE Outstanding(p)
  BY <1>1, <1>3, <1>4, OutstandingChange
<1>. QED
  BY <1>1, <1>5, OutstandingType

LEMMA NothingHeldAnew ==
  ASSUME UNCHANGED <<reserveLogs, releaseLogs>>
  PROVE  \A p : Outstanding(p)' = Outstanding(p)
BY DEF Outstanding, OrdersFor, Holding

LEMMA ReserveConserves ==
  ASSUME InventoryTypeOK, InventoryTypeOK', StockInv, NEW w \in InvWorkers, ReserveAtomic(w)
  PROVE  StockInv'
<1>1. iw[w].cmd.order \in Orders
  BY BusyTask DEF ReserveAtomic, InvAt
<1>. DEFINE o == iw[w].cmd.order
            r == ProductOf[o]
<1>2. /\ r \in Products /\ QtyOf[o] \in Nat /\ QtyOf[o] > 0
      /\ stock[r].available \in Nat /\ stock[r].reserved \in Nat /\ stock[r].available >= QtyOf[o]
  BY <1>1, InventoryAssumption DEF InventoryAssumption, InventoryTypeOK, ReserveAtomic, LockHolds
<1>3. /\ stock'[r].available = stock[r].available - QtyOf[o]
      /\ stock'[r].reserved = stock[r].reserved + QtyOf[o]
  BY <1>2 DEF ReserveAtomic, Taken, Row, InventoryTypeOK
<1>4. \A p \in Products : p # r => stock'[p] = stock[p]
  BY DEF ReserveAtomic, InventoryTypeOK
<1>5. \A p \in Products :
        Outstanding(p)' = IF p = r THEN Outstanding(p) + QtyOf[o] ELSE Outstanding(p)
  BY <1>1, ReserveHolds DEF ReserveAtomic
<1>6. catalogue' = catalogue /\ granted' = granted
  BY DEF ReserveAtomic
<1>. HIDE DEF o, r
<1>7. ASSUME NEW p \in Products
      PROVE  /\ stock'[p].available = granted'[p] - Outstanding(p)'
             /\ stock'[p].reserved >= Outstanding(p)'
  <2>1. /\ stock[p].available = granted[p] - Outstanding(p)
        /\ stock[p].reserved >= Outstanding(p)
    BY DEF StockInv, StockConserved, ReservedCoversLog
  <2>2. granted[p] \in Int /\ Outstanding(p) \in Int
    BY OutstandingType DEF InventoryTypeOK
  <2>. QED
    BY <1>2, <1>3, <1>4, <1>5, <1>6, <2>1, <2>2
<1>8. Blank'
  BY <1>2, <1>4, <1>6 DEF StockInv, Blank
<1>. QED
  BY <1>7, <1>8 DEF StockInv, StockConserved, ReservedCoversLog

LEMMA RefundConserves ==
  ASSUME InventoryTypeOK, InventoryTypeOK', StockInv, NEW o \in Orders, Refund(o)
  PROVE  StockInv'
<1>. DEFINE r == ProductOf[o]
<1>2. /\ r \in Products /\ QtyOf[o] \in Nat /\ r \in catalogue
      /\ stock[r].available \in Nat /\ stock[r].reserved \in Nat
  BY InventoryAssumption DEF InventoryAssumption, InventoryTypeOK, Refund
<1>3. /\ stock'[r].available = stock[r].available + QtyOf[o]
      /\ stock'[r].reserved = IF stock[r].reserved >= QtyOf[o] THEN stock[r].reserved - QtyOf[o] ELSE 0
  BY <1>2 DEF Refund, PutBack, Row, InventoryTypeOK
<1>4. \A p \in Products : p # r => stock'[p] = stock[p]
  BY DEF Refund, InventoryTypeOK
<1>5. \A p \in Products :
        Outstanding(p)' = IF p = r THEN Outstanding(p) - QtyOf[o] ELSE Outstanding(p)
  BY RefundHolds DEF Refund
<1>6. catalogue' = catalogue /\ granted' = granted
  BY DEF Refund
<1>. HIDE DEF r
<1>7. ASSUME NEW p \in Products
      PROVE  /\ stock'[p].available = granted'[p] - Outstanding(p)'
             /\ stock'[p].reserved >= Outstanding(p)'
  <2>1. /\ stock[p].available = granted[p] - Outstanding(p)
        /\ stock[p].reserved >= Outstanding(p)
    BY DEF StockInv, StockConserved, ReservedCoversLog
  <2>2. granted[p] \in Int /\ Outstanding(p) \in Int
    BY OutstandingType DEF InventoryTypeOK
  <2>. QED
    BY <1>2, <1>3, <1>4, <1>5, <1>6, <2>1, <2>2
<1>8. Blank'
  BY <1>2, <1>4, <1>6 DEF StockInv, Blank
<1>. QED
  BY <1>7, <1>8 DEF StockInv, StockConserved, ReservedCoversLog

LEMMA AdminConserves ==
  ASSUME InventoryTypeOK, StockInv, Admin
  PROVE  StockInv'
<1>1. PICK r \in Products, q \in AdminQty : CreateSKU(r, q) \/ UpdateAvailableQty(r, q)
  BY DEF Admin
<1>2. q \in Nat
  BY <1>1, InventoryAssumption DEF InventoryAssumption
<1>3. \A p \in Products : p # r => stock'[p] = stock[p] /\ granted'[p] = granted[p]
  BY <1>1 DEF CreateSKU, UpdateAvailableQty, InventoryTypeOK
<1>4. \A p : Outstanding(p)' = Outstanding(p)
  BY <1>1, NothingHeldAnew DEF CreateSKU, UpdateAvailableQty
<1>5. /\ stock[r].available = granted[r] - Outstanding(r)
      /\ stock[r].reserved >= Outstanding(r)
      /\ granted[r] \in Int /\ Outstanding(r) \in Int
      /\ stock[r].available \in Nat /\ stock[r].reserved \in Nat
  BY OutstandingType DEF StockInv, StockConserved, ReservedCoversLog, InventoryTypeOK
<1>6. CASE CreateSKU(r, q)
  <2>1. /\ stock'[r].available = q /\ stock'[r].reserved = 0 /\ granted'[r] = q
        /\ catalogue' = catalogue \cup {r}
    BY <1>6 DEF CreateSKU, Row, InventoryTypeOK
  <2>2. stock[r].available = 0 /\ granted[r] = 0
    BY <1>6 DEF CreateSKU, StockInv, Blank
  <2>3. Outstanding(r) = 0
    BY <1>5, <2>2
  <2>. QED
    BY <1>2, <1>3, <1>4, <2>1, <2>3 DEF StockInv, StockConserved, ReservedCoversLog, Blank
<1>7. CASE UpdateAvailableQty(r, q)
  <2>1. /\ stock'[r].available = q /\ stock'[r].reserved = stock[r].reserved
        /\ granted'[r] = granted[r] + q - stock[r].available
        /\ catalogue' = catalogue /\ r \in catalogue
    BY <1>7 DEF UpdateAvailableQty, Corrected, Row, InventoryTypeOK
  <2>2. /\ stock'[r].available = granted'[r] - Outstanding(r)'
        /\ stock'[r].reserved >= Outstanding(r)'
    BY <1>2, <1>4, <1>5, <2>1
  <2>. QED
    BY <1>3, <1>4, <2>1, <2>2 DEF StockInv, StockConserved, ReservedCoversLog, Blank
<1>. QED
  BY <1>1, <1>6, <1>7

LEMMA SameStockConserved ==
  ASSUME StockInv, StockSame
  PROVE  StockInv'
BY NothingHeldAnew DEF StockInv, StockConserved, ReservedCoversLog, Blank, StockSame

LEMMA WorkerConserves ==
  ASSUME InventoryTypeOK, InventoryTypeOK', StockInv, NEW w \in InvWorkers, InvStep(w)
  PROVE  StockInv'
<1>1. CASE ReserveAtomic(w)
  BY <1>1, ReserveConserves
<1>2. CASE Refund(iw[w].cmd.order) /\ InvAt(w, "refund")
  BY <1>2, BusyTask, RefundConserves DEF InvAt
<1>3. CASE StockSame
  BY <1>3, SameStockConserved
<1>. QED
  BY <1>1, <1>2, <1>3
  DEF InvStep, InvWork, InvPublish, CheckReserve, CheckRelease, ReadStock, ReadNothing, LockConflict,
      ReleaseAtomic, ReleaseNothing, ReleaseError, PublishVerdict, PublishUnconfirmed, InvFault

LEMMA StockInit == InventoryInit => StockInv
<1>. SUFFICES ASSUME InventoryInit
              PROVE  StockInv
  OBVIOUS
<1>1. \A p \in Products :
        /\ stock[p].available = granted[p] /\ stock[p].reserved = 0 /\ granted[p] \in Int
        /\ p \notin catalogue => granted[p] = 0
  BY InventoryAssumption DEF InventoryAssumption, InventoryInit, Row
<1>2. ASSUME NEW p \in Products
      PROVE  Outstanding(p) = 0
  <2>1. \A o \in Orders : Holding[o] = 0
    <3>. TAKE o \in Orders
    <3>1. reserveLogs[o] - releaseLogs[o] = 0 /\ QtyOf[o] \in Nat
      BY InventoryAssumption DEF InventoryAssumption, InventoryInit
    <3>2. Holding[o] = QtyOf[o] * 0
      BY <3>1 DEF Holding
    <3>. QED
      BY <3>1, <3>2
  <2>2. PICK h : h = Holding
    OBVIOUS
  <2>3. \A o \in OrdersFor(p) : h[o] = 0
    BY <2>1, <2>2, OrdersForFinite
  <2>4. SumFunctionOnSet(h, OrdersFor(p)) = 0
    BY <2>3, OrdersForFinite, SumOfZeros
  <2>. QED
    BY <2>2, <2>4 DEF Outstanding
<1>. QED
  BY <1>1, <1>2 DEF StockInv, StockConserved, ReservedCoversLog, Blank

LEMMA StockStep ==
  ASSUME InventoryTypeOK, InventoryTypeOK', StockInv, [InventoryNext]_<<netVars, invVars>>
  PROVE  StockInv'
<1>1. ASSUME NEW w \in InvWorkers, InvStep(w)
      PROVE  StockInv'
  BY <1>1, WorkerConserves
<1>2. CASE StockSame
  BY <1>2, SameStockConserved
<1>. QED
  BY <1>1, <1>2, AdminConserves DEF InventoryNext, InvStep, CommandArrives, invVars, StockSame

(* What is available of a product and what the log says is out add up to    *)
(* what it was granted, through every race and every correction by hand.    *)
THEOREM StockIsConserved == InventorySpec => []StockConserved
<1>1. TransportInit /\ InventoryInit => StockInv
  BY StockInit
<1>2. InventoryTypeOK /\ InventoryTypeOK' /\ StockInv /\ [InventoryNext]_<<netVars, invVars>> => StockInv'
  BY StockStep
<1>3. StockInv => StockConserved
  BY DEF StockInv
<1>. QED
  BY <1>1, <1>2, <1>3, InventoryTypeCorrect, PTL DEF InventorySpec, InventoryAlone

(* reserved_qty covers what the log says is out, clamped or not.            *)
THEOREM ReservedAlwaysCoversLog == InventorySpec => []ReservedCoversLog
<1>1. TransportInit /\ InventoryInit => StockInv
  BY StockInit
<1>2. InventoryTypeOK /\ InventoryTypeOK' /\ StockInv /\ [InventoryNext]_<<netVars, invVars>> => StockInv'
  BY StockStep
<1>3. StockInv => ReservedCoversLog
  BY DEF StockInv
<1>. QED
  BY <1>1, <1>2, <1>3, InventoryTypeCorrect, PTL DEF InventorySpec, InventoryAlone

-----------------------------------------------------------------------------
(* DoubleReleaseBound: the same argument about the workers past the other   *)
(* check; an error of ReleaseAtomic takes its worker out of the transaction *)
(* whether or not it committed.                                             *)
Refunding(o) == {w \in InvWorkers : iw[w].pc = "refund" /\ iw[w].cmd.order = o}

ReleaseBoundOf(o) ==
  releaseLogs[o] > 0 => releaseLogs[o] + Cardinality(Refunding(o)) <= Cardinality(InvWorkers)

LEMMA RefundingFinite ==
  \A o : /\ IsFiniteSet(Refunding(o)) /\ Cardinality(Refunding(o)) \in Nat
         /\ Cardinality(Refunding(o)) <= Cardinality(InvWorkers)
<1>. TAKE o
<1>1. Refunding(o) \in SUBSET InvWorkers
  BY DEF Refunding
<1>. QED
  BY <1>1, PoolAssumption, FS_Subset, FS_CardinalityType DEF PoolAssumption

LEMMA ReleaseBoundShrinks ==
  ASSUME InventoryTypeOK, NEW o \in Orders, ReleaseBoundOf(o),
         releaseLogs'[o] = releaseLogs[o], Refunding(o)' \subseteq Refunding(o)
  PROVE  ReleaseBoundOf(o)'
<1>1. PICK P : P = Refunding(o)'
  OBVIOUS
<1>2. P \in SUBSET Refunding(o)
  BY <1>1
<1>3. Cardinality(P) \in Nat /\ Cardinality(P) <= Cardinality(Refunding(o))
  BY <1>2, RefundingFinite, FS_Subset, FS_CardinalityType
<1>4. releaseLogs[o] \in Nat /\ Cardinality(Refunding(o)) \in Nat
  BY RefundingFinite DEF InventoryTypeOK
<1>. QED
  BY <1>1, <1>3, <1>4, PoolSize DEF ReleaseBoundOf

(* A worker at the transaction leaves it, with or without a row.            *)
LEMMA RefundLeaves ==
  ASSUME InventoryTypeOK, NEW w \in InvWorkers, ReleaseAtomic(w) \/ ReleaseError(w),
         NEW o \in Orders, ReleaseBoundOf(o)
  PROVE  ReleaseBoundOf(o)'
<1>1. Refunding(o)' \subseteq Refunding(o) \ {w}
  BY DEF ReleaseAtomic, ReleaseError, InvSet, InventoryTypeOK, Answer, Task, Refunding
<1>2. CASE releaseLogs'[o] = releaseLogs[o]
  BY <1>1, <1>2, ReleaseBoundShrinks
<1>3. CASE releaseLogs'[o] # releaseLogs[o]
  <2>1. Refund(iw[w].cmd.order) /\ iw[w].pc = "refund"
    BY <1>3 DEF ReleaseAtomic, ReleaseError, InvAt, StockSame
  <2>2. iw[w].cmd.order = o /\ releaseLogs'[o] = releaseLogs[o] + 1 /\ releaseLogs[o] \in Nat
    BY <1>3, <2>1, BusyTask DEF Refund, Logged, InventoryTypeOK
  <2>3. w \in Refunding(o)
    BY <2>1, <2>2 DEF Refunding
  <2>4. PICK P : P = Refunding(o)'
    OBVIOUS
  <2>5. P \in SUBSET (Refunding(o) \ {w})
    BY <1>1, <2>4
  <2>6. /\ IsFiniteSet(Refunding(o) \ {w})
        /\ Cardinality(Refunding(o) \ {w}) = Cardinality(Refunding(o)) - 1
    BY <2>3, RefundingFinite, FS_RemoveElement
  <2>7. Cardinality(P) \in Nat /\ Cardinality(P) <= Cardinality(Refunding(o)) - 1
    BY <2>5, <2>6, FS_Subset, FS_CardinalityType
  <2>8. releaseLogs[o] + Cardinality(Refunding(o)) <= Cardinality(InvWorkers)
    BY <2>2, RefundingFinite, PoolSize DEF ReleaseBoundOf
  <2>. QED
    BY <2>2, <2>4, <2>7, <2>8, RefundingFinite, PoolSize DEF ReleaseBoundOf
<1>. QED
  BY <1>2, <1>3

LEMMA ReleaseBoundStep ==
  ASSUME InventoryTypeOK, NEW w \in InvWorkers, InvStep(w), NEW o \in Orders, ReleaseBoundOf(o)
  PROVE  ReleaseBoundOf(o)'
<1>1. ASSUME NEW q \in Orders, CheckRelease(w, q)
      PROVE  ReleaseBoundOf(o)'
  <2>1. CASE releaseLogs[o] = 0
    BY <1>1, <2>1 DEF CheckRelease, StockSame, ReleaseBoundOf
  <2>2. CASE releaseLogs[o] # 0
    <3>1. releaseLogs[o] > 0
      BY <2>2 DEF InventoryTypeOK
    <3>2. Refunding(o)' \subseteq Refunding(o)
      BY <1>1, <3>1
      DEF CheckRelease, ExistsRelease, InvSet, InventoryTypeOK, Answer, Task, ReleaseCmd, Refunding
    <3>. QED
      BY <1>1, <3>2, ReleaseBoundShrinks DEF CheckRelease, StockSame
  <2>. QED
    BY <2>1, <2>2
<1>2. ASSUME NEW q \in Orders, CheckReserve(w, q)
      PROVE  ReleaseBoundOf(o)'
  <2>1. Refunding(o)' \subseteq Refunding(o)
    BY <1>2 DEF CheckReserve, InvSet, InventoryTypeOK, Answer, Task, Refunding
  <2>. QED
    BY <1>2, <2>1, ReleaseBoundShrinks DEF CheckReserve, StockSame
<1>3. CASE ReadStock(w) \/ LockConflict(w) \/ ReserveAtomic(w)
  <2>1. Refunding(o)' \subseteq Refunding(o)
    BY <1>3 DEF ReadStock, LockConflict, ReserveAtomic, InvAt, InvSet, InventoryTypeOK, Answer, Task, Refunding
  <2>. QED
    BY <1>3, <2>1, ReleaseBoundShrinks DEF ReadStock, LockConflict, ReserveAtomic, StockSame
<1>4. CASE ReadNothing(w) \/ ReleaseNothing(w) \/ InvFault(w)
  <2>1. Refunding(o)' \subseteq Refunding(o)
    BY <1>4
    DEF ReadNothing, ReleaseNothing, InvFault, InvSet, InventoryTypeOK, InvFree, Answer, Task, Refunding
  <2>. QED
    BY <1>4, <2>1, ReleaseBoundShrinks DEF ReadNothing, ReleaseNothing, InvFault, StockSame
<1>5. CASE ReleaseAtomic(w) \/ ReleaseError(w)
  BY <1>5, RefundLeaves
<1>6. ASSUME NEW id \in EventIds, InvPublish(w, id)
      PROVE  ReleaseBoundOf(o)'
  <2>1. Refunding(o)' \subseteq Refunding(o)
    BY <1>6 DEF InvPublish, PublishVerdict, PublishUnconfirmed, InvSet, InventoryTypeOK, InvFree, Refunding
  <2>. QED
    BY <1>6, <2>1, ReleaseBoundShrinks DEF InvPublish, PublishVerdict, PublishUnconfirmed, StockSame
<1>. QED
  BY <1>1, <1>2, <1>3, <1>4, <1>5, <1>6 DEF InvStep, InvWork

LEMMA ReleaseBoundSaid ==
  ASSUME InventoryTypeOK, \A o \in Orders : ReleaseBoundOf(o)
  PROVE  DoubleReleaseBound
<1>. SUFFICES ASSUME NEW o \in Orders
              PROVE  releaseLogs[o] <= Cardinality(InvWorkers)
  BY DEF DoubleReleaseBound
<1>1. ReleaseBoundOf(o) /\ releaseLogs[o] \in Nat
  BY DEF InventoryTypeOK
<1>. QED
  BY <1>1, RefundingFinite, PoolSize DEF ReleaseBoundOf

(* However many copies of a release command there are, and whichever of     *)
(* their transactions report an error after they committed, an order is     *)
(* released at most once per worker of the pool.                            *)
THEOREM DoubleReleaseIsBounded == InventorySpec => []DoubleReleaseBound
<1>. DEFINE Inv == \A o \in Orders : ReleaseBoundOf(o)
<1>1. TransportInit /\ InventoryInit => Inv
  BY DEF InventoryInit, ReleaseBoundOf
<1>2. InventoryTypeOK /\ Inv /\ [InventoryNext]_<<netVars, invVars>> => Inv'
  <2>. SUFFICES ASSUME InventoryTypeOK, Inv, [InventoryNext]_<<netVars, invVars>>, NEW o \in Orders
                PROVE  ReleaseBoundOf(o)'
    OBVIOUS
  <2>1. ReleaseBoundOf(o)
    OBVIOUS
  <2>2. ASSUME NEW w \in InvWorkers, InvStep(w)
        PROVE  ReleaseBoundOf(o)'
    BY <2>1, <2>2, ReleaseBoundStep
  <2>3. CASE UNCHANGED <<releaseLogs, iw>>
    BY <2>1, <2>3 DEF ReleaseBoundOf, Refunding
  <2>. QED
    BY <2>2, <2>3
    DEF InventoryNext, InvStep, CommandArrives, Admin, CreateSKU, UpdateAvailableQty, invVars
<1>3. InventoryTypeOK /\ Inv => DoubleReleaseBound
  BY ReleaseBoundSaid
<1>. QED
  BY <1>1, <1>2, <1>3, InventoryTypeCorrect, PTL DEF InventorySpec, InventoryAlone
=============================================================================
