----------------------------- MODULE SagaSystem -----------------------------
(***************************************************************************)
(* The three services over one broker.  A step of the system is a step of  *)
(* one service; the services share nothing but the messages.               *)
(***************************************************************************)
EXTENDS OrderService, InventoryService, PaymentService

ASSUME IdAssumption == CmdIds \cup EventIds \subseteq Nat

vars == <<netVars, ordVars, invVars, payVars>>

(* The state of each part has its type: of the databases, among others, no  *)
(* quantity in inventories is ever negative.                                *)
TypeOK == TransportTypeOK /\ OrderTypeOK /\ InventoryTypeOK /\ PaymentTypeOK

Init == TransportInit /\ OrderInit /\ InventoryInit /\ PaymentInit

-----------------------------------------------------------------------------
(* shared.NewUUID: an id no message in flight and no processed_events row  *)
(* carries.  Ids that left no trace are drawn again, the smallest first.   *)
(* A message that waits already stands for any number that differ from it  *)
(* in their id alone: a publish that finds one takes its id.               *)
HeldByOrd == {ow[w].msg : w \in {v \in OrdWorkers : ow[v] # OrdFree}}
HeldByPay == {pw[w].cmd : w \in {v \in PayWorkers : pw[v] # PayFree}}

UsedKeys == {Key(m) : m \in (queue \cap (PaymentCmds \cup Events)) \cup HeldByOrd \cup HeldByPay}
              \cup processed \cup paidCmds

NewId(message(_), ids, id) ==
  LET waiting == {i \in ids : message(i) \in queue}
      free    == {i \in ids : Key(message(i)) \notin UsedKeys}
  IN  IF waiting # {} THEN id \in waiting
                      ELSE id \in free /\ \A i \in free : id <= i

NewPayId(o, id)     == NewId(LAMBDA i : PayCmd(o, i), CmdIds, id)
NewNextId(w, id)    == ow[w].msg.kind = "Reserved" => NewPayId(ow[w].msg.order, id)
NewResendId(t, id)  == t.row.step = "PROCESSING_PAYMENT" => NewPayId(t.order, id)
NewVerdictId(w, id) == NewId(LAMBDA i : Verdict(iw[w].cmd, iw[w].ok, i), EventIds, id)
NewPaidId(w, id)    == NewId(LAMBDA i : PaidVerdict(w, i), EventIds, id)

-----------------------------------------------------------------------------
(* Each service's own progress, under ids drawn when it publishes ...       *)
OrderProgress(w) ==
  \/ OrdWork(w)
  \/ \E id \in CmdIds : /\ OrdAt(w, "publish")
                        /\ NewNextId(w, id)
                        /\ PublishNext(w, id)

Recovery ==
  \/ \E status \in Live : ListByStatus(status)
  \/ \E t \in todo : \/ SkipSaga(t)
                     \/ \E id \in CmdIds : /\ NewResendId(t, id)
                                           /\ RecoverSaga(t, id)

InventoryProgress(w) ==
  \/ InvWork(w)
  \/ \E id \in EventIds : /\ InvAt(w, "answer")
                          /\ NewVerdictId(w, id)
                          /\ PublishVerdict(w, id)

PaymentProgress(w) ==
  \/ PayWork(w)
  \/ \E id \in EventIds : /\ PayAt(w, "answer")
                          /\ NewPaidId(w, id)
                          /\ PublishPaid(w, id)

(* ... and its faults. *)
OrderFault ==
  \/ \E o \in Orders : RequestFails(o)
  \/ \E w \in OrdWorkers :
       \/ OrdFault(w)
       \/ \E id \in CmdIds : /\ OrdAt(w, "publish")
                             /\ NewNextId(w, id)
                             /\ PublishNextUnconfirmed(w, id)
  \/ RecoveryFault

InventoryFault ==
  \E w \in InvWorkers :
    \/ InvFault(w) \/ ReleaseError(w)
    \/ \E id \in EventIds : /\ InvAt(w, "answer")
                            /\ NewVerdictId(w, id)
                            /\ PublishUnconfirmed(w, id)

PaymentFault ==
  \E w \in PayWorkers :
    \/ PayFault(w)
    \/ \E id \in EventIds : /\ PayAt(w, "answer")
                            /\ NewPaidId(w, id)
                            /\ PublishPaidUnconfirmed(w, id)

ByOrder(A)     == A /\ UNCHANGED <<invVars, payVars>>
ByInventory(A) == A /\ UNCHANGED <<ordVars, payVars>>
ByPayment(A)   == A /\ UNCHANGED <<ordVars, invVars>>

Next ==
  \/ ByOrder(\/ \E o \in Orders : HandleRequest(o)
             \/ \E w \in OrdWorkers : OrderProgress(w)
             \/ Recovery \/ OrderFault)
  \/ ByInventory((\E w \in InvWorkers : InventoryProgress(w)) \/ Admin \/ InventoryFault)
  \/ ByPayment(\/ \E w \in PayWorkers : PaymentProgress(w)
               \/ \E o \in HttpPayments : PostPayment(o)
               \/ PaymentFault)

Spec == Init /\ [][Next]_vars

(* What the running services guarantee: a request once begun, a worker with *)
(* anything to do and the recovery loop go on, except for faults.           *)
Fairness ==
  /\ \A o \in Orders : WF_vars(ByOrder(request[o] # "new" /\ HandleRequest(o)))
  /\ \A w \in OrdWorkers : SF_vars(ByOrder(OrderProgress(w)))
  /\ \A w \in InvWorkers : WF_vars(ByInventory(InventoryProgress(w)))
  /\ \A w \in PayWorkers : WF_vars(ByPayment(PaymentProgress(w)))
  /\ WF_vars(ByOrder(Recovery))

FairSpec == Spec /\ Fairness

-----------------------------------------------------------------------------
(* Properties *)

(* No order is charged before stock is held for it.                        *)
PaymentFollowsReserve == \A o \in Orders : Charged(o) => Reserved(o)

(* Stock goes back only of orders that held some and were declined: what a *)
(* customer has paid for is never put on sale again.                       *)
ReleaseFollowsDecline == \A o \in Orders : Released(o) => Reserved(o) /\ Declined(o)

(* However many orders compete for a product, those confirmed fit into the  *)
(* stock it was given ("never negative", README).  With two workers on      *)
(* inventory.commands the code does not keep this: see OversoldIsOverReleased.*)
NoOversell ==
  \A p \in Products :
    SumFunctionOnSet(QtyOf, {o \in OrdersFor(p) : order[o] = "CONFIRMED"}) <= granted[p]

(* What was put back for an order over and above what it had reserved.      *)
OverReleased ==
  [o \in Orders |->
     IF releaseLogs[o] > reserveLogs[o] THEN QtyOf[o] * (releaseLogs[o] - reserveLogs[o]) ELSE 0]

(* However many workers race for the stock, a product is oversold by no     *)
(* more than was put back twice: nothing else in reserve, charge, release   *)
(* and confirm sells a unit that another confirmed order holds.             *)
OversoldIsOverReleased ==
  \A p \in Products :
    SumFunctionOnSet(QtyOf, {o \in OrdersFor(p) : order[o] = "CONFIRMED"})
      <= granted[p] + SumFunctionOnSet(OverReleased, OrdersFor(p))

(* "available_qty + reserved_qty remaining conserved" (README): together    *)
(* they are what was granted.                                               *)
StockAddsUp == \A p \in Products : stock[p].available + stock[p].reserved = granted[p]

(* What the log says of an order agrees with what the customer is shown: a  *)
(* confirmed order holds its quantity once, a compensated one nothing.      *)
HoldMatchesStatus ==
  \A o \in Orders :
    /\ order[o] = "CONFIRMED" => reserveLogs[o] = 1 /\ releaseLogs[o] = 0
    /\ order[o] = "COMPENSATED" => reserveLogs[o] = releaseLogs[o]

(* Nobody is charged for an order that is shown as failed.  With two        *)
(* workers on order.events the code does not keep this: see the next.       *)
FailedIsNotCharged == \A o \in Orders : order[o] \in {"FAILED", "COMPENSATED"} => ~ Charged(o)

(* However many workers race, somebody is charged for an order shown as     *)
(* failed only if two answers to its reserve were both committed (which     *)
(* takes a worker whose row was read before the first): late copies of a    *)
(* refusal, old rows in the recovery loop, duplicates alone never do it.    *)
FailedChargeNeedsTwoAnswers ==
  \A o \in Orders :
    order[o] \in {"FAILED", "COMPENSATED"} /\ Charged(o)
      => \E i, j \in EventIds : i # j /\ {<<"Reserved", o, i>>, <<"Reserved", o, j>>} \subseteq processed

(* A status shown to the customer is true of the other two databases.      *)
StatusIsTrue ==
  \A o \in Orders :
    /\ order[o] = "CONFIRMED" => Charged(o)
    /\ order[o] = "COMPENSATED" => Released(o)
    /\ saga[o].status = "COMPLETED" => Charged(o)
    /\ saga[o].status \in {"COMPENSATING", "COMPENSATED"} => Declined(o)

(* The order's status and its saga row tell the same story ("the           *)
(* orchestrator never disagrees with itself", README).                     *)
OrderMatchesSaga ==
  \A o \in Orders :
    <<order[o], saga[o]>> \in
      {<<"NONE", NoSaga>>, <<"PENDING", NoSaga>>,
       <<"PENDING", SagaRow("RESERVING_INVENTORY", "IN_PROGRESS")>>,
       <<"INVENTORY_RESERVED", SagaRow("PROCESSING_PAYMENT", "IN_PROGRESS")>>,
       <<"CONFIRMED", SagaRow("DONE", "COMPLETED")>>,
       <<"FAILED", SagaRow("RELEASING_INVENTORY", "COMPENSATING")>>,
       <<"FAILED", SagaRow("DONE", "FAILED")>>,
       <<"COMPENSATED", SagaRow("DONE", "COMPENSATED")>>}

(* A finished saga stays as it is, whatever still arrives for it.          *)
FinishedStays ==
  [][\A o \in Orders :
       saga[o].status \in Terminal => saga'[o] = saga[o] /\ order'[o] = order[o]]_vars

(* The recovery loop re-sends the command of every saga that is not         *)
(* finished ("re-publishes the step-appropriate command for any             *)
(* non-terminal saga", outbox-and-dual-write.md).                           *)
LiveSagasAreRecoverable ==
  \A o \in Orders : saga[o].status \in Live => Recoverable(saga[o])

(* Nothing under way concerns order o. *)
Quiet(o) ==
  /\ request[o] = "done"
  /\ \A m \in queue : m.order # o
  /\ \A w \in OrdWorkers : ow[w] = OrdFree \/ ow[w].msg.order # o
  /\ \A w \in InvWorkers : iw[w] = InvFree \/ iw[w].cmd.order # o
  /\ \A w \in PayWorkers : pw[w] = PayFree \/ pw[w].cmd.order # o
  /\ \A t \in todo : t.order # o

(* A saga that ended for want of stock holds no stock once all is quiet    *)
(* ("re-publishing blindly is always safe", outbox-and-dual-write.md).     *)
RefusedHoldsNothing ==
  \A o \in Orders :
    Quiet(o) /\ saga[o].status = "FAILED" /\ payment[o] = "NONE" => ~ Reserved(o)

(* Every saga that is on record ends, through the bounded faults: what a   *)
(* fault loses, the recovery loop re-sends.                                *)
SagaEnds == \A o \in Orders : saga[o] # NoSaga ~> saga[o].status \in Terminal

(* An order for a product nobody has created fails to be reserved again and *)
(* again, each time until its command is dead-lettered.  Its saga ends once *)
(* the product is created, however often that has happened, and however     *)
(* the quantity is corrected meanwhile: recovery sends the command anew.    *)
SagaEndsOnceStocked ==
  \A o \in Orders :
    saga[o] # NoSaga /\ ProductOf[o] \in catalogue ~> saga[o].status \in Terminal

(* "At most ~30s of extra latency, never a lost order"                     *)
(* (outbox-and-dual-write.md).                                             *)
NoLostOrder == \A o \in Orders : order[o] = "PENDING" ~> order[o] # "PENDING"

HoldOf(o)    == IF Released(o) THEN "returned" ELSE IF Reserved(o) THEN "held" ELSE "none"
VerdictOf(o) == IF Charged(o) THEN "paid" ELSE IF Declined(o) THEN "declined" ELSE "none"
ShownOf(o)   == CASE order[o] = "CONFIRMED" -> "confirmed"
                  [] order[o] = "FAILED" -> "failed"
                  [] order[o] = "COMPENSATED" -> "compensated"
                  [] OTHER -> "open"

Effects == INSTANCE SagaEffects WITH
  hold    <- [o \in Orders |-> HoldOf(o)],
  verdict <- [o \in Orders |-> VerdictOf(o)],
  shown   <- [o \in Orders |-> ShownOf(o)]

(* The effects on stock and money, and what customers are shown of them,   *)
(* are those of SagaEffects: the three services implement one saga.        *)
ImplementsEffects == Effects!Spec

-----------------------------------------------------------------------------
(* Why they hold: a service acts on messages, and every message, held task *)
(* and saga row is evidence of facts in other databases that, once true,   *)
(* stay true.  TrueEvidence is inductive.                                  *)

StepEvidence(o, row) ==
  /\ row.step = "PROCESSING_PAYMENT" => Reserved(o)
  /\ row.step = "RELEASING_INVENTORY" => Reserved(o) /\ Declined(o)
  /\ row.status = "COMPLETED" => Charged(o)
  /\ row.status \in {"COMPENSATING", "COMPENSATED"} => Declined(o)

Evidence(m) ==
  /\ m.kind = "Reserved" /\ m.ok => Reserved(m.order)
  /\ m.kind = "Pay" => Reserved(m.order)
  /\ m.kind = "Paid" => Reserved(m.order) /\ VerdictIs(m.order, m.ok)
  /\ m.kind = "Release" => Reserved(m.order) /\ Declined(m.order)
  /\ m.kind = "Released" /\ m.ok => Released(m.order)

OrdTaskEvidence(t) ==
  t # OrdFree =>
    /\ Evidence(t.msg)
    /\ t.pc = "publish" => \/ t.msg.kind = "Reserved" /\ t.msg.ok
                           \/ t.msg.kind = "Paid" /\ ~ t.msg.ok

InvTaskEvidence(t) ==
  t # InvFree =>
    /\ Evidence(t.cmd)
    /\ t.pc \in {"read", "cas"} => t.cmd.kind = "Reserve"
    /\ t.pc = "refund" => t.cmd.kind = "Release"
    /\ t.pc = "answer" /\ t.ok => Backed(t.cmd.kind, t.cmd.order)

PayTaskEvidence(t) ==
  t # PayFree =>
    /\ Evidence(t.cmd)
    /\ t.pc = "answer" => VerdictIs(t.cmd.order, t.ok)

(* Every message, task and saga row tells the truth about the databases of  *)
(* the other services, although each was written from an earlier state.     *)
TrueEvidence ==
  /\ \A m \in queue : Evidence(m)
  /\ \A w \in OrdWorkers : OrdTaskEvidence(ow[w])
  /\ \A w \in InvWorkers : InvTaskEvidence(iw[w])
  /\ \A w \in PayWorkers : PayTaskEvidence(pw[w])
  /\ \A o \in Orders : StepEvidence(o, saga[o])
  /\ \A t \in todo : StepEvidence(t.order, t.row)
  /\ \A o \in Orders : /\ Charged(o) => Reserved(o)
                       /\ Released(o) => Reserved(o) /\ Declined(o)
                       /\ order[o] = "CONFIRMED" => Charged(o)
                       /\ order[o] = "COMPENSATED" => Released(o)
=============================================================================
