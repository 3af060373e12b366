--------------------------- MODULE PaymentService ---------------------------
(***************************************************************************)
(* payment-service: a pool of workers consumes payment.commands and gives  *)
(* every order one verdict.  Two defences against a second charge: the     *)
(* message ids in processed_events, and the unique index on                *)
(* payments.order_id, which a payment created over HTTP occupies as well.  *)
(***************************************************************************)
EXTENDS Transport

CONSTANTS PayWorkers,   \* workers of the consumer (16 in the code)
          HttpPayments  \* orders for which POST /payments may be called

ASSUME PaymentAssumption == HttpPayments \subseteq Orders

VARIABLES payment,   \* status of the order's row in payments, or "NONE"
          paidCmds,  \* processed_events of payment-service
          pw         \* what each worker is doing

payVars == <<payment, paidCmds, pw>>

PaymentStatuses == {"NONE", "PENDING", "SUCCESS", "FAILED"}

PayFree             == [pc |-> "free"]
PayTask(pc, cmd, ok) == [pc |-> pc, cmd |-> cmd, ok |-> ok]
PayTasks            == [pc : {"lookup", "create", "answer"}, cmd : PaymentCmds, ok : BOOLEAN]

(* Rows and tasks keep their shapes: a worker holds payment commands only,  *)
(* one at a time.                                                           *)
PaymentTypeOK ==
  /\ payment \in [Orders -> PaymentStatuses]
  /\ paidCmds \subseteq {"Pay"} \X Orders \X CmdIds
  /\ pw \in [PayWorkers -> PayTasks \cup {PayFree}]

PaymentInit ==
  /\ payment = [o \in Orders |-> "NONE"]
  /\ paidCmds = {}
  /\ pw = [w \in PayWorkers |-> PayFree]

-----------------------------------------------------------------------------
PaySet(w, task) == pw' = [pw EXCEPT ![w] = task]
PayAt(w, pc)    == pw[w].pc = pc
PaymentsSame    == UNCHANGED <<payment, paidCmds>>

(* IsProcessed: a command whose payment is on record is acknowledged, and   *)
(* its verdict is not published again.                                      *)
(* Mutants: the id is marked before the payment exists; the queue is bound  *)
(* to the events as well.                                                   *)
CheckProcessed_MarksFirst(w, cmd) ==
  /\ pw[w] = PayFree
  /\ cmd.kind = "Pay"
  /\ Take(cmd)
  /\ PaySet(w, IF Key(cmd) \in paidCmds THEN PayFree ELSE PayTask("lookup", cmd, FALSE))
  /\ paidCmds' = paidCmds \cup {Key(cmd)}
  /\ UNCHANGED payment /\ NoFault

CheckProcessed_AnyKind(w, cmd) ==
  /\ pw[w] = PayFree
  /\ cmd \in PaymentCmds \cup Events
  /\ Take(cmd)
  /\ PaySet(w, IF Key(cmd) \in paidCmds THEN PayFree ELSE PayTask("lookup", cmd, FALSE))
  /\ PaymentsSame /\ NoFault

CheckProcessed(w, cmd) ==
  /\ pw[w] = PayFree
  /\ cmd.kind = "Pay"
  /\ Take(cmd)
  /\ PaySet(w, IF Key(cmd) \in paidCmds THEN PayFree ELSE PayTask("lookup", cmd, FALSE))
  /\ PaymentsSame /\ NoFault

(* GetByOrderID: an existing row is the verdict; PENDING is not a success.  *)
(* Mutants: any row means that the order was paid; any row is a refusal.    *)
Paid_AnyRow(status) == TRUE
Paid_NoRow(status)  == FALSE

Paid(status) == status = "SUCCESS"

LookupPayment(w) ==
  LET cmd == pw[w].cmd
      row == payment[cmd.order]
  IN  /\ PayAt(w, "lookup")
      /\ PaySet(w, IF row = "NONE" THEN PayTask("create", cmd, FALSE)
                                   ELSE PayTask("answer", cmd, Paid(row)))
      /\ PaymentsSame /\ UNCHANGED netVars

(* The unique indexes of payments and processed_events.                     *)
(* Mutant: payments has none on order_id.                                   *)
Insertable_ById(cmd) == Key(cmd) \notin paidCmds

Insertable(cmd) == payment[cmd.order] = "NONE" /\ Key(cmd) \notin paidCmds

(* CreatePaymentWithEvent: the row and the mark in one transaction, with a  *)
(* verdict drawn at random.                                                 *)
CreatePayment(w, ok) ==
  LET cmd == pw[w].cmd
  IN  /\ PayAt(w, "create")
      /\ Insertable(cmd)
      /\ payment' = [payment EXCEPT ![cmd.order] = IF ok THEN "SUCCESS" ELSE "FAILED"]
      /\ paidCmds' = paidCmds \cup {Key(cmd)}
      /\ PaySet(w, PayTask("answer", cmd, ok))
      /\ UNCHANGED netVars

(* Another worker was first: a unique index rolls the transaction back and  *)
(* the handler fails.  The command returns, or its retries are exhausted.   *)
CreateConflict(w) ==
  LET cmd == pw[w].cmd
  IN  /\ PayAt(w, "create")
      /\ ~ Insertable(cmd)
      /\ Return(cmd) \/ UNCHANGED queue
      /\ PaySet(w, PayFree)
      /\ PaymentsSame /\ NoFault

PaidVerdict(w, id) == Event("Paid", pw[w].cmd.order, pw[w].ok, id)

PublishPaid(w, id) ==
  /\ PayAt(w, "answer")
  /\ Publish(PaidVerdict(w, id))
  /\ PaySet(w, PayFree)
  /\ PaymentsSame /\ NoFault

(* The event is out, yet the confirm is lost or the process dies before     *)
(* the Ack.                                                                 *)
PublishPaidUnconfirmed(w, id) ==
  /\ PayAt(w, "answer")
  /\ queue' = queue \cup {PaidVerdict(w, id), pw[w].cmd}
  /\ PaySet(w, PayFree)
  /\ PaymentsSame /\ Fault

PayFault(w) ==
  /\ pw[w] # PayFree
  /\ \/ Requeued(pw[w].cmd) /\ PaySet(w, PayFree)
     \/ Parked /\ PaySet(w, PayFree)
     \/ Redelivered(pw[w].cmd) /\ UNCHANGED pw
  /\ PaymentsSame

(* POST /payments: PaymentService.CreatePayment. *)
PostPayment(o) ==
  /\ payment[o] = "NONE"
  /\ payment' = [payment EXCEPT ![o] = "PENDING"]
  /\ UNCHANGED <<paidCmds, pw>> /\ UNCHANGED netVars

PayWork(w) ==
  \/ \E m \in queue : CheckProcessed(w, m)
  \/ LookupPayment(w) \/ CreateConflict(w)
  \/ \E ok \in BOOLEAN : CreatePayment(w, ok)

PayPublish(w, id) == PublishPaid(w, id) \/ PublishPaidUnconfirmed(w, id)

-----------------------------------------------------------------------------
(* The service on its own: any command may arrive at any time. *)
PayCmdArrives(c) == Publish(c) /\ NoFault /\ UNCHANGED payVars

PaymentNext ==
  \/ \E c \in PaymentCmds : PayCmdArrives(c)
  \/ \E w \in PayWorkers :
       PayWork(w) \/ PayFault(w) \/ \E id \in EventIds : PayPublish(w, id)
  \/ \E o \in HttpPayments : PostPayment(o)

PaymentAlone == TransportInit /\ PaymentInit

PaymentSpec == PaymentAlone /\ [][PaymentNext]_<<netVars, payVars>>

-----------------------------------------------------------------------------
(* Properties *)

Charged(o)  == payment[o] = "SUCCESS"
Declined(o) == payment[o] \in {"PENDING", "FAILED"}

(* Every verdict published for an order, by any worker for any copy of its  *)
(* commands, is the one on record, and stays it.                            *)
VerdictIs(o, ok) == IF ok THEN Charged(o) ELSE Declined(o)

VerdictsAgree ==
  /\ \A w \in PayWorkers : PayAt(w, "answer") => VerdictIs(pw[w].cmd.order, pw[w].ok)
  /\ \A m \in queue \cap Events : m.kind = "Paid" => VerdictIs(m.order, m.ok)

(* A row in payments is never overwritten: no second charge, no change of   *)
(* verdict after other services have acted on it.                           *)
VerdictIsFinal == [][\A o \in Orders : payment[o] # "NONE" => payment'[o] = payment[o]]_payVars

(* A command id is marked only in the transaction that creates a payment,   *)
(* so of all commands of an order at most one is ever skipped unanswered.   *)
MarkedWithPayment ==
  \A k \in paidCmds :
    /\ payment[k[2]] \in {"SUCCESS", "FAILED"}
    /\ \A j \in paidCmds : j[2] = k[2] => j = k
=============================================================================
