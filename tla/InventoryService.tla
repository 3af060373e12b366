-------------------------- MODULE InventoryService --------------------------
(***************************************************************************)
(* inventory-service: a pool of workers consumes inventory.commands,       *)
(* reserves stock under an optimistic lock and releases it, one worker     *)
(* step per statement or transaction its handler sends to MySQL.  An       *)
(* administrator creates products and corrects their quantities over HTTP. *)
(***************************************************************************)
EXTENDS Transport, FiniteSets, Functions

CONSTANTS Products,           \* product ids
          Seeded,             \* those with a row at start-up (SeedIfNotExists)
          SeedQty,            \* available_qty of a seeded row
          AdminQty,           \* quantities an administrator may enter
          ProductOf,          \* the product each order asks for
          QtyOf,              \* the quantity each order asks for
          InvWorkers,         \* workers of the consumer (16 in the code)
          ReserveMaxRetries   \* INVENTORY_RESERVE_MAX_RETRIES (50)

ASSUME InventoryAssumption ==
  /\ Seeded \subseteq Products
  /\ SeedQty \in Nat
  /\ AdminQty \subseteq Nat
  /\ ProductOf \in [Orders -> Products]
  /\ QtyOf \in [Orders -> Nat \ {0}]
  /\ ReserveMaxRetries \in Nat \ {0}

ASSUME PoolAssumption == IsFiniteSet(InvWorkers)

ASSUME OrdersAssumption == IsFiniteSet(Orders)

VARIABLES catalogue,    \* products that have a row in inventories
          stock,        \* that row: available_qty, reserved_qty, version
          reserveLogs,  \* number of RESERVE rows in inventory_logs, per order
          releaseLogs,  \* number of RELEASE rows
          granted,      \* history: stock brought in by seeds and administrators
          iw            \* what each worker is doing

invVars == <<catalogue, stock, reserveLogs, releaseLogs, granted, iw>>

Row(a, r, v) == [available |-> a, reserved |-> r, version |-> v]

(* A task: the command held, the place in its handler, the attempts of the *)
(* optimistic lock that failed, the version read, the verdict to publish.  *)
Task(pc, cmd, tries, ver, ok) ==
  [pc |-> pc, cmd |-> cmd, tries |-> tries, ver |-> ver, ok |-> ok]
InvFree         == [pc |-> "free"]
Answer(cmd, ok) == Task("answer", cmd, 0, 0, ok)

InvTasks == [pc : {"read", "cas", "refund", "answer"}, cmd : InventoryCmds,
             tries : 0 .. ReserveMaxRetries - 1, ver : Nat, ok : BOOLEAN]

(* Rows and tasks keep their shapes: no quantity and no version ever goes    *)
(* below zero, whatever reserves, releases and corrections race.             *)
InventoryTypeOK ==
  /\ catalogue \subseteq Products
  /\ stock \in [Products -> [available : Nat, reserved : Nat, version : Nat]]
  /\ reserveLogs \in [Orders -> Nat]
  /\ releaseLogs \in [Orders -> Nat]
  /\ granted \in [Products -> Int]
  /\ iw \in [InvWorkers -> InvTasks \cup {InvFree}]

InventoryInit ==
  /\ catalogue = Seeded
  /\ stock = [p \in Products |-> Row(IF p \in Seeded THEN SeedQty ELSE 0, 0, 0)]
  /\ reserveLogs = [o \in Orders |-> 0]
  /\ releaseLogs = [o \in Orders |-> 0]
  /\ granted = [p \in Products |-> IF p \in Seeded THEN SeedQty ELSE 0]
  /\ iw = [w \in InvWorkers |-> InvFree]

-----------------------------------------------------------------------------
(* The command handler. *)

InvSet(w, task) == iw' = [iw EXCEPT ![w] = task]
InvAt(w, pc)    == iw[w].pc = pc
InvBusy(w)      == iw[w] # InvFree
StockSame       == UNCHANGED <<catalogue, stock, reserveLogs, releaseLogs, granted>>

(* ExistsReserve and ExistsRelease: the rows that make a command a duplicate. *)
(* Mutants: the check is missing; it looks for the row of the other action. *)
ExistsReserve_Never(o)   == FALSE
ExistsRelease_Never(o)   == FALSE
ExistsRelease_Reserve(o) == reserveLogs[o] > 0

ExistsReserve(o) == reserveLogs[o] > 0
ExistsRelease(o) == releaseLogs[o] > 0

(* The row inserted into inventory_logs with every change of stock.        *)
(* Mutant: INSERT IGNORE on a unique (order_id, action).                   *)
Logged_Once(log, o) == IF log[o] > 0 THEN log ELSE [log EXCEPT ![o] = 1]

Logged(log, o) == [log EXCEPT ![o] = @ + 1]

(* The rows that the UPDATEs of ReserveAtomic and ReleaseAtomic write.      *)
(* Mutant: reserved_qty is not clamped.                                     *)
PutBack_Unclamped(s, q) == Row(s.available + q, s.reserved - q, s.version + 1)

Taken(s, q)   == Row(s.available - q, s.reserved + q, s.version + 1)
PutBack(s, q) == Row(s.available + q, IF s.reserved >= q THEN s.reserved - q ELSE 0, s.version + 1)

(* handleReserve up to ExistsReserve. *)
CheckReserve(w, o) ==
  /\ iw[w] = InvFree
  /\ Take(ReserveCmd(o))
  /\ InvSet(w, IF ExistsReserve(o) THEN Answer(ReserveCmd(o), TRUE)
                                   ELSE Task("read", ReserveCmd(o), 0, 0, FALSE))
  /\ StockSame /\ NoFault

(* handleRelease up to ExistsRelease. *)
CheckRelease(w, o) ==
  /\ iw[w] = InvFree
  /\ Take(ReleaseCmd(o))
  /\ InvSet(w, IF ExistsRelease(o) THEN Answer(ReleaseCmd(o), TRUE)
                                   ELSE Task("refund", ReleaseCmd(o), 0, 0, FALSE))
  /\ StockSame /\ NoFault

(* GetByProductID: too little stock is a verdict, else the version is kept  *)
(* for the UPDATE.                                                          *)
ReadStock(w) ==
  LET t == iw[w]
      o == t.cmd.order
      p == ProductOf[o]
  IN  /\ InvAt(w, "read")
      /\ p \in catalogue
      /\ InvSet(w, IF stock[p].available < QtyOf[o]
                   THEN Answer(t.cmd, FALSE)
                   ELSE Task("cas", t.cmd, t.tries, stock[p].version, FALSE))
      /\ StockSame /\ UNCHANGED netVars

(* No such product: the handler fails, and the command returns until its    *)
(* retries are exhausted.                                                   *)
ReadNothing(w) ==
  LET cmd == iw[w].cmd
  IN  /\ InvAt(w, "read")
      /\ ProductOf[cmd.order] \notin catalogue
      /\ Return(cmd) \/ UNCHANGED queue
      /\ InvSet(w, InvFree)
      /\ StockSame /\ NoFault

(* The condition of ReserveAtomic's UPDATE. *)
LockHolds(w) ==
  LET o == iw[w].cmd.order
      p == ProductOf[o]
  IN  stock[p].version = iw[w].ver /\ stock[p].available >= QtyOf[o]

(* ReserveAtomic affects a row: stock moves and the log row is inserted. *)
ReserveAtomic(w) ==
  LET o == iw[w].cmd.order
      p == ProductOf[o]
  IN  /\ InvAt(w, "cas")
      /\ LockHolds(w)
      /\ stock' = [stock EXCEPT ![p] = Taken(@, QtyOf[o])]
      /\ reserveLogs' = Logged(reserveLogs, o)
      /\ InvSet(w, Answer(iw[w].cmd, TRUE))
      /\ UNCHANGED <<catalogue, releaseLogs, granted>> /\ UNCHANGED netVars

(* It affects none: read again, or after the last attempt give up with the  *)
(* verdict of a product that is out of stock.                               *)
LockConflict(w) ==
  LET t == iw[w]
  IN  /\ InvAt(w, "cas")
      /\ ~ LockHolds(w)
      /\ InvSet(w, IF t.tries + 1 < ReserveMaxRetries
                   THEN Task("read", t.cmd, t.tries + 1, 0, FALSE)
                   ELSE Answer(t.cmd, FALSE))
      /\ StockSame /\ UNCHANGED netVars

(* The transaction of ReleaseAtomic on the row of order o's product. *)
Refund(o) ==
  LET p == ProductOf[o]
  IN  /\ p \in catalogue
      /\ stock' = [stock EXCEPT ![p] = PutBack(@, QtyOf[o])]
      /\ releaseLogs' = Logged(releaseLogs, o)
      /\ UNCHANGED <<catalogue, reserveLogs, granted>>

ReleaseAtomic(w) ==
  /\ InvAt(w, "refund")
  /\ Refund(iw[w].cmd.order)
  /\ InvSet(w, Answer(iw[w].cmd, TRUE))
  /\ UNCHANGED netVars

(* No row affected: the product does not exist. *)
(* Mutant: RowsAffected is not looked at. *)
ReleaseNothing_Success(w) ==
  /\ InvAt(w, "refund")
  /\ ProductOf[iw[w].cmd.order] \notin catalogue
  /\ InvSet(w, Answer(iw[w].cmd, TRUE))
  /\ StockSame /\ UNCHANGED netVars

ReleaseNothing(w) ==
  /\ InvAt(w, "refund")
  /\ ProductOf[iw[w].cmd.order] \notin catalogue
  /\ InvSet(w, Answer(iw[w].cmd, FALSE))
  /\ StockSame /\ UNCHANGED netVars

(* ReleaseAtomic returns an error, whether or not it committed: unlike any  *)
(* other error this one is published as a verdict.                          *)
ReleaseError(w) ==
  /\ InvAt(w, "refund")
  /\ Fault
  /\ Refund(iw[w].cmd.order) \/ StockSame
  /\ InvSet(w, Answer(iw[w].cmd, FALSE))
  /\ UNCHANGED queue

(* publishReserved and publishReleased, under a new message id. *)
(* Mutant: the event always says Success.                       *)
VerdictKind(cmd) == IF cmd.kind = "Reserve" THEN "Reserved" ELSE "Released"

Verdict_Success(cmd, ok, id) == Event(VerdictKind(cmd), cmd.order, TRUE, id)

Verdict(cmd, ok, id) == Event(VerdictKind(cmd), cmd.order, ok, id)

PublishVerdict(w, id) ==
  /\ InvAt(w, "answer")
  /\ Publish(Verdict(iw[w].cmd, iw[w].ok, id))
  /\ InvSet(w, InvFree)
  /\ StockSame /\ NoFault

(* The verdict is out, yet the confirm is lost or the process dies before   *)
(* the Ack: the command will be handled again.                              *)
PublishUnconfirmed(w, id) ==
  /\ InvAt(w, "answer")
  /\ queue' = queue \cup {Verdict(iw[w].cmd, iw[w].ok, id), iw[w].cmd}
  /\ InvSet(w, InvFree)
  /\ StockSame /\ Fault

InvFault(w) ==
  /\ InvBusy(w)
  /\ \/ Requeued(iw[w].cmd) /\ InvSet(w, InvFree)
     \/ Parked /\ InvSet(w, InvFree)
     \/ Redelivered(iw[w].cmd) /\ UNCHANGED iw
  /\ StockSame

-----------------------------------------------------------------------------
(* POST /inventory and PUT /inventory/:product_id; the PUT overwrites       *)
(* available_qty and leaves the version as it is.                           *)
(* Mutant: the whole row is saved.                                          *)
CreateSKU(p, q) ==
  /\ p \notin catalogue
  /\ catalogue' = catalogue \cup {p}
  /\ stock' = [stock EXCEPT ![p] = Row(q, 0, 0)]
  /\ granted' = [granted EXCEPT ![p] = q]
  /\ UNCHANGED <<reserveLogs, releaseLogs, iw>> /\ UNCHANGED netVars

Corrected_Saved(s, q) == Row(q, 0, s.version)

Corrected(s, q) == Row(q, s.reserved, s.version)

UpdateAvailableQty(p, q) ==
  /\ p \in catalogue
  /\ stock' = [stock EXCEPT ![p] = Corrected(@, q)]
  /\ granted' = [granted EXCEPT ![p] = @ + q - stock[p].available]
  /\ UNCHANGED <<catalogue, reserveLogs, releaseLogs, iw>> /\ UNCHANGED netVars

Admin == \E p \in Products, q \in AdminQty : CreateSKU(p, q) \/ UpdateAvailableQty(p, q)

InvWork(w) ==
  \/ \E o \in Orders : CheckReserve(w, o) \/ CheckRelease(w, o)
  \/ ReadStock(w) \/ ReadNothing(w)
  \/ ReserveAtomic(w) \/ LockConflict(w)
  \/ ReleaseAtomic(w) \/ ReleaseNothing(w)

InvPublish(w, id) == PublishVerdict(w, id) \/ PublishUnconfirmed(w, id)

-----------------------------------------------------------------------------
(* The service on its own: any command may arrive at any time. *)
CommandArrives(c) == Publish(c) /\ NoFault /\ UNCHANGED invVars

InventoryNext ==
  \/ \E c \in InventoryCmds : CommandArrives(c)
  \/ \E w \in InvWorkers :
       \/ InvWork(w) \/ ReleaseError(w) \/ InvFault(w)
       \/ \E id \in EventIds : InvPublish(w, id)
  \/ Admin

InventoryAlone == TransportInit /\ InventoryInit

InventorySpec == InventoryAlone /\ [][InventoryNext]_<<netVars, invVars>>

-----------------------------------------------------------------------------
(* Properties *)

Reserved(o) == reserveLogs[o] > 0
Released(o) == releaseLogs[o] > 0

(* What the log says orders hold of product p. *)
OrdersFor(p)   == {o \in Orders : ProductOf[o] = p}
Holding        == [o \in Orders |-> QtyOf[o] * (reserveLogs[o] - releaseLogs[o])]
Outstanding(p) == SumFunctionOnSet(Holding, OrdersFor(p))

(* No unit is sold twice or lost: what is available is what was granted     *)
(* less what the log says is out, through every race of reserves, releases,*)
(* duplicates and administrator's corrections.                              *)
StockConserved == \A p \in Products : stock[p].available = granted[p] - Outstanding(p)

(* reserved_qty never falls short of the log (GREATEST may make it exceed). *)
ReservedCoversLog == \A p \in Products : stock[p].reserved >= Outstanding(p)

(* A verdict of success, on its way or about to be published, is backed by  *)
(* a committed log row: no phantom reservation and no phantom release.      *)
Backed(kind, o) == IF kind \in {"Reserve", "Reserved"} THEN Reserved(o) ELSE Released(o)

SuccessIsLogged ==
  /\ \A w \in InvWorkers : InvAt(w, "answer") /\ iw[w].ok => Backed(iw[w].cmd.kind, iw[w].cmd.order)
  /\ \A m \in queue \cap Events :
       m.kind \in {"Reserved", "Released"} /\ m.ok => Backed(m.kind, m.order)

(* The check of the log is not atomic with the insert, so concurrent copies *)
(* of a command may all reserve; but no more of them than there are         *)
(* workers, since a row once committed stops every later check.             *)
DoubleReserveBound == \A o \in Orders : reserveLogs[o] <= Cardinality(InvWorkers)

(* The same of releases, although an error of ReleaseAtomic may hide that   *)
(* the transaction committed and the command may come again.                *)
DoubleReleaseBound == \A o \in Orders : releaseLogs[o] <= Cardinality(InvWorkers)

(* "inventory_logs unique on (order_id, action) so reserve/release is safe  *)
(* to re-deliver" (README).                                                 *)
ReserveOnce == \A o \in Orders : reserveLogs[o] <= 1
=============================================================================
