--------------------------- MODULE DeliveryProofs ---------------------------
(***************************************************************************)
(* Theorems about Delivery and their proofs: types, the promise that       *)
(* nothing is lost, and that the dead-letter queue is used for a reason.   *)
(***************************************************************************)
EXTENDS Delivery, TLAPS

-----------------------------------------------------------------------------
(* Type correctness.  A worker about to retry has budget left. *)

BudgetLeft ==
  \A w \in Workers : At(w, "retry") => worker[w].d.retries < MaxRetries

TypeInv == DeliveryTypeOK /\ BudgetLeft

CopyType == [at : Places, d : Bodies] \cup {NoCopy}
HeldType == [pc : Pcs, c : Copies, d : Bodies, live : BOOLEAN]

LEMMA StoredType ==
  ASSUME NEW at \in Places, NEW d \in Bodies
  PROVE  Stored(at, d) \in [at : Places, d : Bodies]
  BY DEF Stored

(* A record of the broker that is not the empty one is stored somewhere. *)
LEMMA CopyShape ==
  ASSUME DeliveryTypeOK, NEW c \in Copies, copy[c].at # "none"
  PROVE  copy[c] \in [at : Places, d : Bodies]
  BY DEF DeliveryTypeOK, NoCopy

LEMMA HeldShape ==
  ASSUME DeliveryTypeOK, NEW w \in Workers, worker[w].pc # "idle"
  PROVE  worker[w] \in HeldType
  BY DEF DeliveryTypeOK, Idle, HeldType

LEMMA RequeuedType ==
  ASSUME DeliveryTypeOK
  PROVE  Requeued \in [Copies -> CopyType]
<1>1. ASSUME NEW c \in Copies
      PROVE  (IF copy[c].at = "unacked" THEN Stored("ready", copy[c].d) ELSE copy[c]) \in CopyType
  <2>1. CASE copy[c].at = "unacked"
    BY <2>1, CopyShape, StoredType DEF Places, CopyType
  <2>2. CASE copy[c].at # "unacked"
    BY <2>2 DEF DeliveryTypeOK, CopyType
  <2> QED BY <2>1, <2>2
<1> QED BY <1>1 DEF Requeued

LEMMA UnliveType ==
  ASSUME DeliveryTypeOK
  PROVE  Unlive \in [Workers -> HeldType \cup {Idle}]
<1>1. ASSUME NEW w \in Workers
      PROVE  (IF worker[w] = Idle THEN Idle ELSE [worker[w] EXCEPT !.live = FALSE])
               \in HeldType \cup {Idle}
  BY DEF DeliveryTypeOK, HeldType
<1> QED BY <1>1 DEF Unlive

LEMMA RepublishedType ==
  ASSUME TypeInv, DeliveryAssumption, NEW w \in Workers, worker[w].pc \in {"retry", "dead"}
  PROVE  Republished(w) \in [at : Places, d : Bodies]
<1>1. worker[w] \in HeldType
  BY HeldShape DEF TypeInv
<1>2. worker[w].d.retries \in Nat /\ MaxRetries \in Nat
  BY <1>1 DEF HeldType, Bodies, DeliveryAssumption
<1>3. CASE At(w, "retry")
  BY <1>1, <1>2, <1>3, StoredType DEF Republished, TypeInv, BudgetLeft, HeldType, Bodies, Body, Places
<1>4. CASE ~ At(w, "retry")
  BY <1>1, <1>2, <1>4, StoredType DEF Republished, HeldType, Bodies, Body, Places
<1> QED BY <1>3, <1>4

LEMMA TypeInit ==
  ASSUME DeliveryAssumption, DeliveryInit
  PROVE  TypeInv
<1>1. DeliveryTypeOK
  <2>1. attempts \in [Msgs -> 0 .. PublishAttempts] /\ failures \in [Msgs -> 0 .. MaxRetries + 1]
    BY DEF DeliveryInit, DeliveryAssumption
  <2>2. faults \in 0 .. MaxFaults
    BY DEF DeliveryInit, DeliveryAssumption
  <2> QED BY <2>1, <2>2 DEF DeliveryInit, DeliveryTypeOK
<1>2. BudgetLeft
  BY DEF DeliveryInit, BudgetLeft, At, Idle
<1> QED BY <1>1, <1>2 DEF TypeInv

(* Steps of the broker, of publishers and of the script leave the workers   *)
(* alone; what they store is well formed.                                   *)
LEMMA TypeBroker ==
  ASSUME TypeInv, DeliveryAssumption,
         Publishes \/ Script \/ \E c \in Copies : Expire(c)
  PROVE  TypeInv'
<1> USE DEF TypeInv, vars, process, publisher, histories
<1>1. UNCHANGED worker /\ UNCHANGED process
  BY DEF Publishes, Script, PublishConfirmed, PublishUnconfirmed, GetBatch, Redrive, ScriptFails, Expire
<1>2. BudgetLeft'
  BY <1>1 DEF BudgetLeft, At
<1>3. ASSUME NEW m \in Msgs, NEW n \in Copies, PublishConfirmed(m, n)
      PROVE  DeliveryTypeOK'
  <2>1. Stored("ready", Body(m, 0, "own")) \in CopyType
    BY StoredType DEF Body, Bodies, Places, CopyType, DeliveryAssumption
  <2> QED BY <1>3, <2>1 DEF PublishConfirmed, Routed, Dropped, Put, DeliveryTypeOK, CopyType
<1>4. ASSUME NEW m \in Msgs, NEW n \in Copies, PublishUnconfirmed(m, n)
      PROVE  DeliveryTypeOK'
  <2>1. Stored("ready", Body(m, 0, "own")) \in CopyType
    BY StoredType DEF Body, Bodies, Places, CopyType, DeliveryAssumption
  <2>2. attempts' \in [Msgs -> 0 .. PublishAttempts] /\ faults' \in 0 .. MaxFaults
    BY <1>4 DEF PublishUnconfirmed, MayPublish, Fault, DeliveryTypeOK, DeliveryAssumption
  <2> QED BY <1>4, <2>1, <2>2 DEF PublishUnconfirmed, Routed, Put, DeliveryTypeOK, CopyType
<1>5. CASE GetBatch
  <2>1. ASSUME NEW c \in Copies, c \in InDlq
        PROVE  Stored("script", copy[c].d) \in CopyType /\ copy[c].d.msg \in Msgs
    BY <2>1, CopyShape, StoredType DEF InDlq, Places, CopyType, Bodies
  <2>2. copy' \in [Copies -> CopyType]
    BY <1>5, <2>1 DEF GetBatch, DeliveryTypeOK, CopyType
  <2>3. redriven' \subseteq Msgs
    BY <1>5, <2>1 DEF GetBatch, DeliveryTypeOK, InDlq
  <2> QED BY <1>2, <1>5, <2>2, <2>3 DEF GetBatch, DeliveryTypeOK, CopyType
<1>6. ASSUME NEW c \in Copies, Redrive(c)
      PROVE  DeliveryTypeOK'
  <2>1. copy[c] \in [at : Places, d : Bodies]
    BY <1>6, CopyShape DEF Redrive, InScript
  <2>2. Stored("ready", Body(copy[c].d.msg, 0, copy[c].d.key)) \in CopyType
    BY <2>1, StoredType DEF Body, Bodies, Places, CopyType, DeliveryAssumption
  <2>3. copy' \in [Copies -> CopyType]
    BY <1>6, <2>2 DEF Redrive, DeliveryTypeOK, CopyType
  <2> QED BY <1>6, <2>3 DEF Redrive, DeliveryTypeOK, CopyType
<1>7. CASE ScriptFails
  <2>1. copy' \in [Copies -> CopyType] /\ faults' \in 0 .. MaxFaults
    BY <1>7 DEF ScriptFails, DeliveryTypeOK, CopyType, Fault, DeliveryAssumption
  <2> QED BY <1>2, <1>7, <2>1 DEF ScriptFails, DeliveryTypeOK, CopyType
<1>8. ASSUME NEW c \in Copies, Expire(c)
      PROVE  DeliveryTypeOK'
  <2>1. copy[c] \in [at : Places, d : Bodies]
    BY <1>8, CopyShape DEF Expire
  <2>2. [copy[c] EXCEPT !.at = "ready"] \in CopyType
    BY <2>1 DEF Places, CopyType
  <2>3. copy' \in [Copies -> CopyType]
    BY <1>8, <2>2 DEF Expire, DeliveryTypeOK, CopyType
  <2> QED BY <1>8, <2>3 DEF Expire, DeliveryTypeOK, CopyType
<1> QED BY <1>2, <1>3, <1>4, <1>5, <1>6, <1>7, <1>8 DEF Publishes, Script

(* Steps of the service itself: whatever a worker still holds it holds in   *)
(* the same place of its code.                                              *)
LEMMA TypeLifecycle ==
  ASSUME TypeInv, DeliveryAssumption, Lifecycle
  PROVE  TypeInv'
<1> USE DEF TypeInv
<1>1. /\ bound' \in BOOLEAN
      /\ consumer' \in {"down", "open", "closed", "stopped"}
      /\ cancelled' \in BOOLEAN
      /\ faults' \in 0 .. MaxFaults
  <2>1. faults' = faults \/ (faults < MaxFaults /\ faults' = faults + 1)
    BY DEF Lifecycle, Start, DropChannel, Reconnect, Stop, CloseChannel, Exit, Crash, ProcessEnds,
           Fault, NoFault
  <2>2. /\ bound' \in {bound, TRUE}
        /\ consumer' \in {consumer, "down", "open", "closed", "stopped"}
        /\ cancelled' \in {cancelled, FALSE, TRUE}
    BY DEF Lifecycle, Start, DropChannel, Reconnect, Stop, CloseChannel, Exit, Crash, ProcessEnds,
           process
  <2>3. faults' \in 0 .. MaxFaults
    BY <2>1 DEF DeliveryTypeOK, DeliveryAssumption
  <2>4. bound' \in BOOLEAN /\ cancelled' \in BOOLEAN
    BY <2>2 DEF DeliveryTypeOK
  <2> QED BY <2>2, <2>3, <2>4 DEF DeliveryTypeOK
<1>2. UNCHANGED <<attempts, confirmed, accepted, handled, failures, panicked, redriven>>
  BY DEF Lifecycle, Start, DropChannel, Reconnect, Stop, CloseChannel, Exit, Crash, ProcessEnds,
         publisher, histories
<1>3. copy' \in [Copies -> CopyType]
  <2>1. copy' \in {copy, Requeued}
    BY DEF Lifecycle, Start, DropChannel, Reconnect, Stop, CloseChannel, Exit, Crash, ProcessEnds,
           ChannelCloses
  <2> QED BY <2>1, RequeuedType DEF DeliveryTypeOK, CopyType
<1>4. worker' \in {worker, Unlive, [w \in Workers |-> Idle]}
  BY DEF Lifecycle, Start, DropChannel, Reconnect, Stop, CloseChannel, Exit, Crash, ProcessEnds,
         ChannelCloses
<1>5. worker' \in [Workers -> HeldType \cup {Idle}]
  BY <1>4, UnliveType DEF DeliveryTypeOK, HeldType
<1>6. ASSUME NEW w \in Workers, worker'[w].pc = "retry"
      PROVE  worker'[w].d.retries < MaxRetries
  <2>1. CASE worker' = worker
    BY <2>1, <1>6 DEF BudgetLeft, At
  <2>2. CASE worker' = Unlive
    <3>1. worker'[w] = IF worker[w] = Idle THEN Idle ELSE [worker[w] EXCEPT !.live = FALSE]
      BY <2>2 DEF Unlive
    <3>2. worker[w] # Idle
      BY <3>1, <1>6 DEF Idle
    <3>3. worker[w] \in HeldType
      BY <3>2 DEF DeliveryTypeOK, HeldType
    <3>4. worker'[w].pc = worker[w].pc /\ worker'[w].d = worker[w].d
      BY <3>1, <3>2, <3>3 DEF HeldType
    <3> QED BY <3>4, <1>6 DEF BudgetLeft, At
  <2>3. CASE worker' = [v \in Workers |-> Idle]
    BY <2>3, <1>6 DEF Idle
  <2> QED BY <1>4, <2>1, <2>2, <2>3
<1>7. BudgetLeft'
  BY <1>6 DEF BudgetLeft, At
<1> QED BY <1>1, <1>2, <1>3, <1>5, <1>7 DEF DeliveryTypeOK, CopyType, HeldType

(* A worker that takes a step in dispatchMsg goes to one place, and the     *)
(* others stay where they are.                                              *)
LEMMA OneWorker ==
  ASSUME TypeInv, NEW w \in Workers, NEW h \in HeldType \cup {Idle},
         worker' = [worker EXCEPT ![w] = h],
         h.pc = "retry" => h.d.retries < MaxRetries
  PROVE  /\ worker' \in [Workers -> HeldType \cup {Idle}]
         /\ BudgetLeft'
<1>1. \A v \in Workers : worker'[v] = IF v = w THEN h ELSE worker[v]
  BY DEF TypeInv, DeliveryTypeOK
<1>2. worker' \in [Workers -> HeldType \cup {Idle}]
  BY DEF TypeInv, DeliveryTypeOK, HeldType
<1>3. ASSUME NEW v \in Workers, worker'[v].pc = "retry"
      PROVE  worker'[v].d.retries < MaxRetries
  BY <1>1, <1>3 DEF TypeInv, BudgetLeft, At
<1> QED BY <1>2, <1>3 DEF BudgetLeft, At

(* One place to another, with the delivery in hand. *)
LEMMA GotoHeld ==
  ASSUME TypeInv, NEW w \in Workers, worker[w].pc # "idle", NEW pc \in Pcs,
         Goto(w, pc), pc = "retry" => worker[w].d.retries < MaxRetries
  PROVE  /\ worker' \in [Workers -> HeldType \cup {Idle}]
         /\ BudgetLeft'
<1>1. worker[w] \in HeldType
  BY HeldShape DEF TypeInv
<1>2. [worker[w] EXCEPT !.pc = pc] \in HeldType
  BY <1>1 DEF HeldType
<1>3. worker' = [worker EXCEPT ![w] = [worker[w] EXCEPT !.pc = pc]]
  BY DEF Goto
<1>4. [worker[w] EXCEPT !.pc = pc].pc = pc /\ [worker[w] EXCEPT !.pc = pc].d = worker[w].d
  BY <1>1 DEF HeldType
<1> QED BY <1>2, <1>3, <1>4, OneWorker

LEMMA TypeDispatch ==
  ASSUME TypeInv, DeliveryAssumption, NEW w \in Workers, Dispatch(w)
  PROVE  TypeInv'
<1> USE DEF TypeInv
<1>0. DeliveryTypeOK'
        <=> /\ copy' \in [Copies -> CopyType]
            /\ worker' \in [Workers -> HeldType \cup {Idle}]
            /\ handled' \subseteq Msgs
            /\ failures' \in [Msgs -> 0 .. MaxRetries + 1]
            /\ panicked' \subseteq Msgs
            /\ faults' \in 0 .. MaxFaults
  <2>1. UNCHANGED <<bound, consumer, cancelled, attempts, confirmed, accepted, redriven>>
    BY DEF Dispatch, HandlerReturns, HandlerFails, HandlerPanics, Finish, Ack, NackRequeue, Reject,
           Settle, Deliver, Republish, RepublishFails, process, publisher, histories
  <2> QED BY <2>1 DEF DeliveryTypeOK, CopyType, HeldType
<1>1. CASE HandlerReturns(w)
  <2>1. worker[w] \in HeldType /\ Message(w) \in Msgs
    BY <1>1, HeldShape DEF HandlerReturns, At, HeldType, Bodies, Message
  <2>2. worker' \in [Workers -> HeldType \cup {Idle}] /\ BudgetLeft'
    BY <1>1, GotoHeld DEF HandlerReturns, At, Pcs
  <2>3. handled' \subseteq Msgs
    BY <1>1, <2>1 DEF HandlerReturns, DeliveryTypeOK
  <2> QED BY <1>0, <1>1, <2>2, <2>3 DEF HandlerReturns, DeliveryTypeOK, CopyType
<1>2. CASE HandlerFails(w)
  <2>1. worker[w] \in HeldType /\ Message(w) \in Msgs
    BY <1>2, HeldShape DEF HandlerFails, At, HeldType, Bodies, Message
  <2>2. PICK pc \in {"retry", "dead"} :
          pc = Decide(Message(w) \in Malformed, worker[w].d.retries)
    BY DEF Decide
  <2>3. worker[w].d.retries \in Nat /\ MaxRetries \in Nat
    BY <2>1 DEF HeldType, Bodies, DeliveryAssumption
  <2>4. pc = "retry" => worker[w].d.retries < MaxRetries
    BY <2>2, <2>3 DEF Decide
  <2>5. worker' \in [Workers -> HeldType \cup {Idle}] /\ BudgetLeft'
    BY <1>2, <2>2, <2>4, GotoHeld DEF HandlerFails, At, Pcs
  <2>6. failures' \in [Msgs -> 0 .. MaxRetries + 1]
    BY <1>2, <2>1, <2>3 DEF HandlerFails, DeliveryTypeOK
  <2> QED BY <1>0, <1>2, <2>5, <2>6 DEF HandlerFails, DeliveryTypeOK, CopyType
<1>3. CASE HandlerPanics(w)
  <2>1. worker[w] \in HeldType /\ Message(w) \in Msgs
    BY <1>3, HeldShape DEF HandlerPanics, At, HeldType, Bodies, Message
  <2>2. worker' \in [Workers -> HeldType \cup {Idle}] /\ BudgetLeft'
    BY <1>3, GotoHeld DEF HandlerPanics, At, Pcs
  <2>3. panicked' \subseteq Msgs /\ faults' \in 0 .. MaxFaults
    BY <1>3, <2>1 DEF HandlerPanics, DeliveryTypeOK, Fault, DeliveryAssumption
  <2> QED BY <1>0, <1>3, <2>2, <2>3 DEF HandlerPanics, DeliveryTypeOK, CopyType
<1>4. CASE Finish(w)
  <2>1. PICK next : /\ next \in {NoCopy, Stored("ready", worker[w].d),
                                 Stored("dlq", [worker[w].d EXCEPT !.key = "dlq"])}
                    /\ worker[w].pc \in {"ack", "requeue", "reject"}
                    /\ Settle(w, next)
    BY <1>4 DEF Finish, Ack, NackRequeue, Reject, At
  <2>2. worker[w] \in HeldType
    BY <2>1, HeldShape
  <2>3. [worker[w].d EXCEPT !.key = "dlq"] \in Bodies /\ worker[w].d \in Bodies
    BY <2>2 DEF HeldType, Bodies
  <2>4. next \in CopyType
    BY <2>1, <2>3, StoredType DEF CopyType, Places
  <2>5. copy' \in [Copies -> CopyType]
    BY <2>1, <2>2, <2>4 DEF Settle, DeliveryTypeOK, CopyType, HeldType
  <2>6. worker' \in [Workers -> HeldType \cup {Idle}] /\ BudgetLeft'
    BY <2>1, OneWorker DEF Settle, Set, Idle
  <2> QED BY <1>0, <2>1, <2>5, <2>6 DEF Settle, histories, DeliveryTypeOK
<1>5. ASSUME NEW c \in Copies, Deliver(w, c)
      PROVE  TypeInv'
  <2>1. copy[c] \in [at : Places, d : Bodies]
    BY <1>5, CopyShape DEF Deliver
  <2>2. Held("work", c, copy[c].d, TRUE) \in HeldType
    BY <2>1 DEF Held, HeldType, Pcs
  <2>3. worker' \in [Workers -> HeldType \cup {Idle}] /\ BudgetLeft'
    BY <1>5, <2>2, OneWorker DEF Deliver, Set, Held
  <2>4. [copy[c] EXCEPT !.at = "unacked"] \in CopyType
    BY <2>1 DEF CopyType, Places
  <2>5. copy' \in [Copies -> CopyType]
    BY <1>5, <2>4 DEF Deliver, DeliveryTypeOK, CopyType
  <2> QED BY <1>0, <1>5, <2>3, <2>5 DEF Deliver, histories, DeliveryTypeOK
<1>6. ASSUME NEW n \in Copies, Republish(w, n) \/ RepublishFails(w, n)
      PROVE  TypeInv'
  <2>1. worker[w].pc \in {"retry", "dead"}
    BY <1>6 DEF Republish, RepublishFails
  <2>2. Republished(w) \in CopyType
    BY <2>1, RepublishedType DEF CopyType
  <2>3. copy' \in [Copies -> CopyType]
    BY <1>6, <2>2 DEF Republish, RepublishFails, Put, DeliveryTypeOK, CopyType
  <2>4. PICK pc \in {"ack", "requeue", "reject"} : Goto(w, pc)
    BY <1>6 DEF Republish, RepublishFails
  <2>5. worker' \in [Workers -> HeldType \cup {Idle}] /\ BudgetLeft'
    BY <2>1, <2>4, GotoHeld DEF Pcs
  <2>6. faults' \in 0 .. MaxFaults
    BY <1>6 DEF Republish, RepublishFails, Fault, NoFault, DeliveryTypeOK, DeliveryAssumption
  <2> QED BY <1>0, <1>6, <2>3, <2>5, <2>6 DEF Republish, RepublishFails, histories, DeliveryTypeOK
<1> QED BY <1>1, <1>2, <1>3, <1>4, <1>5, <1>6 DEF Dispatch

LEMMA TypeStep ==
  ASSUME TypeInv, DeliveryAssumption, [DeliveryNext]_vars
  PROVE  TypeInv'
<1>1. CASE Lifecycle
  BY <1>1, TypeLifecycle
<1>2. CASE Publishes \/ Script \/ \E c \in Copies : Expire(c)
  BY <1>2, TypeBroker
<1>3. CASE \E w \in Workers : Dispatch(w)
  BY <1>3, TypeDispatch
<1>4. CASE UNCHANGED vars
  BY <1>4 DEF TypeInv, DeliveryTypeOK, BudgetLeft, At, vars, process, publisher, histories
<1> QED BY <1>1, <1>2, <1>3, <1>4 DEF DeliveryNext

(* The broker, the workers and the counters stay within their types; no     *)
(* delivery counts more retries than the budget, for any budget.            *)
THEOREM DeliveryTypeCorrect == DeliverySpec => []DeliveryTypeOK
<1>1. DeliverySpec => []TypeInv
  BY TypeInit, TypeStep, DeliveryAssumption, PTL DEF DeliverySpec
<1>2. TypeInv => DeliveryTypeOK
  BY DEF TypeInv
<1> QED BY <1>1, <1>2, PTL

-----------------------------------------------------------------------------
(* Every copy at the broker, and every delivery a worker holds, is backed   *)
(* by the history: its message was accepted, its count is at most the       *)
(* failures there were, and what is buried deserves it.                     *)

Deserved(m) ==
  m \in Malformed \/ m \in panicked \/ m \in redriven \/ failures[m] > MaxRetries

Backed(at, d) ==
  /\ d.msg \in accepted
  /\ d.retries <= failures[d.msg]
  /\ at = "dlq" => Deserved(d.msg)
  /\ at = "script" => d.msg \in redriven
  /\ at # "dlq" /\ d.key = "dlq" => d.msg \in redriven

CopiesBacked == \A c \in Copies : copy[c].at # "none" => Backed(copy[c].at, copy[c].d)

HandsBacked ==
  \A w \in Workers : worker[w].pc # "idle" =>
    /\ Backed("unacked", worker[w].d)
    /\ worker[w].pc = "retry" => worker[w].d.retries < failures[worker[w].d.msg]
    /\ worker[w].pc \in {"dead", "reject"} => Deserved(worker[w].d.msg)

(* A worker with a live delivery works on a copy that waits for it alone.   *)
Live(w) == worker[w].pc # "idle" /\ worker[w].live = TRUE

Linked ==
  /\ \A w \in Workers :
       Live(w) => copy[worker[w].c].at = "unacked" /\ copy[worker[w].c].d = worker[w].d
  /\ \A v, w \in Workers : Live(v) /\ Live(w) /\ worker[v].c = worker[w].c => v = w

Inv == TypeInv /\ CopiesBacked /\ HandsBacked /\ Linked

(* The history only grows. *)
Grows ==
  /\ accepted \subseteq accepted' /\ handled \subseteq handled'
  /\ panicked \subseteq panicked' /\ redriven \subseteq redriven'
  /\ \A m \in Msgs : failures[m] <= failures'[m]

LEMMA HistoryGrows ==
  ASSUME TypeInv, DeliveryAssumption, [DeliveryNext]_vars
  PROVE  Grows
<1>1. accepted \subseteq accepted' /\ handled \subseteq handled' /\ panicked \subseteq panicked'
      /\ redriven \subseteq redriven'
  BY DEF DeliveryNext, Lifecycle, Start, DropChannel, Reconnect, Stop, CloseChannel, Exit, Crash,
         ProcessEnds, Publishes, PublishConfirmed, PublishUnconfirmed, Routed, Dropped, Script,
         GetBatch, Redrive, ScriptFails, Expire, Dispatch, HandlerReturns, HandlerFails,
         HandlerPanics, Finish, Ack, NackRequeue, Reject, Settle, Deliver, Republish,
         RepublishFails, vars, histories
<1>2. ASSUME NEW m \in Msgs
      PROVE  failures[m] <= failures'[m]
  <2>1. failures[m] \in Nat
    BY DEF TypeInv, DeliveryTypeOK
  <2>2. CASE failures' = failures
    BY <2>1, <2>2
  <2>3. ASSUME NEW w \in Workers, HandlerFails(w)
        PROVE  failures[m] <= failures'[m]
    BY <2>1, <2>3 DEF HandlerFails, TypeInv, DeliveryTypeOK
  <2>4. failures' = failures \/ \E w \in Workers : HandlerFails(w)
    BY DEF DeliveryNext, Lifecycle, Start, DropChannel, Reconnect, Stop, CloseChannel, Exit, Crash,
           ProcessEnds, Publishes, PublishConfirmed, PublishUnconfirmed, Script, GetBatch, Redrive,
           ScriptFails, Expire, Dispatch, HandlerReturns, HandlerPanics, Finish, Ack, NackRequeue,
           Reject, Settle, Deliver, Republish, RepublishFails, vars, histories
  <2> QED BY <2>2, <2>3, <2>4
<1> QED BY <1>1, <1>2 DEF Grows

LEMMA DeservedStays ==
  ASSUME TypeInv, TypeInv', DeliveryAssumption, Grows, NEW m \in Msgs, Deserved(m)
  PROVE  Deserved(m)'
<1>1. failures[m] \in Nat /\ failures'[m] \in Nat /\ MaxRetries \in Nat
  BY DEF TypeInv, DeliveryTypeOK, DeliveryAssumption
<1> QED BY <1>1 DEF Deserved, Grows

LEMMA BackedStays ==
  ASSUME TypeInv, TypeInv', DeliveryAssumption, Grows,
         NEW at, NEW d \in Bodies, Backed(at, d)
  PROVE  Backed(at, d)'
<1>1. d.msg \in Msgs /\ d.retries \in Nat
  BY DEF Bodies, DeliveryAssumption
<1>2. failures[d.msg] \in Nat /\ failures'[d.msg] \in Nat
  BY <1>1 DEF TypeInv, DeliveryTypeOK
<1>3. d.retries <= failures'[d.msg]
  BY <1>1, <1>2 DEF Backed, Grows
<1> QED BY <1>1, <1>3, DeservedStays DEF Backed, Grows

LEMMA CopyBecomes ==
  ASSUME TypeInv, TypeInv', DeliveryAssumption, Grows, NEW c \in Copies,
         NEW at, NEW d \in Bodies, Backed(at, d), copy'[c].at = at, copy'[c].d = d
  PROVE  Backed(copy[c].at, copy[c].d)'
<1>1. Backed(at, d)'
  BY BackedStays
<1> QED BY <1>1 DEF Backed, Deserved

LEMMA CopyUnchanged ==
  ASSUME Inv, TypeInv', DeliveryAssumption, Grows, NEW c \in Copies,
         copy[c].at # "none", copy'[c] = copy[c]
  PROVE  Backed(copy[c].at, copy[c].d)'
<1>1. PICK at, d : at = copy[c].at /\ d = copy[c].d
  OBVIOUS
<1>2. d \in Bodies /\ Backed(at, d)
  BY <1>1, CopyShape DEF Inv, TypeInv, CopiesBacked
<1> QED BY <1>1, <1>2, CopyBecomes DEF Inv

(* What a channel had delivered is backed when it is ready again. *)
LEMMA RequeuedBacked ==
  ASSUME Inv, TypeInv', DeliveryAssumption, Grows, copy' = Requeued
  PROVE  CopiesBacked'
<1>1. ASSUME NEW c \in Copies, copy'[c].at # "none"
      PROVE  Backed(copy[c].at, copy[c].d)'
  <2>0. copy'[c] = IF copy[c].at = "unacked" THEN Stored("ready", copy[c].d) ELSE copy[c]
    BY DEF Requeued
  <2>1. CASE copy[c].at # "unacked"
    BY <1>1, <2>0, <2>1, CopyUnchanged
  <2>2. CASE copy[c].at = "unacked"
    <3>1. PICK d : d = copy[c].d
      OBVIOUS
    <3>2. d \in Bodies /\ Backed("unacked", d)
      BY <2>2, <3>1, CopyShape DEF Inv, TypeInv, CopiesBacked
    <3>3. Backed("ready", d)
      BY <3>2 DEF Backed
    <3>4. copy'[c].at = "ready" /\ copy'[c].d = d
      BY <2>0, <2>2, <3>1 DEF Stored
    <3> QED BY <3>2, <3>3, <3>4, CopyBecomes DEF Inv
  <2> QED BY <2>1, <2>2
<1> QED BY <1>1 DEF CopiesBacked

(* A worker that stays where it is holds what it held. *)
LEMMA HandBecomes ==
  ASSUME TypeInv, TypeInv', DeliveryAssumption, Grows, NEW w \in Workers,
         NEW pc, NEW d \in Bodies, worker'[w].pc = pc, worker'[w].d = d,
         Backed("unacked", d),
         pc = "retry" => d.retries < failures'[d.msg],
         pc \in {"dead", "reject"} => Deserved(d.msg) \/ d.msg \in panicked' \/ failures'[d.msg] > MaxRetries
  PROVE  /\ Backed("unacked", worker[w].d)'
         /\ worker'[w].pc = "retry" => worker'[w].d.retries < failures'[worker'[w].d.msg]
         /\ worker'[w].pc \in {"dead", "reject"} => Deserved(worker[w].d.msg)'
<1>1. Backed("unacked", d)' /\ d.msg \in Msgs
  BY BackedStays DEF Bodies
<1>2. Deserved(d.msg) => Deserved(d.msg)'
  BY <1>1, DeservedStays
<1>3. pc \in {"dead", "reject"} => Deserved(d.msg)'
  BY <1>2 DEF Deserved
<1> QED BY <1>1, <1>3 DEF Backed, Deserved

LEMMA HandStays ==
  ASSUME Inv, TypeInv', DeliveryAssumption, Grows, NEW w \in Workers, worker[w].pc # "idle",
         worker'[w].pc = worker[w].pc, worker'[w].d = worker[w].d
  PROVE  /\ Backed("unacked", worker[w].d)'
         /\ worker'[w].pc = "retry" => worker'[w].d.retries < failures'[worker'[w].d.msg]
         /\ worker'[w].pc \in {"dead", "reject"} => Deserved(worker[w].d.msg)'
<1>1. PICK pc, d : pc = worker[w].pc /\ d = worker[w].d
  OBVIOUS
<1>2. /\ d \in Bodies /\ Backed("unacked", d)
      /\ pc = "retry" => d.retries < failures[d.msg]
      /\ pc \in {"dead", "reject"} => Deserved(d.msg)
  BY <1>1, HeldShape DEF Inv, TypeInv, HandsBacked, HeldType
<1>3. d.retries \in Nat /\ failures[d.msg] \in Nat /\ failures'[d.msg] \in Nat
      /\ failures[d.msg] <= failures'[d.msg]
  BY <1>2 DEF Bodies, DeliveryAssumption, Inv, TypeInv, DeliveryTypeOK, Grows
<1>4. pc = "retry" => d.retries < failures'[d.msg]
  BY <1>2, <1>3
<1>5. TypeInv
  BY DEF Inv
<1> QED BY <1>1, <1>2, <1>4, <1>5, HandBecomes

(* Initially there is nothing to back. *)
LEMMA InvInit ==
  ASSUME DeliveryAssumption, DeliveryInit
  PROVE  Inv
<1>1. \A c \in Copies : copy[c].at = "none"
  BY DEF DeliveryInit, NoCopy
<1>2. \A w \in Workers : worker[w].pc = "idle"
  BY DEF DeliveryInit, Idle
<1> QED BY <1>1, <1>2, TypeInit DEF Inv, CopiesBacked, HandsBacked, Linked, Live

(* The broker and the script do not touch a copy that a worker holds. *)
LEMMA InvBroker ==
  ASSUME Inv, TypeInv', DeliveryAssumption, Grows,
         Publishes \/ Script \/ \E c \in Copies : Expire(c)
  PROVE  Inv'
<1> USE DEF Inv
<1>1. UNCHANGED worker
  BY DEF Publishes, Script, PublishConfirmed, PublishUnconfirmed, GetBatch, Redrive, ScriptFails, Expire
<1>2. HandsBacked'
  BY <1>1, HandStays DEF HandsBacked
<1>3. ASSUME NEW c \in Copies, copy[c].at = "unacked"
      PROVE  copy'[c] = copy[c]
  BY <1>3 DEF Publishes, Script, PublishConfirmed, PublishUnconfirmed, Routed, Dropped, Put, NoCopy,
              GetBatch, Redrive, ScriptFails, Expire, InScript, InDlq, TypeInv, DeliveryTypeOK
<1>4. Linked'
  <2>1. \A w \in Workers : Live(w) => worker[w].c \in Copies
    BY HeldShape DEF TypeInv, Live, HeldType
  <2> QED BY <1>1, <1>3, <2>1 DEF Linked, Live
<1>5. ASSUME NEW m \in Msgs, NEW n \in Copies, PublishConfirmed(m, n) \/ PublishUnconfirmed(m, n),
             NEW c \in Copies, copy'[c].at # "none"
      PROVE  Backed(copy[c].at, copy[c].d)'
  <2>1. CASE copy'[c] = copy[c]
    BY <1>5, <2>1, CopyUnchanged
  <2>2. CASE copy'[c] # copy[c]
    <3>1. c = n /\ Routed(n, m)
      BY <1>5, <2>2 DEF PublishConfirmed, PublishUnconfirmed, Routed, Dropped, Put, TypeInv, DeliveryTypeOK
    <3>2. copy'[c].at = "ready" /\ copy'[c].d = Body(m, 0, "own") /\ m \in accepted'
      BY <3>1 DEF Routed, Put, Stored, TypeInv, DeliveryTypeOK
    <3>3. failures'[m] \in Nat
      BY DEF TypeInv, DeliveryTypeOK
    <3> QED BY <3>2, <3>3 DEF Backed, Body
  <2> QED BY <2>1, <2>2
<1>6. ASSUME GetBatch, NEW c \in Copies, copy'[c].at # "none"
      PROVE  Backed(copy[c].at, copy[c].d)'
  <2>0. copy'[c] = IF c \in InDlq THEN Stored("script", copy[c].d) ELSE copy[c]
    BY <1>6 DEF GetBatch
  <2>1. CASE c \notin InDlq
    BY <1>6, <2>0, <2>1, CopyUnchanged
  <2>2. CASE c \in InDlq
    <3>1. PICK d : d = copy[c].d
      OBVIOUS
    <3>2. d \in Bodies /\ Backed("dlq", d)
      BY <2>2, <3>1, CopyShape DEF TypeInv, CopiesBacked, InDlq
    <3>3. copy'[c].at = "script" /\ copy'[c].d = d /\ d.msg \in redriven'
      BY <1>6, <2>0, <2>2, <3>1 DEF Stored, GetBatch
    <3>4. Backed("dlq", d)'
      BY <3>2, BackedStays
    <3> QED BY <3>3, <3>4 DEF Backed
  <2> QED BY <2>1, <2>2
<1>7. ASSUME NEW k \in Copies, Redrive(k), NEW c \in Copies, copy'[c].at # "none"
      PROVE  Backed(copy[c].at, copy[c].d)'
  <2>1. CASE c # k
    <3>1. copy'[c] = copy[c]
      BY <1>7, <2>1 DEF Redrive, TypeInv, DeliveryTypeOK
    <3> QED BY <1>7, <3>1, CopyUnchanged
  <2>2. CASE c = k
    <3>1. PICK d, key : d = copy[c].d /\ key = copy[c].d.key
      OBVIOUS
    <3>2. d \in Bodies /\ Backed("script", d)
      BY <1>7, <2>2, <3>1, CopyShape DEF TypeInv, CopiesBacked, Redrive, InScript
    <3>3. copy'[c].at = "ready" /\ copy'[c].d = Body(d.msg, 0, key)
      BY <1>7, <2>2, <3>1 DEF Redrive, Stored, NoCopy, TypeInv, DeliveryTypeOK
    <3>4. Backed("script", d)'
      BY <3>2, BackedStays
    <3>5. failures'[d.msg] \in Nat
      BY <3>2 DEF TypeInv, DeliveryTypeOK, Bodies
    <3> QED BY <3>3, <3>4, <3>5 DEF Backed, Body
  <2> QED BY <2>1, <2>2
<1>8. ASSUME ScriptFails, NEW c \in Copies, copy'[c].at # "none"
      PROVE  Backed(copy[c].at, copy[c].d)'
  <2>1. copy'[c] = copy[c]
    BY <1>8 DEF ScriptFails, NoCopy
  <2> QED BY <1>8, <2>1, CopyUnchanged
<1>9. ASSUME NEW k \in Copies, Expire(k), NEW c \in Copies, copy'[c].at # "none"
      PROVE  Backed(copy[c].at, copy[c].d)'
  <2>1. CASE c # k
    <3>1. copy'[c] = copy[c]
      BY <1>9, <2>1 DEF Expire, TypeInv, DeliveryTypeOK
    <3> QED BY <1>9, <3>1, CopyUnchanged
  <2>2. CASE c = k
    <3>1. PICK d : d = copy[c].d
      OBVIOUS
    <3>2. d \in Bodies /\ Backed("delay", d) /\ copy[c] \in [at : Places, d : Bodies]
      BY <1>9, <2>2, <3>1, CopyShape DEF TypeInv, CopiesBacked, Expire
    <3>3. copy'[c].at = "ready" /\ copy'[c].d = d
      BY <1>9, <2>2, <3>1, <3>2 DEF Expire, TypeInv, DeliveryTypeOK
    <3>4. Backed("ready", d)
      BY <3>2 DEF Backed
    <3> QED BY <3>2, <3>3, <3>4, CopyBecomes
  <2> QED BY <2>1, <2>2
<1>10. CopiesBacked'
  BY <1>5, <1>6, <1>7, <1>8, <1>9 DEF CopiesBacked, Publishes, Script
<1> QED BY <1>2, <1>4, <1>10

(* When a channel closes, every delivery a worker still holds is dead. *)
LEMMA InvLifecycle ==
  ASSUME Inv, TypeInv', DeliveryAssumption, Grows, Lifecycle
  PROVE  Inv'
<1> USE DEF Inv
<1>1. \/ UNCHANGED <<copy, worker>>
      \/ copy' = Requeued /\ worker' = Unlive
      \/ copy' = Requeued /\ worker' = [w \in Workers |-> Idle]
  BY DEF Lifecycle, Start, DropChannel, Reconnect, Stop, CloseChannel, Exit, Crash, ProcessEnds,
         ChannelCloses
<1>2. CASE UNCHANGED <<copy, worker>>
  BY <1>2, CopyUnchanged, HandStays DEF CopiesBacked, HandsBacked, Linked, Live
<1>3. CASE copy' = Requeued /\ worker' = Unlive
  <2>1. ASSUME NEW w \in Workers, worker'[w].pc # "idle"
        PROVE  /\ worker[w].pc # "idle" /\ worker'[w].live = FALSE
               /\ worker'[w].pc = worker[w].pc /\ worker'[w].d = worker[w].d
    <3>1. worker'[w] = IF worker[w] = Idle THEN Idle ELSE [worker[w] EXCEPT !.live = FALSE]
      BY <1>3 DEF Unlive
    <3>2. worker[w] # Idle
      BY <3>1, <2>1 DEF Idle
    <3>3. worker[w] \in HeldType
      BY <3>2 DEF TypeInv, DeliveryTypeOK, HeldType
    <3> QED BY <3>1, <3>2, <3>3 DEF HeldType, Pcs
  <2>2. HandsBacked'
    BY <2>1, HandStays DEF HandsBacked
  <2>3. Linked'
    BY <2>1 DEF Linked, Live
  <2> QED BY <1>3, <2>2, <2>3, RequeuedBacked
<1>4. CASE copy' = Requeued /\ worker' = [w \in Workers |-> Idle]
  <2>1. \A w \in Workers : worker'[w].pc = "idle"
    BY <1>4 DEF Idle
  <2> QED BY <1>4, <2>1, RequeuedBacked DEF HandsBacked, Linked, Live
<1> QED BY <1>1, <1>2, <1>3, <1>4

(* A worker that goes on with its delivery, while copies that wait for a    *)
(* worker stay as they are.                                                 *)
LEMMA LinkedGoto ==
  ASSUME Inv, NEW w \in Workers, NEW pc \in Pcs, worker[w].pc # "idle", Goto(w, pc),
         \A c \in Copies : copy[c].at = "unacked" => copy'[c] = copy[c]
  PROVE  /\ worker'[w].pc = pc /\ worker'[w].d = worker[w].d
         /\ \A v \in Workers \ {w} : worker'[v] = worker[v]
         /\ Linked'
<1>1. worker[w] \in HeldType
  BY HeldShape DEF Inv, TypeInv
<1>2. /\ worker'[w].pc = pc /\ worker'[w].d = worker[w].d /\ worker'[w].c = worker[w].c
      /\ worker'[w].live = worker[w].live
      /\ \A v \in Workers \ {w} : worker'[v] = worker[v]
  BY <1>1 DEF Goto, HeldType, Inv, TypeInv, DeliveryTypeOK
<1>3. \A v \in Workers : Live(v)' => Live(v) /\ worker'[v].c = worker[v].c /\ worker'[v].d = worker[v].d
  BY <1>2 DEF Live
<1>4. \A v \in Workers : Live(v) => worker[v].c \in Copies
  BY HeldShape DEF Inv, TypeInv, Live, HeldType
<1> QED BY <1>2, <1>3, <1>4 DEF Inv, Linked

LEMMA InvReturns ==
  ASSUME Inv, TypeInv', DeliveryAssumption, Grows, NEW w \in Workers,
         HandlerReturns(w) \/ HandlerFails(w) \/ HandlerPanics(w)
  PROVE  Inv'
<1> USE DEF Inv
<1>1. UNCHANGED copy
  BY DEF HandlerReturns, HandlerFails, HandlerPanics
<1>2. CopiesBacked'
  BY <1>1, CopyUnchanged DEF CopiesBacked
<1>3. worker[w].pc = "work"
  BY DEF HandlerReturns, HandlerFails, HandlerPanics, At
<1>4. PICK d : d = worker[w].d
  OBVIOUS
<1>5. /\ worker[w] \in HeldType /\ d \in Bodies /\ d.msg \in Msgs /\ d.retries \in 0 .. MaxRetries
      /\ Backed("unacked", d) /\ Message(w) = d.msg
  BY <1>3, <1>4, HeldShape DEF TypeInv, HandsBacked, HeldType, Bodies, Message
<1>6. PICK pc \in Pcs :
        /\ Goto(w, pc)
        /\ pc = "retry" => d.retries < failures'[d.msg]
        /\ pc \in {"dead", "reject"} =>
             Deserved(d.msg) \/ d.msg \in panicked' \/ failures'[d.msg] > MaxRetries
  <2>1. CASE HandlerReturns(w)
    BY <2>1 DEF HandlerReturns, Pcs
  <2>2. CASE HandlerFails(w)
    <3>1. PICK pc \in {"retry", "dead"} : pc = Decide(Message(w) \in Malformed, worker[w].d.retries)
      BY DEF Decide
    <3>2. MaxRetries \in Nat /\ failures[d.msg] \in 0 .. MaxRetries + 1 /\ d.retries <= failures[d.msg]
      BY <1>5 DEF TypeInv, DeliveryTypeOK, DeliveryAssumption, Backed
    <3>3. failures'[d.msg] = IF failures[d.msg] <= MaxRetries THEN failures[d.msg] + 1 ELSE failures[d.msg]
      BY <2>2, <1>5 DEF HandlerFails, TypeInv, DeliveryTypeOK
    <3>4. pc = "retry" => d.retries < MaxRetries
      BY <3>1, <3>2, <1>4, <1>5 DEF Decide
    <3>5. pc = "dead" => d.msg \in Malformed \/ d.retries >= MaxRetries
      BY <3>1, <1>4, <1>5 DEF Decide
    <3>6. pc = "retry" => d.retries < failures'[d.msg]
      BY <3>2, <3>3, <3>4, <1>5
    <3>7. pc = "dead" => Deserved(d.msg) \/ failures'[d.msg] > MaxRetries
      BY <3>2, <3>3, <3>5, <1>5 DEF Deserved
    <3>8. Goto(w, pc)
      BY <2>2, <3>1 DEF HandlerFails
    <3> QED BY <3>1, <3>6, <3>7, <3>8 DEF Pcs
  <2>3. CASE HandlerPanics(w)
    BY <2>3, <1>5 DEF HandlerPanics, Pcs
  <2> QED BY <2>1, <2>2, <2>3
<1>7. /\ worker'[w].pc = pc /\ worker'[w].d = d
      /\ \A v \in Workers \ {w} : worker'[v] = worker[v]
      /\ Linked'
  BY <1>1, <1>3, <1>4, <1>6, LinkedGoto
<1>8. HandsBacked'
  BY <1>5, <1>6, <1>7, HandBecomes, HandStays DEF HandsBacked
<1> QED BY <1>2, <1>7, <1>8

(* What a worker republishes is backed: a retry by one more failure, a      *)
(* burial by its reason.                                                    *)
LEMMA RepublishedBacked ==
  ASSUME Inv, TypeInv', DeliveryAssumption, Grows, NEW w \in Workers,
         worker[w].pc \in {"retry", "dead"},
         NEW n \in Copies, Put(n, Republished(w)), NEW c \in Copies, copy'[c].at # "none"
  PROVE  Backed(copy[c].at, copy[c].d)'
<1> USE DEF Inv
<1>1. CASE c # n
  <2>1. copy'[c] = copy[c]
    BY <1>1 DEF Put, TypeInv, DeliveryTypeOK
  <2> QED BY <2>1, CopyUnchanged
<1>2. CASE c = n
  <2>1. PICK d : d = worker[w].d
    OBVIOUS
  <2>2. d \in Bodies /\ d.msg \in Msgs /\ d.retries \in Nat /\ Backed("unacked", d)
    BY <2>1, HeldShape DEF TypeInv, HandsBacked, HeldType, Bodies
  <2>3. copy'[c] = Republished(w)
    BY <1>2 DEF Put, TypeInv, DeliveryTypeOK
  <2>4. Republished(w) \in [at : Places, d : Bodies]
    BY RepublishedType
  <2>5. CASE worker[w].pc = "retry"
    <3>1. copy'[c].at = "delay" /\ copy'[c].d = Body(d.msg, d.retries + 1, "own")
      BY <2>1, <2>3, <2>5 DEF Republished, Stored, At
    <3>2. d.retries < failures[d.msg] /\ failures[d.msg] \in Nat
      BY <2>1, <2>2, <2>5 DEF HandsBacked, TypeInv, DeliveryTypeOK
    <3>3. Backed("delay", Body(d.msg, d.retries + 1, "own"))
      BY <2>2, <3>2 DEF Backed, Body
    <3>4. Body(d.msg, d.retries + 1, "own") \in Bodies
      BY <2>3, <2>4, <3>1
    <3> QED BY <3>1, <3>3, <3>4, CopyBecomes
  <2>6. CASE worker[w].pc = "dead"
    <3>1. copy'[c].at = "dlq" /\ copy'[c].d = Body(d.msg, d.retries, "dlq")
      BY <2>1, <2>3, <2>6 DEF Republished, Stored, At
    <3>2. Backed("dlq", Body(d.msg, d.retries, "dlq"))
      BY <2>1, <2>2, <2>6 DEF Backed, Body, HandsBacked
    <3>3. Body(d.msg, d.retries, "dlq") \in Bodies
      BY <2>3, <2>4, <3>1
    <3> QED BY <3>1, <3>2, <3>3, CopyBecomes
  <2> QED BY <2>5, <2>6
<1> QED BY <1>1, <1>2

LEMMA InvRepublish ==
  ASSUME Inv, TypeInv', DeliveryAssumption, Grows, NEW w \in Workers, NEW n \in Copies,
         Republish(w, n) \/ RepublishFails(w, n)
  PROVE  Inv'
<1> USE DEF Inv
<1>1. /\ worker[w].pc \in {"retry", "dead"}
      /\ UNCHANGED copy \/ Put(n, Republished(w))
  BY DEF Republish, RepublishFails
<1>2. CopiesBacked'
  <2>1. CASE UNCHANGED copy
    BY <2>1, CopyUnchanged DEF CopiesBacked
  <2>2. CASE Put(n, Republished(w))
    BY <1>1, <2>2, RepublishedBacked DEF CopiesBacked
  <2> QED BY <1>1, <2>1, <2>2
<1>3. PICK d : d = worker[w].d
  OBVIOUS
<1>4. /\ d \in Bodies /\ Backed("unacked", d)
      /\ worker[w].pc = "dead" => Deserved(d.msg)
  BY <1>1, <1>3, HeldShape DEF TypeInv, HandsBacked, HeldType
<1>5. PICK pc \in {"ack", "requeue", "reject"} :
        Goto(w, pc) /\ (pc = "reject" => worker[w].pc = "dead")
  BY <1>1 DEF Republish, RepublishFails, At
<1>6. \A c \in Copies : copy[c].at = "unacked" => copy'[c] = copy[c]
  BY <1>1 DEF Put, NoCopy, TypeInv, DeliveryTypeOK
<1>7. /\ worker'[w].pc = pc /\ worker'[w].d = d
      /\ \A v \in Workers \ {w} : worker'[v] = worker[v]
      /\ Linked'
  BY <1>1, <1>3, <1>5, <1>6, LinkedGoto DEF Pcs
<1>8. HandsBacked'
  BY <1>4, <1>5, <1>7, HandBecomes, HandStays DEF HandsBacked
<1> QED BY <1>2, <1>7, <1>8

LEMMA InvDeliver ==
  ASSUME Inv, TypeInv', DeliveryAssumption, Grows, NEW w \in Workers, NEW k \in Copies, Deliver(w, k)
  PROVE  Inv'
<1> USE DEF Inv
<1>1. PICK d : d = copy[k].d
  OBVIOUS
<1>2. copy[k] \in [at : Places, d : Bodies] /\ copy[k].at = "ready"
  BY CopyShape DEF Deliver, TypeInv
<1>3. d \in Bodies /\ Backed("ready", d)
  BY <1>1, <1>2 DEF CopiesBacked
<1>4. Backed("unacked", d)
  BY <1>3 DEF Backed
<1>5. /\ copy'[k].at = "unacked" /\ copy'[k].d = d
      /\ \A c \in Copies \ {k} : copy'[c] = copy[c]
  BY <1>1, <1>2 DEF Deliver, TypeInv, DeliveryTypeOK
<1>6. /\ worker'[w].pc = "work" /\ worker'[w].d = d /\ worker'[w].c = k
      /\ \A v \in Workers \ {w} : worker'[v] = worker[v]
  BY <1>1 DEF Deliver, Set, Held, TypeInv, DeliveryTypeOK
<1>7. CopiesBacked'
  <2>1. Backed(copy[k].at, copy[k].d)'
    BY <1>3, <1>4, <1>5, CopyBecomes
  <2>2. ASSUME NEW c \in Copies, c # k, copy'[c].at # "none"
        PROVE  Backed(copy[c].at, copy[c].d)'
    BY <1>5, <2>2, CopyUnchanged
  <2> QED BY <2>1, <2>2 DEF CopiesBacked
<1>8. HandsBacked'
  BY <1>3, <1>4, <1>6, HandBecomes, HandStays DEF HandsBacked
<1>9. \A v \in Workers \ {w} : Live(v)' => /\ Live(v) /\ worker'[v].c = worker[v].c
                                          /\ worker'[v].d = worker[v].d
                                          /\ worker[v].c \in Copies \ {k}
  <2>1. \A v \in Workers : Live(v) => worker[v].c \in Copies
    BY HeldShape DEF TypeInv, Live, HeldType
  <2> QED BY <1>2, <1>6, <2>1 DEF Live, Linked
<1>10. Linked'
  BY <1>5, <1>6, <1>9 DEF Linked
<1> QED BY <1>7, <1>8, <1>10

LEMMA InvFinish ==
  ASSUME Inv, TypeInv', DeliveryAssumption, Grows, NEW w \in Workers, Finish(w)
  PROVE  Inv'
<1> USE DEF Inv
<1>1. PICK d : d = worker[w].d
  OBVIOUS
<1>2. PICK next : /\ worker[w].pc \in {"ack", "requeue", "reject"}
                  /\ Settle(w, next)
                  /\ \/ next = NoCopy
                     \/ next = Stored("ready", d)
                     \/ worker[w].pc = "reject" /\ next = Stored("dlq", [d EXCEPT !.key = "dlq"])
  BY <1>1 DEF Finish, Ack, NackRequeue, Reject, At
<1>3. worker[w] \in HeldType /\ d \in Bodies /\ worker[w].c \in Copies
  BY <1>1, <1>2, HeldShape DEF TypeInv, HeldType
<1>4. Backed("unacked", d) /\ (worker[w].pc = "reject" => Deserved(d.msg))
  BY <1>1, <1>2 DEF HandsBacked
<1>5. /\ worker'[w].pc = "idle"
      /\ \A v \in Workers \ {w} : worker'[v] = worker[v]
  BY <1>2 DEF Settle, Set, Idle, TypeInv, DeliveryTypeOK
<1>6. ASSUME NEW c \in Copies, copy'[c] # copy[c]
      PROVE  Live(w) /\ c = worker[w].c /\ copy'[c] = next
  BY <1>2, <1>3, <1>6 DEF Settle, TypeInv, DeliveryTypeOK, Live, HeldType
<1>7. ASSUME NEW c \in Copies, copy'[c].at # "none"
      PROVE  Backed(copy[c].at, copy[c].d)'
  <2>1. CASE copy'[c] = copy[c]
    BY <1>7, <2>1, CopyUnchanged
  <2>2. CASE copy'[c] # copy[c]
    <3>1. copy'[c] = next /\ next # NoCopy
      BY <1>6, <1>7, <2>2 DEF NoCopy
    <3>2. CASE next = Stored("ready", d)
      <4>1. Backed("ready", d)
        BY <1>4 DEF Backed
      <4> QED BY <1>3, <3>1, <3>2, <4>1, CopyBecomes DEF Stored
    <3>3. CASE worker[w].pc = "reject" /\ next = Stored("dlq", [d EXCEPT !.key = "dlq"])
      <4>1. PICK e : e = [d EXCEPT !.key = "dlq"]
        OBVIOUS
      <4>2. e \in Bodies /\ e.msg = d.msg /\ e.retries = d.retries
        BY <1>3, <4>1 DEF Bodies
      <4>3. Backed("dlq", e)
        BY <1>4, <3>3, <4>2 DEF Backed
      <4> QED BY <3>1, <3>3, <4>1, <4>2, <4>3, CopyBecomes DEF Stored
    <3> QED BY <1>2, <3>1, <3>2, <3>3
  <2> QED BY <2>1, <2>2
<1>8. CopiesBacked'
  BY <1>7 DEF CopiesBacked
<1>9. HandsBacked'
  BY <1>5, HandStays DEF HandsBacked
<1>10. \A v \in Workers : Live(v)' => v # w /\ Live(v) /\ worker'[v] = worker[v]
  BY <1>5 DEF Live
<1>11. ASSUME NEW v \in Workers, Live(v)'
       PROVE  copy'[worker[v].c] = copy[worker[v].c]
  <2>1. worker[v].c \in Copies
    BY <1>10, <1>11, HeldShape DEF TypeInv, Live, HeldType
  <2> QED BY <1>6, <1>10, <1>11, <2>1 DEF Linked
<1>12. Linked'
  BY <1>10, <1>11 DEF Linked
<1> QED BY <1>8, <1>9, <1>12

LEMMA InvStep ==
  ASSUME Inv, DeliveryAssumption, [DeliveryNext]_vars
  PROVE  Inv'
<1>1. TypeInv' /\ Grows
  BY TypeStep, HistoryGrows DEF Inv
<1>2. CASE Lifecycle
  BY <1>1, <1>2, InvLifecycle
<1>3. CASE Publishes \/ Script \/ \E c \in Copies : Expire(c)
  BY <1>1, <1>3, InvBroker
<1>4. ASSUME NEW w \in Workers, Dispatch(w)
      PROVE  Inv'
  BY <1>1, <1>4, InvReturns, InvFinish, InvDeliver, InvRepublish DEF Dispatch
<1>5. CASE UNCHANGED vars
  <2>1. UNCHANGED <<copy, worker>>
    BY <1>5 DEF vars
  <2> QED BY <1>1, <2>1, CopyUnchanged, HandStays DEF Inv, CopiesBacked, HandsBacked, Linked, Live
<1> QED BY <1>2, <1>3, <1>4, <1>5 DEF DeliveryNext

LEMMA InvAlways == DeliverySpec => []Inv
BY InvInit, InvStep, DeliveryAssumption, PTL DEF DeliverySpec

(* A message is in the dead-letter queue only if it cannot be parsed, its   *)
(* handler panicked, it failed MaxRetries + 1 times, or it had been there   *)
(* before: for any budget, pool and number of faults.                       *)
THEOREM BurialAlwaysEarned == DeliverySpec => []BurialIsEarned
<1>1. Inv => BurialIsEarned
  BY DEF Inv, CopiesBacked, Backed, Deserved, BurialIsEarned
<1> QED BY <1>1, InvAlways, PTL

-----------------------------------------------------------------------------
(* Nothing is lost.  A copy is kept as long as no worker is about to        *)
(* acknowledge it; when one is, something else accounts for the message.    *)

LEMMA DoomedByLive ==
  ASSUME TypeInv, NEW c \in Copies
  PROVE  Doomed(c) <=> \E w \in Workers : Live(w) /\ worker[w].c = c /\ worker[w].pc = "ack"
<1>1. ASSUME NEW w \in Workers
      PROVE  worker[w] # Idle /\ worker[w].live /\ At(w, "ack") <=> Live(w) /\ worker[w].pc = "ack"
  <2>1. CASE worker[w] = Idle
    BY <2>1 DEF Idle, Live
  <2>2. CASE worker[w] # Idle
    <3>1. worker[w] \in HeldType
      BY <2>2 DEF TypeInv, DeliveryTypeOK, HeldType
    <3>2. worker[w].live \in BOOLEAN /\ worker[w].pc # "idle"
      BY <3>1 DEF HeldType, Pcs
    <3> QED BY <2>2, <3>2 DEF Live, At
  <2> QED BY <2>1, <2>2
<1> QED BY <1>1 DEF Doomed

LEMMA DoomedNext ==
  ASSUME TypeInv', NEW c \in Copies
  PROVE  Doomed(c)' => \E w \in Workers : Live(w)' /\ worker'[w].c = c /\ worker'[w].pc = "ack"
<1>1. ASSUME NEW w \in Workers, worker'[w] # Idle, worker'[w].live
      PROVE  Live(w)'
  <2>1. worker'[w] \in HeldType
    BY <1>1 DEF TypeInv, DeliveryTypeOK, HeldType
  <2>2. worker'[w].live \in BOOLEAN /\ worker'[w].pc # "idle"
    BY <2>1 DEF HeldType, Pcs
  <2> QED BY <1>1, <2>2 DEF Live
<1> QED BY <1>1 DEF Doomed, At

(* A copy that waits in a queue after a step is in nobody's hands. *)
LEMMA WaitingIsKept ==
  ASSUME Inv', NEW c \in Copies, copy'[c].at \in {"ready", "delay", "dlq"}
  PROVE  Kept(c)'
<1>1. ~ Doomed(c)'
  BY DoomedNext DEF Inv, Linked
<1> QED BY <1>1 DEF Kept, Places

(* So is one whose workers are all elsewhere in their code. *)
LEMMA UndoomedIsKept ==
  ASSUME Inv', NEW c \in Copies, copy'[c].at \in Places \ {"script"},
         \A w \in Workers : Live(w)' /\ worker'[w].c = c => worker'[w].pc # "ack"
  PROVE  Kept(c)'
BY DoomedNext DEF Inv, Kept

LEMMA KeptIs ==
  ASSUME Inv, NEW c \in Copies, Kept(c)
  PROVE  /\ copy[c].at \in Places \ {"script"}
         /\ \A w \in Workers : Live(w) /\ worker[w].c = c => worker[w].pc # "ack"
BY DoomedByLive DEF Inv, Kept

Safe(m) == m \in handled \/ m \in redriven \/ \E c \in Copies : Kept(c) /\ copy[c].d.msg = m

(* The broker's own steps, and the script's, keep what they do not take out. *)
LEMMA SafeBroker ==
  ASSUME Inv, Inv', DeliveryAssumption, Grows, UNCHANGED worker,
         Publishes \/ Script \/ \E k \in Copies : Expire(k),
         NEW c \in Copies, Kept(c), NEW m \in Msgs, copy[c].d.msg = m
  PROVE  Safe(m)'
<1>1. copy[c].at \in Places \ {"script"}
  BY KeptIs
<1>2. CASE copy'[c] = copy[c]
  <2>1. Kept(c)'
    BY <1>2, KeptIs, UndoomedIsKept DEF Live
  <2> QED BY <1>2, <2>1 DEF Safe
<1>3. CASE copy'[c] # copy[c]
  <2>1. copy[c].at # "none"
    BY <1>1 DEF Places
  <2>2. GetBatch \/ Expire(c)
    BY <1>1, <1>3, <2>1 DEF Publishes, PublishConfirmed, PublishUnconfirmed, Routed, Dropped, Put, NoCopy,
         Script, Redrive, ScriptFails, Expire, InScript, Inv, TypeInv, DeliveryTypeOK
  <2>3. CASE GetBatch
    <3>1. c \in InDlq
      BY <1>3, <2>3 DEF GetBatch
    <3> QED BY <2>3, <3>1 DEF GetBatch, Safe
  <2>4. CASE Expire(c)
    <3>1. copy[c] \in [at : Places, d : Bodies]
      BY <2>1, CopyShape DEF Inv, TypeInv
    <3>2. copy'[c].at = "ready" /\ copy'[c].d = copy[c].d
      BY <2>4, <3>1 DEF Expire, Inv, TypeInv, DeliveryTypeOK
    <3>3. Kept(c)'
      BY <3>2, WaitingIsKept
    <3> QED BY <3>2, <3>3 DEF Safe
  <2> QED BY <2>2, <2>3, <2>4
<1> QED BY <1>2, <1>3

(* A channel that closes requeues what it had delivered. *)
LEMMA SafeLifecycle ==
  ASSUME Inv, Inv', DeliveryAssumption, Lifecycle,
         NEW c \in Copies, Kept(c), NEW m \in Msgs, copy[c].d.msg = m
  PROVE  Safe(m)'
<1>1. \/ UNCHANGED <<copy, worker>>
      \/ copy' = Requeued /\ worker' = Unlive
      \/ copy' = Requeued /\ worker' = [w \in Workers |-> Idle]
  BY DEF Lifecycle, Start, DropChannel, Reconnect, Stop, CloseChannel, Exit, Crash, ProcessEnds,
         ChannelCloses
<1>2. CASE UNCHANGED <<copy, worker>>
  <2>1. Kept(c)'
    BY <1>2, KeptIs, UndoomedIsKept DEF Live
  <2> QED BY <1>2, <2>1 DEF Safe
<1>3. CASE copy' = Requeued
  <2>0. copy'[c] = IF copy[c].at = "unacked" THEN Stored("ready", copy[c].d) ELSE copy[c]
    BY <1>3 DEF Requeued
  <2>1. copy[c].at \in Places \ {"script"}
    BY KeptIs
  <2>2. copy'[c].at \in {"ready", "delay", "dlq"} /\ copy'[c].d = copy[c].d
    BY <2>0, <2>1 DEF Stored, Places
  <2>3. Kept(c)'
    BY <2>2, WaitingIsKept
  <2> QED BY <2>2, <2>3 DEF Safe
<1> QED BY <1>1, <1>2, <1>3

(* A worker gives up a copy only for another, or for a completed handler. *)
LEMMA SafeDispatch ==
  ASSUME Inv, Inv', DeliveryAssumption, Grows, NEW w \in Workers, Dispatch(w),
         NEW c \in Copies, Kept(c), NEW m \in Msgs, copy[c].d.msg = m
  PROVE  Safe(m)'
<1> USE DEF Inv, TypeInv
<1>1. /\ copy[c].at \in Places \ {"script"} /\ copy[c].at # "none"
      /\ \A v \in Workers : Live(v) /\ worker[v].c = c => worker[v].pc # "ack"
  BY KeptIs DEF Places
<1>2. \A v \in Workers \ {w} : worker'[v] = worker[v]
  BY DEF Dispatch, HandlerReturns, HandlerFails, HandlerPanics, Finish, Ack, NackRequeue, Reject,
         Settle, Deliver, Republish, RepublishFails, Goto, Set, TypeInv, DeliveryTypeOK
<1>3. ASSUME copy'[c] = copy[c], ~ (Live(w)' /\ worker'[w].c = c /\ worker'[w].pc = "ack")
      PROVE  Safe(m)'
  <2>1. Kept(c)'
    BY <1>1, <1>2, <1>3, UndoomedIsKept DEF Live
  <2> QED BY <1>3, <2>1 DEF Safe
<1>4. ASSUME NEW pc \in Pcs, worker[w].pc # "idle", Goto(w, pc)
      PROVE  /\ worker'[w].pc = pc /\ worker'[w].c = worker[w].c
             /\ worker'[w].live = worker[w].live
  <2>1. worker[w] \in HeldType
    BY <1>4, HeldShape
  <2> QED BY <1>4, <2>1 DEF Goto, HeldType, TypeInv, DeliveryTypeOK
<1>5. CASE HandlerReturns(w)
  <2>1. UNCHANGED copy /\ worker[w].pc = "work" /\ Goto(w, "ack")
    BY <1>5 DEF HandlerReturns, At
  <2>2. CASE Live(w) /\ worker[w].c = c
    <3>1. worker[w].d = copy[c].d /\ worker[w] \in HeldType /\ Backed("unacked", worker[w].d)
      BY <2>1, <2>2, HeldShape DEF Linked, HandsBacked
    <3>2. CASE worker[w].d.key = "own"
      BY <1>5, <3>1, <3>2 DEF HandlerReturns, Message, Safe
    <3>3. CASE worker[w].d.key = "dlq"
      BY <3>1, <3>3 DEF Backed, Safe, Grows
    <3> QED BY <3>1, <3>2, <3>3 DEF HeldType, Bodies
  <2>3. CASE ~ (Live(w) /\ worker[w].c = c)
    BY <1>3, <1>4, <2>1, <2>3 DEF Live, Pcs
  <2> QED BY <2>2, <2>3
<1>6. CASE HandlerFails(w) \/ HandlerPanics(w)
  <2>1. PICK pc \in {"retry", "dead", "reject"} : Goto(w, pc) /\ UNCHANGED copy /\ worker[w].pc = "work"
    BY <1>6 DEF HandlerFails, HandlerPanics, Decide, At
  <2>2. worker'[w].pc = pc
    BY <1>4, <2>1 DEF Pcs
  <2> QED BY <1>3, <2>1, <2>2
<1>7. ASSUME NEW n \in Copies, Republish(w, n)
      PROVE  Safe(m)'
  <2>1. worker[w].pc \in {"retry", "dead"} /\ Put(n, Republished(w)) /\ Goto(w, "ack")
    BY <1>7 DEF Republish
  <2>2. copy'[c] = copy[c]
    BY <1>1, <2>1 DEF Put, NoCopy, TypeInv, DeliveryTypeOK
  <2>3. CASE Live(w) /\ worker[w].c = c
    <3>1. worker[w].d.msg = m /\ worker[w] \in HeldType
      BY <2>1, <2>3, HeldShape DEF Linked
    <3>2. copy'[n] = Republished(w)
      BY <2>1 DEF Put, TypeInv, DeliveryTypeOK
    <3>3. CASE worker[w].pc = "retry"
      <4>1. copy'[n].at = "delay" /\ copy'[n].d.msg = m
        BY <3>1, <3>2, <3>3 DEF Republished, Stored, Body, At
      <4> QED BY <4>1, WaitingIsKept DEF Safe
    <3>4. CASE worker[w].pc = "dead"
      <4>1. copy'[n].at = "dlq" /\ copy'[n].d.msg = m
        BY <3>1, <3>2, <3>4 DEF Republished, Stored, Body, At
      <4> QED BY <4>1, WaitingIsKept DEF Safe
    <3> QED BY <2>1, <3>3, <3>4
  <2>4. CASE ~ (Live(w) /\ worker[w].c = c)
    BY <1>3, <1>4, <2>1, <2>2, <2>4 DEF Live, Pcs
  <2> QED BY <2>3, <2>4
<1>8. ASSUME NEW n \in Copies, RepublishFails(w, n)
      PROVE  Safe(m)'
  <2>1. PICK pc \in {"requeue", "reject"} :
          /\ Goto(w, pc) /\ worker[w].pc \in {"retry", "dead"}
          /\ UNCHANGED copy \/ Put(n, Republished(w))
    BY <1>8 DEF RepublishFails
  <2>2. copy'[c] = copy[c]
    BY <1>1, <2>1 DEF Put, NoCopy, TypeInv, DeliveryTypeOK
  <2>3. worker'[w].pc = pc
    BY <1>4, <2>1 DEF Pcs
  <2> QED BY <1>3, <2>1, <2>2, <2>3
<1>9. ASSUME NEW k \in Copies, Deliver(w, k)
      PROVE  Safe(m)'
  <2>1. worker'[w].pc = "work"
    BY <1>9 DEF Deliver, Set, Held, TypeInv, DeliveryTypeOK
  <2>2. CASE c # k
    <3>1. copy'[c] = copy[c]
      BY <1>9, <2>2 DEF Deliver, TypeInv, DeliveryTypeOK
    <3> QED BY <1>3, <2>1, <3>1
  <2>3. CASE c = k
    <3>1. copy[k] \in [at : Places, d : Bodies] /\ copy[k].at = "ready"
      BY <1>9, CopyShape DEF Deliver
    <3>2. copy'[c].at = "unacked" /\ copy'[c].d = copy[c].d
      BY <1>9, <2>3, <3>1 DEF Deliver, TypeInv, DeliveryTypeOK
    <3>3. \A v \in Workers : Live(v)' /\ worker'[v].c = c => v = w
      BY <1>2, <2>3, <3>1 DEF Linked, Live
    <3>4. Kept(c)'
      BY <2>1, <3>2, <3>3, UndoomedIsKept DEF Places
    <3> QED BY <3>2, <3>4 DEF Safe
  <2> QED BY <2>2, <2>3
<1>10. CASE Finish(w)
  <2>1. PICK next : /\ Settle(w, next)
                    /\ \/ worker[w].pc = "ack"
                       \/ worker[w].pc = "requeue" /\ next = Stored("ready", worker[w].d)
                       \/ /\ worker[w].pc = "reject"
                          /\ next = Stored("dlq", [worker[w].d EXCEPT !.key = "dlq"])
    BY <1>10 DEF Finish, Ack, NackRequeue, Reject, At
  <2>2. worker'[w].pc = "idle"
    BY <2>1 DEF Settle, Set, Idle, TypeInv, DeliveryTypeOK
  <2>3. CASE copy'[c] = copy[c]
    BY <1>3, <2>2, <2>3
  <2>4. CASE copy'[c] # copy[c]
    <3>1. worker[w] \in HeldType
      BY <2>1, HeldShape
    <3>2. Live(w) /\ c = worker[w].c /\ copy'[c] = next
      BY <2>1, <2>4, <3>1 DEF Settle, TypeInv, DeliveryTypeOK, Live, HeldType
    <3>3. worker[w].pc # "ack" /\ worker[w].d.msg = m /\ worker[w].d \in Bodies
      BY <1>1, <3>1, <3>2 DEF Linked, HeldType
    <3>4. copy'[c].at \in {"ready", "dlq"} /\ copy'[c].d.msg = m
      BY <2>1, <3>2, <3>3 DEF Stored, Bodies
    <3> QED BY <3>4, WaitingIsKept DEF Safe
  <2> QED BY <2>3, <2>4
<1> QED BY <1>5, <1>6, <1>7, <1>8, <1>9, <1>10 DEF Dispatch

LEMMA SafeStep ==
  ASSUME Inv, Inv', NothingLost, DeliveryAssumption, [DeliveryNext]_vars
  PROVE  NothingLost'
<1>1. Grows
  BY HistoryGrows DEF Inv
<1>2. ASSUME NEW m \in Msgs, m \in handled \/ m \in redriven
      PROVE  Safe(m)'
  BY <1>1, <1>2 DEF Safe, Grows
<1>3. ASSUME NEW m \in Msgs, NEW c \in Copies, Kept(c), copy[c].d.msg = m
      PROVE  Safe(m)'
  <2>1. CASE Lifecycle
    BY <1>3, <2>1, SafeLifecycle
  <2>2. CASE Publishes \/ Script \/ \E k \in Copies : Expire(k)
    <3>1. UNCHANGED worker
      BY <2>2 DEF Publishes, Script, PublishConfirmed, PublishUnconfirmed, GetBatch, Redrive,
                  ScriptFails, Expire
    <3> QED BY <1>1, <1>3, <2>2, <3>1, SafeBroker
  <2>3. CASE \E w \in Workers : Dispatch(w)
    BY <1>1, <1>3, <2>3, SafeDispatch
  <2>4. CASE UNCHANGED vars
    <3>1. UNCHANGED <<copy, worker>>
      BY <2>4 DEF vars
    <3>2. Kept(c)'
      BY <1>3, <3>1, KeptIs, UndoomedIsKept DEF Live
    <3> QED BY <1>3, <3>1, <3>2 DEF Safe
  <2> QED BY <2>1, <2>2, <2>3, <2>4 DEF DeliveryNext
<1>4. ASSUME NEW m \in Msgs, m \notin accepted, m \in accepted'
      PROVE  Safe(m)'
  <2>1. PICK n \in Copies : Routed(n, m)
    BY <1>4 DEF DeliveryNext, Lifecycle, Start, DropChannel, Reconnect, Stop, CloseChannel, Exit,
         Crash, ProcessEnds, Publishes, PublishConfirmed, PublishUnconfirmed, Dropped, Script,
         GetBatch, Redrive, ScriptFails, Expire, Dispatch, HandlerReturns, HandlerFails,
         HandlerPanics, Finish, Ack, NackRequeue, Reject, Settle, Deliver, Republish,
         RepublishFails, Routed, vars, histories
  <2>2. copy'[n].at = "ready" /\ copy'[n].d.msg = m
    BY <2>1 DEF Routed, Put, Stored, Body, Inv, TypeInv, DeliveryTypeOK
  <2> QED BY <2>2, WaitingIsKept DEF Safe
<1>5. \A m \in accepted' : m \in Msgs
  BY DEF Inv, TypeInv, DeliveryTypeOK
<1>6. \A m \in accepted' : Safe(m)'
  BY <1>2, <1>3, <1>4, <1>5 DEF NothingLost
<1> QED BY <1>6 DEF NothingLost, Safe

(* No message that the broker took is ever gone before a handler completed  *)
(* it, in any interleaving of lost confirms, dropped channels, crashes,     *)
(* shutdowns and retries, unless the script took it out.                    *)
THEOREM NothingIsLost == DeliverySpec => []NothingLost
<1>1. DeliveryInit => NothingLost
  BY DEF DeliveryInit, NothingLost
<1>2. Inv /\ Inv' /\ NothingLost /\ [DeliveryNext]_vars => NothingLost'
  BY SafeStep, DeliveryAssumption
<1> QED BY <1>1, <1>2, InvAlways, PTL DEF DeliverySpec

-----------------------------------------------------------------------------
(* Without a fault there is one copy of a message, apart from one that is   *)
(* about to be acknowledged, and every delivery is live.                    *)

Going(c) ==
  /\ copy[c].at # "none"
  /\ \A w \in Workers : Live(w) /\ worker[w].c = c => worker[w].pc # "ack"

Single ==
  \A b, c \in Copies : Going(b) /\ Going(c) /\ copy[b].d.msg = copy[c].d.msg => b = c

AllLive ==
  \A w \in Workers : worker[w].pc # "idle" =>
    worker[w].live = TRUE /\ worker[w].pc \in {"work", "retry", "dead", "ack"}

Calm == accepted \subseteq confirmed /\ cancelled = FALSE /\ consumer # "closed" /\ AllLive /\ Single

CalmInv == faults = 0 => Calm

LEMMA SingleStays ==
  ASSUME Single,
         \A c \in Copies : Going(c)' => Going(c) /\ copy'[c].d.msg = copy[c].d.msg
  PROVE  Single'
BY DEF Single

(* Only these steps are no faults. *)
LEMMA FaultlessSteps ==
  ASSUME Inv, DeliveryAssumption, Calm, faults = 0, faults' = 0, [DeliveryNext]_vars
  PROVE  \/ UNCHANGED vars \/ Start \/ GetBatch
         \/ \E c \in Copies : Expire(c) \/ Redrive(c)
         \/ \E m \in Msgs, n \in Copies : PublishConfirmed(m, n)
         \/ \E w \in Workers : \/ HandlerReturns(w) \/ HandlerFails(w) \/ Ack(w)
                               \/ \E c \in Copies : Deliver(w, c) \/ Republish(w, c)
<1>1. ~ Fault
  BY DEF Fault
<1>2. ~ Lifecycle \/ Start
  BY <1>1 DEF Lifecycle, DropChannel, Reconnect, Stop, CloseChannel, Exit, Crash, Calm
<1>3. ASSUME NEW w \in Workers
      PROVE  /\ ~ HandlerPanics(w) /\ ~ NackRequeue(w) /\ ~ Reject(w)
             /\ \A n \in Copies : ~ RepublishFails(w, n)
  BY <1>1 DEF HandlerPanics, RepublishFails, NackRequeue, Reject, At, Calm, AllLive
<1>4. ~ ScriptFails /\ \A m \in Msgs, n \in Copies : ~ PublishUnconfirmed(m, n)
  BY <1>1 DEF ScriptFails, PublishUnconfirmed
<1> QED BY <1>2, <1>3, <1>4 DEF DeliveryNext, Publishes, Script, Dispatch, Finish

LEMMA CalmBroker ==
  ASSUME Inv, Inv', DeliveryAssumption, Calm, UNCHANGED worker,
         \/ UNCHANGED vars \/ Start \/ GetBatch
         \/ \E c \in Copies : Expire(c) \/ Redrive(c)
  PROVE  Calm'
<1> USE DEF Inv, TypeInv
<1>1. AllLive'
  BY DEF Calm, AllLive
<1>2. accepted' \subseteq confirmed' /\ cancelled' = FALSE /\ consumer' # "closed"
  BY DEF Calm, vars, process, publisher, histories, Start, GetBatch, Expire, Redrive
<1>3. ASSUME NEW c \in Copies, copy'[c].at # "none"
      PROVE  copy[c].at # "none" /\ copy'[c].d.msg = copy[c].d.msg
  <2>1. CASE copy'[c] = copy[c]
    BY <1>3, <2>1
  <2>2. CASE GetBatch
    BY <2>2, <1>3 DEF GetBatch, InDlq, Stored
  <2>3. ASSUME NEW k \in Copies, Expire(k)
        PROVE  copy[c].at # "none" /\ copy'[c].d.msg = copy[c].d.msg
    <3>1. copy[k].at = "delay" /\ copy[k] \in [at : Places, d : Bodies]
      BY <2>3, CopyShape DEF Expire
    <3> QED BY <1>3, <2>3, <3>1 DEF Expire, DeliveryTypeOK
  <2>4. ASSUME NEW k \in Copies, Redrive(k)
        PROVE  copy[c].at # "none" /\ copy'[c].d.msg = copy[c].d.msg
    BY <1>3, <2>4 DEF Redrive, InScript, Stored, Body, NoCopy, DeliveryTypeOK
  <2> QED BY <2>1, <2>2, <2>3, <2>4 DEF Start, vars
<1>4. Single'
  <2>1. \A c \in Copies : Going(c)' => Going(c) /\ copy'[c].d.msg = copy[c].d.msg
    BY <1>3 DEF Going, Live
  <2> QED BY <2>1, SingleStays DEF Calm
<1> QED BY <1>1, <1>2, <1>4 DEF Calm

(* Publish does not repeat a message without a failed attempt. *)
LEMMA CalmPublish ==
  ASSUME Inv, Inv', DeliveryAssumption, Calm, NEW m \in Msgs, NEW n \in Copies, PublishConfirmed(m, n)
  PROVE  Calm'
<1> USE DEF Inv, TypeInv
<1>1. UNCHANGED <<worker, cancelled, consumer>> /\ confirmed' = confirmed \cup {m}
  BY DEF PublishConfirmed, process
<1>2. AllLive'
  BY <1>1 DEF Calm, AllLive
<1>3. accepted' \subseteq confirmed'
  BY <1>1 DEF PublishConfirmed, Routed, Dropped, Calm
<1>4. CASE UNCHANGED copy
  <2>1. Single'
    BY <1>1, <1>4, SingleStays DEF Going, Live, Calm
  <2> QED BY <1>1, <1>2, <1>3, <2>1 DEF Calm
<1>5. CASE Routed(n, m)
  <2>1. \A c \in Copies \ {n} : copy'[c] = copy[c]
    BY <1>5 DEF Routed, Put, DeliveryTypeOK
  <2>2. copy'[n].d.msg = m
    BY <1>5 DEF Routed, Put, Stored, Body, DeliveryTypeOK
  <2>3. m \notin accepted
    BY DEF PublishConfirmed, MayPublish, Calm
  <2>4. ASSUME NEW c \in Copies \ {n}, Going(c)'
        PROVE  Going(c) /\ copy[c].d.msg # m /\ copy'[c].d.msg = copy[c].d.msg
    BY <1>1, <2>1, <2>3, <2>4 DEF Going, Live, CopiesBacked, Backed
  <2>5. ASSUME NEW b \in Copies, NEW c \in Copies, Going(b)', Going(c)', copy'[b].d.msg = copy'[c].d.msg
        PROVE  b = c
    BY <2>2, <2>4, <2>5 DEF Single, Calm
  <2>6. Single'
    BY <2>5 DEF Single
  <2> QED BY <1>1, <1>2, <1>3, <2>6 DEF Calm
<1> QED BY <1>4, <1>5 DEF PublishConfirmed, Dropped

LEMMA CalmDispatch ==
  ASSUME Inv, Inv', DeliveryAssumption, Calm, NEW w \in Workers, NEW k \in Copies,
         HandlerReturns(w) \/ HandlerFails(w) \/ Ack(w) \/ Deliver(w, k) \/ Republish(w, k)
  PROVE  Calm'
<1> USE DEF Inv, TypeInv
<1>1. UNCHANGED <<accepted, confirmed, cancelled, consumer>>
  BY DEF HandlerReturns, HandlerFails, Ack, Settle, Deliver, Republish, process, publisher, histories
<1>2. \A v \in Workers \ {w} : worker'[v] = worker[v]
  BY DEF HandlerReturns, HandlerFails, Ack, Settle, Deliver, Republish, Goto, Set, DeliveryTypeOK
<1>3. CASE HandlerReturns(w) \/ HandlerFails(w) \/ Republish(w, k)
  <2>1. PICK pc \in {"retry", "dead", "ack"} : Goto(w, pc) /\ worker[w].pc \in {"work", "retry", "dead"}
    BY <1>3 DEF HandlerReturns, HandlerFails, Republish, Decide, At
  <2>2. worker[w] \in HeldType
    BY <2>1, HeldShape
  <2>3. worker'[w].pc = pc /\ worker'[w].live = worker[w].live /\ worker'[w].c = worker[w].c
    BY <2>1, <2>2 DEF Goto, HeldType, DeliveryTypeOK
  <2>4. AllLive'
    BY <1>2, <2>1, <2>3 DEF Calm, AllLive
  <2>5. \A c \in Copies : copy[c].at # "none" /\ Going(c)' => Going(c)
    BY <1>2, <2>1, <2>3 DEF Going, Live
  <2>6. CASE UNCHANGED copy
    <3>1. Single'
      BY <2>5, <2>6, SingleStays DEF Going, Calm
    <3> QED BY <1>1, <2>4, <3>1 DEF Calm
  <2>7. CASE Republish(w, k)
    <3>1. /\ Put(k, Republished(w)) /\ worker'[w].pc = "ack"
          /\ worker[w].pc \in {"retry", "dead"}
      BY <2>3, <2>7, <2>1, <2>2 DEF Republish, Goto, HeldType, DeliveryTypeOK
    <3>2. copy'[k].d.msg = worker[w].d.msg /\ \A c \in Copies \ {k} : copy'[c] = copy[c]
      BY <3>1 DEF Put, Republished, Stored, Body, At, DeliveryTypeOK
    <3>3. PICK own \in Copies : Live(w) /\ own = worker[w].c /\ copy[own].d = worker[w].d
      BY <2>1, <2>2 DEF Calm, AllLive, Live, Linked, HeldType
    <3>4. Going(own)
      BY <3>1, <3>3 DEF Going, Linked
    <3>5. ~ Going(own)'
      BY <2>3, <3>1, <3>3 DEF Going, Live
    <3>6. ASSUME NEW c \in Copies \ {k}, Going(c)'
          PROVE  Going(c) /\ c # own /\ copy'[c].d.msg = copy[c].d.msg
      <4>1. copy[c].at # "none" /\ copy'[c] = copy[c]
        BY <3>2, <3>6 DEF Going
      <4>2. Going(c)
        BY <2>5, <3>6, <4>1
      <4>3. c # own
        BY <3>5, <3>6
      <4> QED BY <4>1, <4>2, <4>3
    <3>7. ASSUME NEW c \in Copies \ {k}, Going(c)'
          PROVE  copy'[c].d.msg # copy'[k].d.msg
      BY <3>2, <3>3, <3>4, <3>6, <3>7 DEF Single, Calm
    <3>8. ASSUME NEW b \in Copies, NEW c \in Copies, Going(b)', Going(c)', copy'[b].d.msg = copy'[c].d.msg
          PROVE  b = c
      BY <3>6, <3>7, <3>8 DEF Single, Calm
    <3>9. Single'
      BY <3>8 DEF Single
    <3> QED BY <1>1, <2>4, <3>9 DEF Calm
  <2> QED BY <1>3, <2>6, <2>7 DEF HandlerReturns, HandlerFails
<1>4. CASE Deliver(w, k)
  <2>1. worker'[w].pc = "work" /\ worker'[w].live = TRUE /\ worker[w].pc = "idle"
    BY <1>4 DEF Deliver, Set, Held, Idle, DeliveryTypeOK
  <2>2. AllLive'
    BY <1>2, <2>1 DEF Calm, AllLive
  <2>3. copy[k].at = "ready" /\ copy[k] \in [at : Places, d : Bodies]
    BY <1>4, CopyShape DEF Deliver
  <2>4. \A c \in Copies : copy'[c].at # "none" => copy[c].at # "none" /\ copy'[c].d.msg = copy[c].d.msg
    BY <1>4, <2>3 DEF Deliver, DeliveryTypeOK
  <2>5. Single'
    <3>1. \A c \in Copies : Going(c)' => Going(c) /\ copy'[c].d.msg = copy[c].d.msg
      BY <1>2, <2>1, <2>4 DEF Going, Live
    <3> QED BY <3>1, SingleStays DEF Calm
  <2> QED BY <1>1, <2>2, <2>5 DEF Calm
<1>5. CASE Ack(w)
  <2>1. worker[w].pc = "ack" /\ worker'[w].pc = "idle" /\ worker[w] \in HeldType
    BY <1>5, HeldShape DEF Ack, Settle, Set, At, Idle, DeliveryTypeOK
  <2>2. AllLive'
    BY <1>2, <2>1 DEF Calm, AllLive
  <2>3. worker[w].live = TRUE
    BY <2>1 DEF Calm, AllLive
  <2>4. copy' = [copy EXCEPT ![worker[w].c] = NoCopy] /\ worker[w].c \in Copies
    BY <1>5, <2>1, <2>3 DEF Ack, Settle, HeldType
  <2>5. Single'
    <3>1. \A c \in Copies : Going(c)' => c # worker[w].c /\ copy'[c] = copy[c]
      BY <2>4 DEF Going, NoCopy, DeliveryTypeOK
    <3>2. \A c \in Copies : Going(c)' => Going(c) /\ copy'[c].d.msg = copy[c].d.msg
      BY <1>2, <2>1, <3>1 DEF Going, Live
    <3> QED BY <3>2, SingleStays DEF Calm
  <2> QED BY <1>1, <2>2, <2>5 DEF Calm
<1> QED BY <1>3, <1>4, <1>5

LEMMA CalmStep ==
  ASSUME Inv, Inv', DeliveryAssumption, CalmInv, [DeliveryNext]_vars
  PROVE  CalmInv'
<1> SUFFICES ASSUME faults' = 0
             PROVE  Calm'
  BY DEF CalmInv
<1>1. faults = 0
  <2>1. faults' = faults \/ faults' = faults + 1
    BY DEF DeliveryNext, Lifecycle, Start, DropChannel, Reconnect, Stop, CloseChannel, Exit, Crash,
         ProcessEnds, Publishes, PublishConfirmed, PublishUnconfirmed, Script, GetBatch, Redrive,
         ScriptFails, Expire, Dispatch, HandlerReturns, HandlerFails, HandlerPanics, Finish, Ack,
         NackRequeue, Reject, Settle, Deliver, Republish, RepublishFails, vars, Fault, NoFault
  <2> QED BY <2>1 DEF Inv, TypeInv, DeliveryTypeOK, DeliveryAssumption
<1>2. Calm
  BY <1>1 DEF CalmInv
<1>3. CASE \/ UNCHANGED vars \/ Start \/ GetBatch
           \/ \E c \in Copies : Expire(c) \/ Redrive(c)
  <2>1. UNCHANGED worker
    BY <1>3 DEF vars, Start, GetBatch, Expire, Redrive
  <2> QED BY <1>2, <1>3, <2>1, CalmBroker
<1>4. CASE \E m \in Msgs, n \in Copies : PublishConfirmed(m, n)
  BY <1>2, <1>4, CalmPublish
<1>5. ASSUME NEW w \in Workers,
             \/ HandlerReturns(w) \/ HandlerFails(w) \/ Ack(w)
             \/ \E c \in Copies : Deliver(w, c) \/ Republish(w, c)
      PROVE  Calm'
  <2>1. Copies # {}
    <3>1. worker[w].pc # "idle" \/ Copies # {}
      BY <1>5 DEF HandlerReturns, HandlerFails, Ack, At
    <3> QED BY <3>1, HeldShape DEF Inv, TypeInv, HeldType
  <2>2. PICK k \in Copies :
          HandlerReturns(w) \/ HandlerFails(w) \/ Ack(w) \/ Deliver(w, k) \/ Republish(w, k)
    BY <1>5, <2>1
  <2> QED BY <1>2, <2>2, CalmDispatch
<1> QED BY <1>1, <1>2, <1>3, <1>4, <1>5, FaultlessSteps

(* As long as nothing fails outside the handlers, no two workers ever run   *)
(* the handler of one message together, however often it is retried.        *)
THEOREM HandlingIsExclusive == DeliverySpec => []ExclusiveHandling
<1>1. DeliveryInit => CalmInv
  <2>1. ASSUME DeliveryInit
        PROVE  Calm
    <3>1. \A c \in Copies : copy[c].at = "none"
      BY <2>1 DEF DeliveryInit, NoCopy
    <3>2. \A w \in Workers : worker[w].pc = "idle"
      BY <2>1 DEF DeliveryInit, Idle
    <3> QED BY <2>1, <3>1, <3>2 DEF DeliveryInit, Calm, AllLive, Single, Going
  <2> QED BY <2>1 DEF CalmInv
<1>2. Inv /\ Inv' /\ CalmInv /\ [DeliveryNext]_vars => CalmInv'
  BY CalmStep, DeliveryAssumption
<1>3. Inv /\ CalmInv => ExclusiveHandling
  <2> SUFFICES ASSUME Inv, Calm, NEW v \in Workers, NEW w \in Workers,
                      worker[v].pc = "work", worker[w].pc = "work", Message(v) = Message(w)
               PROVE  v = w
    BY DEF CalmInv, ExclusiveHandling, At
  <2>1. Live(v) /\ Live(w)
    BY DEF Calm, AllLive, Live
  <2>2. worker[v].c \in Copies /\ worker[w].c \in Copies
    BY HeldShape DEF Inv, TypeInv, HeldType
  <2>3. Going(worker[v].c) /\ Going(worker[w].c)
    BY <2>1, <2>2 DEF Going, Inv, Linked
  <2>4. worker[v].c = worker[w].c
    BY <2>1, <2>2, <2>3 DEF Calm, Single, Inv, Linked, Message
  <2> QED BY <2>1, <2>4 DEF Inv, Linked
<1> QED BY <1>1, <1>2, <1>3, InvAlways, PTL DEF DeliverySpec

-----------------------------------------------------------------------------
(* Delivery implements AtLeastOnce.  The messages at the places of a set:   *)
(* how they change with the copies.                                         *)

Pending == MessagesAt({"ready", "unacked", "delay"})
Buried  == MessagesAt({"dlq"})

LEMMA AtIs ==
  ASSUME NEW P, NEW m
  PROVE  m \in MessagesAt(P) <=> \E c \in Copies : copy[c].at \in P /\ copy[c].d.msg = m
BY DEF MessagesAt

LEMMA AtNext ==
  ASSUME NEW P, NEW m
  PROVE  m \in MessagesAt(P)' <=> \E c \in Copies : copy'[c].at \in P /\ copy'[c].d.msg = m
BY DEF MessagesAt

(* Copies that move within a set of places, or outside it, change nothing. *)
LEMMA SameMessages ==
  ASSUME NEW P,
         \A c \in Copies : /\ copy'[c].at \in P <=> copy[c].at \in P
                           /\ copy[c].at \in P => copy'[c].d.msg = copy[c].d.msg
  PROVE  MessagesAt(P)' = MessagesAt(P)
BY AtIs, AtNext

LEMMA AddMessage ==
  ASSUME NEW P, NEW n \in Copies, NEW m, copy[n].at \notin P,
         copy'[n].at \in P, copy'[n].d.msg = m,
         \A c \in Copies \ {n} : copy'[c] = copy[c]
  PROVE  MessagesAt(P)' = MessagesAt(P) \cup {m}
<1>1. ASSUME NEW x, x \in MessagesAt(P)'
      PROVE  x \in MessagesAt(P) \/ x = m
  <2>1. PICK c \in Copies : copy'[c].at \in P /\ copy'[c].d.msg = x
    BY <1>1, AtNext
  <2>2. CASE c = n
    BY <2>1, <2>2
  <2>3. CASE c # n
    BY <2>1, <2>3, AtIs
  <2> QED BY <2>2, <2>3
<1>2. ASSUME NEW x, x \in MessagesAt(P)
      PROVE  x \in MessagesAt(P)'
  <2>1. PICK c \in Copies : copy[c].at \in P /\ copy[c].d.msg = x
    BY <1>2, AtIs
  <2>2. copy'[c] = copy[c]
    BY <2>1
  <2> QED BY <2>1, <2>2, AtNext
<1>3. m \in MessagesAt(P)'
  BY AtNext
<1> QED BY <1>1, <1>2, <1>3

LEMMA DropMessage ==
  ASSUME NEW P, NEW n \in Copies, NEW m, copy[n].d.msg = m, copy'[n].at \notin P,
         \A c \in Copies \ {n} : copy'[c] = copy[c]
  PROVE  \/ MessagesAt(P)' = MessagesAt(P) \ {m}
         \/ /\ MessagesAt(P)' = MessagesAt(P)
            /\ \E c \in Copies \ {n} : copy[c].at \in P /\ copy[c].d.msg = m
<1>1. ASSUME NEW x, x \in MessagesAt(P)'
      PROVE  x \in MessagesAt(P)
  <2>1. PICK c \in Copies : copy'[c].at \in P /\ copy'[c].d.msg = x
    BY <1>1, AtNext
  <2>2. copy'[c] = copy[c]
    BY <2>1
  <2> QED BY <2>1, <2>2, AtIs
<1>2. ASSUME NEW x, x \in MessagesAt(P), x # m
      PROVE  x \in MessagesAt(P)'
  <2>1. PICK c \in Copies : copy[c].at \in P /\ copy[c].d.msg = x
    BY <1>2, AtIs
  <2>2. copy'[c] = copy[c]
    BY <1>2, <2>1
  <2> QED BY <2>1, <2>2, AtNext
<1>3. CASE m \in MessagesAt(P)'
  <2>1. PICK c \in Copies : copy'[c].at \in P /\ copy'[c].d.msg = m
    BY <1>3, AtNext
  <2>2. c # n /\ copy'[c] = copy[c]
    BY <2>1
  <2>3. \E k \in Copies \ {n} : copy[k].at \in P /\ copy[k].d.msg = m
    BY <2>1, <2>2
  <2>4. MessagesAt(P)' = MessagesAt(P)
    BY <1>1, <1>2, <1>3
  <2> QED BY <2>3, <2>4
<1>4. CASE m \notin MessagesAt(P)'
  BY <1>1, <1>2, <1>4
<1> QED BY <1>3, <1>4

LEMMA Stutter ==
  ASSUME UNCHANGED <<accepted, handled, redriven>>, Pending' = Pending, Buried' = Buried
  PROVE  UNCHANGED Promise!promise
BY DEF Promise!promise, Pending, Buried

LEMMA PromiseBroker ==
  ASSUME Inv, Inv', DeliveryAssumption, Publishes \/ Script \/ \E k \in Copies : Expire(k)
  PROVE  [Promise!PromiseNext]_(Promise!promise)
<1> USE DEF Inv, TypeInv
<1>1. ASSUME NEW m \in Msgs, NEW n \in Copies, PublishConfirmed(m, n) \/ PublishUnconfirmed(m, n)
      PROVE  [Promise!PromiseNext]_(Promise!promise)
  <2>1. UNCHANGED <<handled, redriven>>
    BY <1>1 DEF PublishConfirmed, PublishUnconfirmed
  <2>2. CASE UNCHANGED <<copy, accepted>>
    <3>1. Pending' = Pending /\ Buried' = Buried
      BY <2>2 DEF Pending, Buried, MessagesAt
    <3> QED BY <2>1, <2>2, <3>1, Stutter
  <2>3. CASE Routed(n, m)
    <3>1. /\ copy[n].at = "none" /\ copy'[n].at = "ready" /\ copy'[n].d.msg = m
          /\ \A c \in Copies \ {n} : copy'[c] = copy[c]
          /\ accepted' = accepted \cup {m}
      BY <2>3 DEF Routed, Put, NoCopy, Stored, Body, DeliveryTypeOK
    <3>2. Pending' = Pending \cup {m}
      BY <3>1, AddMessage DEF Pending
    <3>3. Buried' = Buried
      BY <3>1, SameMessages DEF Buried
    <3>4. Promise!Accept(m)
      BY <2>1, <3>1, <3>2, <3>3 DEF Promise!Accept, Pending, Buried
    <3> QED BY <3>4 DEF Promise!PromiseNext
  <2> QED BY <1>1, <2>2, <2>3 DEF PublishConfirmed, PublishUnconfirmed, Dropped
<1>2. CASE GetBatch
  <2>1. \A c \in Copies : copy'[c] = IF c \in InDlq THEN Stored("script", copy[c].d) ELSE copy[c]
    BY <1>2 DEF GetBatch
  <2>2. \A c \in Copies : \/ copy[c].at = "dlq" /\ copy'[c].at = "script"
                          \/ copy[c].at # "dlq" /\ copy'[c] = copy[c]
    <3> TAKE c \in Copies
    <3>1. c \in InDlq <=> copy[c].at = "dlq"
      BY DEF InDlq
    <3>2. Stored("script", copy[c].d).at = "script"
      BY DEF Stored
    <3> QED BY <2>1, <3>1, <3>2
  <2>3. Pending' = Pending
    BY <2>2, SameMessages DEF Pending
  <2>4. \A x : x \notin Buried'
    BY <2>2, AtNext DEF Buried
  <2>5. redriven' = redriven \cup Buried /\ UNCHANGED <<accepted, handled>>
    BY <1>2 DEF GetBatch, Buried, MessagesAt, InDlq
  <2>6. Promise!Remove(Buried)
    BY <2>3, <2>4, <2>5 DEF Promise!Remove, Pending, Buried
  <2>7. Buried \in SUBSET MessagesAt({"dlq"})
    BY DEF Buried
  <2> QED BY <2>6, <2>7 DEF Promise!PromiseNext
<1>3. ASSUME NEW k \in Copies, Redrive(k)
      PROVE  [Promise!PromiseNext]_(Promise!promise)
  <2>1. /\ copy[k].at = "script" /\ \A c \in Copies \ {k} : copy'[c] = copy[c]
        /\ UNCHANGED <<accepted, handled, redriven>>
    BY <1>3 DEF Redrive, InScript, histories, DeliveryTypeOK
  <2>2. copy[k] \in [at : Places, d : Bodies] /\ copy[k].d.msg \in accepted
    BY <2>1, CopyShape DEF CopiesBacked, Backed
  <2>3. CASE Topic
    <3>1. copy'[k].at = "ready" /\ copy'[k].d.msg = copy[k].d.msg
      BY <1>3, <2>3 DEF Redrive, Stored, Body, DeliveryTypeOK
    <3>2. Pending' = Pending \cup {copy[k].d.msg}
      BY <2>1, <3>1, AddMessage DEF Pending
    <3>3. Buried' = Buried
      BY <2>1, <3>1, SameMessages DEF Buried
    <3>4. Promise!Again(copy[k].d.msg)
      BY <2>1, <2>2, <3>2, <3>3 DEF Promise!Again, Pending, Buried
    <3>5. copy[k].d.msg \in Msgs
      BY <2>2 DEF DeliveryTypeOK
    <3> QED BY <3>4, <3>5 DEF Promise!PromiseNext
  <2>4. CASE ~ Topic
    <3>1. copy'[k].at = "none"
      BY <1>3, <2>4 DEF Redrive, NoCopy, DeliveryTypeOK
    <3>2. Pending' = Pending /\ Buried' = Buried
      BY <2>1, <3>1, SameMessages DEF Pending, Buried
    <3> QED BY <2>1, <3>2, Stutter
  <2> QED BY <2>3, <2>4
<1>4. CASE ScriptFails
  <2>1. \A c \in Copies : copy'[c] = copy[c] \/ (copy[c].at = "script" /\ copy'[c].at = "none")
    BY <1>4 DEF ScriptFails, InScript, NoCopy
  <2>2. Pending' = Pending /\ Buried' = Buried
    BY <2>1, SameMessages DEF Pending, Buried
  <2> QED BY <1>4, <2>2, Stutter DEF ScriptFails, histories
<1>5. ASSUME NEW k \in Copies, Expire(k)
      PROVE  [Promise!PromiseNext]_(Promise!promise)
  <2>1. copy[k].at = "delay" /\ copy[k] \in [at : Places, d : Bodies]
    BY <1>5, CopyShape DEF Expire
  <2>2. /\ copy'[k].at = "ready" /\ copy'[k].d = copy[k].d
        /\ \A c \in Copies \ {k} : copy'[c] = copy[c]
    BY <1>5, <2>1 DEF Expire, DeliveryTypeOK
  <2>3. Pending' = Pending /\ Buried' = Buried
    BY <2>1, <2>2, SameMessages DEF Pending, Buried
  <2> QED BY <1>5, <2>3, Stutter DEF Expire, histories
<1> QED BY <1>1, <1>2, <1>3, <1>4, <1>5 DEF Publishes, Script

LEMMA PromiseLifecycle ==
  ASSUME Inv, Inv', DeliveryAssumption, Lifecycle
  PROVE  UNCHANGED Promise!promise
<1>1. copy' = copy \/ copy' = Requeued
  BY DEF Lifecycle, Start, DropChannel, Reconnect, Stop, CloseChannel, Exit, Crash, ProcessEnds,
         ChannelCloses
<1>2. \A c \in Copies : \/ copy'[c] = copy[c]
                        \/ copy[c].at = "unacked" /\ copy'[c].at = "ready" /\ copy'[c].d = copy[c].d
  BY <1>1 DEF Requeued, Stored
<1>3. Pending' = Pending /\ Buried' = Buried
  BY <1>2, SameMessages DEF Pending, Buried
<1>4. UNCHANGED <<accepted, handled, redriven>>
  BY DEF Lifecycle, Start, DropChannel, Reconnect, Stop, CloseChannel, Exit, Crash, ProcessEnds, histories
<1> QED BY <1>3, <1>4, Stutter

(* A worker's republished copy is another delivery to come, or a burial. *)
LEMMA PromiseRepublish ==
  ASSUME Inv, Inv', DeliveryAssumption, NEW w \in Workers, NEW n \in Copies,
         worker[w].pc \in {"retry", "dead"}, Put(n, Republished(w)),
         UNCHANGED <<accepted, handled, redriven>>
  PROVE  Promise!PromiseNext
<1> USE DEF Inv, TypeInv
<1>1. worker[w] \in HeldType /\ worker[w].d.msg \in Msgs /\ worker[w].d.msg \in accepted
  BY HeldShape DEF HandsBacked, Backed, HeldType, Bodies
<1>2. PICK m \in Msgs : m = worker[w].d.msg
  BY <1>1
<1>3. /\ copy[n].at = "none" /\ copy'[n] = Republished(w)
      /\ \A c \in Copies \ {n} : copy'[c] = copy[c]
  BY DEF Put, NoCopy, DeliveryTypeOK
<1>4. CASE worker[w].pc = "retry"
  <2>1. copy'[n].at = "delay" /\ copy'[n].d.msg = m
    BY <1>2, <1>3, <1>4 DEF Republished, Stored, Body, At
  <2>2. Pending' = Pending \cup {m}
    BY <1>3, <2>1, AddMessage DEF Pending
  <2>3. Buried' = Buried
    BY <1>3, <2>1, SameMessages DEF Buried
  <2>4. Promise!Again(m)
    BY <1>1, <1>2, <2>2, <2>3 DEF Promise!Again, Pending, Buried
  <2> QED BY <2>4 DEF Promise!PromiseNext
<1>5. CASE worker[w].pc = "dead"
  <2>1. copy'[n].at = "dlq" /\ copy'[n].d.msg = m
    BY <1>2, <1>3, <1>5 DEF Republished, Stored, Body, At
  <2>2. Buried' = Buried \cup {m}
    BY <1>3, <2>1, AddMessage DEF Buried
  <2>3. Pending' = Pending
    BY <1>3, <2>1, SameMessages DEF Pending
  <2>4. Promise!Bury(m)
    BY <1>1, <1>2, <2>2, <2>3 DEF Promise!Bury, Pending, Buried
  <2> QED BY <2>4 DEF Promise!PromiseNext
<1> QED BY <1>4, <1>5

(* A copy is acknowledged when something else accounts for its message. *)
LEMMA PromiseFinish ==
  ASSUME Inv, Inv', NothingLost, DeliveryAssumption, NEW w \in Workers, Finish(w)
  PROVE  [Promise!PromiseNext]_(Promise!promise)
<1> USE DEF Inv, TypeInv
<1>1. /\ worker[w].pc \in {"ack", "requeue", "reject"}
      /\ UNCHANGED <<accepted, handled, redriven>>
  BY DEF Finish, Ack, NackRequeue, Reject, Settle, At, histories
<1>2. worker[w] \in HeldType /\ worker[w].d.msg \in accepted
  BY <1>1, HeldShape DEF HandsBacked, Backed
<1>3. CASE ~ Live(w)
  <2>1. copy' = copy
    BY <1>1, <1>2, <1>3 DEF Finish, Ack, NackRequeue, Reject, Settle, Live, HeldType
  <2>2. Pending' = Pending /\ Buried' = Buried
    BY <2>1 DEF Pending, Buried, MessagesAt
  <2> QED BY <1>1, <2>2, Stutter
<1>4. CASE Live(w)
  <2>1. PICK n \in Copies, m \in Msgs : n = worker[w].c /\ m = worker[w].d.msg
    BY <1>2 DEF HeldType, Bodies
  <2>2. copy[n].at = "unacked" /\ copy[n].d.msg = m /\ m \in accepted
    BY <1>2, <1>4, <2>1 DEF Linked
  <2>3. \A c \in Copies \ {n} : copy'[c] = copy[c]
    BY <1>1, <2>1 DEF Finish, Ack, NackRequeue, Reject, Settle, DeliveryTypeOK
  <2>4. CASE worker[w].pc = "ack"
    <3>1. copy'[n].at = "none"
      BY <1>4, <2>1, <2>4 DEF Finish, Ack, NackRequeue, Reject, Settle, Live, At, NoCopy, DeliveryTypeOK
    <3>2. Buried' = Buried
      BY <2>2, <2>3, <3>1, SameMessages DEF Buried
    <3>3. \/ Pending' = Pending
          \/ /\ Pending' = Pending \ {m}
             /\ ~ \E c \in Copies \ {n} : copy[c].at \in {"ready", "unacked", "delay"} /\ copy[c].d.msg = m
      <4>1. CASE \E c \in Copies \ {n} : copy[c].at \in {"ready", "unacked", "delay"} /\ copy[c].d.msg = m
        <5>1. m \in Pending'
          BY <2>3, <4>1, AtNext DEF Pending
        <5>2. Pending' = Pending \/ Pending' = Pending \ {m}
          BY <2>2, <2>3, <3>1, DropMessage DEF Pending
        <5> QED BY <5>1, <5>2
      <4>2. CASE ~ \E c \in Copies \ {n} : copy[c].at \in {"ready", "unacked", "delay"} /\ copy[c].d.msg = m
        BY <2>2, <2>3, <3>1, <4>2, DropMessage DEF Pending
      <4> QED BY <4>1, <4>2
    <3>4. CASE Pending' = Pending
      BY <1>1, <3>2, <3>4, Stutter
    <3>5. CASE Pending' # Pending
      <4>1. m \in handled \/ m \in redriven \/ m \in Buried
        <5>1. SUFFICES ASSUME m \notin handled, m \notin redriven
                       PROVE  m \in Buried
          OBVIOUS
        <5>2. PICK c \in Copies : Kept(c) /\ copy[c].d.msg = m
          BY <2>2, <5>1 DEF NothingLost
        <5>3. /\ copy[c].at \in Places \ {"script"}
              /\ \A v \in Workers : Live(v) /\ worker[v].c = c => worker[v].pc # "ack"
          BY <5>2, KeptIs
        <5>4. c # n
          BY <1>4, <2>1, <2>4, <5>3
        <5>5. copy[c].at = "dlq"
          BY <3>3, <3>5, <5>2, <5>3, <5>4 DEF Places
        <5> QED BY <5>2, <5>5, AtIs DEF Buried
      <4>2. Promise!Forget(m)
        BY <1>1, <3>2, <3>3, <3>5, <4>1 DEF Promise!Forget, Pending, Buried
      <4> QED BY <4>2 DEF Promise!PromiseNext
    <3> QED BY <3>4, <3>5
  <2>5. CASE worker[w].pc = "requeue"
    <3>1. copy'[n] = Stored("ready", worker[w].d)
      BY <1>4, <2>1, <2>5 DEF Finish, Ack, NackRequeue, Reject, Settle, Live, At, DeliveryTypeOK
    <3>2. copy'[n].at = "ready" /\ copy'[n].d.msg = m
      BY <2>1, <3>1 DEF Stored
    <3>3. Pending' = Pending /\ Buried' = Buried
      BY <2>2, <2>3, <3>2, SameMessages DEF Pending, Buried
    <3> QED BY <1>1, <3>3, Stutter
  <2>6. CASE worker[w].pc = "reject"
    <3>1. copy'[n] = Stored("dlq", [worker[w].d EXCEPT !.key = "dlq"])
      BY <1>4, <2>1, <2>6 DEF Finish, Ack, NackRequeue, Reject, Settle, Live, At, DeliveryTypeOK
    <3>2. copy'[n].at = "dlq" /\ copy'[n].d.msg = m
      BY <1>2, <2>1, <3>1 DEF Stored, HeldType, Bodies
    <3>3. Pending' = Pending \/ Pending' = Pending \ {m}
      BY <2>2, <2>3, <3>2, DropMessage DEF Pending
    <3>4. Buried' = Buried \cup {m}
      BY <2>2, <2>3, <3>2, AddMessage DEF Buried
    <3>5. Promise!Bury(m)
      BY <1>1, <2>2, <3>3, <3>4 DEF Promise!Bury, Pending, Buried
    <3> QED BY <3>5 DEF Promise!PromiseNext
  <2> QED BY <1>1, <2>4, <2>5, <2>6
<1> QED BY <1>3, <1>4

LEMMA PromiseDispatch ==
  ASSUME Inv, Inv', NothingLost, DeliveryAssumption, NEW w \in Workers, Dispatch(w)
  PROVE  [Promise!PromiseNext]_(Promise!promise)
<1> USE DEF Inv, TypeInv
<1>1. CASE HandlerReturns(w)
  <2>1. UNCHANGED <<copy, accepted, redriven>> /\ worker[w].pc = "work"
    BY <1>1 DEF HandlerReturns, At
  <2>2. Pending' = Pending /\ Buried' = Buried
    BY <2>1 DEF Pending, Buried, MessagesAt
  <2>3. Message(w) \in Msgs /\ Message(w) \in accepted
    BY <2>1, HeldShape DEF HandsBacked, Backed, Message, HeldType, Bodies
  <2>4. CASE handled' = handled
    BY <2>1, <2>2, <2>4, Stutter
  <2>5. CASE handled' = handled \cup {Message(w)}
    <3>1. Promise!Handle(Message(w))
      BY <2>1, <2>2, <2>3, <2>5 DEF Promise!Handle, Pending, Buried
    <3> QED BY <2>3, <3>1 DEF Promise!PromiseNext
  <2> QED BY <1>1, <2>4, <2>5 DEF HandlerReturns
<1>2. CASE HandlerFails(w) \/ HandlerPanics(w)
  <2>1. UNCHANGED <<copy, accepted, handled, redriven>>
    BY <1>2 DEF HandlerFails, HandlerPanics
  <2>2. Pending' = Pending /\ Buried' = Buried
    BY <2>1 DEF Pending, Buried, MessagesAt
  <2> QED BY <2>1, <2>2, Stutter
<1>3. ASSUME NEW n \in Copies, Republish(w, n) \/ RepublishFails(w, n)
      PROVE  [Promise!PromiseNext]_(Promise!promise)
  <2>1. /\ worker[w].pc \in {"retry", "dead"} /\ UNCHANGED <<accepted, handled, redriven>>
        /\ UNCHANGED copy \/ Put(n, Republished(w))
    BY <1>3 DEF Republish, RepublishFails, histories
  <2>2. CASE UNCHANGED copy
    <3>1. Pending' = Pending /\ Buried' = Buried
      BY <2>2 DEF Pending, Buried, MessagesAt
    <3> QED BY <2>1, <3>1, Stutter
  <2>3. CASE Put(n, Republished(w))
    BY <2>1, <2>3, PromiseRepublish
  <2> QED BY <2>1, <2>2, <2>3
<1>4. ASSUME NEW k \in Copies, Deliver(w, k)
      PROVE  [Promise!PromiseNext]_(Promise!promise)
  <2>1. copy[k].at = "ready" /\ copy[k] \in [at : Places, d : Bodies]
    BY <1>4, CopyShape DEF Deliver
  <2>2. /\ copy'[k].at = "unacked" /\ copy'[k].d = copy[k].d
        /\ \A c \in Copies \ {k} : copy'[c] = copy[c]
    BY <1>4, <2>1 DEF Deliver, DeliveryTypeOK
  <2>3. Pending' = Pending /\ Buried' = Buried
    BY <2>1, <2>2, SameMessages DEF Pending, Buried
  <2> QED BY <1>4, <2>3, Stutter DEF Deliver, histories
<1>5. CASE Finish(w)
  BY <1>5, PromiseFinish
<1> QED BY <1>1, <1>2, <1>3, <1>4, <1>5 DEF Dispatch

(* The queue, its consumer and the script keep the promise of AtLeastOnce,  *)
(* on which Transport, and so the saga, is modelled.                        *)
THEOREM DeliveryImplementsPromise == DeliverySpec => ImplementsPromise
<1>1. DeliveryInit => Promise!PromiseInit
  <2>1. DeliveryInit => \A c \in Copies : copy[c].at = "none"
    BY DEF DeliveryInit, NoCopy
  <2>2. DeliveryInit => \A x : x \notin Pending /\ x \notin Buried
    BY <2>1, AtIs DEF Pending, Buried
  <2> QED BY <2>2 DEF DeliveryInit, Promise!PromiseInit, Pending, Buried
<1>2. Inv /\ Inv' /\ NothingLost /\ [DeliveryNext]_vars => [Promise!PromiseNext]_(Promise!promise)
  <2> SUFFICES ASSUME Inv, Inv', NothingLost, [DeliveryNext]_vars
               PROVE  [Promise!PromiseNext]_(Promise!promise)
    OBVIOUS
  <2>1. CASE Lifecycle
    BY <2>1, PromiseLifecycle, DeliveryAssumption
  <2>2. CASE Publishes \/ Script \/ \E k \in Copies : Expire(k)
    BY <2>2, PromiseBroker, DeliveryAssumption
  <2>3. CASE \E w \in Workers : Dispatch(w)
    BY <2>3, PromiseDispatch, DeliveryAssumption
  <2>4. CASE UNCHANGED vars
    <3>1. Pending' = Pending /\ Buried' = Buried
      BY <2>4 DEF vars, Pending, Buried, MessagesAt
    <3> QED BY <2>4, <3>1, Stutter DEF vars, histories
  <2> QED BY <2>1, <2>2, <2>3, <2>4 DEF DeliveryNext
<1> QED BY <1>1, <1>2, InvAlways, NothingIsLost, PTL
        DEF DeliverySpec, ImplementsPromise, Promise!PromiseSpec
=============================================================================
