---------------------------- MODULE SagaEffects ----------------------------
(***************************************************************************)
(* What the order saga promises, whatever is duplicated, delayed, lost or  *)
(* retried below it: stock is held before money is taken, an order gets    *)
(* one payment verdict for good, held stock goes back only when the        *)
(* payment was declined, and customers read CONFIRMED or COMPENSATED only  *)
(* of orders that are.                                                     *)
(***************************************************************************)
CONSTANT Orders

VARIABLES hold,     \* "none", "held", then "returned"
          verdict,  \* "none", then "paid" or "declined"
          shown     \* what the order's status tells the customer

vars == <<hold, verdict, shown>>

Init ==
  /\ hold = [o \in Orders |-> "none"]
  /\ verdict = [o \in Orders |-> "none"]
  /\ shown = [o \in Orders |-> "open"]

Hold(o) ==
  /\ hold[o] = "none"
  /\ hold' = [hold EXCEPT ![o] = "held"]
  /\ UNCHANGED <<verdict, shown>>

Pay(o) ==
  /\ hold[o] = "held" /\ verdict[o] = "none"
  /\ verdict' = [verdict EXCEPT ![o] = "paid"]
  /\ UNCHANGED <<hold, shown>>

(* An order may be declined before its stock is held: a payment created by *)
(* hand is never a success.                                                *)
Decline(o) ==
  /\ verdict[o] = "none"
  /\ verdict' = [verdict EXCEPT ![o] = "declined"]
  /\ UNCHANGED <<hold, shown>>

Return(o) ==
  /\ hold[o] = "held" /\ verdict[o] = "declined"
  /\ hold' = [hold EXCEPT ![o] = "returned"]
  /\ UNCHANGED <<verdict, shown>>

(* The status is a claim about the effects; it may lag behind them.        *)
Show(o, s) ==
  /\ s = "confirmed" => verdict[o] = "paid"
  /\ s = "compensated" => hold[o] = "returned"
  /\ shown' = [shown EXCEPT ![o] = s]
  /\ UNCHANGED <<hold, verdict>>

Next == \E o \in Orders :
  \/ Hold(o) \/ Pay(o) \/ Decline(o) \/ Return(o)
  \/ \E s \in {"open", "confirmed", "failed", "compensated"} : Show(o, s)

Spec == Init /\ [][Next]_vars
=============================================================================
