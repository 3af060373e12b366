---------------------------- MODULE AtLeastOnce ----------------------------
(***************************************************************************)
(* What the services rely on when they hand a message to the broker: it    *)
(* stays pending, and may be handled any number of times, until it has     *)
(* been handled, or buried in the dead-letter queue; from there only an    *)
(* operator removes it.  Delivery implements this, and Transport models    *)
(* the system on it.                                                       *)
(***************************************************************************)
CONSTANT Msgs

VARIABLES accepted,  \* messages taken into the queue
          pending,   \* messages that will be delivered, or are being handled
          handled,   \* messages whose handler has completed
          buried,    \* messages in the dead-letter queue
          removed    \* messages an operator took out of it

promise == <<accepted, pending, handled, buried, removed>>

PromiseInit ==
  /\ accepted = {} /\ pending = {}
  /\ handled = {} /\ buried = {} /\ removed = {}

Accept(m) ==
  /\ accepted' = accepted \cup {m}
  /\ pending' = pending \cup {m}
  /\ UNCHANGED <<handled, buried, removed>>

Handle(m) ==
  /\ m \in accepted
  /\ handled' = handled \cup {m}
  /\ UNCHANGED <<accepted, pending, buried, removed>>

(* A message may come back, even after it has been handled. *)
Again(m) ==
  /\ m \in accepted
  /\ pending' = pending \cup {m}
  /\ UNCHANGED <<accepted, handled, buried, removed>>

(* It is forgotten only when something else accounts for it. *)
Forget(m) ==
  /\ m \in handled \cup buried \cup removed
  /\ pending' = pending \ {m}
  /\ UNCHANGED <<accepted, handled, buried, removed>>

Bury(m) ==
  /\ m \in accepted
  /\ buried' = buried \cup {m}
  /\ pending' \in {pending, pending \ {m}}
  /\ UNCHANGED <<accepted, handled, removed>>

Remove(S) ==
  /\ S \subseteq buried
  /\ buried' = buried \ S
  /\ removed' = removed \cup S
  /\ UNCHANGED <<accepted, pending, handled>>

PromiseNext ==
  \/ \E m \in Msgs : Accept(m) \/ Handle(m) \/ Again(m) \/ Forget(m) \/ Bury(m)
  \/ \E S \in SUBSET buried : Remove(S)

PromiseSpec == PromiseInit /\ [][PromiseNext]_promise
=============================================================================
