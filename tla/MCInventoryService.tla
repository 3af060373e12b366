------------------------- MODULE MCInventoryService -------------------------
(* Instances of InventoryService for TLC. *)
EXTENDS InventoryService, TLC

CONSTANT p1

(* Every order wants the same product: contention. *)
SameProduct == [o \in Orders |-> p1]

OneEach == [o \in Orders |-> 1]

WorkerSymmetry == Permutations(InvWorkers)
=============================================================================
