---------------------------- MODULE MCSagaSystem ----------------------------
(* Instances of SagaSystem for TLC. *)
EXTENDS SagaSystem, TLC

CONSTANTS p1, o2

MCProductOf == [o \in Orders |-> p1]
MCQtyOf     == [o \in Orders |-> 1]

(* One order asks for more than the other. *)
MCUnequalQtyOf == [o \in Orders |-> IF o = o2 THEN 2 ELSE 1]

(* Workers of a pool are interchangeable. *)
WorkerSymmetry == Permutations(OrdWorkers) \cup Permutations(InvWorkers) \cup Permutations(PayWorkers)
=============================================================================
