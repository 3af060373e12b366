-------------------------- MODULE MCPaymentService --------------------------
(* Instances of PaymentService for TLC. *)
EXTENDS PaymentService, TLC

WorkerSymmetry == Permutations(PayWorkers)
=============================================================================
