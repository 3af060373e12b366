CONSTANTS
  Orders = {o1, o2}
  CmdIds = {1, 2}
  EventIds = {1}
  MaxFaults = 1
  PayWorkers = {c1, c2}
  HttpPayments = {o1}
SPECIFICATION PaymentSpec
SYMMETRY WorkerSymmetry
INVARIANTS PaymentTypeOK VerdictsAgree MarkedWithPayment
PROPERTY VerdictIsFinal
