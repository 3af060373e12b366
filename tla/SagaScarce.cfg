CONSTANTS
  p1 = p1
  o2 = o2
  Orders = {o1, o2}
  EventIds = {1}
  CmdIds = {1}
  OrdWorkers = {a1}
  InvWorkers = {b1, b2}
  PayWorkers = {c1}
  MaxFaults = 0
  HttpPayments = {}
  ReserveMaxRetries = 1
  Products = {p1}
  Seeded = {p1}
  SeedQty = 1
  AdminQty = {}
  ProductOf <- MCProductOf
  QtyOf <- MCUnequalQtyOf
SPECIFICATION Spec
SYMMETRY WorkerSymmetry
INVARIANT OversoldIsOverReleased
CHECK_DEADLOCK FALSE
