CONSTANTS
  p1 = p1
  o2 = o2
  Orders = {o1}
  EventIds = {1, 2}
  CmdIds = {1, 2}
  OrdWorkers = {a1}
  InvWorkers = {b1}
  PayWorkers = {c1}
  MaxFaults = 1
  HttpPayments = {}
  ReserveMaxRetries = 1
  Products = {p1}
  Seeded = {p1}
  SeedQty = 1
  AdminQty = {}
  ProductOf <- MCProductOf
  QtyOf <- MCQtyOf
SPECIFICATION FairSpec
INVARIANTS OrderMatchesSaga LiveSagasAreRecoverable HoldMatchesStatus StockAddsUp
PROPERTIES FinishedStays SagaEnds
