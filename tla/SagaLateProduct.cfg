CONSTANTS
  p1 = p1
  o2 = o2
  Orders = {o1}
  EventIds = {1, 2}
  CmdIds = {1, 2}
  OrdWorkers = {a1}
  InvWorkers = {b1}
  PayWorkers = {c1}
  MaxFaults = 0
  HttpPayments = {o1}
  ReserveMaxRetries = 1
  Products = {p1}
  Seeded = {}
  SeedQty = 0
  AdminQty = {1}
  ProductOf <- MCProductOf
  QtyOf <- MCQtyOf
SPECIFICATION FairSpec
PROPERTY SagaEndsOnceStocked
