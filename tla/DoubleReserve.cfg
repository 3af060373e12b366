CONSTANTS
  p1 = p1
  Orders = {o1, o2}
  CmdIds = {1}
  EventIds = {1}
  MaxFaults = 0
  Products = {p1}
  Seeded = {p1}
  SeedQty = 2
  AdminQty = {}
  ProductOf <- SameProduct
  QtyOf <- OneEach
  InvWorkers = {b1, b2}
  ReserveMaxRetries = 2
SPECIFICATION InventorySpec
INVARIANT ReserveOnce
