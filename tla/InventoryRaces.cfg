CONSTANTS
  p1 = p1
  Orders = {o1}
  CmdIds = {1}
  EventIds = {1}
  MaxFaults = 1
  Products = {p1}
  Seeded = {}
  SeedQty = 0
  AdminQty = {0, 1}
  ProductOf <- SameProduct
  QtyOf <- OneEach
  InvWorkers = {b1, b2, b3}
  ReserveMaxRetries = 2
SPECIFICATION InventorySpec
SYMMETRY WorkerSymmetry
INVARIANTS InventoryTypeOK StockConserved DoubleReserveBound DoubleReleaseBound SuccessIsLogged ReservedCoversLog
