SPECIFICATION FairSpec
CONSTANTS
  Requests = {r1, r2, r3}
  PoolSize = 2
  Orders = {p1}
  i1 = i1
  i2 = i2
  Items = {i1, i2}
  Forms <- Mixed
  Deliveries <- Odd
  NoForm = NoForm
  NoLot = NoLot
INVARIANTS LinesShowReceipts
PROPERTIES DraftsGetNoStock ImplementsOrderBook EveryRequestEnds
CHECK_DEADLOCK FALSE
