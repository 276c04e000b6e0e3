SPECIFICATION Spec
CONSTANTS
  Requests = {r1}
  PoolSize = 2
  Orders = {p1}
  i1 = i1
  i2 = i2
  Items = {i1, i2}
  Forms <- OneItemForms
  Deliveries <- OneItemDeliveries
  NoForm = NoForm
  NoLot = NoLot
INVARIANTS ReceivedMeansBooked
CHECK_DEADLOCK FALSE
