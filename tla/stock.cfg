CONSTANTS
  Calls = {r1, r2}
  Restaurants = {shop, bar}
  StockItems = {milk}
  TransferIds = {t1, t2}
  LogIds = {l1, l2}
  Quantities = {4, 5, 1505}
  Statuses = {"PENDING", "IN_TRANSIT", "COMPLETED", "CANCELLED"}
  GroupNullable = TRUE
  ReasonCodes = {"TRANSFER_OUT", "TRANSFER_IN", "WASTE", "PREP_PRODUCTION", "OPENING_BALANCE"}
  Absent = Absent
SPECIFICATION StockSpec
SYMMETRY Alike
CHECK_DEADLOCK FALSE
INVARIANTS TransferredOnceUnlessRaced
