CONSTANTS
  r1 = r1
  r2 = r2
  boss = boss
  cook = cook
  shop = shop
  bar = bar
  pub = pub
  admin = admin
  staff = staff
  guest = guest
  chain = chain
  other = other
  Requests = {r1, r2}
  Users = {boss, cook}
  Roles = {admin, staff, guest}
  Groups = {chain, other}
  Restaurants = {shop, bar, pub}
  Calls <- SomeCalls
  Starts <- SomeStarts
  PoolSize = 2
  None = None
SPECIFICATION Spec
CHECK_DEADLOCK FALSE
INVARIANTS
  OnlyAuthorised
  AuditAgreesWithReply
PROPERTY EveryRequestEnds
