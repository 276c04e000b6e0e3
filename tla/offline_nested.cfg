SPECIFICATION FairSpec
CONSTANTS
  t1 = t1  t2 = t2
  h1 = h1  h2 = h2
  m1 = m1  m2 = m2
  Tabs <- TwoTabs
  Handlers = {h1, h2}
  TabOf <- OnePerTab
  Mutations = {m1, m2}
  KindOf <- TransactionAndReceipt
  Browsers = {TRUE}
  MaxRetry = 2
  NoHandler = NoHandler
  NoMutation = NoMutation
  MaxEntries = 2
  MaxDrops = 2
  MaxReloads = 0
  MaxFailures = 1
PROPERTIES NestedLocksAreFine
CHECK_DEADLOCK FALSE
