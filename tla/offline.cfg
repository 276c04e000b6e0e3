SPECIFICATION FairSpec
CONSTANTS
  t1 = t1  t2 = t2
  h1 = h1  h2 = h2
  m1 = m1  m2 = m2
  Tabs <- TwoTabs
  Handlers = {h1, h2}
  TabOf <- OnePerTab
  Mutations = {m1, m2}
  KindOf <- TransactionAndScan
  Browsers = {TRUE, FALSE}
  MaxRetry = 2
  NoHandler = NoHandler
  NoMutation = NoMutation
  MaxEntries = 2
  MaxDrops = 2
  MaxReloads = 1
  MaxFailures = 2
INVARIANTS OneTabFlushes DuplicatesTakeReloads EvictedAfterFailures QueuedIsKept
  SavedOnceUnlessRaced
PROPERTIES FlushEnds
CHECK_DEADLOCK FALSE
