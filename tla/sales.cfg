SPECIFICATION FairSpec
CONSTANTS
  Requests = {r1, r2, r3}
  Workers = {w1, w2}
  Batches = {b1}
  NoBatch = NoBatch
  NoWorker = NoWorker
  MaxStalls = 1
  MaxErrors = 2
  MaxOutages = 2
INVARIANTS CompletedMeansImported RedeliveriesBoundImports PosImportedOnceUnlessRaced
PROPERTIES JobsDecideTheirBatch
CHECK_DEADLOCK FALSE
