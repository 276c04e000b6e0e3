CONSTANTS
  MaxRecords = 2
  Polls = {1}
  Workers = {w1, w2}
  BatchSize = 1
  RetryLimit = 2
  Decisions = {approve, reject}
  MaxIncidents = 1
  None = None
SPECIFICATION Spec
SYMMETRY Symmetry
INVARIANTS
  ProcessingIsHeld
  SentOnceUnlessUnclaimed
  WebhookOnceUnlessOverwritten
  AcceptedIsDecidedUnlessFailing
  ClaimsAreBounded
