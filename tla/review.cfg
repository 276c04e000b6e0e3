CONSTANTS
  p1 = p1
  p2 = p2
  Purchases = {p1, p2}
  Anomalies = {a1}
  Of <- MCOf
  Schemas <- EitherSchema
  Kinds = {"pending", "anomalies"}
  Fetches = {f1, f2}
  Reviews = {r1}
  Requests = {q1, q2}
  NoItems = NoItems
  Nobody = Nobody
  MaxDisturbances = 1
SPECIFICATION Spec
CHECK_DEADLOCK FALSE
SYMMETRY Alike
INVARIANTS
  OpenAnomalyAwaitsDecision
  CountsHoldUnlessDisturbed
PROPERTY OverturnedUntold
