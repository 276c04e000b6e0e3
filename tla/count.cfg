SPECIFICATION Spec
CONSTANTS
  Requests = {r1, r2}
  Batches = {b1, b2}
  Items = {i1, i2}
  Counts = {1}
  Versions = {1, 2}
  Deltas = {1}
  MaxMoves = 1
  Null = Null
  NoRow = NoRow
SYMMETRY Symmetry
INVARIANTS OneOpenUnlessRaced
PROPERTIES ImplementsCountBook WrittenWhileOpen CloseBooksTheCounts
