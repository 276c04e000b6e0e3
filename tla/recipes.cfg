CONSTANTS
  i1 = i1
  i2 = i2
  x1 = x1
  x2 = x2
  s1 = s1
  s2 = s2
  Requests = {r1, r2}
  Restaurants = {shop}
  CategoryIds = {c1, c2}
  ItemIds = {i1, i2}
  Skus = {s1, s2}
  CategoryNames = {"a"}
  ItemRows <- SomeItemRows
  ItemTypes = {"INGREDIENTS", "PACKAGING", "MERCHANDISE", "SUPPLY", "MISCELLANEOUS"}
  TypedCategories = TRUE
  MaxCalls = 3
  Absent = Absent
  RecipeIds = {x1, x2}
  RecipeNames = {"n1"}
  PosNames = {"pos"}
  Ingredients <- SomeIngredients
  Yields <- SomeYields
  Files <- SomeFiles
  ItemFiles <- SomeItemFiles
  MaxDepth = 3
SPECIFICATION Spec
SYMMETRY SymmetricRequests
CHECK_DEADLOCK FALSE
INVARIANTS
  AcyclicUnlessRewired
  ExpansionFollowsPaths
  UploadedOnceUnlessRaced
  OneCategoryUnlessRaced
