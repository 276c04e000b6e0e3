------------------------------ MODULE MCRecipes ------------------------------
(* Model checking Recipes: the files, ingredients and yields clients send.   *)
EXTENDS Recipes, TLC

CONSTANTS i1, i2, x1, x2, s1, s2

Group1(sku, rows) == [sku |-> sku, name |-> "n1", category |-> "a", rows |-> rows]

\* A recipe for an item from two others, one of them the same; one without an item.
SomeFiles == {<<Group1(s1, <<s2>>)>>, <<Group1(NoSku, <<s1, s1>>), Group1(s1, <<s1>>)>>}
SomeItemFiles == {<<[sku |-> s2, category |-> "a"], [sku |-> s1, category |-> "a"]>>}
SomeItemRows == {[sku |-> s2, category |-> "a"], [sku |-> s1, category |-> "a"]}

Use(target, n) == [uses |-> target, qty |-> n]
SomeIngredients ==
  {<<Use(x2, 3), Use(i1, 2)>>, <<Use(x1, 2), Use(x1, 2)>>, <<Use(i1, 2), Use(x1, 0)>>}
SomeYields == {2, 0}

SymmetricRequests == Permutations(Requests)
=============================================================================
