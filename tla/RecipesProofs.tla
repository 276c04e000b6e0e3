---------------------------- MODULE RecipesProofs ----------------------------
(***************************************************************************)
(* Theorems about Recipes, and the ItemCatalogue below it, for any number  *)
(* of requests, restaurants, items, categories, recipes and calls, and for *)
(* files of any length.  That expandBOM follows the paths is proved from  *)
(* what it has listed and has still to expand at each of its queries.     *)
(***************************************************************************)
EXTENDS Recipes, SequenceTheorems, FiniteSetTheorems, TLAPS

\* Intact without pc, row by row: the tables have their types, and every reference of a
\* row names a row.
Typed ==
  /\ categories \in [CategoryIds -> Category \cup {Absent}]
  /\ items \in [ItemIds -> Item \cup {Absent}]
  /\ recipes \in [RecipeIds -> Recipe \cup {Absent}]

RefersWell(x) ==
  /\ \A k \in DOMAIN recipes[x].lines :
       recipes[x].lines[k].uses # Absent => Exists(recipes[x].lines[k].uses)
  /\ recipes[x].produces # Absent => Exists(recipes[x].produces)

Whole ==
  /\ Typed
  /\ \A i \in Stored(items) : items[i].category \in Stored(categories)
  /\ \A i, j \in Stored(items) : items[i].sku = items[j].sku => i = j
  /\ \A o \in overrides : o[1] \in Stored(items)
  /\ \A x \in Stored(recipes) : RefersWell(x)
  /\ \A m \in DOMAIN mappings : mappings[m] \in Stored(recipes) \cup {Absent}

Positions == pc \in [Requests -> Handlers]

LEMMA IntactIsWhole == Intact <=> Whole /\ Positions
<1>1. (\A target \in Referenced \ {Absent} : Exists(target))
        <=> \A x \in Stored(recipes) : RefersWell(x)
  BY DEF Referenced, RefersWell, Used
<1> QED  BY <1>1 DEF Intact, Whole, Typed, Positions

LEMMA IntactIsWholeNext == Intact' <=> Whole' /\ Positions'
<1>1. (\A target \in Referenced \ {Absent} : Exists(target))'
        <=> (\A x \in Stored(recipes) : RefersWell(x))'
  BY DEF Referenced, RefersWell, Used
<1> QED  BY <1>1 DEF Intact, Whole, Typed, Positions

\* What the rows of the tables are.
LEMMA RowsAre ==
  ASSUME Typed
  PROVE  /\ Stored(items) = {i \in ItemIds : items[i] # Absent}
         /\ Stored(categories) = {c \in CategoryIds : categories[c] # Absent}
         /\ Stored(recipes) = {x \in RecipeIds : recipes[x] # Absent}
         /\ \A i \in Stored(items) : items[i] \in Item
         /\ \A c \in Stored(categories) : categories[c] \in Category
         /\ \A x \in Stored(recipes) : recipes[x] \in Recipe
BY DEF Typed, Stored

\* Recipes go on referring well where nothing is taken away.
LEMMA RefersOn ==
  ASSUME \A x \in Stored(recipes) : RefersWell(x),
         Stored(items) \subseteq Stored(items'), Stored(recipes) \subseteq Stored(recipes'),
         NEW x \in Stored(recipes), recipes'[x] = recipes[x]
  PROVE  RefersWell(x)'
BY DEF RefersWell, Exists

-----------------------------------------------------------------------------
(* The tables *)

\* A step that leaves the tables as they are.
LEMMA TablesStay ==
  ASSUME Whole, UNCHANGED <<catalogue, recipes, mappings>>
  PROVE  Whole'
BY DEF Whole, Typed, RefersWell, Exists, catalogue

LEMMA ItemInserted ==
  ASSUME Whole, NEW id \in ItemIds, NEW sku \in Skus, NEW c, NEW owner \in Restaurants,
         InsertItem(id, sku, c, owner), UNCHANGED <<categories, overrides, recipes, mappings>>
  PROVE  Whole'
<1> DEFINE row == [sku |-> sku, category |-> c, owner |-> owner]
<1>1. Typed /\ RecipesAssumption  BY RecipesAssumption DEF Whole
<1>2. /\ items' = [items EXCEPT ![id] = row]
      /\ items[id] = Absent /\ c \in Stored(categories)
      /\ \A i \in Stored(items) : items[i].sku # sku
  BY DEF InsertItem, SkuFree, Unused
<1>3. c \in CategoryIds  BY <1>1, <1>2, RowsAre
<1>4. row \in Item /\ row # Absent  BY <1>1, <1>3 DEF Item
<1>5. Typed'  BY <1>1, <1>2, <1>4 DEF Typed
<1>6. Stored(items') = Stored(items) \cup {id}
  <2>1. Stored(items)' = {i \in ItemIds : items'[i] # Absent}  BY <1>5 DEF Typed, Stored
  <2>2. \A i \in ItemIds : items'[i] = IF i = id THEN row ELSE items[i]
    BY <1>1, <1>2 DEF Typed
  <2> QED  BY <1>1, <1>4, <2>1, <2>2, RowsAre
<1>7. \A i \in Stored(items) : i # id /\ items'[i] = items[i]
  BY <1>1, <1>2, RowsAre DEF Typed
<1>8. items'[id] = row  BY <1>1, <1>2 DEF Typed
<1>9. \A i \in Stored(items') : items'[i].category \in Stored(categories')
  BY <1>2, <1>6, <1>7, <1>8 DEF Whole
<1>10. \A i, j \in Stored(items') : items'[i].sku = items'[j].sku => i = j
  BY <1>2, <1>6, <1>7, <1>8 DEF Whole
<1>11. \A o \in overrides' : o[1] \in Stored(items')  BY <1>6 DEF Whole
<1>12. \A x \in Stored(recipes') : RefersWell(x)'
  BY <1>6, RefersOn DEF Whole
<1> QED  BY <1>5, <1>9, <1>10, <1>11, <1>12 DEF Whole

LEMMA CategoryInserted ==
  ASSUME Whole, NEW id \in CategoryIds, NEW name \in CategoryNames, NEW owner \in Restaurants,
         NEW auto \in BOOLEAN, InsertCategory(id, name, owner, auto),
         UNCHANGED <<items, overrides, recipes, mappings>>
  PROVE  Whole'
<1> DEFINE row == [name |-> name, owner |-> owner, auto |-> auto]
<1>1. Typed /\ RecipesAssumption  BY RecipesAssumption DEF Whole
<1>2. categories' = [categories EXCEPT ![id] = row] /\ categories[id] = Absent
  BY DEF InsertCategory, Unused
<1>3. row \in Category /\ row # Absent  BY <1>1 DEF Category
<1>4. Typed'  BY <1>1, <1>2, <1>3 DEF Typed
<1>5. \A c \in Stored(categories) : c \in Stored(categories')
  BY <1>1, <1>2, <1>3 DEF Typed, Stored
<1>6. \A x \in Stored(recipes') : RefersWell(x)'  BY RefersOn DEF Whole
<1> QED  BY <1>4, <1>5, <1>6 DEF Whole

LEMMA RecipeInserted ==
  ASSUME Whole, NEW x \in RecipeIds, NEW recipe \in Recipe, InsertRecipe(x, recipe),
         UNCHANGED <<catalogue, mappings>>
  PROVE  Whole' /\ Stored(recipes') = Stored(recipes) \cup {x}
<1>1. Typed /\ RecipesAssumption  BY RecipesAssumption DEF Whole
<1>2. /\ recipes' = [recipes EXCEPT ![x] = recipe] /\ recipes[x] = Absent
      /\ \A k \in DOMAIN recipe.lines : Exists(recipe.lines[k].uses)
      /\ recipe.produces = Absent \/ recipe.produces \in Stored(items)
  BY DEF InsertRecipe, Unused
<1>3. recipe # Absent  BY <1>1
<1>4. Typed'  BY <1>1, <1>2 DEF Typed, catalogue
<1>5. Stored(recipes') = Stored(recipes) \cup {x}
  <2>1. Stored(recipes)' = {y \in RecipeIds : recipes'[y] # Absent}  BY <1>4 DEF Typed, Stored
  <2>2. \A y \in RecipeIds : recipes'[y] = IF y = x THEN recipe ELSE recipes[y]
    BY <1>1, <1>2 DEF Typed
  <2> QED  BY <1>1, <1>3, <2>1, <2>2, RowsAre
<1>6. \A y \in Stored(recipes) : recipes'[y] = recipes[y]  BY <1>1, <1>2, RowsAre DEF Typed
<1>7. RefersWell(x)'
  <2>1. recipes'[x] = recipe  BY <1>1, <1>2 DEF Typed
  <2> QED  BY <1>2, <1>5, <2>1 DEF RefersWell, Exists, catalogue
<1>8. \A y \in Stored(recipes) : RefersWell(y)'
  BY <1>5, <1>6, RefersOn DEF Whole, catalogue
<1> QED  BY <1>4, <1>5, <1>7, <1>8 DEF Whole, catalogue

LEMMA ItemUpdated ==
  ASSUME Whole, NEW i \in ItemIds, NEW sku \in Skus, NEW c \in CategoryIds,
         UpdateItem(i, sku, c), UNCHANGED <<recipes, mappings>>
  PROVE  Whole'
<1>1. Typed /\ RecipesAssumption  BY RecipesAssumption DEF Whole
<1>2. /\ i \in Stored(items) /\ c \in Stored(categories)
      /\ SkuFree(sku) \/ items[i].sku = sku
      /\ items' = [items EXCEPT ![i] = [items[i] EXCEPT !.sku = sku, !.category = c]]
      /\ UNCHANGED <<categories, overrides>>
  BY DEF UpdateItem
<1> DEFINE row == [items[i] EXCEPT !.sku = sku, !.category = c]
<1>3. items[i] \in Item  BY <1>1, <1>2, RowsAre
<1>4. items' = [items EXCEPT ![i] = row]  BY <1>2
<1>5. row \in Item /\ row # Absent /\ row.sku = sku /\ row.category = c
  <2>1. row \in Item /\ row.sku = sku /\ row.category = c  BY <1>3 DEF Item
  <2> QED  BY <1>1, <2>1
<1> HIDE DEF row
<1>6. Typed'  BY <1>1, <1>2, <1>4, <1>5 DEF Typed
<1>7. \A j \in ItemIds : items'[j] = IF j = i THEN row ELSE items[j]  BY <1>1, <1>4 DEF Typed
<1>8. Stored(items') = Stored(items)
  <2>1. Stored(items)' = {j \in ItemIds : items'[j] # Absent}  BY <1>6 DEF Typed, Stored
  <2>2. i \in Stored(items) /\ row # Absent  BY <1>2, <1>5
  <2> QED  BY <1>1, <1>7, <2>1, <2>2, RowsAre
<1>9. Stored(items) \subseteq ItemIds  BY <1>1, RowsAre
<1>10. \A j \in Stored(items') : items'[j].category \in Stored(categories')
  BY <1>2, <1>7, <1>8, <1>9 DEF Whole
<1>11. \A j, k \in Stored(items') : items'[j].sku = items'[k].sku => j = k
  <2>1. \A j \in Stored(items) : j # i => items[j].sku # sku
    BY <1>2 DEF SkuFree, Whole
  <2> QED  BY <1>5, <1>7, <1>8, <1>9, <2>1 DEF Whole
<1>12. \A x \in Stored(recipes') : RefersWell(x)'  BY <1>8, RefersOn DEF Whole
<1> QED  BY <1>2, <1>6, <1>8, <1>10, <1>11, <1>12 DEF Whole

\* What no recipe refers to can go.
LEMMA ItemsDeleted ==
  ASSUME Whole, NEW ids \in SUBSET ItemIds, DeleteItems(ids, Referenced),
         UNCHANGED <<recipes, mappings>>
  PROVE  Whole'
<1>1. Typed /\ RecipesAssumption  BY RecipesAssumption DEF Whole
<1>2. /\ ids \cap (Referenced \cup {o[1] : o \in overrides}) = {}
      /\ items' = [i \in ItemIds |-> IF i \in ids THEN Absent ELSE items[i]]
      /\ UNCHANGED <<categories, overrides>>
  BY DEF DeleteItems
<1>3. Typed'  BY <1>1, <1>2 DEF Typed
<1>4. Stored(items') = Stored(items) \ ids
  <2>1. Stored(items)' = {j \in ItemIds : items'[j] # Absent}  BY <1>3 DEF Typed, Stored
  <2> QED  BY <1>1, <1>2, <2>1, RowsAre
<1>5. \A i \in Stored(items') : i \in Stored(items) /\ items'[i] = items[i]
  BY <1>1, <1>2, <1>4, RowsAre
<1>6. \A o \in overrides' : o[1] \in Stored(items')  BY <1>2, <1>4 DEF Whole
<1>7. ASSUME NEW x \in Stored(recipes) PROVE RefersWell(x)'
  <2>1. \A k \in DOMAIN recipes[x].lines : recipes[x].lines[k].uses \notin ids
    BY <1>2, <1>7 DEF Referenced, Used
  <2>2. recipes[x].produces \notin ids  BY <1>2, <1>7 DEF Referenced
  <2>3. \A t : Exists(t) /\ t \notin ids => Exists(t)'  BY <1>4 DEF Exists
  <2> QED  BY <1>7, <2>1, <2>2, <2>3 DEF Whole, RefersWell
<1> QED  BY <1>2, <1>3, <1>5, <1>6, <1>7 DEF Whole

LEMMA CategoryUpdated ==
  ASSUME Whole, NEW c \in CategoryIds, NEW name \in CategoryNames, UpdateCategory(c, name),
         UNCHANGED <<recipes, mappings>>
  PROVE  Whole'
<1>1. Typed /\ RecipesAssumption  BY RecipesAssumption DEF Whole
<1>2. /\ c \in Stored(categories)
      /\ categories' = [categories EXCEPT ![c] = [categories[c] EXCEPT !.name = name, !.auto = FALSE]]
      /\ UNCHANGED <<items, overrides>>
  BY DEF UpdateCategory
<1> DEFINE row == [categories[c] EXCEPT !.name = name, !.auto = FALSE]
<1>3. categories[c] \in Category  BY <1>1, <1>2, RowsAre
<1>4. categories' = [categories EXCEPT ![c] = row]  BY <1>2
<1>5. row \in Category /\ row # Absent /\ ~row.auto
  <2>1. row \in Category /\ ~row.auto  BY <1>3 DEF Category
  <2> QED  BY <1>1, <2>1
<1> HIDE DEF row
<1>6. Typed'  BY <1>1, <1>2, <1>4, <1>5 DEF Typed
<1>7. \A d \in Stored(categories) : d \in Stored(categories')
  BY <1>1, <1>4, <1>5 DEF Typed, Stored
<1>8. \A x \in Stored(recipes') : RefersWell(x)'  BY <1>2, RefersOn DEF Whole
<1> QED  BY <1>2, <1>6, <1>7, <1>8 DEF Whole

LEMMA CategoriesDeleted ==
  ASSUME Whole, NEW ids \in SUBSET CategoryIds, DeleteCategories(ids),
         UNCHANGED <<recipes, mappings>>
  PROVE  Whole'
<1>1. Typed /\ RecipesAssumption  BY RecipesAssumption DEF Whole
<1>2. /\ \A i \in Stored(items) : items[i].category \notin ids
      /\ categories' = [c \in CategoryIds |-> IF c \in ids THEN Absent ELSE categories[c]]
      /\ UNCHANGED <<items, overrides>>
  BY DEF DeleteCategories
<1>3. Typed'  BY <1>1, <1>2 DEF Typed
<1>4. \A d \in Stored(categories) \ ids : d \in Stored(categories')
  BY <1>1, <1>2 DEF Typed, Stored
<1>5. \A x \in Stored(recipes') : RefersWell(x)'  BY <1>2, RefersOn DEF Whole
<1> QED  BY <1>2, <1>3, <1>4, <1>5 DEF Whole

LEMMA RecipeUpdated ==
  ASSUME Whole, NEW x \in Stored(recipes), NEW yield \in Nat,
         NEW lines \in Seq(Line) \ {<<>>}, UpdateRecipe(x, yield, lines)
  PROVE  /\ Whole' /\ Stored(recipes') = Stored(recipes)
         /\ \A y \in Stored(recipes) :
              /\ recipes'[y].file = recipes[y].file /\ recipes'[y].name = recipes[y].name
              /\ recipes'[y].produces = recipes[y].produces
<1>1. Typed /\ RecipesAssumption  BY RecipesAssumption DEF Whole
<1>2. /\ \A k \in DOMAIN lines : Exists(lines[k].uses)
      /\ recipes' = [recipes EXCEPT ![x] = [recipes[x] EXCEPT !.yield = yield, !.lines = lines]]
      /\ UNCHANGED <<catalogue, mappings>>
  BY DEF UpdateRecipe
<1> DEFINE row == [recipes[x] EXCEPT !.yield = yield, !.lines = lines]
<1>3. recipes[x] \in Recipe /\ x \in RecipeIds  BY <1>1, RowsAre
<1>4. recipes' = [recipes EXCEPT ![x] = row]  BY <1>2
<1>5. row \in Recipe /\ row.lines = lines  BY <1>3 DEF Recipe
<1>14. /\ row.produces = recipes[x].produces /\ row.name = recipes[x].name
      /\ row.file = recipes[x].file
  BY <1>3 DEF Recipe
<1>6. row # Absent  BY <1>1, <1>5
<1> HIDE DEF row
<1>7. Typed'  BY <1>1, <1>2, <1>4, <1>5 DEF Typed, catalogue
<1>8. \A y \in RecipeIds : recipes'[y] = IF y = x THEN row ELSE recipes[y]
  BY <1>1, <1>4 DEF Typed
<1>9. Stored(recipes') = Stored(recipes)
  <2>1. Stored(recipes)' = {y \in RecipeIds : recipes'[y] # Absent}  BY <1>7 DEF Typed, Stored
  <2> QED  BY <1>1, <1>6, <1>8, <2>1, RowsAre
<1>10. \A t : Exists(t) => Exists(t)'  BY <1>2, <1>9 DEF Exists, catalogue
<1>11. RefersWell(x)'
  <2>1. recipes'[x].lines = lines /\ recipes'[x].produces = recipes[x].produces  BY <1>3, <1>5, <1>14, <1>8
  <2>2. RefersWell(x)  BY DEF Whole
  <2>3. \A k \in DOMAIN lines : Exists(lines[k].uses)'  BY <1>2, <1>10
  <2>4. \A t : t = recipes[x].produces /\ t # Absent => Exists(t)'
    BY <1>10, <2>2 DEF RefersWell
  <2> QED  BY <2>1, <2>3, <2>4 DEF RefersWell
<1>12. \A y \in Stored(recipes) : y # x => RefersWell(y)'
  BY <1>1, <1>8, <1>10, RowsAre DEF RefersWell, Whole
<1>13. \A y \in Stored(recipes) :
         /\ recipes'[y].file = recipes[y].file /\ recipes'[y].name = recipes[y].name
         /\ recipes'[y].produces = recipes[y].produces
  BY <1>1, <1>8, <1>14, RowsAre
<1> QED  BY <1>2, <1>7, <1>9, <1>11, <1>12, <1>13 DEF Whole, catalogue

\* What only its own lines refer to can go, with its mappings.
LEMMA RecipeDeleted ==
  ASSUME Whole, NEW x \in RecipeIds, DeleteRecipe(x)
  PROVE  /\ Whole' /\ Stored(recipes') \subseteq Stored(recipes)
         /\ \A y \in Stored(recipes') : recipes'[y] = recipes[y]
<1>1. Typed /\ RecipesAssumption  BY RecipesAssumption DEF Whole
<1>2. /\ x \in Stored(recipes)
      /\ \A y \in Stored(recipes) \ {x} : x \notin Used(y)
      /\ recipes' = [recipes EXCEPT ![x] = Absent]
      /\ mappings' = [m \in DOMAIN mappings |-> IF mappings[m] = x THEN Absent ELSE mappings[m]]
      /\ UNCHANGED catalogue
  BY DEF DeleteRecipe
<1>3. Typed'  BY <1>1, <1>2 DEF Typed, catalogue
<1>4. \A y \in RecipeIds : recipes'[y] = IF y = x THEN Absent ELSE recipes[y]
  BY <1>1, <1>2 DEF Typed
<1>5. Stored(recipes') = Stored(recipes) \ {x}
  <2>1. Stored(recipes)' = {y \in RecipeIds : recipes'[y] # Absent}  BY <1>3 DEF Typed, Stored
  <2> QED  BY <1>1, <1>4, <2>1, RowsAre
<1>6. \A y \in Stored(recipes') : recipes'[y] = recipes[y]  BY <1>1, <1>4, <1>5, RowsAre
<1>7. ASSUME NEW y \in Stored(recipes') PROVE RefersWell(y)'
  <2>1. \A k \in DOMAIN recipes[y].lines : recipes[y].lines[k].uses # x
    BY <1>2, <1>5 DEF Used
  <2>2. recipes[y].produces # Absent => recipes[y].produces # x
    <3>1. recipes[y] \in Recipe  BY <1>1, <1>5, RowsAre
    <3> QED  BY <1>1, <3>1 DEF Recipe, RecipesAssumption
  <2>3. \A t : Exists(t) /\ t # x => Exists(t)'  BY <1>2, <1>5 DEF Exists, catalogue
  <2>4. RefersWell(y)  BY <1>5 DEF Whole
  <2> QED  BY <1>6, <2>1, <2>2, <2>3, <2>4 DEF RefersWell
<1>8. \A m \in DOMAIN mappings' : mappings'[m] \in Stored(recipes') \cup {Absent}
  BY <1>2, <1>5 DEF Whole
<1> QED  BY <1>2, <1>3, <1>5, <1>6, <1>7, <1>8 DEF Whole, catalogue

LEMMA MappingChanged ==
  ASSUME Whole, NEW m \in DOMAIN mappings, NEW x \in Stored(recipes) \cup {Absent},
         mappings' = [mappings EXCEPT ![m] = x], UNCHANGED <<catalogue, recipes>>
  PROVE  Whole'
<1>1. \A n \in DOMAIN mappings' : mappings'[n] \in Stored(recipes') \cup {Absent}
  BY DEF Whole
<1> QED  BY <1>1 DEF Whole, Typed, RefersWell, Exists, catalogue

LEMMA OverridePut ==
  ASSUME Whole, NEW i \in ItemIds, NEW owner, NEW existed, PutOverride(i, owner, existed),
         UNCHANGED <<recipes, mappings>>
  PROVE  Whole'
<1>1. UNCHANGED <<categories, items>>  BY DEF PutOverride
<1>2. \A o \in overrides' : o \in overrides \/ (i \in Stored(items) /\ o = <<i, owner>>)
  BY DEF PutOverride
<1>3. \A o \in overrides' : o[1] \in Stored(items')  BY <1>1, <1>2 DEF Whole
<1> QED  BY <1>1, <1>3 DEF Whole, Typed, RefersWell, Exists

-----------------------------------------------------------------------------
(* What requests carry *)

Tasks == {NoTask} \cup RowsTask \cup OverrideTask \cup UploadTask \cup ExpansionTask

LEMMA GroupIs ==
  ASSUME NEW t \in UploadTask
  PROVE  /\ Head(t.file) \in Group
         /\ Head(t.file).rows \in Seq(Skus) /\ Len(Head(t.file).rows) > 0
<1>1. t.file \in Seq(Group) /\ t.file # <<>>  BY DEF UploadTask
<1>2. Head(t.file) \in Group  BY <1>1
<1>3. Head(t.file).rows \in Seq(Skus) \ {<<>>}  BY <1>2 DEF Group
<1> QED  BY <1>2, <1>3

\* The next group begins with a task that knows nothing yet.
LEMMA GroupStarts ==
  ASSUME NEW owner \in Restaurants, NEW file \in Seq(Group) \ {<<>>}
  PROVE  /\ Task(owner, file) \in Tasks
         /\ Start(file) \in Handlers /\ Start(file) \in Uploading
         /\ Fits(Start(file), Task(owner, file))
         /\ \A recipeTable, categoryTable :
              Knows(Start(file), Task(owner, file), recipeTable, categoryTable)
<1> DEFINE t == Task(owner, file)
<1>1. t \in UploadTask /\ t.file = file /\ t.row = 0  BY DEF Task, UploadTask
<1>2. Start(file) \in {"existing", "lookup"} /\ (Start(file) = "lookup" => Head(file).sku # NoSku)
  BY DEF Start
<1>3. Len(Head(file).rows) > 0 /\ Len(Head(file).rows) \in Nat  BY <1>1, GroupIs
<1> HIDE DEF t
<1>4. Fits(Start(file), t)  BY <1>1, <1>2, <1>3 DEF Fits, Uploading
<1>5. \A recipeTable, categoryTable : Knows(Start(file), t, recipeTable, categoryTable)
  BY <1>1, <1>2 DEF Knows
<1> QED  BY <1>1, <1>2, <1>4, <1>5 DEF t, Tasks, Handlers, Uploading

\* A request goes to its next query: the others are where they were.
LEMMA Goes ==
  ASSUME Positions, TasksFit, NEW r \in Requests, NEW next \in Handlers, NEW t \in Tasks,
         Fits(next, t), Goto(r, next, t)
  PROVE  /\ Positions' /\ TasksFit'
         /\ pc'[r] = next /\ (next # "idle" => task'[r] = t)
         /\ \A q \in Requests : q # r => pc'[q] = pc[q] /\ task'[q] = task[q]
<1> DEFINE u == IF next = "idle" THEN NoTask ELSE t
<1>1. pc' = [pc EXCEPT ![r] = next] /\ task' = [task EXCEPT ![r] = u]  BY DEF Goto
<1>2. pc \in [Requests -> Handlers] /\ task \in [Requests -> Tasks]
  BY DEF Positions, TasksFit, Tasks
<1>3. u \in Tasks /\ Fits(next, u)
  <2>1. Fits("idle", NoTask)  BY DEF Fits, Uploading
  <2> QED  BY <2>1 DEF Tasks
<1> HIDE DEF u
<1>4. /\ pc' \in [Requests -> Handlers] /\ task' \in [Requests -> Tasks]
      /\ \A q \in Requests : /\ pc'[q] = IF q = r THEN next ELSE pc[q]
                             /\ task'[q] = IF q = r THEN u ELSE task[q]
  BY <1>1, <1>2, <1>3
<1>5. \A q \in Requests : Fits(pc'[q], task'[q])  BY <1>3, <1>4 DEF TasksFit
<1>6. TasksFit'  BY <1>4, <1>5 DEF TasksFit, Tasks, Fits
<1> QED  BY <1>4, <1>6 DEF Positions, u

-----------------------------------------------------------------------------
(* What uploads know *)

\* No upload has made a recipe in this step, or a category.
NoneMade ==
  \A x \in Stored(recipes') :
    recipes'[x].file # "client" =>
      /\ x \in Stored(recipes) /\ recipes'[x].file = recipes[x].file
      /\ recipes'[x].name = recipes[x].name /\ recipes'[x].produces = recipes[x].produces
NoneEnsured ==
  \A c \in Stored(categories') :
    categories'[c].auto => c \in Stored(categories) /\ categories'[c] = categories[c]

LEMMA KnowsStill ==
  ASSUME NoneMade, NoneEnsured, NEW query, NEW t, Knows(query, t, recipes, categories)
  PROVE  Knows(query, t, recipes', categories')
BY DEF NoneMade, NoneEnsured, Knows, Made, Ensures

LEMMA OnceStill ==
  ASSUME UploadedOnceUnlessRaced, NoneMade, alone' => alone
  PROVE  UploadedOnceUnlessRaced'
BY DEF UploadedOnceUnlessRaced, NoneMade

LEMMA OneStill ==
  ASSUME OneCategoryUnlessRaced, NoneEnsured, alone' => alone
  PROVE  OneCategoryUnlessRaced'
BY DEF OneCategoryUnlessRaced, NoneEnsured

\* A step that makes nothing, of a request that is not uploading recipes.
LEMMA OthersKnow ==
  ASSUME AloneInv, Positions, NoneMade, NoneEnsured, alone' => alone,
         \A q \in Requests : InUpload(q)' => InUpload(q) /\ pc'[q] = pc[q] /\ task'[q] = task[q]
  PROVE  AloneInv'
<1> SUFFICES ASSUME alone'
             PROVE  /\ \A q, r \in Requests : InUpload(q)' /\ InUpload(r)' => q = r
                    /\ \A r \in Requests :
                         InUpload(r)' => Knows(pc'[r], task'[r], recipes', categories')
  BY DEF AloneInv
<1>1. \A q, r \in Requests : InUpload(q)' /\ InUpload(r)' => q = r  BY DEF AloneInv
<1>2. ASSUME NEW r \in Requests, InUpload(r)'
      PROVE  Knows(pc'[r], task'[r], recipes', categories')
  <2>1. Knows(pc[r], task[r], recipes, categories)  BY <1>2 DEF AloneInv
  <2>2. Knows(pc[r], task[r], recipes', categories')  BY <2>1, KnowsStill
  <2> QED  BY <1>2, <2>2
<1> QED  BY <1>1, <1>2

\* A step of the only upload: what it must know is for it alone.
LEMMA UploadKnows ==
  ASSUME AloneInv, NEW r \in Requests, InUpload(r), UNCHANGED alone, NEW next, NEW t,
         pc'[r] = next, next \in Uploading => task'[r] = t,
         \A q \in Requests : q # r => pc'[q] = pc[q] /\ task'[q] = task[q],
         alone /\ next \in Uploading => Knows(next, t, recipes', categories')
  PROVE  AloneInv'
<1> SUFFICES ASSUME alone
             PROVE  /\ \A p, q \in Requests : InUpload(p)' /\ InUpload(q)' => p = q
                    /\ \A q \in Requests :
                         InUpload(q)' => Knows(pc'[q], task'[q], recipes', categories')
  BY DEF AloneInv
<1>1. \A q \in Requests : InUpload(q)' => q = r  BY DEF AloneInv, InUpload
<1>2. InUpload(r)' => next \in Uploading  BY DEF InUpload
<1> QED  BY <1>1, <1>2

\* A client's edit makes nothing and moves no request.
LEMMA EditKeeps ==
  ASSUME IInv, Whole', NoneMade, NoneEnsured, NoRequest
  PROVE  IInv'
<1>1. Positions  BY IntactIsWhole DEF IInv
<1>2. Positions'  BY <1>1 DEF Positions, NoRequest
<1>3. Intact'  BY <1>2, IntactIsWholeNext
<1>4. TasksFit'  BY DEF IInv, TasksFit, Fits, NoRequest
<1>5. AloneInv'  BY <1>1, OthersKnow DEF IInv, NoRequest, InUpload
<1>6. UploadedOnceUnlessRaced' /\ OneCategoryUnlessRaced'
  BY OnceStill, OneStill DEF IInv, NoRequest
<1> QED  BY <1>3, <1>4, <1>5, <1>6 DEF IInv, NoRequest

\* A request that neither was uploading recipes nor will makes nothing either.
LEMMA AsideKeeps ==
  ASSUME IInv, Whole', NoneMade, NoneEnsured, UNCHANGED alone,
         NEW r \in Requests, ~InUpload(r), NEW next \in Handlers, next \notin Uploading,
         NEW t \in Tasks, Fits(next, t), Goto(r, next, t)
  PROVE  IInv'
<1>1. Positions /\ TasksFit  BY IntactIsWhole DEF IInv
<1>2. /\ Positions' /\ TasksFit' /\ pc'[r] = next
      /\ \A q \in Requests : q # r => pc'[q] = pc[q] /\ task'[q] = task[q]
  BY <1>1, Goes
<1>3. Intact'  BY <1>2, IntactIsWholeNext
<1>4. AloneInv'  BY <1>1, <1>2, OthersKnow DEF IInv, InUpload
<1>5. UploadedOnceUnlessRaced' /\ OneCategoryUnlessRaced'  BY OnceStill, OneStill DEF IInv
<1> QED  BY <1>2, <1>3, <1>4, <1>5 DEF IInv

\* A step of an upload that makes nothing.
LEMMA QueryKeeps ==
  ASSUME IInv, Whole', NoneMade, NoneEnsured, UNCHANGED alone,
         NEW r \in Requests, InUpload(r), NEW next \in Handlers,
         NEW t \in Tasks, Fits(next, t), Goto(r, next, t),
         alone /\ next \in Uploading => Knows(next, t, recipes', categories')
  PROVE  IInv'
<1>1. Positions /\ TasksFit  BY IntactIsWhole DEF IInv
<1>2. /\ Positions' /\ TasksFit' /\ pc'[r] = next /\ (next # "idle" => task'[r] = t)
      /\ \A q \in Requests : q # r => pc'[q] = pc[q] /\ task'[q] = task[q]
  BY <1>1, Goes
<1>3. Intact'  BY <1>2, IntactIsWholeNext
<1>4. next \in Uploading => task'[r] = t  BY <1>2 DEF Uploading
<1>5. AloneInv'  BY <1>2, <1>4, UploadKnows DEF IInv
<1>6. UploadedOnceUnlessRaced' /\ OneCategoryUnlessRaced'  BY OnceStill, OneStill DEF IInv
<1> QED  BY <1>2, <1>3, <1>5, <1>6 DEF IInv

-----------------------------------------------------------------------------
(* Where an upload goes next *)

LEMMA UploadIs ==
  ASSUME TasksFit, NEW r \in Requests, InUpload(r)
  PROVE  /\ task[r] \in UploadTask /\ task[r] \in Tasks /\ Fits(pc[r], task[r])
         /\ task[r].row \in Nat /\ task[r].row =< Len(Head(task[r].file).rows)
<1>1. Fits(pc[r], task[r])  BY DEF TasksFit
<1>2. task[r] \in UploadTask /\ task[r].row =< Len(Head(task[r].file).rows)
  BY <1>1 DEF Fits, InUpload
<1> QED  BY <1>1, <1>2 DEF UploadTask, Tasks

LEMMA NextGroupGoes ==
  ASSUME TasksFit, NEW r \in Requests, InUpload(r), NextGroup(r)
  PROVE  \E next \in Handlers, t \in Tasks :
           /\ Goto(r, next, t) /\ Fits(next, t)
           /\ \A recipeTable, categoryTable :
                next \in Uploading => Knows(next, t, recipeTable, categoryTable)
<1> DEFINE rest == Tail(task[r].file)
<1>1. task[r] \in UploadTask  BY UploadIs
<1>2. rest \in Seq(Group) /\ task[r].owner \in Restaurants  BY <1>1 DEF UploadTask
<1>3. CASE rest = <<>>
  <2>1. Goto(r, "idle", NoTask)  BY <1>3 DEF NextGroup
  <2>2. Fits("idle", NoTask) /\ "idle" \in Handlers /\ NoTask \in Tasks /\ "idle" \notin Uploading
    BY DEF Fits, Handlers, Tasks, Uploading
  <2> QED  BY <2>1, <2>2
<1>4. CASE rest # <<>>
  <2>1. Goto(r, Start(rest), Task(task[r].owner, rest))  BY <1>4 DEF NextGroup
  <2> HIDE DEF rest
  <2> QED  BY <1>2, <1>4, <2>1, GroupStarts
<1> QED  BY <1>3, <1>4

LEMMA EnsuredGoes ==
  ASSUME TasksFit, NEW r \in Requests, pc[r] \in {"lookup", "item"}, NEW id \in ItemIds,
         Ensured(r, id)
  PROVE  \E next \in Handlers, t \in Tasks :
           /\ Goto(r, next, t) /\ Fits(next, t)
           /\ \A recipeTable, categoryTable :
                Knows(pc[r], task[r], recipeTable, categoryTable)
                  => Knows(next, t, recipeTable, categoryTable)
<1> DEFINE t == task[r]
           n == Len(Head(task[r].file).rows)
<1>1. InUpload(r)  BY DEF InUpload, Uploading
<1>2. t \in UploadTask /\ t.row \in Nat /\ t.row =< n  BY <1>1, UploadIs
<1>3. n \in Nat /\ n > 0  BY <1>2, GroupIs
<1>4. CASE t.row = 0
  <2> DEFINE u == [t EXCEPT !.produces = id]
  <2>1. Goto(r, "existing", u)  BY <1>4 DEF Ensured
  <2>2. u \in UploadTask /\ u.row = 0 /\ u.file = t.file  BY <1>2, <1>4 DEF UploadTask
  <2> HIDE DEF u, t
  <2>3. Fits("existing", u)  BY <1>2, <1>4, <2>2 DEF Fits, Uploading
  <2>4. \A recipeTable, categoryTable : Knows("existing", u, recipeTable, categoryTable)
    BY <2>2 DEF Knows
  <2> QED  BY <2>1, <2>2, <2>3, <2>4 DEF Handlers, Tasks
<1>5. CASE t.row # 0
  <2> DEFINE next == IF t.row = n THEN "create" ELSE "lookup"
             got == Append(t.got, id)
             row == IF t.row = n THEN t.row ELSE t.row + 1
             u == [t EXCEPT !.got = got, !.row = row]
  <2>1. Goto(r, next, u)  BY <1>5 DEF Ensured
  <2>2. got \in Seq(ItemIds) /\ got # <<>>
    <3>1. t.got \in Seq(ItemIds)  BY <1>2 DEF UploadTask
    <3> QED  BY <3>1, AppendProperties
  <2>8. row \in Nat /\ row > 0 /\ row =< n  BY <1>2, <1>3, <1>5
  <2> HIDE DEF got, row, t
  <2>3. /\ u \in UploadTask /\ u.got = got /\ u.file = t.file
        /\ u.produces = t.produces /\ u.row = row
    BY <1>2, <2>2, <2>8 DEF UploadTask
  <2>4. next \in {"create", "lookup"}  OBVIOUS
  <2> HIDE DEF u, next
  <2>5. Fits(next, u)  BY <2>2, <2>3, <2>4, <2>8 DEF Fits, Uploading, t
  <2>6. t.row > 0  BY <1>2, <1>5
  <2>7. \A recipeTable, categoryTable :
          Knows(pc[r], t, recipeTable, categoryTable) => Knows(next, u, recipeTable, categoryTable)
    BY <2>3, <2>4, <2>6, <2>8 DEF Knows, Made
  <2> QED  BY <2>1, <2>3, <2>4, <2>5, <2>7 DEF Handlers, Tasks, t
<1> QED  BY <1>4, <1>5

-----------------------------------------------------------------------------
(* The steps of the uploads of recipes *)

LEMMA NoneAtAll ==
  ASSUME UNCHANGED <<recipes, categories>>
  PROVE  NoneMade /\ NoneEnsured
BY DEF NoneMade, NoneEnsured

LEMMA GroupFailsKeeps ==
  ASSUME IInv, NEW r \in Requests, GroupFails(r)
  PROVE  IInv'
<1>1. /\ InUpload(r) /\ NextGroup(r) /\ UNCHANGED alone
      /\ UNCHANGED <<catalogue, recipes, mappings>>
  BY DEF GroupFails, Elsewhere
<1>2. Whole' /\ NoneMade /\ NoneEnsured
  BY <1>1, IntactIsWhole, TablesStay, NoneAtAll DEF IInv, catalogue
<1>3. PICK next \in Handlers, t \in Tasks :
        /\ Goto(r, next, t) /\ Fits(next, t)
        /\ \A recipeTable, categoryTable :
             next \in Uploading => Knows(next, t, recipeTable, categoryTable)
  BY <1>1, NextGroupGoes DEF IInv
<1> QED  BY <1>1, <1>2, <1>3, QueryKeeps

LEMMA LookupKeeps ==
  ASSUME IInv, NEW r \in Requests, Lookup(r)
  PROVE  IInv'
<1>1. /\ pc[r] = "lookup" /\ UNCHANGED alone
      /\ UNCHANGED <<catalogue, recipes, mappings, categories>>
  BY DEF Lookup, Elsewhere, catalogue
<1>2. Whole' /\ NoneMade /\ NoneEnsured
  BY <1>1, IntactIsWhole, TablesStay, NoneAtAll DEF IInv
<1>3. InUpload(r)  BY <1>1 DEF InUpload, Uploading
<1>4. alone => Knows(pc[r], task[r], recipes', categories')
  BY <1>1, <1>3 DEF IInv, AloneInv
<1>5. /\ task[r] \in Tasks /\ task[r] \in UploadTask /\ Fits(pc[r], task[r])
      /\ task[r].row =< Len(Head(task[r].file).rows)
  BY <1>3, UploadIs DEF IInv
<1>6. CASE Goto(r, "categories", task[r])
  <2>1. Fits("categories", task[r]) /\ "categories" \in Handlers
    BY <1>1, <1>5 DEF Fits, Handlers, Uploading
  <2>2. alone => Knows("categories", task[r], recipes', categories')
    BY <1>1, <1>4 DEF Knows
  <2> QED  BY <1>1, <1>2, <1>3, <1>5, <1>6, <2>1, <2>2, QueryKeeps
<1>7. ASSUME NEW id \in FindBySku(Sku(task[r]), task[r].owner), Ensured(r, id)
      PROVE  IInv'
  <2>1. id \in ItemIds
    BY RowsAre, IntactIsWhole DEF IInv, Whole, FindBySku
  <2>2. PICK next \in Handlers, t \in Tasks :
          /\ Goto(r, next, t) /\ Fits(next, t)
          /\ \A recipeTable, categoryTable :
               Knows(pc[r], task[r], recipeTable, categoryTable)
                 => Knows(next, t, recipeTable, categoryTable)
    BY <1>1, <1>7, <2>1, EnsuredGoes DEF IInv
  <2> QED  BY <1>1, <1>2, <1>3, <1>4, <2>2, QueryKeeps
<1> QED  BY <1>6, <1>7 DEF Lookup

LEMMA LookupCategoryKeeps ==
  ASSUME IInv, NEW r \in Requests, LookupCategory(r)
  PROVE  IInv'
<1> DEFINE t == task[r]
           found == FindCategory(Head(t.file).category, t.owner)
<1>1. /\ pc[r] = "categories" /\ UNCHANGED alone /\ FindOrCreate(r, found)
      /\ UNCHANGED <<catalogue, recipes, mappings, categories>>
  BY DEF LookupCategory, Elsewhere, catalogue
<1>2. Whole' /\ NoneMade /\ NoneEnsured
  BY <1>1, IntactIsWhole, TablesStay, NoneAtAll DEF IInv
<1>3. InUpload(r)  BY <1>1 DEF InUpload, Uploading
<1>4. alone => Knows("categories", t, recipes', categories')
  BY <1>1, <1>3 DEF IInv, AloneInv
<1>5. t \in Tasks /\ t \in UploadTask /\ Fits("categories", t)
  BY <1>1, <1>3, UploadIs DEF IInv
<1>6. ASSUME found = {}  PROVE  IInv'
  <2>1. Goto(r, "category", t)  BY <1>1, <1>6 DEF FindOrCreate
  <2>2. Fits("category", t) /\ "category" \in Handlers  BY <1>5 DEF Fits, Handlers, Uploading
  <2>3. \A c \in Stored(categories) : ~Ensures(categories[c], t)
    BY <1>6 DEF FindCategory, ListCategories, Ensures
  <2> HIDE DEF t
  <2>4. alone => Knows("category", t, recipes', categories')  BY <1>1, <1>4, <2>3 DEF Knows
  <2> QED  BY <1>1, <1>2, <1>3, <1>5, <2>1, <2>2, <2>4, QueryKeeps
<1>7. ASSUME NEW c \in found, Goto(r, "item", [t EXCEPT !.category = c])
      PROVE  IInv'
  <2> DEFINE u == [t EXCEPT !.category = c]
  <2>1. c \in CategoryIds
    BY RowsAre, IntactIsWhole DEF IInv, Whole, FindCategory, ListCategories
  <2>2. /\ u \in UploadTask /\ u.category = c /\ u.file = t.file /\ u.row = t.row
        /\ u.produces = t.produces
    BY <1>5, <2>1 DEF UploadTask
  <2>3. Goto(r, "item", u)  BY <1>7
  <2> HIDE DEF u, t
  <2>4. Fits("item", u) /\ "item" \in Handlers
    BY <1>5, <2>1, <2>2 DEF Fits, Uploading, Handlers
  <2>5. alone => Knows("item", u, recipes', categories')  BY <1>4, <2>2 DEF Knows, Made
  <2>6. u \in Tasks  BY <2>2 DEF Tasks
  <2> QED  BY <1>1, <1>2, <1>3, <2>3, <2>4, <2>5, <2>6, QueryKeeps
<1> QED  BY <1>1, <1>6, <1>7 DEF FindOrCreate

LEMMA InsertMissingCategoryKeeps ==
  ASSUME IInv, NEW r \in Requests, InsertMissingCategory(r)
  PROVE  IInv'
<1> DEFINE t == task[r]
<1>1. PICK id \in CategoryIds :
        /\ pc[r] = "category" /\ UNCHANGED alone /\ UNCHANGED <<recipes, mappings>>
        /\ InsertCategory(id, Head(t.file).category, t.owner, TRUE)
        /\ UNCHANGED <<items, overrides>>
        /\ Goto(r, "item", [t EXCEPT !.category = id])
  BY DEF InsertMissingCategory, EnsureCategory, Elsewhere
<1>2. InUpload(r)  BY <1>1 DEF InUpload, Uploading
<1>3. t \in Tasks /\ t \in UploadTask /\ Fits("category", t)  BY <1>1, <1>2, UploadIs DEF IInv
<1>4. Head(t.file).category \in CategoryNames /\ t.owner \in Restaurants
  <2>1. Head(t.file) \in Group  BY <1>3, GroupIs
  <2> QED  BY <1>3, <2>1 DEF Group, UploadTask
<1>5. Whole'
  BY <1>1, <1>4, IntactIsWhole, CategoryInserted DEF IInv
<1>6. alone => Knows("category", t, recipes, categories)  BY <1>1, <1>2 DEF IInv, AloneInv
<1> DEFINE u == [t EXCEPT !.category = id]
<1>7. /\ u \in UploadTask /\ u.category = id /\ u.file = t.file /\ u.row = t.row
      /\ u.produces = t.produces
  BY <1>3 DEF UploadTask
<1>8. Goto(r, "item", u)  BY <1>1
<1> DEFINE name == Head(t.file).category
           owner == t.owner
<1>9. categories' = [categories EXCEPT ![id] = [name |-> name, owner |-> owner, auto |-> TRUE]]
  BY <1>1 DEF InsertCategory
<1>10. OneCategoryUnlessRaced'
  <2> DEFINE row == [name |-> name, owner |-> owner, auto |-> TRUE]
  <2> SUFFICES ASSUME alone, NEW c \in Stored(categories'), NEW d \in Stored(categories'),
                      c # d, categories'[c].auto, categories'[d].auto,
                      categories'[c].owner = categories'[d].owner,
                      categories'[c].name = categories'[d].name
               PROVE  FALSE
    BY <1>1 DEF OneCategoryUnlessRaced
  <2>1. categories \in [CategoryIds -> Category \cup {Absent}]
    BY IntactIsWhole DEF IInv, Whole, Typed
  <2>2. /\ DOMAIN categories' = CategoryIds
        /\ \A e \in CategoryIds : categories'[e] = IF e = id THEN row ELSE categories[e]
    BY <1>9, <2>1
  <2>3. \A e \in Stored(categories') : e = id \/ (e \in Stored(categories) /\ categories'[e] = categories[e])
    BY <2>1, <2>2 DEF Stored
  <2>4. \A e \in Stored(categories) :
          ~(categories[e].auto /\ categories[e].name = name /\ categories[e].owner = owner)
    BY <1>6 DEF Knows, Ensures
  <2>5. categories'[id].name = name /\ categories'[id].owner = owner  BY <2>2
  <2> HIDE DEF name, owner, row
  <2>6. CASE c = id  BY <2>3, <2>4, <2>5, <2>6
  <2>7. CASE d = id  BY <2>3, <2>4, <2>5, <2>7
  <2>8. CASE c # id /\ d # id  BY <2>3, <2>8 DEF IInv, OneCategoryUnlessRaced
  <2> QED  BY <2>6, <2>7, <2>8
<1> HIDE DEF u, t
<1>11. /\ Fits("item", u) /\ "item" \in Handlers /\ u \in Tasks
       /\ "item" # "idle" /\ "item" \in Uploading
  BY <1>3, <1>7 DEF Fits, Uploading, Handlers, Tasks
<1>12. alone => Knows("item", u, recipes', categories')  BY <1>1, <1>6, <1>7 DEF Knows, Made
<1>13. Positions /\ TasksFit  BY IntactIsWhole DEF IInv
<1>14. /\ Positions' /\ TasksFit' /\ pc'[r] = "item" /\ task'[r] = u
       /\ \A q \in Requests : q # r => pc'[q] = pc[q] /\ task'[q] = task[q]
  BY <1>8, <1>11, <1>13, Goes
<1>15. Intact'  BY <1>5, <1>14, IntactIsWholeNext
<1>16. AloneInv'  BY <1>1, <1>2, <1>11, <1>12, <1>14, UploadKnows DEF IInv
<1>17. UploadedOnceUnlessRaced'  BY <1>1 DEF IInv, UploadedOnceUnlessRaced
<1> QED  BY <1>1, <1>10, <1>14, <1>15, <1>16, <1>17 DEF IInv

LEMMA InsertMissingItemKeeps ==
  ASSUME IInv, NEW r \in Requests, InsertMissingItem(r)
  PROVE  IInv'
<1> DEFINE t == task[r]
<1>1. PICK id \in ItemIds :
        /\ pc[r] = "item" /\ UNCHANGED alone /\ UNCHANGED <<recipes, mappings>>
        /\ InsertItem(id, Sku(t), t.category, t.owner)
        /\ UNCHANGED <<categories, overrides>>
        /\ Ensured(r, id)
  BY DEF InsertMissingItem, EnsureItem, Elsewhere
<1>2. InUpload(r)  BY <1>1 DEF InUpload, Uploading
<1>3. /\ t \in UploadTask /\ Fits("item", t) /\ t.row \in Nat
      /\ t.row =< Len(Head(t.file).rows)
  BY <1>1, <1>2, UploadIs DEF IInv
<1>4. Sku(t) \in Skus /\ t.owner \in Restaurants
  <2>1. Head(t.file) \in Group /\ Head(t.file).rows \in Seq(Skus)  BY <1>3, GroupIs
  <2>2. t.row = 0 => Head(t.file).sku \in Skus
    BY <1>3, <2>1 DEF Fits, Uploading, Group
  <2>3. t.row # 0 => Head(t.file).rows[t.row] \in Skus
    BY <1>3, <2>1, ElementOfSeq
  <2> QED  BY <1>3, <2>2, <2>3 DEF Sku, UploadTask
<1>5. Whole' /\ NoneMade /\ NoneEnsured
  BY <1>1, <1>4, IntactIsWhole, ItemInserted, NoneAtAll DEF IInv
<1>6. alone => Knows(pc[r], t, recipes', categories')  BY <1>1, <1>2 DEF IInv, AloneInv
<1>7. PICK next \in Handlers, u \in Tasks :
        /\ Goto(r, next, u) /\ Fits(next, u)
        /\ \A recipeTable, categoryTable :
             Knows(pc[r], t, recipeTable, categoryTable)
               => Knows(next, u, recipeTable, categoryTable)
  BY <1>1, EnsuredGoes DEF IInv
<1> QED  BY <1>1, <1>2, <1>5, <1>6, <1>7, QueryKeeps

LEMMA CheckExistingKeeps ==
  ASSUME IInv, NEW r \in Requests, CheckExisting(r)
  PROVE  IInv'
<1> DEFINE t == task[r]
<1>1. /\ pc[r] = "existing" /\ UNCHANGED alone
      /\ UNCHANGED <<catalogue, recipes, mappings, categories>>
  BY DEF CheckExisting, Elsewhere, catalogue
<1>2. Whole' /\ NoneMade /\ NoneEnsured
  BY <1>1, IntactIsWhole, TablesStay, NoneAtAll DEF IInv
<1>3. InUpload(r)  BY <1>1 DEF InUpload, Uploading
<1>4. t \in UploadTask  BY <1>3, UploadIs DEF IInv
<1>5. CASE NextGroup(r)
  <2>1. PICK next \in Handlers, u \in Tasks :
          /\ Goto(r, next, u) /\ Fits(next, u)
          /\ \A recipeTable, categoryTable :
               next \in Uploading => Knows(next, u, recipeTable, categoryTable)
    BY <1>3, <1>5, NextGroupGoes DEF IInv
  <2> QED  BY <1>1, <1>2, <1>3, <2>1, QueryKeeps
<1>6. ASSUME ExistingRecipes(t) = {}, Goto(r, "lookup", [t EXCEPT !.row = 1])
      PROVE  IInv'
  <2> DEFINE u == [t EXCEPT !.row = 1]
  <2>1. /\ u \in UploadTask /\ u.row = 1 /\ u.file = t.file /\ u.produces = t.produces
    BY <1>4 DEF UploadTask
  <2>2. Len(Head(t.file).rows) \in Nat /\ Len(Head(t.file).rows) > 0  BY <1>4, GroupIs
  <2>3. \A x \in Stored(recipes) : ~Made(recipes[x], t)
    BY <1>6 DEF ExistingRecipes, Made
  <2>4. Goto(r, "lookup", u)  BY <1>6
  <2> HIDE DEF u, t
  <2>5. Fits("lookup", u) /\ "lookup" \in Handlers /\ u \in Tasks
    BY <2>1, <2>2 DEF Fits, Uploading, Handlers, Tasks
  <2>6. Knows("lookup", u, recipes', categories')  BY <1>1, <2>1, <2>3 DEF Knows, Made
  <2> QED  BY <1>1, <1>2, <1>3, <2>4, <2>5, <2>6, QueryKeeps
<1> QED  BY <1>5, <1>6 DEF CheckExisting

LEMMA CreateFromFileKeeps ==
  ASSUME IInv, NEW r \in Requests, CreateFromFile(r)
  PROVE  IInv'
<1> DEFINE t == task[r]
           lines == [k \in DOMAIN t.got |-> [uses |-> t.got[k], qty |-> 1]]
           recipe == [produces |-> t.produces, name |-> Head(t.file).name, yield |-> 1,
                      lines |-> lines, file |-> IF t.produces = Absent THEN "name" ELSE "sku"]
<1>1. PICK x \in RecipeIds :
        /\ pc[r] = "create" /\ UNCHANGED alone /\ UNCHANGED <<catalogue, mappings>>
        /\ InsertRecipe(x, recipe) /\ NextGroup(r)
  BY DEF CreateFromFile
<1>2. InUpload(r)  BY <1>1 DEF InUpload, Uploading
<1>3. t \in UploadTask /\ t.row > 0 /\ t.got # <<>>
  BY <1>1, <1>2, UploadIs DEF IInv, Fits, Uploading
<1>4. recipe \in Recipe
  <2>1. t.got \in Seq(ItemIds) /\ t.produces \in ItemIds \cup {Absent}  BY <1>3 DEF UploadTask
  <2>2. DOMAIN t.got = 1..Len(t.got) /\ Len(t.got) \in Nat /\ Len(t.got) > 0
    BY <1>3, <2>1
  <2>3. \A k \in 1..Len(t.got) : [uses |-> t.got[k], qty |-> 1] \in Line
    BY <2>1 DEF Line
  <2>4. lines \in Seq(Line) /\ lines # <<>>
    <3>1. lines \in [1..Len(t.got) -> Line]  BY <2>2, <2>3
    <3>2. lines \in Seq(Line) /\ DOMAIN lines = 1..Len(t.got)  BY <2>2, <3>1, SeqDef
    <3>3. 1 \in DOMAIN lines  BY <2>2, <3>2
    <3> QED  BY <3>2, <3>3
  <2>5. Head(t.file).name \in RecipeNames
    <3>1. Head(t.file) \in Group  BY <1>3, GroupIs
    <3> QED  BY <3>1 DEF Group
  <2> HIDE DEF lines
  <2> QED  BY <2>1, <2>4, <2>5 DEF Recipe
<1>5. alone => \A y \in Stored(recipes) : ~Made(recipes[y], t)
  BY <1>2, <1>3 DEF IInv, AloneInv, Knows
<1>6. /\ recipe.produces = t.produces /\ recipe.name = Head(t.file).name
      /\ recipe.file = IF t.produces = Absent THEN "name" ELSE "sku"
  OBVIOUS
<1> HIDE DEF recipe, t
<1>7. Whole' /\ Stored(recipes') = Stored(recipes) \cup {x}
  BY <1>1, <1>4, IntactIsWhole, RecipeInserted DEF IInv
<1>8. recipes'[x] = recipe /\ \A y \in Stored(recipes) : y # x /\ recipes'[y] = recipes[y]
  <2>1. recipes \in [RecipeIds -> Recipe \cup {Absent}]  BY IntactIsWhole DEF IInv, Whole, Typed
  <2> QED  BY <1>1, <2>1 DEF InsertRecipe, Unused, Stored
<1>9. UploadedOnceUnlessRaced'
  <2> SUFFICES ASSUME alone, NEW y \in Stored(recipes'), NEW z \in Stored(recipes'),
                      y # z, recipes'[y].file = recipes'[z].file
               PROVE  /\ recipes'[y].file = "sku" => recipes'[y].produces # recipes'[z].produces
                      /\ recipes'[y].file = "name" => recipes'[y].name # recipes'[z].name
    BY <1>1 DEF UploadedOnceUnlessRaced
  <2>1. \A w \in Stored(recipes) :
          /\ recipe.file = "sku" /\ recipes[w].file = "sku" => recipes[w].produces # recipe.produces
          /\ recipe.file = "name" /\ recipes[w].file = "name" => recipes[w].name # recipe.name
    BY <1>5, <1>6 DEF Made
  <2>2. CASE y = x  BY <1>7, <1>8, <2>1, <2>2
  <2>3. CASE z = x  BY <1>7, <1>8, <2>1, <2>3
  <2>4. CASE y # x /\ z # x  BY <1>7, <1>8, <2>4 DEF IInv, UploadedOnceUnlessRaced
  <2> QED  BY <2>2, <2>3, <2>4
<1>10. OneCategoryUnlessRaced'  BY <1>1 DEF IInv, OneCategoryUnlessRaced, catalogue
<1>11. PICK next \in Handlers, u \in Tasks :
         /\ Goto(r, next, u) /\ Fits(next, u)
         /\ \A recipeTable, categoryTable :
              next \in Uploading => Knows(next, u, recipeTable, categoryTable)
  BY <1>1, <1>2, NextGroupGoes DEF IInv
<1>12. Positions /\ TasksFit  BY IntactIsWhole DEF IInv
<1>13. /\ Positions' /\ TasksFit' /\ pc'[r] = next /\ (next # "idle" => task'[r] = u)
       /\ \A q \in Requests : q # r => pc'[q] = pc[q] /\ task'[q] = task[q]
  BY <1>11, <1>12, Goes
<1>14. next \in Uploading => task'[r] = u  BY <1>13 DEF Uploading
<1>15. AloneInv'  BY <1>1, <1>2, <1>11, <1>13, <1>14, UploadKnows DEF IInv
<1>16. Intact'  BY <1>7, <1>13, IntactIsWholeNext
<1> QED  BY <1>1, <1>9, <1>10, <1>13, <1>15, <1>16 DEF IInv

LEMMA UploadRecipesKeeps ==
  ASSUME IInv, NEW r \in Requests, UploadRecipes(r)
  PROVE  IInv'
<1>1. PICK owner \in Restaurants, file \in Files :
        /\ pc[r] = "idle" /\ Goto(r, Start(file), Task(owner, file))
        /\ alone' = (alone /\ \A q \in Requests : ~InUpload(q))
        /\ UNCHANGED <<catalogue, recipes, mappings, categories>>
  BY DEF UploadRecipes, Elsewhere, catalogue
<1> DEFINE next == Start(file)
           t == Task(owner, file)
<1>2. file \in Seq(Group) \ {<<>>}  BY RecipesAssumption DEF RecipesAssumption
<1>3. /\ t \in Tasks /\ next \in Handlers /\ next \in Uploading /\ Fits(next, t)
      /\ \A recipeTable, categoryTable : Knows(next, t, recipeTable, categoryTable)
  BY <1>2, GroupStarts
<1>4. Goto(r, next, t)  BY <1>1
<1> HIDE DEF next, t
<1>5. Whole' /\ NoneMade /\ NoneEnsured
  BY <1>1, IntactIsWhole, TablesStay, NoneAtAll DEF IInv
<1>6. Positions /\ TasksFit  BY IntactIsWhole DEF IInv
<1>7. /\ Positions' /\ TasksFit' /\ pc'[r] = next /\ task'[r] = t
      /\ \A q \in Requests : q # r => pc'[q] = pc[q] /\ task'[q] = task[q]
  <2>1. next # "idle"  BY <1>3 DEF Uploading
  <2> QED  BY <1>3, <1>4, <1>6, <2>1, Goes
<1>8. AloneInv'
  <2> SUFFICES ASSUME \A q \in Requests : ~InUpload(q)
               PROVE  /\ \A p, q \in Requests : InUpload(p)' /\ InUpload(q)' => p = q
                      /\ \A q \in Requests :
                           InUpload(q)' => Knows(pc'[q], task'[q], recipes', categories')
    BY <1>1 DEF AloneInv
  <2>1. \A q \in Requests : InUpload(q)' => q = r  BY <1>7 DEF InUpload
  <2> QED  BY <1>3, <1>7, <2>1
<1>9. UploadedOnceUnlessRaced' /\ OneCategoryUnlessRaced'
  BY <1>1, <1>5, OnceStill, OneStill DEF IInv
<1>10. Intact'  BY <1>5, <1>7, IntactIsWholeNext
<1>11. alone' \in BOOLEAN  BY <1>1
<1> QED  BY <1>7, <1>8, <1>9, <1>10, <1>11 DEF IInv

-----------------------------------------------------------------------------
(* The steps of the item uploads and override calls *)

LEMMA UploadItemsKeeps ==
  ASSUME IInv, NEW r \in Requests, UploadItems(r)
  PROVE  IInv'
<1>1. PICK owner \in Restaurants, file \in ItemFiles :
        \E map \in CategoryMaps(owner) :
          /\ pc[r] = "idle" /\ Goto(r, "rows", [owner |-> owner, rows |-> file, map |-> map])
          /\ UNCHANGED alone /\ UNCHANGED <<catalogue, recipes, mappings, categories>>
  BY DEF UploadItems, Elsewhere, catalogue
<1>7. PICK map \in CategoryMaps(owner) :
        Goto(r, "rows", [owner |-> owner, rows |-> file, map |-> map])
  BY <1>1
<1> DEFINE t == [owner |-> owner, rows |-> file, map |-> map]
<1>2. t \in RowsTask
  <2>1. file \in Seq(ItemRows) \ {<<>>}  BY RecipesAssumption DEF RecipesAssumption
  <2>2. map \in [CategoryNames -> CategoryIds \cup {Absent}]  BY DEF CategoryMaps
  <2> QED  BY <2>1, <2>2 DEF RowsTask
<1>3. Goto(r, "rows", t)  BY <1>7
<1> HIDE DEF t
<1>4. Fits("rows", t) /\ t \in Tasks /\ "rows" \in Handlers /\ "rows" \notin Uploading
  BY <1>2 DEF Fits, Tasks, Handlers, Uploading
<1>5. Whole' /\ NoneMade /\ NoneEnsured
  BY <1>1, IntactIsWhole, TablesStay, NoneAtAll DEF IInv
<1>6. ~InUpload(r)  BY <1>1 DEF InUpload, Uploading
<1> QED  BY <1>1, <1>3, <1>4, <1>5, <1>6, AsideKeeps

LEMMA UploadItemRowKeeps ==
  ASSUME IInv, NEW r \in Requests, UploadItemRow(r)
  PROVE  IInv'
<1> DEFINE t == task[r]
<1>1. /\ pc[r] = "rows" /\ UploadRow(Head(t.rows), t.map, t.owner)
      /\ Goto(r, IF Len(t.rows) = 1 THEN "idle" ELSE "rows", [t EXCEPT !.rows = Tail(t.rows)])
      /\ UNCHANGED alone /\ UNCHANGED <<recipes, mappings, categories, overrides>>
  BY DEF UploadItemRow, UploadRow, Elsewhere
<1>2. ~InUpload(r)  BY <1>1 DEF InUpload, Uploading
<1>3. t \in RowsTask  BY <1>1 DEF IInv, TasksFit, Fits
<1>4. t.rows \in Seq(ItemRows) /\ t.rows # <<>> /\ t.owner \in Restaurants
  BY <1>3 DEF RowsTask
<1>5. Head(t.rows).sku \in Skus
  <2>1. Head(t.rows) \in ItemRows  BY <1>4
  <2> QED  BY <2>1, RecipesAssumption DEF RecipesAssumption
<1>6. NoneMade /\ NoneEnsured  BY <1>1, NoneAtAll
<1>7. Whole'
  <2>1. Whole  BY IntactIsWhole DEF IInv
  <2>2. CASE items' = items  BY <1>1, <2>1, <2>2, TablesStay DEF catalogue
  <2>3. ASSUME NEW id \in ItemIds,
               InsertItem(id, Head(t.rows).sku, t.map[Head(t.rows).category], t.owner)
        PROVE  Whole'
    BY <1>1, <1>4, <1>5, <2>1, <2>3, ItemInserted
  <2> QED  BY <1>1, <2>2, <2>3 DEF UploadRow
<1>8. CASE Len(t.rows) = 1
  <2>1. Goto(r, "idle", NoTask)  BY <1>1, <1>8 DEF Goto
  <2>2. Fits("idle", NoTask) /\ "idle" \in Handlers /\ NoTask \in Tasks /\ "idle" \notin Uploading
    BY DEF Fits, Handlers, Tasks, Uploading
  <2> QED  BY <1>1, <1>2, <1>6, <1>7, <2>1, <2>2, AsideKeeps
<1>9. CASE Len(t.rows) # 1
  <2> DEFINE rest == Tail(t.rows)
             u == [t EXCEPT !.rows = rest]
  <2>1. rest \in Seq(ItemRows) /\ rest # <<>>
    <3>1. Len(t.rows) \in Nat /\ Len(t.rows) # 0  BY <1>4, EmptySeq
    <3>2. rest \in Seq(ItemRows) /\ Len(rest) = Len(t.rows) - 1
      BY <1>4, HeadTailProperties
    <3>3. Len(rest) # 0  BY <1>9, <3>1, <3>2
    <3> QED  BY <3>2, <3>3, EmptySeq
  <2> HIDE DEF rest
  <2>2. u \in RowsTask  BY <1>3, <2>1 DEF RowsTask
  <2>3. Goto(r, "rows", u)  BY <1>1, <1>9 DEF rest
  <2> HIDE DEF u
  <2>4. Fits("rows", u) /\ u \in Tasks /\ "rows" \in Handlers /\ "rows" \notin Uploading
    BY <2>2 DEF Fits, Tasks, Handlers, Uploading
  <2> QED  BY <1>1, <1>2, <1>6, <1>7, <2>3, <2>4, AsideKeeps
<1> QED  BY <1>8, <1>9

LEMMA UpdateOverrideKeeps ==
  ASSUME IInv, NEW r \in Requests, UpdateOverride(r)
  PROVE  IInv'
<1>1. PICK i \in ItemIds, owner \in Restaurants :
        /\ pc[r] = "idle"
        /\ Goto(r, "override", [item |-> i, owner |-> owner, existed |-> (<<i, owner>> \in overrides)])
        /\ UNCHANGED alone /\ UNCHANGED <<catalogue, recipes, mappings, categories>>
  BY DEF UpdateOverride, Elsewhere, catalogue
<1> DEFINE t == [item |-> i, owner |-> owner, existed |-> (<<i, owner>> \in overrides)]
<1>2. t \in OverrideTask
  <2>1. (<<i, owner>> \in overrides) \in BOOLEAN  OBVIOUS
  <2> QED  BY <2>1 DEF OverrideTask
<1>3. Goto(r, "override", t)  BY <1>1
<1> HIDE DEF t
<1>4. /\ Fits("override", t) /\ t \in Tasks /\ "override" \in Handlers
      /\ "override" \notin Uploading
  BY <1>2 DEF Fits, Tasks, Handlers, Uploading
<1>5. Whole' /\ NoneMade /\ NoneEnsured
  BY <1>1, IntactIsWhole, TablesStay, NoneAtAll DEF IInv
<1>6. ~InUpload(r)  BY <1>1 DEF InUpload, Uploading
<1> QED  BY <1>1, <1>3, <1>4, <1>5, <1>6, AsideKeeps

LEMMA WriteOverrideKeeps ==
  ASSUME IInv, NEW r \in Requests, WriteOverride(r)
  PROVE  IInv'
<1>1. /\ pc[r] = "override" /\ Goto(r, "idle", NoTask) /\ UNCHANGED alone
      /\ PutOverride(task[r].item, task[r].owner, task[r].existed)
      /\ UNCHANGED <<recipes, mappings, categories>>
  BY DEF WriteOverride, PutOverride, Elsewhere
<1>2. ~InUpload(r)  BY <1>1 DEF InUpload, Uploading
<1>3. task[r].item \in ItemIds
  BY <1>1 DEF IInv, TasksFit, Fits, OverrideTask
<1>4. Whole' /\ NoneMade /\ NoneEnsured
  BY <1>1, <1>3, IntactIsWhole, OverridePut, NoneAtAll DEF IInv
<1>5. Fits("idle", NoTask) /\ "idle" \in Handlers /\ NoTask \in Tasks /\ "idle" \notin Uploading
  BY DEF Fits, Handlers, Tasks, Uploading
<1> QED  BY <1>1, <1>2, <1>4, <1>5, AsideKeeps

-----------------------------------------------------------------------------
(* The steps of expansions *)

\* A step of an expansion, which leaves the tables alone.
LEMMA ExpansionKeeps ==
  ASSUME IInv, UNCHANGED <<catalogue, recipes, mappings, alone>>,
         NEW r \in Requests, ~InUpload(r), NEW next \in {"idle", "expand", "lines"},
         NEW t \in Tasks, Fits(next, t), Goto(r, next, t)
  PROVE  IInv'
<1>1. Whole' /\ NoneMade /\ NoneEnsured
  BY IntactIsWhole, TablesStay, NoneAtAll DEF IInv, catalogue
<1>2. next \in Handlers /\ next \notin Uploading  BY DEF Handlers, Uploading
<1> QED  BY <1>1, <1>2, AsideKeeps

\* What an expansion under way carries.
LEMMA ExpansionIs ==
  ASSUME TasksFit, NEW r \in Requests, Expanding(r)
  PROVE  /\ task[r] \in ExpansionTask /\ ~InUpload(r) /\ Fits(pc[r], task[r])
         /\ task[r].out \in Seq(Entry) /\ task[r].todo \in Seq(Entry)
         /\ task[r].sold \in RecipeIds /\ task[r].yield \in Nat
         /\ task[r].todo # <<>> =>
              Head(task[r].todo) \in Entry /\ Tail(task[r].todo) \in Seq(Entry)
<1>1. Fits(pc[r], task[r])  BY DEF TasksFit
<1>2. task[r] \in ExpansionTask  BY <1>1 DEF Fits, Expanding
<1>3. ~InUpload(r)  BY DEF InUpload, Uploading, Expanding
<1>4. /\ task[r].out \in Seq(Entry) /\ task[r].todo \in Seq(Entry)
      /\ task[r].sold \in RecipeIds /\ task[r].yield \in Nat
  BY <1>2 DEF ExpansionTask
<1> QED  BY <1>1, <1>2, <1>3, <1>4

LEMMA NoTaskFits == Fits("idle", NoTask) /\ NoTask \in Tasks
BY DEF Fits, Tasks, Uploading

LEMMA ExpandBOMKeeps ==
  ASSUME IInv, NEW r \in Requests, ExpandBOM(r)
  PROVE  IInv'
<1>1. /\ pc[r] = "idle" /\ UNCHANGED <<catalogue, recipes, mappings, alone>>
      /\ \E x \in Stored(recipes) : Goto(r, "expand", Expansion(x))
  BY DEF ExpandBOM, Elsewhere
<1>2. PICK x \in Stored(recipes) : Goto(r, "expand", Expansion(x))  BY <1>1
<1>3. x \in RecipeIds  BY IntactIsWhole, RowsAre DEF IInv, Whole
<1>4. Expansion(x) \in ExpansionTask
  <2>1. One \in Fractions  BY DEF One, Fractions
  <2>2. [path |-> <<>>, uses |-> x, qty |-> One] \in Entry  BY <1>3, <2>1 DEF Entry
  <2> QED  BY <1>3, <2>2 DEF Expansion, ExpansionTask
<1>5. Fits("expand", Expansion(x)) /\ Expansion(x) \in Tasks
  BY <1>4 DEF Fits, Tasks, Uploading
<1>6. ~InUpload(r)  BY <1>1 DEF InUpload, Uploading
<1> QED  BY <1>1, <1>2, <1>5, <1>6, ExpansionKeeps

LEMMA PushItemKeeps ==
  ASSUME IInv, NEW r \in Requests, PushItem(r)
  PROVE  IInv'
<1> DEFINE t == task[r]
           u == [t EXCEPT !.out = Append(t.out, Head(t.todo)), !.todo = Tail(t.todo)]
<1>1. /\ pc[r] = "expand" /\ t.todo # <<>> /\ Goto(r, "expand", u)
      /\ UNCHANGED <<catalogue, recipes, mappings, alone>>
  BY DEF PushItem, Elsewhere
<1>2. /\ t \in ExpansionTask /\ ~InUpload(r) /\ t.out \in Seq(Entry)
      /\ Head(t.todo) \in Entry /\ Tail(t.todo) \in Seq(Entry)
  BY <1>1, ExpansionIs DEF IInv, Expanding
<1>3. u \in ExpansionTask
  <2>1. Append(t.out, Head(t.todo)) \in Seq(Entry)  BY <1>2
  <2> QED  BY <1>2, <2>1 DEF ExpansionTask
<1> HIDE DEF u
<1>4. Fits("expand", u) /\ u \in Tasks  BY <1>3 DEF Fits, Tasks, Uploading
<1> QED  BY <1>1, <1>2, <1>4, ExpansionKeeps

LEMMA FindRecipeKeeps ==
  ASSUME IInv, NEW r \in Requests, FindRecipe(r)
  PROVE  IInv'
<1> DEFINE t == task[r]
           e == Head(t.todo)
           u == [t EXCEPT !.yield = recipes[e.uses].yield]
<1>1. /\ pc[r] = "expand" /\ t.todo # <<>> /\ Goto(r, "lines", u)
      /\ e.uses \in Stored(recipes) /\ Len(e.path) < MaxDepth
      /\ UNCHANGED <<catalogue, recipes, mappings, alone>>
  BY DEF FindRecipe, Elsewhere
<1>2. t \in ExpansionTask /\ ~InUpload(r)  BY <1>1, ExpansionIs DEF IInv, Expanding
<1>3. e.uses \in RecipeIds /\ recipes[e.uses] \in Recipe
  BY <1>1, IntactIsWhole, RowsAre DEF IInv, Whole
<1>4. u \in ExpansionTask /\ u.todo = t.todo
  BY <1>2, <1>3 DEF ExpansionTask, Recipe
<1> HIDE DEF u
<1>5. Fits("lines", u) /\ u \in Tasks  BY <1>1, <1>3, <1>4 DEF Fits, Tasks, Uploading
<1> QED  BY <1>1, <1>2, <1>5, ExpansionKeeps

\* The lines of a recipe, as entries.
LEMMA ScaledAre ==
  ASSUME NEW e \in Entry, e.uses \in RecipeIds, NEW lines \in Seq(Line), NEW yield \in Nat
  PROVE  /\ Scaled(e, lines, yield) \in Seq(Entry)
         /\ Len(Scaled(e, lines, yield)) = Len(lines)
<1>1. /\ e.path \in Seq(RecipeIds \X (Nat \ {0})) /\ e.qty.num \in Nat /\ e.qty.den \in Nat
  BY DEF Entry, Fractions
<1>2. ASSUME NEW k \in 1..Len(lines)
      PROVE  [path |-> Append(e.path, <<e.uses, k>>), uses |-> lines[k].uses,
              qty |-> Scale(e.qty, lines[k], yield)] \in Entry
  <2>0. lines[k] \in Line  OBVIOUS
  <2>1. lines[k].uses \in ItemIds \cup RecipeIds /\ lines[k].qty \in Nat  BY <2>0 DEF Line
  <2>2. <<e.uses, k>> \in RecipeIds \X (Nat \ {0})  OBVIOUS
  <2>3. Append(e.path, <<e.uses, k>>) \in Seq(RecipeIds \X (Nat \ {0}))  BY <1>1, <2>2
  <2>4. \A m, n \in Nat : m * n \in Nat  OBVIOUS
  <2>5. Scale(e.qty, lines[k], yield) \in Fractions  BY <1>1, <2>1, <2>4 DEF Scale, Fractions
  <2> QED  BY <2>1, <2>3, <2>5 DEF Entry
<1>3. DOMAIN lines = 1..Len(lines) /\ Len(lines) \in Nat  OBVIOUS
<1> QED  BY <1>2, <1>3 DEF Scaled

LEMMA LinesAre ==
  ASSUME Typed, NEW x
  PROVE  Lines(x) \in Seq(Line)
<1>1. CASE x \in Stored(recipes)
  <2>1. recipes[x] \in Recipe  BY <1>1, RowsAre
  <2>2. recipes[x].lines \in Seq(Line)  BY <2>1 DEF Recipe
  <2> QED  BY <1>1, <2>2 DEF Lines
<1>2. CASE x \notin Stored(recipes)  BY <1>2 DEF Lines
<1> QED  BY <1>1, <1>2

LEMMA FindIngredientsKeeps ==
  ASSUME IInv, NEW r \in Requests, FindIngredients(r)
  PROVE  IInv'
<1> DEFINE t == task[r]
           e == Head(t.todo)
           new == Scaled(e, Lines(e.uses), t.yield)
           u == [t EXCEPT !.todo = new \o Tail(t.todo)]
<1>1. /\ pc[r] = "lines" /\ Goto(r, "expand", u)
      /\ UNCHANGED <<catalogue, recipes, mappings, alone>>
  BY DEF FindIngredients, Elsewhere
<1>2. /\ t \in ExpansionTask /\ ~InUpload(r) /\ Fits("lines", t) /\ t.yield \in Nat
      /\ t.todo # <<>> => e \in Entry /\ Tail(t.todo) \in Seq(Entry)
  BY <1>1, ExpansionIs DEF IInv, Expanding
<1>3. t.todo # <<>> /\ e.uses \in RecipeIds  BY <1>2 DEF Fits
<1>4. new \in Seq(Entry)
  <2>1. Lines(e.uses) \in Seq(Line)  BY IntactIsWhole, LinesAre DEF IInv, Whole
  <2> QED  BY <1>2, <1>3, <2>1, ScaledAre
<1> HIDE DEF new
<1>5. new \o Tail(t.todo) \in Seq(Entry)  BY <1>2, <1>3, <1>4, ConcatProperties
<1>6. u \in ExpansionTask  BY <1>2, <1>5 DEF ExpansionTask
<1> HIDE DEF u
<1>7. Fits("expand", u) /\ u \in Tasks  BY <1>6 DEF Fits, Tasks, Uploading
<1> QED  BY <1>1, <1>2, <1>7, ExpansionKeeps

LEMMA LeaveKeeps ==
  ASSUME IInv, NEW r \in Requests, ExpansionThrows(r) \/ Return(r)
  PROVE  IInv'
<1>1. /\ Expanding(r) /\ Goto(r, "idle", NoTask)
      /\ UNCHANGED <<catalogue, recipes, mappings, alone>>
  BY DEF ExpansionThrows, Return, Leave, Expanding
<1>2. ~InUpload(r)  BY <1>1, ExpansionIs DEF IInv
<1> QED  BY <1>1, <1>2, NoTaskFits, ExpansionKeeps

-----------------------------------------------------------------------------
(* The steps of the clients *)

LEMMA CategoryMadeByHand ==
  ASSUME Whole, NEW id \in CategoryIds, NEW name, NEW owner, InsertCategory(id, name, owner, FALSE)
  PROVE  NoneEnsured
<1>1. categories \in [CategoryIds -> Category \cup {Absent}]  BY DEF Whole, Typed
<1>2. \A e \in CategoryIds :
        categories'[e] = IF e = id THEN [name |-> name, owner |-> owner, auto |-> FALSE]
                                   ELSE categories[e]
  BY <1>1 DEF InsertCategory
<1>3. DOMAIN categories' = CategoryIds  BY <1>1 DEF InsertCategory
<1>4. ~categories'[id].auto  BY <1>2
<1> QED  BY <1>1, <1>2, <1>3, <1>4 DEF NoneEnsured, Stored

LEMMA CategoryRenamed ==
  ASSUME Whole, NEW c \in CategoryIds, NEW name \in CategoryNames, UpdateCategory(c, name)
  PROVE  NoneEnsured
<1> DEFINE row == [categories[c] EXCEPT !.name = name, !.auto = FALSE]
<1>1. categories \in [CategoryIds -> Category \cup {Absent}] /\ c \in Stored(categories)
  BY DEF Whole, Typed, UpdateCategory
<1>2. ~row.auto
  <2>1. categories[c] \in Category  BY <1>1 DEF Stored
  <2> QED  BY <2>1 DEF Category
<1>3. categories' = [categories EXCEPT ![c] = row]  BY DEF UpdateCategory
<1> HIDE DEF row
<1>4. /\ DOMAIN categories' = CategoryIds
      /\ \A e \in CategoryIds : categories'[e] = IF e = c THEN row ELSE categories[e]
  BY <1>1, <1>3
<1> QED  BY <1>1, <1>2, <1>4 DEF NoneEnsured, Stored

LEMMA CategoriesGone ==
  ASSUME Whole, NEW ids, DeleteCategories(ids)
  PROVE  NoneEnsured
<1>1. categories \in [CategoryIds -> Category \cup {Absent}]  BY DEF Whole, Typed
<1>2. /\ DOMAIN categories' = CategoryIds
      /\ \A e \in CategoryIds : categories'[e] = IF e \in ids THEN Absent ELSE categories[e]
  BY DEF DeleteCategories
<1> QED  BY <1>1, <1>2 DEF NoneEnsured, Stored

LEMMA EditItemsKeeps ==
  ASSUME IInv, EditItems
  PROVE  IInv'
<1>1. NoRequest /\ UNCHANGED <<recipes, mappings>> /\ EditCatalogue(Referenced)
  BY DEF EditItems, Elsewhere
<1>2. Whole  BY IntactIsWhole DEF IInv
<1>3. SUFFICES Whole' /\ NoneMade /\ NoneEnsured  BY <1>1, EditKeeps
<1>4. NoneMade  BY <1>1 DEF NoneMade
<1>5. ASSUME NEW sku \in Skus, NEW c \in CategoryIds, NEW owner \in Restaurants,
             CreateItem(sku, c, owner)
      PROVE  Whole' /\ NoneEnsured
  <2>1. PICK id \in ItemIds :
          InsertItem(id, sku, c, owner) /\ UNCHANGED <<categories, overrides>>
    BY <1>5 DEF CreateItem
  <2> QED  BY <1>1, <1>2, <2>1, ItemInserted DEF NoneEnsured
<1>6. ASSUME NEW i \in ItemIds, NEW sku \in Skus, NEW c \in CategoryIds, UpdateItem(i, sku, c)
      PROVE  Whole' /\ NoneEnsured
  BY <1>1, <1>2, <1>6, ItemUpdated DEF NoneEnsured, UpdateItem
<1>7. ASSUME NEW ids \in SUBSET ItemIds, DeleteItems(ids, Referenced)
      PROVE  Whole' /\ NoneEnsured
  BY <1>1, <1>2, <1>7, ItemsDeleted DEF NoneEnsured, DeleteItems
<1>8. ASSUME NEW name \in CategoryNames, NEW owner \in Restaurants, CreateCategory(name, owner)
      PROVE  Whole' /\ NoneEnsured
  <2>1. PICK id \in CategoryIds :
          InsertCategory(id, name, owner, FALSE) /\ UNCHANGED <<items, overrides>>
    BY <1>8 DEF CreateCategory
  <2> QED  BY <1>1, <1>2, <2>1, CategoryInserted, CategoryMadeByHand
<1>9. ASSUME NEW c \in CategoryIds, NEW name \in CategoryNames, UpdateCategory(c, name)
      PROVE  Whole' /\ NoneEnsured
  BY <1>1, <1>2, <1>9, CategoryUpdated, CategoryRenamed
<1>10. ASSUME NEW ids \in SUBSET CategoryIds, DeleteCategories(ids)
       PROVE  Whole' /\ NoneEnsured
  BY <1>1, <1>2, <1>10, CategoriesDeleted, CategoriesGone
<1> QED  BY <1>1, <1>4, <1>5, <1>6, <1>7, <1>8, <1>9, <1>10 DEF EditCatalogue

LEMMA EditRecipesKeeps ==
  ASSUME IInv, EditRecipes
  PROVE  IInv'
<1>1. Whole  BY IntactIsWhole DEF IInv
<1>2. ASSUME NEW produces \in ItemIds \cup {Absent}, NEW name \in RecipeNames, NEW y \in Yields,
             NEW lines \in Ingredients, CreateRecipe(produces, name, y, lines)
      PROVE  IInv'
  <2> DEFINE recipe == [produces |-> produces, name |-> name, yield |-> y,
                        lines |-> lines, file |-> "client"]
  <2>1. PICK x \in RecipeIds : InsertRecipe(x, recipe)  BY <1>2 DEF CreateRecipe
  <2>2. UNCHANGED <<catalogue, mappings, rewired>> /\ NoRequest  BY <1>2 DEF CreateRecipe
  <2>3. recipe \in Recipe /\ recipe.file = "client"
    BY RecipesAssumption DEF RecipesAssumption, Recipe
  <2> HIDE DEF recipe
  <2>4. Whole' /\ Stored(recipes') = Stored(recipes) \cup {x}
    BY <1>1, <2>1, <2>2, <2>3, RecipeInserted
  <2>5. recipes'[x] = recipe /\ \A z \in Stored(recipes) : recipes'[z] = recipes[z]
    BY <1>1, <2>1 DEF InsertRecipe, Whole, Typed, Unused, Stored
  <2>6. NoneMade  BY <2>3, <2>4, <2>5 DEF NoneMade
  <2>7. NoneEnsured  BY <2>2 DEF NoneEnsured, catalogue
  <2> QED  BY <2>2, <2>4, <2>6, <2>7, EditKeeps
<1>3. ASSUME NEW x \in Stored(recipes), NEW y \in Yields,
             NEW lines \in Ingredients \cup {recipes[x].lines}, UpdateRecipe(x, y, lines)
      PROVE  IInv'
  <2>1. recipes[x] \in Recipe  BY <1>1, RowsAre DEF Whole
  <2>2. y \in Nat /\ lines \in Seq(Line) \ {<<>>}
    BY <2>1, RecipesAssumption DEF RecipesAssumption, Recipe
  <2>3. /\ Whole' /\ Stored(recipes') = Stored(recipes)
        /\ \A z \in Stored(recipes) :
             /\ recipes'[z].file = recipes[z].file /\ recipes'[z].name = recipes[z].name
             /\ recipes'[z].produces = recipes[z].produces
    BY <1>1, <1>3, <2>2, RecipeUpdated
  <2>4. NoneMade  BY <2>3 DEF NoneMade
  <2>5. NoneEnsured /\ NoRequest  BY <1>3 DEF NoneEnsured, UpdateRecipe, catalogue
  <2> QED  BY <2>3, <2>4, <2>5, EditKeeps
<1>4. ASSUME NEW x \in RecipeIds, DeleteRecipe(x)  PROVE IInv'
  <2>1. /\ Whole' /\ Stored(recipes') \subseteq Stored(recipes)
        /\ \A y \in Stored(recipes') : recipes'[y] = recipes[y]
    BY <1>1, <1>4, RecipeDeleted
  <2>2. NoneMade  BY <2>1 DEF NoneMade
  <2>3. NoneEnsured /\ NoRequest  BY <1>4 DEF NoneEnsured, DeleteRecipe, catalogue
  <2> QED  BY <2>1, <2>2, <2>3, EditKeeps
<1>5. ASSUME NEW m \in DOMAIN mappings, NEW x \in Stored(recipes) \cup {Absent},
             mappings' = [mappings EXCEPT ![m] = x], UNCHANGED <<catalogue, recipes>>, NoRequest
      PROVE  IInv'
  <2>1. Whole'  BY <1>1, <1>5, MappingChanged
  <2>2. NoneMade /\ NoneEnsured  BY <1>5, NoneAtAll DEF catalogue
  <2> QED  BY <1>5, <2>1, <2>2, EditKeeps
<1>6. ASSUME NEW m \in DOMAIN mappings, NEW x \in RecipeIds, CreateMenuItemMapping(m, x)
      PROVE  IInv'
  BY <1>5, <1>6 DEF CreateMenuItemMapping
<1>7. ASSUME NEW m \in DOMAIN mappings, DeleteMapping(m)  PROVE IInv'
  BY <1>5, <1>7 DEF DeleteMapping
<1> QED  BY <1>2, <1>3, <1>4, <1>6, <1>7 DEF EditRecipes

-----------------------------------------------------------------------------
(* The invariant *)

LEMMA InitIInv == Init => IInv
<1> SUFFICES ASSUME Init PROVE IInv  OBVIOUS
<1>1. /\ Stored(items) = {} /\ Stored(categories) = {} /\ Stored(recipes) = {}
  BY DEF Init, InitCatalogue, Stored
<1>2. Whole
  BY <1>1 DEF Init, InitCatalogue, Whole, Typed
<1>3. Positions  BY DEF Init, Positions, Handlers
<1>4. TasksFit  BY DEF Init, TasksFit, Fits, Uploading
<1>5. AloneInv  BY DEF Init, AloneInv, InUpload, Uploading
<1>6. UploadedOnceUnlessRaced /\ OneCategoryUnlessRaced
  BY <1>1 DEF UploadedOnceUnlessRaced, OneCategoryUnlessRaced
<1> QED  BY <1>2, <1>3, <1>4, <1>5, <1>6, IntactIsWhole DEF IInv, Init

LEMMA StutterKeeps == IInv /\ UNCHANGED vars => IInv'
<1> SUFFICES ASSUME IInv, UNCHANGED vars PROVE IInv'  OBVIOUS
<1>1. Whole'  BY IntactIsWhole, TablesStay DEF IInv, vars
<1>2. NoneMade /\ NoneEnsured /\ NoRequest  BY NoneAtAll DEF vars, catalogue, NoRequest
<1> QED  BY <1>1, <1>2, EditKeeps

LEMMA NextKeeps == IInv /\ [Next]_vars => IInv'
<1> SUFFICES ASSUME IInv, Next PROVE IInv'  BY StutterKeeps
<1>1. ASSUME NEW r \in Requests, Handle(r)  PROVE IInv'
  <2> USE <1>1
  <2>1. CASE UploadItems(r)  BY <2>1, UploadItemsKeeps
  <2>2. CASE UploadItemRow(r)  BY <2>2, UploadItemRowKeeps
  <2>3. CASE UpdateOverride(r)  BY <2>3, UpdateOverrideKeeps
  <2>4. CASE WriteOverride(r)  BY <2>4, WriteOverrideKeeps
  <2>5. CASE UploadRecipes(r)  BY <2>5, UploadRecipesKeeps
  <2>6. CASE GroupFails(r)  BY <2>6, GroupFailsKeeps
  <2>7. CASE Lookup(r)  BY <2>7, LookupKeeps
  <2>8. CASE LookupCategory(r)  BY <2>8, LookupCategoryKeeps
  <2>9. CASE InsertMissingCategory(r)  BY <2>9, InsertMissingCategoryKeeps
  <2>10. CASE InsertMissingItem(r)  BY <2>10, InsertMissingItemKeeps
  <2>11. CASE CheckExisting(r)  BY <2>11, CheckExistingKeeps
  <2>12. CASE CreateFromFile(r)  BY <2>12, CreateFromFileKeeps
  <2>13. CASE ExpandBOM(r)  BY <2>13, ExpandBOMKeeps
  <2>14. CASE PushItem(r)  BY <2>14, PushItemKeeps
  <2>15. CASE FindRecipe(r)  BY <2>15, FindRecipeKeeps
  <2>16. CASE FindIngredients(r)  BY <2>16, FindIngredientsKeeps
  <2>17. CASE ExpansionThrows(r) \/ Return(r)  BY <2>17, LeaveKeeps
  <2> QED
    BY <2>1, <2>2, <2>3, <2>4, <2>5, <2>6, <2>7, <2>8, <2>9, <2>10, <2>11, <2>12, <2>13,
       <2>14, <2>15, <2>16, <2>17 DEF Handle
<1> QED  BY <1>1, EditItemsKeeps, EditRecipesKeeps DEF Next

\* The strengthened invariant holds in every reachable state.
THEOREM Invariance == Spec => []IInv
BY InitIInv, NextKeeps, PTL DEF Spec

\* The tables stay intact: whatever clients delete between the queries of an upload, no
\* item, override, recipe line or mapping refers to a row that is gone, and a SKU names
\* one item.
THEOREM References == Spec => []Intact
<1>1. IInv => Intact  BY DEF IInv
<1> QED  BY <1>1, Invariance, PTL

\* bulkCreateRecipes, while no two uploads have overlapped, makes one recipe per item and
\* one per name without an item, whatever fails and whatever clients edit meanwhile.
THEOREM UploadedOnce == Spec => []UploadedOnceUnlessRaced
<1>1. IInv => UploadedOnceUnlessRaced  BY DEF IInv
<1> QED  BY <1>1, Invariance, PTL

\* ensureItemDependencies, while no two uploads have overlapped, makes one category per
\* name and restaurant.
THEOREM OneCategory == Spec => []OneCategoryUnlessRaced
<1>1. IInv => OneCategoryUnlessRaced  BY DEF IInv
<1> QED  BY <1>1, Invariance, PTL

-----------------------------------------------------------------------------
(* No recipe uses itself *)

\* What the recipes there are use goes on being used, and they refer to rows that exist:
\* a new recipe is used by none of them and uses only them.
LEMMA InsertedGrounded ==
  ASSUME Whole, Grounded, NEW x \in RecipeIds, NEW recipe, InsertRecipe(x, recipe), UNCHANGED items
  PROVE  Grounded'
<1>1. Typed /\ RecipesAssumption  BY RecipesAssumption DEF Whole
<1>2. /\ recipes' = [recipes EXCEPT ![x] = recipe] /\ x \notin Stored(recipes)
      /\ \A k \in DOMAIN recipe.lines : Exists(recipe.lines[k].uses)
  BY DEF InsertRecipe, Unused, Stored
<1>3. ~Exists(x) /\ x # Absent  BY <1>1, <1>2, RowsAre DEF Exists, RecipesAssumption
<1>4. recipes'[x] = recipe /\ \A y \in Stored(recipes) : recipes'[y] = recipes[y]
  BY <1>1, <1>2, RowsAre DEF Typed
<1>5. Stored(recipes') \subseteq Stored(recipes) \cup {x}  BY <1>1, <1>2 DEF Typed, Stored
<1>6. \A y \in Stored(recipes) : Used(y)' = Used(y) /\ x \notin Used(y)
  BY <1>3, <1>4 DEF Used, Whole, RefersWell
<1>7. x \notin Used(x)'  BY <1>2, <1>3, <1>4 DEF Used
<1> SUFFICES ASSUME NEW S \in SUBSET Stored(recipes'), S # {}
             PROVE  \E y \in S : Used(y)' \cap S = {}
  BY DEF Grounded
<1>8. CASE S \subseteq {x}  BY <1>7, <1>8
<1>9. CASE S \ {x} # {}
  <2>1. S \ {x} \in SUBSET Stored(recipes)  BY <1>5
  <2>2. PICK y \in S \ {x} : Used(y) \cap (S \ {x}) = {}  BY <1>9, <2>1 DEF Grounded
  <2> QED  BY <1>6, <2>1, <2>2
<1> QED  BY <1>8, <1>9

\* Where recipes are taken away or keep their lines, nothing is used that was not.
LEMMA LessGrounded ==
  ASSUME Grounded, Stored(recipes') \subseteq Stored(recipes),
         \A y \in Stored(recipes') : recipes'[y].lines = recipes[y].lines
  PROVE  Grounded'
<1>1. \A y \in Stored(recipes') : Used(y)' = Used(y)  BY DEF Used
<1> QED  BY <1>1 DEF Grounded

LEMMA GroundedKeeps == IInv /\ GroundedUnlessRewired /\ [Next]_vars => GroundedUnlessRewired'
<1> SUFFICES ASSUME IInv, GroundedUnlessRewired, [Next]_vars, ~rewired' PROVE Grounded'
  BY DEF GroundedUnlessRewired
<1>1. Whole /\ Typed  BY IntactIsWhole DEF IInv, Whole
<1>2. CASE UNCHANGED <<recipes, rewired>>
  <2>1. Grounded /\ recipes' = recipes  BY <1>2 DEF GroundedUnlessRewired
  <2> QED  BY <2>1, LessGrounded
<1>3. ASSUME NEW r \in Requests, CreateFromFile(r)  PROVE Grounded'
  <2>1. UNCHANGED <<items, rewired>> /\ \E x \in RecipeIds : \E recipe : InsertRecipe(x, recipe)
    BY <1>3 DEF CreateFromFile, catalogue
  <2> QED  BY <1>1, <2>1, InsertedGrounded DEF GroundedUnlessRewired
<1>4. ASSUME NEW r \in Requests, Handle(r), ~CreateFromFile(r)  PROVE UNCHANGED <<recipes, rewired>>
  BY <1>4 DEF Handle, UploadItems, UploadItemRow, UpdateOverride, WriteOverride, UploadRecipes,
       GroupFails, Lookup, LookupCategory, InsertMissingCategory, InsertMissingItem,
       CheckExisting, ExpandBOM, PushItem, FindRecipe, FindIngredients, ExpansionThrows,
       Return, Leave, Elsewhere
<1>5. CASE EditItems  BY <1>2, <1>5 DEF EditItems, Elsewhere
<1>6. CASE EditRecipes
  <2>1. ASSUME NEW produces, NEW name, NEW y, NEW lines, CreateRecipe(produces, name, y, lines)
        PROVE  Grounded'
    <3>1. UNCHANGED <<items, rewired>> /\ \E x \in RecipeIds : \E recipe : InsertRecipe(x, recipe)
      BY <2>1 DEF CreateRecipe, catalogue
    <3> QED  BY <1>1, <3>1, InsertedGrounded DEF GroundedUnlessRewired
  <2>2. ASSUME NEW x \in Stored(recipes), NEW y, NEW lines, UpdateRecipe(x, y, lines)
        PROVE  Grounded'
    <3>1. ~rewired /\ lines = recipes[x].lines
          /\ recipes' = [recipes EXCEPT ![x] = [recipes[x] EXCEPT !.yield = y, !.lines = lines]]
      BY <2>2 DEF UpdateRecipe
    <3>2. x \in RecipeIds /\ recipes[x] \in Recipe  BY <1>1, RowsAre
    <3>3. [recipes[x] EXCEPT !.yield = y, !.lines = lines].lines = lines  BY <3>2 DEF Recipe
    <3>4. \A z \in RecipeIds : recipes'[z].lines = recipes[z].lines
      BY <1>1, <3>1, <3>2, <3>3 DEF Typed
    <3>5. Stored(recipes') \subseteq Stored(recipes) /\ Stored(recipes') \subseteq RecipeIds
      BY <1>1, <2>2, <3>1, <3>2 DEF Typed, Stored
    <3> QED  BY <3>1, <3>4, <3>5, LessGrounded DEF GroundedUnlessRewired
  <2>3. ASSUME NEW x \in RecipeIds, DeleteRecipe(x)  PROVE Grounded'
    <3>1. Stored(recipes') \subseteq Stored(recipes) /\ UNCHANGED rewired
          /\ \A y \in Stored(recipes') : recipes'[y] = recipes[y]
      BY <1>1, <2>3, RecipeDeleted DEF DeleteRecipe
    <3> QED  BY <3>1, LessGrounded DEF GroundedUnlessRewired
  <2>4. ASSUME NEW m, NEW x, CreateMenuItemMapping(m, x) \/ DeleteMapping(m)
        PROVE  UNCHANGED <<recipes, rewired>>
    BY <2>4 DEF CreateMenuItemMapping, DeleteMapping
  <2> QED  BY <1>2, <1>6, <2>1, <2>2, <2>3, <2>4 DEF EditRecipes
<1>7. CASE UNCHANGED vars  BY <1>2, <1>7 DEF vars
<1> QED  BY <1>2, <1>3, <1>4, <1>5, <1>6, <1>7 DEF Next

\* Below holds what a recipe uses, and with a recipe what that one uses.
LEMMA BelowIs ==
  ASSUME NEW x
  PROVE  /\ Used(x) \cap RecipeIds \subseteq Below(x)
         /\ \A y \in Below(x) \cap Stored(recipes) : Used(y) \cap RecipeIds \subseteq Below(x)
BY DEF Below

\* What is below a recipe is one it uses, or below one it uses.
LEMMA BelowThrough ==
  ASSUME Whole, NEW x \in Stored(recipes), NEW y \in Below(x)
  PROVE  \E z \in Used(x) \cap RecipeIds : y = z \/ y \in Below(z)
<1> DEFINE S == {w \in RecipeIds : \E z \in Used(x) \cap RecipeIds : w = z \/ w \in Below(z)}
<1>1. S \in SUBSET RecipeIds /\ Used(x) \cap RecipeIds \subseteq S  OBVIOUS
<1>2. ASSUME NEW w \in S \cap Stored(recipes), NEW v \in Used(w) \cap RecipeIds  PROVE v \in S
  <2>1. PICK z \in Used(x) \cap RecipeIds : w = z \/ w \in Below(z)  BY <1>2
  <2>2. v \in Below(z)  BY <1>2, <2>1, BelowIs
  <2> QED  BY <2>1, <2>2
<1> HIDE DEF S
<1>3. y \in S  BY <1>1, <1>2 DEF Below
<1> QED  BY <1>3 DEF S

LEMMA GroundedIsAcyclic ==
  ASSUME Whole, Grounded, NEW x \in Stored(recipes)
  PROVE  x \notin Below(x)
<1> DEFINE Cyclic == {y \in Stored(recipes) : y \in Below(y)}
<1>1. RecipesAssumption /\ Typed  BY RecipesAssumption DEF Whole
<1>2. ASSUME NEW y \in Cyclic  PROVE Used(y) \cap Cyclic # {}
  <2>1. PICK z \in Used(y) \cap RecipeIds : y = z \/ y \in Below(z)  BY <1>2, BelowThrough
  <2>2. z \in Stored(recipes)
    <3>1. z # Absent /\ z \notin ItemIds  BY <1>1 DEF RecipesAssumption
    <3>2. Exists(z)  BY <1>2, <2>1, <3>1 DEF Used, Whole, RefersWell
    <3> QED  BY <1>1, <3>1, <3>2, RowsAre DEF Exists
  <2>3. z \in Below(z)  BY <1>2, <2>1, BelowIs
  <2> QED  BY <2>1, <2>2, <2>3
<1>3. Cyclic = {}
  <2>1. Cyclic \in SUBSET Stored(recipes)  OBVIOUS
  <2> HIDE DEF Cyclic
  <2> QED  BY <1>2, <2>1 DEF Grounded
<1> QED  BY <1>3

\* expandBOM returns: until an update has changed the lines of a recipe, no recipe is
\* among those it uses, directly or through others, whatever is created, uploaded and
\* deleted.
THEOREM Acyclic == Spec => []AcyclicUnlessRewired
<1>1. Init => GroundedUnlessRewired
  <2>1. Init => Stored(recipes) = {}  BY DEF Init, Stored
  <2> QED  BY <2>1 DEF GroundedUnlessRewired, Grounded
<1>2. IInv /\ GroundedUnlessRewired => AcyclicUnlessRewired
  BY IntactIsWhole, GroundedIsAcyclic DEF IInv, GroundedUnlessRewired, AcyclicUnlessRewired
<1> QED  BY <1>1, <1>2, GroundedKeeps, Invariance, PTL DEF Spec

-----------------------------------------------------------------------------
(* Induction: what a product is *)

\* Induction over the numbers, as a fact about a set of them.
LEMMA SetInduction ==
  ASSUME NEW T \in SUBSET Nat, 0 \in T, \A n \in T : n + 1 \in T
  PROVE  T = Nat
<1> DEFINE rest == Nat \ T
           less == OpToRel(<, Nat)
<1>1. SUFFICES ASSUME rest # {} PROVE FALSE  OBVIOUS
<1>2. IsWellFoundedOn(less, Nat)  BY NatLessThanWellFounded
<1>3. rest \subseteq Nat  OBVIOUS
<1> HIDE DEF rest, less
<1>4. PICK m \in rest : \A n \in rest : <<n, m>> \notin less
  BY <1>1, <1>2, <1>3, WFMin
<1>5. m \in Nat /\ m # 0  BY DEF rest
<1>6. m - 1 \in Nat /\ m - 1 < m  BY <1>5
<1>7. <<m - 1, m>> \in less  BY <1>5, <1>6 DEF less, OpToRel
<1>8. m - 1 \in T  BY <1>4, <1>6, <1>7 DEF rest
<1>9. (m - 1) + 1 \in T  BY <1>8
<1> QED  BY <1>5, <1>9 DEF rest

\* Product is the product: one for no number, and each number multiplied in turn.
LEMMA ProductIs ==
  ASSUME NEW f, Len(f) \in Nat
  PROVE  \E upto : /\ upto = [j \in 0..Len(f) |-> IF j = 0 THEN 1 ELSE upto[j - 1] * f[j]]
                   /\ Product(f) = upto[Len(f)]
<1> DEFINE is(n, g) == g = [j \in 0..n |-> IF j = 0 THEN 1 ELSE g[j - 1] * f[j]]
           T == {n \in Nat : \E g : is(n, g)}
<1>1. 0 \in T
  <2> DEFINE g == [j \in 0..0 |-> 1]
  <2>1. g = [j \in 0..0 |-> IF j = 0 THEN 1 ELSE g[j - 1] * f[j]]  OBVIOUS
  <2> QED  BY <2>1
<1>2. ASSUME NEW n \in T PROVE n + 1 \in T
  <2>1. n \in Nat /\ \E g : is(n, g)  OBVIOUS
  <2>2. PICK g : g = [j \in 0..n |-> IF j = 0 THEN 1 ELSE g[j - 1] * f[j]]  BY <2>1
  <2> DEFINE h == [j \in 0..(n + 1) |-> IF j = 0 THEN 1 ELSE g[j - 1] * f[j]]
  <2>3. \A j \in 0..(n + 1) : j # 0 => j - 1 \in 0..n /\ j - 1 \in 0..(n + 1)  BY <2>1
  <2>4. \A j \in 0..n : g[j] = h[j]  BY <2>1, <2>2
  <2>5. \A j \in 0..(n + 1) : h[j] = IF j = 0 THEN 1 ELSE h[j - 1] * f[j]
    <3> HIDE DEF h
    <3>1. \A j \in 0..(n + 1) : j # 0 => g[j - 1] = h[j - 1]  BY <2>3, <2>4
    <3> QED  BY <3>1 DEF h
  <2>6. h = [j \in 0..(n + 1) |-> h[j]]  OBVIOUS
  <2> HIDE DEF h
  <2>7. h = [j \in 0..(n + 1) |-> IF j = 0 THEN 1 ELSE h[j - 1] * f[j]]  BY <2>5, <2>6
  <2>8. n + 1 \in Nat  BY <2>1
  <2> QED  BY <2>7, <2>8
<1>3. T \in SUBSET Nat  OBVIOUS
<1> HIDE DEF T
<1>4. T = Nat  BY <1>1, <1>2, <1>3, SetInduction
<1>5. \E g : is(Len(f), g)  BY <1>4 DEF T
<1> DEFINE u[j \in 0..Len(f)] == IF j = 0 THEN 1 ELSE u[j - 1] * f[j]
<1>6. Product(f) = u[Len(f)]  BY Zenon DEF Product
<1>7. u = [j \in 0..Len(f) |-> IF j = 0 THEN 1 ELSE u[j - 1] * f[j]]  BY <1>5, Zenon
<1> HIDE DEF u
<1> QED  BY <1>6, <1>7

\* A product by its last factor.
LEMMA ProductGrows ==
  ASSUME NEW f, NEW g, Len(f) \in Nat, Len(g) = Len(f) + 1, \A j \in 1..Len(f) : g[j] = f[j]
  PROVE  Product(g) = Product(f) * g[Len(g)]
<1> DEFINE l == Len(f)
<1>1. l \in Nat /\ Len(g) = l + 1 /\ \A j \in 1..l : g[j] = f[j]  OBVIOUS
<1> HIDE DEF l
<1>2. PICK u : /\ u = [j \in 0..l |-> IF j = 0 THEN 1 ELSE u[j - 1] * f[j]]
               /\ Product(f) = u[l]
  BY <1>1, ProductIs DEF l
<1>3. PICK v : /\ v = [j \in 0..(l + 1) |-> IF j = 0 THEN 1 ELSE v[j - 1] * g[j]]
               /\ Product(g) = v[l + 1]
  BY <1>1, ProductIs
<1> DEFINE T == {j \in Nat : j =< l => v[j] = u[j]}
<1>4. 0 \in T
  <2>1. u[0] = 1  BY <1>1, <1>2
  <2>2. v[0] = 1  BY <1>1, <1>3
  <2> QED  BY <2>1, <2>2
<1>5. ASSUME NEW j \in T PROVE j + 1 \in T
  <2>0. j \in Nat  OBVIOUS
  <2>1. SUFFICES ASSUME j + 1 =< l PROVE v[j + 1] = u[j + 1]
    BY <2>0
  <2>2. v[j] = u[j]  BY <1>1, <2>0, <2>1
  <2>3. /\ j + 1 \in 0..l /\ j + 1 # 0 /\ (j + 1) - 1 = j /\ j + 1 \in 1..l
        /\ j + 1 \in 0..(l + 1)
    BY <1>1, <2>0, <2>1
  <2>4. u[j + 1] = u[(j + 1) - 1] * f[j + 1]  BY <1>2, <2>3
  <2>5. v[j + 1] = v[(j + 1) - 1] * g[j + 1]  BY <1>3, <2>3
  <2> QED  BY <1>1, <2>2, <2>3, <2>4, <2>5
<1>6. T \in SUBSET Nat  OBVIOUS
<1> HIDE DEF T
<1>7. l \in T
  <2>1. T = Nat  BY <1>4, <1>5, <1>6, SetInduction
  <2> QED  BY <1>1, <2>1
<1>8. v[l + 1] = v[l] * g[l + 1]
  <2>1. l + 1 \in 0..(l + 1) /\ l + 1 # 0 /\ (l + 1) - 1 = l  BY <1>1
  <2>2. v[l + 1] = v[(l + 1) - 1] * g[l + 1]  BY <1>3, <2>1
  <2> QED  BY <2>1, <2>2
<1> QED  BY <1>1, <1>2, <1>3, <1>7, <1>8 DEF T

LEMMA ProductOfNone == Product(<<>>) = 1
<1>1. Len(<<>>) = 0  OBVIOUS
<1>2. PICK u : /\ u = [j \in 0..0 |-> IF j = 0 THEN 1 ELSE u[j - 1] * <<>>[j]]
               /\ Product(<<>>) = u[0]
  BY <1>1, ProductIs
<1> QED  BY <1>2

-----------------------------------------------------------------------------
(* expandBOM follows the paths *)

\* A step is a line of a stored recipe, and what it uses is an item or a stored recipe.
LEMMA StepsAre ==
  ASSUME Whole
  PROVE  \A s \in Steps(recipes) :
           /\ s = <<s[1], s[2]>> /\ s[1] \in Stored(recipes)
           /\ s[2] \in DOMAIN recipes[s[1]].lines
           /\ LineOf(recipes, s) \in Line
           /\ LineOf(recipes, s).uses \in ItemIds \cup Stored(recipes)
<1>1. Typed /\ RecipesAssumption  BY RecipesAssumption DEF Whole
<1> TAKE s \in Steps(recipes)
<1>2. PICK y \in Stored(recipes) : \E k \in DOMAIN recipes[y].lines : s = <<y, k>>
  BY DEF Steps
<1>3. PICK k \in DOMAIN recipes[y].lines : s = <<y, k>>  BY <1>2
<1>4. recipes[y] \in Recipe  BY <1>1, RowsAre
<1>5. recipes[y].lines \in Seq(Line)  BY <1>4 DEF Recipe
<1>6. recipes[y].lines[k] \in Line  BY <1>3, <1>5
<1>7. recipes[y].lines[k].uses \in ItemIds \cup RecipeIds  BY <1>6 DEF Line
<1>8. recipes[y].lines[k].uses \in ItemIds \cup Stored(recipes)
  <2>1. recipes[y].lines[k].uses # Absent  BY <1>1, <1>7 DEF RecipesAssumption
  <2>2. Exists(recipes[y].lines[k].uses)  BY <1>3, <2>1 DEF Whole, RefersWell
  <2> QED  BY <1>1, <2>2, RowsAre DEF Exists
<1>9. s[1] = y /\ s[2] = k  BY <1>3
<1> QED  BY <1>3, <1>6, <1>8, <1>9 DEF LineOf

\* Three sequences joined, position by position.
LEMMA JoinedLines ==
  ASSUME NEW S, NEW out \in Seq(S), NEW new \in Seq(S), NEW rest \in Seq(S)
  PROVE  /\ DOMAIN (out \o (new \o rest)) = 1..(Len(out) + Len(new) + Len(rest))
         /\ \A n \in 1..Len(out) : (out \o (new \o rest))[n] = out[n]
         /\ \A k \in 1..Len(new) : (out \o (new \o rest))[Len(out) + k] = new[k]
         /\ \A n \in 1..Len(rest) :
              (out \o (new \o rest))[Len(out) + Len(new) + n] = rest[n]
<1>1. DOMAIN (out \o (new \o rest)) = 1..(Len(out) + Len(new) + Len(rest))  BY SMT
<1>2. \A n \in 1..Len(out) : (out \o (new \o rest))[n] = out[n]  BY SMT
<1>3. \A k \in 1..Len(new) : (out \o (new \o rest))[Len(out) + k] = new[k]  BY SMT
<1>4. \A n \in 1..Len(rest) : (out \o (new \o rest))[Len(out) + Len(new) + n] = rest[n]
  BY SMT
<1> QED  BY <1>1, <1>2, <1>3, <1>4

\* A path through a table, position by position.
LEMMA PathIs ==
  ASSUME NEW table, NEW x, NEW p
  PROVE  p \in Paths(table, x) <=>
           /\ p \in Seq(Steps(table)) /\ Len(p) \in 1..MaxDepth
           /\ p[1][1] = x
           /\ \A j \in 1..(Len(p) - 1) : p[j + 1][1] = LineOf(table, p[j]).uses
           /\ LineOf(table, p[Len(p)]).uses \in ItemIds
<1> DEFINE good == /\ p[1][1] = x
                   /\ \A j \in 1..(Len(p) - 1) : p[j + 1][1] = LineOf(table, p[j]).uses
                   /\ LineOf(table, p[Len(p)]).uses \in ItemIds
<1>1. p \in Paths(table, x) <=>
        (\E n \in 1..MaxDepth : p \in [1..n -> Steps(table)]) /\ good
  BY DEF Paths
<1> HIDE DEF good
<1>2. (\E n \in 1..MaxDepth : p \in [1..n -> Steps(table)])
        <=> p \in Seq(Steps(table)) /\ Len(p) \in 1..MaxDepth
  <2>1. MaxDepth \in Nat  BY RecipesAssumption DEF RecipesAssumption
  <2>2. ASSUME NEW n \in 1..MaxDepth, p \in [1..n -> Steps(table)]
        PROVE  p \in Seq(Steps(table)) /\ Len(p) \in 1..MaxDepth
    <3>1. n \in Nat  BY <2>1
    <3>2. p \in Seq(Steps(table)) /\ Len(p) = n  BY <2>2, <3>1
    <3> QED  BY <3>2
  <2>3. ASSUME p \in Seq(Steps(table)), Len(p) \in 1..MaxDepth
        PROVE  p \in [1..Len(p) -> Steps(table)]
    BY <2>3
  <2> QED  BY <2>2, <2>3
<1> QED  BY <1>1, <1>2 DEF good

\* The sale begins with the recipe sold, from which every path goes on.
LEMMA StartsSound ==
  ASSUME Whole, NEW x \in Stored(recipes)
  PROVE  Sound(recipes, "expand", Expansion(x))
<1> DEFINE t == Expansion(x)
           e == [path |-> <<>>, uses |-> x, qty |-> One]
           all == t.out \o t.todo
<1>1. t.out = <<>> /\ t.todo = <<e>> /\ t.sold = x  BY DEF Expansion
<1>2. all = <<e>>
  <2>1. <<>> \o <<e>> = <<e>>  OBVIOUS
  <2> QED  BY <1>1, <2>1
<1>3. DOMAIN all = {1} /\ all[1] = e  BY <1>2
<1>4. CameDown(recipes, x, e)
  <2>1. e.path = <<>> /\ e.uses = x /\ e.qty = One  OBVIOUS
  <2>2. Consumed(recipes, <<>>) = One
    <3>1. /\ [j \in DOMAIN <<>> |-> LineOf(recipes, <<>>[j]).qty] = <<>>
          /\ [j \in DOMAIN <<>> |-> recipes[<<>>[j][1]].yield] = <<>>
      OBVIOUS
    <3> QED  BY <3>1, ProductOfNone DEF Consumed, One
  <2>3. <<>> \in Seq(Steps(recipes)) /\ Len(<<>>) = 0  OBVIOUS
  <2>4. MaxDepth \in Nat  BY RecipesAssumption DEF RecipesAssumption
  <2> HIDE DEF e
  <2>5. \A j \in 1..Len(e.path) : FALSE  BY <2>1, <2>3
  <2> QED  BY <2>1, <2>2, <2>3, <2>4, <2>5 DEF CameDown
<1>6. \A p \in Paths(recipes, x) : Begins(e.path, p)
  <2> TAKE p \in Paths(recipes, x)
  <2>1. Len(p) \in Nat  BY PathIs
  <2>2. e.path = <<>> /\ Len(<<>>) = 0  OBVIOUS
  <2> HIDE DEF e
  <2> QED  BY <2>1, <2>2 DEF Begins
<1>7. \A n \in DOMAIN t.out : t.out[n].uses \in ItemIds  BY <1>1
<1> HIDE DEF t, e, all
<1> QED  BY <1>1, <1>3, <1>4, <1>6, <1>7 DEF Sound, all, t

\* An item goes from the head of what is to be expanded to the end of what is listed.
LEMMA PushedSound ==
  ASSUME NEW t \in ExpansionTask, Sound(recipes, "expand", t), t.todo # <<>>,
         Head(t.todo).uses \in ItemIds,
         NEW u, u = [t EXCEPT !.out = Append(t.out, Head(t.todo)), !.todo = Tail(t.todo)]
  PROVE  Sound(recipes, "expand", u)
<1> DEFINE e == Head(t.todo)
<1>1. /\ t.out \in Seq(Entry) /\ t.todo \in Seq(Entry) /\ e \in Entry
      /\ Tail(t.todo) \in Seq(Entry)
  BY DEF ExpansionTask
<1>2. u.out = Append(t.out, e) /\ u.todo = Tail(t.todo) /\ u.sold = t.sold
  BY DEF ExpansionTask
<1> HIDE DEF e
<1>3. u.out \o u.todo = t.out \o t.todo
  <2>1. t.todo = <<e>> \o Tail(t.todo)  BY <1>1 DEF e
  <2> DEFINE rest == Tail(t.todo)
             out == t.out
  <2>2. out \in Seq(Entry) /\ rest \in Seq(Entry)  BY <1>1
  <2> HIDE DEF rest, out
  <2>3. Append(out, e) \o rest = out \o (<<e>> \o rest)  BY <1>1, <2>2, SMT
  <2> QED  BY <1>2, <2>1, <2>3, Zenon DEF rest, out
<1>4. \A n \in DOMAIN u.out : u.out[n].uses \in ItemIds
  <2>1. \A n \in DOMAIN t.out : t.out[n].uses \in ItemIds  BY DEF Sound
  <2>2. /\ DOMAIN u.out = 1..(Len(t.out) + 1) /\ u.out[Len(t.out) + 1] = e
        /\ DOMAIN t.out = 1..Len(t.out) /\ \A n \in 1..Len(t.out) : u.out[n] = t.out[n]
        /\ Len(t.out) \in Nat
    BY <1>1, <1>2
  <2>3. e.uses \in ItemIds  BY DEF e
  <2>4. ASSUME NEW l \in Nat, NEW n \in 1..(l + 1)  PROVE n \in 1..l \/ n = l + 1
    OBVIOUS
  <2> QED  BY <2>1, <2>2, <2>3, <2>4
<1> QED  BY <1>2, <1>3, <1>4 DEF Sound

\* The recipe's row is read: the yield is that of the table.
LEMMA FoundSound ==
  ASSUME NEW t \in ExpansionTask, Sound(recipes, "expand", t),
         Head(t.todo).uses \in Stored(recipes),
         NEW u, u = [t EXCEPT !.yield = recipes[Head(t.todo).uses].yield]
  PROVE  Sound(recipes, "lines", u)
<1>1. /\ u.out = t.out /\ u.todo = t.todo /\ u.sold = t.sold
      /\ u.yield = recipes[Head(t.todo).uses].yield
  BY DEF ExpansionTask
<1> QED  BY <1>1 DEF Sound

\* One line further down: what the quantities come to.
LEMMA ConsumedGrows ==
  ASSUME NEW table, NEW p \in Seq(Steps(table)), NEW s \in Steps(table),
         NEW qty \in Fractions, qty = Consumed(table, p)
  PROVE  Scale(qty, LineOf(table, s), table[s[1]].yield) = Consumed(table, Append(p, s))
<1> DEFINE q == Append(p, s)
           qtys(w) == [j \in DOMAIN w |-> LineOf(table, w[j]).qty]
           yields(w) == [j \in DOMAIN w |-> table[w[j][1]].yield]
<1>1. /\ Len(p) \in Nat /\ DOMAIN p = 1..Len(p) /\ DOMAIN q = 1..(Len(p) + 1)
      /\ q[Len(p) + 1] = s /\ \A j \in 1..Len(p) : q[j] = p[j]
  OBVIOUS
<1> HIDE DEF q
<1>2. Product(qtys(q)) = Product(qtys(p)) * LineOf(table, s).qty
  <2> DEFINE f == qtys(p)
             g == qtys(q)
  <2>1. /\ Len(f) = Len(p) /\ Len(g) = Len(p) + 1 /\ g[Len(p) + 1] = LineOf(table, s).qty
        /\ \A j \in 1..Len(p) : g[j] = f[j]
    BY <1>1
  <2> HIDE DEF f, g
  <2>2. Product(g) = Product(f) * g[Len(g)]  BY <1>1, <2>1, ProductGrows
  <2> QED  BY <2>1, <2>2 DEF f, g
<1>3. Product(yields(q)) = Product(yields(p)) * table[s[1]].yield
  <2> DEFINE f == yields(p)
             g == yields(q)
  <2>1. /\ Len(f) = Len(p) /\ Len(g) = Len(p) + 1 /\ g[Len(p) + 1] = table[s[1]].yield
        /\ \A j \in 1..Len(p) : g[j] = f[j]
    BY <1>1
  <2> HIDE DEF f, g
  <2>2. Product(g) = Product(f) * g[Len(g)]  BY <1>1, <2>1, ProductGrows
  <2> QED  BY <2>1, <2>2 DEF f, g
<1>4. qty.num = Product(qtys(p)) /\ qty.den = Product(yields(p))  BY DEF Consumed
<1> QED  BY <1>2, <1>3, <1>4 DEF Scale, Consumed, q

\* A line of the recipe at the end of a way down leads further down.
LEMMA LineDown ==
  ASSUME Whole, NEW x, NEW e \in Entry, CameDown(recipes, x, e), Len(e.path) < MaxDepth,
         e.uses \in Stored(recipes), NEW k \in DOMAIN recipes[e.uses].lines,
         NEW d, d = Scaled(e, recipes[e.uses].lines, recipes[e.uses].yield)[k]
  PROVE  /\ CameDown(recipes, x, d)
         /\ d.path = Append(e.path, <<e.uses, k>>) /\ d.uses = recipes[e.uses].lines[k].uses
<1> DEFINE s == <<e.uses, k>>
           l == Len(e.path)
           lines == recipes[e.uses].lines
<1>1. d = [path |-> Append(e.path, s), uses |-> lines[k].uses,
           qty |-> Scale(e.qty, lines[k], recipes[e.uses].yield)]
  BY DEF Scaled
<1>2. s \in Steps(recipes) /\ s[1] = e.uses /\ LineOf(recipes, s) = lines[k]
  BY DEF Steps, LineOf
<1> HIDE DEF s, lines
<1>3. /\ e.path \in Seq(Steps(recipes)) /\ l \in Nat /\ MaxDepth \in Nat /\ l + 1 =< MaxDepth
  BY RecipesAssumption DEF CameDown, RecipesAssumption
<1>4. /\ d.path \in Seq(Steps(recipes)) /\ Len(d.path) = l + 1 /\ d.path[l + 1] = s
      /\ \A j \in 1..l : d.path[j] = e.path[j]
  BY <1>1, <1>2, <1>3
<1>5. e.uses = IF l = 0 THEN x ELSE LineOf(recipes, e.path[l]).uses
  <2>1. e.path = <<>> <=> l = 0  BY <1>3, EmptySeq
  <2> QED  BY <2>1 DEF CameDown
<1>6. ASSUME NEW j \in 1..(l + 1)
      PROVE  d.path[j][1] = IF j = 1 THEN x ELSE LineOf(recipes, d.path[j - 1]).uses
  <2>1. CASE j = l + 1
    <3>1. d.path[j][1] = e.uses  BY <1>2, <1>4, <2>1
    <3>2. CASE l = 0  BY <1>5, <2>1, <3>1, <3>2
    <3>3. CASE l # 0
      <4>1. l \in 1..l /\ j - 1 = l /\ j # 1  BY <1>3, <2>1, <3>3
      <4>2. d.path[j - 1] = e.path[l]  BY <1>4, <4>1
      <4> QED  BY <1>5, <3>1, <3>3, <4>1, <4>2
    <3> QED  BY <3>2, <3>3
  <2>2. CASE j # l + 1
    <3>1. j \in 1..l /\ (j # 1 => j - 1 \in 1..l)  BY <1>3, <2>2
    <3>2. e.path[j][1] = IF j = 1 THEN x ELSE LineOf(recipes, e.path[j - 1]).uses
      BY <3>1 DEF CameDown
    <3>3. d.path[j] = e.path[j] /\ (j # 1 => d.path[j - 1] = e.path[j - 1])
      BY <1>4, <3>1
    <3> QED  BY <3>2, <3>3
  <2> QED  BY <2>1, <2>2
<1>7. d.path # <<>> /\ d.uses = LineOf(recipes, d.path[Len(d.path)]).uses
  <2>1. d.path # <<>>  BY <1>3, <1>4, EmptySeq
  <2> QED  BY <1>1, <1>2, <1>4, <2>1
<1>8. d.qty = Consumed(recipes, d.path)
  <2>1. e.qty \in Fractions /\ e.qty = Consumed(recipes, e.path)  BY DEF Entry, CameDown
  <2> QED  BY <1>1, <1>2, <1>3, <2>1, ConsumedGrows
<1>9. CameDown(recipes, x, d)
  <2>1. Len(d.path) =< MaxDepth  BY <1>3, <1>4
  <2> QED  BY <1>4, <1>6, <1>7, <1>8, <2>1 DEF CameDown
<1> QED  BY <1>1, <1>9 DEF s, lines

\* The lines of a recipe take its place: the ways down stay apart, and what went on from
\* the recipe goes on from one of its lines.
LEMMA LinesSound ==
  ASSUME Whole, NEW t \in ExpansionTask, Fits("lines", t), Sound(recipes, "lines", t),
         NEW u, u = [t EXCEPT !.todo =
                       Scaled(Head(t.todo), Lines(Head(t.todo).uses), t.yield) \o Tail(t.todo)]
  PROVE  Sound(recipes, "expand", u)
<1> DEFINE e == Head(t.todo)
           rest == Tail(t.todo)
           lines == recipes[e.uses].lines
           new == Scaled(e, lines, recipes[e.uses].yield)
           a == Len(t.out)
           c == Len(new)
           m == Len(rest)
           all == t.out \o t.todo
           next == t.out \o (new \o rest)
<1>1. /\ t.out \in Seq(Entry) /\ t.todo \in Seq(Entry) /\ t.todo # <<>>
      /\ e.uses \in RecipeIds /\ Len(e.path) < MaxDepth
  BY DEF ExpansionTask, Fits
<1>2. e.uses \in Stored(recipes) /\ t.yield = recipes[e.uses].yield  BY DEF Sound
<1>3. u.out = t.out /\ u.todo = new \o rest /\ u.sold = t.sold
  BY <1>2 DEF ExpansionTask, Lines
<1>4. e \in Entry /\ rest \in Seq(Entry) /\ t.todo = <<e>> \o rest  BY <1>1
<1>5. new \in Seq(Entry) /\ c = Len(lines) /\ lines \in Seq(Line)
  <2>1. recipes[e.uses] \in Recipe  BY <1>2, RowsAre DEF Whole
  <2>2. lines \in Seq(Line) /\ recipes[e.uses].yield \in Nat  BY <2>1 DEF Recipe
  <2> QED  BY <1>1, <1>4, <2>2, ScaledAre
<1>6. a \in Nat /\ c \in Nat /\ m \in Nat  BY <1>1, <1>4, <1>5
<1> HIDE DEF e, rest, lines, new
<1>7. /\ DOMAIN all = 1..(a + 1 + m)
      /\ \A n \in 1..a : all[n] = t.out[n]
      /\ all[a + 1] = e /\ \A n \in 1..m : all[a + 1 + n] = rest[n]
  <2> DEFINE one == <<e>>
             out == t.out
  <2>1. /\ out \in Seq(Entry) /\ one \in Seq(Entry) /\ Len(one) = 1 /\ one[1] = e /\ 1 \in 1..1
        /\ all = out \o (one \o rest) /\ a = Len(out)
    BY <1>1, <1>4
  <2> HIDE DEF one, out
  <2>2. /\ DOMAIN (out \o (one \o rest)) = 1..(Len(out) + Len(one) + Len(rest))
        /\ \A n \in 1..Len(out) : (out \o (one \o rest))[n] = out[n]
        /\ \A k \in 1..Len(one) : (out \o (one \o rest))[Len(out) + k] = one[k]
        /\ \A n \in 1..Len(rest) :
             (out \o (one \o rest))[Len(out) + Len(one) + n] = rest[n]
    <3>1. out \in Seq(Entry) /\ one \in Seq(Entry) /\ rest \in Seq(Entry)  BY <1>4, <2>1
    <3> QED  BY <3>1, JoinedLines
  <2> HIDE DEF all, a
  <2>3. /\ DOMAIN all = 1..(a + 1 + Len(rest))
        /\ \A n \in 1..a : all[n] = out[n]
        /\ all[a + 1] = one[1] /\ \A n \in 1..Len(rest) : all[a + 1 + n] = rest[n]
    BY <2>1, <2>2, Zenon
  <2> QED  BY <2>1, <2>3, Zenon DEF out
<1>8. /\ DOMAIN next = 1..(a + c + m)
      /\ \A n \in 1..a : next[n] = t.out[n]
      /\ \A k \in 1..c : next[a + k] = new[k]
      /\ \A n \in 1..m : next[a + c + n] = rest[n]
  <2> DEFINE out == t.out
  <2>1. out \in Seq(Entry)  BY <1>1
  <2> HIDE DEF out
  <2>2. /\ DOMAIN (out \o (new \o rest)) = 1..(Len(out) + Len(new) + Len(rest))
        /\ \A n \in 1..Len(out) : (out \o (new \o rest))[n] = out[n]
        /\ \A k \in 1..Len(new) : (out \o (new \o rest))[Len(out) + k] = new[k]
        /\ \A n \in 1..Len(rest) :
             (out \o (new \o rest))[Len(out) + Len(new) + n] = rest[n]
    <3>1. new \in Seq(Entry) /\ rest \in Seq(Entry)  BY <1>4, <1>5
    <3> QED  BY <2>1, <3>1, JoinedLines
  <2> QED  BY <2>2, Zenon DEF out
<1>9. DOMAIN lines = 1..c  BY <1>5
<1>10. /\ \A n \in 1..(a + 1 + m) : CameDown(recipes, t.sold, all[n])
       /\ \A i, j \in 1..(a + 1 + m) : Begins(all[i].path, all[j].path) => i = j
       /\ \A p \in Paths(recipes, t.sold) : \E n \in 1..(a + 1 + m) : Begins(all[n].path, p)
       /\ \A n \in DOMAIN t.out : t.out[n].uses \in ItemIds /\ t.sold \in Stored(recipes)
       /\ t.sold \in Stored(recipes)
  BY <1>7 DEF Sound
<1> HIDE DEF all, next, a, c, m
<1>11. CameDown(recipes, t.sold, e)
  <2>1. a + 1 \in 1..(a + 1 + m)  BY <1>6
  <2> QED  BY <1>7, <1>10, <2>1
<1>12. \A k \in 1..c : /\ CameDown(recipes, t.sold, new[k])
                       /\ new[k].path = Append(e.path, <<e.uses, k>>)
  <2> TAKE k \in 1..c
  <2> DEFINE d == new[k]
  <2>1. d = Scaled(e, recipes[e.uses].lines, recipes[e.uses].yield)[k]  BY DEF new, lines
  <2>2. k \in DOMAIN recipes[e.uses].lines  BY <1>9 DEF lines
  <2>3. Len(e.path) < MaxDepth /\ e \in Entry /\ e.uses \in Stored(recipes)
    BY <1>1, <1>2, <1>4 DEF e
  <2> HIDE DEF d
  <2>4. CameDown(recipes, t.sold, d) /\ d.path = Append(e.path, <<e.uses, k>>)
    BY <1>11, <2>1, <2>2, <2>3, LineDown
  <2> QED  BY <2>4 DEF d
<1>13. e.path \in Seq(Steps(recipes)) /\ Len(e.path) \in Nat  BY <1>11 DEF CameDown
\* Where an entry comes from: itself, or the recipe whose line it is.
<1> DEFINE from(n) == IF n =< a THEN n ELSE IF n =< a + c THEN a + 1 ELSE n - c + 1
<1>14. ASSUME NEW n \in 1..(a + c + m)
       PROVE  /\ from(n) \in 1..(a + 1 + m)
              /\ from(n) # a + 1 => next[n] = all[from(n)]
              /\ from(n) = a + 1 => n - a \in 1..c /\ next[n] = new[n - a] /\ all[from(n)] = e
  <2>1. CASE n =< a
    <3>1. n \in 1..a /\ from(n) = n /\ n # a + 1 /\ n \in 1..(a + 1 + m)  BY <1>6, <2>1
    <3> QED  BY <1>7, <1>8, <3>1
  <2>2. CASE n > a /\ n =< a + c
    <3>1. n - a \in 1..c /\ a + (n - a) = n /\ from(n) = a + 1 /\ a + 1 \in 1..(a + 1 + m)
      BY <1>6, <2>2
    <3> QED  BY <1>7, <1>8, <3>1
  <2>3. CASE n > a + c
    <3>1. /\ n - a - c \in 1..m /\ a + c + (n - a - c) = n /\ from(n) = n - c + 1
          /\ a + 1 + (n - a - c) = n - c + 1 /\ n - c + 1 # a + 1
          /\ n - c + 1 \in 1..(a + 1 + m)
      BY <1>6, <2>3
    <3>2. next[a + c + (n - a - c)] = rest[n - a - c]  BY <1>8, <3>1
    <3>3. all[a + 1 + (n - a - c)] = rest[n - a - c]  BY <1>7, <3>1
    <3> QED  BY <3>1, <3>2, <3>3
  <2> QED  BY <1>6, <2>1, <2>2, <2>3
<1>15. \A n \in 1..(a + c + m) : CameDown(recipes, t.sold, next[n])
  <2> TAKE n \in 1..(a + c + m)
  <2> HIDE DEF from
  <2> QED  BY <1>10, <1>12, <1>14
<1>16. ASSUME NEW k \in 1..c
       PROVE  /\ Len(new[k].path) = Len(e.path) + 1 /\ new[k].path[Len(e.path) + 1] = <<e.uses, k>>
              /\ \A j \in 1..Len(e.path) : new[k].path[j] = e.path[j]
  <2>1. new[k].path = Append(e.path, <<e.uses, k>>)  BY <1>12
  <2> QED  BY <1>13, <2>1
<1>17. ASSUME NEW i \in 1..(a + c + m), NEW j \in 1..(a + c + m),
              Begins(next[i].path, next[j].path)
       PROVE  i = j
  <2>1. /\ from(i) \in 1..(a + 1 + m) /\ from(j) \in 1..(a + 1 + m)
        /\ next[j].path \in Seq(Steps(recipes)) /\ Len(next[j].path) \in Nat
        /\ Len(next[i].path) \in Nat
    <3>1. next[i].path \in Seq(Steps(recipes)) /\ next[j].path \in Seq(Steps(recipes))
      BY <1>15 DEF CameDown
    <3> QED  BY <1>14, <3>1
  <2>2. from(i) = from(j)
    <3> HIDE DEF from
    <3>1. CASE from(i) # a + 1 /\ from(j) # a + 1  BY <1>10, <1>14, <1>17, <2>1, <3>1
    \* A way to another entry that is on the way to one of the lines is on the way to the
    \* recipe, or is that line's own, and the recipe is on it.
    <3>2. CASE from(i) # a + 1 /\ from(j) = a + 1
      <4>1. /\ next[i] = all[from(i)] /\ all[from(j)] = e
            /\ j - a \in 1..c /\ next[j] = new[j - a]
        BY <1>14, <3>2
      <4> DEFINE p == next[i].path
                 q == new[j - a].path
                 l == Len(e.path)
      <4>2. /\ Len(q) = l + 1 /\ l \in Nat /\ Len(p) \in Nat /\ Len(p) =< l + 1
            /\ \A n \in 1..l : q[n] = e.path[n]
            /\ \A n \in 1..Len(p) : p[n] = q[n]
        BY <1>13, <1>16, <1>17, <2>1, <4>1 DEF Begins
      <4> HIDE DEF p, q, l
      <4>3. CASE Len(p) =< l
        <5>1. \A n \in 1..Len(p) : n \in 1..l  BY <4>2, <4>3
        <5>2. Begins(p, e.path)  BY <4>2, <4>3, <5>1 DEF Begins, l
        <5> QED  BY <1>10, <2>1, <4>1, <5>2 DEF p
      <4>4. CASE Len(p) = l + 1
        <5>1. \A n \in 1..l : n \in 1..Len(p)  BY <4>2, <4>4
        <5>2. Begins(e.path, p)  BY <4>2, <4>4, <5>1 DEF Begins, l
        <5> QED  BY <1>10, <2>1, <4>1, <5>2 DEF p
      <4> QED  BY <4>2, <4>3, <4>4
    <3>3. CASE from(i) = a + 1 /\ from(j) # a + 1
      <4>1. /\ next[j] = all[from(j)] /\ all[from(i)] = e
            /\ i - a \in 1..c /\ next[i] = new[i - a]
        BY <1>14, <3>3
      <4> DEFINE p == new[i - a].path
                 q == next[j].path
                 l == Len(e.path)
      <4>2. /\ Len(p) = l + 1 /\ l \in Nat /\ Len(q) \in Nat /\ Len(p) =< Len(q)
            /\ \A n \in 1..l : p[n] = e.path[n]
            /\ \A n \in 1..Len(p) : p[n] = q[n]
        BY <1>13, <1>16, <1>17, <2>1, <4>1 DEF Begins
      <4> HIDE DEF p, q, l
      <4>3. \A n \in 1..l : n \in 1..Len(p)  BY <4>2
      <4>4. Begins(e.path, q)  BY <4>2, <4>3 DEF Begins, l
      <4> QED  BY <1>10, <2>1, <4>1, <4>4 DEF q
    <3> QED  BY <3>1, <3>2, <3>3
  <2>3. CASE from(i) # a + 1  BY <1>6, <2>2, <2>3
  <2>4. CASE from(i) = a + 1
    <3>1. /\ i - a \in 1..c /\ next[i] = new[i - a] /\ j - a \in 1..c /\ next[j] = new[j - a]
      BY <1>14, <2>2, <2>4
    <3>2. /\ Len(e.path) + 1 \in 1..Len(new[i - a].path)
          /\ new[i - a].path[Len(e.path) + 1] = <<e.uses, i - a>>
          /\ new[j - a].path[Len(e.path) + 1] = <<e.uses, j - a>>
      BY <1>13, <1>16, <3>1
    <3>3. new[i - a].path[Len(e.path) + 1] = new[j - a].path[Len(e.path) + 1]
      BY <1>17, <3>1, <3>2 DEF Begins
    <3>4. i - a = j - a  BY <3>2, <3>3
    <3> QED  BY <1>6, <3>4
  <2> QED  BY <2>3, <2>4
<1>18. ASSUME NEW p \in Paths(recipes, t.sold)
       PROVE  \E n \in 1..(a + c + m) : Begins(next[n].path, p)
  <2>1. PICK n \in 1..(a + 1 + m) : Begins(all[n].path, p)  BY <1>10
  <2>2. CASE n =< a
    <3>1. n \in 1..a /\ n \in 1..(a + c + m)  BY <1>6, <2>2
    <3> QED  BY <1>7, <1>8, <2>1, <3>1
  <2>3. CASE n > a + 1
    <3> DEFINE k == n - a - 1
    <3>1. k \in 1..m /\ a + 1 + k = n /\ a + c + k \in 1..(a + c + m)  BY <1>6, <2>3
    <3>2. all[a + 1 + k] = rest[k] /\ next[a + c + k] = rest[k]  BY <1>7, <1>8, <3>1
    <3> QED  BY <2>1, <3>1, <3>2
  <2>4. CASE n = a + 1
    <3> DEFINE l == Len(e.path)
    <3>1. /\ p \in Seq(Steps(recipes)) /\ Len(p) \in Nat /\ Len(p) >= 1
          /\ p[1][1] = t.sold
          /\ \A j \in 1..(Len(p) - 1) : p[j + 1][1] = LineOf(recipes, p[j]).uses
          /\ LineOf(recipes, p[Len(p)]).uses \in ItemIds
      BY PathIs
    <3>2. l =< Len(p) /\ \A j \in 1..l : e.path[j] = p[j]  BY <1>7, <2>1, <2>4 DEF Begins
    <3>3. e.uses = IF l = 0 THEN t.sold ELSE LineOf(recipes, e.path[l]).uses
      <4>1. e.path = <<>> <=> l = 0  BY <1>13, EmptySeq
      <4> QED  BY <1>11, <4>1 DEF CameDown
    <3>4. l < Len(p)
      <4>1. SUFFICES ASSUME l = Len(p) PROVE FALSE  BY <1>13, <3>1, <3>2
      <4>2. l \in 1..l /\ l # 0  BY <3>1, <4>1
      <4>3. e.uses \in ItemIds  BY <3>1, <3>2, <3>3, <4>1, <4>2
      <4> QED  BY <1>1, <4>3, RecipesAssumption DEF RecipesAssumption, e
    <3>5. p[l + 1][1] = e.uses /\ l + 1 \in 1..Len(p)
      <4>1. l + 1 \in 1..Len(p) /\ (l # 0 => l \in 1..(Len(p) - 1) /\ l \in 1..l)
        BY <1>13, <3>1, <3>4
      <4>2. CASE l = 0
        <5>1. l + 1 = 1  BY <4>2
        <5> QED  BY <3>1, <3>3, <4>1, <4>2, <5>1
      <4>3. CASE l # 0  BY <3>1, <3>2, <3>3, <4>1, <4>3
      <4> QED  BY <4>1, <4>2, <4>3
    <3>6. PICK k \in 1..c : p[l + 1] = <<e.uses, k>>
      <4>1. p[l + 1] \in Steps(recipes)  BY <3>1, <3>5
      <4>2. p[l + 1] = <<p[l + 1][1], p[l + 1][2]>> /\ p[l + 1][2] \in DOMAIN recipes[e.uses].lines
        BY <3>5, <4>1, StepsAre
      <4> QED  BY <1>9, <3>5, <4>2 DEF lines
    <3>7. Begins(new[k].path, p)
      <4>1. /\ Len(new[k].path) = l + 1 /\ new[k].path[l + 1] = <<e.uses, k>>
            /\ \A j \in 1..l : new[k].path[j] = e.path[j]
        BY <1>16
      <4>2. ASSUME NEW j \in 1..(l + 1)  PROVE new[k].path[j] = p[j]
        <5>1. j \in 1..l \/ j = l + 1  BY <1>13
        <5> QED  BY <3>2, <3>6, <4>1, <5>1
      <4> QED  BY <1>13, <3>1, <3>4, <4>1, <4>2 DEF Begins
    <3>8. a + k \in 1..(a + c + m) /\ next[a + k] = new[k]  BY <1>6, <1>8
    <3> QED  BY <3>7, <3>8
  <2> QED  BY <1>6, <2>2, <2>3, <2>4
<1>19. u.out \o u.todo = next  BY <1>3 DEF next, new, rest, lines
<1>20. /\ u.sold \in Stored(recipes) /\ \A n \in DOMAIN u.out : u.out[n].uses \in ItemIds
  BY <1>3, <1>10
<1> QED  BY <1>3, <1>8, <1>15, <1>17, <1>18, <1>19, <1>20 DEF Sound

\* The recipes there were are there still, as they were.
Grown(old, table) == \A x \in Stored(old) : x \in Stored(table) /\ table[x] = old[x]

\* A path from a recipe there was follows the lines there were.
LEMMA PathsStay ==
  ASSUME Whole, NEW table, Grown(recipes, table), Stored(table) \subseteq RecipeIds,
         NEW x \in Stored(recipes), NEW p \in Paths(table, x)
  PROVE  p \in Paths(recipes, x)
<1>1. /\ p \in Seq(Steps(table)) /\ Len(p) \in 1..MaxDepth /\ Len(p) \in Nat
      /\ p[1][1] = x
      /\ \A j \in 1..(Len(p) - 1) : p[j + 1][1] = LineOf(table, p[j]).uses
      /\ LineOf(table, p[Len(p)]).uses \in ItemIds
  <2>1. /\ p \in Seq(Steps(table)) /\ Len(p) \in 1..MaxDepth
        /\ p[1][1] = x
        /\ \A j \in 1..(Len(p) - 1) : p[j + 1][1] = LineOf(table, p[j]).uses
        /\ LineOf(table, p[Len(p)]).uses \in ItemIds
    BY PathIs, Zenon
  <2>2. Len(p) \in Nat  BY <2>1
  <2> QED  BY <2>1, <2>2, Zenon
<1>2. ASSUME NEW s \in Steps(table), s[1] \in Stored(recipes)
      PROVE  s \in Steps(recipes) /\ LineOf(recipes, s) = LineOf(table, s)
  <2>1. PICK y \in Stored(table) : \E k \in DOMAIN table[y].lines : s = <<y, k>>
    BY DEF Steps
  <2>2. PICK k \in DOMAIN table[y].lines : s = <<y, k>>  BY <2>1
  <2>3. s[1] = y  BY <2>2
  <2>4. y \in Stored(recipes) /\ table[y] = recipes[y]  BY <1>2, <2>3 DEF Grown
  <2> QED  BY <2>2, <2>3, <2>4 DEF Steps, LineOf
<1>3. ASSUME NEW s \in Steps(table)
      PROVE  s[1] \in Stored(table)
  <2>1. PICK y \in Stored(table) : \E k \in DOMAIN table[y].lines : s = <<y, k>>
    BY DEF Steps
  <2> QED  BY <2>1
<1> DEFINE T == {n \in Nat : n < Len(p) => p[n + 1][1] \in Stored(recipes)}
<1>4. 0 \in T  BY <1>1
<1>5. ASSUME NEW n \in T  PROVE n + 1 \in T
  <2>1. n \in Nat  OBVIOUS
  <2>2. SUFFICES ASSUME n + 1 < Len(p) PROVE p[(n + 1) + 1][1] \in Stored(recipes)
    BY <2>1
  <2>3. n + 1 \in 1..(Len(p) - 1) /\ n + 1 \in 1..Len(p) /\ (n + 1) + 1 \in 1..Len(p)
    BY <1>1, <2>1, <2>2
  <2>4. p[n + 1][1] \in Stored(recipes)  BY <1>1, <2>1, <2>2
  <2>5. p[n + 1] \in Steps(table) /\ p[(n + 1) + 1] \in Steps(table)  BY <1>1, <2>3
  <2>6. p[n + 1] \in Steps(recipes) /\ LineOf(recipes, p[n + 1]) = LineOf(table, p[n + 1])
    BY <1>2, <2>4, <2>5
  <2>7. p[(n + 1) + 1][1] = LineOf(recipes, p[n + 1]).uses  BY <1>1, <2>3, <2>6
  <2>8. p[(n + 1) + 1][1] \in ItemIds \cup Stored(recipes)  BY <2>6, <2>7, StepsAre
  <2>9. p[(n + 1) + 1][1] \in RecipeIds  BY <1>3, <2>5
  <2> QED  BY <2>8, <2>9, RecipesAssumption DEF RecipesAssumption
<1>6. T \in SUBSET Nat  OBVIOUS
<1> HIDE DEF T
<1>7. \A n \in Nat : n < Len(p) => p[n + 1][1] \in Stored(recipes)
  <2>1. T = Nat  BY <1>4, <1>5, <1>6, SetInduction
  <2> QED  BY <2>1 DEF T
<1>8. ASSUME NEW j \in 1..Len(p)
      PROVE  p[j] \in Steps(recipes) /\ LineOf(recipes, p[j]) = LineOf(table, p[j])
  <2>1. j - 1 \in Nat /\ j - 1 < Len(p) /\ (j - 1) + 1 = j  BY <1>1
  <2>2. p[j][1] \in Stored(recipes)  BY <1>7, <2>1
  <2>3. p[j] \in Steps(table)  BY <1>1
  <2> QED  BY <1>2, <2>2, <2>3
<1>9. p \in Seq(Steps(recipes))  BY <1>1, <1>8
<1>10. \A j \in 1..(Len(p) - 1) : p[j + 1][1] = LineOf(recipes, p[j]).uses
  <2> TAKE j \in 1..(Len(p) - 1)
  <2>1. j \in 1..Len(p)  BY <1>1
  <2> QED  BY <1>1, <1>8, <2>1
<1>11. LineOf(recipes, p[Len(p)]).uses \in ItemIds
  <2>1. Len(p) \in 1..Len(p)  BY <1>1
  <2> QED  BY <1>1, <1>8, <2>1
<1> QED  BY <1>1, <1>9, <1>10, <1>11, PathIs

\* What has come down the lines there were has come down those there are.
LEMMA CameDownStill ==
  ASSUME Whole, NEW table, Grown(recipes, table), NEW x, NEW e, CameDown(recipes, x, e)
  PROVE  CameDown(table, x, e)
<1> DEFINE p == e.path
<1>1. /\ p \in Seq(Steps(recipes)) /\ Len(p) =< MaxDepth /\ Len(p) \in Nat
      /\ \A j \in 1..Len(p) : p[j][1] = IF j = 1 THEN x ELSE LineOf(recipes, p[j - 1]).uses
      /\ e.uses = IF p = <<>> THEN x ELSE LineOf(recipes, p[Len(p)]).uses
      /\ e.qty = Consumed(recipes, p)
  BY DEF CameDown
<1> HIDE DEF p
<1>2. ASSUME NEW s \in Steps(recipes)
      PROVE  /\ s \in Steps(table) /\ LineOf(table, s) = LineOf(recipes, s)
             /\ table[s[1]] = recipes[s[1]]
  <2>1. s = <<s[1], s[2]>> /\ s[1] \in Stored(recipes) /\ s[2] \in DOMAIN recipes[s[1]].lines
    BY StepsAre
  <2>2. s[1] \in Stored(table) /\ table[s[1]] = recipes[s[1]]  BY <2>1 DEF Grown
  <2> QED  BY <2>1, <2>2 DEF Steps, LineOf
<1>3. \A j \in 1..Len(p) : /\ p[j] \in Steps(table) /\ LineOf(table, p[j]) = LineOf(recipes, p[j])
                           /\ table[p[j][1]] = recipes[p[j][1]]
  BY <1>1, <1>2
<1>4. p \in Seq(Steps(table)) /\ DOMAIN p = 1..Len(p)  BY <1>1, <1>3
<1>5. ASSUME NEW j \in 1..Len(p)
      PROVE  p[j][1] = IF j = 1 THEN x ELSE LineOf(table, p[j - 1]).uses
  <2>1. j # 1 => j - 1 \in 1..Len(p)  BY <1>1
  <2> QED  BY <1>1, <1>3, <2>1
<1>6. e.uses = IF p = <<>> THEN x ELSE LineOf(table, p[Len(p)]).uses
  <2>1. p # <<>> => Len(p) \in 1..Len(p)  BY <1>1, EmptySeq
  <2> QED  BY <1>1, <1>3, <2>1
<1>7. Consumed(table, p) = Consumed(recipes, p)
  <2>1. [j \in DOMAIN p |-> LineOf(table, p[j]).qty] = [j \in DOMAIN p |-> LineOf(recipes, p[j]).qty]
    BY <1>3, <1>4
  <2>2. [j \in DOMAIN p |-> table[p[j][1]].yield] = [j \in DOMAIN p |-> recipes[p[j][1]].yield]
    BY <1>3, <1>4
  <2> QED  BY <2>1, <2>2 DEF Consumed
<1> QED  BY <1>1, <1>4, <1>5, <1>6, <1>7 DEF CameDown, p

\* A recipe that is added changes no expansion under way.
LEMMA GrownSound ==
  ASSUME Whole, NEW table, Grown(recipes, table), Stored(table) \subseteq RecipeIds,
         NEW query, NEW t, Sound(recipes, query, t)
  PROVE  Sound(table, query, t)
<1> DEFINE all == t.out \o t.todo
<1>1. /\ t.sold \in Stored(recipes)
      /\ \A n \in DOMAIN t.out : t.out[n].uses \in ItemIds
      /\ \A n \in DOMAIN all : CameDown(recipes, t.sold, all[n])
      /\ \A m, n \in DOMAIN all : Begins(all[m].path, all[n].path) => m = n
      /\ \A p \in Paths(recipes, t.sold) : \E n \in DOMAIN all : Begins(all[n].path, p)
      /\ query = "lines" =>
           Head(t.todo).uses \in Stored(recipes) /\ t.yield = recipes[Head(t.todo).uses].yield
  BY DEF Sound
<1> HIDE DEF all
<1>2. t.sold \in Stored(table)  BY <1>1 DEF Grown
<1>3. \A n \in DOMAIN all : CameDown(table, t.sold, all[n])  BY <1>1, CameDownStill
<1>4. \A p \in Paths(table, t.sold) : \E n \in DOMAIN all : Begins(all[n].path, p)
  BY <1>1, PathsStay
<1>5. query = "lines" =>
        Head(t.todo).uses \in Stored(table) /\ t.yield = table[Head(t.todo).uses].yield
  BY <1>1 DEF Grown
<1> QED  BY <1>1, <1>2, <1>3, <1>4, <1>5 DEF Sound, all

\* When nothing is left to expand, what has been listed is what the paths consume.
LEMMA SoundFollows ==
  ASSUME Whole, NEW t \in ExpansionTask, Sound(recipes, "expand", t), t.todo = <<>>
  PROVE  /\ {t.out[n].path : n \in DOMAIN t.out} = Paths(recipes, t.sold)
         /\ \A m, n \in DOMAIN t.out : t.out[m].path = t.out[n].path => m = n
         /\ \A n \in DOMAIN t.out :
              /\ t.out[n].uses = LineOf(recipes, Last(t.out[n].path)).uses
              /\ t.out[n].qty = Consumed(recipes, t.out[n].path)
<1>1. t.out \o t.todo = t.out
  <2>1. t.out \in Seq(Entry)  BY DEF ExpansionTask
  <2> QED  BY <2>1
<1>2. /\ t.sold \in Stored(recipes)
      /\ \A n \in DOMAIN t.out : t.out[n].uses \in ItemIds
      /\ \A n \in DOMAIN t.out : CameDown(recipes, t.sold, t.out[n])
      /\ \A m, n \in DOMAIN t.out : Begins(t.out[m].path, t.out[n].path) => m = n
      /\ \A p \in Paths(recipes, t.sold) : \E n \in DOMAIN t.out : Begins(t.out[n].path, p)
  BY <1>1 DEF Sound
<1>3. t.sold \in RecipeIds /\ Stored(recipes) \subseteq RecipeIds /\ t.sold \notin ItemIds
  BY <1>2, RowsAre, RecipesAssumption DEF Whole, RecipesAssumption
<1>4. ASSUME NEW n \in DOMAIN t.out
      PROVE  /\ t.out[n].path \in Paths(recipes, t.sold) /\ Len(t.out[n].path) \in Nat
             /\ t.out[n].uses = LineOf(recipes, Last(t.out[n].path)).uses
             /\ t.out[n].qty = Consumed(recipes, t.out[n].path)
  <2> DEFINE e == t.out[n]
             p == e.path
  <2>1. /\ p \in Seq(Steps(recipes)) /\ Len(p) =< MaxDepth /\ Len(p) \in Nat
        /\ \A j \in 1..Len(p) :
             p[j][1] = IF j = 1 THEN t.sold ELSE LineOf(recipes, p[j - 1]).uses
        /\ e.uses = IF p = <<>> THEN t.sold ELSE LineOf(recipes, p[Len(p)]).uses
        /\ e.qty = Consumed(recipes, p)
    BY <1>2 DEF CameDown
  <2>2. e.uses \in ItemIds  BY <1>2
  <2> HIDE DEF e, p
  <2>3. p # <<>>  BY <1>3, <2>1, <2>2
  <2>4. Len(p) \in 1..Len(p) /\ MaxDepth \in Nat
    BY <2>1, <2>3, EmptySeq, RecipesAssumption DEF RecipesAssumption
  <2>5. p[1][1] = t.sold /\ LineOf(recipes, p[Len(p)]).uses \in ItemIds
    <3>1. 1 \in 1..Len(p)  BY <2>4
    <3> QED  BY <2>1, <2>2, <2>3, <3>1
  <2>6. \A j \in 1..(Len(p) - 1) : p[j + 1][1] = LineOf(recipes, p[j]).uses
    <3> TAKE j \in 1..(Len(p) - 1)
    <3>1. j + 1 \in 1..Len(p) /\ j + 1 # 1 /\ (j + 1) - 1 = j  BY <2>1
    <3> QED  BY <2>1, <3>1
  <2>7. Len(p) \in 1..MaxDepth  BY <2>1, <2>4
  <2>8. p \in Paths(recipes, t.sold)  BY <2>1, <2>5, <2>6, <2>7, PathIs
  <2>9. Last(p) = p[Len(p)]  BY DEF Last
  <2> QED  BY <2>1, <2>3, <2>8, <2>9 DEF e, p
<1>5. ASSUME NEW p \in Paths(recipes, t.sold)
      PROVE  \E n \in DOMAIN t.out : t.out[n].path = p
  <2>1. PICK n \in DOMAIN t.out : Begins(t.out[n].path, p)  BY <1>2
  <2> DEFINE q == t.out[n].path
  <2>2. q \in Paths(recipes, t.sold)  BY <1>4
  <2>3. Len(q) =< Len(p) /\ \A j \in 1..Len(q) : q[j] = p[j]  BY <2>1 DEF Begins
  <2> HIDE DEF q
  <2>4. /\ q \in Seq(Steps(recipes)) /\ Len(q) \in 1..MaxDepth /\ Len(q) \in Nat
        /\ LineOf(recipes, q[Len(q)]).uses \in ItemIds
    BY <2>2, PathIs
  <2>5. /\ p \in Seq(Steps(recipes)) /\ Len(p) \in Nat
        /\ \A j \in 1..(Len(p) - 1) : p[j + 1][1] = LineOf(recipes, p[j]).uses
    BY PathIs
  <2>6. Len(q) = Len(p)
    <3>1. SUFFICES ASSUME Len(q) < Len(p) PROVE FALSE  BY <2>3, <2>4, <2>5
    <3>2. Len(q) \in 1..(Len(p) - 1) /\ Len(q) \in 1..Len(q) /\ Len(q) + 1 \in 1..Len(p)
      BY <2>4, <2>5, <3>1
    <3>3. p[Len(q) + 1][1] = LineOf(recipes, q[Len(q)]).uses  BY <2>3, <2>5, <3>2
    <3>4. p[Len(q) + 1] \in Steps(recipes)  BY <2>5, <3>2
    <3>5. p[Len(q) + 1][1] \in Stored(recipes)  BY <3>4, StepsAre
    <3> QED  BY <1>3, <2>4, <3>3, <3>5, RecipesAssumption DEF RecipesAssumption
  <2>7. q = p  BY <2>3, <2>4, <2>5, <2>6
  <2> QED  BY <2>7 DEF q
<1>6. ASSUME NEW m \in DOMAIN t.out, NEW n \in DOMAIN t.out, t.out[m].path = t.out[n].path
      PROVE  m = n
  <2>1. Len(t.out[m].path) \in Nat  BY <1>4
  <2>2. Begins(t.out[m].path, t.out[n].path)  BY <1>6, <2>1 DEF Begins
  <2> QED  BY <1>2, <2>2
<1> QED  BY <1>4, <1>5, <1>6

\* A request that carries its expansion on over a table that has grown.
LEMMA OthersSound ==
  ASSUME Whole, ExpansionsSound, Grown(recipes, recipes'), Stored(recipes') \subseteq RecipeIds,
         NEW q \in Requests, pc'[q] = pc[q], task'[q] = task[q],
         Expanding(q), q \notin disturbed
  PROVE  Sound(recipes', pc'[q], task'[q])
<1> DEFINE table == recipes'
           query == pc[q]
           t == task[q]
<1>1. Sound(recipes, query, t)  BY DEF ExpansionsSound
<1>2. Grown(recipes, table) /\ Stored(table) \subseteq RecipeIds  OBVIOUS
<1> HIDE DEF table, query, t
<1>3. Sound(table, query, t)  BY <1>1, <1>2, GrownSound
<1> QED  BY <1>3 DEF table, query, t

\* The steps that expand nothing take their request elsewhere.
LEMMA ElsewhereGoes ==
  ASSUME NEW r \in Requests,
         \/ UploadItems(r) \/ UploadItemRow(r) \/ UpdateOverride(r) \/ WriteOverride(r)
         \/ UploadRecipes(r) \/ GroupFails(r) \/ Lookup(r) \/ LookupCategory(r)
         \/ InsertMissingCategory(r) \/ InsertMissingItem(r) \/ CheckExisting(r)
         \/ CreateFromFile(r)
  PROVE  /\ \E next, t : next \notin {"expand", "lines"} /\ Goto(r, next, t)
         /\ UNCHANGED disturbed
<1> DEFINE Aside == \E next, t : next \notin {"expand", "lines"} /\ Goto(r, next, t)
<1>1. UNCHANGED disturbed
  BY DEF UploadItems, UploadItemRow, UpdateOverride, WriteOverride, UploadRecipes, GroupFails,
         Lookup, LookupCategory, InsertMissingCategory, InsertMissingItem, CheckExisting,
         CreateFromFile, Elsewhere
<1> SUFFICES Aside  BY <1>1
<1>2. ASSUME NextGroup(r)  PROVE Aside
  BY <1>2, Zenon DEF NextGroup, Start
<1>3. ASSUME NEW id, Ensured(r, id)  PROVE Aside
  <2>1. CASE task[r].row = 0
    <3>1. Goto(r, "existing", [task[r] EXCEPT !.produces = id])  BY <1>3, <2>1 DEF Ensured
    <3> QED  BY <3>1
  <2>2. CASE task[r].row # 0
    <3>1. \E next \in {"create", "lookup"} : \E t : Goto(r, next, t)
      BY <1>3, <2>2, Zenon DEF Ensured
    <3> QED  BY <3>1
  <2> QED  BY <2>1, <2>2
<1>4. ASSUME \E next \in {"rows", "override", "idle", "lookup", "existing", "categories",
                          "category", "item"} : \E t : Goto(r, next, t)
      PROVE  Aside
  BY <1>4
<1>5. CASE UploadItems(r)
  <2>1. \E t : Goto(r, "rows", t)  BY <1>5 DEF UploadItems
  <2> QED  BY <1>4, <2>1
<1>6. CASE UploadItemRow(r)
  <2>1. \E t : Goto(r, "idle", t) \/ Goto(r, "rows", t)  BY <1>6, Zenon DEF UploadItemRow
  <2> QED  BY <1>4, <2>1
<1>7. CASE UpdateOverride(r)
  <2>1. \E t : Goto(r, "override", t)  BY <1>7 DEF UpdateOverride
  <2> QED  BY <1>4, <2>1
<1>8. CASE WriteOverride(r)
  <2>1. \E t : Goto(r, "idle", t)  BY <1>8 DEF WriteOverride
  <2> QED  BY <1>4, <2>1
<1>9. CASE UploadRecipes(r)
  <2>1. \E t : Goto(r, "existing", t) \/ Goto(r, "lookup", t)
    BY <1>9, Zenon DEF UploadRecipes, Start
  <2> QED  BY <1>4, <2>1
<1>10. CASE GroupFails(r)  BY <1>2, <1>10 DEF GroupFails
<1>11. CASE Lookup(r)
  <2>1. Goto(r, "categories", task[r]) \/ \E id : Ensured(r, id)  BY <1>11, Zenon DEF Lookup
  <2> QED  BY <1>3, <1>4, <2>1
<1>12. CASE LookupCategory(r)
  <2>1. \E t : Goto(r, "category", t) \/ Goto(r, "item", t)
    BY <1>12, Zenon DEF LookupCategory, FindOrCreate
  <2> QED  BY <1>4, <2>1
<1>13. CASE InsertMissingCategory(r)
  <2>1. \E t : Goto(r, "item", t)  BY <1>13 DEF InsertMissingCategory
  <2> QED  BY <1>4, <2>1
<1>14. CASE InsertMissingItem(r)  BY <1>3, <1>14 DEF InsertMissingItem
<1>15. CASE CheckExisting(r)
  <2>1. NextGroup(r) \/ \E t : Goto(r, "lookup", t)  BY <1>15, Zenon DEF CheckExisting
  <2> QED  BY <1>2, <1>4, <2>1
<1>16. CASE CreateFromFile(r)  BY <1>2, <1>16 DEF CreateFromFile
<1> QED  BY <1>5, <1>6, <1>7, <1>8, <1>9, <1>10, <1>11, <1>12, <1>13, <1>14, <1>15, <1>16

\* The recipe table grows, unless a recipe is updated or deleted.
LEMMA TableGrows ==
  ASSUME Whole, Next, \A x \in RecipeIds : ~DeleteRecipe(x),
         \A x \in RecipeIds : \A y, lines : ~UpdateRecipe(x, y, lines)
  PROVE  Grown(recipes, recipes')
<1>1. Typed  BY DEF Whole
<1>2. CASE UNCHANGED recipes  BY <1>2 DEF Grown
<1>3. ASSUME NEW x \in RecipeIds, NEW recipe, InsertRecipe(x, recipe)  PROVE Grown(recipes, recipes')
  <2>1. recipes' = [recipes EXCEPT ![x] = recipe] /\ x \notin Stored(recipes)
    BY <1>3 DEF InsertRecipe, Unused, Stored
  <2>2. \A y \in RecipeIds : y # x => recipes'[y] = recipes[y]  BY <1>1, <2>1 DEF Typed
  <2>3. DOMAIN recipes' = RecipeIds  BY <1>1, <2>1 DEF Typed
  <2> QED  BY <1>1, <2>1, <2>2, <2>3, RowsAre DEF Grown, Stored
<1>4. CASE EditItems  BY <1>2, <1>4 DEF EditItems, Elsewhere
<1>5. CASE EditRecipes
  <2>1. ASSUME NEW produces, NEW name, NEW y, NEW lines, CreateRecipe(produces, name, y, lines)
        PROVE  \E x \in RecipeIds : \E recipe : InsertRecipe(x, recipe)
    BY <2>1 DEF CreateRecipe
  <2>2. ASSUME NEW m, NEW x, CreateMenuItemMapping(m, x) \/ DeleteMapping(m)
        PROVE  UNCHANGED recipes
    BY <2>2 DEF CreateMenuItemMapping, DeleteMapping
  <2>3. Stored(recipes) \subseteq RecipeIds  BY <1>1, RowsAre
  <2> QED  BY <1>2, <1>3, <1>5, <2>1, <2>2, <2>3 DEF EditRecipes
<1>6. ASSUME NEW r \in Requests, CreateFromFile(r)
      PROVE  \E x \in RecipeIds : \E recipe : InsertRecipe(x, recipe)
  BY <1>6 DEF CreateFromFile
<1>7. ASSUME NEW r \in Requests, Handle(r), ~CreateFromFile(r)  PROVE UNCHANGED recipes
  BY <1>7 DEF Handle, UploadItems, UploadItemRow, UpdateOverride, WriteOverride, UploadRecipes,
       GroupFails, Lookup, LookupCategory, InsertMissingCategory, InsertMissingItem,
       CheckExisting, ExpandBOM, PushItem, FindRecipe, FindIngredients, ExpansionThrows,
       Return, Leave, Elsewhere
<1> QED  BY <1>2, <1>3, <1>4, <1>5, <1>6, <1>7 DEF Next

\* The request that takes a step carries its own expansion on, begins one or ends one.
LEMMA OwnSound ==
  ASSUME IInv, ExpansionsSound, NEW r \in Requests, Handle(r), Grown(recipes, recipes'),
         Stored(recipes') \subseteq RecipeIds, Expanding(r)', r \notin disturbed'
  PROVE  Sound(recipes', pc'[r], task'[r])
<1>1. /\ Whole /\ TasksFit
      /\ DOMAIN pc = Requests /\ DOMAIN task = Requests
  BY IntactIsWhole DEF IInv, Positions, TasksFit
<1>2. ASSUME NEW next, NEW t, Goto(r, next, t)
      PROVE  pc'[r] = next /\ (next # "idle" => task'[r] = t)
  BY <1>1, <1>2 DEF Goto
<1>3. CASE ExpandBOM(r)
  <2>1. UNCHANGED recipes /\ \E x \in Stored(recipes) : Goto(r, "expand", Expansion(x))
    BY <1>3 DEF ExpandBOM, Elsewhere
  <2>2. PICK x \in Stored(recipes) : Goto(r, "expand", Expansion(x))  BY <2>1
  <2>3. pc'[r] = "expand" /\ task'[r] = Expansion(x)  BY <1>2, <2>2
  <2>4. Sound(recipes, "expand", Expansion(x))  BY <1>1, StartsSound
  <2> QED  BY <2>1, <2>3, <2>4
<1>4. CASE PushItem(r)
  <2> DEFINE t == task[r]
             u == [t EXCEPT !.out = Append(t.out, Head(t.todo)), !.todo = Tail(t.todo)]
  <2>1. /\ UNCHANGED <<recipes, disturbed>> /\ pc[r] = "expand" /\ t.todo # <<>>
        /\ Head(t.todo).uses \in ItemIds /\ Goto(r, "expand", u)
    BY <1>4 DEF PushItem, Elsewhere
  <2>2. pc'[r] = "expand" /\ task'[r] = u  BY <1>2, <2>1
  <2>3. t \in ExpansionTask  BY <1>1, <2>1, ExpansionIs DEF Expanding
  <2>4. Sound(recipes, "expand", t)  BY <2>1 DEF ExpansionsSound, Expanding
  <2>5. u = [t EXCEPT !.out = Append(t.out, Head(t.todo)), !.todo = Tail(t.todo)]  OBVIOUS
  <2> HIDE DEF t, u
  <2>6. Sound(recipes, "expand", u)  BY <2>1, <2>3, <2>4, <2>5, PushedSound
  <2> QED  BY <2>1, <2>2, <2>6
<1>5. CASE FindRecipe(r)
  <2> DEFINE t == task[r]
             u == [t EXCEPT !.yield = recipes[Head(t.todo).uses].yield]
  <2>1. /\ UNCHANGED <<recipes, disturbed>> /\ pc[r] = "expand"
        /\ Head(t.todo).uses \in Stored(recipes) /\ Goto(r, "lines", u)
    BY <1>5 DEF FindRecipe, Elsewhere
  <2>2. pc'[r] = "lines" /\ task'[r] = u  BY <1>2, <2>1
  <2>3. t \in ExpansionTask  BY <1>1, <2>1, ExpansionIs DEF Expanding
  <2>4. Sound(recipes, "expand", t)  BY <2>1 DEF ExpansionsSound, Expanding
  <2>5. u = [t EXCEPT !.yield = recipes[Head(t.todo).uses].yield]  OBVIOUS
  <2> HIDE DEF t, u
  <2>6. Sound(recipes, "lines", u)  BY <2>1, <2>3, <2>4, <2>5, FoundSound
  <2> QED  BY <2>1, <2>2, <2>6
<1>6. CASE FindIngredients(r)
  <2> DEFINE t == task[r]
             u == [t EXCEPT !.todo =
                     Scaled(Head(t.todo), Lines(Head(t.todo).uses), t.yield) \o Tail(t.todo)]
  <2>1. UNCHANGED <<recipes, disturbed>> /\ pc[r] = "lines" /\ Goto(r, "expand", u)
    BY <1>6 DEF FindIngredients, Elsewhere
  <2>2. pc'[r] = "expand" /\ task'[r] = u  BY <1>2, <2>1
  <2>3. t \in ExpansionTask /\ Fits("lines", t)  BY <1>1, <2>1, ExpansionIs DEF Expanding
  <2>4. Sound(recipes, "lines", t)  BY <2>1 DEF ExpansionsSound, Expanding
  <2>5. u = [t EXCEPT !.todo =
               Scaled(Head(t.todo), Lines(Head(t.todo).uses), t.yield) \o Tail(t.todo)]
    OBVIOUS
  <2> HIDE DEF t, u
  <2>6. Sound(recipes, "expand", u)  BY <1>1, <2>3, <2>4, <2>5, LinesSound
  <2> QED  BY <2>1, <2>2, <2>6
<1>7. CASE ExpansionThrows(r) \/ Return(r)
  <2>1. Goto(r, "idle", NoTask)  BY <1>7 DEF ExpansionThrows, Return, Leave
  <2>2. pc'[r] = "idle"  BY <1>2, <2>1
  <2> QED  BY <2>2 DEF Expanding
<1>8. CASE ~(ExpandBOM(r) \/ PushItem(r) \/ FindRecipe(r) \/ FindIngredients(r)
             \/ ExpansionThrows(r) \/ Return(r))
  <2>1. PICK next, t : next \notin {"expand", "lines"} /\ Goto(r, next, t)
    BY <1>8, ElsewhereGoes DEF Handle
  <2>2. pc'[r] = next  BY <1>2, <2>1
  <2> QED  BY <2>1, <2>2 DEF Expanding
<1> QED  BY <1>3, <1>4, <1>5, <1>6, <1>7, <1>8

\* Every step keeps the expansions sound that are not disturbed.
LEMMA ExpansionsKeep == IInv /\ IInv' /\ ExpansionsSound /\ [Next]_vars => ExpansionsSound'
<1> SUFFICES ASSUME IInv, IInv', ExpansionsSound, [Next]_vars, NEW q \in Requests,
                    Expanding(q)', q \notin disturbed'
             PROVE  Sound(recipes', pc'[q], task'[q])
  BY DEF ExpansionsSound
<1>1. Whole /\ Typed  BY IntactIsWhole DEF IInv, Whole
<1>2. Stored(recipes') \subseteq RecipeIds  BY IntactIsWholeNext DEF IInv, Whole, Typed, Stored
<1>3. CASE UNCHANGED vars
  <2>1. /\ pc'[q] = pc[q] /\ task'[q] = task[q] /\ Expanding(q) /\ q \notin disturbed
        /\ recipes' = recipes
    BY <1>3 DEF vars, Expanding
  <2> QED  BY <2>1 DEF ExpansionsSound
<1>4. ASSUME NEW x, NEW y, NEW lines, DeleteRecipe(x) \/ UpdateRecipe(x, y, lines)  PROVE FALSE
  <2>1. disturbed' = {r \in Requests : Expanding(r)} /\ pc' = pc
    BY <1>4 DEF DeleteRecipe, UpdateRecipe, Disturb, NoRequest
  <2> QED  BY <2>1 DEF Expanding
<1>5. CASE Next
  <2>1. Grown(recipes, recipes')  BY <1>1, <1>4, <1>5, TableGrows
  <2>2. ASSUME pc'[q] = pc[q], task'[q] = task[q], q \notin disturbed
        PROVE  Sound(recipes', pc'[q], task'[q])
    <3>1. Expanding(q)  BY <2>2 DEF Expanding
    <3> QED  BY <1>1, <1>2, <2>1, <2>2, <3>1, OthersSound
  <2>3. CASE EditItems \/ EditRecipes
    <3>1. pc' = pc /\ task' = task /\ UNCHANGED disturbed
      <4>1. CASE EditItems  BY <4>1 DEF EditItems, Elsewhere, NoRequest
      <4>2. CASE EditRecipes
        BY <1>4, <4>2 DEF EditRecipes, CreateRecipe, CreateMenuItemMapping, DeleteMapping, NoRequest
      <4> QED  BY <2>3, <4>1, <4>2
    <3> QED  BY <2>2, <3>1
  <2>4. ASSUME NEW r \in Requests, Handle(r)  PROVE Sound(recipes', pc'[q], task'[q])
    <3>1. CASE q = r  BY <1>2, <2>1, <2>4, <3>1, OwnSound
    <3>2. CASE q # r
      <4>1. DOMAIN pc = Requests /\ DOMAIN task = Requests
        BY IntactIsWhole DEF IInv, Positions, TasksFit
      <4>2. (\E next, t : Goto(r, next, t)) /\ (q \in disturbed => q \in disturbed')
        <5>1. CASE ExpandBOM(r) \/ PushItem(r) \/ FindRecipe(r) \/ FindIngredients(r)
          BY <5>1 DEF ExpandBOM, PushItem, FindRecipe, FindIngredients, Elsewhere
        <5>2. CASE ExpansionThrows(r) \/ Return(r)
          BY <3>2, <5>2 DEF ExpansionThrows, Return, Leave
        <5>3. CASE ~(ExpandBOM(r) \/ PushItem(r) \/ FindRecipe(r) \/ FindIngredients(r)
                     \/ ExpansionThrows(r) \/ Return(r))
          <6>1. (\E next, t : Goto(r, next, t)) /\ UNCHANGED disturbed
            BY <2>4, <5>3, ElsewhereGoes DEF Handle
          <6> QED  BY <6>1
        <5> QED  BY <5>1, <5>2, <5>3
      <4>3. pc'[q] = pc[q] /\ task'[q] = task[q]  BY <3>2, <4>1, <4>2 DEF Goto
      <4> QED  BY <2>2, <4>2, <4>3
    <3> QED  BY <3>1, <3>2
  <2> QED  BY <1>5, <2>3, <2>4 DEF Next
<1> QED  BY <1>3, <1>5

\* expandBOM returns what the paths consume: one entry for each path from the recipe sold
\* to an item, with the quantities along it multiplied and divided by the yields, though
\* its queries run one by one between the requests of others, as long as none of these
\* updates or deletes a recipe under way.
THEOREM Expansions == Spec => []ExpansionFollowsPaths
<1>1. Init => ExpansionsSound
  BY DEF Init, ExpansionsSound, Expanding
<1>2. IInv /\ ExpansionsSound => ExpansionFollowsPaths
  <2> SUFFICES ASSUME IInv, ExpansionsSound, NEW r \in Requests, pc[r] = "expand",
                      task[r].todo = <<>>, r \notin disturbed
               PROVE  LET out == task[r].out IN
                      /\ {out[n].path : n \in DOMAIN out} = Paths(recipes, task[r].sold)
                      /\ \A m, n \in DOMAIN out : out[m].path = out[n].path => m = n
                      /\ \A n \in DOMAIN out :
                           /\ out[n].uses = LineOf(recipes, Last(out[n].path)).uses
                           /\ out[n].qty = Consumed(recipes, out[n].path)
    BY DEF ExpansionFollowsPaths
  <2> DEFINE t == task[r]
  <2>1. Whole  BY IntactIsWhole DEF IInv
  <2>2. t \in ExpansionTask  BY ExpansionIs DEF IInv, Expanding
  <2>3. Sound(recipes, "expand", t) /\ t.todo = <<>>  BY DEF ExpansionsSound, Expanding
  <2> HIDE DEF t
  <2>4. /\ {t.out[n].path : n \in DOMAIN t.out} = Paths(recipes, t.sold)
        /\ \A m, n \in DOMAIN t.out : t.out[m].path = t.out[n].path => m = n
        /\ \A n \in DOMAIN t.out :
             /\ t.out[n].uses = LineOf(recipes, Last(t.out[n].path)).uses
             /\ t.out[n].qty = Consumed(recipes, t.out[n].path)
    BY <2>1, <2>2, <2>3, SoundFollows
  <2> QED  BY <2>4 DEF t
<1> QED  BY <1>1, <1>2, ExpansionsKeep, Invariance, PTL DEF Spec

=============================================================================
