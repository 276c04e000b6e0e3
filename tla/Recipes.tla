------------------------------- MODULE Recipes -------------------------------
(***************************************************************************)
(* Recipes of the IMS API: RecipeService over the tables recipes,          *)
(* recipe_ingredients and menu_item_mappings, composed with the item       *)
(* catalogue whose items recipes consume and whose ensureItemDependencies  *)
(* the recipe upload calls.                                                *)
(*                                                                         *)
(* createRecipe, updateRecipe and deleteRecipe read the recipe or item and *)
(* then run one transaction, in which the foreign keys refuse whatever     *)
(* disappeared after the read: each is one action.  expandBOM runs outside *)
(* any transaction: each of its queries is an action, of a request that    *)
(* imports a sale.                                                         *)
(***************************************************************************)
EXTENDS ItemCatalogue, SequencesExt

CONSTANTS
  RecipeIds,   \* the ids uuidv4() can draw for a recipe
  RecipeNames, \* recipe names
  PosNames,    \* item names as a POS file spells them
  Ingredients, \* the ingredient lists a client can send
  Yields,      \* the yields a client can send
  Files,       \* the recipe files a client can upload, as rows grouped by recipe
  ItemFiles,   \* the item files a client can upload
  MaxDepth     \* bound on how far an expansion is followed down

NoSku == "no_sku"

\* A group of a file: the SKU produced, if any, and the SKU of each ingredient.
Group == [sku : Skus \cup {NoSku}, name : RecipeNames, category : CategoryNames,
          rows : Seq(Skus) \ {<<>>}]

\* A row of recipe_ingredients refers to an item or to a recipe.  Clients send positive
\* quantities and yields, the NUMERIC columns round the smallest of them to 0.
Line == [uses : ItemIds \cup RecipeIds, qty : Nat]

Recipe == [produces : ItemIds \cup {Absent}, name : RecipeNames, yield : Nat,
           lines : Seq(Line) \ {<<>>}, file : {"sku", "name", "client"}]

ASSUME RecipesAssumption ==
  /\ Ingredients \subseteq Seq(Line) \ {<<>>}
  /\ Yields \subseteq Nat /\ MaxDepth \in Nat
  /\ Files \subseteq Seq(Group) \ {<<>>}
  /\ ItemFiles \subseteq Seq(ItemRows) \ {<<>>}
  /\ ItemRows \subseteq [sku : Skus, category : CategoryNames]
  /\ ItemIds \cap RecipeIds = {} /\ IsFiniteSet(RecipeIds)
  /\ Absent \notin ItemIds \cup RecipeIds \cup CategoryIds
  /\ Absent \notin Category /\ Absent \notin Item /\ Absent \notin Recipe

VARIABLES
  recipes,  \* rows of recipes with their ingredients, or Absent; `file` is history:
            \* an upload created it, by "sku", by "name", or a "client" did
  mappings, \* menu_item_mappings: the recipe of a restaurant's POS name, or Absent
  pc,       \* what each request does next; "idle" when it is not in flight
  task,     \* the local variables of each request's handler
  alone,    \* history: no two recipe uploads have been in flight at once
  rewired,  \* history: an update has changed the ingredients of a recipe
  disturbed \* history: the expansions under way since whose start a recipe was
            \* updated or deleted

vars == <<catalogue, calls, recipes, mappings, pc, task, alone, rewired, disturbed>>

NoTask == <<>>

Used(x) == {recipes[x].lines[k].uses : k \in DOMAIN recipes[x].lines}

\* What a foreign key of recipes or recipe_ingredients refers to.
Referenced ==
  UNION {Used(x) \cup {recipes[x].produces} : x \in Stored(recipes)}

Exists(target) == target \in Stored(items) \cup Stored(recipes)

\* The recipes that x uses, directly or through others: the least set that has those x
\* uses and, with a recipe, those it uses.
Below(x) ==
  LET uses(y) == Used(y) \cap RecipeIds
      closed == {S \in SUBSET RecipeIds :
                   uses(x) \subseteq S /\ \A y \in S \cap Stored(recipes) : uses(y) \subseteq S}
  IN {y \in RecipeIds : \A S \in closed : y \in S}

-----------------------------------------------------------------------------
Init ==
  /\ InitCatalogue
  /\ recipes = [x \in RecipeIds |-> Absent]
  /\ mappings = [m \in Restaurants \X PosNames |-> Absent]
  /\ pc = [r \in Requests |-> "idle"]
  /\ task = [r \in Requests |-> NoTask]
  /\ alone = TRUE
  /\ rewired = FALSE
  /\ disturbed = {}

Uploading == {"lookup", "categories", "category", "item", "existing", "create"}
InUpload(r) == pc[r] \in Uploading

Goto(r, next, t) ==
  /\ pc' = [pc EXCEPT ![r] = next]
  /\ task' = [task EXCEPT ![r] = IF next = "idle" THEN NoTask ELSE t]

Expanding(r) == pc[r] \in {"expand", "lines"}

\* The tables of recipes, and the requests, are as before.
Elsewhere == UNCHANGED <<recipes, mappings, rewired, disturbed>>
NoRequest == UNCHANGED <<pc, task, alone>>

-----------------------------------------------------------------------------
(* Recipes and mappings a client edits *)

\* Faulty variant of InsertRecipe: used by no action.
InsertLoose(x, recipe) ==
  /\ x \in Unused(recipes)
  /\ \A k \in DOMAIN recipe.lines : Exists(recipe.lines[k].uses) \/ recipe.lines[k].uses = x
  /\ recipe.produces = Absent \/ recipe.produces \in Stored(items)
  /\ recipes' = [recipes EXCEPT ![x] = recipe]

\* One transaction inserts the recipe and its lines.
InsertRecipe(x, recipe) ==
  /\ x \in Unused(recipes)
  /\ \A k \in DOMAIN recipe.lines : Exists(recipe.lines[k].uses)
  /\ recipe.produces = Absent \/ recipe.produces \in Stored(items)
  /\ recipes' = [recipes EXCEPT ![x] = recipe]

CreateRecipe(produces, name, yield, lines) ==
  /\ Call
  /\ \E x \in RecipeIds :
       InsertRecipe(x, [produces |-> produces, name |-> name, yield |-> yield,
                        lines |-> lines, file |-> "client"])
  /\ UNCHANGED <<catalogue, mappings, rewired, disturbed>> /\ NoRequest

\* The expansions under way may have read the row that changes, or not yet.
Disturb == disturbed' = {r \in Requests : Expanding(r)}

\* The yield, and the ingredients when they are sent, replace what was there.
UpdateRecipe(x, yield, lines) ==
  /\ Call
  /\ \A k \in DOMAIN lines : Exists(lines[k].uses)
  /\ recipes' = [recipes EXCEPT ![x] = [@ EXCEPT !.yield = yield, !.lines = lines]]
  /\ rewired' = (rewired \/ lines # recipes[x].lines)
  /\ Disturb
  /\ UNCHANGED <<catalogue, mappings>> /\ NoRequest

\* Refused while another recipe uses it; its own lines and its mappings go first.
DeleteRecipe(x) ==
  /\ Call
  /\ x \in Stored(recipes) \ UNION {Used(y) : y \in Stored(recipes) \ {x}}
  /\ recipes' = [recipes EXCEPT ![x] = Absent]
  /\ mappings' = [m \in DOMAIN mappings |-> IF mappings[m] = x THEN Absent ELSE mappings[m]]
  /\ Disturb
  /\ UNCHANGED <<catalogue, rewired>> /\ NoRequest

CreateMenuItemMapping(m, x) ==
  /\ Call
  /\ x \in Stored(recipes)
  /\ mappings' = [mappings EXCEPT ![m] = x]
  /\ UNCHANGED <<catalogue, recipes, rewired, disturbed>> /\ NoRequest

DeleteMapping(m) ==
  /\ Call
  /\ mappings[m] # Absent
  /\ mappings' = [mappings EXCEPT ![m] = Absent]
  /\ UNCHANGED <<catalogue, recipes, rewired, disturbed>> /\ NoRequest

-----------------------------------------------------------------------------
(* Item uploads and override calls, of the catalogue *)

UploadItems(r) ==
  /\ Call /\ pc[r] = "idle"
  /\ \E owner \in Restaurants, file \in ItemFiles : \E map \in CategoryMaps(owner) :
       Goto(r, "rows", [owner |-> owner, rows |-> file, map |-> map])
  /\ UNCHANGED <<catalogue, alone>> /\ Elsewhere

UploadItemRow(r) ==
  /\ pc[r] = "rows"
  /\ UploadRow(Head(task[r].rows), task[r].map, task[r].owner)
  /\ Goto(r, IF Len(task[r].rows) = 1 THEN "idle" ELSE "rows",
          [task[r] EXCEPT !.rows = Tail(task[r].rows)])
  /\ UNCHANGED alone /\ Elsewhere

UpdateOverride(r) ==
  /\ Call /\ pc[r] = "idle"
  /\ \E i \in ItemIds, owner \in Restaurants :
       Goto(r, "override", [item |-> i, owner |-> owner,
                            existed |-> <<i, owner>> \in overrides])
  /\ UNCHANGED <<catalogue, alone>> /\ Elsewhere

WriteOverride(r) ==
  /\ pc[r] = "override"
  /\ PutOverride(task[r].item, task[r].owner, task[r].existed)
  /\ Goto(r, "idle", NoTask)
  /\ UNCHANGED alone /\ Elsewhere

-----------------------------------------------------------------------------
(* bulkCreateRecipes: group by group, and in a group first the produced item *)
(* (row 0), then the ingredient of each row                                  *)

Task(owner, file) ==
  [owner |-> owner, file |-> file, row |-> 0, produces |-> Absent, got |-> <<>>,
   category |-> Absent]

Start(file) == IF Head(file).sku = NoSku THEN "existing" ELSE "lookup"

UploadRecipes(r) ==
  /\ Call /\ pc[r] = "idle"
  /\ \E owner \in Restaurants, file \in Files : Goto(r, Start(file), Task(owner, file))
  /\ alone' = (alone /\ \A q \in Requests : ~InUpload(q))
  /\ UNCHANGED catalogue /\ Elsewhere

\* The next group of the file, after this one was created, skipped or failed.
NextGroup(r) ==
  LET rest == Tail(task[r].file) IN
  IF rest = <<>> THEN Goto(r, "idle", NoTask)
  ELSE Goto(r, Start(rest), Task(task[r].owner, rest))

\* A query that fails ends the group; what it inserted before stays.
GroupFails(r) ==
  /\ InUpload(r)
  /\ NextGroup(r)
  /\ UNCHANGED <<catalogue, calls, alone>> /\ Elsewhere

Sku(t) == IF t.row = 0 THEN Head(t.file).sku ELSE Head(t.file).rows[t.row]

\* ensureItemDependencies has found or inserted the item.
Ensured(r, id) ==
  LET t == task[r]
      rows == Head(t.file).rows IN
  IF t.row = 0 THEN Goto(r, "existing", [t EXCEPT !.produces = id])
  ELSE Goto(r, IF t.row = Len(rows) THEN "create" ELSE "lookup",
            [t EXCEPT !.got = Append(t.got, id),
                      !.row = IF t.row = Len(rows) THEN t.row ELSE t.row + 1])

Lookup(r) ==
  /\ pc[r] = "lookup"
  /\ LET found == FindBySku(Sku(task[r]), task[r].owner) IN
     IF found = {} THEN Goto(r, "categories", task[r])
     ELSE \E id \in found : Ensured(r, id)
  /\ UNCHANGED <<catalogue, calls, alone>> /\ Elsewhere

\* Faulty variant of FindOrCreate: used by no action.
AlwaysCreate(r, found) == Goto(r, "category", task[r])

FindOrCreate(r, found) ==
  IF found = {} THEN Goto(r, "category", task[r])
  ELSE \E c \in found : Goto(r, "item", [task[r] EXCEPT !.category = c])

LookupCategory(r) ==
  /\ pc[r] = "categories"
  /\ FindOrCreate(r, FindCategory(Head(task[r].file).category, task[r].owner))
  /\ UNCHANGED <<catalogue, calls, alone>> /\ Elsewhere

InsertMissingCategory(r) ==
  /\ pc[r] = "category"
  /\ \E id \in CategoryIds :
       /\ EnsureCategory(id, Head(task[r].file).category, task[r].owner)
       /\ Goto(r, "item", [task[r] EXCEPT !.category = id])
  /\ UNCHANGED alone /\ Elsewhere

InsertMissingItem(r) ==
  /\ pc[r] = "item"
  /\ \E id \in ItemIds :
       /\ EnsureItem(id, Sku(task[r]), task[r].category, task[r].owner)
       /\ Ensured(r, id)
  /\ UNCHANGED alone /\ Elsewhere

\* Faulty variant of ExistingRecipes: used by no action.
ExistingByNameOnly(t) ==
  {x \in Stored(recipes) : t.produces = Absent /\ recipes[x].name = Head(t.file).name}

\* By the produced item when there is one, by name otherwise, of any restaurant.
ExistingRecipes(t) ==
  {x \in Stored(recipes) :
     IF t.produces # Absent THEN recipes[x].produces = t.produces
                            ELSE recipes[x].name = Head(t.file).name}

CheckExisting(r) ==
  /\ pc[r] = "existing"
  /\ IF ExistingRecipes(task[r]) # {} THEN NextGroup(r)
     ELSE Goto(r, "lookup", [task[r] EXCEPT !.row = 1])
  /\ UNCHANGED <<catalogue, calls, alone>> /\ Elsewhere

CreateFromFile(r) ==
  /\ pc[r] = "create"
  /\ LET t == task[r] IN
     \E x \in RecipeIds :
       InsertRecipe(x, [produces |-> t.produces, name |-> Head(t.file).name, yield |-> 1,
                        lines |-> [k \in DOMAIN t.got |-> [uses |-> t.got[k], qty |-> 1]],
                        file |-> IF t.produces = Absent THEN "name" ELSE "sku"])
  /\ NextGroup(r)
  /\ UNCHANGED <<catalogue, calls, mappings, rewired, disturbed, alone>>

-----------------------------------------------------------------------------
(* expandBOM, as a request that imports a sale calls it: recipe by recipe,    *)
(* with one query for its row and one for its ingredients                     *)

Fractions == [num : Nat, den : Nat]

One == [num |-> 1, den |-> 1]

\* Faulty variant of Scale: used by no action.
ScaleOnce(portion, line, yield) == [num |-> line.qty, den |-> portion.den * yield]

\* A fraction whose denominator is 0 is Infinity or, over 0, NaN.
Scale(portion, line, yield) == [num |-> portion.num * line.qty, den |-> portion.den * yield]

\* soldQty <= 0, which neither Infinity nor NaN is.
NotPositive(qty) == qty.num = 0 /\ qty.den # 0

\* An ingredient to consume, or a sub-recipe to expand; `path` is history: the lines
\* that led to it, each as a recipe and the position of its line.
Expansion(x) ==
  [sold |-> x, out |-> <<>>, todo |-> <<[path |-> <<>>, uses |-> x, qty |-> One]>>,
   yield |-> 0]

\* The recipe was resolved from a POS name just before, and may be gone by now.
ExpandBOM(r) ==
  /\ pc[r] = "idle"
  /\ \E x \in Stored(recipes) : Goto(r, "expand", Expansion(x))
  /\ UNCHANGED <<catalogue, calls, alone>> /\ Elsewhere

\* The expansion has returned, or has thrown: the next sale begins afresh.
Leave(r) ==
  /\ Goto(r, "idle", NoTask)
  /\ disturbed' = disturbed \ {r}
  /\ UNCHANGED <<recipes, mappings, rewired>>

\* The loop over the ingredients comes to an item.
PushItem(r) ==
  /\ pc[r] = "expand" /\ task[r].todo # <<>>
  /\ LET t == task[r] IN
     /\ Head(t.todo).uses \in ItemIds
     /\ Goto(r, "expand", [t EXCEPT !.out = Append(@, Head(t.todo)), !.todo = Tail(@)])
  /\ UNCHANGED <<catalogue, calls, alone>> /\ Elsewhere

\* It comes to a recipe, whose row it reads.
FindRecipe(r) ==
  /\ pc[r] = "expand" /\ task[r].todo # <<>>
  /\ LET e == Head(task[r].todo) IN
     /\ e.uses \in Stored(recipes) /\ ~NotPositive(e.qty) /\ Len(e.path) < MaxDepth
     /\ Goto(r, "lines", [task[r] EXCEPT !.yield = recipes[e.uses].yield])
  /\ UNCHANGED <<catalogue, calls, alone>> /\ Elsewhere

\* soldQty is not positive, the recipe is not there, or a query fails.
ExpansionThrows(r) ==
  /\ Expanding(r) /\ task[r].todo # <<>>
  /\ Leave(r)
  /\ UNCHANGED <<catalogue, calls, alone>>

\* The lines as they are by now, none when the recipe has been deleted, take the place
\* of the recipe, scaled by the yield read before.
Lines(x) == IF x \in Stored(recipes) THEN recipes[x].lines ELSE <<>>

Scaled(e, lines, yield) ==
  [k \in DOMAIN lines |->
     [path |-> Append(e.path, <<e.uses, k>>), uses |-> lines[k].uses,
      qty |-> Scale(e.qty, lines[k], yield)]]

FindIngredients(r) ==
  /\ pc[r] = "lines"
  /\ LET t == task[r]
         e == Head(t.todo) IN
     Goto(r, "expand", [t EXCEPT !.todo = Scaled(e, Lines(e.uses), t.yield) \o Tail(@)])
  /\ UNCHANGED <<catalogue, calls, alone>> /\ Elsewhere

Return(r) ==
  /\ pc[r] = "expand" /\ task[r].todo = <<>>
  /\ Leave(r)
  /\ UNCHANGED <<catalogue, calls, alone>>

-----------------------------------------------------------------------------
EditItems == EditCatalogue(Referenced) /\ Elsewhere /\ NoRequest

EditRecipes ==
  \/ \E produces \in ItemIds \cup {Absent}, name \in RecipeNames, y \in Yields,
        lines \in Ingredients : CreateRecipe(produces, name, y, lines)
  \/ \E x \in Stored(recipes), y \in Yields :
       \E lines \in Ingredients \cup {recipes[x].lines} : UpdateRecipe(x, y, lines)
  \/ \E x \in RecipeIds : DeleteRecipe(x)
  \/ \E m \in DOMAIN mappings, x \in RecipeIds : CreateMenuItemMapping(m, x)
  \/ \E m \in DOMAIN mappings : DeleteMapping(m)

Handle(r) ==
  \/ UploadItems(r) \/ UploadItemRow(r) \/ UpdateOverride(r) \/ WriteOverride(r)
  \/ UploadRecipes(r) \/ GroupFails(r) \/ Lookup(r) \/ LookupCategory(r)
  \/ InsertMissingCategory(r) \/ InsertMissingItem(r) \/ CheckExisting(r)
  \/ CreateFromFile(r)
  \/ ExpandBOM(r) \/ PushItem(r) \/ FindRecipe(r) \/ FindIngredients(r)
  \/ ExpansionThrows(r) \/ Return(r)

Next == EditItems \/ EditRecipes \/ \E r \in Requests : Handle(r)

Spec == Init /\ [][Next]_vars
-----------------------------------------------------------------------------
(* Properties *)

Handlers ==
  {"idle", "rows", "override", "lookup", "categories", "category", "item", "existing",
   "create", "expand", "lines"}

\* The tables hold rows of their types, every reference in them names a stored row
\* and a SKU names one item, whatever is deleted between the queries of an upload.
Intact ==
  /\ categories \in [CategoryIds -> Category \cup {Absent}]
  /\ items \in [ItemIds -> Item \cup {Absent}]
  /\ recipes \in [RecipeIds -> Recipe \cup {Absent}]
  /\ pc \in [Requests -> Handlers]
  /\ \A i \in Stored(items) : items[i].category \in Stored(categories)
  /\ \A i, j \in Stored(items) : items[i].sku = items[j].sku => i = j
  /\ \A o \in overrides : o[1] \in Stored(items)
  /\ \A target \in Referenced \ {Absent} : Exists(target)
  /\ \A m \in DOMAIN mappings : mappings[m] \in Stored(recipes) \cup {Absent}

\* expandBOM returns: as long as no updateRecipe has changed ingredients, no recipe
\* uses itself, not even through others, however recipes are created, uploaded and
\* deleted.  (expandBOM keeps no set of the recipes it has visited.)
AcyclicUnlessRewired == ~rewired => \A x \in Stored(recipes) : x \notin Below(x)

\* The lines of the recipes of a table, each as its recipe and its position.
Steps(table) == UNION {{<<y, k>> : k \in DOMAIN table[y].lines} : y \in Stored(table)}
LineOf(table, s) == table[s[1]].lines[s[2]]

\* The ways down from recipe x to an item, as far as expansions are followed: lines,
\* each of the recipe the line before it uses.
Paths(table, x) ==
  {p \in UNION {[1..n -> Steps(table)] : n \in 1..MaxDepth} :
     /\ p[1][1] = x
     /\ \A j \in 1..(Len(p) - 1) : p[j + 1][1] = LineOf(table, p[j]).uses
     /\ LineOf(table, p[Len(p)]).uses \in ItemIds}

\* The product of a sequence of numbers.
Product(numbers) ==
  LET upto[j \in 0..Len(numbers)] == IF j = 0 THEN 1 ELSE upto[j - 1] * numbers[j]
  IN upto[Len(numbers)]

\* What is consumed along a path when one is sold.
Consumed(table, p) ==
  [num |-> Product([j \in DOMAIN p |-> LineOf(table, p[j]).qty]),
   den |-> Product([j \in DOMAIN p |-> table[p[j][1]].yield])]

\* What expandBOM returns, query after query, amounts to the paths from the recipe sold
\* to the items, unless a recipe was updated or deleted under way: one entry for each
\* path and no other, with the quantities along the path multiplied and divided by the
\* yields of the recipes on it, whatever else is created, uploaded and deleted meanwhile.
\* (An update between two of its queries makes it a sum along no path.)
ExpansionFollowsPaths ==
  \A r \in Requests :
    pc[r] = "expand" /\ task[r].todo = <<>> /\ r \notin disturbed =>
      LET out == task[r].out IN
      /\ {out[n].path : n \in DOMAIN out} = Paths(recipes, task[r].sold)
      /\ \A m, n \in DOMAIN out : out[m].path = out[n].path => m = n
      /\ \A n \in DOMAIN out :
           /\ out[n].uses = LineOf(recipes, Last(out[n].path)).uses
           /\ out[n].qty = Consumed(recipes, out[n].path)

\* bulkCreateRecipes skips what exists: until two uploads have been in flight at
\* once, no two uploaded recipes produce the same item, and none that were uploaded
\* without a SKU have the same name, whatever failed or was edited in between.
UploadedOnceUnlessRaced ==
  alone =>
    \A x, y \in Stored(recipes) :
      x # y /\ recipes[x].file = recipes[y].file =>
        /\ recipes[x].file = "sku" => recipes[x].produces # recipes[y].produces
        /\ recipes[x].file = "name" => recipes[x].name # recipes[y].name

\* ensureItemDependencies reuses the category of a name: until two uploads have been
\* in flight at once it makes no second one for a restaurant.
OneCategoryUnlessRaced ==
  alone =>
    \A c, d \in Stored(categories) :
      c # d /\ categories[c].auto /\ categories[d].auto /\ categories[c].owner = categories[d].owner
        => categories[c].name # categories[d].name
-----------------------------------------------------------------------------
(* The strengthening of the invariants, proved in RecipesProofs.              *)

RowsTask ==
  [owner : Restaurants, rows : Seq(ItemRows) \ {<<>>},
   map : [CategoryNames -> CategoryIds \cup {Absent}]]
OverrideTask == [item : ItemIds, owner : Restaurants, existed : BOOLEAN]
UploadTask ==
  [owner : Restaurants, file : Seq(Group) \ {<<>>}, row : Nat, produces : ItemIds \cup {Absent},
   got : Seq(ItemIds), category : CategoryIds \cup {Absent}]
Entry ==
  [path : Seq(RecipeIds \X (Nat \ {0})), uses : ItemIds \cup RecipeIds, qty : Fractions]
ExpansionTask == [sold : RecipeIds, out : Seq(Entry), todo : Seq(Entry), yield : Nat]

\* What a request carries fits the query it is about to make.
Fits(query, t) ==
  /\ query = "rows" => t \in RowsTask
  /\ query = "override" => t \in OverrideTask
  /\ query \in Uploading =>
       /\ t \in UploadTask /\ t.row =< Len(Head(t.file).rows)
       /\ query \in {"lookup", "categories", "category", "item"} /\ t.row = 0
            => Head(t.file).sku # NoSku
       /\ query = "item" => t.category \in CategoryIds
       /\ query = "create" => t.got # <<>> /\ t.row > 0
  /\ query \in {"expand", "lines"} => t \in ExpansionTask
  /\ query = "lines" =>
       /\ t.todo # <<>> /\ Head(t.todo).uses \in RecipeIds
       /\ Len(Head(t.todo).path) < MaxDepth

TasksFit ==
  /\ task \in [Requests -> {NoTask} \cup RowsTask \cup OverrideTask \cup UploadTask
                       \cup ExpansionTask]
  /\ \A r \in Requests : Fits(pc[r], task[r])

\* What the upload of a group would make once more, a recipe or a category.
Made(recipe, t) ==
  IF t.produces # Absent THEN recipe.file = "sku" /\ recipe.produces = t.produces
  ELSE recipe.file = "name" /\ recipe.name = Head(t.file).name
Ensures(category, t) ==
  category.auto /\ category.name = Head(t.file).category /\ category.owner = t.owner

\* An upload knows that what it is about to insert is still missing.
Knows(query, t, recipeTable, categoryTable) ==
  /\ t.row > 0 => \A x \in Stored(recipeTable) : ~Made(recipeTable[x], t)
  /\ query = "category" => \A c \in Stored(categoryTable) : ~Ensures(categoryTable[c], t)

AloneInv ==
  alone =>
    /\ \A q, r \in Requests : InUpload(q) /\ InUpload(r) => q = r
    /\ \A r \in Requests : InUpload(r) => Knows(pc[r], task[r], recipes, categories)

IInv ==
  /\ Intact /\ alone \in BOOLEAN /\ TasksFit /\ AloneInv
  /\ UploadedOnceUnlessRaced /\ OneCategoryUnlessRaced

\* AcyclicUnlessRewired in the form that is inductive: in every set of recipes there is
\* one that uses none of them.
Grounded ==
  \A S \in SUBSET Stored(recipes) : S # {} => \E x \in S : Used(x) \cap S = {}
GroundedUnlessRewired == ~rewired => Grounded

\* ExpansionFollowsPaths in the form that is inductive: what has been listed and what is
\* still to be expanded have come down the lines of the table, no two of them the same
\* way or one on the way of the other, and every path goes on from one of them.
Begins(p, q) == Len(p) =< Len(q) /\ \A j \in 1..Len(p) : p[j] = q[j]

CameDown(table, x, e) ==
  /\ e.path \in Seq(Steps(table)) /\ Len(e.path) =< MaxDepth
  /\ \A j \in 1..Len(e.path) :
       e.path[j][1] = IF j = 1 THEN x ELSE LineOf(table, e.path[j - 1]).uses
  /\ e.uses = IF e.path = <<>> THEN x ELSE LineOf(table, e.path[Len(e.path)]).uses
  /\ e.qty = Consumed(table, e.path)

Sound(table, query, t) ==
  LET all == t.out \o t.todo IN
  /\ t.sold \in Stored(table)
  /\ \A n \in DOMAIN t.out : t.out[n].uses \in ItemIds
  /\ \A n \in DOMAIN all : CameDown(table, t.sold, all[n])
  /\ \A m, n \in DOMAIN all : Begins(all[m].path, all[n].path) => m = n
  /\ \A p \in Paths(table, t.sold) : \E n \in DOMAIN all : Begins(all[n].path, p)
  /\ query = "lines" =>
       Head(t.todo).uses \in Stored(table) /\ t.yield = table[Head(t.todo).uses].yield

ExpansionsSound ==
  \A r \in Requests :
    Expanding(r) /\ r \notin disturbed => Sound(recipes, pc[r], task[r])
=============================================================================
