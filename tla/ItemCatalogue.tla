---------------------------- MODULE ItemCatalogue ----------------------------
(***************************************************************************)
(* The item catalogue of the IMS API: the tables categories, items and     *)
(* item_restaurant_overrides, the endpoints of ItemController, and         *)
(* ensureItemDependencies, which the recipe upload calls once per SKU of   *)
(* its file.                                                               *)
(*                                                                         *)
(* Each action is one query with the code up to the next await.  A handler *)
(* with one query that matters is one action; a call that the database or  *)
(* a check refuses changes nothing and is not an action.  The interceptor  *)
(* lets no request through without a restaurant, so that what the handlers *)
(* insert belongs to the restaurant, never to its franchise group.         *)
(***************************************************************************)
EXTENDS Naturals, Sequences, FiniteSets

CONSTANTS
  Requests,      \* the uploads and override calls that can be in flight at once
  Restaurants,   \* the restaurants whose users call the API
  CategoryIds,   \* the ids uuidv4() can draw for a category
  ItemIds,       \* the ids uuidv4() can draw for an item
  Skus,          \* stock keeping units
  CategoryNames, \* category names, upper and lower case taken together
  ItemRows,      \* the rows of an item file: a SKU and a category name
  ItemTypes,     \* the types the CHECK of items accepts; under 00001 RAW, and not the
                 \* INGREDIENTS that uploads of recipes insert
  TypedCategories, \* whether categories has the columns item_type and category_group,
                 \* which createCategory fills; under 00001 it has not
  MaxCalls,      \* bound on the calls clients make
  Absent         \* no row

VARIABLES
  categories, \* rows of categories by id, or Absent; `auto` is history: the row
              \* was inserted by ensureItemDependencies and not renamed since
  items,      \* rows of items by id, or Absent
  overrides,  \* the (item, restaurant) pairs with a row in item_restaurant_overrides
  calls       \* how many calls clients have made

catalogue == <<categories, items, overrides>>

Category == [name : CategoryNames, owner : Restaurants, auto : BOOLEAN]
Item == [sku : Skus, category : CategoryIds, owner : Restaurants]

Stored(table) == {id \in DOMAIN table : table[id] # Absent}
Unused(table) == {id \in DOMAIN table : table[id] = Absent}

InitCatalogue ==
  /\ categories = [c \in CategoryIds |-> Absent]
  /\ items = [i \in ItemIds |-> Absent]
  /\ overrides = {}
  /\ calls = 0

Call == calls < MaxCalls /\ calls' = calls + 1

-----------------------------------------------------------------------------
(* Queries *)

\* The lookup is by restaurant; the unique index on sku is not.
FindBySku(sku, owner) ==
  {i \in Stored(items) : items[i].sku = sku /\ items[i].owner = owner}

ListCategories(owner) == {c \in Stored(categories) : categories[c].owner = owner}

FindCategory(name, owner) == {c \in ListCategories(owner) : categories[c].name = name}

SkuFree(sku) == \A i \in Stored(items) : items[i].sku # sku

\* createItem: refused for a SKU in use and for a category that is gone.
InsertItem(id, sku, c, owner) ==
  /\ id \in Unused(items)
  /\ SkuFree(sku)
  /\ c \in Stored(categories)
  /\ items' = [items EXCEPT ![id] = [sku |-> sku, category |-> c, owner |-> owner]]

InsertCategory(id, name, owner, auto) ==
  /\ TypedCategories
  /\ id \in Unused(categories)
  /\ categories' = [categories EXCEPT ![id] = [name |-> name, owner |-> owner, auto |-> auto]]

-----------------------------------------------------------------------------
(* Endpoints with one query *)

CreateItem(sku, c, owner) ==
  /\ Call
  /\ \E id \in ItemIds : InsertItem(id, sku, c, owner)
  /\ UNCHANGED <<categories, overrides>>

UpdateItem(i, sku, c) ==
  /\ Call
  /\ i \in Stored(items)
  /\ SkuFree(sku) \/ items[i].sku = sku
  /\ c \in Stored(categories)
  /\ items' = [items EXCEPT ![i] = [@ EXCEPT !.sku = sku, !.category = c]]
  /\ UNCHANGED <<categories, overrides>>

\* deleteItem and deleteItemsBulk: one DELETE of the items found, refused as a
\* whole when a row of another table refers to one of them.
DeleteItems(ids, used) ==
  /\ Call
  /\ ids \cap Stored(items) # {}
  /\ ids \cap (used \cup {o[1] : o \in overrides}) = {}
  /\ items' = [i \in ItemIds |-> IF i \in ids THEN Absent ELSE items[i]]
  /\ UNCHANGED <<categories, overrides>>

CreateCategory(name, owner) ==
  /\ Call
  /\ \E id \in CategoryIds : InsertCategory(id, name, owner, FALSE)
  /\ UNCHANGED <<items, overrides>>

UpdateCategory(c, name) ==
  /\ Call
  /\ c \in Stored(categories)
  /\ categories' = [categories EXCEPT ![c] = [@ EXCEPT !.name = name, !.auto = FALSE]]
  /\ UNCHANGED <<items, overrides>>

\* deleteCategory and deleteCategoriesBulk: 409 when an item is in one of them.
DeleteCategories(ids) ==
  /\ Call
  /\ ids \cap Stored(categories) # {}
  /\ \A i \in Stored(items) : items[i].category \notin ids
  /\ categories' = [c \in CategoryIds |-> IF c \in ids THEN Absent ELSE categories[c]]
  /\ UNCHANGED <<items, overrides>>

EditCatalogue(used) ==
  \/ \E sku \in Skus, c \in CategoryIds, owner \in Restaurants : CreateItem(sku, c, owner)
  \/ \E i \in ItemIds, sku \in Skus, c \in CategoryIds : UpdateItem(i, sku, c)
  \/ \E ids \in SUBSET ItemIds : DeleteItems(ids, used)
  \/ \E name \in CategoryNames, owner \in Restaurants : CreateCategory(name, owner)
  \/ \E c \in CategoryIds, name \in CategoryNames : UpdateCategory(c, name)
  \/ \E ids \in SUBSET CategoryIds : DeleteCategories(ids)

-----------------------------------------------------------------------------
(* Handlers of several queries, as steps of a request's task *)

\* uploadItems reads the categories once and inserts row after row; a row is
\* given a category its name had then.
CategoryMaps(owner) ==
  {map \in [CategoryNames -> CategoryIds \cup {Absent}] :
     \A name \in CategoryNames :
       IF FindCategory(name, owner) = {} THEN map[name] = Absent
                                        ELSE map[name] \in FindCategory(name, owner)}

UploadRow(row, map, owner) ==
  /\ \/ \E id \in ItemIds : InsertItem(id, row.sku, map[row.category], owner)
     \/ items' = items  \* the row has no category, or its INSERT failed: an error
  /\ UNCHANGED <<categories, overrides, calls>>

\* upsertItemOverride reads the row and then updates it or inserts one, which the
\* unique index refuses when another call was faster.
PutOverride(i, owner, existed) ==
  /\ overrides' = IF existed \/ i \notin Stored(items) THEN overrides
                  ELSE overrides \cup {<<i, owner>>}
  /\ UNCHANGED <<categories, items, calls>>

\* The two inserts of ensureItemDependencies.
EnsureCategory(id, name, owner) ==
  /\ InsertCategory(id, name, owner, TRUE)
  /\ UNCHANGED <<items, overrides, calls>>

EnsureItem(id, sku, c, owner) ==
  /\ "INGREDIENTS" \in ItemTypes
  /\ InsertItem(id, sku, c, owner)
  /\ UNCHANGED <<categories, overrides, calls>>
=============================================================================
