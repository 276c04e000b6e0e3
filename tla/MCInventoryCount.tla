-------------------------- MODULE MCInventoryCount --------------------------
(* Model checking InventoryCount: symmetric requests, batch ids and items.  *)
EXTENDS InventoryCount, TLC

Symmetry ==
  Permutations(Requests) \union Permutations(Batches) \union Permutations(Items)
=============================================================================
