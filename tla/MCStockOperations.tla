-------------------------- MODULE MCStockOperations --------------------------
(* Model checking StockOperations: the ids are interchangeable.              *)
EXTENDS StockOperations, TLC

Alike == Permutations(Calls) \cup Permutations(TransferIds) \cup Permutations(LogIds)
=============================================================================
