-------------------------- MODULE MCPurchaseReview --------------------------
(* Model checking PurchaseReview: two purchases, and the anomalies of one.    *)
EXTENDS PurchaseReview, TLC

CONSTANTS p1, p2

MCOf == [a \in Anomalies |-> p1]
EitherSchema == {{}, Written}
Alike ==
  Permutations(Fetches) \cup Permutations(Reviews) \cup Permutations(Requests)
    \cup Permutations(Anomalies)
=============================================================================
