--------------------------- MODULE MCOfflineQueue ---------------------------
(* Model checking OfflineQueue: who runs where, and what users do.          *)
EXTENDS OfflineQueue, TLC

CONSTANTS t1, t2, h1, h2, m1, m2

TwoTabs == {t1, t2}
OnePerTab == (h1 :> t1) @@ (h2 :> t2)

TransactionAndReceipt == (m1 :> "transaction") @@ (m2 :> "receipt")
TransactionAndScan == (m1 :> "transaction") @@ (m2 :> "scan")
=============================================================================
