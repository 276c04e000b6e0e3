---- MODULE MCSalesImport ----
(* SalesImport on a few batches, for TLC. *)
EXTENDS SalesImport, TLC

\* Actors of one kind, and batches, are interchangeable.
Symmetry == Permutations(Requests) \union Permutations(Workers)
            \union Permutations(Batches)
==============================
