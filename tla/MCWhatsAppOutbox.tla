-------------------------- MODULE MCWhatsAppOutbox --------------------------
(* Model checking WhatsAppOutbox: a poll and a text, taken one at a time.    *)
EXTENDS WhatsAppOutbox, TLC

\* Invocations and options of a poll are interchangeable.
Symmetry == Permutations(Workers) \cup Permutations(Decisions)
=============================================================================
