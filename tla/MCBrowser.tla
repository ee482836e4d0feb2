------------------------------ MODULE MCBrowser ------------------------------
(* Small instances of Browser for TLC. *)
EXTENDS Browser

Symmetry == Permutations(Callers) \cup Permutations(Pages)
==============================================================================
