----------------------------- MODULE MCPageState -----------------------------
(* Small instances of PageState for TLC. *)
EXTENDS PageState, TLC

Symmetry == Permutations(Tools) \cup Permutations(Dialogs)
==============================================================================
