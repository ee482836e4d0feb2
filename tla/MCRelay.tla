------------------------------- MODULE MCRelay -------------------------------
(* Instances of Relay small enough for TLC. *)
EXTENDS Relay, TLC

\* Connections and goroutines of a kind differ only in their names.
Symmetry == Permutations(Extensions) \cup Permutations(Clients) \cup Permutations(Closers)

==============================================================================
