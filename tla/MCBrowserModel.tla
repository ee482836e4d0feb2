--------------------------- MODULE MCBrowserModel ----------------------------
(* Instances of BrowserModel small enough for TLC. *)
EXTENDS BrowserModel, TLC

\* Goroutines of a kind, and tabs, differ only in their names.
Symmetry == Permutations(Tabs) \cup Permutations(Clients) \cup Permutations(Workers)

==============================================================================
