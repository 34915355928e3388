---------------------------- MODULE MCSymbolIndex ----------------------------
(* Instances of SymbolIndex for TLC: a file in the root and one in "sub".       *)
EXTENDS SymbolIndex, TLC

CONSTANTS top, inner
OwnKey == [r \in Roots |-> r]
\* The primary checkouts of all projects share PRIMARY_WORKTREE_SENTINEL.
Sentinel == [r \in Roots |-> "primary"]
TwoDirs == [p \in Paths |-> IF p = top THEN "root" ELSE "sub"]
Symmetry == Permutations(Tasks) \cup Permutations(Watchers) \cup Permutations(Listings) \cup Permutations(Contents)
=============================================================================
