------------------------------- MODULE MCFiles -------------------------------
(* Files with interchangeable names and commands. *)
EXTENDS Files, TLC

\* One hidden file in each directory: the one that has its name.
HiddenFiles == {p \in Tree : Len(p) = 2 /\ p[1] = p[2]}

Symmetry == Permutations(Names) \cup Permutations(Clients)
=============================================================================
