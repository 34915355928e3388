------------------------- MODULE MCSessionSupervisor -------------------------
(* Instances of SessionSupervisor for TLC. *)
EXTENDS SessionSupervisor

\* Handlers are interchangeable, and so are turn ids: no definition orders them.
Symmetry == Permutations(Handlers) \cup Permutations(TurnIds)
==============================================================================
