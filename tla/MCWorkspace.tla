---------------------------- MODULE MCWorkspace ----------------------------
(***************************************************************************)
(* Bounds for TLC.  The first two worktrees are made within one window of   *)
(* 2^16 milliseconds, the third in the next one.  The .env files leave a    *)
(* key out, have it once, or have each key twice; the template overrides    *)
(* one of them, and adds a key that takes its value from a fallback.        *)
(***************************************************************************)
EXTENDS WorktreeEnv

Stamps == {1, 2, 70000}
SomeBases ==
    {<<>>, <<Line("A", Literal("a")), Line("B", Literal("b"))>>,
     <<Line("B", Literal("b")), Line("A", Literal("a")), Line("B", Literal("c")), Line("A", Literal("d"))>>}
SomeTemplates ==
    {<<Line("B", Reference("OXYRIS_WORKTREE_SHORT", Unset)), Line("C", Reference("PORT", "80"))>>}
Symm == Permutations(Writers) \cup Permutations(Names)
==============================================================================
