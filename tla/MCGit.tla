-------------------------------- MODULE MCGit --------------------------------
(* Two paths and two branches that have moved apart, two commands at once.  Any three *)
(* commands in a repository that has commits or has only been fetched; or the longer   *)
(* course of a rebase that may stop at both of topic's commits, of which the first adds  *)
(* a file that the second removes, so that an untracked one may be in the way.            *)
EXTENDS Checkpoints, TLC
Symm == Permutations(Slots)
Tree(f, g) == [p \in Paths |-> IF p = "f" THEN f ELSE g]
Start == << [parents |-> <<>>, tree |-> Tree(0, 0), of |-> 1],
            [parents |-> <<1>>, tree |-> Tree(1, 0), of |-> 2] >>
AllOps == {"stage", "unstage", "commit", "checkout", "branch_create", "branch_delete", "branch_rename",
           "delete_tracking", "checkout_remote", "merge", "merge_abort", "rebase", "rebase_continue",
           "rebase_abort", "stash_save", "stash_apply", "stash_drop", "cherry_pick", "revert",
           "resolve", "apply_patch", "capture", "revert_turn"}
AnyThree ==
    [history |-> Start \o << [parents |-> <<1>>, tree |-> Tree(2, 0), of |-> 3],
                             [parents |-> <<3>>, tree |-> Tree(2, 1), of |-> 4] >>,
     unborn |-> BOOLEAN, ops |-> AllOps, calls |-> 3]
LongRebase ==
    [history |-> Start \o << [parents |-> <<1>>, tree |-> Tree(2, 1), of |-> 3],
                             [parents |-> <<3>>, tree |-> Tree(5, 0), of |-> 4] >>,
     unborn |-> {FALSE}, ops |-> {"rebase", "resolve", "rebase_continue", "stage"}, calls |-> 5]
TwoPlans == {AnyThree, LongRebase}
=============================================================================
