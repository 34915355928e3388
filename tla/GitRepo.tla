------------------------------- MODULE GitRepo -------------------------------
(* One working copy under the commands of the Git panel: tauri_commands/git.rs    *)
(* and infra/git.rs send each command to a blocking thread or to the agent, where  *)
(* crates/oxyris-git runs it.  Nothing orders the commands of a repository, so two  *)
(* of them interleave wherever one opens the index, the refs or the working tree a  *)
(* second time.  The user and the assistant edit files in between.                   *)
EXTENDS GitData

CONSTANTS
    Branches,    \* names of branches
    Elsewhere,   \* branches a linked worktree has checked out
    None,        \* no branch, no path
    Plans,       \* what a behaviour starts from, the commands it issues and how many (a bound)
    Slots,       \* commands in flight at once
    MaxEdits     \* edits of files in a behaviour (a bound)

ASSUME GitAssumption ==
    /\ \A p \in Plans : p.calls \in Nat /\ \A i \in 1..Len(p.history) : DOMAIN p.history[i].tree = Paths
    /\ MaxEdits \in Nat /\ None \notin Branches \cup Paths /\ {"main", "topic", "side"} \subseteq Branches

VARIABLES
    commits,     \* the commit objects
    branches,    \* refs/heads, 0 where there is none
    tracking,    \* refs/remotes/origin
    head,        \* HEAD: the branch it names, or the commit it is detached at
    index, work, \* the index and the files on disk
    seq,         \* MERGE_HEAD, REVERT_HEAD, CHERRY_PICK_HEAD and rebase-merge
    stash,       \* the stash list, the newest entry first
    calls, ncalls, nedits,
    plan         \* the one of Plans this behaviour follows

refs == <<commits, branches, head>>
files == <<index, work>>
repo == <<refs, files, tracking, seq, stash>>
gitvars == <<repo, calls, ncalls, nedits, plan>>

NoRebase == [on |-> None, orig |-> 0, todo |-> <<>>, cur |-> 0, touched |-> FALSE,
             blocked |-> FALSE]
NoSeq == [merge |-> 0, revert |-> 0, pick |-> 0, rebase |-> NoRebase]
Idle == [op |-> "none", at |-> "done", alone |-> TRUE, b |-> None, c |-> 0, p |-> None,
         f |-> FALSE, idx |-> EmptyTree, par |-> <<>>]

HeadId == IF head.on = None THEN head.at ELSE branches[head.on]
HeadTree == TreeOf(commits, HeadId)
Rebasing == seq.rebase # NoRebase
\* RepoState: the order in which libgit2 looks for the state files.
State == IF Rebasing THEN "rebase" ELSE IF seq.merge # 0 THEN "merge"
         ELSE IF seq.revert # 0 THEN "revert" ELSE IF seq.pick # 0 THEN "cherry_pick" ELSE "clean"
MergeHeads == IF State = "merge" THEN <<seq.merge>> ELSE <<>>

\* main and topic have both moved on from the first commit, to the second and to the
\* last; or nothing is committed here yet and only the remote branches have been fetched.
Init ==
    /\ plan \in Plans /\ commits = plan.history
    /\ \E unborn \in plan.unborn, b \in {"main", "topic"} \ Elsewhere :
          /\ head = [on |-> b, at |-> 0]
          /\ branches = [x \in Branches |-> IF unborn THEN 0 ELSE IF x = "main" THEN 2
                                               ELSE IF x = "topic" THEN Len(commits) ELSE 0]
          /\ work = TreeOf(commits, branches[b])
    /\ index = work
    /\ tracking = [x \in Branches |-> IF x = "main" THEN 2 ELSE IF x = "topic" THEN 3 ELSE 0]
    /\ seq = NoSeq /\ stash = <<>>
    /\ calls = [s \in Slots |-> Idle] /\ ncalls = 0 /\ nedits = 0
-----------------------------------------------------------------------------
(* The commands: scope, arguments, and the thread or the agent that runs them.    *)
Ended(s) == calls[s].at \in {"done", "error"}
Request(op, b, c, p, f) == [Idle EXCEPT !.op = op, !.at = "open", !.b = b, !.c = c, !.p = p, !.f = f]
\* A command starts while others run: none of them is alone any more.
Call(op, b, c, p, f) ==
    /\ op \in plan.ops /\ ncalls < plan.calls /\ ncalls' = ncalls + 1
    /\ \E s \in Slots :
        /\ Ended(s)
        /\ calls' = [t \in Slots |->
              IF t = s THEN [Request(op, b, c, p, f) EXCEPT !.alone = \A u \in Slots : Ended(u)]
              ELSE [calls[t] EXCEPT !.alone = Ended(t)]]
    /\ seq' = [seq EXCEPT !.rebase.touched =
                 Rebasing /\ (@ \/ op \notin {"resolve", "stage", "unstage", "rebase_continue"})]
    /\ UNCHANGED <<refs, files, tracking, stash, nedits, plan>>

Opens(s, op) == calls[s].op = op /\ calls[s].at = "open"
At(s, op, at) == calls[s].op = op /\ calls[s].at = at
Goto(s, at) == calls' = [calls EXCEPT ![s].at = at]
End(s, at) == calls' = [calls EXCEPT ![s] = [Idle EXCEPT !.at = at]]
Refuse(s) == End(s, "error") /\ UNCHANGED repo

CallStage == \E p \in Paths : Call("stage", None, 0, p, FALSE)
CallUnstage == \E p \in Paths : Call("unstage", None, 0, p, FALSE)
CallCommit == \E amend \in BOOLEAN : Call("commit", None, 0, None, amend)
CallCheckout == \E b \in Branches : Call("checkout", b, 0, None, FALSE)
CallBranchCreate == \E b \in Branches, co \in BOOLEAN : Call("branch_create", b, 0, None, co)
CallBranchDelete == \E b \in Branches : Call("branch_delete", b, 0, None, FALSE)
CallBranchRename == \E b \in Branches, force \in BOOLEAN : Call("branch_rename", b, 0, None, force)
CallDeleteRemoteTracking == \E b \in Branches : Call("delete_tracking", b, 0, None, FALSE)
CallCheckoutRemote == \E b \in Branches : Call("checkout_remote", b, 0, None, FALSE)
CallMerge == \E b \in Branches, noFf \in BOOLEAN : Call("merge", b, 0, None, noFf)
CallMergeAbort == Call("merge_abort", None, 0, None, FALSE)
CallRebase == \E b \in Branches : Call("rebase", b, 0, None, FALSE)
CallRebaseContinue == Call("rebase_continue", None, 0, None, FALSE)
CallRebaseAbort == Call("rebase_abort", None, 0, None, FALSE)
CallStashSave == \E untracked \in BOOLEAN : Call("stash_save", None, 0, None, untracked)
CallStashApply == \E i \in 1..2, dropAfter \in BOOLEAN : Call("stash_apply", None, i, None, dropAfter)
CallStashDrop == \E i \in 1..2 : Call("stash_drop", None, i, None, FALSE)
CallCherryPick == \E c \in {2, 4} : Call("cherry_pick", None, c, None, FALSE)
CallRevert == \E c \in {2, 4} : Call("revert", None, c, None, FALSE)
CallResolve == \E p \in Unmerged(index), c \in {1, 3} : Call("resolve", None, c, p, FALSE)
CallApplyPatch == \E p \in Paths, reverse \in BOOLEAN : Call("apply_patch", None, 0, p, reverse)
-----------------------------------------------------------------------------
(* What libgit2 does to the working copy.                                          *)
\* checkout_tree, safe: refuses to write over a file that differs from both sides.
CanCheckout(tree) ==
    \A p \in Changed(HeadTree, tree) : work[p] \in {HeadTree[p], tree[p]}
CheckoutTree(tree) ==
    LET ps == Changed(HeadTree, tree) IN
    work' = Overlay(ps, tree, work) /\ index' = Overlay(ps, tree, index)
\* checkout_tree, forced: whatever is there is replaced.
ForceTree(tree) ==
    LET ps == {p \in Paths : tree[p] # Absent \/ HeadTree[p] # Absent \/ index[p] # Absent} IN
    work' = Overlay(ps, tree, work) /\ index' = tree
\* The result of a merge, a cherry-pick or a replayed commit goes to the index and to
\* disk only where nothing staged or edited is in its way.
CanApply(result) ==
    \A p \in Paths : /\ index[p] \in {HeadTree[p], result[p]}
                     /\ result[p] # HeadTree[p] => work[p] = index[p]
Apply(result) ==
    work' = Overlay(Changed(HeadTree, result), OnDisk(result), work) /\ index' = result
Unstaged(entries) == \E p \in Paths : entries[p] # Absent /\ work[p] # entries[p]
Dirty == index # HeadTree \/ Unstaged(index)
MoveHead(c) ==
    IF head.on = None THEN head' = [head EXCEPT !.at = c] /\ UNCHANGED branches
    ELSE branches' = [branches EXCEPT ![head.on] = c] /\ UNCHANGED head
\* repo.commit(Some("HEAD"), ..) refuses when the first parent is no longer the tip.
CanCommit(parents) == HeadId = 0 \/ (parents # <<>> /\ parents[1] = HeadId)
NewCommit(tree, parents, of) ==
    /\ commits' = Append(commits, [parents |-> parents, tree |-> tree,
                                   of |-> IF of = 0 THEN Len(commits) + 1 ELSE of])
    /\ MoveHead(Len(commits) + 1)
CleanupState == seq' = NoSeq
SetHead(b) == head' = [on |-> b, at |-> 0]
-----------------------------------------------------------------------------
(* status.rs: the index and commits.                                              *)
\* stage opens the index, adds the file in memory, and writes the index back.
StageOpen(s) ==
    /\ Opens(s, "stage")
    /\ LET p == calls[s].p IN
       calls' = [calls EXCEPT ![s].at = "write", ![s].idx = [index EXCEPT ![p] = work[p]]]
    /\ UNCHANGED repo
\* resolve writes the file first.
ResolveOpen(s) ==
    /\ Opens(s, "resolve")
    /\ LET p == calls[s].p IN
       /\ work' = [work EXCEPT ![p] = calls[s].c]
       /\ calls' = [calls EXCEPT ![s].at = "write", ![s].idx = [index EXCEPT ![p] = calls[s].c]]
    /\ UNCHANGED <<refs, index, tracking, seq, stash>>
IndexWrite(s) ==
    /\ calls[s].op \in {"stage", "resolve"} /\ calls[s].at = "write"
    /\ index' = calls[s].idx /\ End(s, "done")
    /\ UNCHANGED <<refs, work, tracking, seq, stash>>
Unstage(s) ==
    /\ Opens(s, "unstage")
    /\ index' = [index EXCEPT ![calls[s].p] = HeadTree[calls[s].p]] /\ End(s, "done")
    /\ UNCHANGED <<refs, work, tracking, seq, stash>>
\* git apply --cached of a hunk, or its reverse.
ApplyPatch(s) ==
    LET p == calls[s].p IN
    /\ Opens(s, "apply_patch")
    /\ IF index[p] \in {Conflict, Absent} \/ work[p] = Absent THEN Refuse(s)
       ELSE /\ index' = [index EXCEPT ![p] = IF calls[s].f THEN HeadTree[p] ELSE work[p]]
            /\ End(s, "done")
            /\ UNCHANGED <<refs, work, tracking, seq, stash>>

\* Mutant of CommitOpen: the commit has HEAD as its only parent.
CommitOpenPlain(s) ==
    /\ Opens(s, "commit")
    /\ IF Unmerged(index) # {} THEN Refuse(s)
       ELSE /\ calls' = [calls EXCEPT ![s].at = "write", ![s].idx = index,
                  ![s].par = IF HeadId = 0 THEN <<>> ELSE <<HeadId>>]
            /\ UNCHANGED repo

\* The tree and the parents are read: HEAD's own parents to amend, otherwise HEAD and
\* what MERGE_HEAD names.
CommitOpen(s) ==
    /\ Opens(s, "commit")
    /\ IF Unmerged(index) # {} THEN Refuse(s)
       ELSE /\ calls' = [calls EXCEPT ![s].at = "write", ![s].idx = index,
                  ![s].par = IF HeadId = 0 THEN <<>>
                             ELSE IF calls[s].f THEN commits[HeadId].parents
                             ELSE <<HeadId>> \o MergeHeads]
            /\ UNCHANGED repo
\* The commit lands and every state file goes, those of a rebase included.
CommitWrite(s) ==
    /\ At(s, "commit", "write")
    /\ IF ~CanCommit(calls[s].par) THEN Refuse(s)
       ELSE /\ NewCommit(calls[s].idx, calls[s].par, 0) /\ CleanupState /\ End(s, "done")
            /\ UNCHANGED <<files, tracking, stash>>
-----------------------------------------------------------------------------
(* branch.rs                                                                      *)
\* Mutant of CheckoutOpen: a forced checkout.
CheckoutOpenForced(s) ==
    /\ Opens(s, "checkout")
    /\ LET tree == TreeOf(commits, branches[calls[s].b]) IN
       IF branches[calls[s].b] = 0 THEN Refuse(s)
       ELSE ForceTree(tree) /\ Goto(s, "set_head") /\ UNCHANGED <<refs, tracking, seq, stash>>

\* The tree is checked out first, HEAD is set afterwards.
CheckoutOpen(s) ==
    /\ Opens(s, "checkout")
    /\ LET tree == TreeOf(commits, branches[calls[s].b]) IN
       IF branches[calls[s].b] = 0 \/ ~CanCheckout(tree) THEN Refuse(s)
       ELSE CheckoutTree(tree) /\ Goto(s, "set_head") /\ UNCHANGED <<refs, tracking, seq, stash>>
\* libgit2 does not point HEAD at a branch that is the HEAD of a linked worktree.
CheckoutHead(s) ==
    /\ At(s, "checkout", "set_head")
    /\ IF calls[s].b \in Elsewhere /\ head.on # calls[s].b THEN Refuse(s)
       ELSE SetHead(calls[s].b) /\ End(s, "done")
            /\ UNCHANGED <<commits, branches, files, tracking, seq, stash>>
ThenCheckout(s) == calls' = [calls EXCEPT ![s].op = "checkout"]
BranchCreate(s) ==
    /\ Opens(s, "branch_create")
    /\ IF HeadId = 0 \/ branches[calls[s].b] # 0 THEN Refuse(s)
       ELSE /\ branches' = [branches EXCEPT ![calls[s].b] = HeadId]
            /\ IF calls[s].f THEN ThenCheckout(s) ELSE End(s, "done")
            /\ UNCHANGED <<commits, head, files, tracking, seq, stash>>
\* An existing local branch is used as it is.
CheckoutRemote(s) ==
    LET b == calls[s].b IN
    /\ Opens(s, "checkout_remote")
    /\ IF tracking[b] = 0 THEN Refuse(s)
       ELSE /\ branches' = [branches EXCEPT ![b] = IF @ = 0 THEN tracking[b] ELSE @]
            /\ ThenCheckout(s)
            /\ UNCHANGED <<commits, head, files, tracking, seq, stash>>
BranchDelete(s) ==
    LET b == calls[s].b IN
    /\ Opens(s, "branch_delete")
    /\ IF branches[b] = 0 \/ head.on = b \/ b \in Elsewhere THEN Refuse(s)
       ELSE /\ branches' = [branches EXCEPT ![b] = 0] /\ End(s, "done")
            /\ UNCHANGED <<commits, head, files, tracking, seq, stash>>
\* Renames the branch to "side"; HEAD follows.
BranchRename(s) ==
    LET b == calls[s].b IN
    /\ Opens(s, "branch_rename")
    /\ IF branches[b] = 0 \/ b = "side" \/ (branches["side"] # 0 /\ (~calls[s].f \/ head.on = "side"))
       THEN Refuse(s)
       ELSE /\ branches' = [branches EXCEPT ![b] = 0, !["side"] = branches[b]]
            /\ head' = IF head.on = b THEN [head EXCEPT !.on = "side"] ELSE head
            /\ End(s, "done")
            /\ UNCHANGED <<commits, files, tracking, seq, stash>>
DeleteRemoteTracking(s) ==
    /\ Opens(s, "delete_tracking")
    /\ IF tracking[calls[s].b] = 0 THEN Refuse(s)
       ELSE tracking' = [tracking EXCEPT ![calls[s].b] = 0] /\ End(s, "done")
            /\ UNCHANGED <<refs, files, seq, stash>>
-----------------------------------------------------------------------------
(* merge.rs                                                                        *)
Rev(b) == IF branches[b] # 0 THEN branches[b] ELSE tracking[b]
MergeResult(c) == Merge3(TreeOf(commits, MergeBase(commits, HeadId, c)), HeadTree, TreeOf(commits, c))

MergeNothing(s) ==
    /\ Opens(s, "merge") /\ (Rev(calls[s].b) = 0 \/ Rev(calls[s].b) \in Ancestors(commits, HeadId))
    /\ End(s, IF Rev(calls[s].b) = 0 THEN "error" ELSE "done") /\ UNCHANGED repo
\* Nothing is committed here: the branch is created and checked out by force.
MergeUnborn(s) ==
    LET c == Rev(calls[s].b) IN
    /\ Opens(s, "merge") /\ c # 0 /\ HeadId = 0
    /\ branches' = [branches EXCEPT ![head.on] = c]
    /\ ForceTree(TreeOf(commits, c)) /\ End(s, "done")
    /\ UNCHANGED <<commits, head, tracking, seq, stash>>
MergeFastForward(s) ==
    LET c == Rev(calls[s].b) IN
    /\ Opens(s, "merge") /\ c # 0 /\ HeadId # 0 /\ HeadId # c /\ ~calls[s].f
    /\ HeadId \in Ancestors(commits, c)
    /\ IF ~CanCheckout(TreeOf(commits, c)) THEN Refuse(s)
       ELSE /\ CheckoutTree(TreeOf(commits, c))
            /\ calls' = [calls EXCEPT ![s].at = "forward", ![s].c = c]
            /\ UNCHANGED <<refs, tracking, seq, stash>>
MergeForward(s) ==
    /\ At(s, "merge", "forward")
    /\ MoveHead(calls[s].c) /\ End(s, "done")
    /\ UNCHANGED <<commits, files, tracking, seq, stash>>
\* MERGE_HEAD is written first; a merge that cannot be applied takes it back, and one
\* with conflicts stays in progress.
MergeReal(s) ==
    LET c == Rev(calls[s].b)  result == MergeResult(c) IN
    /\ Opens(s, "merge") /\ c # 0 /\ HeadId # 0 /\ c \notin Ancestors(commits, HeadId)
    /\ calls[s].f \/ HeadId \notin Ancestors(commits, c)
    /\ IF ~CanApply(result) THEN seq' = [seq EXCEPT !.merge = 0] /\ End(s, "error") /\ UNCHANGED files
       ELSE /\ Apply(result) /\ seq' = [seq EXCEPT !.merge = c]
            /\ IF Unmerged(result) # {} THEN End(s, "done")
               ELSE calls' = [calls EXCEPT ![s].at = "finish", ![s].c = c, ![s].idx = result]
    /\ UNCHANGED <<refs, tracking, stash>>
\* What is committed is the index the merge left in memory, whatever is on disk by now.
MergeFinish(s) ==
    /\ At(s, "merge", "finish")
    /\ IF HeadId = 0 THEN Refuse(s)
       ELSE /\ NewCommit(calls[s].idx, <<HeadId, calls[s].c>>, 0) /\ CleanupState /\ End(s, "done")
            /\ UNCHANGED <<files, tracking, stash>>

\* Whatever is in progress ends, also a rebase, and the tree is HEAD's again.
MergeAbort(s) ==
    /\ Opens(s, "merge_abort")
    /\ IF HeadId = 0 THEN Refuse(s)
       ELSE /\ ForceTree(HeadTree) /\ CleanupState /\ End(s, "done")
            /\ UNCHANGED <<refs, tracking, stash>>
-----------------------------------------------------------------------------
(* merge.rs: rebase.  libgit2 detaches HEAD at the upstream and replays one commit  *)
(* after the other; cur counts the commits it has started on.                        *)
Replaying == seq.rebase.todo[seq.rebase.cur]
ReplayResult(c) == Merge3(TreeOf(commits, Parent(commits, c)), HeadTree, TreeOf(commits, c))
SeqEnds == seq' = [seq EXCEPT !.rebase = NoRebase]

RebaseOpen(s) ==
    LET onto == Rev(calls[s].b) IN
    /\ Opens(s, "rebase")
    /\ IF onto = 0 \/ HeadId = 0 THEN Refuse(s)
       ELSE IF onto \in Ancestors(commits, HeadId) THEN End(s, "done") /\ UNCHANGED repo
       ELSE IF Rebasing \/ Dirty \/ ~CanCheckout(TreeOf(commits, onto)) THEN Refuse(s)
       ELSE /\ seq' = [seq EXCEPT !.rebase = [on |-> head.on, orig |-> HeadId, cur |-> 0,
                          todo |-> ToReplay(commits, HeadId, onto), touched |-> ~calls[s].alone, blocked |-> FALSE]]
            /\ CheckoutTree(TreeOf(commits, onto))
            /\ head' = [on |-> None, at |-> onto]
            /\ calls' = [calls EXCEPT ![s].op = "drive", ![s].at = "next"]
            /\ UNCHANGED <<commits, branches, tracking, stash>>
\* Mutant of RebaseNext: a commit that conflicts is passed over.
RebaseNextPasses(s) ==
    LET c == seq.rebase.todo[seq.rebase.cur + 1]  result == ReplayResult(c) IN
    /\ At(s, "drive", "next") /\ Rebasing /\ seq.rebase.cur < Len(seq.rebase.todo)
    /\ seq' = [seq EXCEPT !.rebase.cur = @ + 1, !.rebase.blocked = @ \/ ~CanApply(result)]
    /\ IF ~CanApply(result) THEN End(s, "error") /\ UNCHANGED files
       ELSE /\ Apply(result)
            /\ IF Unmerged(result) # {} THEN Goto(s, "next")
               ELSE calls' = [calls EXCEPT ![s].at = "commit", ![s].idx = result]
    /\ UNCHANGED <<refs, tracking, stash>>
\* drive: the next commit is merged into the index.  It counts as started even when
\* something in the working tree is in its way (blocked).
RebaseNext(s) ==
    LET c == seq.rebase.todo[seq.rebase.cur + 1]  result == ReplayResult(c) IN
    /\ At(s, "drive", "next") /\ Rebasing /\ seq.rebase.cur < Len(seq.rebase.todo)
    /\ seq' = [seq EXCEPT !.rebase.cur = @ + 1, !.rebase.blocked = @ \/ ~CanApply(result)]
    /\ IF ~CanApply(result) THEN End(s, "error") /\ UNCHANGED files
       ELSE /\ Apply(result)
            /\ IF Unmerged(result) # {} THEN End(s, "done")
               ELSE calls' = [calls EXCEPT ![s].at = "commit", ![s].idx = result]
    /\ UNCHANGED <<refs, tracking, stash>>
\* libgit2 refuses to commit a step of a rebase over changes that are not staged; a
\* commit that changes nothing is skipped.
ReplayCommit(entries) ==
    IF entries = HeadTree THEN UNCHANGED refs ELSE NewCommit(entries, <<HeadId>>, Replaying)
RebaseCommit(s) ==
    /\ At(s, "drive", "commit") /\ Rebasing
    /\ IF Unstaged(calls[s].idx) THEN Refuse(s)
       ELSE ReplayCommit(calls[s].idx) /\ Goto(s, "next") /\ UNCHANGED <<files, tracking, seq, stash>>
\* finish moves the branch, if nobody else has, and HEAD goes back to it.
RebaseFinish(s) ==
    LET r == seq.rebase IN
    /\ At(s, "drive", "next") /\ Rebasing /\ r.cur = Len(r.todo)
    /\ IF r.on # None /\ branches[r.on] # r.orig THEN Refuse(s)
       ELSE /\ IF r.on = None THEN UNCHANGED <<branches, head>>
               ELSE branches' = [branches EXCEPT ![r.on] = HeadId] /\ SetHead(r.on)
            /\ SeqEnds /\ End(s, "done")
            /\ UNCHANGED <<commits, files, tracking, stash>>
RebaseGone(s) == calls[s].op = "drive" /\ ~Rebasing /\ Refuse(s)

RebaseContinue(s) ==
    /\ Opens(s, "rebase_continue")
    /\ IF ~Rebasing \/ seq.rebase.cur = 0 THEN Refuse(s)
       ELSE IF Unmerged(index) # {} THEN End(s, "done") /\ UNCHANGED repo
       ELSE IF Unstaged(index) THEN Refuse(s)
       ELSE /\ ReplayCommit(index)
            /\ calls' = [calls EXCEPT ![s].op = "drive", ![s].at = "next"]
            /\ UNCHANGED <<files, tracking, seq, stash>>
RebaseAbort(s) ==
    LET r == seq.rebase  tree == TreeOf(commits, r.orig) IN
    /\ Opens(s, "rebase_abort")
    /\ IF ~Rebasing THEN Refuse(s)
       ELSE /\ IF r.on = None THEN head' = [head EXCEPT !.at = r.orig] /\ UNCHANGED branches
               ELSE branches' = [branches EXCEPT ![r.on] = r.orig] /\ SetHead(r.on)
            /\ ForceTree(tree) /\ SeqEnds /\ End(s, "done")
            /\ UNCHANGED <<commits, tracking, stash>>
-----------------------------------------------------------------------------
(* cherry.rs: one commit applied, or taken back, and committed at once unless it     *)
(* conflicts.                                                                         *)
PickResult(op, c) ==
    LET before == TreeOf(commits, Parent(commits, c))  after == TreeOf(commits, c)
    IN IF op = "revert" THEN Merge3(after, HeadTree, before) ELSE Merge3(before, HeadTree, after)
PickState(op, c) ==
    seq' = IF op = "revert" THEN [seq EXCEPT !.revert = c] ELSE [seq EXCEPT !.pick = c]
PickOpen(s) ==
    LET op == calls[s].op  c == calls[s].c  result == PickResult(op, c) IN
    /\ op \in {"cherry_pick", "revert"} /\ calls[s].at = "open"
    /\ IF HeadId = 0 THEN Refuse(s)
       ELSE IF ~CanApply(result) THEN PickState(op, 0) /\ End(s, "error") /\ UNCHANGED <<refs, files, tracking, stash>>
       ELSE /\ Apply(result) /\ PickState(op, c)
            /\ IF Unmerged(result) # {} THEN End(s, "done")
               ELSE calls' = [calls EXCEPT ![s].at = "finalize", ![s].idx = result]
            /\ UNCHANGED <<refs, tracking, stash>>
FinalizeCommit(s) ==
    /\ calls[s].op \in {"cherry_pick", "revert"} /\ calls[s].at = "finalize"
    /\ IF HeadId = 0 THEN Refuse(s)
       ELSE /\ NewCommit(calls[s].idx, <<HeadId>>, 0) /\ CleanupState /\ End(s, "done")
            /\ UNCHANGED <<files, tracking, stash>>
-----------------------------------------------------------------------------
(* stash.rs                                                                           *)
Tracked == {p \in Paths : index[p] # Absent}
Untracked == {p \in Paths : index[p] = Absent /\ work[p] # Absent}
StashSave(s) ==
    LET extra == IF calls[s].f THEN Untracked ELSE {} IN
    /\ Opens(s, "stash_save")
    /\ IF HeadId = 0 \/ Unmerged(index) # {} \/ (~Dirty /\ extra = {}) THEN Refuse(s)
       ELSE /\ stash' = <<[base |-> HeadId, tree |-> Overlay(Tracked, work, EmptyTree),
                           extra |-> Overlay(extra, work, EmptyTree)]>> \o stash
            /\ work' = Overlay({p \in Paths : p \in extra \cup Tracked \/ HeadTree[p] # Absent}, HeadTree, work)
            /\ index' = HeadTree /\ End(s, "done")
            /\ UNCHANGED <<refs, tracking, seq>>
\* Mutant of StashApply: an apply that fails does not keep a pop from its drop.
StashApplyIgnored(s) ==
    LET i == calls[s].c IN
    /\ Opens(s, "stash_apply")
    /\ IF calls[s].f THEN Goto(s, "drop") ELSE End(s, "done")
    /\ UNCHANGED repo

\* The entry is merged into a clean index; conflicts stay in it.  New files stay staged.
StashApply(s) ==
    LET i == calls[s].c
        e == stash[i]
        result == Merge3(TreeOf(commits, e.base), HeadTree, e.tree)
        news == {p \in Paths : e.extra[p] # Absent}
    IN
    /\ Opens(s, "stash_apply")
    /\ IF i > Len(stash) THEN Refuse(s)
       ELSE IF \/ HeadId = 0 \/ index # HeadTree
               \/ \E p \in Changed(HeadTree, result) : work[p] # HeadTree[p]
               \/ \E p \in news : work[p] \notin {Absent, e.extra[p]} \/ HeadTree[p] # Absent
            THEN Refuse(s)
       ELSE /\ work' = Overlay(news, e.extra, Overlay(Changed(HeadTree, result), OnDisk(result), work))
            /\ index' = [p \in Paths |-> IF result[p] = Conflict \/ HeadTree[p] = Absent
                                         THEN result[p] ELSE HeadTree[p]]
            /\ IF calls[s].f THEN Goto(s, "drop") ELSE End(s, "done")
            /\ UNCHANGED <<refs, tracking, seq, stash>>

\* drop, and the second half of an apply that drops: whatever has the number now.
StashDrop(s) ==
    LET i == calls[s].c IN
    /\ Opens(s, "stash_drop") \/ At(s, "stash_apply", "drop")
    /\ IF i > Len(stash) THEN Refuse(s)
       ELSE stash' = RemoveAt(stash, i) /\ End(s, "done") /\ UNCHANGED <<refs, files, tracking, seq>>
-----------------------------------------------------------------------------
RunStatusOps(s) ==
    StageOpen(s) \/ ResolveOpen(s) \/ IndexWrite(s) \/ Unstage(s) \/ ApplyPatch(s)
    \/ CommitOpen(s) \/ CommitWrite(s)
RunBranchOps(s) ==
    CheckoutOpen(s) \/ CheckoutHead(s) \/ BranchCreate(s) \/ CheckoutRemote(s)
    \/ BranchDelete(s) \/ BranchRename(s) \/ DeleteRemoteTracking(s)
RunMergeOps(s) ==
    MergeNothing(s) \/ MergeUnborn(s) \/ MergeFastForward(s) \/ MergeForward(s)
    \/ MergeReal(s) \/ MergeFinish(s) \/ MergeAbort(s)
    \/ RebaseOpen(s) \/ RebaseNext(s) \/ RebaseCommit(s) \/ RebaseFinish(s) \/ RebaseGone(s)
    \/ RebaseContinue(s) \/ RebaseAbort(s) \/ PickOpen(s) \/ FinalizeCommit(s)
RunStashOps(s) == StashSave(s) \/ StashApply(s) \/ StashDrop(s)
RunOp(s) == (RunStatusOps(s) \/ RunBranchOps(s) \/ RunMergeOps(s) \/ RunStashOps(s))
            /\ UNCHANGED <<ncalls, nedits, plan>>

StatusCommands == CallStage \/ CallUnstage \/ CallCommit
BranchCommands == CallCheckout \/ CallBranchCreate \/ CallBranchDelete \/ CallBranchRename
                  \/ CallDeleteRemoteTracking \/ CallCheckoutRemote
MergeCommands == CallMerge \/ CallMergeAbort \/ CallRebase \/ CallRebaseContinue \/ CallRebaseAbort
                 \/ CallApplyPatch \/ CallResolve
StashCommands == CallStashSave \/ CallStashApply \/ CallStashDrop \/ CallCherryPick \/ CallRevert

\* A file is written or removed by the user or the assistant.
Edit ==
    /\ nedits < MaxEdits /\ nedits' = nedits + 1
    /\ \E p \in Paths, c \in {Absent, 3} : c # work[p] /\ work' = [work EXCEPT ![p] = c]
    /\ calls' = [s \in Slots |-> [calls[s] EXCEPT !.alone = Ended(s)]]
    /\ seq' = [seq EXCEPT !.rebase.touched = Rebasing]
    /\ UNCHANGED <<refs, index, tracking, stash, ncalls, plan>>
GitNext == StatusCommands \/ BranchCommands \/ MergeCommands \/ StashCommands
           \/ (\E s \in Slots : RunOp(s)) \/ Edit
-----------------------------------------------------------------------------
TreeType == [Paths -> Nat]
FilesType == [Paths -> Nat \cup {Absent, Conflict, Markers}]
Commits == 0..Len(commits)
\* Every ref, parent and state file names a commit there is, and the entries of the
\* stash and what commands in flight have read are trees.
TypeOK ==
    /\ commits \in Seq([parents : Seq(Nat), tree : FilesType, of : Nat])
    /\ \A i \in 1..Len(commits) : Range(commits[i].parents) \subseteq 1..(i - 1) /\ commits[i].of \in 1..i
    /\ branches \in [Branches -> Commits] /\ tracking \in [Branches -> Commits]
    /\ head \in [on : Branches \cup {None}, at : Commits]
    /\ index \in FilesType /\ work \in FilesType
    /\ {seq.merge, seq.revert, seq.pick, seq.rebase.orig} \subseteq Commits
    /\ Range(seq.rebase.todo) \subseteq Commits /\ seq.rebase.cur \in 0..Len(seq.rebase.todo)
    /\ \A e \in Range(stash) : e.base \in Commits /\ e.tree \in FilesType /\ e.extra \in FilesType
    /\ \A s \in Slots : calls[s].idx \in FilesType /\ Range(calls[s].par) \subseteq Commits
    /\ plan \in Plans /\ ncalls \in 0..plan.calls /\ nedits \in 0..MaxEdits

Moves(s, ops) == calls[s].op \in ops /\ calls[s].at # calls'[s].at
\* What is on disk and not committed is gone only where the command is there to throw it
\* away or to replace it (an abort, a revert to a checkpoint, the merge editor, the merge
\* into an empty repository), where an entry of the stash holds it, or where a stash is
\* saved while HEAD has a file of the name of an untracked one.
EditsSurvive ==
    [][\A p \in Paths :
         work[p] \notin {HeadTree[p], Absent, Markers, work'[p]} =>
            \/ nedits' # nedits
            \/ \E s \in Slots : Moves(s, {"merge_abort", "rebase_abort", "resolve", "revert_turn"})
            \/ index[p] = Absent /\ HeadTree[p] # Absent /\ \E s \in Slots : Moves(s, {"stash_save"})
            \/ HeadId = 0
            \/ \E e \in Range(stash') : work[p] \in {e.tree[p], e.extra[p]}]_gitvars
\* A commit that nothing disturbs, made while a merge is in progress and not an amend,
\* has both heads as parents, and the merge is over.
FinishedMergeKeepsParents ==
    [][\A s \in Slots :
         At(s, "commit", "write") /\ calls[s].alone /\ ~calls[s].f /\ State = "merge"
         /\ calls'[s].at = "done" =>
            /\ Last(commits').parents = <<HeadId, seq.merge>>
            /\ seq'.merge = 0]_gitvars
\* What a rebase replays it either commits or skips because it changes nothing.
Replayed(c) ==
    \/ commits[HeadId].of = c
    \/ LET result == ReplayResult(c)
       IN result = HeadTree \/ (Unmerged(result) # {} /\ index = HeadTree)
RebaseMovesOn(s) ==
    /\ At(s, "drive", "next") /\ Rebasing /\ seq.rebase.cur > 0
    /\ seq'.rebase # seq.rebase
\* A rebase during which nothing else was done to the working copy loses no commit,
\* however often it stops and is continued, unless a file that git did not track was in
\* the way of one of them.
QuietRebaseLosesNothing ==
    [][\A s \in Slots :
         RebaseMovesOn(s) /\ ~seq.rebase.touched /\ ~seq.rebase.blocked /\ calls[s].alone =>
            Replayed(Replaying)]_gitvars
\* RebaseOutcome::Done: "Every commit was replayed".  (It does not hold: a commit that
\* could not be applied over a file in its way counts as started, and the next continue
\* takes the unchanged index for an empty commit.)
RebaseLosesNothing == [][\A s \in Slots : RebaseMovesOn(s) => Replayed(Replaying)]_gitvars
\* An abort leaves what is tracked as HEAD has it, and nothing in progress.
AbortRestoresHead ==
    [][\A s \in Slots :
         Moves(s, {"merge_abort", "rebase_abort"}) /\ calls'[s].at = "done" =>
            /\ index' = HeadTree' /\ \A p \in Paths : index'[p] # Absent => work'[p] = index'[p]
            /\ \A p \in Paths : index[p] = Absent \/ work'[p] = index'[p]
            /\ calls[s].op = "merge_abort" => State' = "clean"
            /\ calls[s].op = "rebase_abort" =>
                 HeadId' = seq.rebase.orig /\ head'.on = seq.rebase.on]_gitvars
\* An entry leaves the stash only where it was dropped by its number, or after its files
\* have reached the working copy; the others keep their order.
PopKeepsUnapplied ==
    [][\A s \in Slots :
         At(s, "stash_apply", "drop") /\ calls[s].alone /\ calls'[s].at = "done" =>
            LET e == stash[calls[s].c] IN
            /\ stash' = RemoveAt(stash, calls[s].c)
            /\ \A p \in Changed(TreeOf(commits, e.base), e.tree) : work[p] \in {e.tree[p], Markers}
            /\ \A p \in Paths : e.extra[p] \in {Absent, work[p]}]_gitvars
\* A command that fails leaves the working copy as it was.
FailedCheckoutChangesNothing ==
    [][\A s \in Slots : At(s, "checkout", "set_head") /\ calls[s].alone => calls'[s].at # "error"]_gitvars
\* "Amend: replace HEAD's commit, keep its parents."
AmendReplacesHead ==
    [][\A s \in Slots :
         At(s, "commit", "write") /\ calls[s].alone /\ calls[s].f /\ calls'[s] # calls[s] =>
            calls'[s].at = "done"]_gitvars
=============================================================================
