----------------------------- MODULE Checkpoints -----------------------------
(* The checkpoints of a session's turns in the working copy of GitRepo              *)
(* (crates/oxyris-git/src/checkpoint.rs, infra/checkpoint.rs): a ref before the      *)
(* provider sees a message, one when the turn ends, the revert to the first, and the *)
(* collection of old refs.  They are commands like the others of the repository.     *)
EXTENDS GitRepo

CONSTANT Turns

VARIABLE cps     \* cps[t][phase]: refs/oxyris/cp/<session>/<t>-<phase>

vars == <<gitvars, cps>>

Phases == {"pre", "post"}
\* commit: the commit HEAD had if nothing was changed, 0 for a stash commit.  The files
\* and the tracked paths of the moment are kept beside it to state what it is for.
NoRef == [set |-> FALSE, tree |-> EmptyTree, commit |-> 0, was |-> EmptyTree, had |-> {}]
CInit == Init /\ cps = [t \in Turns |-> [ph \in Phases |-> NoRef]]

Phase(s) == IF calls[s].f THEN "post" ELSE "pre"
\* A message is sent and its turn ends once.
CallCapture ==
    \E t \in Turns, post \in BOOLEAN :
        /\ \A s \in Slots : calls[s].op # "capture" \/ calls[s].b # t
        /\ ~cps[t]["post"].set /\ cps[t]["pre"].set = post
        /\ Call("capture", t, 0, None, post)
CallRevertTurn == \E t \in Turns : Call("revert_turn", t, 0, None, FALSE)

\* Mutant of CaptureOpen: the index is taken for the files.
CaptureOpenIndex(s) ==
    /\ Opens(s, "capture")
    /\ IF HeadId = 0 \/ Unmerged(index) # {} THEN Refuse(s)
       ELSE /\ calls' = [calls EXCEPT ![s].at = IF Dirty THEN "ref" ELSE "ref_head", ![s].idx = index]
            /\ UNCHANGED repo

\* git stash create: a commit of the tracked files as they are on disk; nothing when
\* they are all as in HEAD, a failure with conflicts or without a first commit.
CaptureOpen(s) ==
    /\ Opens(s, "capture")
    /\ IF HeadId = 0 \/ Unmerged(index) # {} THEN Refuse(s)
       ELSE /\ calls' = [calls EXCEPT ![s].at = IF Dirty THEN "ref" ELSE "ref_head",
                                      ![s].idx = Overlay(Tracked, work, EmptyTree)]
            /\ UNCHANGED repo
\* The ref is written over what is there; a clean tree is recorded as the HEAD of now.
CaptureRef(s) ==
    /\ calls[s].op = "capture" /\ calls[s].at \in {"ref", "ref_head"}
    /\ IF calls[s].at = "ref_head" /\ HeadId = 0 THEN Refuse(s) /\ UNCHANGED cps
       ELSE /\ LET clean == calls[s].at = "ref_head" IN
               cps' = [cps EXCEPT ![calls[s].b][Phase(s)] =
                   [set |-> TRUE, tree |-> IF clean THEN HeadTree ELSE calls[s].idx,
                    commit |-> IF clean THEN HeadId ELSE 0, was |-> work,
                    had |-> IF calls[s].alone THEN Tracked ELSE {}]]
            /\ End(s, "done") /\ UNCHANGED repo

\* git read-tree -u --reset: the index and the files in it become those of the ref.
RevertToPre(s) ==
    LET ref == cps[calls[s].b]["pre"]
        ps == {p \in Paths : ref.tree[p] # Absent \/ index[p] # Absent} IN
    /\ Opens(s, "revert_turn")
    /\ IF ~ref.set THEN Refuse(s)
       ELSE /\ work' = Overlay(ps, ref.tree, work) /\ index' = ref.tree /\ End(s, "done")
            /\ UNCHANGED <<refs, tracking, seq, stash>>
RunCheckpoint(s) ==
    /\ CaptureRef(s) \/ ((CaptureOpen(s) \/ RevertToPre(s)) /\ UNCHANGED cps)
    /\ UNCHANGED <<ncalls, nedits, plan>>

\* Once a day: refs whose commit is older than thirty days go.  The commits there were
\* at the start are.
Old(ref) == ref.set /\ ref.commit \in 1..Len(plan.history)
Gc ==
    /\ cps' = [t \in Turns |-> [ph \in Phases |-> IF Old(cps[t][ph]) THEN NoRef ELSE cps[t][ph]]]
    /\ UNCHANGED gitvars

Next ==
    \/ GitNext /\ UNCHANGED cps
    \/ (CallCapture \/ CallRevertTurn) /\ UNCHANGED cps
    \/ \E s \in Slots : RunCheckpoint(s)
    \/ Gc
Spec == CInit /\ [][Next]_vars
-----------------------------------------------------------------------------
CTypeOK ==
    /\ TypeOK
    /\ cps \in [Turns -> [Phases -> [set : BOOLEAN, tree : FilesType, commit : Commits,
                                     was : FilesType, had : SUBSET Paths]]]
\* A revert that nothing disturbs gives every file that was tracked at the start of the
\* turn its content of then, and leaves untracked files alone.
RevertRestoresTracked ==
    [][\A s \in Slots :
         Moves(s, {"revert_turn"}) /\ calls'[s].at = "done" =>
            LET ref == cps[calls[s].b]["pre"] IN
            /\ \A p \in ref.had : ref.was[p] # Absent => work'[p] = ref.was[p]
            /\ \A p \in Paths : index[p] = Absent /\ ref.tree[p] = Absent => work'[p] = work[p]]_vars
\* "Before Claude sees a user message we snapshot the working tree (committed +
\* uncommitted + untracked)".
SnapshotIsWhole ==
    \A t \in Turns : LET ref == cps[t]["pre"] IN ref.set /\ ref.had # {} => ref.tree = ref.was
\* "Garbage-collect checkpoints older than older_than_days": one that was just made stays.
GcKeepsFresh == [][\A t \in Turns : cps[t]["pre"].set => cps'[t]["pre"].set]_vars
=============================================================================
