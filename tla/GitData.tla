------------------------------- MODULE GitData -------------------------------
(* The data of a repository, as the code of crates/oxyris-git leaves it to       *)
(* libgit2: trees at the grain of whole files, the commit graph and three-way     *)
(* merges.  Commits are numbered as they are made, so parents have lower numbers. *)
EXTENDS Integers, Sequences, FiniteSets, SequencesExt

CONSTANT Paths

Absent == 0                        \* no such file
Conflict == -1                     \* an index entry with unmerged stages
Markers == -2                      \* a file with conflict markers
EmptyTree == [p \in Paths |-> Absent]

Merge3(base, ours, theirs) ==
    [p \in Paths |-> IF base[p] = theirs[p] \/ ours[p] = theirs[p] THEN ours[p]
                     ELSE IF base[p] = ours[p] THEN theirs[p] ELSE Conflict]
Unmerged(entries) == {p \in Paths : entries[p] = Conflict}
OnDisk(entries) == [p \in Paths |-> IF entries[p] = Conflict THEN Markers ELSE entries[p]]
Changed(from, to) == {p \in Paths : from[p] # to[p]}
Overlay(ps, top, below) == [p \in Paths |-> IF p \in ps THEN top[p] ELSE below[p]]

\* The commits reachable from c, 0 standing for no commit.
Ancestors(commits, c) ==
    LET anc[i \in 0..Len(commits)] ==
          IF i = 0 THEN {} ELSE {i} \cup UNION {anc[q] : q \in Range(commits[i].parents)}
    IN anc[c]
TreeOf(commits, c) == IF c = 0 THEN EmptyTree ELSE commits[c].tree
MergeBase(commits, a, b) ==
    LET common == Ancestors(commits, a) \cap Ancestors(commits, b)
    IN IF common = {} THEN 0 ELSE CHOOSE c \in common : \A d \in common : d <= c
Parent(commits, c) == IF commits[c].parents = <<>> THEN 0 ELSE commits[c].parents[1]
\* What a rebase of tip replays on upstream: its own commits, oldest first, merges left out.
ToReplay(commits, tip, upstream) ==
    SelectSeq([i \in 1..Len(commits) |-> i],
              LAMBDA i : /\ i \in Ancestors(commits, tip) \ Ancestors(commits, upstream)
                         /\ Len(commits[i].parents) < 2)
=============================================================================
