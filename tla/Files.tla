-------------------------------- MODULE Files --------------------------------
(* File operations of the tree and the editor (tauri_commands/fs.rs,            *)
(* infra/fs.rs) and their twins in the agent (apps/agent/src/ops/fs.rs).  On the *)
(* host every operation runs in a blocking thread of its own, so two of them    *)
(* interleave between their system calls; the agent runs them one by one on its *)
(* single thread.  Of a text only its number of matching lines counts, and       *)
(* whether the content search looks into it at all.                              *)
EXTENDS Naturals, Sequences, FiniteSets

CONSTANTS
    Names,       \* file and directory names
    MaxDepth,    \* longest path the file system takes
    Hidden,      \* files the search walks past or cannot read: ignored, no permission
    Results,     \* max_results of a content search
    Clients,     \* concurrent commands
    MaxOps       \* commands in a behaviour (a bound)

ASSUME FilesAssumption == {MaxDepth, Results, MaxOps} \subseteq Nat \ {0}

Tree == UNION {[1..n -> Names] : n \in 1..MaxDepth}
Rels == UNION {[1..n -> Names \cup {".."}] : n \in 1..MaxDepth}
\* The matching lines of a text; one over 2 MiB, with a NUL byte or not UTF-8 is opaque.
Lines == [plain |-> 0, match |-> 1, matches |-> 2, opaque |-> 1]
Contents == DOMAIN Lines
Kinds == {"write", "create", "create_dir", "rename", "copy", "delete", "delete_all", "search"}

VARIABLES
    env,      \* where the project lives; fixed
    tree,     \* tree[p]: "none", "dir" or the content of a file
    client,   \* client[c]: the command it runs and how far it is
    ops

vars == <<env, tree, client, ops>>

Parent(p) == SubSeq(p, 1, Len(p) - 1)
Under(p, q) == Len(p) <= Len(q) /\ SubSeq(q, 1, Len(p)) = p
IsFile(p) == tree[p] \in Contents
IsDir(p) == p = <<>> \/ (p \in Tree /\ tree[p] = "dir")
Children(p) == {q \in Tree : Parent(q) = p /\ tree[q] # "none"}
Ancestors(p) == {q \in Tree : Under(q, p) /\ q # p}

\* join_inside_worktree: a path that would leave the root on the way is refused;
\* what remains are its plain components, ".." dropped without going up.
\* The paths it accepts for rel: one or none.
JoinInside(rel) ==
    LET count(n, up) == Cardinality({i \in 1..n : (rel[i] = "..") = up}) IN
    {p \in {SelectSeq(rel, LAMBDA x : x # "..")} :
        \A n \in 1..Len(rel) : count(n, TRUE) <= count(n, FALSE)}
Accepted == UNION {JoinInside(rel) : rel \in Rels}

Free == [kind |-> "none", from |-> <<>>, to |-> <<>>, text |-> "plain", step |-> "none",
         work |-> {}, alone |-> TRUE, total |-> 0, hits |-> {}, truncated |-> FALSE]

Init ==
    /\ env \in {"Local", "Wsl"}
    /\ tree = [p \in Tree |-> "none"]
    /\ client = [c \in Clients |-> Free]
    /\ ops = 0
-----------------------------------------------------------------------------
Idle(c) == client[c].step \in {"none", "ok", "error"}

\* A command resolves its scope, joins its paths and picks a thread or the agent.
Begin(c, kind, from, to, text) ==
    /\ ops < MaxOps /\ ops' = ops + 1
    /\ Idle(c) /\ (env = "Wsl" => \A d \in Clients : Idle(d))
    /\ {from, to} \subseteq Tree
    /\ client' = [d \in Clients |->
           IF d = c THEN [Free EXCEPT !.kind = kind, !.from = from, !.to = to, !.text = text,
                                      !.step = "check", !.alone = \A d2 \in Clients : Idle(d2)]
           ELSE [client[d] EXCEPT !.alone = @ /\ Idle(d)]]
    /\ UNCHANGED <<env, tree>>

At(c, kinds, step) == client[c].kind \in kinds /\ client[c].step = step
Goto(c, step) == client' = [client EXCEPT ![c].step = step]
Answer(c, outcome) == client' = [client EXCEPT ![c] = [Free EXCEPT !.step = outcome]]
Fail(c) == Answer(c, "error") /\ UNCHANGED <<env, tree, ops>>
\* The system calls fail where a directory is missing or in the way.
CanPut(p) == p \in Tree /\ IsDir(Parent(p)) /\ tree[p] # "dir"
Put(p, x) == tree' = [tree EXCEPT ![p] = x]

\* create_file refuses what exists, rename, copy and delete what does not.
Check(c) ==
    LET k == client[c].kind  p == client[c].from IN
    /\ client[c].step = "check"
    /\ IF (k = "create" /\ tree[p] # "none")
          \/ (k \in {"rename", "copy", "delete", "delete_all"} /\ tree[p] = "none")
       THEN Fail(c)
       ELSE /\ IF k \in {"write", "create", "rename", "copy", "create_dir"}
               THEN Goto(c, "parents")
               ELSE client' = [client EXCEPT ![c].step = "act",
                        ![c].work = IF k = "search" THEN {q \in Tree : IsFile(q)} \ Hidden ELSE {}]
            /\ UNCHANGED <<env, tree, ops>>

\* create_dir_all of the directories above the target (of the target itself for
\* create_dir); a file in the way fails it.
MakeParents(c) ==
    LET dirs == Ancestors(client[c].to) \cup IF client[c].kind = "create_dir" THEN {client[c].to} ELSE {} IN
    /\ client[c].step = "parents"
    /\ IF \E q \in dirs : IsFile(q) THEN Fail(c)
       ELSE /\ tree' = [q \in Tree |-> IF q \in dirs THEN "dir" ELSE tree[q]]
            /\ IF client[c].kind = "create_dir" THEN Answer(c, "ok")
               ELSE client' = [client EXCEPT ![c].step = "act",
                       ![c].work = IF client[c].kind = "copy" THEN {<<client[c].from, client[c].to>>} ELSE {}]
            /\ UNCHANGED <<env, ops>>

WriteOut(c) ==
    /\ At(c, {"write", "create"}, "act")
    /\ IF ~CanPut(client[c].to) THEN Fail(c)
       ELSE Put(client[c].to, client[c].text) /\ Answer(c, "ok") /\ UNCHANGED <<env, ops>>

\* rename(2): a file replaces a file, a directory an empty directory; nothing
\* moves below itself.
Rename(c) ==
    LET from == client[c].from  to == client[c].to
        moved == {q \in Tree : Under(from, q) /\ tree[q] # "none"}
        dest(q) == to \o SubSeq(q, Len(from) + 1, Len(q))
    IN
    /\ At(c, {"rename"}, "act")
    /\ IF \/ tree[from] = "none" \/ ~IsDir(Parent(to)) \/ (Under(from, to) /\ from # to)
          \/ (IsFile(from) /\ tree[to] = "dir") \/ (tree[from] = "dir" /\ (IsFile(to) \/ (from # to /\ Children(to) # {})))
          \/ \E q \in moved : dest(q) \notin Tree
       THEN Fail(c)
       ELSE /\ tree' = [q \in Tree |->
                   IF \E s \in moved : dest(s) = q THEN tree[CHOOSE s \in moved : dest(s) = q]
                   ELSE IF q \in moved THEN "none" ELSE tree[q]]
            /\ Answer(c, "ok") /\ UNCHANGED <<env, ops>>

\* Mutant of CopyEntry: a directory is taken only with its own files.
CopyEntryFlat(c) ==
    /\ At(c, {"copy"}, "act") /\ client[c].work # {}
    /\ \E w \in client[c].work :
         LET src == w[1]  dst == w[2] IN
         IF tree[src] = "none" \/ dst \notin Tree \/ ~IsDir(Parent(dst)) THEN Fail(c)
         ELSE /\ tree' = [tree EXCEPT ![dst] = tree[src]]
              /\ client' = [client EXCEPT ![c].work = (@ \ {w}) \cup
                     {<<q, Append(dst, q[Len(q)])>> : q \in {e \in Tree : Parent(e) = src /\ IsFile(e)}}]
              /\ UNCHANGED <<env, ops>>

\* copy_dir_recursive, one entry a step: a directory is made with those above it and
\* adds its entries as they are when it is read.
CopyEntry(c) ==
    /\ At(c, {"copy"}, "act") /\ client[c].work # {}
    /\ \E w \in client[c].work :
         LET src == w[1]  dst == w[2]  rest == client[c].work \ {w} IN
         IF \/ tree[src] = "none" \/ dst \notin Tree
            \/ (IsFile(src) /\ ~CanPut(dst))
            \/ (tree[src] = "dir" /\ \E q \in Ancestors(dst) \cup {dst} : IsFile(q))
         THEN Fail(c)
         ELSE /\ tree' = [q \in Tree |->
                     IF q = dst THEN IF src = dst /\ IsFile(src) THEN "plain" ELSE tree[src]
                     ELSE IF tree[src] = "dir" /\ q \in Ancestors(dst) THEN "dir" ELSE tree[q]]
              /\ client' = [client EXCEPT ![c].work =
                     rest \cup IF tree[src] # "dir" THEN {}
                               ELSE {<<q, Append(dst, q[Len(q)])>> :
                                        q \in {e \in Tree : Parent(e) = src /\ tree'[e] # "none"}}]
              /\ UNCHANGED <<env, ops>>

CopyEnds(c) ==
    /\ At(c, {"copy"}, "act") /\ client[c].work = {}
    /\ Answer(c, "ok") /\ UNCHANGED <<env, tree, ops>>

Delete(c) ==
    LET p == client[c].from IN
    /\ At(c, {"delete", "delete_all"}, "act")
    /\ IF tree[p] = "none" \/ (client[c].kind = "delete" /\ tree[p] = "dir" /\ Children(p) # {}) THEN Fail(c)
       ELSE /\ tree' = [q \in Tree |-> IF Under(p, q) THEN "none" ELSE tree[q]]
            /\ Answer(c, "ok") /\ UNCHANGED <<env, ops>>

Searched(p) == IsFile(p) /\ tree[p] # "opaque" /\ p \notin Hidden
Matches(p) == IF Searched(p) THEN Lines[tree[p]] ELSE 0

\* Mutant of SearchFile: the file that fills the results ends the search unmarked.
SearchFileUnmarked(c) ==
    /\ At(c, {"search"}, "act") /\ client[c].work # {} /\ client[c].total < Results
    /\ \E p \in client[c].work :
         LET found == Matches(p) IN
         client' = [client EXCEPT ![c].total = @ + (IF found > 0 THEN 1 ELSE 0),
             ![c].hits = IF found > 0 THEN @ \cup {p} ELSE @,
             ![c].work = IF client[c].total + found >= Results THEN {} ELSE @ \ {p}]
    /\ UNCHANGED <<env, tree, ops>>

\* search_content reads one file of the walk after the other, passes over what is
\* opaque without a word, and stops at the first line it looks at with the results
\* full, be it a match or not; files without lines end nothing.
SearchFile(c) ==
    /\ At(c, {"search"}, "act") /\ client[c].work # {} /\ ~client[c].truncated
    /\ \E p \in client[c].work, line \in BOOLEAN :
         LET found == Matches(p)
             room == IF client[c].total >= Results THEN 0 ELSE Results - client[c].total
         IN
         /\ line => Searched(p) /\ found >= room
         /\ client' = [client EXCEPT ![c].work = @ \ {p},
                ![c].total = @ + IF found > room THEN room ELSE found,
                ![c].hits = IF found > 0 /\ room > 0 THEN @ \cup {p} ELSE @,
                ![c].truncated = found > room \/ line]
         /\ UNCHANGED <<env, tree, ops>>

SearchEnds(c) ==
    /\ At(c, {"search"}, "act") /\ (client[c].work = {} \/ client[c].truncated)
    /\ Answer(c, "ok") /\ UNCHANGED <<env, tree, ops>>

Step(c) == Check(c) \/ MakeParents(c) \/ WriteOut(c) \/ Rename(c) \/ CopyEntry(c) \/ CopyEnds(c)
           \/ Delete(c) \/ SearchFile(c) \/ SearchEnds(c)

Next == \/ \E c \in Clients, kind \in Kinds, from \in Accepted :
              \E to \in IF kind \in {"rename", "copy"} THEN Accepted ELSE {from},
                 text \in IF kind \in {"write", "create"} THEN Contents ELSE {"plain"} :
                  Begin(c, kind, from, to, text)
        \/ \E c \in Clients : Step(c)

Spec == Init /\ [][Next]_vars
-----------------------------------------------------------------------------
TypeOK ==
    /\ env \in {"Local", "Wsl"} /\ ops \in 0..MaxOps
    /\ tree \in [Tree -> {"none", "dir"} \cup Contents]
    /\ client \in [Clients -> [kind : Kinds \cup {"none"}, from : Tree \cup {<<>>}, to : Tree \cup {<<>>},
                               text : Contents, step : {"none", "check", "parents", "act", "ok", "error"},
                               work : SUBSET (Tree \cup (Seq(Names) \X Seq(Names))), alone : BOOLEAN,
                               total : 0..Results, hits : SUBSET Tree, truncated : BOOLEAN]]

\* A copy that nothing disturbed and that says it succeeded has left, at its
\* target, everything there is at or below its source, also where it merged with a
\* directory that was there (copy_dir_recursive).  A file copied onto itself is
\* truncated instead, and a copy of a directory to a directory above it may add to
\* its own source what it has read already.
CopyIsComplete ==
    [][\A c \in Clients :
          At(c, {"copy"}, "act") /\ client'[c].step = "ok" /\ client[c].alone
              /\ ~Under(client[c].to, client[c].from)
          => \A p \in Tree : Under(client[c].from, p) /\ tree[p] # "none"
                => \E q \in Tree : /\ q = client[c].to \o SubSeq(p, Len(client[c].from) + 1, Len(p))
                                   /\ tree[q] = tree[p]]_vars

\* A search that nothing disturbed and that does not say it was cut off lists
\* every file with a match that it looks into (search_content counts lines across files).
UncutSearchIsComplete ==
    [][\A c \in Clients :
          At(c, {"search"}, "act") /\ client'[c].step = "ok" /\ ~client[c].truncated /\ client[c].alone
              => \A p \in Tree : Matches(p) > 0 => p \in client[c].hits]_vars

(* What a reader would take for granted and the code does not keep. *)

\* A list that is not marked as truncated is all there is: but a file that is large,
\* binary, not UTF-8, unreadable or ignored is left out without a mark.
UnmarkedSearchIsWhole ==
    [][\A c \in Clients :
          At(c, {"search"}, "act") /\ client'[c].step = "ok" /\ ~client[c].truncated /\ client[c].alone
              => \A p \in Tree : IsFile(p) /\ Lines[tree[p]] > 0 => p \in client[c].hits]_vars

\* create_file refuses a path that "already exists": but on the host another command
\* takes the name between the look and the write, which replaces its file.
CreateKeepsFiles ==
    [][\A c \in Clients : At(c, {"create"}, "act") /\ client'[c].step = "ok"
          => ~IsFile(client[c].to)]_vars
=============================================================================
