----------------------------- MODULE Workspace -----------------------------
(***************************************************************************)
(* Projects, worktrees and actions: their aggregates (domain/project.rs,    *)
(* worktree.rs, action.rs), the commands that write them                    *)
(* (tauri_commands/project.rs, worktree.rs, action.rs), their rows in the   *)
(* read model (infra/projections.rs) and the git worktrees on disk          *)
(* (crates/oxyris-git/src/worktree.rs).                                     *)
(*                                                                         *)
(* Commands are the writers of the event store and use its actions.  The    *)
(* commands on projects and actions are synchronous: the shell runs them on *)
(* its main thread, one after the other.  Those on worktrees are tasks that *)
(* wait for git, and interleave with everything.  A command appends, and    *)
(* applies to the read model in a step of its own; the application may end  *)
(* between the two, and the read model is not rebuilt.                      *)
(*                                                                         *)
(* An id of a worktree is its time stamp in milliseconds (UUID v7).  A      *)
(* branch is left out of a worktree, all but whether its HEAD can be read;  *)
(* a place is a directory, the one of a worktree made here is its name.     *)
(***************************************************************************)
EXTENDS EventStore, FiniteSets

CONSTANTS
    Projects, Worktrees, Actions,   \* ids; Worktrees is a set of numbers
    Names,          \* names of worktrees
    Outside,        \* a directory outside the project
    Labels,         \* names, workspaces, logos, sort keys, commands
    Fields,         \* the fields of a project that are set
    Blank,          \* a text of blanks, or a sort key that is not finite
    Epoch,          \* the sort key a row starts with
    None,
    MaxSpent, MaxOutside, MaxCrashes    \* bounds: all in all, by hand, and restarts

VARIABLES
    row,        \* the read model: a row per aggregate, or None
    admin,      \* .git/worktrees: the place of each name, or None
    trees,      \* the places there is a directory at
    calls,      \* the command of each writer
    torn,       \* aggregates with an event the read model has missed
    spent       \* what has been used of each bound

disk == <<admin, trees>>
store == <<table, writer>>
wvars == <<store, row, disk, calls, torn, spent>>

AllAggregates == Projects \cup Worktrees \cup Actions
Places == Names \cup {Outside}
Values == Labels \cup {Blank}
NoCall == [op |-> "none", agg |-> None, field |-> None, val |-> None, at |-> "none",
           found |-> {}, todo |-> {}]
-----------------------------------------------------------------------------
(* The aggregates: decide and apply.                                          *)

Event(kind, field, val) == [kind |-> kind, field |-> field, val |-> val]
WorktreeData(p, n, place) == [project |-> p, name |-> n, place |-> place, removed |-> FALSE]
WorkspaceEvents ==
    {Event("Created", "name", v) : v \in Labels}
    \cup {Event("Set", f, v) : f \in Fields \cup {"name"}, v \in Labels \cup {None}}
    \cup {Event("WorktreeCreated", None, WorktreeData(p, n, place)) :
             p \in Projects, n \in Names, place \in Places}
    \cup {Event("Registered", None, v) : v \in Labels}
    \cup {Event("Updated", None, v) : v \in Labels}
    \cup {Event("Deleted", None, None), Event("Removed", None, None)}

\* No id is of two kinds, a project has a sort key, a worktree's name is not blank
\* (worktree_create trims it and refuses an empty one; git keeps none either), and no row
\* is the lack of one.
ASSUME WorkspaceAssumption ==
    /\ Aggregates = AllAggregates /\ WorkspaceEvents \subseteq Events
    /\ Projects \cap Worktrees = {} /\ Projects \cap Actions = {} /\ Worktrees \cap Actions = {}
    /\ "sort" \in Fields /\ Blank \notin Names
    /\ None \notin [Fields \cup {"name"} -> Labels \cup {None, Epoch}]
    /\ None \notin [project : Projects, name : Names, place : Places, removed : BOOLEAN]
    /\ None \notin [command : Labels, removed : BOOLEAN]

Refused == [ok |-> FALSE, events |-> <<>>]
Decided(events) == [ok |-> TRUE, events |-> events]

Normalized(val) == IF val = Blank THEN None ELSE val
DecideProject(st, c) ==
    LET v == Normalized(c.val)
        mayBeBlank == c.field \notin {"name", "sort"}
    IN IF (c.op = "project_create") # (st = None) \/ (v = None /\ ~mayBeBlank) THEN Refused
       ELSE IF c.op = "project_create" THEN Decided(<<Event("Created", "name", v)>>)
       ELSE IF c.op = "project_delete" THEN Decided(<<Event("Deleted", None, None)>>)
       ELSE Decided(IF st[c.field] = v THEN <<>> ELSE <<Event("Set", c.field, v)>>)

\* Mutant of DecideWorktree: a worktree that was removed is removed again.
DecideWorktreeTwice(st, c) ==
    IF c.op = "worktree_remove"
    THEN IF st = None THEN Refused ELSE Decided(<<Event("Removed", None, None)>>)
    ELSE IF st # None \/ c.val.name = Blank THEN Refused
    ELSE Decided(<<Event("WorktreeCreated", None, c.val)>>)

DecideWorktree(st, c) ==
    IF c.op = "worktree_remove"
    THEN IF st = None \/ st.removed THEN Refused ELSE Decided(<<Event("Removed", None, None)>>)
    ELSE IF st # None \/ c.val.name = Blank THEN Refused
    ELSE Decided(<<Event("WorktreeCreated", None, c.val)>>)

DecideAction(st, c) ==
    IF c.op = "action_register"
    THEN IF st # None \/ c.val = Blank THEN Refused ELSE Decided(<<Event("Registered", None, c.val)>>)
    ELSE IF st = None \/ st.removed THEN Refused
    ELSE IF c.op = "action_delete" THEN Decided(<<Event("Removed", None, None)>>)
    ELSE IF c.val = Blank THEN Refused ELSE Decided(<<Event("Updated", None, c.val)>>)

Decide(st, c) ==
    IF c.agg \in Projects THEN DecideProject(st, c)
    ELSE IF c.agg \in Worktrees THEN DecideWorktree(st, c)
    ELSE DecideAction(st, c)

NewProject(name) == [f \in Fields \cup {"name"} |-> IF f = "name" THEN name ELSE None]
ApplyToProject(st, e) ==
    CASE e.kind = "Created" -> NewProject(e.val)
      [] e.kind = "Set"     -> IF st = None THEN None ELSE [st EXCEPT ![e.field] = e.val]
      [] e.kind = "Deleted" -> None
ApplyToWorktree(st, e) ==
    IF e.kind = "WorktreeCreated" THEN e.val
    ELSE IF st = None THEN None ELSE [st EXCEPT !.removed = TRUE]
ApplyToAction(st, e) ==
    IF e.kind = "Registered" THEN [command |-> e.val, removed |-> FALSE]
    ELSE IF st = None THEN None
    ELSE IF e.kind = "Updated" THEN [st EXCEPT !.command = e.val] ELSE [st EXCEPT !.removed = TRUE]
Applied(a, st, e) ==
    IF a \in Projects THEN ApplyToProject(st, e)
    ELSE IF a \in Worktrees THEN ApplyToWorktree(st, e)
    ELSE ApplyToAction(st, e)
Replay(a, rows) ==
    LET state[v \in 0..Len(rows)] == IF v = 0 THEN None ELSE Applied(a, state[v - 1], rows[v])
    IN state[Len(rows)]
-----------------------------------------------------------------------------
(* The read model: INSERT OR REPLACE, UPDATE (of no row when there is none), DELETE. *)

\* Mutant of ProjectRow: COALESCE in the UPDATE, a field is never cleared.
ProjectRowCoalesced(r, e) ==
    CASE e.kind = "Created" -> [NewProject(e.val) EXCEPT !["sort"] = Epoch]
      [] e.kind = "Set"     -> IF r = None \/ e.val = None THEN r ELSE [r EXCEPT ![e.field] = e.val]
      [] e.kind = "Deleted" -> None

\* A project is sorted by its creation until it is given another key.
ProjectRow(r, e) ==
    CASE e.kind = "Created" -> [NewProject(e.val) EXCEPT !["sort"] = Epoch]
      [] e.kind = "Set"     -> IF r = None THEN None ELSE [r EXCEPT ![e.field] = e.val]
      [] e.kind = "Deleted" -> None
WorktreeRow(r, e) ==
    IF e.kind = "WorktreeCreated" THEN e.val
    ELSE IF r = None THEN None ELSE [r EXCEPT !.removed = TRUE]
ActionRow(r, e) ==
    IF e.kind = "Registered" THEN [command |-> e.val, removed |-> FALSE]
    ELSE IF r = None THEN None
    ELSE IF e.kind = "Updated" THEN [r EXCEPT !.command = e.val] ELSE [r EXCEPT !.removed = TRUE]
AppliedRow(a, e) ==
    IF a \in Projects THEN ProjectRow(row[a], e)
    ELSE IF a \in Worktrees THEN WorktreeRow(row[a], e)
    ELSE ActionRow(row[a], e)
-----------------------------------------------------------------------------
(* Commands.                                                                  *)

WInit ==
    /\ Init
    /\ row = [a \in AllAggregates |-> None]
    /\ admin = [n \in Names |-> None] /\ trees = {}
    /\ calls = [w \in Writers |-> NoCall]
    /\ torn = {}
    /\ spent = [all |-> 0, outside |-> 0, crashes |-> 0]

SyncOps == {"project_create", "project_set", "project_delete",
            "action_register", "action_update", "action_delete"}
MainThreadFree == \A w \in Writers : calls[w].op \notin SyncOps
Unused(ids) == {a \in ids : table[a] = NoRows /\ \A w \in Writers : writer[w] = Idle \/ writer[w].agg # a}
\* Uuid::now_v7: later than any id that was made before.
Minted(i) == i \in Unused(Worktrees) /\ \A j \in Worktrees \ Unused(Worktrees) : j < i
IsShown(a) == IF a \in Projects \/ row[a] = None THEN row[a] # None ELSE ~row[a].removed

Begin(w, c) ==
    /\ calls[w] = NoCall /\ spent.all < MaxSpent
    /\ spent' = [spent EXCEPT !.all = @ + 1]
    /\ calls' = [calls EXCEPT ![w] = c]
Move(w, at) == calls' = [calls EXCEPT ![w].at = at]
\* The import of a list goes on with the next worktree; any other command returns.
Return(w) ==
    calls' = [calls EXCEPT ![w] = IF @.op = "worktree_list" /\ @.at # "git"
                                  THEN [@ EXCEPT !.at = "import"] ELSE NoCall]
Call(op, a, field, val, at) ==
    [NoCall EXCEPT !.op = op, !.agg = a, !.field = field, !.val = val, !.at = at]

\* project_create: an id nobody has.
BeginProjectCreate(w) ==
    /\ MainThreadFree
    /\ \E v \in Values, p \in Unused(Projects) :
          Begin(w, Call("project_create", p, "name", v, "decide")) /\ Create(w, p)
    /\ UNCHANGED <<row, disk, torn>>
\* project_rename, _set_logo, _set_workspace, _reorder and _delete.
BeginProject(w) ==
    /\ MainThreadFree
    /\ \E p \in Projects :
          /\ IsShown(p) /\ Load(w, p)
          /\ \/ \E f \in Fields \cup {"name"}, v \in Values : Begin(w, Call("project_set", p, f, v, "decide"))
             \/ Begin(w, Call("project_delete", p, None, None, "decide"))
    /\ UNCHANGED <<row, disk, torn>>
\* action_upsert: of a new action, or of one there is.
BeginActionUpsert(w) ==
    /\ MainThreadFree
    /\ \E v \in Values :
          \/ \E a \in Unused(Actions) :
                Begin(w, Call("action_register", a, None, v, "decide")) /\ Create(w, a)
          \/ \E a \in Actions :
                IsShown(a) /\ Begin(w, Call("action_update", a, None, v, "decide")) /\ Load(w, a)
    /\ UNCHANGED <<row, disk, torn>>
BeginActionDelete(w) ==
    /\ MainThreadFree
    /\ \E a \in Actions :
          IsShown(a) /\ Begin(w, Call("action_delete", a, None, None, "decide")) /\ Load(w, a)
    /\ UNCHANGED <<row, disk, torn>>
\* worktree_create and worktree_list: find_project, then git.
BeginWorktreeCreate(w) ==
    /\ \E p \in Projects, n \in Names :
          IsShown(p) /\ Begin(w, Call("worktree_create", None, None, WorktreeData(p, n, n), "git"))
    /\ UNCHANGED <<store, row, disk, torn>>
BeginList(w) ==
    /\ \E p \in Projects : IsShown(p) /\ Begin(w, Call("worktree_list", p, None, None, "git"))
    /\ UNCHANGED <<store, row, disk, torn>>
\* worktree_remove: the aggregate is loaded before git is asked.
BeginRemove(w) ==
    /\ \E i \in Worktrees :
          /\ IsShown(i) /\ IsShown(row[i].project) /\ Load(w, i)
          /\ Begin(w, Call("worktree_remove", i, None, row[i].name, "git"))
    /\ UNCHANGED <<row, disk, torn>>

At(w, op, at) == calls[w].op = op /\ calls[w].at = at
\* The repository cannot be opened, or the agent does not answer.
GitFails(w) ==
    /\ calls[w].at = "git" /\ calls' = [calls EXCEPT ![w] = NoCall]
    /\ writer' = [writer EXCEPT ![w] = Idle]
    /\ UNCHANGED <<table, row, disk, torn, spent>>
\* create_worktree: libgit2 takes neither a name it knows nor a directory in use.
GitCreate(w) ==
    LET n == calls[w].val.name IN
    /\ At(w, "worktree_create", "git")
    /\ IF admin[n] # None \/ n \in trees
       THEN calls' = [calls EXCEPT ![w] = NoCall] /\ UNCHANGED <<writer, disk>>
       ELSE \E i \in Worktrees :
              /\ Minted(i) /\ Create(w, i)
              /\ admin' = [admin EXCEPT ![n] = n] /\ trees' = trees \cup {n}
              /\ calls' = [calls EXCEPT ![w].agg = i, ![w].at = "decide"]
    /\ UNCHANGED <<table, row, torn, spent>>
\* remove_worktree: no entry is no error; a directory in use stays, unnoticed.
GitRemove(w) ==
    LET n == calls[w].val IN
    /\ At(w, "worktree_remove", "git")
    /\ admin' = [admin EXCEPT ![n] = None]
    /\ trees' \in {trees, trees \ {admin[n]}}
    /\ Move(w, "decide")
    /\ UNCHANGED <<store, row, torn, spent>>

\* list_worktrees: without its directory, an entry has no branch.
GitList(w) ==
    /\ At(w, "worktree_list", "git")
    /\ calls' = [calls EXCEPT ![w].at = "known",
           ![w].found = {[project |-> calls[w].agg, name |-> n, place |-> admin[n],
                          head |-> admin[n] \in trees] : n \in {x \in Names : admin[x] # None}}]
    /\ UNCHANGED <<store, row, disk, torn, spent>>

Known(d) ==
    \E i \in Worktrees : /\ row[i] # None /\ row[i].project = d.project
                         /\ row[i].name = d.name \/ row[i].place = d.place
\* Mutant of ReadKnown: one worktree that is known ends the import.
ReadKnownStops(w) ==
    /\ At(w, "worktree_list", "known")
    /\ calls' = [calls EXCEPT ![w].at = "import",
           ![w].todo = {d \in calls[w].found : \A e \in calls[w].found : ~Known(e)}]
    /\ UNCHANGED <<store, row, disk, torn, spent>>

\* reconcile_existing_worktrees: rows of removed worktrees are known ones too.
ReadKnown(w) ==
    /\ At(w, "worktree_list", "known")
    /\ calls' = [calls EXCEPT ![w].at = "import",
           ![w].todo = {d \in calls[w].found : ~Known(d)}]
    /\ UNCHANGED <<store, row, disk, torn, spent>>
\* One worktree of the import: without a branch, `decide` refuses it.
ImportNext(w) ==
    /\ At(w, "worktree_list", "import")
    /\ \E d \in calls[w].todo :
          LET c == [calls[w] EXCEPT !.todo = @ \ {d}] IN
          IF ~d.head THEN calls' = [calls EXCEPT ![w] = c] /\ UNCHANGED writer
          ELSE \E i \in Worktrees :
                 /\ Minted(i) /\ Create(w, i)
                 /\ calls' = [calls EXCEPT ![w] =
                        [c EXCEPT !.agg = i, !.at = "decide",
                                  !.val = WorktreeData(d.project, d.name, d.place)]]
    /\ UNCHANGED <<table, row, disk, torn, spent>>
ListReturns(w) ==
    /\ At(w, "worktree_list", "import") /\ calls[w].todo = {}
    /\ calls' = [calls EXCEPT ![w] = NoCall]
    /\ UNCHANGED <<store, row, disk, torn, spent>>

\* `decide` on what was loaded, then append: the second half of every command.
Decision(w) == Decide(Replay(calls[w].agg, writer[w].seen), calls[w])
DecideNothing(w) ==
    /\ calls[w].at = "decide" /\ Decision(w).events = <<>>
    /\ Release(w) /\ Return(w)
    /\ UNCHANGED <<row, disk, torn, spent>>
DecideAppends(w) ==
    /\ calls[w].at = "decide"
    /\ AppendEvents(w, Decision(w).events, FALSE) /\ Move(w, "apply")
    /\ UNCHANGED <<row, disk, torn, spent>>
DecideConflicts(w) ==
    /\ calls[w].at = "decide"
    /\ AppendConflicts(w, Decision(w).events) /\ Return(w)
    /\ UNCHANGED <<row, disk, torn, spent>>
\* The stored event goes to the read model, in the writer's own order.
ApplyRow(w) ==
    LET a == calls[w].agg IN
    /\ calls[w].at = "apply"
    /\ row' = [row EXCEPT ![a] = AppliedRow(a, table[a][HeadVersion(table[a])])]
    /\ Return(w)
    /\ UNCHANGED <<store, disk, torn, spent>>
-----------------------------------------------------------------------------
(* The application ends, and the user works on the repository by hand.        *)

Restart ==
    /\ spent.all < MaxSpent /\ spent.crashes < MaxCrashes
    /\ spent' = [spent EXCEPT !.all = @ + 1, !.crashes = @ + 1]
    /\ calls' = [w \in Writers |-> NoCall] /\ writer' = [w \in Writers |-> Idle]
    /\ torn' = torn \cup {calls[w].agg : w \in {v \in Writers : calls[v].at = "apply"}}
    /\ UNCHANGED <<table, row, disk>>
ByHand ==
    /\ spent.all < MaxSpent /\ spent.outside < MaxOutside
    /\ spent' = [spent EXCEPT !.all = @ + 1, !.outside = @ + 1]
    /\ UNCHANGED <<store, row, calls, torn>>
HandRemovesTree == ByHand /\ \E place \in trees : trees' = trees \ {place} /\ UNCHANGED admin
HandAddsWorktree ==
    /\ ByHand
    /\ \E n \in Names, place \in Places :
          /\ admin[n] = None /\ place \notin trees
          /\ admin' = [admin EXCEPT ![n] = place] /\ trees' = trees \cup {place}
HandPrunes ==
    /\ ByHand /\ \E n \in Names : /\ admin[n] # None /\ admin[n] \notin trees
                                  /\ admin' = [admin EXCEPT ![n] = None]
    /\ UNCHANGED trees

CommandStep(w) ==
    \/ BeginProjectCreate(w) \/ BeginProject(w) \/ BeginActionUpsert(w) \/ BeginActionDelete(w)
    \/ BeginWorktreeCreate(w) \/ BeginList(w) \/ BeginRemove(w)
    \/ GitFails(w) \/ GitCreate(w) \/ GitRemove(w) \/ GitList(w)
    \/ ReadKnown(w) \/ ImportNext(w) \/ ListReturns(w)
    \/ DecideNothing(w) \/ DecideAppends(w) \/ DecideConflicts(w) \/ ApplyRow(w)
WorkspaceNext ==
    (\E w \in Writers : CommandStep(w)) \/ HandRemovesTree \/ HandAddsWorktree \/ HandPrunes
-----------------------------------------------------------------------------
(* Properties.                                                                *)

RowOf(a, st) ==
    IF a \in Projects /\ st # None /\ st["sort"] = None THEN [st EXCEPT !["sort"] = Epoch] ELSE st

\* Type invariant of the store, the disk and the commands: a writer holds an aggregate
\* just while its command decides, or waits for git to remove a worktree.
WTypeOK ==
    /\ TypeOK
    /\ admin \in [Names -> Places \cup {None}] /\ trees \subseteq Places
    /\ torn \subseteq AllAggregates
    /\ \A w \in Writers :
          /\ calls[w].at \in {"none", "git", "known", "import", "decide", "apply"} \/ calls[w].agg \in Worktrees
          /\ writer[w] # Idle <=> calls[w].at = "decide" \/ At(w, "worktree_remove", "git")
          /\ writer[w] # Idle => writer[w].agg = calls[w].agg

\* Whatever order the commands run in, a log starts with its creation, holds no other
\* one, and nothing follows the event that ends it: of two removals one conflicts.
LogsAreLawful ==
    \A a \in AllAggregates : \A v \in 1..Len(table[a]) :
        /\ v = 1 <=> table[a][v].kind \in {"Created", "WorktreeCreated", "Registered"}
        /\ table[a][v].kind \in {"Deleted", "Removed"} => v = Len(table[a])

\* The row of an aggregate is what its log says, unless the event has yet to be applied,
\* or the application ended before it was: commands apply in the order they appended.
RowsMatchLog ==
    \A a \in AllAggregates :
        \/ a \in torn
        \/ \E w \in Writers : calls[w].agg = a /\ calls[w].at = "apply"
        \/ row[a] = RowOf(a, Replay(a, table[a]))

\* When worktree_list returns, every worktree git has listed with a branch has a row
\* in the read model, under its name or its place.
ImportIsComplete ==
    [][\A w \in Writers :
         At(w, "worktree_list", "import") /\ calls'[w] = NoCall /\ spent'.crashes = spent.crashes =>
             \A d \in calls[w].found : d.head => Known(d)]_wvars

\* A worktree that is removed takes only its own checkout with it.  (It does not hold:
\* the checkout goes by its name, and a newer worktree may have the name by then.)
RemoveSparesOthers ==
    [][\A w \in Writers : At(w, "worktree_remove", "git") /\ disk' # disk =>
           \A i \in Worktrees \ {calls[w].agg} : ~(IsShown(i) /\ row[i].place = admin[calls[w].val])]_wvars
==============================================================================
