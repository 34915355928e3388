----------------------------- MODULE SymbolIndex -----------------------------
(* The per-worktree symbol index and the watcher that keeps it current: the     *)
(* directory watcher (crates/oxyris-watch), the services that start it          *)
(* (infra/fs_watcher.rs), the SQLite index (crates/oxyris-index), its           *)
(* orchestration on Windows (infra/indexing.rs) and inside a distro             *)
(* (apps/agent/src/ops/index.rs), and the commands (tauri_commands/indexing.rs).*)
(* A root has two directories, itself and "sub"; ignored and generated paths    *)
(* never reach the index and are left out.  A file's content is its symbol.     *)
EXTENDS Naturals, FiniteSets

CONSTANTS
    Roots,       \* worktree roots
    KeyOf,       \* the worktree id a root is addressed by
    Paths,       \* indexable files
    DirOf,       \* [Paths -> {"root", "sub"}]
    Contents,    \* contents, by the symbol they declare
    Huge,        \* a content above MAX_FILE_BYTES
    Tasks, Watchers, Listings,   \* blocking tasks, DirWatchers and directory listings
    MaxEdits, MaxTime, MaxRestarts, MaxWalks,   \* bounds
    None

ASSUME IndexAssumption ==
    /\ DirOf \in [Paths -> {"root", "sub"}]
    /\ Huge \notin Contents /\ None \notin Roots \cup Paths \cup Contents \cup Watchers
    /\ None \notin {Huge, "batch", "rebuild"}
    /\ "sub" \notin Paths
    /\ {MaxEdits, MaxTime, MaxRestarts, MaxWalks} \subseteq Nat

Keys == {KeyOf[r] : r \in Roots}
Absent == [c |-> None, m |-> 0]    \* no such file, no such row
Live == {"root", "sub"}

VARIABLES
    env,       \* env[r]: where the project of r lives; it never changes
    fs,        \* fs[r][p]: content and mtime, in whole seconds (mtime_secs)
    subdir,    \* roots whose directory "sub" exists
    now,
    db,        \* db[r][p]: the row of the index under r
    open,      \* open[k]: the root whose index the key answers from, or None
    watcher,   \* watcher[w]: its root, the dirs it believes and really has watched
    watchOf,   \* watchOf[k]: the watcher registered for the key
    task,      \* task[t]: walk root, target index, files to do, file in hand and what is
               \* known of it; older: who held it already, passed: who came later is done
    listing,   \* listing[l]: a directory listing inside FsWatchService::ensure
    noticed,   \* noticed[r][p]: the last change to p is known to a watcher or task
    last,      \* last[r][p]: the second of the last write, twice: also that of the one before
    overtaken, \* overtaken[r][p]: the row was stored by a task another one had passed
    answer,    \* the last query: the root asked for and the root that answered
    edits, restarts, walks

vars == <<env, fs, subdir, now, db, open, watcher, watchOf, task, listing, noticed, last, overtaken,
          answer, edits, restarts, walks>>
disk == <<env, fs, subdir, now, last, edits>>
services == <<open, watchOf, listing, restarts, walks>>

\* The open indexes are kept by worktree id on Windows, by root in the agent.
Handle(r) == IF env[r] = "Local" THEN KeyOf[r] ELSE r

NoWatcher == [live |-> FALSE, root |-> None, watched |-> {}, os |-> {}, pending |-> {}]
NoTask == [kind |-> None, root |-> None, db |-> None, todo |-> {}, hand |-> None, step |-> "next",
           seen |-> Absent, older |-> {}, passed |-> FALSE]

Init ==
    /\ env \in [Roots -> {"Local", "Wsl"}]
    /\ fs \in [Roots -> [Paths -> {Absent} \cup [c : Contents, m : {0}]]]
    /\ subdir = {r \in Roots : \E p \in Paths : DirOf[p] = "sub" /\ fs[r][p] # Absent}
    /\ now = 1
    /\ db = [r \in Roots |-> [p \in Paths |-> Absent]]
    /\ open = [k \in Keys \cup Roots |-> None]
    /\ watcher = [w \in Watchers |-> NoWatcher]
    /\ watchOf = [k \in Keys |-> None]
    /\ task = [t \in Tasks |-> NoTask]
    /\ listing = [l \in Listings |-> None]
    /\ noticed = [r \in Roots |-> [p \in Paths |-> FALSE]]
    /\ last = [r \in Roots |-> [p \in Paths |-> [at |-> 0, twice |-> FALSE]]]
    /\ overtaken = [r \in Roots |-> [p \in Paths |-> FALSE]]
    /\ answer = [asked |-> None, from |-> None]
    /\ edits = 0 /\ restarts = 0 /\ walks = 0
-----------------------------------------------------------------------------
(* The file system and the OS watches *)

Tick == now < MaxTime /\ now' = now + 1
        /\ UNCHANGED <<env, fs, subdir, last, db, watcher, task, noticed, overtaken, answer, edits>>
        /\ UNCHANGED services

Watching(r, dir) == {w \in Watchers : watcher[w].live /\ watcher[w].root = r /\ dir \in watcher[w].os}

\* The notify callback puts what it is told into the pending set of each watcher.
Notify(r, told, lostDirs) ==
    watcher' = [w \in Watchers |->
        IF ~watcher[w].live \/ watcher[w].root # r THEN watcher[w]
        ELSE [watcher[w] EXCEPT
                 !.pending = @ \cup {e \in told : (IF e = "sub" THEN "root" ELSE DirOf[e]) \in watcher[w].os},
                 !.os = @ \ lostDirs]]

Changed(r, ps) ==
    noticed' = [noticed EXCEPT ![r] =
        [p \in Paths |-> IF p \in ps THEN Watching(r, DirOf[p]) # {} ELSE @[p]]]

Edit == edits < MaxEdits /\ edits' = edits + 1
        /\ UNCHANGED <<env, now, db, task, overtaken, answer>> /\ UNCHANGED services

\* Writing the first file of "sub" creates the directory, which only the parent's
\* watch reports.
WriteFile(r, p, c) ==
    LET new == DirOf[p] = "sub" /\ r \notin subdir IN
    /\ Edit
    /\ fs[r][p].c # c
    /\ fs' = [fs EXCEPT ![r][p] = [c |-> c, m |-> now]]
    /\ last' = [last EXCEPT ![r][p] = [at |-> now, twice |-> @.at = now]]
    /\ subdir' = IF DirOf[p] = "sub" THEN subdir \cup {r} ELSE subdir
    /\ IF new THEN Notify(r, {"sub"}, {}) ELSE Notify(r, {p}, {})
    /\ Changed(r, {p})

DeleteFile(r, p) ==
    /\ Edit
    /\ fs[r][p] # Absent
    /\ fs' = [fs EXCEPT ![r][p] = Absent]
    /\ Notify(r, {p}, {})
    /\ Changed(r, {p})
    /\ UNCHANGED <<subdir, last>>

\* Removed file by file, or moved away at once: then nothing tells of the files.
RemoveSub(r, moved) ==
    LET gone == {p \in Paths : DirOf[p] = "sub" /\ fs[r][p] # Absent} IN
    /\ Edit
    /\ r \in subdir
    /\ subdir' = subdir \ {r}
    /\ fs' = [fs EXCEPT ![r] = [p \in Paths |-> IF p \in gone THEN Absent ELSE @[p]]]
    /\ Notify(r, {"sub"} \cup IF moved THEN {} ELSE gone, {"sub"})
    /\ IF moved
       THEN noticed' = [noticed EXCEPT ![r] = [p \in Paths |-> @[p] /\ p \notin gone]]
       ELSE Changed(r, gone)
    /\ UNCHANGED last
-----------------------------------------------------------------------------
(* Watchers *)

DirsOf(r) == {"root"} \cup IF r \in subdir THEN {"sub"} ELSE {}

\* What was known only to a watcher that is dropped is known no more.
Forgotten(ws) ==
    [r \in Roots |-> [p \in Paths |->
        noticed[r][p] /\ \/ \A w \in ws : watcher[w].root # r \/ p \notin watcher[w].pending
                         \/ \E w \in Watchers \ ws : watcher[w].root = r /\ p \in watcher[w].pending
                         \/ \E t \in Tasks : task[t].kind = "batch" /\ task[t].root = r /\ p \in task[t].todo]]

Start(w, r) == [live |-> TRUE, root |-> r, watched |-> DirsOf(r), os |-> DirsOf(r), pending |-> {}]

\* FsWatchService::ensure looks under the lock, lets go of it, starts a watcher ...
EnsureLook(l, r) ==
    /\ env[r] = "Local" /\ listing[l] = None /\ watchOf[KeyOf[r]] = None
    /\ listing' = [listing EXCEPT ![l] = r]
    /\ UNCHANGED <<db, open, watcher, watchOf, task, noticed, overtaken, answer, restarts, walks>>
    /\ UNCHANGED disk

\* Mutant of EnsureInstall: the watcher another listing inserted meanwhile runs on.
EnsureInstallKeeps(l) ==
    LET r == listing[l] IN
    /\ r # None
    /\ \E w \in Watchers :
          /\ watcher[w] = NoWatcher
          /\ watcher' = [watcher EXCEPT ![w] = Start(w, r)]
          /\ watchOf' = [watchOf EXCEPT ![KeyOf[r]] = w]
    /\ listing' = [listing EXCEPT ![l] = None]
    /\ UNCHANGED <<db, open, task, noticed, overtaken, answer, restarts, walks>> /\ UNCHANGED disk

\* ... and inserts it; a watcher another listing inserted meanwhile is dropped.
EnsureInstall(l) ==
    LET r == listing[l]  old == {watchOf[KeyOf[r]]} \ {None} IN
    /\ r # None
    /\ \E w \in Watchers :
          /\ watcher[w] = NoWatcher
          /\ watcher' = [x \in Watchers |-> IF x = w THEN Start(w, r)
                                            ELSE IF x \in old THEN [watcher[x] EXCEPT !.live = FALSE, !.pending = {}]
                                            ELSE watcher[x]]
          /\ watchOf' = [watchOf EXCEPT ![KeyOf[r]] = w]
    /\ noticed' = Forgotten(old)
    /\ listing' = [listing EXCEPT ![l] = None]
    /\ UNCHANGED <<db, open, task, overtaken, answer, restarts, walks>> /\ UNCHANGED disk

\* start_watch in the agent, one per armed worktree (WslFsWatchService::ensure).
StartWatch(r) ==
    /\ env[r] = "Wsl" /\ watchOf[KeyOf[r]] = None
    /\ \E w \in Watchers :
          /\ watcher[w] = NoWatcher
          /\ watcher' = [watcher EXCEPT ![w] = Start(w, r)]
          /\ watchOf' = [watchOf EXCEPT ![KeyOf[r]] = w]
    /\ UNCHANGED <<db, open, task, listing, noticed, overtaken, answer, restarts, walks>>
    /\ UNCHANGED disk

\* watch_subtree of a directory that is not watched yet reports the files in it.
InSub(r) == {p \in Paths : DirOf[p] = "sub" /\ fs[r][p] # Absent}

Idle(t) == task[t] = NoTask
Begin(t, kind, r, k, ps) ==
    task' = [task EXCEPT ![t] = [NoTask EXCEPT !.kind = kind, !.root = r, !.db = k, !.todo = ps]]

\* apply_local_changes opens the index of its worktree; the agent's apply_changes
\* updates only an index that is open.
Target(r) == IF env[r] = "Local" /\ open[Handle(r)] = None THEN r ELSE open[Handle(r)]

\* One round of drain_loop and the sink it feeds.
Drain(w) ==
    LET r == watcher[w].root
        fresh == "sub" \in watcher[w].pending /\ r \in subdir /\ "sub" \notin watcher[w].watched
        emit == (watcher[w].pending \ {"sub"}) \cup IF fresh THEN InSub(r) ELSE {}
    IN
    /\ watcher[w].live /\ watcher[w].pending # {}
    /\ watcher' = [watcher EXCEPT ![w] =
           [watcher[w] EXCEPT !.pending = {}, !.watched = @ \cup IF fresh THEN {"sub"} ELSE {},
                              !.os = @ \cup IF fresh THEN {"sub"} ELSE {}]]
    /\ IF emit = {} \/ Target(r) = None
       THEN /\ noticed' = [noticed EXCEPT ![r] = [p \in Paths |-> @[p] /\ p \notin emit]]
            /\ UNCHANGED <<task, open>>
       ELSE /\ \E t \in Tasks : Idle(t) /\ Begin(t, "batch", r, Target(r), emit)
            /\ open' = [open EXCEPT ![Handle(r)] = Target(r)]
            /\ noticed' = [noticed EXCEPT ![r] = [p \in Paths |-> @[p] \/ p \in emit]]
    /\ UNCHANGED <<db, watchOf, listing, overtaken, answer, restarts, walks>> /\ UNCHANGED disk
-----------------------------------------------------------------------------
(* Tasks: the batch of a watcher (process_change) and a full walk (rebuild) *)

Holders(r, p) == {t \in Tasks : task[t].root = r /\ task[t].hand = p}

\* Takes the next file, with the metadata it has now, unless it is skipped; of one that is
\* gone there is nothing to read.
Took(t, p, skip) ==
    LET r == task[t].root
        taken == IF skip THEN task[t]
                 ELSE [task[t] EXCEPT !.hand = p, !.step = IF fs[r][p] = Absent THEN "read" ELSE "opened",
                                      !.seen = [c |-> None, m |-> fs[r][p].m], !.older = Holders(r, p)]
    IN
    /\ p \in task[t].todo /\ task[t].hand = None
    /\ task' = [task EXCEPT ![t] = [taken EXCEPT !.todo = task[t].todo \ {p}]]
    /\ noticed' = [noticed EXCEPT ![r][p] = @ \/ (~skip /\ task[t].kind = "rebuild")]
    /\ UNCHANGED <<db, watcher, overtaken, answer>> /\ UNCHANGED services /\ UNCHANGED disk

InEnv(t, e) == task[t].root # None /\ env[task[t].root] = e
TooLarge(t, p) == fs[task[t].root][p].c = Huge

\* A file of a batch that may not be read keeps its row; a vanished one loses it.
\* Mutant of ProcessChange: a vanished file is skipped.
ProcessChangeOfFiles(t, p) ==
    /\ InEnv(t, "Local") /\ task[t].kind = "batch"
    /\ Took(t, p, TooLarge(t, p) \/ fs[task[t].root][p] = Absent)
ProcessChange(t, p) == InEnv(t, "Local") /\ task[t].kind = "batch" /\ Took(t, p, TooLarge(t, p))
AgentProcessChange(t, p) == InEnv(t, "Wsl") /\ task[t].kind = "batch" /\ Took(t, p, TooLarge(t, p))

\* A walk comes only upon files that exist.
WalkFile(t, p) ==
    /\ InEnv(t, "Local") /\ task[t].kind = "rebuild"
    /\ Took(t, p, fs[task[t].root][p] = Absent \/ TooLarge(t, p))
AgentWalkFile(t, p) ==
    /\ InEnv(t, "Wsl") /\ task[t].kind = "rebuild"
    /\ Took(t, p, fs[task[t].root][p] = Absent \/ TooLarge(t, p))

\* The file leaves the hand of t; when t is done with it, it has passed all that held it before.
PutDown(t, done) ==
    task' = [u \in Tasks |->
        IF u = t THEN [NoTask EXCEPT !.kind = task[t].kind, !.root = task[t].root, !.db = task[t].db,
                                     !.todo = task[t].todo]
        ELSE [task[u] EXCEPT !.older = @ \ {t}, !.passed = @ \/ (done /\ u \in task[t].older)]]

\* The content is read after the metadata; a file that went in between is left alone.
ReadContent(t) ==
    LET file == fs[task[t].root][task[t].hand] IN
    /\ task[t].step = "opened"
    /\ IF file = Absent THEN PutDown(t, FALSE)
       ELSE task' = [task EXCEPT ![t].seen.c = file.c, ![t].step = "read"]
    /\ UNCHANGED <<db, watcher, noticed, overtaken, answer>>
    /\ UNCHANGED services /\ UNCHANGED disk

SameMtime(t) ==
    LET row == db[task[t].db][task[t].hand] IN
    task[t].kind = "batch" /\ task[t].seen # Absent /\ row # Absent /\ row.m = task[t].seen.m

\* index_file_if_changed: a row with the same mtime is taken for current, ...
Unchanged(t) ==
    /\ task[t].step = "read" /\ SameMtime(t)
    /\ PutDown(t, TRUE)
    /\ overtaken' = [overtaken EXCEPT ![task[t].root][task[t].hand] = @ /\ task[t].passed]
    /\ UNCHANGED <<db, watcher, noticed, answer>>
    /\ UNCHANGED services /\ UNCHANGED disk

\* ... any other file is parsed, with the lock of the database let go.
Parse(t) ==
    /\ task[t].step = "read" /\ ~SameMtime(t)
    /\ task' = [task EXCEPT ![t].step = "parsed"]
    /\ UNCHANGED <<db, watcher, noticed, overtaken, answer>>
    /\ UNCHANGED services /\ UNCHANGED disk

\* upsert_file or remove_file, whatever happened to the file and its row meanwhile.
Store(t) ==
    /\ task[t].step = "parsed"
    /\ db' = [db EXCEPT ![task[t].db][task[t].hand] = task[t].seen]
    /\ PutDown(t, TRUE)
    /\ overtaken' = [overtaken EXCEPT ![task[t].root][task[t].hand] = task[t].passed]
    /\ UNCHANGED <<watcher, noticed, answer>>
    /\ UNCHANGED services /\ UNCHANGED disk

TaskEnds(t) ==
    /\ ~Idle(t) /\ task[t].todo = {} /\ task[t].hand = None
    /\ task' = [task EXCEPT ![t] = NoTask]
    /\ UNCHANGED <<db, watcher, noticed, overtaken, answer>>
    /\ UNCHANGED services /\ UNCHANGED disk
-----------------------------------------------------------------------------
(* Commands *)

Opened(r) == IF open[Handle(r)] = None THEN r ELSE open[Handle(r)]
Opens(r) == open' = [open EXCEPT ![Handle(r)] = Opened(r)]
Populated(r) == \E p \in Paths : db[Opened(r)][p] # Absent

\* index_rebuild walks the worktree, in a blocking task here ...
Walk(r) ==
    /\ walks < MaxWalks /\ walks' = walks + 1
    /\ \E t \in Tasks : Idle(t) /\ Begin(t, "rebuild", r, Opened(r), Paths)
    /\ Opens(r)
    /\ UNCHANGED <<db, watcher, watchOf, listing, noticed, overtaken, answer, restarts>>
    /\ UNCHANGED disk
RebuildLocal(r) == env[r] = "Local" /\ Walk(r)
\* ... or in the agent, which streams its progress back.
RebuildWsl(r) == env[r] = "Wsl" /\ Walk(r)
Rebuild(r) == RebuildLocal(r) \/ RebuildWsl(r)

\* An index that has files is taken for current.
EnsureIndexed(r) ==
    IF Populated(r)
    THEN /\ Opens(r)
         /\ UNCHANGED <<db, watcher, watchOf, task, listing, noticed, overtaken, answer, restarts, walks>>
         /\ UNCHANGED disk
    ELSE Rebuild(r)

\* worktree_ensure_ready warms the index in the background and arms the watch of a
\* WSL worktree; neither waits for the other.
EnsureReady(r) == EnsureIndexed(r) \/ StartWatch(r)

\* index_query_symbol and the other reads answer from whatever the handle has open.
Query(r) ==
    /\ answer' = [asked |-> r, from |-> Opened(r)]
    /\ Opens(r)
    /\ UNCHANGED <<db, watcher, watchOf, task, listing, noticed, overtaken, restarts, walks>>
    /\ UNCHANGED disk

\* The application, or the agent of a distro, goes away and comes back: watchers,
\* tasks and handles are lost, the database file stays.  A new build that changes
\* SCHEMA_VERSION wipes it (init_schema).
Restart(e, wipe) ==
    LET rs == {r \in Roots : env[r] = e}  ks == {KeyOf[r] : r \in rs}
        hs == {Handle(r) : r \in rs} IN
    /\ restarts < MaxRestarts /\ restarts' = restarts + 1
    /\ rs # {}
    /\ db' = [r \in Roots |-> IF r \in rs /\ wipe THEN [p \in Paths |-> Absent] ELSE db[r]]
    /\ open' = [k \in Keys \cup Roots |-> IF k \in hs THEN None ELSE open[k]]
    /\ watcher' = [w \in Watchers |-> IF watcher[w].root \in rs THEN NoWatcher ELSE watcher[w]]
    /\ watchOf' = [k \in Keys |-> IF k \in ks THEN None ELSE watchOf[k]]
    /\ task' = [t \in Tasks |-> IF task[t].root \in rs THEN NoTask ELSE task[t]]
    /\ listing' = [l \in Listings |-> IF listing[l] \in rs THEN None ELSE listing[l]]
    /\ noticed' = [r \in Roots |-> [p \in Paths |->
           noticed[r][p] /\ (r \notin rs \/ (~wipe /\ db[r][p] = fs[r][p]))]]
    /\ UNCHANGED <<overtaken, answer, walks>> /\ UNCHANGED disk
-----------------------------------------------------------------------------
TaskStep(t) == (\E p \in Paths : ProcessChange(t, p) \/ AgentProcessChange(t, p)
                                   \/ WalkFile(t, p) \/ AgentWalkFile(t, p))
               \/ ReadContent(t) \/ Unchanged(t) \/ Parse(t) \/ Store(t) \/ TaskEnds(t)

Next ==
    \/ Tick
    \/ \E r \in Roots, p \in Paths : DeleteFile(r, p) \/ \E c \in Contents \cup {Huge} : WriteFile(r, p, c)
    \/ \E r \in Roots, moved \in BOOLEAN : RemoveSub(r, moved)
    \/ \E l \in Listings, r \in Roots : EnsureLook(l, r)
    \/ \E l \in Listings : EnsureInstall(l)
    \/ \E r \in Roots : EnsureReady(r) \/ Rebuild(r) \/ Query(r)
    \/ \E w \in Watchers : Drain(w)
    \/ \E t \in Tasks : TaskStep(t)
    \/ \E e \in {"Local", "Wsl"}, wipe \in BOOLEAN : Restart(e, wipe)

Spec == Init /\ [][Next]_vars

-----------------------------------------------------------------------------
TypeOK ==
    /\ env \in [Roots -> {"Local", "Wsl"}]
    /\ db \in [Roots -> [Paths -> [c : Contents \cup {Huge, None}, m : Nat]]]
    /\ fs \in [Roots -> [Paths -> [c : Contents \cup {Huge, None}, m : Nat]]]
    /\ subdir \subseteq Roots /\ {now, edits, restarts, walks} \subseteq Nat
    /\ open \in [Keys \cup Roots -> Roots \cup {None}] /\ watchOf \in [Keys -> Watchers \cup {None}]
    /\ watcher \in [Watchers -> [live : BOOLEAN, root : Roots \cup {None}, watched : SUBSET Live,
                                 os : SUBSET Live, pending : SUBSET (Paths \cup {"sub"})]]
    /\ task \in [Tasks -> [kind : {None, "batch", "rebuild"}, root : Roots \cup {None},
                           db : Roots \cup {None}, todo : SUBSET Paths,
                           hand : Paths \cup {None}, step : {"next", "opened", "read", "parsed"},
                           seen : [c : Contents \cup {Huge, None}, m : Nat],
                           older : SUBSET Tasks, passed : BOOLEAN]]
    /\ listing \in [Listings -> Roots \cup {None}]
    /\ noticed \in [Roots -> [Paths -> BOOLEAN]] /\ overtaken \in [Roots -> [Paths -> BOOLEAN]]
    /\ last \in [Roots -> [Paths -> [at : Nat, twice : BOOLEAN]]]
    /\ answer \in [asked : Roots \cup {None}, from : Roots \cup {None}]

Quiet(r) == /\ \A w \in Watchers : watcher[w].live /\ watcher[w].root = r => watcher[w].pending = {}
            /\ \A t \in Tasks : task[t].root # r

Settled(r, p) == Quiet(r) /\ noticed[r][p] /\ fs[r][p].c # Huge /\ ~last[r][p].twice

\* Once nothing is left to do, the row of a file whose last change a watcher reported or a
\* walk met says what the file says, whatever watchers, batches, walks and restarts did side
\* by side.  The ways out are named: a file above the size limit keeps its old row, a second
\* write within the mtime's second is taken for none (index_file_if_changed), and a batch may
\* store what it read before another that has stored since (process_change).
SettledIndexIsCurrent ==
    \A r \in Roots, p \in Paths : Settled(r, p) /\ ~overtaken[r][p] => db[r][p] = fs[r][p]

\* A key's watcher is live, and no watcher outlives its place in the map, though
\* FsWatchService::ensure may run twice at once and the application restarts.
OneWatcherPerKey ==
    \A w \in Watchers : watcher[w].live <=> \E k \in Keys : watchOf[k] = w

(* Statements of the comments the code does not keep. *)

\* "Already populated - the watcher keeps it incremental from here" (ensure_indexed): no batch
\* stores an older version over a newer one, and none takes a second write within the same
\* second for the first.
WatcherKeepsCurrent ==
    \A r \in Roots, p \in Paths :
        Quiet(r) /\ noticed[r][p] /\ fs[r][p].c # Huge => db[r][p] = fs[r][p]

\* "Drops files that have disappeared" (IndexingService::rebuild): a walk that ends with
\* nothing else at work leaves no row of a file that is gone.
RebuildDropsVanished ==
    [][\A t \in Tasks, p \in Paths :
          task[t].kind = "rebuild" /\ TaskEnds(t) /\ (\A u \in Tasks \ {t} : Idle(u))
             /\ fs[task[t].root][p] = Absent => db[task[t].db][p] = Absent]_vars

\* "New directories created at runtime are picked up from their parent's watch"
\* (oxyris-watch): with nothing left to report, a directory that exists is watched.
NewDirIsWatched ==
    \A w \in Watchers : watcher[w].live /\ watcher[w].pending = {} /\ watcher[w].root \in subdir
        => "sub" \in watcher[w].os

\* A query about a worktree is answered from the index of that worktree.
AnswersOwnRoot == answer.asked = answer.from
=============================================================================
