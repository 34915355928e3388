# Formal models of Oxyris

Oxyris is a desktop application that runs coding agents: a Rust backend
(`src/apps/desktop`, with the crates of `src/crates`), an agent that runs inside
WSL (`src/apps/agent`), an MCP server (`src/apps/mcp-server`) and a web UI
(`src/apps/web`). Its heart is event sourced: commands are decided by aggregates,
their events appended to a store with optimistic concurrency, and read back from
a projection, while provider processes stream output into the same logs. Around it
are pools of processes (WSL agents, language servers, terminals), a symbol index
kept by a watcher, git and file commands, and the logins of the provider.

This directory holds the TLA+ models of that system, the TLC instances that check
them, and the proofs. Paths below are relative to `src/`; `infra/`, `domain/` and
`tauri_commands/` are those of `apps/desktop/src`.

- [1. The system](#1-the-system)
- [2. The modules, and how they correspond to the code](#2-the-modules)
- [3. What the runs check](#3-what-the-runs-check)
- [4. What is proved](#4-what-is-proved)
- [5. Where the code does not keep what it says](#5-where-the-code-does-not-keep-what-it-says)
- [6. Not modelled, and what is left to do](#6-not-modelled)
- [7. Running it](#7-running-it)

## 1. The system

### Components

`PROJECT.json` lists every component with its sources and its status. The ones that
carry state and logic of their own:

| Component | State | Operations | Who it talks to |
|---|---|---|---|
| Session aggregate (`domain/session.rs`) | none; a fold of events: status, turns and blocks, provider id, title, environment, kind, pin | `decide` (13 commands), `apply` (14 events), `merge_block` | called by the supervisor and the read model |
| Event store (`infra/event_store.rs`) | the `events` table, unique on (aggregate, id, version) | `append` at an expected version, `load` | one mutex-protected SQLite connection shared by everybody |
| Read model (`infra/projections.rs`) | one row per session, project, worktree, action | `apply` per event, `apply_session_state` (the pump's overwrite), lists | written after the store, in another transaction of another database |
| Session supervisor (`infra/session_supervisor.rs`) | the `live` map: session to provider command channel | eleven commands, one event pump per provider | store, read model, providers, UI |
| Provider process (`crates/oxyris-claude/src/provider.rs`) | the CLI child, the active turn, two channels | writer task, reader task, reaper | the supervisor's handlers and pump, over channels |
| Application boot (`app_state.rs`) | none | reconcile sessions left running, clean docker stacks and checkpoints | read model, store, docker, git |
| Project, worktree, action aggregates (`domain/*.rs`, `tauri_commands/*.rs`) | folds of events; worktrees on disk; `.env.local`; compose projects | create, rename, remove, import, render | store, git, docker |
| WSL agent pool and agent (`infra/agent_pool.rs`, `apps/agent`) | agents by distro, pending calls, open streams | ensure an agent, call, stream, watch | NDJSON over a child's stdio |
| Symbol index and watchers (`crates/oxyris-index`, `crates/oxyris-watch`, `infra/indexing.rs`, `infra/fs_watcher.rs`) | the index of a worktree, the watched directories | arm, drain, rebuild, query | file system, agent |
| Files (`infra/fs.rs`, `apps/agent/src/ops/fs.rs`) | the working tree | write, create, rename, copy, delete, search | file system |
| Git and checkpoints (`crates/oxyris-git`, `infra/git.rs`, `infra/checkpoint.rs`) | refs, index, files, the state of a merge or rebase, the stash, checkpoint refs | the commands of the Git panel; capture, revert, collect | libgit2, the git binary |
| Pseudo terminals, phones, turn signals (`infra/pty.rs`, `infra/mobile.rs`, `infra/pure_signals.rs`) | terminals with two threads each, takeovers, sockets, the busy dot | spawn, write, resize, take over, release, kill | the CLI, the UI, a phone |
| Auto-pilot (`infra/autopilot.rs`, `crates/oxyris-supervisor`) | engaged sessions, watchdogs, budget | engage, disengage, drive | terminals, a supervisor model |
| LSP client and pool (`crates/oxyris-lsp`, `infra/lsp.rs`, `infra/lsp_bridge.rs`) | requests and work in flight, documents, servers by project | request, check, join, close, reap | language servers over stdio |
| Claude accounts and usage (`infra/claude_accounts.rs`, `infra/claude_usage.rs`) | two live documents, a slot per account, the registry, the usage board | save, activate, remove, add, poll, refresh | the CLI, its server |

### Hard behaviours

Where the parts above meet, the difficulty is always one of these:

- **Nothing is held across calls.** A handler loads, decides and appends with three
  separate locks; the pump decides on a state it folded itself; the pool looks an
  agent up, lets go, and spawns one. Whoever is late must notice.
- **Two stores written one after the other**: log and row, two live documents of a
  login, a slot and its record, index and HEAD. A crash, a failure or another task can
  fall between the two.
- **Processes end by themselves.** The end is an event in a channel that says nothing
  about which process ended, or an end of file that has to answer everybody who waits.
- **Check, then act, across an await or a system call**: an agent that is not in the
  pool, a worktree not in the list, a file that is not there, a screen that asks.
- **Answers that come late**: after a timeout, after the reader has drained the pending
  table, after the screen they were asked about is gone, after a refresh was given up.
- **Order between producers**: a result and its progress, a snapshot and queued chunks,
  the end of a check and the end of another piece of work.

The `hazards` of `PROJECT.json` are these, at their lines, each with the properties
that would catch it or the reason why none does.

### What correctness means, component by component

- *Session aggregate*: every history it accepts is lawful (starts once, nothing after
  a delete, stops and resumes alternate, output of a turn between its start and its
  end), and no text is lost in merging.
- *Event store*: nothing changes after it was appended, a writer that has not seen
  everything conflicts.
- *Supervisor, boot*: a decision is taken on the state it lands on; a session that says
  running has a provider; only a persisted start or resume spawns one; what a provider
  said before it ended is handled; a provider told to stop ends.
- *Workspace*: rows follow logs, an import takes in everything it listed, the template
  wins over a key that `.env` assigns once.
- *Agent pool*: nobody waits on an entry that is gone, streams are complete, the loser
  of a race ends.
- *Index*: with nothing left to do, the index says what the files say, in whatever order
  batches and walks read them.
- *Files*: an undisturbed copy or search does all it says.
- *Git*: uncommitted content is not written over, a merge keeps both parents, no commit
  of a rebase and no stash is lost, a revert to a checkpoint restores it.
- *Terminals*: a mirror shows every chunk in order, the size returns to the desktop's,
  a silent end turns the dot off, a watchdog asks about no painting of the screen twice.
- *LSP*: a check is reported from the run that was asked for, the death of a server
  ends the wait, pool and server agree on the folders.
- *Accounts*: no usable token is lost in a switch, a record can be switched to, an
  account has one record, the board catches up.

## 2. The modules

```
Session ──────┬─ SessionLaws ─────────┐
              └─ ClaudeProvider ──────┴─ SessionSupervisor ── MCSessionSupervisor
EventLog ─────── (refined by) EventStore                 (INSTANCE, ImplementsLog)
EventStore ── Workspace ─┬─ WorktreeEnv ── MCWorkspace
                  Dotenv ┘
AgentPool ── MCAgentPool          SymbolIndex ── MCSymbolIndex      Files ── MCFiles
GitData ── GitRepo ── Checkpoints ── MCGit
PureSignals ── Terminals ── Autopilot ── MCTerminals
LspClient ── LspPool ── MCLsp
ClaudeAccounts ── ClaudeUsage ── MCAccounts

SessionSupervisorProof   WorkspaceProof     AgentPoolProof   SymbolIndexProof
TerminalsProof           AccountsProof      LspProof         FilesProof
```

Each module of the last group extends the component it is about (`WorkspaceProof` also
proves the event store beneath it, `LspProof` and `TerminalsProof` what is composed there).

### Session, SessionLaws

`Session.tla` is `domain/session.rs` as operators: `Decide(s, c)` (with one operator per
command that has a guard) gives the events or the error, `Apply(s, e)` folds an event,
`MergeBlock` glues text, `Replay` folds a log. The state is a record or `Absent`, the
`None` of `SessionState::inner`. Left out are the fields no decision reads (ids, model,
runtime, timestamps, costs, the text of the user). A block is its kind and its size, so
that lost or doubled text shows as a sum that is off. `FailTurn` and `InterruptTurn` do
not look at the status of the turn, in the code and in the model.

`SessionLaws.tla` is the reference: seven laws on the list of events alone, which never
mention a state or a decision. `Lawful(log)` is their conjunction.

### EventLog, EventStore

`EventLog.tla` is what aggregates are promised: logs that start empty and to whose end
batches are added.

`EventStore.tla` is the table as it is: a function from versions to events per
aggregate, in which nothing but the unique key constrains the versions. `AppendEvents`
is the transaction of `append` (it fails as a whole when one of the versions exists), a
writer is a handler (loads, appends once) or a pump (keeps the version its append
returned). That the rows are gap free is not built in; it is `TypeOK` there, and holds
because of what writers expect.

### ClaudeProvider

A provider is a record: `inbox` (the command channel), `writer` (the stdin task still
runs), `active` (the `active_turn` mutex), `out` (the event channel), `phase` (the
child), and for the external CLI `work`, `asking`, `lines`. `WriterStep` is one command
taken by the writer task: `SendMessage` sets the active turn and then writes,
`Interrupt` and `Stop` end the writer and have the reaper kill the child, a failed
write ends it too. `PrintReady`, `PrintBlock`, `AskTool` and `PrintResult` are lines of
output as `translate_and_emit` forwards them: tagged with the active turn *of that
moment*. `ExitChild` is the end of file, which always emits `SessionEnded`. The CLI is
an assumption: it works on messages in order, prints one result per message, may wait
for a tool approval, and may exit at any time.

### SessionSupervisor

One session with everything that writes it. The correspondence:

| Model | Code |
|---|---|
| `log`, `state` | the session's rows in `events.sqlite`, and what they fold to (`load_session` refolds; keeping the fold is a cache of the model, `CacheIsPrefix` checks it) |
| `row` | `state_snapshot` of the session in `read-model.sqlite` |
| `live` | `SessionSupervisor::live`, as the generation of the process it points to |
| `prov[g]`, `pump[g]` | the g-th provider spawned, and its pump task with its cache, version, attempt and the batch in its hands |
| `task[h]` | a command handler in flight: where it is, what it expects, what it has left to append, project or send |
| `phase` | up, or a boot that follows a crash |
| `torn`, `lost`, `spawnFailed`, `panicked` | history variables; nothing in `Next` reads them |

Actions, one per call that takes a lock or awaits, with the computation before it:

| Action | Code |
|---|---|
| `StartSession` ... `DeleteSession` | a Tauri command up to `decide`, with its early returns |
| `AppendEvents`, `ProjectEvent` | `persist_and_emit`: the append, then one `projections.apply` per event |
| `ForwardMessage`, `ForwardInterrupt`, `ForwardStop` | what the handler sends to the live provider afterwards; send errors are ignored |
| `SpawnProvider`, `SpawnNothing` | `provider.start_session` and `spawn_event_pump`, or its failure |
| `LoadForDelete` | `delete_session` after it emptied the live map |
| `PumpApproval`, `PumpDecide`, `PumpAppend`, `PumpProject` | `handle_provider_event_core` |
| `Write`, `Ready`, `Stream`, `Ask`, `Result`, `Exit` | the tasks of the provider |
| `Crash`, `Reconcile`, `ReconcileProject` | the end of the application, and `reconcile_stopped_sessions_from_projection` |

`ProjectEvent` contains the `expect` of `write_session_row`: folding an event over no
row panics, and the release profile aborts on panic, so everything in memory is lost.

Two abstractions deserve a word. Turn ids are fresh UUIDs, so a message takes an id
nobody has used. The UI only issues a command for a session it has seen, whose row
exists or existed (`Seen`).

### Workspace, WorktreeEnv, Dotenv

`Workspace` puts the project, worktree and action aggregates on the tables of
`EventStore`: `DecideProject`, `ApplyToProject` and their twins are the `domain/*.rs`
files, `ProjectRow`, `WorktreeRow`, `ActionRow` the arms of `projections.rs`.
`calls[w]` is the Tauri command of a writer. `admin` and `trees` are `.git/worktrees`
and the directories on disk, so that a listing may find what no row knows.

| Model | Code |
|---|---|
| `BeginProject`, `BeginActionUpsert`, ... | the synchronous commands, one after the other on the main thread (`MainThreadFree`) |
| `BeginWorktreeCreate`, `GitCreate`, `DecideAppends`, `ApplyRow` | `worktree_create`: validation, `git worktree add`, append, row |
| `BeginList`, `GitList`, `ReadKnown`, `ImportNext`, `ListReturns` | `worktree_list` and the import of what is on disk |
| `BeginRemove`, `GitRemove`, `GitFails` | `worktree_remove` |
| `Restart` | the end of the application between an append and its row |
| `HandAddsWorktree`, `HandRemovesTree`, `HandPrunes` | the user at a shell |

`WorktreeEnv` adds `.env.local` and the compose projects: `EnvRead` to `EnvWrite` is
`env_render`, `EnvCompose` is compose up or down, `PruneReads` to `PruneNext` the clean-up
of `docker_cleanup.rs`: the worktrees of each project are read first, a project whose list
fails is passed over, and then docker is asked. A worktree is its
UUID v7 time stamp; `ShortId` is its upper bits. `Dotenv` is the merge and expansion of
`dotenv.rs` as operators, against `RenderedTemplateWins` as a reference that mentions
neither order nor merging.

### AgentPool

`pool`, `pending` and `call` are the map of handles, the tables of `PendingCall` and the
callers; `agent[a]` is a process with the two tasks of its handle, its stdin channel and
its stdout. `Start` and `Arm` look a distro up and let go of the lock; `DeployFails` and
`SpawnAndInsert` are what follows when there was no agent, whatever was inserted since;
`Register`, `Send`, `SendFails` the request; `RouteFrame` and `Drain` the reader;
`Write`, `WriteFails` the writer; `EmitProgress`, `EmitChange`, `Finish` the agent.
`Held` is the reference count of a handle: with its last holder `Reap` kills the child.
`Arm`, `Disarm` and `FindClosed` are `WslFsWatchService`. A request lost in the pipe is
one its agent dies on.

### SymbolIndex

Files with contents and modification times in whole seconds; `watcher[w]` with the
directories it believes to watch and really watches; `task[t]`, a batch or a walk with the
file in its hands. `EnsureLook` and `EnsureInstall` are the two halves of
`FsWatchService::ensure`, `Drain` a tick of `drain_loop`. A file is indexed in the steps of
the code: `ProcessChange` and `WalkFile` (with twins in the agent) look at its metadata,
`ReadContent` reads its content, `Unchanged` compares the mtime with that of the row under
the lock of the database, `Parse` works with the lock let go, `Store` writes whatever is in
hand. Between any two of them the file and its row may change, and other tasks may take the
same file. `older` and `passed` are history: who held a file before a task took it, and
who was still at it when a later one was done. `EnsureReady`, `Rebuild`, `Query`, `Restart`
are the commands and the end of the application or the agent, with a schema change that
wipes the tables.

### Files

`tree` maps paths to a directory, a text or nothing. On the host `Check`, `MakeParents`,
`WriteOut`, `CopyEntry`, `SearchFile` are one system call each and interleave; in the
agent a command in progress holds the only thread. `CopyEntry` and `CopyEnds` are
`copy_dir_recursive`, in any order of the entries; a directory is made with those above it,
if they have gone meanwhile. A file is text or `opaque` (above 2 MiB, binary or not UTF-8), and
`Hidden` are the paths an ignore rule or a missing permission keeps a search from: it
passes over both and says nothing. The cap of 50 000 entries of a walk, which does
mark the list, is left out.

### GitData, GitRepo, Checkpoints

A commit is its parents and its tree; a tree maps paths to versions; a conflicted index
entry and a file with markers are values of their own; `Merge3` is the three-way merge at
the grain of files. `GitRepo` has every command of the Git panel that changes something,
split where the code opens the index, the refs or the working tree a second time
(`CheckoutOpen` and `CheckoutHead`; `CommitOpen` and `CommitWrite`; one `ReplayCommit` per
commit of a rebase). `seq` is what git keeps of an operation in progress, with two marks of
the model on a rebase: `touched`, something else was done to the working copy, and
`blocked`, a file was in the way of one of its commits. `plan` is the repository an instance
starts from, what may be called and how often. Two commands are in flight at once, and
`Edit` is the user or the assistant. `Checkpoints` adds the refs around a turn:
`CaptureOpen` (git stash create) and `CaptureRef` (HEAD, when there was nothing to stash),
`RevertToPre`, `Gc`.

### PureSignals, Terminals, Autopilot

`PureSignals` is the sniffer of `pure_signals.rs` as operators on a record: which marker a
painted line carries, the rolling tail, what ends a wait, and `compute_pure_state`.
`Terminals` has the terminal map, per terminal the reader thread (`ReadChunk`, `Feed`,
`Publish`, `ReaderEmits`, `ReadEof`) and the heartbeat (`BeatWakes`, `BeatEmits`,
`BeatEnds`), the commands of the desktop, and per phone the socket task: `AcquireTakeover`,
`AttachSnapshot`, `Subscribe`, `Recv` (with `Lagged` and the resync), `ReleaseTakeover`,
`ReleaseRestores`. A chunk is its number. `Autopilot` adds the engagement map with its
`try_lock`, and a watchdog per engagement: `Observe`, `Ripe`, `Decide` (seconds later),
`TypeKeys`, `PressEnter`, `Resend`, and the guardrails as operators. A watchdog knows a
screen by the last 4000 characters (`look`), so a painting may read like an earlier one; it
remembers one fingerprint. `screen` numbers the paintings, and is there for the property
only: what was painted once a watchdog asks about once, while a screen that is painted again
after another may be asked about again, and so may one screen by two engagements. The
watchdog of a terminal that was closed under it sees the blank screen it began with once
more, which `OneAnswerPerScreen` allows.

### LspClient, LspPool

`LspClient` is one client per server: documents as client and server hold them, requests
in flight, the work the server reports by `$/progress`, `ReaderEnds` when it dies, and the
two phases of a check (`RunFlycheck`, `Phase1`, `GraceEnds`, `Phase2`). `LspPool` is
`LspManager`: `Reuse`, `AddFolder`, `Full`, `Spawn` with the lock of the pools held across
it, `Close`, `ReapIdle`, and the bridge's `Mint` for a path nobody registered.

### ClaudeAccounts, ClaudeUsage

`dir` holds the two documents of the live login, of each slot and of each console directory;
a token is a number of its account, `valid` those the server still refreshes. A call is a
chain of steps with one read or write each: `SaveReadCreds` to `SaveRecord`, `ReadSlot` to
`Verify` for a switch (with `RestoreCreds`, `RestoreWho` on a failure), `MakeSlot`,
`ConsoleLogin`, `Adopt`, `Cleanup` for a login in a console. `Fails` lets any of them fail,
before or (a write of the live login inside a distro, whose reply is lost) after it took
effect; a failed read of the registry is no failure, since `read_registry` makes an empty
registry of it (`lost`), and what is then written holds one record. `ACrash` ends the
application, `SessionRefreshes` and `OutsideToken` are the CLI beside it. `ClaudeUsage` adds
the poller: `StartCycle` to `SectionBuilt`, `Stamp` and `EndCycle` with the mutex of the
cycles (a refresh that is given up between the two leaves a young stamp beside the old
board), `RefreshAsk`, `RefreshKeep` and `Reread` for a token that is over, and
`ForceRefresh`, `Invalidate`, `GiveUp` for the refresh a command waits three seconds for.

## 3. What the runs check

| Run | Instance | Question |
|---|---|---|
| `event_store` | 2 aggregates, 2 writers, 2 events, versions up to 4 | Does an aggregate change only by writers that have seen all of it; do the tables implement `EventLog`? |
| `supervisor_races` | 2 handlers, 1 provider, 4 commands of all but resume | Is the log lawful however handlers and pump race; is every append decided on the state it lands on; does the row follow when writes do not overlap? |
| `supervisor_lifecycle` | 2 handlers, 3 providers, 4 commands of start, send, stop, resume, 2 crashes | Does running imply a provider, through crashes and a crash in the boot; of two resumes in flight, does only the one that was persisted spawn? |
| `supervisor_liveness` | fair; 1 handler, 1 provider, 2 lines, 4 commands of start, send, interrupt, approve, stop | Does a provider told to stop end, is everything it said handled, is text neither lost nor glued over a tool block? |
| `agent_pool` | fair; 2 calls of any kind, 2 agents, 1 worktree, 2 deaths, 1 event each | Does nobody wait on a missing entry; are calls answered and streams complete; does a replaced agent end? |
| `symbol_index` | 1 file in a directory that comes and goes, 2 contents and a large one, 2 tasks, 2 watchers, 2 listings, 2 edits, 2 seconds, 1 restart, 2 walks | Has an index with nothing left to do the contents of the files; does a watcher that loses the race to be armed end? |
| `files` | 2 names, paths of 2, one of them hidden, 2 commands at a time, 3 in all, 1 search result | Is a copy whole; does a search that is not marked list every match in the files it looks into? |
| `git` | 2 paths, 3 branches, 2 commands at a time, 1 edit, 1 turn; two plans: any 3 commands, or 5 of a rebase over two commits | Does uncommitted content survive; do merges, rebases, pops and checkpoints keep what they promise? |
| `workspace` | 1 project, 3 worktrees (two within one window of 65 seconds), 1 action, 2 commands at a time, 5 uses, 1 step by hand, 1 crash | Are logs lawful and rows what they fold to; is an import complete; does the template win? |
| `terminals` | fair; 2 terminals, 2 phones, 2 engagements, 10 loads | Is a mirror in order; is the size the desktop's when nobody holds the terminal; does the dot settle; does a watchdog ask about a painting once? |
| `lsp` | fair; 3 servers, 4 calls, 3 roots over a cap of 2, 5 loads | Do pools and servers agree on folders; is a check answered by its own end; does a death end the wait? |
| `claude_accounts` | fair; 2 accounts, 3 slots, 3 calls, 17 loads | Is a record whole and alone; does a switch keep every token; does the board catch up? |

**Bounds.** They are CONSTANTS used in guards and nowhere else. The rule is two of whatever
races and one more step than the shortest bad schedule. Every race of the supervisor is
between two writers of one log, so two handlers and a pump give all pairs and one triple; a
stop, its resume and the late end of the first process need two generations, and two resumes
in flight at once a third; two crashes put one inside the boot of the other. Two agents let
one replace the other while a third death is not needed, since the pool keeps no memory of
the dead. Two tasks that read two versions of a file and store them in the other order need
two edits, and a second write within a second the same two; the second of a file that comes
and goes with its directory is one of them. A rebase that stops, continues and stops needs
two commits and five calls (rebase, resolve, continue, resolve, continue), so it has a plan
of its own, in which an untracked file may also be in the way. Two phones make one oust the
other, a broadcast of capacity one lags at the second chunk. A third root passes the folder
cap.

**Loads.** Terminals, LSP and accounts have many independent ways to be used, whose
product no checker gets through. Their surroundings draw on `left`, a record with a
counter per kind of event, and the initial states draw one of a few loads (MC modules):
the state space is the sum of the themes. A load is a bound on the surroundings only; it
restricts no step of the program. The loads with time for the poller (`ticks` of 2) have one
command of each kind beside it: a save, a switch, a removal, a console login, a `/login`; a
start with a saved record (`saved`) leaves room for them.

**Deadlock** is not checked where the commands of an instance are used up, and a system
at rest with no user is a legitimate end. `event_store` checks it.

**Fairness**, where a run has `FairSpec`, is weak fairness of tasks and threads that a
scheduler polls whenever they are ready: handlers, pumps, writers, the exit of a *killed*
child, the boot (supervisor); callers, the tasks of a handle, an operation of the agent
(`Finish`: it ends or its agent dies) and the reaping of a dropped child (agent pool); the
heartbeat and the clocks of a terminal; a call whose wait is over (LSP); calls, cycles and
ticks (accounts). The one strong fairness is of a cycle's turn at its mutex, which tokio
grants in order. Nothing is assumed of users, phones, the CLI, language servers, timeouts
or crashes.

**Exceptions are named.** `RunningHasProvider` excludes a spawn that failed, a
`SessionEnded` given up at the second conflict, and a crash that found a row that misled the
boot; `LockstepUnlessTorn` excludes overlapping writes, `RowsMatchLog` aggregates whose
event was lost with the application. `SettledIndexIsCurrent` excludes files above the size
limit (`Huge`), a second write within the second of the first (`last.twice`: the comparison
of mtimes takes it for none), a change no watcher was told of (`noticed`), and a row stored
by a task that another one, which took the file later, had passed (`overtaken`); it does not
exclude tasks that merely overlap, nor changes of content. `QuietRebaseLosesNothing`,
`CopyIsComplete` and `UncutSearchIsComplete` are about operations that no edit or command
disturbs; the first not about a rebase one of whose commits met a file in its way
(`blocked`), the second not about a directory copied onto one above it, the third about the
files a search looks into. `SwitchKeepsTokens` is about switches nobody disturbed, with one
failure: it promises nothing when a write of the live login was done and reported as failed
(`torn`), and only the two accounts of the switch when the registry could not be read
(`lost`). `RenderedTemplateWins` excludes a key that `.env` assigns twice. What each
exception leaves out is a statement of section 5 or is listed after its table, or the code
accepts it with its eyes open (the size limit). It is recorded at the step where it happens,
so the properties still speak of every other execution.

Each property has a mutant of the code it can break (`PROJECT.json`, `mutants`): an
append without a version check, a reader that drops entries silently, a forced checkout,
a takeover released without its size, the end of any work taken for the end of the check,
a switch that does not store the outgoing login, and so on.

## 4. What is proved

TLAPS checks these for every value of the constants; the runs check the same formulas on the
instances above. `NoLostUpdate`, `Refinement`, `SwitchesKeepTokens`, `CommandsLoseNothing`,
`WorkspaceImplementsLogs`, `ImportsMissNone`, `SearchesAreComplete` and `CopiesAreComplete`
prove properties of steps, the others invariants. The type invariants, `WritersSeePrefixes`,
`LoginsAreSound`, `TypesOfTerminals`, `FrozenViewsAreHeld`, `StreamsAreOwned`,
`IndexInvariant`, `FilesInvariant` and `TreeStaysATree` are steps of the
arguments or companions of them: they hold on those instances too (with a key of its own for
each root where they say so), and no run lists them. Each inductive invariant below was
checked by TLC on an instance before it was proved.

The event store, first part of `WorkspaceProof`: `TypeCorrect` (logs are gap free),
`WritersSeePrefixes`, `NoLostUpdate` and `Refinement` (the table with its writers
implements `EventLog`).
Assumption: `MaxVersion` is a natural number. The inductive invariant is `TypedRows`
with `SeenIsPrefix`: gap freedom alone is not inductive, since a writer that expects a
version ahead of the table would leave a gap.

`SessionSupervisorProof`:

- `TypeCorrect`: `Spec => []TypeOK`; in particular no append expects a version ahead
  of the log.
- `DecisionsCurrent`: `Spec => []DecisionsAreCurrent`; an append that meets no conflict
  appends what the session decides on the state it lands on.

Assumptions (`SupervisorAssumption`): the operations and kinds issued are among those
that exist, the bounds are naturals, the set of handlers is finite. The number of
handlers, commands, processes, lines and crashes is arbitrary.

The inductive invariant `IndInv` says, beyond types: what a handler or a pump is about to
append was decided on the present state *if* its version is the length of the log
(`GoodTask`, `GoodPump`); a pump's cache is the state if its version is that length
(`GoodCache`); the event a pump decided on stays at the head of its process's channel until
the append is done; the processes spawned and about to be spawned fit the bound. The step
that matters is an append: the log only grows, by batches that are not empty, so it makes
every other loaded version fall behind, and the conditional parts about the others hold
vacuously from then on. The first part of the module shows that `Decide` gives at most one
event and `Apply` a session, and that no step of a process but the pump's own removes what
is at the head of its channel.

- `HistoryIsLawful`: `Spec => []LogIsLawful`, the seven laws of `SessionLaws` together.
- `RowInLockstep`: `Spec => []LockstepUnlessTorn`.
- `TextStaysWhole`: `Spec => []TextIsCoalesced`.
- `SpawnsPersisted`: `Spec => []SpawnsArePersisted`.
- `RunningIsServed`: `Spec => []RunningHasProvider`.

These five rest on `IndInv`, each with an invariant of its own. `LawInv` says what of the
history the state still knows (`Tells`): no delete while there is a session, stopped
exactly when the last stop has no resume after it, the turns of the state are those the
log starts, and one that streams has no end in the log. An append that meets no conflict
is of a batch the state accepts (`Accepted`), and a law broken by such an event would
contradict what the state tells. The laws of `Session` prove this for one event; the only batch
of two is `TurnStarted` with the rename that titles the session. Assumption: the null of
the model is not the data of a session (`SessionAssumption`).
The text of the turns follows the same appends: an accepted block goes to the one turn
with its id, where `MergeBlock` adds its size to a block or a block to the turn, and a turn
that starts is one to which nothing was appended (`AcceptedCoalesces`, by the law that what
happens to a turn follows its start). The sums are recursive functions (`Total`), so the
lemmas about them take the least number at which two sums would differ instead of an
induction theorem.
`RowInv` says that, until writes overlap, at most one writer is between its append and its
row, and that the row folded over what it still has to write is the state (`LoneTask`,
`LonePump`, `LoneBoot`); the pump overwrites with its cache, which is the state by
`GoodCache`. It needs that processes are numbered in the order they were spawned and that
nothing runs during a boot. `OwedInv` bounds the processes spawned *and* the starts
and resumes appended but not spawned yet by the starts and resumes in the log; the
property alone is not inductive at a spawn.
`RunInv` says what a running session may rely on before everybody is done (`Served`): a
handler that appended its start or resume and has not spawned yet, or a process whose pump
has heard of nothing but a running session and which is alive, or whose `SessionEnded` is
still the last event in its channel, behind the one the pump is writing. A step of a
process only moves it towards that end (`Goes`), and a pump that takes the end of the
process decides on a cache that runs, so the session stops. During a boot the row is the
state, so the boot stops the session; there `RowInv` is needed. `PresInv` shows that
before the first crash no panic can stop a session that runs: a row is missing only until
its `SessionStarted` is applied, and taken away only when the session is gone.

`AgentPoolProof`: `TypeCorrect`, `NobodyIsForgotten` (`Spec => []WaiterIsRegistered`),
`StreamsAreComplete` (`Spec => []StreamIsComplete`) and `StreamsAreOwned`
(`Spec => []OneStreamPerWorktree`).
Assumption (`PoolAssumption`): the null value is no agent, call, result or worktree, every
worktree has a distro, the bounds are naturals. `WaiterIsRegistered` is inductive with the types:
an entry goes only in `RouteFrame` and `Drain`, and there its caller gets a result
(`AnsweredIsAnswered`); a caller starts to wait only after `Register`, for which an agent
must be in its hands (the part of `TypeOK` about `HasAgent`). `StreamInv` accounts for a
request at the one agent it was sent to: while its entry is pending, the events its caller
got and those still in the agent's stdout are the events written for it, and a frame that
answers it has them all before it (`Accounts`, by a function that counts along the
channel instead of a recursive count); a request is in one place of its agent, and in none
once it is answered. An armed worktree is that of exactly one call, and the end of a stream
disarms the worktree of its own call: with that a call that has not begun has no worktree,
or its first step could take one that another holds.

`LspProof`: `PoolsMatchServers` (`Spec => []FoldersMatchRoots`) and `WaitsAreHonest`
(`Spec => []CheckedMeansEnded`), for any servers, calls, roots, ids, cap and loads.
Assumptions: the null value is no server, call, root or text; ids the bridge mints are
none of the ids worktrees were opened with (they are fresh UUIDs); the cap is positive;
loads are typed. `ClientInv` says what a waiting call may conclude from the counters it
read (`Waits`), and every step of a client only moves them on (`Later`): completions grow,
and the running check leaves the active work, only with an end of a check or of the
reader. `PoolInv` adds that the servers in the pools are distinct and were spawned
(`DistinctInv`), that an id has one root for good (`NamesInv`), that the folders of a
shared server are the roots it was told (`FolderInv`), and that the call which holds the
pools across a spawn still finds what it saw before (`LockInv`): without the last, its
insert could replace a server that somebody put there meanwhile.

`TerminalsProof`: `TypesOfTerminals`, `PhonesMirrorInOrder` (`Spec => []MirrorIsInOrder`),
`DesktopsSizeReturns` (`Spec => []QuietSizeIsDesktops`), `PilotsAnswerOnce`
(`Spec => []OneAnswerPerScreen`) and `FrozenViewsAreHeld` (`Spec => []FrozenHasHolder`: a
frozen desktop view has a phone that holds it, a restore under way or a terminal that is
gone), with the auto-pilot as part of the specification. Assumption
(`TerminalAssumption`): the capacity of the broadcast is positive, the null value is no
terminal, phone, line or title, loads are typed. Most steps are *plain*: a thread of a
terminal changes no size, no place in the map and nothing a phone shows, and a screen only
grows; the invariants survive a plain step by one lemma each, and what remains is a dozen
steps. `LockInv`: until the desktop takes a terminal back by force, a phone between its
takeover and its release holds the lock of its terminal and no two phones share one; it is
what makes the release of one phone restore a size nobody else relies on (`SizeInv`).
`AskInv`: the paintings a pilot has asked about grow and none is later than the one shown,
and `LookInv`: while the last of them is the one shown, it reads as it did then;
`OverlayInv` names the holder of a frozen view.

`AccountsProof`: `LoginsAreSound`, `OneRecord` (`Spec => []OneRecordPerAccount`),
`RegisteredIsWhole` (`Spec => []RegisteredSlotIsWhole`) and `SwitchesKeepTokens`
(`Spec => SwitchKeepsTokens`, an action property), with the poller of `ClaudeUsage`
as part of the specification. Assumption (`AccountsAssumption`): the null value is no
account, slot, call, token or name of a bound, "live" is no slot, loads are typed.
That records differ is not inductive: a save writes the registry three steps after it has
looked for the record. The invariant adds that when the holder of the lock has chosen
(`Chosen`), no record but the chosen one is of the account it read (`Fits`); only the
holder of the lock writes the registry, so the choice stands until it does. A console
login chooses only in `Adopt`, under the lock, after everything it did outside. That the
commands which wait for the lock are those that exist (`Sound`) is needed for `TakeLock`.
A slot is whole for a longer reason, since consoles, cleanups and the poller write
directories without the lock (`WInv`). A new login has its directory to itself from the
choice of the name to the end of its cleanup (`Apart`): no record names it, no other login
has it, and no holder of the lock has chosen it (`Clear`). What a holder is about to
register it has stored, token first (`Ready`). So a step either leaves the slots' tokens
and identities in place, writes a directory nobody has registered, or is the holder's
(`Touches`, `Moves`); the poller's CLI stores only tokens it was given (`Typed`).
That a switch loses nobody's login is an invariant of the call that holds the lock
(`SwitchInv`), as long as nobody disturbed it: what it has read is what is there
(`Current`); until it writes the live directory every account is found where it was, and
from then on every account has its token in a slot, the outgoing one because the save put
it there, and in the call's hands (`Secured`); the live directory holds the one login, the
other, or their mixture at a known place (`Between`). It needs `WhoFits`: a registered slot
that says an identity says that of its record. Steps of other calls cannot reach what the
switch reads (`Aside`), for the reasons of `WInv`; a step of the CLI or the poller either
does not, or is a disturbance. The property allows one failed read or write per call: with
two, a swap and its undo may both fail, and `Between` is lost. Two failures are not like the
others. A registry that cannot be read counts as empty and is written back, so the records of
accounts that have nothing to do with the switch are gone (`SwitchKeepsRecords`), and the
theorem then speaks of the two that have. A write of the live login that was done although its
reply was lost is not undone, and nothing is promised (`FailedSwitchIsUndone`).

`WorkspaceProof`, with the environment commands and the clean-up as part of the
specification, so every theorem is about `EnvSpec`:

- `LawfulLogs`: `[]LogsAreLawful`, and `RowsFollowLogs`: `[]RowsMatchLog`.
- `CommandsLoseNothing`: `AppendSeesAll`, and `WorkspaceImplementsLogs`: `ImplementsLog`;
  every step of the commands is one of the event store's, so both carry over.
- `ImportsMissNone`: `ImportIsComplete`, an action property.
- `TemplatesWin`: `[]RenderedTemplateWins`, for a key of the template that `.env` assigns
  once at most.

Assumptions: the three kinds of aggregates are disjoint, an empty name is no name of a
worktree (`create` and the import both refuse it), the null value is no state of an
aggregate (`WorkspaceAssumption`), and a file is a sequence of lines (`EnvAssumption`).
The bounds of the instance are in the guards of the surroundings only.

Since an append was decided on the whole log (`NoLostUpdate`), `LogsInv` only has to
show that what is decided on a lawful log may follow it (`MayFollow`). `RowsInv` says that
at most one call still has an event of an aggregate to apply and that the row is the fold of
the log without that event (`Behind`); it needs that the synchronous commands run one at a
time (`Alone`), without which two projections of one project could land in the other order,
and that a worktree is only removed once it has a row, so that its creation and its end are
never both waiting for theirs.
`CallsInv` says what a call knows at each place it may be. `ImportInv` is about a list in
progress: each tree that git listed with a branch is known, still to be imported or in the
call's hands (`Taken`); the id of one in its hands has an empty log and is nobody else's
(`Sole`), so the append is not refused and meets no conflict, and what the call then applies
to the row is what the log ends with (`Logged`).
`DotInv` says that each generated file is `Rendered` from some `.env` and some template, or
is the user's; the rest is about pure operators: what a list of assignments finally
assigns (`EffectiveIsFinal`), what the copied lines tell (`AddedTells`), what the merged
file tells (`MergedTells`) and that substitution changes no key (`SubstitutedEffective`).

`SymbolIndexProof`: `IndexInvariant`, `SettledIndex` (`Spec => []SettledIndexIsCurrent`) and
`WatchersAreHeld` (`Spec => []OneWatcherPerKey`: a key has one watcher, however often it is
listed at once, and no other watcher runs). Assumption (`IndexAssumption`): the null value
and the mark of a large file are no other data, "sub" is a directory and no file, the bounds
are naturals. All but the types suppose `OwnKeys`: a root has a key that is its own and no
other root's name. This is so for worktrees, whose key is their id, and not for the primary
checkouts, which all have one key; section 5 shows with `AnswersOwnRoot` what happens to
those, and the hypothesis is where the argument needs it: a walk stores under the root whose
index its handle has open (`OpenInv`, `TaskInv`). Currentness alone is not inductive: a file
is out of date most of the time. `FileInv` says where the difference is, in five parts.
Mtimes never run ahead of the last write (`TimeInv`), so that with one write in a second an
equal mtime means equal content, of a row and of what a task has read (`SoundInv`): this is
what a skipped parse relies on. The tasks that hold a file took it one after the other
(`OrderInv`), and who is passed is passed with all that came before (`PassedInv`). And once
the word of the last change is on no way, neither pending in a watcher that lives nor in the
hands of a batch (`Excused`), the task that took the file last has it in hand as it is, as
far as it has looked, and when nobody holds it but who is passed, the row is, unless one of
those has stored since (`WordInv`). The step that matters is the end of the last one: it
stores, or finds the mtime in the row, and passes all that are still at the file. A notice
may be lost with the watcher that had it or with the batch that is not started, and each
step that loses one makes the change one that nobody noticed.

`FilesProof`: `FilesInvariant`, `FilesTyped`, `TreeStaysATree`, `SearchesAreComplete` (`Spec
=> UncutSearchIsComplete`) and `CopiesAreComplete` (`Spec => CopyIsComplete`), the last two
action properties, for any set of hidden paths, any depth and number of names, any number of
commands at a time and any limit of results. Assumption (`FilesAssumption`): the three
bounds are positive. The first part is about paths: `Under` is an order in which the
prefixes of a path are a chain, and the place of an entry of a copy (`Dest`) keeps it.
`ClientInv` says who is alone: a command that counts on it, and every command in the agent,
runs while the others are idle. `Closed` (`TreeStaysATree`) says that what there is lies in
directories up to the root; renames, deletes and copies that interleave keep it, since each
of their system calls does. `SearchInv`: the files it looks into that have a match are among
the hits or before the search until it is cut off. A copy (`CopyInv`) is the longest: each
entry at or below the source is at its place already, or at or below one still to be copied
(`Covers`). A directory copied below its own source reads what it writes; there the way down
from the target meets, at each turn, a directory that is still to come (`Descends`), which
is what makes such a copy end at the limit of the paths with an error and not with a success
that misses something. The proof corrected the property: with the source other than the
target as its only exception it was false of `a/b` copied onto `a`, which adds to its own
source what the loop has read past; a run with paths of four shows it.

Only model-checked: liveness (`StopEndsProvider`, `PumpDrains`, `CallsAreAnswered`,
`ReplacedAgentsEnd`, `BusySettles`, `DeathEndsTheWait`, `BoardCatchesUp`), which is outside
the prover's reach; and, not attempted, the action properties of git (`EditsSurvive`,
`FinishedMergeKeepsParents`, `QuietRebaseLosesNothing`, `PopKeepsUnapplied`,
`RevertRestoresTracked`).

## 5. Where the code does not keep what it says

While modelling, statements of the repository's comments turned out not to hold of the
code. Each is a definition of its module, with the sentence in its comment, and TLC finds
it violated when it is added to the configuration of the run (in some cases with a load or
constants that reach it); the passing properties are what remains true.

| Module | Statement | What happens |
|---|---|---|
| SessionSupervisor | `DeletedRowIsGone` | The pump appends, the session is deleted, the pump overwrites the row: the deleted session is listed again, for good. |
| | `RowHasState` | A rename appends, a delete appends and drops the row, the rename is projected: `expect` panics, the release build aborts. |
| | `StoppedRowCanResume` | A crash between the append of `SessionResumed` and its row: the log says running, the row stopped, and the boot looks at running rows only, so every later resume is refused. |
| | `OneProvider` | Stop and resume; the late `SessionEnded` of the first process stops the session the second one serves; the next resume starts a third beside it. |
| | `NoProviderPastDelete` | A delete empties the live map before a start in flight inserts its provider, which nobody stops any more. |
| | `StreamingOutputIsKept` | From the second turn of a process on, the pump's cache does not hold the turn, takes its output for late and drops it; a refusal never reaches the append whose conflict would reload the cache. |
| AgentPool | `OpenStreamIsServed` | An open stream that registers after the drain at end of file never closes; its worktree stays armed and unwatched. |
| SymbolIndex | `NewDirIsWatched` | A directory that goes and comes back stays in the set of watched directories and is not watched again. |
| | `WatcherKeepsCurrent` | A batch reads a file, a later one reads the next version and stores it, the first stores the old one over it, and no change is left to report; likewise a second write within a second of the first is taken for none. |
| | `RebuildDropsVanished` | "Drops files that have disappeared": a walk comes only upon files that exist, so the row of a file that went unseen (before a restart, or with its directory) stays through every rebuild. |
| | `AnswersOwnRoot` | The primary checkouts of all projects share one key (`KeyOf <- Sentinel`): the index of one answers for another. |
| Files | `UnmarkedSearchIsWhole` | Files above 2 MiB, binary, not UTF-8, unreadable or ignored are passed over and the list is not marked as truncated. |
| | `CreateKeepsFiles` | On the host another command takes the name between the look and the write of a create, which replaces its file. |
| GitRepo, Checkpoints | `FailedCheckoutChangesNothing` | A branch that another worktree has checked out is refused by `set_head`, after the files were changed to it. |
| | `AmendReplacesHead` | The commit is made with HEAD's parents and moves HEAD, which libgit2 allows only to a child of the tip: every amend is refused. |
| | `RebaseLosesNothing` | A commit that finds a file in its way, an untracked one that was there before the rebase too, leaves the rebase at a commit it has not applied, and the next continue takes it for empty. |
| | `SnapshotIsWhole`, `GcKeepsFresh` | `git stash create` leaves untracked files out. The age of a checkpoint is that of the commit it names, so that of a clean tree on an old commit is collected the same day. |
| Workspace, WorktreeEnv | `RemoveSparesOthers` | The checkout goes by its name, which a newer worktree may have by the time git gets to it. |
| | `StacksAreIsolated` | The short id is the upper 32 bits of a 48-bit time stamp: worktrees made within 65 seconds share a compose project and its volumes. |
| | `PruneSparesAll`, `UserFileIsKept` | A worktree made after the rows were read loses its stack, and so does every worktree of a project whose list failed; a `.env.local` the user writes between the look and the write is replaced. |
| | `TemplateAlwaysWins` | "overlay wins on key conflict": of a key that `.env` assigns twice, the template's value goes to the first line and the second counts. |
| Terminals | `PhoneHoldsTheLock`, `FrozenDesktopIsMute` | A phone that was ousted or whose terminal was taken back still writes and resizes, since its path does not look at the lock; a keystroke of the desktop past its check lands in a terminal taken over since. |
| | `MirrorHasNoGap` | A chunk read between the snapshot and the subscription is in neither. |
| | `DeadIsIdle` | The reader's final idle snapshot is overtaken by a heartbeat tick under way. |
| Autopilot | `NeverApprovesDanger` | The Supervisor answers after seconds; its Enter meets another prompt than the one the denylist saw. |
| | `DisengagedIsStill`, `EngagedIsDriven` | A decision under way is typed after a disengage; `is_engaged` answers no while the map is merely locked, and the watchdog ends while the session stays engaged. |
| LspClient | `CheckedMeansChecked`, `DocsAgree`, `OpenedOnce`, `NoSlotLeft` | The death of the server is reported as a finished check; two callers send their document versions in the other order, or open a document twice; a request that cannot be sent leaves its slot. |
| LspPool | `ClosedIsServedByNone`, `OneServerPerPath`, `StaleHolderAsksAgain`, `NoDeadServerIsServed` | A call routed before a close attaches the worktree again; a path asked for twice at once gets two ids; a holder of a reaped server is told and returns the error; a server that died is handed out, since nobody looks whether it runs. |
| ClaudeAccounts | `SwitchKeepsRecords` | A registry that cannot be read counts as an empty one and is written back: a switch, a save or a console login then drops the record of every other account. |
| | `FailedSwitchIsUndone` | A write of the live login inside a distro that was done and whose reply was lost counts as failed before anything was changed: nothing is restored, and the token of one account stays beside the name of the other. |
| ClaudeUsage | `LiveMatchesItself` | A crash between the two writes of a switch, or a lost reply to one of them, leaves the credentials of one account beside the identity of another. |
| | `LiveStaysUsable` | A refresh given up after three seconds kills the CLI after the server rotated the token and before it was stored. |

Seen in the models and without a definition: a commit during a rebase forgets the rebase; a
removed row hides a new worktree of the same name; a removal of an account that fails
half-way leaves a record without its slot; a session started after the check for running
sessions writes an old token back; a cooldown is lost with the cycle that was dropped; the
board may be 90 seconds old when an invalidation meets a running cycle; a refresh of the
poller that a switch overtakes stores the token of the outgoing account beside the identity
of the incoming one (`SwitchKeepsTokens` is about switches that nothing disturbed), and so
does a switch whose second write fails when the undo of the first fails too; a comment says
log and row move in lockstep, which holds only for writes that do not overlap; a start or
resume whose spawn fails leaves a session that says running, and a pump that meets two
conflicts in a row gives up the event, be it the end of its process; the row of an event
that the application did not live to apply stays behind; a directory copied onto one above
it adds to its own source while it is read, and says it succeeded; `FailTurn` after an
interrupt turns the turn into a failed one.

## 6. Not modelled

Whole components:

- *File editor store of the UI*: what one would state of it, its awaits do not keep. A file
  opened late puts back a tab that was closed; text typed during a save is marked clean;
  a truncated external file is written back whole; two reconciliations apply in the order
  they answer. There is no weaker property worth a model.
- *Git, session and run stores of the UI*: caches of backend state that the next event
  refreshes, folds of what the supervisor emits, lists of terminals.
- *Other stores, components, hooks*: rendering, typed wrappers, preferences.
- *Voice, the native usage widget*: native libraries and surfaces.
- *Language packs*: external installers, one step after another.
- *Oxy and browser bridges*: calls of the supervisor that are its handlers; a browser
  driven one call at a time.
- *Laravel analysis*: pure functions of PHP sources.

Parts of modelled components:

- *Session supervisor*: project context, MCP configuration, events to the UI.
- *Worktree commands*: clone, logos, env status and docker listings, running an action.
- *Git*: remotes (their state is on the other side), tags, read-only commands, the
  drafting of commit messages.
- *Files*: listing, reading, name search, attachments (fresh names).
- *Terminals*: the desktop's own replay with its cap and query stripping, titles, the
  transcript that names a session, pairing and upload of phones; the wake nudges
  of the pilot. The takeover check of a pilot and its write are one step.
- *LSP*: framing, URIs, the diagnostics cache, requests of the server, a server that
  ignores `shutdown`, and the MCP server's own pool.
- *Accounts*: plan parsing, other fields of the documents, several environments at once.
- *Event store*: `load_all` and the schema migration.

Left to do: proofs of the action properties of git.

## 7. Running it

```
tlc -workers 2 -config EventStore.cfg EventStore.tla
tlc -workers 2 -config SupervisorRaces.cfg MCSessionSupervisor.tla
tlapm SessionSupervisorProof.tla
tlapm AgentPoolProof.tla
tlapm TerminalsProof.tla
tlapm LspProof.tla
tlapm AccountsProof.tla
tlapm WorkspaceProof.tla
tlapm SymbolIndexProof.tla
tlapm FilesProof.tla
```

The community modules and the TLAPS library must be on the path. Every other pair of
module and configuration is in `runs` of `PROJECT.json`. The longest run is
`claude_accounts`, some minutes with two workers.
