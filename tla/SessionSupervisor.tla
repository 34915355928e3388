-------------------------- MODULE SessionSupervisor --------------------------
(***************************************************************************)
(* The session supervisor (apps/desktop/src/infra/session_supervisor.rs)    *)
(* with all it writes: the event log of one session, the session's row in   *)
(* the read model, the map of live sessions, and the provider processes.    *)
(*                                                                         *)
(* The actors run in parallel on a multi-threaded runtime:                  *)
(*   - command handlers, one task per call of the UI (or of the Oxy bridge);*)
(*   - one event pump per provider that was spawned;                        *)
(*   - the tasks of each provider process (ClaudeProvider.tla).             *)
(* Each locks the event store, the read model and the live map for a single *)
(* call and holds nothing between two calls, so one atomic step here is one *)
(* such call with the local computation that goes with it.  A crash of the  *)
(* application loses everything but the two databases; the boot that follows*)
(* runs reconcile_stopped_sessions_from_projection.                         *)
(*                                                                         *)
(* Sessions do not share state that any action reads, so one is enough.     *)
(* Its events table is a sequence: EventStore.tla shows that the rows of an *)
(* aggregate are gap free.  Left out: checkpoints (an await between two     *)
(* steps), events emitted to the UI, project context, MCP configuration.    *)
(*                                                                         *)
(* Bounds: MaxOps commands, MaxGens provider processes, MaxLines blocks or  *)
(* tool prompts per process, MaxCrashes crashes.                            *)
(***************************************************************************)
EXTENDS ClaudeProvider, SessionLaws, FiniteSets

CONSTANTS
    Handlers,       \* command handler tasks that can be in flight together
    Operations,     \* the commands the UI issues in this instance
    StartKinds,     \* the kinds of session it starts
    StartEnvs,      \* and the environments it starts them in
    MaxOps, MaxGens, MaxLines, MaxCrashes,
    SpawnMayFail    \* whether provider.start_session may return an error

AllOperations == {"start", "send", "interrupt", "approve", "stop", "resume",
                  "delete", "rename", "pin", "env"}

ASSUME SupervisorAssumption ==
    /\ Operations \subseteq AllOperations
    /\ StartKinds \subseteq Kinds /\ StartEnvs \subseteq EnvModes
    /\ {MaxOps, MaxGens, MaxLines, MaxCrashes} \subseteq Nat
    /\ IsFiniteSet(Handlers)
    /\ SpawnMayFail \in BOOLEAN

Gens == 1..MaxGens

VARIABLES
    log,        \* events of the session in events.sqlite; version = position
    state,      \* what the log folds to: load_session, without the refolding
    row,        \* its state_snapshot in read-model.sqlite, Absent without a row
    live,       \* SessionSupervisor::live: the generation it maps to, or 0
    prov,       \* the provider process of each generation
    pump,       \* the event pump task of each generation
    task,       \* the command handler tasks
    phase,      \* "up", or the step of a boot that follows a crash
    ops,        \* commands issued so far (bound)
    crashes,    \* crashes so far (bound)
    torn,       \* history: some write of log and row was not atomic
    lost,       \* history: a pump gave an event up after two conflicts
    spawnFailed,\* history: a started or resumed session got no provider
    panicked    \* history: write_session_row found no session to write

stored   == <<log, state>>
bounds   == <<ops, crashes>>
history  == <<torn, lost, spawnFailed, panicked>>
vars     == <<log, state, row, live, prov, pump, task, phase, ops, crashes,
              torn, lost, spawnFailed, panicked>>

\* The kind a session has for good: its first event says it.
Pure == log # <<>> /\ log[1].type = "SessionStarted" /\ log[1].kind = "pure"

Tasks ==
    [op : AllOperations \cup {"none"},
     pc : {"idle", "load", "append", "project", "forward", "spawn"},
     turn : TurnIds \cup {Absent}, expected : Nat, events : Seq(SessionEvents)]

Pumps ==
    [pc : {"none", "recv", "append", "project"}, cache : SessionStates,
     version : Nat, attempt : 0..1, events : Seq(SessionEvents)]

IdleTask == [op |-> "none", pc |-> "idle", turn |-> Absent, expected |-> 0,
             events |-> <<>>]
NoPump   == [pc |-> "none", cache |-> Absent, version |-> 0, attempt |-> 0,
             events |-> <<>>]
NewPump  == [NoPump EXCEPT !.pc = "recv"]

Init ==
    /\ log = <<>> /\ state = Absent /\ row = Absent /\ live = 0
    /\ prov = [g \in Gens |-> Unborn]
    /\ pump = [g \in Gens |-> NoPump]
    /\ task = [h \in Handlers |-> IdleTask]
    /\ phase = "up" /\ ops = 0 /\ crashes = 0
    /\ torn = FALSE /\ lost = FALSE /\ spawnFailed = FALSE /\ panicked = FALSE

\* Between append and the last projections.apply of the batch, log and row differ.
WritingTasks == {h \in Handlers : task[h].pc = "project"}
WritingPumps == {g \in Gens : pump[g].pc = "project"}
WindowOpen   == WritingTasks # {} \/ WritingPumps # {} \/ phase = "bootProject"

\* A generation number that no process and no handler about to spawn has taken.
Spawns == {g \in Gens : prov[g].phase # "unborn"}
Spawning == {h \in Handlers : task[h].op \in {"start", "resume"}}
MaySpawn == Cardinality(Spawns) + Cardinality(Spawning) < MaxGens

\* Turn ids are fresh UUIDs: none is in the log or in another handler's hands.
UsedTurns == {log[i].turn : i \in {j \in DOMAIN log : log[j].type = "TurnStarted"}}
FreshTurns == TurnIds \ (UsedTurns \cup {task[h].turn : h \in Handlers})

------------------------------------------------------------------------------
(* Command handlers.  `load_session` and `decide` come first: a refused      *)
(* command returns its error; a command without events goes straight to what *)
(* the handler does after persist_and_emit.                                  *)

\* Where a handler of operation op goes once its events are persisted.
AfterPersist(t) ==
    CASE t.op \in {"start", "resume"} -> [t EXCEPT !.pc = "spawn", !.events = <<>>]
      [] t.op \in {"send", "interrupt", "stop"} ->
             [t EXCEPT !.pc = "forward", !.events = <<>>]
      [] OTHER -> IdleTask

\* Mutant of Loaded: the batch is expected one version too far.
LoadedAhead(op, turn, decision) ==
    LET t == [op |-> op, pc |-> "append", turn |-> turn, expected |-> Len(log) + 1,
              events |-> decision.events]
    IN IF decision.error # "none" THEN IdleTask
       ELSE IF decision.events = <<>> THEN AfterPersist(t) ELSE t

Loaded(op, turn, decision) ==
    LET t == [op |-> op, pc |-> "append", turn |-> turn, expected |-> Len(log),
              events |-> decision.events]
    IN IF decision.error # "none" THEN IdleTask
       ELSE IF decision.events = <<>> THEN AfterPersist(t) ELSE t

\* The UI has seen the session: session_list and session_get read its row, and a
\* list that is not refreshed still shows a session that was deleted since.
Seen == row # Absent \/ (log # <<>> /\ state = Absent)

CanBegin(h, op) ==
    /\ phase = "up" /\ task[h] = IdleTask
    /\ op \in Operations /\ ops < MaxOps
    /\ op = "start" \/ Seen

Begin(h, op, turn, decision) ==
    /\ CanBegin(h, op)
    /\ ops' = ops + 1
    /\ task' = [task EXCEPT ![h] = Loaded(op, turn, decision)]
    /\ UNCHANGED <<stored, row, live, prov, pump, phase, crashes, history>>

\* start_session: the id is new, so it decides on the default state and expects
\* version 0 without loading anything.  There is one session to start.
StartSession(h, kind, env) ==
    /\ log = <<>> /\ Spawning = {} /\ MaySpawn
    /\ Begin(h, "start", Absent, Decide(Absent, StartCmd(kind, env)))

\* send_user_message: the first message may also give the session its title.
SendUserMessage(h, t, title) ==
    LET started  == Decide(state, StartTurnCmd(t))
        untitled == state # Absent /\ state.title = Absent /\ state.turns = <<>>
        titled   == IF untitled /\ title # Absent /\ started.error = "none"
                    THEN <<[type |-> "SessionRenamed", title |-> title]>> ELSE <<>>
    IN /\ t \in FreshTurns
       /\ Begin(h, "send", t, [started EXCEPT !.events = @ \o titled])

InterruptTurn(h, t) ==
    /\ t \in UsedTurns
    /\ Begin(h, "interrupt", t, Decide(state, InterruptTurnCmd(t)))

RenameSession(h, title) == Begin(h, "rename", Absent, Decide(state, RenameCmd(title)))

TogglePin(h) == Begin(h, "pin", Absent, Decide(state, TogglePinCmd))

SetEnvMode(h, mode) == Begin(h, "env", Absent, Decide(state, SetEnvModeCmd(mode)))

StopSession(h) == Begin(h, "stop", Absent, Decide(state, StopCmd))

\* resume_session: a pure session has no provider to resume, and a session whose
\* provider never gave its id is refused before the aggregate is asked.
ResumeSession(h) ==
    LET unattached == state # Absent /\ state.provider = Absent
    IN /\ MaySpawn
       /\ Begin(h, "resume", Absent,
                IF Pure \/ unattached THEN Refuse("NothingToResume")
                ELSE Decide(state, ResumeCmd))

\* approve_tool_use and reject_tool_use persist nothing: one send, if live.
AnswerTool(h, answer) ==
    /\ CanBegin(h, "approve")
    /\ live # 0
    /\ ops' = ops + 1
    /\ prov' = [prov EXCEPT ![live] = Push(@, answer)]
    /\ UNCHANGED <<stored, row, live, pump, task, phase, crashes, history>>

\* delete_session first takes the session out of the live map ...
DeleteSession(h) ==
    /\ CanBegin(h, "delete")
    /\ ops' = ops + 1
    /\ live' = 0
    /\ prov' = IF live = 0 THEN prov ELSE [prov EXCEPT ![live] = Push(@, StopCommand)]
    /\ task' = [task EXCEPT ![h] = [IdleTask EXCEPT !.op = "delete", !.pc = "load"]]
    /\ UNCHANGED <<stored, row, pump, phase, crashes, history>>

\* ... and only then loads it and decides.
LoadForDelete(h) ==
    /\ task[h].pc = "load"
    /\ task' = [task EXCEPT ![h] = Loaded("delete", Absent, Decide(state, DeleteCmd))]
    /\ UNCHANGED <<stored, row, live, prov, pump, phase, bounds, history>>

\* EventStore::append without a conflict.
Persist(events) ==
    /\ log' = log \o events
    /\ state' = ApplyBatch(state, events)

\* Mutant of AppendEvents: no version is compared.
AppendUnchecked(h) ==
    /\ task[h].pc = "append"
    /\ Persist(task[h].events)
    /\ task' = [task EXCEPT ![h].pc = "project"]
    /\ UNCHANGED <<row, live, prov, pump, phase, bounds, history>>

\* Mutant of AppendEvents: a conflict is ignored and the handler goes on.
AppendIgnoresConflict(h) ==
    LET t == task[h]
    IN /\ t.pc = "append"
       /\ IF Len(log) > t.expected
          THEN task' = [task EXCEPT ![h] = AfterPersist(t)] /\ UNCHANGED stored
          ELSE Persist(t.events) /\ task' = [task EXCEPT ![h].pc = "project"]
       /\ UNCHANGED <<row, live, prov, pump, phase, bounds, history>>

\* persist_and_emit: append the batch.  A row with one of its versions is there
\* when the log has grown since it was loaded; the handler then returns.
AppendEvents(h) ==
    LET t == task[h]
    IN /\ t.pc = "append"
       /\ IF Len(log) > t.expected
          THEN /\ task' = [task EXCEPT ![h] = IdleTask]
               /\ UNCHANGED <<stored, torn>>
          ELSE /\ Persist(t.events)
               /\ task' = [task EXCEPT ![h].pc = "project"]
               /\ torn' = (torn \/ WindowOpen)
       /\ UNCHANGED <<row, live, prov, pump, phase, bounds, lost, spawnFailed, panicked>>

\* Everything that is only in memory is gone: the tasks, the live map, the pumps,
\* and the children, whose stdin closes.
LoseMemory ==
    /\ live' = 0
    /\ prov' = [g \in Gens |-> IF prov[g].phase = "unborn" THEN Unborn
                               ELSE [Unborn EXCEPT !.phase = "exited"]]
    /\ pump' = [g \in Gens |-> NoPump]
    /\ task' = [h \in Handlers |-> IdleTask]
    /\ phase' = "boot"

\* persist_and_emit: apply the next event of the batch to the row.  Applying
\* SessionDeleted drops the row; folding any other event over a row that is not
\* there leaves nothing to write, and write_session_row panics, which aborts the
\* process (panic = "abort" in the release profile).
ProjectEvent(h) ==
    LET t == task[h]
        e == Head(t.events)
        s == Apply(row, e)
        rest == Tail(t.events)
    IN /\ t.pc = "project"
       /\ IF e.type # "SessionDeleted" /\ s = Absent
          THEN /\ LoseMemory
               /\ panicked' = TRUE
               /\ torn' = TRUE
               /\ UNCHANGED row
          ELSE /\ row' = s
               /\ task' = [task EXCEPT ![h] =
                               IF rest = <<>> THEN AfterPersist(t)
                               ELSE [t EXCEPT !.events = rest]]
               /\ UNCHANGED <<live, prov, pump, phase, torn, panicked>>
       /\ UNCHANGED <<stored, bounds, lost, spawnFailed>>

\* What a handler does once its events are persisted.
Forward(h, op, removed, c) ==
    /\ task[h].pc = "forward" /\ task[h].op = op
    /\ prov' = IF live = 0 THEN prov ELSE [prov EXCEPT ![live] = Push(@, c)]
    /\ live' = IF removed THEN 0 ELSE live
    /\ task' = [task EXCEPT ![h] = IdleTask]
    /\ UNCHANGED <<stored, row, pump, phase, bounds, history>>

ForwardMessage(h)   == Forward(h, "send", FALSE, SendMessage(task[h].turn))
ForwardInterrupt(h) == Forward(h, "interrupt", FALSE, Interrupt)
ForwardStop(h)      == Forward(h, "stop", TRUE, StopCommand)

\* Starting the provider and its pump, for a session that has a provider.  The
\* live entry is replaced whatever it was.
SpawnProvider(h) ==
    LET g == Cardinality(Spawns) + 1
    IN /\ task[h].pc = "spawn"
       /\ task[h].op = "resume" => row # Absent
       /\ ~Pure
       /\ prov' = [prov EXCEPT ![g] = Spawned]
       /\ pump' = [pump EXCEPT ![g] = NewPump]
       /\ live' = g
       /\ task' = [task EXCEPT ![h] = IdleTask]
       /\ UNCHANGED <<stored, row, phase, bounds, history>>

\* A pure session has none; provider.start_session may fail; and a resume finds
\* no project when the session's row is gone.
SpawnNothing(h) ==
    LET noRow == task[h].op = "resume" /\ row = Absent
    IN /\ task[h].pc = "spawn"
       /\ Pure \/ noRow \/ SpawnMayFail
       /\ task' = [task EXCEPT ![h] = IdleTask]
       /\ spawnFailed' = (spawnFailed \/ ~Pure)
       /\ UNCHANGED <<stored, row, live, prov, pump, phase, bounds, torn, lost, panicked>>

------------------------------------------------------------------------------
(* The event pump: handle_provider_event on the head of the process's events. *)

CommandOf(e) ==
    CASE e.type = "SessionReady"   -> AttachCmd(e.provider)
      [] e.type = "AssistantBlock" -> AppendCmd(e.turn, e.block)
      [] e.type = "TurnCompleted"  -> CompleteTurnCmd(e.turn)
      [] e.type = "TurnFailed"     -> FailTurnCmd(e.turn)
      [] e.type = "SessionEnded"   -> StopCmd

\* The event is done with; the cache stays for the next one.
Received(g, p) == [p EXCEPT !.pc = "recv", !.attempt = 0, !.events = <<>>]

Consume(g) == prov' = [prov EXCEPT ![g].out = Tail(@)]

\* A tool prompt only goes to the UI.
PumpApproval(g) ==
    /\ pump[g].pc = "recv" /\ prov[g].out # <<>>
    /\ Head(prov[g].out).type = "ToolApprovalRequested"
    /\ Consume(g)
    /\ UNCHANGED <<stored, row, live, pump, task, phase, bounds, history>>

\* Decide on the cached state, loading it when there is none.  Any refusal ends
\* the event: a late one is dropped, another error is only logged.
PumpDecide(g) ==
    LET p == pump[g]
        e == Head(prov[g].out)
        seeded == IF p.cache = Absent /\ p.version = 0
                  THEN [p EXCEPT !.cache = state, !.version = Len(log)] ELSE p
        decision == Decide(seeded.cache, CommandOf(e))
    IN /\ p.pc = "recv" /\ prov[g].out # <<>>
       /\ e.type # "ToolApprovalRequested"
       /\ IF decision.events = <<>>
          THEN /\ pump' = [pump EXCEPT ![g] = Received(g, seeded)]
               /\ Consume(g)
          ELSE /\ pump' = [pump EXCEPT ![g] = [seeded EXCEPT !.pc = "append",
                                                   !.events = decision.events]]
               /\ UNCHANGED prov
       /\ UNCHANGED <<stored, row, live, task, phase, bounds, history>>

\* Mutant of PumpAppend: the first conflict loses the event.
PumpAppendOnce(g) ==
    LET p == pump[g]
    IN /\ p.pc = "append"
       /\ IF Len(log) = p.version
          THEN /\ Persist(p.events)
               /\ pump' = [pump EXCEPT ![g] =
                              [p EXCEPT !.pc = "project", !.version = @ + Len(p.events),
                                        !.cache = ApplyBatch(@, p.events)]]
               /\ UNCHANGED prov
          ELSE pump' = [pump EXCEPT ![g] = Received(g, p)] /\ Consume(g) /\ UNCHANGED stored
       /\ UNCHANGED <<row, live, task, phase, bounds, history>>

\* Mutant of PumpAppend: a conflict keeps the stale cache and tries again.
PumpAppendForever(g) ==
    LET p == pump[g]
    IN /\ p.pc = "append"
       /\ IF Len(log) = p.version
          THEN /\ Persist(p.events)
               /\ pump' = [pump EXCEPT ![g] =
                              [p EXCEPT !.pc = "project", !.version = @ + Len(p.events),
                                        !.cache = ApplyBatch(@, p.events)]]
          ELSE pump' = [pump EXCEPT ![g].pc = "recv"] /\ UNCHANGED stored
       /\ UNCHANGED <<row, live, prov, task, phase, bounds, history>>

\* Append at the cached version and fold the events into the cache.  The first
\* conflict drops the cache and decides again; the second gives the event up.
PumpAppend(g) ==
    LET p == pump[g]
    IN /\ p.pc = "append"
       /\ IF Len(log) = p.version
          THEN /\ Persist(p.events)
               /\ pump' = [pump EXCEPT ![g] =
                              [p EXCEPT !.pc = "project", !.version = @ + Len(p.events),
                                        !.cache = ApplyBatch(@, p.events)]]
               /\ torn' = (torn \/ WindowOpen)
               /\ UNCHANGED <<prov, lost>>
          ELSE IF p.attempt = 0
          THEN /\ pump' = [pump EXCEPT ![g] = [NewPump EXCEPT !.attempt = 1]]
               /\ UNCHANGED <<stored, prov, torn, lost>>
          ELSE /\ pump' = [pump EXCEPT ![g] = Received(g, p)]
               /\ Consume(g)
               /\ lost' = TRUE
               /\ UNCHANGED <<stored, torn>>
       /\ UNCHANGED <<row, live, task, phase, bounds, spawnFailed, panicked>>

\* Mutant of PumpProject: the row is not written on the streaming path.
PumpSkipsRow(g) ==
    /\ pump[g].pc = "project"
    /\ pump' = [pump EXCEPT ![g] = Received(g, pump[g])]
    /\ Consume(g)
    /\ UNCHANGED <<stored, row, live, task, phase, bounds, history>>

\* apply_session_state: the row is overwritten with the cached state.
PumpProject(g) ==
    /\ pump[g].pc = "project"
    /\ row' = pump[g].cache
    /\ pump' = [pump EXCEPT ![g] = Received(g, pump[g])]
    /\ Consume(g)
    /\ UNCHANGED <<stored, live, task, phase, bounds, history>>

------------------------------------------------------------------------------
(* Provider processes. *)

ProviderStep(g, p) ==
    /\ prov' = [prov EXCEPT ![g] = p]
    /\ UNCHANGED <<stored, row, live, pump, task, phase, bounds, history>>

Write(g) == CanWrite(prov[g]) /\ ProviderStep(g, WriterStep(prov[g]))

\* The CLI announces its conversation before it prints anything else.  Announcing it
\* again, with the id the session already has, would decide no event.
Ready(g, id) ==
    /\ Running(prov[g]) /\ prov[g].lines = 0 /\ prov[g].work # <<>>
    /\ ProviderStep(g, PrintReady(prov[g], id))

MayPrint(g) == Works(prov[g]) /\ prov[g].lines \in 1..MaxLines

Stream(g, b) == MayPrint(g) /\ ProviderStep(g, PrintBlock(prov[g], b))

Ask(g) == MayPrint(g) /\ Running(prov[g]) /\ ProviderStep(g, AskTool(prov[g]))

Result(g, failed) ==
    /\ Works(prov[g]) /\ prov[g].lines > 0
    /\ ProviderStep(g, PrintResult(prov[g], failed))

\* By itself at any time, or because it was killed.
Exit(g) == CanPrint(prov[g]) /\ ProviderStep(g, ExitChild(prov[g]))

------------------------------------------------------------------------------
(* Crash and boot. *)

Crash ==
    /\ phase \in {"up", "boot", "bootProject"} /\ crashes < MaxCrashes
    /\ crashes' = crashes + 1
    /\ torn' = (torn \/ WindowOpen)
    /\ LoseMemory
    /\ UNCHANGED <<stored, row, ops, lost, spawnFailed, panicked>>

\* reconcile_stopped_sessions_from_projection: a session whose row says running
\* and whose log agrees gets a SessionStopped.
Reconcile ==
    /\ phase = "boot"
    /\ IF /\ row # Absent /\ row.status = "running"
          /\ state # Absent /\ state.status = "running"
       THEN /\ Persist(Decide(state, StopCmd).events)
            /\ phase' = "bootProject"
       ELSE phase' = "up" /\ UNCHANGED stored
    /\ UNCHANGED <<row, live, prov, pump, task, bounds, history>>

ReconcileProject ==
    /\ phase = "bootProject"
    /\ row' = Apply(row, Last(log))
    /\ phase' = "up"
    /\ UNCHANGED <<stored, live, prov, pump, task, bounds, history>>

------------------------------------------------------------------------------
Text == [kind |-> "text", size |-> 1]
Tool == [kind |-> "tool", size |-> 1]

HandlerBegins(h) ==
    \/ \E kind \in StartKinds, env \in StartEnvs : StartSession(h, kind, env)
    \/ \E t \in TurnIds, title \in Titles \cup {Absent} : SendUserMessage(h, t, title)
    \/ \E t \in TurnIds : InterruptTurn(h, t)
    \/ \E title \in Titles \cup {Absent} : RenameSession(h, title)
    \/ TogglePin(h)
    \/ \E mode \in EnvModes : SetEnvMode(h, mode)
    \/ StopSession(h)
    \/ ResumeSession(h)
    \/ \E answer \in {ApproveToolUse, RejectToolUse} : AnswerTool(h, answer)
    \/ DeleteSession(h)

HandlerContinues(h) ==
    \/ LoadForDelete(h) \/ AppendEvents(h) \/ ProjectEvent(h)
    \/ ForwardMessage(h) \/ ForwardInterrupt(h) \/ ForwardStop(h)
    \/ SpawnProvider(h) \/ SpawnNothing(h)

PumpStep(g) == PumpApproval(g) \/ PumpDecide(g) \/ PumpAppend(g) \/ PumpProject(g)

CliPrints(g) ==
    \/ \E id \in ProviderIds : Ready(g, id)
    \/ \E b \in {Text, Tool} : Stream(g, b)
    \/ Ask(g)
    \/ \E failed \in BOOLEAN : Result(g, failed)

Next ==
    \/ \E h \in Handlers : HandlerBegins(h) \/ HandlerContinues(h)
    \/ \E g \in Gens : PumpStep(g) \/ Write(g) \/ CliPrints(g) \/ Exit(g)
    \/ Crash \/ Reconcile \/ ReconcileProject

Spec == Init /\ [][Next]_vars

------------------------------------------------------------------------------
(* Properties. *)

Idle == \A h \in Handlers : task[h] = IdleTask
Quiet ==
    /\ phase = "up" /\ Idle
    /\ \A g \in Gens : /\ prov[g].inbox = <<>> /\ prov[g].out = <<>>
                       /\ prov[g].phase # "killed"

\* Type invariant.  What is expected by an append is never ahead of the log.
TypeOK ==
    /\ log \in Seq(SessionEvents)
    /\ {row, state} \subseteq SessionStates
    /\ live \in 0..MaxGens
    /\ prov \in [Gens -> Providers]
    /\ pump \in [Gens -> Pumps] /\ \A g \in Gens : pump[g].version <= Len(log)
    /\ task \in [Handlers -> Tasks] /\ \A h \in Handlers : task[h].expected <= Len(log)
    /\ phase \in {"up", "boot", "bootProject"}
    /\ ops \in 0..MaxOps /\ crashes \in 0..MaxCrashes
    /\ {torn, lost, spawnFailed, panicked} \subseteq BOOLEAN

\* The command a handler was given.
CommandsOf(t) ==
    CASE t.op = "start"     -> {StartCmd(kind, env) : kind \in StartKinds, env \in StartEnvs}
      [] t.op = "send"      -> {StartTurnCmd(t.turn)}
      [] t.op = "interrupt" -> {InterruptTurnCmd(t.turn)}
      [] t.op = "stop"      -> {StopCmd}
      [] t.op = "resume"    -> {ResumeCmd}
      [] t.op = "delete"    -> {DeleteCmd}
      [] t.op = "pin"       -> {TogglePinCmd}
      [] t.op = "rename"    -> {RenameCmd(title) : title \in Titles \cup {Absent}}
      [] t.op = "env"       -> {SetEnvModeCmd(mode) : mode \in EnvModes}

\* An append that meets no conflict appends what the session decides on the state
\* it lands on, whatever was loaded when and by whom: stale decisions conflict.
DecisionsAreCurrent ==
    /\ \A h \in Handlers :
          task[h].pc = "append" /\ task[h].expected = Len(log) =>
              \E c \in CommandsOf(task[h]) :
                  Decide(state, c).events = <<Head(task[h].events)>>
    /\ \A g \in Gens :
          pump[g].pc = "append" /\ pump[g].version = Len(log) =>
              Decide(state, CommandOf(Head(prov[g].out))).events = pump[g].events

\* However handlers, pumps and boots race to append, the log is a lawful history:
\* optimistic concurrency in event_store.append makes every decision be taken
\* against the state its events land on.
LogIsLawful == Lawful(log)

\* A pump's cache is the fold of the first `version` events of the log, so that a
\* decision taken on it is stale exactly when the append conflicts.
CacheIsPrefix ==
    /\ state = Replay(log)
    /\ \A g \in Gens : pump[g].version > 0 =>
           pump[g].cache = Replay(SubSeq(log, 1, pump[g].version))

\* Unless two writes of log and row overlapped, or a crash fell into one, the row
\* is what the log folds to whenever no write is in progress.
LockstepUnlessTorn == ~torn /\ ~WindowOpen => row = state

\* A session whose log says running has a provider, once everybody is done: a
\* process that ends says so and the pump stops the session.  The exceptions are
\* named: the spawn failed, the pump gave SessionEnded up after two conflicts, or
\* a crash found a row that misled the reconciliation of the boot.
RunningHasProvider ==
    (/\ Quiet /\ ~spawnFailed /\ ~lost /\ (torn => crashes = 0) /\ ~Pure
     /\ state # Absent /\ state.status = "running")
        => \E g \in Gens : Running(prov[g])

\* A provider is spawned for a persisted start or resume and for nothing else, so
\* of two handlers that resume at the same time only one spawns.
SpawnsArePersisted ==
    Cardinality(Spawns) <=
        Cardinality(OfType(log, {"SessionStarted", "SessionResumed"}))

\* merge_block loses nothing and glues what it should: the blocks of a turn hold as
\* much as was appended to it, and no text block follows another.
TextIsCoalesced == Coalesced(log, state)

(* What the code's comments and assertions say and its behaviour contradicts. *)

\* apply_session_event: a delete drops the row; and it stays dropped.
DeletedRowIsGone ==
    log # <<>> /\ state = Absent /\ ~WindowOpen => row = Absent

\* write_session_row: "session state populated after apply".
RowHasState == ~panicked

\* resume_session: "a crash mid-spawn still leaves the aggregate consistent".
StoppedRowCanResume ==
    (/\ Quiet /\ crashes > 0 /\ ~\E g \in Gens : Running(prov[g])
     /\ state # Absent /\ row # Absent /\ row.status = "stopped"
     /\ row.provider # Absent)
        => Decide(state, ResumeCmd).error = "none"

\* Module header: "owns one running ProviderSession per Oxyris session".
OneProvider ==
    Quiet => Cardinality({g \in Gens : Running(prov[g])}) <= 1

\* delete_session: no provider process "lives past the delete".
NoProviderPastDelete ==
    Quiet /\ log # <<>> /\ state = Absent => \A g \in Gens : ~Running(prov[g])

\* handle_provider_event_core: what it drops are "late events from a turn the user
\* already interrupted", so not the output of a turn that is still streaming.
PumpState(g) ==
    IF pump[g].cache = Absent /\ pump[g].version = 0 THEN state ELSE pump[g].cache

StreamingOutputIsKept ==
    \A g \in Gens :
        (pump[g].pc = "recv" /\ prov[g].out # <<>> /\ state # Absent) =>
            LET e == Head(prov[g].out)
            IN (/\ e.type \in {"AssistantBlock", "TurnCompleted"}
                /\ HasTurn(state, e.turn) /\ TurnStatus(state, e.turn) = "streaming")
                   => Decide(PumpState(g), CommandOf(e)).events # <<>>

------------------------------------------------------------------------------
(* Liveness.  The runtime keeps polling every task that can go on, and the    *)
(* operating system delivers a kill.  Nothing obliges the UI to issue a       *)
(* command, the CLI to print or to exit by itself, or the machine to crash.   *)

Fairness ==
    /\ \A h \in Handlers : WF_vars(HandlerContinues(h))
    /\ \A g \in Gens : /\ WF_vars(PumpStep(g))
                       /\ WF_vars(Write(g))
                       /\ WF_vars(prov[g].phase = "killed" /\ Exit(g))
    /\ WF_vars(Reconcile) /\ WF_vars(ReconcileProject)

FairSpec == Spec /\ Fairness

\* Every provider that is told to stop ends, whatever it is doing and even if it
\* waits for the answer to a tool prompt ...
StopEndsProvider ==
    \A g \in Gens :
        (\E i \in DOMAIN prov[g].inbox : prov[g].inbox[i] = StopCommand)
            ~> prov[g].phase = "exited"

\* ... and everything a provider said before it ended is handled by its pump,
\* whatever conflicts the pump meets.
PumpDrains ==
    \A g \in Gens : prov[g].phase = "killed" ~>
                        prov[g].phase = "exited" /\ prov[g].out = <<>>
==============================================================================
