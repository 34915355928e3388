------------------------------- MODULE Session -------------------------------
(***************************************************************************)
(* The Session aggregate: one conversation with a provider, owning its      *)
(* turns and the blocks they accumulate (apps/desktop/src/domain/session.rs).*)
(*                                                                         *)
(* The aggregate is pure.  Decide(s, c) is the list of events a command     *)
(* produces, or the reason it is refused; Apply(s, e) folds one event into  *)
(* the state; Replay(log) folds a whole log.  Nothing here is a state       *)
(* machine: SessionSupervisor.tla owns the variables and calls these.       *)
(*                                                                         *)
(* Abstractions.  The fields that no decision and no property reads (ids,   *)
(* model, runtime, timestamps, token counts, user text) are left out.  A    *)
(* pin is a Boolean, a block is its kind and its length, and an error is    *)
(* its name.                                                               *)
(***************************************************************************)
EXTENDS Naturals, Sequences, SequencesExt

CONSTANTS
    TurnIds,        \* ids of turns; the UI gets them as turn-<uuid>
    ProviderIds,    \* ids the provider CLI gives its conversations
    Titles,         \* titles, already trimmed and not empty
    Absent          \* the None of every Option: no session, no title, no id

EnvModes   == {"default", "worktree"}
Kinds      == {"structured", "pure", "assistant"}
Statuses   == {"idle", "running", "stopped", "errored"}
TurnStates == {"streaming", "completed", "failed", "interrupted"}

\* AssistantBlock: text coalesces, tool use and tool results do not.
Blocks == [kind : {"text", "tool"}, size : Nat]
Turns  == [id : TurnIds, status : TurnStates, blocks : Seq(Blocks)]

SessionData ==
    [status   : Statuses,
     turns    : Seq(Turns),
     provider : ProviderIds \cup {Absent},
     title    : Titles \cup {Absent},
     env      : EnvModes,
     kind     : Kinds,
     pinned   : BOOLEAN]

\* SessionState { inner: Option<SessionData> }
SessionStates == SessionData \cup {Absent}

SessionEvents ==
    [type : {"SessionStarted"}, kind : Kinds, env : EnvModes]
    \cup [type : {"SessionStopped", "SessionErrored", "SessionResumed", "SessionDeleted"}]
    \cup [type : {"SessionEnvModeChanged"}, mode : EnvModes]
    \cup [type : {"SessionRenamed"}, title : Titles]
    \cup [type : {"SessionPinToggled"}, pinned : BOOLEAN]
    \cup [type : {"ProviderSessionAttached"}, provider : ProviderIds]
    \cup [type : {"TurnStarted", "TurnCompleted", "TurnFailed", "TurnInterrupted"},
          turn : TurnIds]
    \cup [type : {"TurnAssistantBlockAppended"}, turn : TurnIds, block : Blocks]

\* What one command appends: an event, or two when the first message of a session
\* also gives it its title.
Batches == {events \in Seq(SessionEvents) : Len(events) \in 1..2}

\* None is not a session.
ASSUME SessionAssumption == Absent \notin SessionData

------------------------------------------------------------------------------
(* Decisions: the events to append, or the error the command is refused with. *)

Accept(events) == [error |-> "none", events |-> events]
Refuse(error)  == [error |-> error, events |-> <<>>]

\* The index of the turn `Iterator::find` returns: the first with that id, or 0.
TurnAt(s, t) == SelectInSeq(s.turns, LAMBDA turn : turn.id = t)
HasTurn(s, t) == TurnAt(s, t) # 0
TurnStatus(s, t) == s.turns[TurnAt(s, t)].status

StartCmd(kind, env) == [type |-> "Start", kind |-> kind, env |-> env]
SetEnvModeCmd(m)    == [type |-> "SetEnvMode", mode |-> m]
StopCmd             == [type |-> "Stop"]
StartTurnCmd(t)     == [type |-> "StartTurn", turn |-> t]
AppendCmd(t, b)     == [type |-> "AppendAssistantBlock", turn |-> t, block |-> b]
CompleteTurnCmd(t)  == [type |-> "CompleteTurn", turn |-> t]
FailTurnCmd(t)      == [type |-> "FailTurn", turn |-> t]
InterruptTurnCmd(t) == [type |-> "InterruptTurn", turn |-> t]
AttachCmd(p)        == [type |-> "AttachProviderSession", provider |-> p]
ResumeCmd           == [type |-> "Resume"]
RenameCmd(title)    == [type |-> "Rename", title |-> title]  \* Absent: all blanks
DeleteCmd           == [type |-> "Delete"]
TogglePinCmd        == [type |-> "TogglePin"]

DecideSetEnvMode(s, mode) ==
    IF s.env = mode THEN Accept(<<>>)
    ELSE Accept(<<[type |-> "SessionEnvModeChanged", mode |-> mode]>>)

DecideStop(s) ==
    IF s.status = "stopped" THEN Accept(<<>>)
    ELSE Accept(<<[type |-> "SessionStopped"]>>)

DecideStartTurn(s, t) ==
    CASE s.status = "stopped" -> Refuse("NotRunning")
      [] s.status # "stopped" /\ HasTurn(s, t) -> Refuse("UnknownTurn")
      [] OTHER -> Accept(<<[type |-> "TurnStarted", turn |-> t]>>)

DecideAppend(s, t, block) ==
    CASE ~HasTurn(s, t) -> Refuse("UnknownTurn")
      [] HasTurn(s, t) /\ TurnStatus(s, t) # "streaming" -> Refuse("TurnNotStreaming")
      [] OTHER -> Accept(<<[type |-> "TurnAssistantBlockAppended",
                            turn |-> t, block |-> block]>>)

\* Completing a turn that already ended is a no-op, not an error.
DecideComplete(s, t) ==
    CASE ~HasTurn(s, t) -> Refuse("UnknownTurn")
      [] HasTurn(s, t) /\ TurnStatus(s, t) # "streaming" -> Accept(<<>>)
      [] OTHER -> Accept(<<[type |-> "TurnCompleted", turn |-> t]>>)

\* Failing and interrupting only look for the turn: its status is not read.
DecideFail(s, t) ==
    IF HasTurn(s, t) THEN Accept(<<[type |-> "TurnFailed", turn |-> t]>>)
    ELSE Refuse("UnknownTurn")

DecideInterrupt(s, t) ==
    IF HasTurn(s, t) THEN Accept(<<[type |-> "TurnInterrupted", turn |-> t]>>)
    ELSE Refuse("UnknownTurn")

DecideAttach(s, p) ==
    IF s.provider = p THEN Accept(<<>>)
    ELSE Accept(<<[type |-> "ProviderSessionAttached", provider |-> p]>>)

DecideResume(s) ==
    CASE s.status \notin {"stopped", "errored"} -> Refuse("NotResumable")
      [] s.status \in {"stopped", "errored"} /\ s.provider = Absent ->
             Refuse("NoProviderSession")
      [] OTHER -> Accept(<<[type |-> "SessionResumed"]>>)

DecideRename(s, title) ==
    CASE title = Absent -> Refuse("EmptyTitle")
      [] title # Absent /\ s.title = title -> Accept(<<>>)
      [] OTHER -> Accept(<<[type |-> "SessionRenamed", title |-> title]>>)

DecideTogglePin(s) ==
    Accept(<<[type |-> "SessionPinToggled", pinned |-> ~s.pinned]>>)

\* Session::decide.  Every command but Start needs a session to act on.
Decide(s, c) ==
    IF c.type = "Start"
    THEN IF s = Absent
         THEN Accept(<<[type |-> "SessionStarted", kind |-> c.kind, env |-> c.env]>>)
         ELSE Refuse("AlreadyExists")
    ELSE IF s = Absent
    THEN Refuse("NotFound")
    ELSE CASE c.type = "SetEnvMode"            -> DecideSetEnvMode(s, c.mode)
           [] c.type = "Stop"                  -> DecideStop(s)
           [] c.type = "StartTurn"             -> DecideStartTurn(s, c.turn)
           [] c.type = "AppendAssistantBlock"  -> DecideAppend(s, c.turn, c.block)
           [] c.type = "CompleteTurn"          -> DecideComplete(s, c.turn)
           [] c.type = "FailTurn"              -> DecideFail(s, c.turn)
           [] c.type = "InterruptTurn"         -> DecideInterrupt(s, c.turn)
           [] c.type = "AttachProviderSession" -> DecideAttach(s, c.provider)
           [] c.type = "Resume"                -> DecideResume(s)
           [] c.type = "Rename"                -> DecideRename(s, c.title)
           [] c.type = "Delete"                -> Accept(<<[type |-> "SessionDeleted"]>>)
           [] c.type = "TogglePin"             -> DecideTogglePin(s)

------------------------------------------------------------------------------
(* Folding events. *)

\* Mutant of MergeBlock: every delta gets a block of its own.
MergeNothing(blocks, b) == Append(blocks, b)

\* merge_block: a text block is glued to a text block just before it.
MergeBlock(blocks, b) ==
    IF b.kind = "text" /\ blocks # <<>> /\ Last(blocks).kind = "text"
    THEN [blocks EXCEPT ![Len(blocks)].size = @ + b.size]
    ELSE Append(blocks, b)

Fresh(kind, env) ==
    [status |-> "running", turns |-> <<>>, provider |-> Absent, title |-> Absent,
     env |-> env, kind |-> kind, pinned |-> FALSE]

\* The first turn with that id ends with `status`; without one nothing changes.
EndTurn(s, t, status) ==
    IF HasTurn(s, t) THEN [s EXCEPT !.turns[TurnAt(s, t)].status = status] ELSE s

AppendBlock(s, t, b) ==
    IF HasTurn(s, t)
    THEN [s EXCEPT !.turns[TurnAt(s, t)].blocks = MergeBlock(@, b)]
    ELSE s

\* A TurnStarted is pushed whatever turns are there: the id is not looked up.
PushTurn(s, t) ==
    [s EXCEPT !.turns = Append(@, [id |-> t, status |-> "streaming", blocks |-> <<>>])]

\* Session::apply.  Only SessionStarted says anything of a session that is not
\* there; every other event leaves None alone.
Apply(s, e) ==
    IF e.type = "SessionStarted" THEN Fresh(e.kind, e.env)
    ELSE IF s = Absent \/ e.type = "SessionDeleted" THEN Absent
    ELSE CASE e.type = "SessionEnvModeChanged"      -> [s EXCEPT !.env = e.mode]
           [] e.type = "SessionStopped"             -> [s EXCEPT !.status = "stopped"]
           [] e.type = "SessionErrored"             -> [s EXCEPT !.status = "errored"]
           [] e.type = "SessionResumed"             -> [s EXCEPT !.status = "running"]
           [] e.type = "TurnStarted"                -> PushTurn(s, e.turn)
           [] e.type = "TurnAssistantBlockAppended" -> AppendBlock(s, e.turn, e.block)
           [] e.type = "TurnCompleted"              -> EndTurn(s, e.turn, "completed")
           [] e.type = "TurnFailed"                 -> EndTurn(s, e.turn, "failed")
           [] e.type = "TurnInterrupted"            -> EndTurn(s, e.turn, "interrupted")
           [] e.type = "ProviderSessionAttached"    -> [s EXCEPT !.provider = e.provider]
           [] e.type = "SessionRenamed"             -> [s EXCEPT !.title = e.title]
           [] e.type = "SessionPinToggled"          -> [s EXCEPT !.pinned = e.pinned]

\* `for ev in &events { Session::apply(state, ev) }`
ApplyBatch(s, batch) ==
    IF Len(batch) = 1 THEN Apply(s, batch[1]) ELSE Apply(Apply(s, batch[1]), batch[2])

\* oxyris_core::replay::<Session>
Replay(events) == FoldLeft(Apply, Absent, events)
==============================================================================
