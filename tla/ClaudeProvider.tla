--------------------------- MODULE ClaudeProvider ---------------------------
(***************************************************************************)
(* One provider process: the `claude` CLI child and the three tasks         *)
(* ClaudeProvider::start_session spawns around it                           *)
(* (crates/oxyris-claude/src/provider.rs).                                  *)
(*                                                                         *)
(*   inbox  -> command writer task -> the child's stdin                     *)
(*   the child's stdout -> reader task -> out                               *)
(*   the reaper kills the child when the writer asks for it                 *)
(*                                                                         *)
(* A provider is a record; each operator below is one step of one of the    *)
(* tasks, as a function of that record.  SessionSupervisor.tla owns the     *)
(* records and interleaves the steps.                                       *)
(*                                                                         *)
(* The CLI is external: it works on the messages written to its stdin in    *)
(* order, prints blocks and one result per message, may ask to use a tool   *)
(* and wait for the answer, and may exit by itself at any time.  A line of  *)
(* output is printed and read in one step, and a line carries one block.    *)
(***************************************************************************)
EXTENDS Session

ProviderPhases == {"unborn", "running", "killed", "exited"}

\* ProviderCommand and ProviderEvent (crates/oxyris-provider/src/lib.rs)
SendMessage(t) == [type |-> "SendMessage", turn |-> t]
StopCommand    == [type |-> "Stop", turn |-> Absent]
Interrupt      == [type |-> "Interrupt", turn |-> Absent]
ApproveToolUse == [type |-> "ApproveToolUse", turn |-> Absent]
RejectToolUse  == [type |-> "RejectToolUse", turn |-> Absent]

SessionReady(p)          == [type |-> "SessionReady", provider |-> p]
AssistantBlock(t, b)     == [type |-> "AssistantBlock", turn |-> t, block |-> b]
TurnCompleted(t)         == [type |-> "TurnCompleted", turn |-> t]
TurnFailed(t)            == [type |-> "TurnFailed", turn |-> t]
ToolApprovalRequested(t) == [type |-> "ToolApprovalRequested", turn |-> t]
SessionEnded             == [type |-> "SessionEnded"]

ProviderCommands ==
    [type : {"SendMessage"}, turn : TurnIds]
    \cup [type : {"Stop", "Interrupt", "ApproveToolUse", "RejectToolUse"}, turn : {Absent}]

ProviderEvents ==
    [type : {"SessionReady"}, provider : ProviderIds]
    \cup [type : {"AssistantBlock"}, turn : TurnIds, block : Blocks]
    \cup [type : {"TurnCompleted", "TurnFailed", "ToolApprovalRequested"}, turn : TurnIds]
    \cup [type : {"SessionEnded"}]

Providers ==
    [phase   : ProviderPhases,
     inbox   : Seq(ProviderCommands),
     writer  : BOOLEAN,                      \* the writer task still reads inbox
     active  : TurnIds \cup {Absent},        \* active_turn
     work    : Seq(TurnIds),                 \* messages the CLI has not answered
     asking  : BOOLEAN,                      \* the CLI waits for a tool approval
     lines   : Nat,                          \* blocks and requests printed so far
     out     : Seq(ProviderEvents)]

Unborn ==
    [phase |-> "unborn", inbox |-> <<>>, writer |-> FALSE, active |-> Absent,
     work |-> <<>>, asking |-> FALSE, lines |-> 0, out |-> <<>>]

\* start_session: the child runs, both channels are empty, no turn is active.
Spawned == [Unborn EXCEPT !.phase = "running", !.writer = TRUE]

Running(p) == p.phase = "running"

\* commands.send(c): once the writer task is gone the receiver is dropped and
\* the send fails; every caller ignores that (`let _ =`).
Push(p, c) == IF p.writer THEN [p EXCEPT !.inbox = Append(@, c)] ELSE p

------------------------------------------------------------------------------
(* The command writer task. *)

WriterGone(p) == [p EXCEPT !.writer = FALSE, !.inbox = <<>>]

CanWrite(p) == p.writer /\ p.inbox # <<>>

\* A message makes its turn the active one before it is written; writing to a
\* child that has exited fails and ends the task.
WriteMessage(p, t) ==
    IF Running(p)
    THEN [p EXCEPT !.inbox = Tail(@), !.active = t, !.work = Append(@, t)]
    ELSE [WriterGone(p) EXCEPT !.active = t]

\* Mutant of KillChild: the writer stops reading without firing the kill signal.
LeaveChild(p) == WriterGone(p)

\* Interrupt and Stop both fire the kill signal and end the task.
KillChild(p) ==
    [WriterGone(p) EXCEPT !.phase = IF Running(p) THEN "killed" ELSE @]

\* The answer to a tool prompt lets the CLI go on with the turn.
WriteApproval(p) ==
    IF Running(p)
    THEN [p EXCEPT !.inbox = Tail(@), !.asking = FALSE]
    ELSE WriterGone(p)

\* One command: Head(p.inbox).
WriterStep(p) ==
    LET c == Head(p.inbox)
    IN CASE c.type = "SendMessage" -> WriteMessage(p, c.turn)
         [] c.type \in {"Interrupt", "Stop"} -> KillChild(p)
         [] c.type \in {"ApproveToolUse", "RejectToolUse"} -> WriteApproval(p)

------------------------------------------------------------------------------
(* The stdout reader task and the CLI it reads from.  translate_and_emit     *)
(* tags what it reads with the turn that is active when it reads it.         *)

\* A child that has been sent a kill signal may still have output in the pipe.
CanPrint(p) == p.phase \in {"running", "killed"}
Works(p)    == CanPrint(p) /\ p.work # <<>> /\ ~p.asking

Emit(p, e)      == [p EXCEPT !.out = Append(@, e)]
PrintLine(p, e) == [Emit(p, e) EXCEPT !.lines = @ + 1]

PrintReady(p, id) == PrintLine(p, SessionReady(id))
PrintBlock(p, b)  == PrintLine(p, AssistantBlock(p.active, b))
AskTool(p)        == [PrintLine(p, ToolApprovalRequested(p.active)) EXCEPT !.asking = TRUE]

\* The result line of the message being worked on, an error or not.
PrintResult(p, failed) ==
    [Emit(p, IF failed THEN TurnFailed(p.active) ELSE TurnCompleted(p.active))
        EXCEPT !.work = Tail(@)]

\* EOF on stdout: the reader's last event is SessionEnded, and the child is
\* reaped.  The writer only notices at its next write.
ExitChild(p) ==
    [Emit(p, SessionEnded) EXCEPT !.phase = "exited", !.work = <<>>, !.asking = FALSE]
==============================================================================
