----------------------------- MODULE PureSignals -----------------------------
(* What the reader of a claude PTY makes of its output (infra/pure_signals.rs)  *)
(* and the level snapshot the desktop's dot shows (compute_pure_state in        *)
(* infra/pty.rs).  A painted line is known by the marker it matches; a chunk is *)
(* one line, or a window title.  The rolling tail is a sequence of lines.       *)
EXTENDS Naturals, SequencesExt

CONSTANTS
    TailLines,     \* TAIL_CAP_CHARS, in lines
    RecentLines    \* RECENT_PROMPT_CHARS, in lines

ASSUME TailAssumption == {TailLines, RecentLines} \subseteq Nat \ {0} /\ RecentLines <= TailLines

\* "menu" is a prompt, "danger" a prompt for a denylisted command, "chrome" a redraw
\* with no visible text.
Prompts == {"menu", "danger"}
Working == {"spinner"}
Interrupt == {"interrupt"}
Footers == {"footer", "footerShells"}
Lines == Prompts \cup Working \cup Interrupt \cup Footers
         \cup {"poll", "recap", "waiting", "apiError", "interrupted", "prose", "chrome"}
\* The spinner title flips between two half circles.
Titles == {"left", "right", "settled", "other"}
Unknown == "unknown"

NewSniffer ==
    [tail |-> <<>>, prompt |-> FALSE, poll |-> FALSE, turnEnd |-> FALSE, recap |-> FALSE,
     working |-> FALSE, waiting |-> FALSE, apiError |-> FALSE,
     title |-> Unknown, titleFresh |-> FALSE, blurred |-> FALSE]

HasContent(line) == line # "chrome"
LastOf(s, n) == SubSeq(s, IF Len(s) > n THEN Len(s) - n + 1 ELSE 1, Len(s))
Matches(s, marks) == \E i \in DOMAIN s : s[i] \in marks
LastMatch(s, marks) ==    \* the place of the last match, 0 if there is none
    IF Matches(s, marks) THEN CHOOSE i \in DOMAIN s : s[i] \in marks /\ \A j \in DOMAIN s : s[j] \in marks => j <= i
    ELSE 0
After(s, i) == SubSeq(s, i + 1, Len(s))

\* Painted after the waiting line, any of these shows that the wait is over.
EndsWait(s) == Matches(s, Working \cup Interrupt \cup Footers \cup Prompts \cup {"interrupted"})

\* The tail after a chunk.
Fed(s, line) == IF HasContent(line) THEN LastOf(Append(s.tail, line), TailLines) ELSE s.tail

Waits(s, line) ==
    LET tail == Fed(s, line)
        w == LastMatch(tail, {"waiting"})
    IN IF w # 0 THEN ~EndsWait(After(tail, w)) ELSE s.waiting /\ ~EndsWait(<<line>>)

FeedStripped(s, line) ==
    LET tail == Fed(s, line) IN
    [s EXCEPT !.tail = tail,
              !.working = Matches(tail, Working),
              !.prompt = Matches(LastOf(tail, RecentLines), Prompts),
              !.poll = @ \/ Matches(tail, {"poll"}),
              !.turnEnd = @ \/ Matches(tail, Footers),
              !.recap = @ \/ Matches(tail, {"recap"}),
              !.apiError = @ \/ Matches(tail, {"apiError"}),
              !.waiting = Waits(s, line)]

\* A marker signals once: on the rising edge, or when its latch is set.  Working is
\* dropped by the auto-pilot, the only consumer, and is left out.
Signals(s, next) ==
    {sig \in {"needs_input", "turn_ended"} :
        IF sig = "needs_input" THEN next.prompt /\ ~s.prompt
        ELSE (next.poll /\ ~s.poll) \/ (next.turnEnd /\ ~s.turnEnd) \/ (next.recap /\ ~s.recap)}

\* Only a change of the title restarts its clock.
NoteTitle(s, title) == IF s.title = title THEN s ELSE [s EXCEPT !.title = title, !.titleFresh = TRUE]

NoteFocus(s, focused) ==
    [s EXCEPT !.blurred = ~focused, !.titleFresh = @ \/ (focused /\ s.title # Unknown)]

\* A submit clears the latches and the tail; title and focus are levels and stay.
Reset(s) ==
    [NewSniffer EXCEPT !.title = s.title, !.titleFresh = s.titleFresh, !.blurred = s.blurred]

\* A busy title counts while it flips, or while the terminal is blurred.
TitleBusy(s) ==
    IF s.title \in {"left", "right"} THEN (IF s.blurred \/ s.titleFresh THEN "busy" ELSE Unknown)
    ELSE IF s.title = "settled" THEN "settled" ELSE Unknown

IsBusyNow(s) == s.tail # <<>> /\ Last(s.tail) \in Working \cup Interrupt

BackgroundRunning(s) ==
    LET f == LastMatch(s.tail, Footers) IN
    f # 0 /\ s.tail[f] = "footerShells" /\ ~Matches(After(s.tail, f), Working \cup Interrupt)

IdleState == [needsInput |-> FALSE, busy |-> FALSE, errored |-> FALSE]

\* Mutant of ComputePureState: the screen counts however old it is.
ComputePureStateUngated(s, fresh, recent) ==
    LET running == IF TitleBusy(s) # Unknown THEN TitleBusy(s) = "busy" ELSE IsBusyNow(s) \/ recent
    IN [needsInput |-> s.prompt, errored |-> s.apiError,
        busy |-> ~s.prompt /\ ~s.apiError /\ (s.waiting \/ BackgroundRunning(s) \/ running)]

\* The spinner title outranks the screen both ways; the screen counts while output is
\* fresh and a running frame is on it or was a moment ago.
ComputePureState(s, fresh, recent) ==
    LET running == IF TitleBusy(s) # Unknown THEN TitleBusy(s) = "busy"
                   ELSE fresh /\ (IsBusyNow(s) \/ recent)
    IN [needsInput |-> s.prompt, errored |-> s.apiError,
        busy |-> ~s.prompt /\ ~s.apiError /\ (s.waiting \/ BackgroundRunning(s) \/ running)]

\* The running states that are silent by nature.
SilentlyBusy(s) == s.waiting \/ BackgroundRunning(s) \/ (s.blurred /\ TitleBusy(s) = "busy")
=============================================================================
