------------------------------ MODULE Autopilot ------------------------------
(* The auto-pilot of the session (infra/autopilot.rs) over its terminals: per   *)
(* engagement a watchdog task that watches the terminal, asks the Supervisor    *)
(* behind its guardrails (crates/oxyris-supervisor) and types the answer.  It   *)
(* is engaged from the panel or through the bridge (infra/autopilot_bridge.rs). *)
(* Two different contents of the scrollback have different fingerprints, but    *)
(* the last CONTEXT_CHARS of it, all a watchdog looks at, may come back.        *)
EXTENDS Terminals

CONSTANTS
    Pilots,        \* engagements, each used at most once
    MaxTurns,      \* max_turns: a number, or None for no limit
    MaxRetries,    \* MAX_SUBMIT_RETRIES
    Window, RepeatLimit, MaxSteps    \* LoopGuard::default

ASSUME PilotAssumption ==
    /\ MaxTurns \in Nat \cup {None} /\ None \notin Pilots
    /\ {MaxRetries, Window, RepeatLimit, MaxSteps} \subseteq Nat

VARIABLES
    engaged,    \* the engagement in the manager's map, or None
    runner,     \* run() holds the map's lock to pass a notice on
    dog,        \* dog[e]: the watchdog of engagement e and its guardrails
    look        \* look[t]: how the end of terminal t's scrollback reads; 0 is blank

pvars == <<engaged, runner, dog, look>>
vars == <<tvars, pvars>>

NoAsk == [kind |-> "none", danger |-> FALSE]
NoDog == [pc |-> "off", term |-> None, phase |-> "observe", stable |-> None, settled |-> FALSE, late |-> FALSE,
          retries |-> 0, asked |-> <<>>, ask |-> NoAsk, approves |-> FALSE, turns |-> 0]

Init == /\ TInit /\ engaged = None /\ runner = FALSE
        /\ dog = [e \in Pilots |-> NoDog] /\ look = [t \in Terms |-> 0]
-----------------------------------------------------------------------------
(* The manager *)

\* A new engagement replaces the one in the map and starts its own watchdog.
Engage(e, t) ==
    /\ Spend("engages")
    /\ dog[e] = NoDog /\ e = CHOOSE f \in Pilots : dog[f] = NoDog
    /\ ~runner /\ t \in LiveClaude
    /\ engaged' = e
    /\ dog' = [dog EXCEPT ![e] = [NoDog EXCEPT !.pc = "poll", !.term = t]]
    /\ UNCHANGED <<shared, typing, mobile, notices, runner>>

Disengage ==
    /\ Spend("disengages")
    /\ ~runner /\ engaged # None
    /\ engaged' = None
    /\ UNCHANGED <<shared, typing, mobile, notices, runner, dog>>

\* run() takes the lock for every notice; the nudge itself only hastens a poll.
RunTakes == notices > 0 /\ ~runner /\ runner' = TRUE /\ notices' = notices - 1
            /\ UNCHANGED <<shared, typing, mobile, left, engaged, dog>>
RunPokes == runner /\ runner' = FALSE /\ UNCHANGED <<tvars, engaged, dog>>

\* A try_lock: a locked map answers no.  Only session and terminal are compared.
IsEngaged(e) == ~runner /\ engaged # None /\ dog[engaged].term = dog[e].term
-----------------------------------------------------------------------------
(* Guardrails *)

ApprovalDanger(ask) == ask.kind = "permission" /\ ask.danger

\* `asked` holds what the loop guard observed, this ask last; it is never cleared.
LoopVerdict(asked) ==
    LET same == {i \in 1..Len(asked) : i > Len(asked) - Window /\ asked[i].look = Last(asked).look}
    IN IF Len(asked) > MaxSteps \/ Cardinality(same) >= RepeatLimit THEN "halt" ELSE "ok"

\* Denylist first, then the loop guard.
PreCheck(ask, asked) == IF ApprovalDanger(ask) THEN "halt" ELSE LoopVerdict(asked)

\* A reply to a settled turn is charged; the last turn of the budget is not driven.
Charged(ask, decision) == IF decision = "reply" /\ ask.kind = "turnEnded" THEN 1 ELSE 0
PostDecision(ask, decision, turns) ==
    CASE decision \in {"approve", "approveAlways"} -> IF ApprovalDanger(ask) THEN "halt" ELSE decision
      [] decision = "reply" -> IF MaxTurns # None /\ Charged(ask, decision) = 1 /\ turns + 1 >= MaxTurns
                               THEN "halt" ELSE "reply"
      [] decision = "reject" -> "reject"
      [] OTHER -> "halt"

Decisions == {"approve", "approveAlways", "reject", "reply", "done", "escalate"}

\* What comes back from a backend: one JSON object parsed to a decision, or an error
\* (no answer, a bad status, no object in the text).
Answers == Decisions \cup {"error"}
-----------------------------------------------------------------------------
(* The watchdog *)

Pc(e, pc) == dog[e].pc = pc
ToDog(e, new) == dog' = [dog EXCEPT ![e] = new]
Quiet == UNCHANGED <<tvars, engaged, runner>>

\* pure_state looks for a living claude terminal of the session, not for the pilot's.
SeenStates == IF \E t \in LiveClaude : term[t].alive
              THEN {Snapshot(t) : t \in {u \in LiveClaude : term[u].alive}} ELSE {IdleState}

\* scrollback_tail: a closed terminal reads as blank.  `screen` tells apart the paintings
\* that read the same; the code does not.
ScrollbackTail(t) == [look |-> IF Live(t) THEN look[t] ELSE 0, screen |-> IF Live(t) THEN term[t].screen ELSE 0]
Fingerprint(t) == ScrollbackTail(t).look

\* What a chunk paints is new, or reads like the screen some paintings ago.
Repaints ==
    \E ago \in left.repeats \cup {0} :
        look' = [t \in Terms |-> LET n == term'[t].screen IN
                                 IF n = term[t].screen THEN look[t] ELSE IF ago < n THEN n - ago ELSE n]

\* A screen is acted on once it has held still, and not if it was acted on last.
LastActed(e) == IF dog[e].asked = <<>> THEN None ELSE Last(dog[e].asked).look
\* Mutant of Ripe: the screen acted on last is forgotten.
RipeAgain(e) == dog[e].settled
Ripe(e) == dog[e].settled /\ LastActed(e) # Fingerprint(dog[e].term)

Gone(e) == /\ Pc(e, "poll") /\ ~IsEngaged(e)
           /\ ToDog(e, [dog[e] EXCEPT !.pc = "end"]) /\ Quiet

\* Observe: restart the debounce, or ask the Supervisor about this screen.
Observe(e, state) ==
    LET d == dog[e]
        fp == Fingerprint(d.term)
        ask == [kind |-> IF state.needsInput THEN "permission" ELSE "turnEnded",
                danger |-> Live(d.term) /\ term[d.term].danger]
        asked == Append(d.asked, ScrollbackTail(d.term))
    IN
    /\ Pc(e, "poll") /\ IsEngaged(e) /\ d.phase = "observe"
    /\ \/ /\ state.busy /\ d.stable # None
          /\ ToDog(e, [d EXCEPT !.stable = None, !.settled = FALSE])
       \/ /\ ~state.busy /\ d.stable # fp
          /\ ToDog(e, [d EXCEPT !.stable = fp, !.settled = FALSE])
       \/ /\ ~state.busy /\ d.stable = fp /\ Ripe(e)
          /\ ToDog(e, [d EXCEPT !.ask = ask, !.asked = asked,
                                !.pc = IF PreCheck(ask, asked) = "halt" THEN "halt" ELSE "decide"])
    /\ Quiet

\* The debounce and the start timeout pass.
Settle(e) == /\ Pc(e, "poll") /\ dog[e].phase = "observe" /\ dog[e].stable # None /\ ~dog[e].settled
             /\ ToDog(e, [dog[e] EXCEPT !.settled = TRUE]) /\ Quiet
StartTimeout(e) == /\ Pc(e, "poll") /\ dog[e].phase = "await" /\ ~dog[e].late
                   /\ ToDog(e, [dog[e] EXCEPT !.late = TRUE]) /\ Quiet

\* The Supervisor answers after seconds, or fails: then the pilot hands back.
Decide(e, decision) ==
    LET d == dog[e]
        act == PostDecision(d.ask, decision, d.turns)
    IN
    /\ Pc(e, "decide")
    /\ ToDog(e, [d EXCEPT !.approves = act = "approve", !.turns = @ + Charged(d.ask, decision),
                          !.pc = IF act = "halt" THEN "halt" ELSE IF act = "approve" THEN "enter" ELSE "keys"])
    /\ Quiet

\* Disengaging takes out whichever engagement the map holds; after giving up on a
\* swallowed Enter the watchdog returns, else it polls once more.
Halt(e) ==
    /\ dog[e].pc \in {"halt", "giveUp"} /\ ~runner
    /\ engaged' = None
    /\ ToDog(e, [dog[e] EXCEPT !.pc = IF @ = "halt" THEN "poll" ELSE "end"])
    /\ UNCHANGED <<tvars, runner>>

\* Arrow keys, Esc or the text of a message; the Enter is a write of its own.
TypeKeys(e) == Pc(e, "keys") /\ ToDog(e, [dog[e] EXCEPT !.pc = "enter"]) /\ Quiet

\* The desktop's path: a terminal under takeover drops the Enter without an error.
PilotWrites(t) == IF t \in takeover THEN UNCHANGED term ELSE WriteRaw(t, "\r")

PressEnter(e) ==
    /\ Pc(e, "enter")
    /\ PilotWrites(dog[e].term)
    /\ ToDog(e, [dog[e] EXCEPT !.pc = "poll", !.phase = "await", !.late = FALSE, !.retries = 0, !.approves = FALSE])
    /\ UNCHANGED <<reader, beat, dot, typing, mobile, notices, left, engaged, runner>>

\* AwaitingStart: the turn runs, the screen is another one, or Enter is sent again.
Started(e, state) ==
    LET d == dog[e] IN
    /\ Pc(e, "poll") /\ IsEngaged(e) /\ d.phase = "await"
    /\ state.busy \/ Fingerprint(d.term) # LastActed(e)
    /\ ToDog(e, [d EXCEPT !.phase = "observe", !.stable = None, !.settled = FALSE])
    /\ Quiet

Resend(e, state) ==
    LET d == dog[e] IN
    /\ Pc(e, "poll") /\ IsEngaged(e) /\ d.phase = "await" /\ d.late
    /\ ~state.busy /\ Fingerprint(d.term) = LastActed(e)
    /\ IF d.retries >= MaxRetries
       THEN ToDog(e, [d EXCEPT !.pc = "giveUp"]) /\ UNCHANGED term
       ELSE /\ PilotWrites(d.term)
            /\ ToDog(e, [d EXCEPT !.retries = @ + 1, !.late = FALSE])
    /\ UNCHANGED <<reader, beat, dot, typing, mobile, notices, left, engaged, runner>>

Watchdog(e) ==
    \/ Gone(e) \/ Settle(e) \/ StartTimeout(e) \/ Halt(e) \/ TypeKeys(e) \/ PressEnter(e)
    \/ \E state \in SeenStates : Observe(e, state) \/ Started(e, state) \/ Resend(e, state)

\* The panel, and the bridge for the tools of an agent.
HandleRequest == Disengage \/ \E e \in Pilots, t \in Terms : Engage(e, t)

Next ==
    \/ TNext /\ Repaints /\ UNCHANGED <<engaged, runner, dog>>
    \/ /\ UNCHANGED look
       /\ \/ \E e \in Pilots : Watchdog(e)
          \/ \E e \in Pilots, decision \in Answers : Decide(e, decision)
          \/ HandleRequest \/ RunTakes \/ RunPokes

Spec == Init /\ [][Next]_vars

\* The heartbeat and the clocks of a terminal keep running; nothing is assumed of its
\* reader, the child, the user, the phone or the Supervisor.
FairSpec == Spec /\ \A t \in Terms : WF_vars(Ticks(t) /\ UNCHANGED pvars)
-----------------------------------------------------------------------------
(* Properties *)

\* A watchdog does not ask twice about what was painted once (last_acted_fp, autopilot.rs):
\* not after a turn that painted nothing, a swallowed Enter, or a screen it saw busy.  It
\* remembers one fingerprint: a screen painted again after another may be asked about again,
\* and a terminal that is closed under it reads as blank again.
OneAnswerPerScreen ==
    \A e \in Pilots : LET asked == dog[e].asked IN
        \A i, j \in DOMAIN asked : i < j /\ asked[i].screen = asked[j].screen
            => i = 1 /\ j = Len(asked) /\ asked[j].screen = 0 /\ ~Live(dog[e].term)

\* Statements of the comments the code does not keep.

\* guardrails.rs: a denylisted operation is never approved: an approving Enter meets no
\* prompt for one.
NeverApprovesDanger ==
    [][\A e \in Pilots : PressEnter(e) /\ dog[e].approves /\ Live(dog[e].term)
            /\ term[dog[e].term].sniffer.prompt
         => dog[e].ask.danger = term[dog[e].term].danger]_vars

\* tauri_commands/autopilot.rs: disengaging stops the pilot: no Enter is pressed while no
\* engagement is in the map.
DisengagedIsStill == [][\A e \in Pilots : PressEnter(e) => engaged # None]_vars

\* An engagement in the map has a watchdog that runs.
EngagedIsDriven == engaged # None => dog[engaged].pc # "end"
=============================================================================
