------------------------------ MODULE ClaudeUsage ------------------------------
(* The poller of the accounts' usage (infra/claude_usage.rs) over the logins of   *)
(* one environment: one cycle at a time rebuilds the board, asks the server with   *)
(* the token of the live login or of a slot, and lets the CLI refresh a token      *)
(* that is over, outside the lock of the switches.  A command that has changed     *)
(* something invalidates what is known and runs a cycle of its own, which it        *)
(* waits for three seconds at most.                                                 *)
EXTENDS ClaudeAccounts

CONSTANT Unscoped   \* the accounts whose tokens may not read usage (setup-token)

VARIABLES
    cycle,      \* the refresh that holds the cycle mutex, or None
    entries,    \* entries[a]: what is known of the usage of an account
    board,      \* the last built section: its cards, or None
    stamp,      \* env_checked_ms is younger than ACTIVE_INTERVAL_MS
    poll        \* poll[p]: where the refresh of the caller p stands

uvars == <<cycle, entries, board, stamp, poll>>
vars == <<avars, uvars>>

\* The loop, and the refresh each command ends with (or is).
Pollers == Tasks \cup {"loop"}
\* `age` counts the intervals since the last attempt: 2 within ACTIVE_INTERVAL_MS, 1 within
\* RESERVE_INTERVAL_MS, 0 past both.  `backoff`, `cooling`: before backoff_until_ms, and
\* within CLI_REFRESH_COOLDOWN_MS of the last refresh.
NoEntry == [usage |-> None, error |-> None, age |-> 0, backoff |-> FALSE, cooling |-> FALSE]
NoCard == [id |-> None, account |-> None, active |-> FALSE, source |-> None, usage |-> None]
NewPoll == [pc |-> "idle", force |-> FALSE, waited |-> FALSE, live |-> None, todo |-> {}, cards |-> {}, card |-> NoCard,
            entry |-> NoEntry, creds |-> None, minted |-> None, denied |-> FALSE]

UInit ==
    /\ cycle = None /\ board = None /\ stamp = FALSE
    /\ entries = [a \in Accounts |-> NoEntry]
    /\ poll = [p \in Pollers |-> NewPoll]

Init == AInit /\ UInit

On(p, pc) == poll[p].pc = pc
\* The refresh p goes on with the fields of r changed.
Step(p, r) ==
    poll' = [poll EXCEPT ![p] = [f \in DOMAIN NewPoll |-> IF f \in DOMAIN r THEN r[f] ELSE poll[p][f]]]
Pc(pc) == [pc |-> pc]
-----------------------------------------------------------------------------
(* Who asks for a refresh *)

\* Nothing is asked in an instance without the poller (no ticks); with one tick the loop
\* and the clocks stand still, and the refreshes the commands ask for are all there is.
Asks(p, force, waited) ==
    poll' = IF left.ticks > 0 THEN [poll EXCEPT ![p] = [NewPoll EXCEPT !.pc = "queue", !.force = force, !.waited = waited]] ELSE poll

\* run: every TICK, for ever.
Tick ==
    /\ left.ticks > 1 /\ On("loop", "idle") /\ Asks("loop", FALSE, FALSE)
    /\ UNCHANGED <<avars, cycle, entries, board, stamp>>

\* claude_usage_refresh: everything that is not backed off.
ForceRefresh(c) ==
    /\ Fresh(c) /\ Spend("force")
    /\ task' = [task EXCEPT ![c].kind = "force", ![c].pc = "done"]
    /\ Asks(c, TRUE, FALSE)
    /\ UNCHANGED <<dir, registry, lock, valid, online, session, outside, cycle, entries, board, stamp>>

\* invalidate, then refresh_after_change.
Invalidate(c) ==
    /\ At(c, "invalidate") /\ Goto(c, "done")
    /\ stamp' = FALSE
    /\ entries' = [a \in Accounts |-> [entries[a] EXCEPT !.age = 0]]
    /\ Asks(c, FALSE, TRUE)
    /\ UNCHANGED <<dir, registry, lock, valid, online, session, outside, left, cycle, board>>

\* Three seconds are over: the refresh is dropped where it stands, with the CLI it runs,
\* and another starts in the background.
GiveUp(c) ==
    /\ poll[c].waited /\ ~On(c, "idle")
    /\ Step(c, [NewPoll EXCEPT !.pc = "queue"])
    /\ cycle' = IF cycle = c THEN None ELSE cycle
    /\ UNCHANGED <<avars, entries, board, stamp>>
-----------------------------------------------------------------------------
(* refresh and refresh_env *)

\* A young section is used again, and then nothing is told to anyone.
StartCycle(p) ==
    /\ On(p, "queue") /\ cycle = None
    /\ IF stamp /\ board # None /\ ~poll[p].force
       THEN Step(p, NewPoll) /\ UNCHANGED cycle
       ELSE Step(p, Pc("live")) /\ cycle' = p
    /\ UNCHANGED <<avars, entries, board, stamp>>

Ended(p) == Step(p, NewPoll) /\ cycle' = None

\* offline_section: the cards of before, else the records without usage.
OfflineSection(p) ==
    /\ On(p, "live") /\ ~online
    /\ Step(p, [pc |-> "section",
                cards |-> IF board # None THEN board
                          ELSE {[NoCard EXCEPT !.id = s, !.account = registry[s]] : s \in {s \in Slots : registry[s] # None}}])
    /\ UNCHANGED <<avars, cycle, entries, board, stamp>>

\* Nobody is logged in unless both documents are there; an error reads as nobody.
ReadLive(p) ==
    /\ On(p, "live") /\ online
    /\ \/ /\ Step(p, [pc |-> "records", live |-> IF dir["live"].creds = None THEN None ELSE dir["live"].who])
          /\ UNCHANGED left
       \/ Failing /\ Step(p, [pc |-> "records", live |-> None])
    /\ UNCHANGED <<dir, registry, lock, task, valid, online, session, outside, cycle, entries, board, stamp>>

CardOf(s, live) ==
    [NoCard EXCEPT !.id = s, !.account = registry[s], !.active = registry[s] = live,
                   !.source = IF registry[s] = live THEN "live" ELSE s]
ReadRecords(p) ==
    LET live == poll[p].live
        known == {CardOf(s, live) : s \in {s \in Slots : registry[s] # None}}
        unregistered == IF live # None /\ \A k \in known : ~k.active
                        THEN {[NoCard EXCEPT !.account = live, !.active = TRUE, !.source = "live"]} ELSE {}
    IN
    /\ On(p, "records")
    /\ Step(p, [pc |-> "card", todo |-> known \cup unregistered, cards |-> {}])
    /\ UNCHANGED <<avars, cycle, entries, board, stamp>>

\* The active card first; a card is due by its age unless the server asked for a pause.
Due(p, k, e) == ~e.backoff /\ (poll[p].force \/ e.age <= IF k.active THEN 1 ELSE 0)
NextCard(p) ==
    /\ On(p, "card")
    /\ \E k \in poll[p].todo :
          LET e == entries[k.account] IN
          /\ k.active \/ \A j \in poll[p].todo : ~j.active
          /\ IF Due(p, k, e)
             THEN Step(p, [pc |-> "creds", card |-> k, entry |-> [e EXCEPT !.age = 2], todo |-> poll[p].todo \ {k},
                           denied |-> FALSE])
             ELSE Step(p, [cards |-> poll[p].cards \cup {[k EXCEPT !.usage = e.usage]}, todo |-> poll[p].todo \ {k}])
    /\ UNCHANGED <<avars, cycle, entries, board, stamp>>

SectionBuilt(p) ==
    /\ On(p, "card") /\ poll[p].todo = {}
    /\ Step(p, Pc("section"))
    /\ UNCHANGED <<avars, cycle, entries, board, stamp>>

\* The section counts as fresh before the board that holds it is stored: a refresh that is
\* dropped in between leaves the board of before to be used again.
Stamp(p) ==
    /\ On(p, "section") /\ stamp' = TRUE
    /\ Step(p, Pc("board"))
    /\ UNCHANGED <<avars, cycle, entries, board>>

\* Mutant of EndCycle: the section is stamped and told, but the board of before stays.
EndCycleKeeps(p) ==
    /\ On(p, "board") /\ Ended(p)
    /\ board' = IF board # None THEN board ELSE poll[p].cards
    /\ UNCHANGED <<avars, entries, stamp>>
EndCycle(p) ==
    /\ On(p, "board") /\ Ended(p)
    /\ board' = poll[p].cards
    /\ UNCHANGED <<avars, entries, stamp>>
-----------------------------------------------------------------------------
(* fetch_into: one card *)

\* The entry is written back, and the card shows it.
Noted(p, e) ==
    /\ entries' = [entries EXCEPT ![poll[p].card.account] = e]
    /\ Step(p, [pc |-> "card", card |-> NoCard, entry |-> NoEntry, creds |-> None, minted |-> None, denied |-> FALSE, cards |-> poll[p].cards \cup {[poll[p].card EXCEPT !.usage = e.usage]}])

Here(p) == dir[poll[p].card.source].creds
Cooling(p) == [poll[p].entry EXCEPT !.cooling = TRUE]

\* A token that expires is refreshed first, once per cooldown.
ReadToken(p) ==
    LET e == poll[p].entry IN
    /\ On(p, "creds")
    /\ \/ /\ ~online \/ Here(p) = None
          /\ Noted(p, [e EXCEPT !.error = "credentials"]) /\ UNCHANGED left
       \/ /\ online /\ Here(p) # None
          /\ IF Here(p).account \in Unscoped
             THEN Noted(p, [e EXCEPT !.error = "scope", !.usage = None]) /\ UNCHANGED left
             ELSE /\ \/ Step(p, [pc |-> "fetch", creds |-> Here(p)]) /\ UNCHANGED left
                     \/ Spend("expiries") /\ Step(p, [pc |-> IF e.cooling THEN "fetch" ELSE "ask", entry |-> Cooling(p), creds |-> Here(p)])
                  /\ UNCHANGED entries
    /\ UNCHANGED <<dir, registry, lock, task, valid, online, session, outside, cycle, board, stamp>>

\* refresh_via_cli: the server gives the next token for the one the directory holds now,
\* which is of no use any more ...
RefreshAsk(p) ==
    /\ On(p, "ask")
    /\ IF online /\ Here(p) # None /\ Here(p) \in valid
       THEN /\ Rotate(Here(p)) /\ Step(p, [pc |-> "keep", minted |-> Rotated(Here(p))]) /\ UNCHANGED entries
            /\ task' = Disturbed
       ELSE /\ UNCHANGED <<valid, task>>
            /\ IF poll[p].denied THEN Noted(p, [poll[p].entry EXCEPT !.error = "auth"])
               ELSE Step(p, Pc("fetch")) /\ UNCHANGED entries
    /\ UNCHANGED <<dir, registry, lock, online, session, outside, left, cycle, board, stamp>>

\* ... and the CLI stores it there, whatever the directory has become.
RefreshKeep(p) ==
    /\ On(p, "keep")
    /\ Write(poll[p].card.source, [dir[poll[p].card.source] EXCEPT !.creds = poll[p].minted])
    /\ task' = Disturbed
    /\ Step(p, Pc("reread"))
    /\ UNCHANGED <<registry, lock, valid, online, session, outside, left, cycle, entries, board, stamp>>

Reread(p) ==
    /\ On(p, "reread")
    /\ Step(p, IF Here(p) = None THEN Pc("fetch") ELSE [pc |-> "fetch", creds |-> Here(p)])
    /\ UNCHANGED <<avars, cycle, entries, board, stamp>>

\* The usage request: an account's numbers, a rejection of a token that was replaced, or a
\* failure, which may ask for a pause.
Fetch(t) ==
    {"ok"} \cup (IF t \in valid THEN {} ELSE {"denied"}) \cup (IF left.failures > 0 THEN {"failed", "paused"} ELSE {})

\* A rejection is tried once more after a refresh.
FetchUsage(p) ==
    LET e == poll[p].entry IN
    /\ On(p, "fetch")
    /\ \E reply \in Fetch(poll[p].creds) :
          \/ /\ reply = "ok" /\ UNCHANGED left
             /\ Noted(p, [e EXCEPT !.usage = poll[p].creds.account, !.error = None])
          \/ /\ reply = "denied" /\ UNCHANGED left
             /\ IF e.cooling THEN Noted(p, [e EXCEPT !.error = "auth"])
                ELSE Step(p, [pc |-> "ask", entry |-> Cooling(p), denied |-> TRUE]) /\ UNCHANGED entries
          \/ /\ reply \in {"failed", "paused"} /\ Spend("failures")
             /\ Noted(p, [e EXCEPT !.error = "failed", !.backoff = @ \/ reply = "paused"])
    /\ UNCHANGED <<dir, registry, lock, task, valid, online, session, outside, cycle, board, stamp>>
-----------------------------------------------------------------------------
(* Time, and the end of the application: the poller keeps nothing on disk *)

IntervalPasses ==
    /\ left.ticks > 1
    /\ stamp' = FALSE
    /\ entries' = [a \in Accounts |-> [entries[a] EXCEPT !.age = IF @ = 0 THEN 0 ELSE @ - 1, !.backoff = FALSE]]
    /\ UNCHANGED <<avars, cycle, board, poll>>

CooldownPasses ==
    /\ left.ticks > 1
    /\ entries' = [a \in Accounts |-> [entries[a] EXCEPT !.cooling = FALSE]]
    /\ UNCHANGED <<avars, cycle, board, stamp, poll>>

Crash ==
    /\ ACrash
    /\ cycle' = None /\ board' = None /\ stamp' = FALSE
    /\ entries' = [a \in Accounts |-> NoEntry]
    /\ poll' = [p \in Pollers |-> NewPoll]

Cycles(p) ==
    \/ StartCycle(p) \/ OfflineSection(p) \/ ReadLive(p) \/ ReadRecords(p) \/ NextCard(p)
    \/ SectionBuilt(p) \/ Stamp(p) \/ EndCycle(p)
    \/ ReadToken(p) \/ RefreshAsk(p) \/ RefreshKeep(p) \/ Reread(p) \/ FetchUsage(p)
Next ==
    \/ ANext /\ UNCHANGED uvars
    \/ Tick \/ IntervalPasses \/ CooldownPasses \/ Crash
    \/ \E c \in Tasks : ForceRefresh(c) \/ Invalidate(c) \/ GiveUp(c)
    \/ \E p \in Pollers : Cycles(p)
Spec == Init /\ [][Next]_vars

(* Every task goes on, the loop ticks and time passes; nobody has to type a command,  *)
(* log in or end a session.                                                            *)
Fairness ==
    /\ \A c \in Tasks : WF_vars(Works(c) /\ UNCHANGED uvars) /\ WF_vars(Invalidate(c))
    /\ \A p \in Pollers : SF_vars(StartCycle(p)) /\ WF_vars(Cycles(p))
    /\ WF_vars(Tick) /\ WF_vars(IntervalPasses) /\ WF_vars(OutsideIdentity /\ UNCHANGED uvars)
FairSpec == Spec /\ Fairness
-----------------------------------------------------------------------------
(* In the end the board shows the accounts as they are: whatever was switched,       *)
(* saved, removed or logged in, and however the refreshes of commands were dropped    *)
(* or raced, some cycle reads it again and nothing later puts an older one back.      *)
ShowsTheAccounts ==
    /\ board # None
    /\ {k.account : k \in {k \in board : k.id # None}} = {registry[s] : s \in Slots} \ {None}
    /\ \A k \in board : k.active <=> (dir["live"].creds # None /\ k.account = dir["live"].who)
BoardCatchesUp == <>[](left.ticks > 1 /\ online => ShowsTheAccounts)

(* The two documents of the live login are of one account when no call and no /login *)
(* is half way.  Violated: a crash between the two writes of a switch leaves the      *)
(* token of one beside the name of the other, and the next switch stores it so.       *)
LiveMatchesItself ==
    lock = None /\ outside = None /\ Parses("live") => dir["live"].creds.account = dir["live"].who

(* The live token can be refreshed while no session holds it and no CLI is about to  *)
(* store the next.  Violated: refresh_after_change drops its cycle after three        *)
(* seconds, which kills the CLI after the server has replaced the token.              *)
LiveStaysUsable ==
    session = None /\ dir["live"].creds # None /\ (\A p \in Pollers : ~On(p, "keep")) => dir["live"].creds \in valid
=============================================================================
