------------------------------ MODULE Terminals ------------------------------
(* The pseudo terminals of one session (infra/pty.rs), the phone server that    *)
(* takes one over (infra/mobile.rs), and their commands                         *)
(* (tauri_commands/terminal.rs, mobile.rs).  A claude terminal has a reader     *)
(* thread, a heartbeat and a child; a shell has no sniffer and no heartbeat.    *)
(* A chunk of output is known by its sequence number; the replay buffer holds   *)
(* all of them (its 8 MiB cap is left out).                                     *)
EXTENDS PureSignals, FiniteSets

CONSTANTS
    Terms,       \* terminal ids, each spawned at most once
    Phones,      \* web sockets, each opened at most once
    Capacity,    \* OUTPUT_BROADCAST_CAP
    Loads,       \* what the surroundings do in one behaviour: see `left`
    None

Kinds == {"shell", "claude"}

LoadTypes ==
    [kinds : SUBSET Kinds, lines : SUBSET Lines, titles : SUBSET Titles, repeats : SUBSET Nat, spawns : Nat, kills : Nat,
     exits : Nat, chunks : Nat, keys : Nat, resizes : Nat, dials : Nat, forces : Nat, toggles : Nat,
     engages : Nat, disengages : Nat]

ASSUME TerminalAssumption ==
    /\ Capacity \in Nat \ {0} /\ None \notin Terms \cup Phones \cup Lines \cup Titles
    /\ Loads \subseteq LoadTypes

VARIABLES
    term,       \* term[t]: the entry of the map and what its threads share
    reader,     \* reader[t]: the reader thread and the chunk it holds
    beat,       \* beat[t]: the heartbeat thread and the snapshot it is to emit
    dot,        \* the last pure-state event the desktop received
    typing,     \* a desktop write past its takeover check
    takeover,   \* terminals under takeover
    overlay,    \* the terminal whose takeover froze the desktop view, or None
    forcing,    \* a forced release between its two halves
    forced,     \* the desktop has taken a terminal back from a phone
    sock,       \* sock[p]: the socket task of a phone
    server,     \* the phone server accepts connections
    notices,    \* signals sent to the auto-pilot and not yet received
    left        \* what the surroundings may still do: every bound of an instance

shared == <<term, reader, beat, dot>>
mobile == <<takeover, overlay, forcing, forced, sock, server>>
tvars == <<shared, typing, mobile, notices, left>>

NoReader == [pc |-> "off", line |-> None, title |-> None, seq |-> 0, state |-> IdleState]
NoSock == [pc |-> "off", term |-> None, last |-> 0, shown |-> <<>>, queue |-> <<>>, lagged |-> FALSE]

TInit ==
    /\ left \in Loads
    /\ term = [t \in Terms |-> [st |-> "unborn", kind |-> "shell", child |-> FALSE, alive |-> FALSE,
                                seq |-> 0, screen |-> 0, danger |-> FALSE, size |-> "desk", desktop |-> "desk",
                                sniffer |-> NewSniffer, fresh |-> FALSE, recent |-> FALSE, last |-> None]]
    /\ reader = [t \in Terms |-> NoReader]
    /\ beat = [t \in Terms |-> [pc |-> "off", state |-> IdleState]]
    /\ dot = IdleState /\ typing = None
    /\ takeover = {} /\ overlay = None /\ forcing = None /\ forced = FALSE
    /\ sock = [p \in Phones |-> NoSock] /\ server = FALSE
    /\ notices = 0

Spend(what) == left[what] > 0 /\ left' = [left EXCEPT ![what] = @ - 1]
Live(t) == term[t].st = "live"
LiveClaude == {t \in Terms : Live(t) /\ term[t].kind = "claude"}
Snapshot(t) == ComputePureState(term[t].sniffer, term[t].fresh, term[t].recent)
-----------------------------------------------------------------------------
(* Spawn, kill, and the child *)

\* The child and its threads run before the terminal is in the map.
SpawnProgram(t, kind) ==
    /\ Spend("spawns")
    /\ term[t].st = "unborn" /\ t = CHOOSE u \in Terms : term[u].st = "unborn"
    /\ term' = [term EXCEPT ![t] = [@ EXCEPT !.st = "starting", !.kind = kind, !.child = TRUE,
                                             !.alive = TRUE, !.fresh = TRUE]]
    /\ reader' = [reader EXCEPT ![t].pc = "read"]
    /\ beat' = [beat EXCEPT ![t].pc = IF kind = "claude" THEN "sleep" ELSE "off"]
    /\ UNCHANGED <<dot, typing, mobile, notices>>

Insert(t) ==
    /\ term[t].st = "starting"
    /\ term' = [term EXCEPT ![t].st = "live"]
    /\ UNCHANGED <<reader, beat, dot, typing, mobile, notices, left>>

\* The entry leaves the map at once; a worker thread kills the child.
TakeOut(ts) ==
    /\ Spend("kills")
    /\ ts # {}
    /\ term' = [t \in Terms |-> IF t \in ts THEN [term[t] EXCEPT !.st = "gone"] ELSE term[t]]
    /\ UNCHANGED <<reader, beat, dot, typing, mobile, notices>>

Kill(t) == Live(t) /\ TakeOut({t})
KillForSession == TakeOut({t \in Terms : Live(t)})

ChildExits(t) ==
    /\ term[t].child
    /\ IF term[t].st = "gone" THEN UNCHANGED left ELSE Spend("exits")
    /\ term' = [term EXCEPT ![t].child = FALSE]
    /\ UNCHANGED <<reader, beat, dot, typing, mobile, notices>>
-----------------------------------------------------------------------------
(* The reader thread *)

\* A chunk gets its number and enters the replay buffer under one lock.
ReadChunk(t, line, title) ==
    /\ Spend("chunks")
    /\ term[t].child /\ reader[t].pc = "read"
    /\ term' = [term EXCEPT ![t].seq = @ + 1, ![t].danger = @ \/ line = "danger",
                            ![t].screen = IF HasContent(line) THEN @ + 1 ELSE @]
    /\ reader' = [reader EXCEPT ![t] = [pc |-> "publish", line |-> line, title |-> title,
                                        seq |-> term[t].seq + 1, state |-> IdleState]]
    /\ UNCHANGED <<beat, dot, typing, mobile, notices>>

Subscribed(p) == sock[p].pc \in {"loop", "lost"}

\* A full receiver loses its oldest chunk and is told so by its next recv.
Deliver(s, chunk) ==
    IF Len(s.queue) < Capacity THEN [s EXCEPT !.queue = Append(@, chunk)]
    ELSE [s EXCEPT !.queue = Append(Tail(@), chunk), !.lagged = TRUE]

Publish(t) ==
    /\ reader[t].pc = "publish"
    /\ sock' = [p \in Phones |-> IF Subscribed(p) THEN Deliver(sock[p], [term |-> t, seq |-> reader[t].seq])
                                 ELSE sock[p]]
    /\ reader' = [reader EXCEPT ![t].pc = IF term[t].kind = "claude" THEN "feed" ELSE "read"]
    /\ UNCHANGED <<term, beat, dot, typing, takeover, overlay, forcing, forced, server, notices, left>>

\* The sniffer, the clocks and last_state change under their three locks; the
\* snapshot is emitted once they are dropped.
Feed(t) ==
    LET r == reader[t]
        titled == IF r.title = None THEN term[t].sniffer ELSE NoteTitle(term[t].sniffer, r.title)
        next == FeedStripped(titled, r.line)
        fresh == term[t].fresh \/ HasContent(r.line)
        recent == term[t].recent \/ IsBusyNow(next)
        state == ComputePureState(next, fresh, recent)
    IN
    /\ r.pc = "feed"
    /\ term' = [term EXCEPT ![t] = [@ EXCEPT !.sniffer = next, !.fresh = fresh, !.recent = recent, !.last = state]]
    /\ notices' = notices + Cardinality(Signals(titled, next))
    /\ reader' = [reader EXCEPT ![t] = [@ EXCEPT !.pc = IF state # term[t].last THEN "emit" ELSE "read", !.state = state]]
    /\ UNCHANGED <<beat, dot, typing, mobile, left>>

ReaderEmits(t) ==
    /\ reader[t].pc \in {"emit", "emitLast"}
    /\ dot' = reader[t].state
    /\ reader' = [reader EXCEPT ![t].pc = IF @ = "emit" THEN "read" ELSE "end"]
    /\ UNCHANGED <<term, beat, typing, mobile, notices, left>>

\* At EOF the terminal is marked dead; then the final idle snapshot is made.
ReadEof(t) ==
    /\ reader[t].pc = "read" /\ ~term[t].child
    /\ term' = [term EXCEPT ![t].alive = FALSE]
    /\ reader' = [reader EXCEPT ![t].pc = IF term[t].kind = "claude" THEN "eof" ELSE "end"]
    /\ UNCHANGED <<beat, dot, typing, mobile, notices, left>>

FinalSnapshot(t) ==
    /\ reader[t].pc = "eof"
    /\ term' = [term EXCEPT ![t].last = IdleState]
    /\ reader' = [reader EXCEPT ![t] = [@ EXCEPT !.pc = IF term[t].last # IdleState THEN "emitLast" ELSE "end",
                                                 !.state = IdleState]]
    /\ UNCHANGED <<beat, dot, typing, mobile, notices, left>>
-----------------------------------------------------------------------------
(* The heartbeat and the clocks *)

\* alive is read before the sleep, the snapshot is made after it.
BeatWakes(t) ==
    LET state == Snapshot(t) IN
    /\ beat[t].pc = "sleep"
    /\ state # term[t].last
    /\ term' = [term EXCEPT ![t].last = state]
    /\ beat' = [beat EXCEPT ![t] = [pc |-> "emit", state |-> state]]
    /\ UNCHANGED <<reader, dot, typing, mobile, notices, left>>

BeatEmits(t) ==
    /\ beat[t].pc = "emit"
    /\ dot' = beat[t].state
    /\ beat' = [beat EXCEPT ![t].pc = IF term[t].alive THEN "sleep" ELSE "end"]
    /\ UNCHANGED <<term, reader, typing, mobile, notices, left>>

BeatEnds(t) ==
    /\ beat[t].pc = "sleep" /\ ~term[t].alive /\ Snapshot(t) = term[t].last
    /\ beat' = [beat EXCEPT ![t].pc = "end"]
    /\ UNCHANGED <<term, reader, dot, typing, mobile, notices, left>>

\* IDLE_DONE_MS, BUSY_HYSTERESIS_MS and TITLE_STALE pass.
Clock(t, what) ==
    /\ term[t].kind = "claude" /\ term[t].st # "unborn"
    /\ IF what = "title" THEN term[t].sniffer.titleFresh ELSE term[t][what]
    /\ term' = IF what = "title" THEN [term EXCEPT ![t].sniffer.titleFresh = FALSE]
               ELSE [term EXCEPT ![t][what] = FALSE]
    /\ UNCHANGED <<reader, beat, dot, typing, mobile, notices, left>>
-----------------------------------------------------------------------------
(* Input, size and takeover *)

\* What write_raw does to the terminal: "\r" submits, a focus report is noted.
WriteRaw(t, data) ==
    LET x == term[t]
        s == CASE data = "\r" -> Reset(x.sniffer)
               [] data \in {"focusIn", "focusOut"} -> NoteFocus(x.sniffer, data = "focusIn")
               [] OTHER -> x.sniffer
    IN term' = IF ~Live(t) \/ x.kind = "shell" THEN term
               ELSE [term EXCEPT ![t].sniffer = s, ![t].fresh = @ \/ data = "\r"]

Keys == {"\r", "focusIn", "focusOut"}

\* The desktop's write checks the takeover, drops its lock, and writes.
Write(t) ==
    /\ Spend("keys")
    /\ typing = None /\ t \notin takeover /\ Live(t)
    /\ typing' = t
    /\ UNCHANGED <<shared, mobile, notices>>

WriteLands(data) ==
    /\ typing # None
    /\ WriteRaw(typing, data)
    /\ typing' = None
    /\ UNCHANGED <<reader, beat, dot, mobile, notices, left>>

Resize(t, size) ==
    /\ Spend("resizes")
    /\ Live(t) /\ term[t].desktop # size
    /\ term' = [term EXCEPT ![t].desktop = size, ![t].size = IF t \in takeover THEN @ ELSE size]
    /\ UNCHANGED <<reader, beat, dot, typing, mobile, notices>>

\* release_takeover in its two halves: the lock, then size and event under the map's.
Unlock(t) == takeover' = takeover \ {t}
\* Mutant of Restore: the size is left to the next resize of the desktop.
RestoreKeepingSize(t) == UNCHANGED term /\ overlay' = IF Live(t) THEN None ELSE overlay
Restore(t) ==
    IF Live(t) THEN /\ term' = [term EXCEPT ![t].size = term[t].desktop]
                    /\ overlay' = None
    ELSE UNCHANGED <<term, overlay>>

ForceRelease(t) ==
    /\ Spend("forces")
    /\ forcing = None /\ t \in LiveClaude /\ t \in takeover
    /\ Unlock(t) /\ forcing' = t /\ forced' = TRUE
    /\ UNCHANGED <<shared, typing, overlay, sock, server, notices>>

ForceRestores ==
    /\ forcing # None
    /\ Restore(forcing) /\ forcing' = None
    /\ UNCHANGED <<reader, beat, dot, typing, takeover, forced, sock, server, notices, left>>
-----------------------------------------------------------------------------
(* The phone *)

\* Stopping aborts the accept loop; the tasks of open sockets run on.
MobileToggle ==
    /\ Spend("toggles")
    /\ server' = ~server
    /\ UNCHANGED <<shared, typing, takeover, overlay, forcing, forced, sock, notices>>

At(p, pc) == sock[p].pc = pc
ToSock(p, new) == sock' = [sock EXCEPT ![p] = new]

WsHandler(p, t) ==
    /\ Spend("dials")
    /\ server /\ sock[p] = NoSock /\ p = CHOOSE q \in Phones : sock[q] = NoSock
    /\ t \in LiveClaude
    /\ ToSock(p, [NoSock EXCEPT !.pc = "upgraded", !.term = t])
    /\ UNCHANGED <<shared, typing, takeover, overlay, forcing, forced, server, notices>>

\* The lock and the event are one step: the map is locked across both.
AcquireTakeover(p) ==
    LET t == sock[p].term
        busy == ~Live(t) \/ t \in takeover
    IN
    /\ At(p, "upgraded")
    /\ ToSock(p, [sock[p] EXCEPT !.pc = IF busy THEN "closed" ELSE "attach"])
    /\ takeover' = IF busy THEN takeover ELSE takeover \cup {t}
    /\ overlay' = IF busy THEN overlay ELSE t
    /\ UNCHANGED <<shared, typing, forcing, forced, server, notices, left>>

\* A snapshot shows every chunk so far, and its number goes into `last`.
Attached(s) ==
    LET seq == term[s.term].seq IN
    IF Live(s.term) THEN [s EXCEPT !.last = seq, !.shown = [i \in 1..seq |-> i]] ELSE s

AttachSnapshot(p) ==
    /\ At(p, "attach")
    /\ ToSock(p, [Attached(sock[p]) EXCEPT !.pc = "subscribe"])
    /\ UNCHANGED <<shared, typing, takeover, overlay, forcing, forced, server, notices, left>>

Subscribe(p) ==
    /\ At(p, "subscribe")
    /\ ToSock(p, [sock[p] EXCEPT !.pc = "loop"])
    /\ UNCHANGED <<shared, typing, takeover, overlay, forcing, forced, server, notices, left>>

\* Mutant of Recv: a resync does not tell which queued chunks it already shows.
RecvReplaying(p) ==
    LET s == sock[p]
        chunk == Head(s.queue)
    IN
    /\ At(p, "loop") /\ s.queue # <<>>
    /\ ToSock(p, IF s.lagged THEN [Attached(s) EXCEPT !.lagged = FALSE]
                 ELSE IF chunk.term = s.term THEN [s EXCEPT !.queue = Tail(@), !.shown = Append(@, chunk.seq)]
                 ELSE [s EXCEPT !.queue = Tail(@)])
    /\ UNCHANGED <<shared, typing, takeover, overlay, forcing, forced, server, notices, left>>
Recv(p) ==
    LET s == sock[p]
        chunk == Head(s.queue)
        rest == [s EXCEPT !.queue = Tail(@)]
    IN
    /\ At(p, "loop") /\ s.queue # <<>>
    /\ ToSock(p, IF s.lagged THEN [Attached(s) EXCEPT !.lagged = FALSE]
                 ELSE IF chunk.term = s.term /\ chunk.seq > s.last
                      THEN [rest EXCEPT !.last = chunk.seq, !.shown = Append(@, chunk.seq)]
                      ELSE rest)
    /\ UNCHANGED <<shared, typing, takeover, overlay, forcing, forced, server, notices, left>>

\* Frames of the phone: they are applied whoever holds the lock.
WriteMobile(p, data) ==
    /\ Spend("keys")
    /\ At(p, "loop")
    /\ WriteRaw(sock[p].term, data)
    /\ UNCHANGED <<reader, beat, dot, typing, mobile, notices>>

ResizeMobile(p) ==
    LET t == sock[p].term IN
    /\ At(p, "loop") /\ Live(t) /\ term[t].size # "phone"
    /\ Spend("resizes")
    /\ term' = [term EXCEPT ![t].size = "phone"]
    /\ UNCHANGED <<reader, beat, dot, typing, mobile, notices>>

\* A release frame, a close, a lost connection: the loop ends.
PhoneLeaves(p) ==
    /\ At(p, "loop")
    /\ ToSock(p, [sock[p] EXCEPT !.pc = "lost"])
    /\ UNCHANGED <<shared, typing, takeover, overlay, forcing, forced, server, notices, left>>

ReleaseTakeover(p) ==
    LET t == sock[p].term IN
    /\ At(p, "lost")
    /\ Unlock(t)
    /\ ToSock(p, [sock[p] EXCEPT !.pc = IF t \in takeover THEN "restore" ELSE "closed", !.queue = <<>>])
    /\ UNCHANGED <<shared, typing, overlay, forcing, forced, server, notices, left>>

ReleaseRestores(p) ==
    /\ At(p, "restore")
    /\ Restore(sock[p].term)
    /\ ToSock(p, [sock[p] EXCEPT !.pc = "closed"])
    /\ UNCHANGED <<reader, beat, dot, typing, takeover, forcing, forced, server, notices, left>>
-----------------------------------------------------------------------------
Threads(t) ==
    \/ Insert(t) \/ Publish(t) \/ Feed(t) \/ ReaderEmits(t) \/ ReadEof(t) \/ FinalSnapshot(t)

Ticks(t) ==
    \/ BeatWakes(t) \/ BeatEmits(t) \/ BeatEnds(t)
    \/ \E what \in {"fresh", "recent", "title"} : Clock(t, what)

Socket(p) ==
    \/ AcquireTakeover(p) \/ AttachSnapshot(p) \/ Subscribe(p) \/ Recv(p)
    \/ ReleaseTakeover(p) \/ ReleaseRestores(p)

\* terminal_spawn and claude_pty_spawn: a path to run in is looked up, or the call fails.
Spawns == \E t \in Terms, kind \in left.kinds : SpawnProgram(t, kind)

Surroundings ==
    \/ Spawns
    \/ \E t \in Terms :
        \/ Kill(t) \/ ChildExits(t) \/ Write(t) \/ ForceRelease(t)
        \/ \E line \in left.lines : ReadChunk(t, line, None)
        \/ \E title \in left.titles : ReadChunk(t, "chrome", title)
        \/ \E size \in {"desk", "desk2"} : Resize(t, size)
    \/ KillForSession \/ MobileToggle \/ ForceRestores
    \/ \E data \in Keys : WriteLands(data)
    \/ \E p \in Phones :
        \/ \E t \in Terms : WsHandler(p, t)
        \/ \E data \in Keys : WriteMobile(p, data)
        \/ ResizeMobile(p) \/ PhoneLeaves(p)

TNext == Surroundings \/ \E t \in Terms : Threads(t) \/ Ticks(t) \/ \E p \in Phones : Socket(p)
-----------------------------------------------------------------------------
(* Properties *)

\* The phone shows no chunk twice and none before an earlier one, whether the snapshot,
\* the live stream or a resync after a lag brought it (handle_socket, mobile.rs).
MirrorIsInOrder ==
    \A p \in Phones : \A i, j \in DOMAIN sock[p].shown : i < j => sock[p].shown[i] < sock[p].shown[j]

Restoring(t) == forcing = t \/ \E p \in Phones : sock[p].pc = "restore" /\ sock[p].term = t

\* A frozen desktop view has a cause: the terminal that froze it is under takeover, or
\* its release is under way, or it was closed (acquire_ and release_takeover, pty.rs).
FrozenHasHolder ==
    overlay # None => overlay \in takeover \/ Restoring(overlay) \/ ~Live(overlay)

\* When the last phone has gone, a terminal has the size the desktop asked for last,
\* also when it asked during the takeover; a forced release is excepted, because the
\* phone it ousts can still resize (release_takeover, resize, pty.rs).
QuietSizeIsDesktops ==
    \A t \in Terms : Live(t) /\ ~forced /\ t \notin takeover /\ ~Restoring(t) => term[t].size = term[t].desktop

\* A claude terminal that goes quiet does not stay busy, except on a wait for agents,
\* on background shells, or on a title frozen by blur (compute_pure_state, the
\* heartbeat and the clocks, pty.rs).
BusySettles ==
    <>[](\A t \in LiveClaude : term[t].alive /\ term[t].last # None /\ term[t].last.busy
                             => SilentlyBusy(term[t].sniffer))

\* Statements of the comments the code does not keep.

\* spawn_program: the final idle snapshot keeps the dot of an exited claude from
\* staying blue.
DeadIsIdle ==
    \A t \in Terms : term[t].kind = "claude" /\ reader[t].pc = "end" /\ beat[t].pc = "end" => ~dot.busy

\* write_mobile: "the phone IS the lock holder".
PhoneHoldsTheLock == [][\A p \in Phones : ResizeMobile(p) => sock[p].term \in takeover]_tvars

\* write: a keystroke cannot reach the terminal a phone drives.
FrozenDesktopIsMute == [][typing # None /\ typing' = None => typing \notin takeover]_tvars

\* attach_snapshot, subscribe_output: the snapshot and the live stream together miss no
\* chunk (one read between the two is in neither).
MirrorHasNoGap ==
    \A p \in Phones : \A i \in 1..(Len(sock[p].shown) - 1) : sock[p].shown[i + 1] = sock[p].shown[i] + 1
=============================================================================
