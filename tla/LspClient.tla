------------------------------ MODULE LspClient ------------------------------
(* Clients of one language server each (crates/oxyris-lsp): the process, its    *)
(* reader task, requests and their timeout, the documents the client believes   *)
(* the server to hold, and the wait for a `cargo check` told by $/progress.     *)
(* A call is one use of a client by a command of the editor or of the bridge.   *)
(* Every root has one file; a text is an opaque value.  Frames reach a living   *)
(* server in the order they are sent, so a document changes at the send.        *)
EXTENDS Naturals, FiniteSets

CONSTANTS
    Servers,    \* clients, each spawned at most once
    Calls,      \* calls, each made at most once
    Roots,      \* roots of worktrees
    Texts,      \* what a file or a buffer may hold
    Disk,       \* the text of every file on disk
    Loads,      \* what the surroundings do in one behaviour: see `left`
    None

ASSUME ClientAssumption ==
    None \notin Servers \cup Calls \cup Roots \cup Texts /\ Disk \in Texts

VARIABLES
    client,    \* client[s]: the client and the server behind it
    call,      \* call[c]: where a call stands
    left       \* what the surroundings may still do: every bound of an instance

Tokens == {"flycheck", "indexing"}
Closed == [version |-> 0, text |-> None]

NewClient == [proc |-> "off", reader |-> "off", told |-> FALSE, idle |-> FALSE, roots |-> {},
              pending |-> {}, opened |-> [r \in Roots |-> Closed], held |-> [r \in Roots |-> Closed],
              active |-> {}, completions |-> 0, checks |-> 0]
NewCall == [pc |-> "new", kind |-> None, root |-> None, id |-> None, project |-> None, srv |-> None, text |-> None,
            doc |-> Closed, answer |-> None, attempt |-> 0, base |-> 0, before |-> 0, checked |-> FALSE]

ClientInit ==
    /\ left \in Loads
    /\ client = [s \in Servers |-> NewClient]
    /\ call = [c \in Calls |-> NewCall]

Spend(what) == left[what] > 0 /\ left' = [left EXCEPT ![what] = @ - 1]
At(c, pc) == call[c].pc = pc
Goto(c, pc) == call' = [call EXCEPT ![c].pc = pc]
Srv(c) == client[call[c].srv]
Doc(c) == Srv(c).opened[call[c].root]

\* Every request and notification stamps "used now" and goes to the channel of the
\* writer; one to a dead server is dropped.
Touched(x) == [x EXCEPT !.idle = FALSE]
Put(s, x) == client' = [client EXCEPT ![s] = x]
Sent(x, root, doc) == IF x.proc = "up" THEN [Touched(x) EXCEPT !.held[root] = doc] ELSE Touched(x)
-----------------------------------------------------------------------------
(* Documents *)

AfterPush(kind) ==
    CASE kind = "hover" -> "ensureOpen" [] kind = "format" -> "register"
      [] kind = "save" -> "save" [] kind = "check" -> "flycheck" [] OTHER -> "done"

\* The version grows under the lock; a first open is sent under it, a change after it.
Pushed(c) ==
    LET k == call[c]
        doc == [version |-> Doc(c).version + 1, text |-> k.text]
        opened == [Srv(c) EXCEPT !.opened[k.root] = doc]
    IN
    /\ IF Doc(c).text = k.text THEN Goto(c, AfterPush(k.kind)) /\ UNCHANGED client
       ELSE IF Doc(c) = Closed THEN Put(k.srv, Sent(opened, k.root, doc)) /\ Goto(c, AfterPush(k.kind))
       ELSE Put(k.srv, opened) /\ call' = [call EXCEPT ![c].pc = "change", ![c].doc = doc]
    /\ UNCHANGED left

OpenOrUpdate(c) == At(c, "use") /\ call[c].kind # "check" /\ Pushed(c)
SyncFromDisk(c) == At(c, "use") /\ call[c].kind = "check" /\ Pushed(c)
\* A check of the whole workspace pushes what is open only.
SyncOpenFromDisk(c) ==
    /\ At(c, "use") /\ call[c].kind = "check" /\ Doc(c) = Closed
    /\ Goto(c, "flycheck")
    /\ UNCHANGED <<client, left>>

DidChange(c) ==
    /\ At(c, "change")
    /\ Put(call[c].srv, Sent(Srv(c), call[c].root, call[c].doc))
    /\ Goto(c, AfterPush(call[c].kind))
    /\ UNCHANGED left

\* ensure_open: test, read the disk, didOpen, insert.
EnsureOpen(c) ==
    /\ At(c, "ensureOpen")
    /\ Goto(c, IF Doc(c) = Closed THEN "didOpen" ELSE "register")
    /\ UNCHANGED <<client, left>>

OnDisk == [version |-> 1, text |-> Disk]
DidOpen(c) ==
    /\ At(c, "didOpen")
    /\ Put(call[c].srv, Sent(Srv(c), call[c].root, OnDisk))
    /\ Goto(c, "insert")
    /\ UNCHANGED left

InsertDoc(c) ==
    /\ At(c, "insert")
    /\ Put(call[c].srv, [Srv(c) EXCEPT !.opened[call[c].root] = OnDisk])
    /\ Goto(c, "register")
    /\ UNCHANGED left

DidSave(c) ==
    /\ At(c, "save")
    /\ IF Doc(c) = Closed THEN UNCHANGED client ELSE Put(call[c].srv, Touched(Srv(c)))
    /\ Goto(c, "done")
    /\ UNCHANGED left

\* close_document: the entry goes under the lock, the didClose after it.
CloseDocument(c) ==
    /\ At(c, "forget")
    /\ Put(call[c].srv, [Srv(c) EXCEPT !.opened[call[c].root] = Closed])
    /\ Goto(c, IF Doc(c) = Closed THEN "done" ELSE "didClose")
    /\ UNCHANGED left

DidClose(c) ==
    /\ At(c, "didClose")
    /\ Put(call[c].srv, Sent(Srv(c), call[c].root, Closed))
    /\ Goto(c, "done")
    /\ UNCHANGED left
-----------------------------------------------------------------------------
(* Requests *)

\* The reply slot is in the map before the frame is sent.
Register(c) ==
    /\ At(c, "register")
    /\ Put(call[c].srv, [Touched(Srv(c)) EXCEPT !.pending = @ \cup {c}])
    /\ Goto(c, "send")
    /\ UNCHANGED left

Send(c) == At(c, "send") /\ Goto(c, "wait") /\ UNCHANGED <<client, left>>

\* Once a write to a dead server has failed, the channel is closed: what is sent next
\* fails where it stands, a request leaves its slot, a check goes on without.
Sends(c) ==
    \/ call[c].pc \in {"change", "didOpen", "didClose", "flycheck", "send"}
    \/ At(c, "save") /\ Doc(c) # Closed
    \/ At(c, "use") /\ Doc(c) = Closed
ServerGone(c) ==
    /\ Sends(c) /\ Srv(c).proc = "dead"
    /\ Put(call[c].srv, Touched(Srv(c)))
    /\ Goto(c, IF At(c, "flycheck") THEN "done" ELSE "failed")
    /\ UNCHANGED left

Finish(c) ==
    /\ At(c, "wait") /\ call[c].answer # None
    /\ Goto(c, IF call[c].answer = "reply" THEN "done" ELSE "failed")
    /\ UNCHANGED <<client, left>>

TimesOut(c) ==
    /\ At(c, "wait") /\ call[c].answer = None
    /\ Put(call[c].srv, [Srv(c) EXCEPT !.pending = @ \ {c}])
    /\ Goto(c, "failed")
    /\ UNCHANGED left
-----------------------------------------------------------------------------
(* The server and the reader task *)

Reads(s) == client[s].proc = "up" /\ client[s].reader = "run"

Replies(c) ==
    /\ At(c, "wait") /\ Reads(call[c].srv) /\ c \in Srv(c).pending
    /\ Put(call[c].srv, [Srv(c) EXCEPT !.pending = @ \ {c}])
    /\ call' = [call EXCEPT ![c].answer = "reply"]
    /\ UNCHANGED left

ProgressBegin(s, token) ==
    /\ Spend("begins")
    /\ Reads(s)
    /\ Put(s, [client[s] EXCEPT !.active = @ \cup {token}])
    /\ UNCHANGED call

\* Mutant of ProgressEnd: the end of any work counts.
ProgressEndOfAny(s, token) ==
    /\ Reads(s) /\ token \in client[s].active
    /\ Put(s, [client[s] EXCEPT !.active = @ \ {token}, !.completions = @ + 1,
                                !.checks = IF token = "flycheck" THEN @ + 1 ELSE @])
    /\ UNCHANGED <<call, left>>
\* `checks` counts the checks that ended, for the properties.
ProgressEnd(s, token) ==
    LET n == IF token = "flycheck" THEN 1 ELSE 0 IN
    /\ Reads(s) /\ token \in client[s].active
    /\ Put(s, [client[s] EXCEPT !.active = @ \ {token}, !.completions = @ + n, !.checks = @ + n])
    /\ UNCHANGED <<call, left>>

ServerDies(s) ==
    /\ client[s].proc = "up"
    /\ IF client[s].told THEN UNCHANGED left ELSE Spend("deaths")
    /\ Put(s, [client[s] EXCEPT !.proc = "dead"])
    /\ UNCHANGED call

\* Mutant of ReaderEnds: work in flight is left in flight.
ReaderEndsKeepingWork(s) ==
    /\ client[s].proc = "dead" /\ client[s].reader = "run"
    /\ Put(s, [client[s] EXCEPT !.reader = "ended", !.pending = {}, !.completions = @ + 1])
    /\ call' = [c \in Calls |-> IF c \in client[s].pending THEN [call[c] EXCEPT !.answer = "gone"] ELSE call[c]]
    /\ UNCHANGED left
\* EOF: pending calls are told, work in flight is cleared.
ReaderEnds(s) ==
    /\ client[s].proc = "dead" /\ client[s].reader = "run"
    /\ Put(s, [client[s] EXCEPT !.reader = "ended", !.pending = {}, !.active = {}, !.completions = @ + 1])
    /\ call' = [c \in Calls |-> IF c \in client[s].pending THEN [call[c] EXCEPT !.answer = "gone"] ELSE call[c]]
    /\ UNCHANGED left
-----------------------------------------------------------------------------
(* The wait for a check *)

FlycheckRunning(x) == "flycheck" \in x.active

RunFlycheck(c) ==
    /\ At(c, "flycheck")
    /\ Put(call[c].srv, Touched(Srv(c)))
    /\ Goto(c, "subscribe")
    /\ UNCHANGED left

Subscribe(c) ==
    /\ At(c, "subscribe")
    /\ call' = [call EXCEPT ![c] = [@ EXCEPT !.pc = "phase1", !.base = Srv(c).completions, !.before = Srv(c).checks]]
    /\ UNCHANGED <<client, left>>

Checked(c) == call' = [call EXCEPT ![c] = [@ EXCEPT !.pc = "done", !.checked = TRUE]]

Phase1(c) ==
    /\ At(c, "phase1")
    /\ \/ FlycheckRunning(Srv(c)) /\ Goto(c, "phase2")
       \/ ~FlycheckRunning(Srv(c)) /\ Srv(c).completions # call[c].base /\ Checked(c)
    /\ UNCHANGED <<client, left>>

\* No check started in time: ask once more, for a server that was still loading.
GraceEnds(c) ==
    /\ At(c, "phase1") /\ ~FlycheckRunning(Srv(c)) /\ Srv(c).completions = call[c].base
    /\ call' = [call EXCEPT ![c].attempt = @ + 1, ![c].pc = IF call[c].attempt = 0 THEN "flycheck" ELSE "done"]
    /\ UNCHANGED <<client, left>>

Phase2(c) ==
    /\ At(c, "phase2") /\ ~FlycheckRunning(Srv(c))
    /\ Checked(c)
    /\ UNCHANGED <<client, left>>

\* The caller reports what it has.
CheckTimesOut(c) ==
    /\ At(c, "phase2") /\ FlycheckRunning(Srv(c))
    /\ Goto(c, "done")
    /\ UNCHANGED <<client, left>>

ClientStep(c) ==
    \/ OpenOrUpdate(c) \/ SyncFromDisk(c) \/ SyncOpenFromDisk(c) \/ DidChange(c)
    \/ EnsureOpen(c) \/ DidOpen(c) \/ InsertDoc(c) \/ DidSave(c) \/ ServerGone(c)
    \/ CloseDocument(c) \/ DidClose(c) \/ Register(c) \/ Send(c) \/ Finish(c) \/ TimesOut(c) \/ Replies(c)
    \/ RunFlycheck(c) \/ Subscribe(c) \/ Phase1(c) \/ GraceEnds(c) \/ Phase2(c) \/ CheckTimesOut(c)

ServerStep(s) ==
    \/ \E token \in Tokens : ProgressBegin(s, token) \/ ProgressEnd(s, token)
    \/ ServerDies(s) \/ ReaderEnds(s)
-----------------------------------------------------------------------------
(* Properties *)

\* A call that reports a finished check has seen one end since it began to wait, or the
\* server die; the end of indexing or of a check it did not see is not enough
\* (flycheck_completions, wait_for_flycheck).
CheckedMeansEnded ==
    \A c \in Calls : call[c].checked => Srv(c).checks > call[c].before \/ Srv(c).reader = "ended"

\* A call that waits for a check to finish does not wait on a dead server: once its
\* reader has ended, the wait ends without its timeout (reader_loop).
DeathEndsTheWait ==
    \A c \in Calls : (At(c, "phase2") /\ Srv(c).reader = "ended") ~> ~At(c, "phase2")

\* Statements of the comments the code does not keep.

\* CheckReport::checked: a check ran to completion for this report (the death of the
\* server counts as one).
CheckedMeansChecked == \A c \in Calls : call[c].checked => Srv(c).checks > call[c].before

\* open_or_update: versions and texts reach the server in the order they were given (the
\* lock is dropped before the send).
DocsAgree ==
    \A s \in Servers, r \in Roots :
        client[s].proc = "up" /\ (\A c \in Calls : call[c].srv = s => call[c].pc \in {"new", "done", "failed"})
            => client[s].held[r] = client[s].opened[r]

\* ensure_open: didOpen is sent once for a file.
OpenedOnce == [][\A c \in Calls : DidOpen(c) => Srv(c).held[call[c].root] = Closed]_<<client, call, left>>

\* request_with_timeout: the map of pending calls does not grow (a call that fails to
\* send leaves its slot).
NoSlotLeft == \A c \in Calls : At(c, "failed") => \A s \in Servers : c \notin client[s].pending
=============================================================================
