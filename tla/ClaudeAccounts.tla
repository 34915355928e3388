---------------------------- MODULE ClaudeAccounts ----------------------------
(* The logins of the Claude CLI in one environment (infra/claude_accounts.rs):  *)
(* the live one, the registered ones in a slot each, and the commands that       *)
(* save, activate, remove and add them (tauri_commands/claude_accounts.rs).  A   *)
(* login is a token, which a refresh replaces (the old one is dead), beside the  *)
(* account it is said to be of.  Of the two documents only these two parts are   *)
(* kept: what else the files hold is left alone by a switch.  Every write is a   *)
(* temporary file and a rename, so a document is never half written.             *)
EXTENDS Naturals, FiniteSets

CONSTANTS
    Accounts,   \* identities (same_account)
    Slots,      \* ids of records and names of slots, each used at most once
    Tasks,      \* calls, each made at most once
    Loads,      \* what the surroundings do in one behaviour: see `left`
    None

\* A token: its account, the login it descends from and how often it was refreshed.
Tokens == [account : Accounts, login : Nat, gen : Nat]
Budgets == {"save", "activate", "remove", "login", "force", "failures", "crashes", "sessions", "refreshes",
            "logins", "expiries", "outages", "ticks", "saved"}

ASSUME AccountsAssumption ==
    /\ None \notin Accounts \cup Slots \cup Tasks /\ None \notin Tokens \cup Budgets
    /\ "live" \notin Slots
    /\ Loads \subseteq [Budgets -> Nat]

VARIABLES
    dir,        \* dir[d]: the two documents of a configuration directory
    registry,   \* registry[s]: the account of the record s, or None
    lock,       \* the task that holds it, or None
    task,       \* task[c]: where a call stands
    valid,      \* the tokens the server refreshes
    online,     \* the environment runs (a distro may be stopped)
    session,    \* the login a running session holds in memory, or None
    outside,    \* the account of a `claude /login` half way, or None
    left        \* what the surroundings may still do: every bound of an instance

avars == <<dir, registry, lock, task, valid, online, session, outside, left>>

Dirs == Slots \cup {"live"}
\* `removed`: the record's own removal has deleted the directory.
NoDir == [creds |-> None, who |-> None, removed |-> FALSE]
\* `keep*`: what a save read of the live login; `wanted`, `slot*`, `live*`: the account of
\* the record a switch is to, and what it read.  `lost`: it read a registry without records, though
\* there may be some; `torn`: it wrote a live document and was told that it had not.
\* `calm`, `found`, `had`: undisturbed since the lock, the accounts and the failures of then.
NewTask == [kind |-> None, pc |-> "new", id |-> None, target |-> None, keepCreds |-> None, keepWho |-> None,
            wanted |-> None, slotCreds |-> None, slotWho |-> None, liveCreds |-> None, liveWho |-> None,
            lost |-> FALSE, torn |-> FALSE, ok |-> FALSE, calm |-> TRUE, found |-> {}, had |-> 0]

\* The two documents of an account that was logged in before, and never refreshed.
First(a) == IF a = None THEN NoDir
            ELSE [NoDir EXCEPT !.creds = [account |-> a, login |-> 0, gen |-> 0], !.who = a]
\* The live login, if there is one, and the record an earlier save has left, if the load has one.
AInit ==
    /\ left \in Loads
    /\ \E a \in Accounts \cup {None}, b \in IF left.saved > 0 THEN Accounts ELSE {None} :
          LET saved == CHOOSE s \in Slots : TRUE IN
          /\ dir = [d \in Dirs |-> First(IF d = "live" THEN a ELSE IF d = saved THEN b ELSE None)]
          /\ registry = [s \in Slots |-> IF s = saved THEN b ELSE None]
          /\ valid = {First(a).creds, First(b).creds} \ {None}
    /\ task = [c \in Tasks |-> NewTask]
    /\ lock = None /\ session = None /\ outside = None /\ online = TRUE

Spend(what) == left[what] > 0 /\ left' = [left EXCEPT ![what] = @ - 1]
At(c, pc) == task[c].pc = pc
Goto(c, pc) == task' = [task EXCEPT ![c].pc = pc]
Held(c, pc) == At(c, pc) /\ lock = c
Write(d, x) == dir' = [dir EXCEPT ![d] = x]
\* One subtree of a document is put in place, the rest stays.
SwapCredentials(d, creds) == Write(d, [dir[d] EXCEPT !.creds = creds])
SwapAccount(d, who) == Write(d, [dir[d] EXCEPT !.who = who])
\* Both documents are there and can be read.
Parses(d) == dir[d].creds # None /\ dir[d].who # None
\* Somebody else wrote a document, or used a token up, under the running calls.
Disturbed == [c \in Tasks |-> [task[c] EXCEPT !.calm = FALSE]]

\* Tokens: each login starts a family, and a refresh puts the next in place of the last.
Login(a) == [account |-> a, login |-> left.logins, gen |-> 0]
Rotated(t) == [t EXCEPT !.gen = @ + 1]
Rotate(t) == valid' = (valid \ {t}) \cup {Rotated(t)}

\* Where an account's login is looked for: the live directory when it says so, else its slot.
Record(a) == {s \in Slots : registry[s] = a}
Home(a) == IF dir["live"].who = a THEN {"live"} ELSE Record(a)
Found(a) == \E d \in Home(a) : dir[d].creds # None /\ dir[d].creds.account = a /\ dir[d].creds \in valid

Unused == {s \in Slots : registry[s] = None /\ dir[s] = NoDir /\ \A c \in Tasks : s \notin {task[c].id, task[c].target}}
NewId == CHOOSE s \in Unused : TRUE
-----------------------------------------------------------------------------
(* A command begins *)

Fresh(c) == task[c] = NewTask /\ c = CHOOSE d \in Tasks : task[d] = NewTask

Begin(c, kind, s) ==
    /\ online /\ Fresh(c) /\ Spend(kind)
    /\ task' = [task EXCEPT ![c] = [NewTask EXCEPT !.kind = kind, !.id = s, !.pc = IF kind = "login" THEN "slot" ELSE "lock"]]
    /\ UNCHANGED <<dir, registry, lock, valid, online, session, outside>>

SaveLive(c) == Begin(c, "save", None)
\* The command counts the sessions before it waits for the lock; the user may insist.
Activate(c, s, force) == (force \/ session = None) /\ Begin(c, "activate", s)
RemoveAccount(c, s) == Begin(c, "remove", s)
LoginNew(c) == Unused # {} /\ Begin(c, "login", NewId)

TakeLock(c) ==
    /\ At(c, "lock") /\ lock = None
    /\ lock' = c
    /\ task' = [task EXCEPT ![c].pc = CASE task[c].kind = "save" -> "saveCreds" [] task[c].kind = "login" -> "adopt"
                                        [] OTHER -> task[c].kind,
                            ![c].calm = TRUE, ![c].found = {a \in Accounts : Found(a)}, ![c].had = left.failures]
    /\ UNCHANGED <<dir, registry, valid, online, session, outside, left>>

\* What the command did is over: the guard is dropped, a new login looks after its
\* directory, and a success is followed by a refresh of the board.
Past(ok) == [NewTask EXCEPT !.pc = IF ok THEN "invalidate" ELSE "done"]
Answer(c, ok) ==
    /\ task' = [task EXCEPT ![c] = IF @.kind = "login" THEN [@ EXCEPT !.ok = ok, !.pc = "cleanup"] ELSE Past(ok)]
    /\ lock' = None
Quiet == UNCHANGED <<valid, online, session, outside>>
Working == {"saveCreds", "saveWho", "keepCreds", "keepWho", "record", "activate", "readCreds", "readWho",
            "swap", "torn", "remove", "unregister", "adopt", "adoptCreds", "adoptWho", "adoptRecord"}
\* The registry is a file of this machine; the documents of a stopped distro are out of reach.
Registering == {"record", "unregister", "adoptRecord"}
Failing == IF online THEN Spend("failures") ELSE UNCHANGED left
\* A read or a write fails (the distro stopped, the disk is full), and nothing is undone.  After
\* a torn write there is nothing left to fail.
Fails(c) ==
    /\ \E pc \in Working : Held(c, pc) /\ CASE pc \in Registering -> Spend("failures")
                                            [] pc = "torn" -> UNCHANGED left
                                            [] OTHER -> Failing
    /\ Answer(c, FALSE) /\ UNCHANGED <<dir, registry>> /\ Quiet
-----------------------------------------------------------------------------
(* save_live_locked, for a save or inside a switch *)

SaveReadCreds(c) ==
    /\ Held(c, "saveCreds")
    /\ IF dir["live"].creds = None THEN Answer(c, FALSE)
       ELSE task' = [task EXCEPT ![c].keepCreds = dir["live"].creds, ![c].pc = "saveWho"] /\ UNCHANGED lock
    /\ UNCHANGED <<dir, registry, left>> /\ Quiet

\* read_registry: a registry that cannot be read has no records, and the call goes on with that.
ReadsRegistry(lost) == IF lost THEN Spend("failures") ELSE UNCHANGED left
Known(who, lost) == IF lost THEN {} ELSE Record(who)

\* The record of the identity that was read, or a new one.
SaveReadWho(c) ==
    LET who == dir["live"].who IN
    /\ Held(c, "saveWho")
    /\ IF who = None THEN Answer(c, FALSE) /\ UNCHANGED left
       ELSE \E lost \in BOOLEAN :
            \E s \in IF Known(who, lost) # {} THEN Known(who, lost) ELSE {s \in Unused : s = NewId} :
               /\ task' = [task EXCEPT ![c].keepWho = who, ![c].target = s, ![c].lost = lost, ![c].pc = "keepCreds"]
               /\ ReadsRegistry(lost) /\ UNCHANGED lock
    /\ UNCHANGED <<dir, registry>> /\ Quiet

\* snapshot_live_into: the token, then the identity.
StoresCreds(c) == SwapCredentials(task[c].target, task[c].keepCreds)
StoresWho(c) == Write(task[c].target, [dir[task[c].target] EXCEPT !.who = task[c].keepWho, !.removed = FALSE])

KeepCreds(c) ==
    /\ Held(c, "keepCreds") /\ StoresCreds(c)
    /\ Goto(c, "keepWho")
    /\ UNCHANGED <<registry, lock, left>> /\ Quiet

KeepWho(c) ==
    /\ Held(c, "keepWho") /\ StoresWho(c)
    /\ Goto(c, "record")
    /\ UNCHANGED <<registry, lock, left>> /\ Quiet

\* The registry that was read is written back with the record, and is all there is.
WritesRecord(c) ==
    registry' = [s \in Slots |-> IF s = task[c].target THEN task[c].keepWho
                                 ELSE IF task[c].lost THEN None ELSE registry[s]]

\* The registry is written last; in a switch the swap follows.
SaveRecord(c) ==
    /\ Held(c, "record") /\ WritesRecord(c)
    /\ IF task[c].kind = "activate" THEN Goto(c, "swap") /\ UNCHANGED lock ELSE Answer(c, TRUE)
    /\ UNCHANGED <<dir, left>> /\ Quiet
-----------------------------------------------------------------------------
(* activate *)

ReadSlot(c) ==
    LET slot == dir[task[c].id] IN
    /\ Held(c, "activate")
    /\ IF registry[task[c].id] = None \/ ~Parses(task[c].id) THEN Answer(c, FALSE)
       ELSE /\ task' = [task EXCEPT ![c].wanted = registry[task[c].id], ![c].slotCreds = slot.creds,
                                    ![c].slotWho = slot.who, ![c].pc = "readCreds"]
            /\ UNCHANGED lock
    /\ UNCHANGED <<dir, registry, left>> /\ Quiet

ReadLiveCreds(c) ==
    /\ Held(c, "readCreds")
    /\ task' = [task EXCEPT ![c].liveCreds = dir["live"].creds, ![c].pc = "readWho"]
    /\ UNCHANGED <<dir, registry, lock, left>> /\ Quiet

\* Mutant of ReadLiveWho: the outgoing login is not stored back.
ReadLiveWhoForgets(c) ==
    /\ Held(c, "readWho")
    /\ IF dir["live"].who = task[c].wanted THEN Answer(c, TRUE)
       ELSE task' = [task EXCEPT ![c].liveWho = dir["live"].who, ![c].pc = "swap"] /\ UNCHANGED lock
    /\ UNCHANGED <<dir, registry, left>> /\ Quiet
\* The account is live already, or the outgoing login is stored back first: its token has
\* been replaced since it was stored.
ReadLiveWho(c) ==
    LET who == dir["live"].who
        keep == who # None /\ task[c].liveCreds # None
    IN
    /\ Held(c, "readWho")
    /\ IF who = task[c].wanted THEN Answer(c, TRUE)
       ELSE task' = [task EXCEPT ![c].liveWho = who, ![c].pc = IF keep THEN "saveCreds" ELSE "swap"] /\ UNCHANGED lock
    /\ UNCHANGED <<dir, registry, left>> /\ Quiet

\* The two writes of the swap, with what was read of the slot before the save.
SwapCreds(c) ==
    /\ Held(c, "swap")
    /\ SwapCredentials("live", task[c].slotCreds)
    /\ Goto(c, "swapWho")
    /\ UNCHANGED <<registry, lock, left>> /\ Quiet

SwapWho(c) ==
    /\ Held(c, "swapWho")
    /\ \/ /\ online /\ SwapAccount("live", task[c].slotWho)
          /\ Goto(c, "verify") /\ UNCHANGED left
       \/ Failing /\ Goto(c, "restoreCreds") /\ UNCHANGED dir
    /\ UNCHANGED <<registry, lock>> /\ Quiet

Verify(c) ==
    /\ Held(c, "verify")
    /\ \/ /\ online /\ dir["live"].who = task[c].wanted
          /\ Answer(c, TRUE) /\ UNCHANGED left
       \/ /\ \/ dir["live"].who # task[c].wanted /\ UNCHANGED left
             \/ Failing
          /\ Goto(c, "restoreBoth") /\ UNCHANGED lock
    /\ UNCHANGED <<dir, registry>> /\ Quiet

\* restore: what the live directory held; a failure is logged and the call goes on.
Restoring(c, what, old) ==
    \/ online /\ Write("live", [dir["live"] EXCEPT ![what] = old]) /\ UNCHANGED left
    \/ Failing /\ UNCHANGED dir

RestoreCreds(c) ==
    /\ \/ Held(c, "restoreCreds") /\ Answer(c, FALSE)
       \/ Held(c, "restoreBoth") /\ Goto(c, "restoreWho") /\ UNCHANGED lock
    /\ Restoring(c, "creds", task[c].liveCreds)
    /\ UNCHANGED registry /\ Quiet

RestoreWho(c) ==
    /\ Held(c, "restoreWho") /\ Answer(c, FALSE)
    /\ Restoring(c, "who", task[c].liveWho)
    /\ UNCHANGED registry /\ Quiet
-----------------------------------------------------------------------------
(* remove: the slot, then the record *)

DeleteSlot(c) ==
    /\ Held(c, "remove")
    /\ IF registry[task[c].id] = None THEN Answer(c, FALSE) /\ UNCHANGED dir
       ELSE Write(task[c].id, [NoDir EXCEPT !.removed = TRUE]) /\ Goto(c, "unregister") /\ UNCHANGED lock
    /\ UNCHANGED <<registry, left>> /\ Quiet

Unregister(c) ==
    /\ Held(c, "unregister")
    /\ registry' = [registry EXCEPT ![task[c].id] = None]
    /\ Answer(c, TRUE)
    /\ UNCHANGED <<dir, left>> /\ Quiet

\* The agent of a distro ends after a rename or a deletion and before its reply: what was done
\* counts as failed.  Of the two writes of a swap only the second is undone, and not itself.
ReplyLost(c) ==
    /\ online /\ Spend("failures")
    /\ \/ /\ \/ (Held(c, "keepCreds") \/ Held(c, "adoptCreds")) /\ StoresCreds(c)
             \/ (Held(c, "keepWho") \/ Held(c, "adoptWho")) /\ StoresWho(c)
             \/ Held(c, "remove") /\ registry[task[c].id] # None /\ Write(task[c].id, [NoDir EXCEPT !.removed = TRUE])
          /\ Answer(c, FALSE)
       \/ /\ Held(c, "swap") /\ SwapCredentials("live", task[c].slotCreds)
          /\ task' = [task EXCEPT ![c].torn = TRUE, ![c].pc = "torn"] /\ UNCHANGED lock
       \/ /\ Held(c, "swapWho") /\ SwapAccount("live", task[c].slotWho)
          /\ task' = [task EXCEPT ![c].torn = TRUE, ![c].pc = "restoreCreds"] /\ UNCHANGED lock
    /\ UNCHANGED registry /\ Quiet
-----------------------------------------------------------------------------
(* login_new: outside the lock until the console has closed *)

\* The marker file in a fresh directory; without it nothing was made.
MakeSlot(c) ==
    /\ At(c, "slot")
    /\ \/ Goto(c, "console") /\ UNCHANGED left
       \/ Failing /\ Goto(c, "done")
    /\ UNCHANGED <<dir, registry, lock>> /\ Quiet

\* The CLI logs an account in, the token first, or the console is closed before.
ConsoleLogin(c) ==
    /\ At(c, "console")
    /\ \/ /\ Goto(c, "lock") /\ UNCHANGED <<dir, valid, left>>
       \/ \E a \in Accounts :
             /\ Spend("logins")
             /\ SwapCredentials(task[c].id, Login(a))
             /\ valid' = valid \cup {Login(a)}
             /\ task' = [task EXCEPT ![c].slotWho = a, ![c].pc = "consoleWho"]
    /\ UNCHANGED <<registry, lock, online, session, outside>>

ConsoleWho(c) ==
    /\ At(c, "consoleWho")
    /\ \/ SwapAccount(task[c].id, task[c].slotWho)
       \/ UNCHANGED dir
    /\ Goto(c, "lock")
    /\ UNCHANGED <<registry, lock, left>> /\ Quiet

\* Mutant of Adopt: a login of an account that has a record gets a second one.
AdoptBlind(c) ==
    LET mine == dir[task[c].id] IN
    /\ Held(c, "adopt")
    /\ IF ~Parses(task[c].id) THEN Answer(c, FALSE)
       ELSE task' = [task EXCEPT ![c].keepCreds = mine.creds, ![c].keepWho = mine.who, ![c].target = task[c].id,
                                 ![c].pc = "adoptRecord"] /\ UNCHANGED lock
    /\ UNCHANGED <<dir, registry, left>> /\ Quiet
\* adopt_login_slot: a login of an account that has a record goes to the slot of that one.
Adopt(c) ==
    LET mine == dir[task[c].id] IN
    /\ Held(c, "adopt")
    /\ IF ~Parses(task[c].id) THEN Answer(c, FALSE) /\ UNCHANGED left
       ELSE \E lost \in BOOLEAN : LET known == Known(mine.who, lost) IN
            \E s \in IF known = {} THEN {task[c].id} ELSE known :
               /\ task' = [task EXCEPT ![c].keepCreds = mine.creds, ![c].keepWho = mine.who, ![c].target = s,
                                       ![c].lost = lost,
                                       ![c].pc = IF known = {} THEN "adoptRecord" ELSE "adoptCreds"]
               /\ ReadsRegistry(lost) /\ UNCHANGED lock
    /\ UNCHANGED <<dir, registry>> /\ Quiet

AdoptCreds(c) ==
    /\ Held(c, "adoptCreds") /\ StoresCreds(c)
    /\ Goto(c, "adoptWho")
    /\ UNCHANGED <<registry, lock, left>> /\ Quiet

AdoptWho(c) ==
    /\ Held(c, "adoptWho") /\ StoresWho(c)
    /\ Goto(c, "adoptRecord")
    /\ UNCHANGED <<registry, lock, left>> /\ Quiet

AdoptRecord(c) ==
    /\ Held(c, "adoptRecord") /\ WritesRecord(c)
    /\ Answer(c, TRUE)
    /\ UNCHANGED <<dir, left>> /\ Quiet

\* Mutant of Cleanup: the directory goes, whatever was registered.
CleanupAlways(c) ==
    /\ At(c, "cleanup")
    /\ Write(task[c].id, NoDir)
    /\ task' = [task EXCEPT ![c] = Past(@.ok)]
    /\ UNCHANGED <<registry, lock, left>> /\ Quiet
\* The directory goes (a failure is ignored) unless it is the slot that was registered.
Cleanup(c) ==
    /\ At(c, "cleanup")
    /\ IF task[c].ok /\ task[c].target = task[c].id THEN UNCHANGED <<dir, left>>
       ELSE \/ online /\ Write(task[c].id, NoDir) /\ UNCHANGED left
            \/ Failing /\ UNCHANGED dir
    /\ task' = [task EXCEPT ![c] = Past(@.ok)]
    /\ UNCHANGED <<registry, lock>> /\ Quiet
-----------------------------------------------------------------------------
(* The CLI itself, which knows nothing of the lock, and the application's end *)

SessionStarts ==
    /\ Spend("sessions") /\ session = None /\ dir["live"].creds # None
    /\ session' = dir["live"].creds
    /\ UNCHANGED <<dir, registry, lock, task, valid, online, outside>>

SessionRefreshes ==
    /\ session # None /\ session \in valid /\ Spend("refreshes")
    /\ Rotate(session) /\ session' = Rotated(session)
    /\ SwapCredentials("live", Rotated(session))
    /\ task' = Disturbed
    /\ UNCHANGED <<registry, lock, online, outside>>

SessionEnds ==
    /\ session # None /\ session' = None
    /\ UNCHANGED <<dir, registry, lock, task, valid, online, outside, left>>

\* `/login` in a terminal: the token, then the identity.
OutsideToken(a) ==
    /\ outside = None /\ Spend("logins")
    /\ outside' = a /\ valid' = valid \cup {Login(a)}
    /\ SwapCredentials("live", Login(a))
    /\ task' = Disturbed
    /\ UNCHANGED <<registry, lock, online, session>>

OutsideIdentity ==
    /\ outside # None /\ outside' = None
    /\ SwapAccount("live", outside)
    /\ task' = Disturbed
    /\ UNCHANGED <<registry, lock, valid, online, session, left>>

\* The application ends between any two steps.
ACrash ==
    /\ Spend("crashes")
    /\ task' = [c \in Tasks |-> [NewTask EXCEPT !.pc = IF At(c, @) THEN @ ELSE "crashed"]]
    /\ lock' = None /\ session' = None
    /\ UNCHANGED <<dir, registry, valid, online, outside>>

DistroTurns ==
    /\ Spend("outages") /\ online' = ~online
    /\ task' = Disturbed
    /\ UNCHANGED <<dir, registry, lock, valid, session, outside>>

Begins(c) == SaveLive(c) \/ LoginNew(c) \/ \E s \in Slots : RemoveAccount(c, s) \/ \E force \in BOOLEAN : Activate(c, s, force)
\* The steps that read or write a document and give up when they cannot.
Reaches(c) ==
    \/ SaveReadCreds(c) \/ SaveReadWho(c) \/ KeepCreds(c) \/ KeepWho(c)
    \/ ReadSlot(c) \/ ReadLiveCreds(c) \/ ReadLiveWho(c) \/ SwapCreds(c)
    \/ DeleteSlot(c) \/ Adopt(c) \/ AdoptCreds(c) \/ AdoptWho(c)
Works(c) ==
    \/ TakeLock(c) \/ SaveRecord(c) \/ Unregister(c) \/ AdoptRecord(c) \/ Fails(c) \/ ReplyLost(c)
    \/ SwapWho(c) \/ Verify(c) \/ RestoreCreds(c) \/ RestoreWho(c)
    \/ MakeSlot(c) \/ ConsoleLogin(c) \/ ConsoleWho(c) \/ Cleanup(c)
    \/ online /\ Reaches(c)
Outside == SessionStarts \/ SessionRefreshes \/ SessionEnds \/ OutsideIdentity \/ DistroTurns \/ \E a \in Accounts : OutsideToken(a)
ANext == Outside \/ \E c \in Tasks : Begins(c) \/ Works(c)
-----------------------------------------------------------------------------
(* A switch that nobody disturbed loses nobody's login: whatever account had a   *)
(* usable token where it is looked for when the call got the lock still has one   *)
(* when the call lets go of it, whether it succeeded or gave up after one failed  *)
(* read or write at any point.  Two in one call are too many: a swap that fails    *)
(* and whose restore fails leaves the token of one account beside the name of the  *)
(* other.  So does a write of the live login that was done but counts as failed    *)
(* (`torn`), and after a registry that could not be read (`lost`) only the two      *)
(* accounts of the switch keep theirs.                                             *)
InSwitch(c) == lock = c /\ task[c].kind = "activate" /\ task'[c].pc # "crashed"
LosesNone(c) ==
    (/\ InSwitch(c) /\ lock' # c /\ task[c].calm /\ ~task[c].torn /\ task[c].had <= left'.failures + 1)
       => \A a \in task[c].found : Found(a)' \/ (task[c].lost /\ a \notin {task[c].liveWho, task[c].slotWho})
SwitchKeepsTokens == [][\A c \in Tasks : LosesNone(c)]_avars

(* An account has one record, however its logins arrived: saved, kept by a switch *)
(* or adopted from a console that ran outside the lock, through crashes too.      *)
OneRecordPerAccount == \A a \in Accounts : Cardinality(Record(a)) <= 1

(* What the registry names can be switched to: a registered slot holds a token    *)
(* and its account's identity, through crashes and failures at every step, unless *)
(* a removal of the record itself stopped half way.                               *)
RegisteredSlotIsWhole ==
    \A s \in Slots : registry[s] # None => dir[s].removed \/ (Parses(s) /\ dir[s].who = registry[s])

(* Statements of the comments the code does not keep.                              *)

(* A switch stores the outgoing login back, "registering it if it wasn't yet": it   *)
(* takes no other account's record away.  Violated when the registry cannot be read. *)
SwitchKeepsRecords ==
    [][\A c \in Tasks, s \in Slots : InSwitch(c) /\ registry[s] # None => registry'[s] # None]_avars

(* A switch that fails leaves the live token beside its own account's name, as it    *)
(* found it.  Violated when a write of the live login was done and its reply lost.   *)
FailedSwitchIsUndone ==
    [][\A c \in Tasks :
        (/\ InSwitch(c) /\ lock' # c /\ task[c].calm /\ task[c].had <= left'.failures + 1
         /\ task[c].liveWho # None /\ task[c].liveCreds # None /\ task[c].liveCreds.account = task[c].liveWho)
           => dir'["live"].creds.account = dir'["live"].who]_avars

=============================================================================
