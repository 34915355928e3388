------------------------------- MODULE LspPool -------------------------------
(* The language servers of a project (LspManager, infra/lsp.rs): one shared by  *)
(* its worktrees as workspace folders, dedicated ones past the folder cap; the  *)
(* bridge (infra/lsp_bridge.rs) and the editor's commands                       *)
(* (tauri_commands/lsp.rs) that use them, the reaper, and the end of a worktree.*)
(* One project and one language.  A worktree of the application is known by its *)
(* root; a path the pool does not know gets a minted id, its own project.       *)
EXTENDS LspClient

CONSTANTS
    Project,      \* the project of the worktrees
    Minted,       \* ids for paths nobody registered, each used at most once
    FolderCap     \* FOLDER_CAP

Ids == Roots \cup Minted
Projects == {Project} \cup Minted
Records == [project : Projects, root : Roots]
EditorKinds == {"hover", "format", "diagnostics", "save", "close"}
BridgeKinds == {"hover", "diagnostics", "check"}

\* Ids are UUIDs: a minted one is new.
ASSUME PoolAssumption ==
    /\ FolderCap \in Nat \ {0}
    /\ None \notin Minted \cup {Project} \cup Records
    /\ Minted \cap (Roots \cup {Project}) = {}

LoadTypes ==
    [kinds : SUBSET (EditorKinds \cup BridgeKinds \cup {"warm"}), roots : SUBSET Roots, texts : SUBSET Texts,
     calls : Nat, mints : Nat, closes : Nat, idles : Nat, begins : Nat, deaths : Nat, failures : Nat]

ASSUME LoadAssumption == Loads \subseteq LoadTypes

VARIABLES
    pools,    \* worktrees, by_path, shared, folders and dedicated
    lock      \* the call that holds the pools across a spawn, or None

vars == <<client, call, left, pools, lock>>

Init ==
    /\ ClientInit
    /\ pools = [worktrees |-> [i \in Ids |-> None], byPath |-> [r \in Roots |-> None],
                shared |-> [p \in Projects |-> None], folders |-> [p \in Projects |-> {}],
                dedicated |-> [i \in Ids |-> None]]
    /\ lock = None

Free == lock = None
QuietPool == UNCHANGED <<pools, lock>>
-----------------------------------------------------------------------------
(* A call begins *)

Fresh(c) == call[c] = NewCall /\ c = CHOOSE d \in Calls : call[d] = NewCall

Begin(c, kind, root, text, pc) ==
    /\ Fresh(c)
    /\ Spend("calls") /\ kind \in left.kinds
    /\ call' = [call EXCEPT ![c] = [NewCall EXCEPT !.pc = pc, !.kind = kind, !.root = root, !.text = text]]
    /\ UNCHANGED <<client, pools, lock>>

\* A command of the editor brings its buffer; closing a tab spawns no server.
AskEditor(c, kind, root, text) ==
    kind \in EditorKinds /\ Begin(c, kind, root, text, IF kind = "close" THEN "running" ELSE "route")

\* A call of the MCP server comes through the bridge, which reads the file.
AskBridge(c, kind, root) == kind \in BridgeKinds /\ Begin(c, kind, root, Disk, "route")

WarmPrimary(c, root) == Begin(c, "warm", root, None, "enroll")

\* register: the path leads to the id from now on, a record is made once.
Registered(id, project, root) ==
    [pools EXCEPT !.byPath[root] = id,
                  !.worktrees[id] = IF @ = None THEN [project |-> project, root |-> root] ELSE @]

Enroll(c) ==
    /\ At(c, "enroll") /\ Free
    /\ pools' = Registered(call[c].root, Project, call[c].root)
    /\ call' = [call EXCEPT ![c] = [@ EXCEPT !.pc = "ensure", !.id = call[c].root, !.project = Project]]
    /\ UNCHANGED <<client, left, lock>>

\* ensure_at: a known path is routed, another gets an id in a step of its own.
Route(c) ==
    LET id == pools.byPath[call[c].root] IN
    /\ At(c, "route") /\ Free
    /\ call' = IF id # None /\ pools.worktrees[id] # None
               THEN [call EXCEPT ![c] = [@ EXCEPT !.pc = "ensure", !.id = id, !.project = pools.worktrees[id].project]]
               ELSE [call EXCEPT ![c].pc = "mint"]
    /\ UNCHANGED <<client, left, pools, lock>>

Unminted == {i \in Minted : \A c \in Calls : call[c].id # i}

Mint(c) ==
    /\ At(c, "mint") /\ Free
    /\ Spend("mints") /\ Unminted # {}
    /\ LET i == CHOOSE j \in Unminted : TRUE IN
       /\ pools' = Registered(i, i, call[c].root)
       /\ call' = [call EXCEPT ![c] = [@ EXCEPT !.pc = "ensure", !.id = i, !.project = i]]
    /\ UNCHANGED <<client, lock>>

\* running_at never spawns.
RunningAt(c) ==
    LET id == pools.byPath[call[c].root]
        rec == IF id = None THEN None ELSE pools.worktrees[id]
        srv == IF rec = None THEN None
               ELSE IF pools.dedicated[id] # None THEN pools.dedicated[id] ELSE pools.shared[rec.project]
    IN
    /\ At(c, "running") /\ Free
    /\ call' = [call EXCEPT ![c].srv = srv, ![c].pc = IF srv = None THEN "done" ELSE "forget"]
    /\ UNCHANGED <<client, left, pools, lock>>
-----------------------------------------------------------------------------
(* ensure *)

AfterEnsure(c) == IF call[c].kind = "warm" THEN "done" ELSE "use"
Serve(c, s) == call' = [call EXCEPT ![c].srv = s, ![c].pc = AfterEnsure(c)]

AddFolder(x, root) == [Touched(x) EXCEPT !.roots = @ \cup {root}]

Reuse(c) ==
    LET k == call[c]
        ded == pools.dedicated[k.id]
        shared == pools.shared[k.project]
        known == k.root \in pools.folders[k.project]
    IN
    /\ At(c, "ensure") /\ Free
    /\ \/ /\ ded # None
          /\ Serve(c, ded) /\ UNCHANGED <<client, pools>>
       \/ /\ ded = None /\ shared # None /\ known
          /\ Serve(c, shared) /\ UNCHANGED <<client, pools>>
       \/ /\ ded = None /\ shared # None /\ ~known /\ Cardinality(pools.folders[k.project]) < FolderCap
          /\ pools' = [pools EXCEPT !.folders[k.project] = @ \cup {k.root}]
          /\ Put(shared, AddFolder(client[shared], k.root))
          /\ Serve(c, shared)
    /\ UNCHANGED <<left, lock>>

Full(p) == Cardinality(pools.folders[p]) >= FolderCap

\* The lock is held until the handshake is over.
Spawn(c) ==
    LET k == call[c]
        s == CHOOSE t \in Servers : client[t].proc = "off"
    IN
    /\ At(c, "ensure") /\ Free
    /\ pools.dedicated[k.id] = None
    /\ pools.shared[k.project] # None => k.root \notin pools.folders[k.project] /\ Full(k.project)
    /\ \E t \in Servers : client[t].proc = "off"
    /\ lock' = c
    /\ Put(s, [NewClient EXCEPT !.proc = "up", !.reader = "run", !.roots = {k.root}])
    /\ call' = [call EXCEPT ![c].srv = s, ![c].pc = "handshake"]
    /\ UNCHANGED <<left, pools>>

SpawnReady(c) ==
    LET k == call[c] IN
    /\ At(c, "handshake") /\ Reads(k.srv)
    /\ pools' = IF Full(k.project) THEN [pools EXCEPT !.dedicated[k.id] = k.srv]
                ELSE [pools EXCEPT !.shared[k.project] = k.srv, !.folders[k.project] = @ \cup {k.root}]
    /\ lock' = None
    /\ Goto(c, AfterEnsure(c))
    /\ UNCHANGED <<client, left>>

\* Not installed, no answer, or dead: the caller gets an error, the pools stay.
SpawnFails(c) ==
    /\ At(c, "handshake")
    /\ Spend("failures")
    /\ lock' = None
    /\ Goto(c, "failed")
    /\ UNCHANGED <<client, pools>>
-----------------------------------------------------------------------------
(* The end of a worktree, and the reaper *)

\* Shut down: the request and the notification are sent; nothing kills the process.
Told(x) == [x EXCEPT !.told = TRUE]

\* Mutant of Close: the folder is only taken out of the pools.
CloseQuietly(w) ==
    LET rec == pools.worktrees[w] IN
    /\ Spend("closes")
    /\ Free /\ rec # None
    /\ pools' = [pools EXCEPT !.worktrees[w] = None, !.byPath[rec.root] = None, !.dedicated[w] = None,
                              !.folders[rec.project] = @ \ {rec.root}]
    /\ UNCHANGED <<client, call, lock>>
Close(w) ==
    LET rec == pools.worktrees[w]
        p == rec.project
        attached == rec.root \in pools.folders[p]
        rest == pools.folders[p] \ {rec.root}
        over == {pools.dedicated[w]} \cup (IF attached /\ rest = {} THEN {pools.shared[p]} ELSE {})
        detached == IF attached /\ rest # {} THEN {pools.shared[p]} ELSE {}
    IN
    /\ Spend("closes")
    /\ Free /\ rec # None
    /\ pools' = [pools EXCEPT !.worktrees[w] = None, !.byPath[rec.root] = None, !.dedicated[w] = None,
                              !.folders[p] = rest, !.shared[p] = IF attached /\ rest = {} THEN None ELSE @]
    /\ client' = [s \in Servers |-> IF s \in over THEN Told(client[s])
                                    ELSE IF s \in detached THEN [Touched(client[s]) EXCEPT !.roots = @ \ {rec.root}]
                                    ELSE client[s]]
    /\ UNCHANGED <<call, lock>>

Pooled == {pools.shared[p] : p \in Projects} \cup {pools.dedicated[i] : i \in Ids}

\* IDLE_TTL is longer than any wait.
Busy(s) == \E c \in Calls : call[c].srv = s /\ call[c].pc \notin {"done", "failed", "use"}
IdlePasses(s) ==
    /\ Spend("idles")
    /\ s \in Pooled /\ ~client[s].idle /\ ~Busy(s)
    /\ Put(s, [client[s] EXCEPT !.idle = TRUE])
    /\ UNCHANGED <<call, pools, lock>>

ReapIdle ==
    LET victims == {s \in Pooled \ {None} : client[s].idle}
        Kept(s) == IF s \in victims THEN None ELSE s
    IN
    /\ Free /\ victims # {}
    /\ pools' = [pools EXCEPT !.shared = [p \in Projects |-> Kept(pools.shared[p])],
                              !.folders = [p \in Projects |-> IF pools.shared[p] \in victims THEN {} ELSE pools.folders[p]],
                              !.dedicated = [i \in Ids |-> Kept(pools.dedicated[i])]]
    /\ client' = [s \in Servers |-> IF s \in victims THEN Told(client[s]) ELSE client[s]]
    /\ UNCHANGED <<call, left, lock>>
-----------------------------------------------------------------------------
PoolStep(c) ==
    \/ Enroll(c) \/ Route(c) \/ Mint(c) \/ RunningAt(c) \/ Reuse(c) \/ Spawn(c) \/ SpawnReady(c) \/ SpawnFails(c)

Next ==
    \/ \E c \in Calls, root \in left.roots :
        \/ \E kind \in EditorKinds, text \in left.texts : AskEditor(c, kind, root, text)
        \/ \E kind \in BridgeKinds : AskBridge(c, kind, root)
        \/ WarmPrimary(c, root)
    \/ \E c \in Calls : PoolStep(c)
    \/ \E c \in Calls : ClientStep(c) /\ QuietPool
    \/ \E s \in Servers : ServerStep(s) /\ QuietPool
    \/ \E w \in Roots : Close(w)
    \/ \E s \in Servers : IdlePasses(s)
    \/ ReapIdle

Spec == Init /\ [][Next]_vars

\* A call whose wait is over goes on; nothing is assumed of a server or of a timeout.
FairSpec == Spec /\ \A c \in Calls : WF_vars(Phase2(c) /\ QuietPool)
-----------------------------------------------------------------------------
(* Properties *)

\* The folders the pools record for a server are those it was told of, a shared server
\* without folders is not kept, and no worktree of a project is on two servers at once,
\* through joins, caps, closes, reaps and failed spawns (ensure, close, reap_idle).
FoldersMatchRoots ==
    /\ \A p \in Projects :
        IF pools.shared[p] = None THEN pools.folders[p] = {}
        ELSE pools.folders[p] # {} /\ client[pools.shared[p]].roots = pools.folders[p]
    /\ \A i \in Ids : pools.dedicated[i] # None =>
        /\ pools.worktrees[i] # None => client[pools.dedicated[i]].roots = {pools.worktrees[i].root}
        /\ \A p \in Projects : pools.shared[p] # pools.dedicated[i]
        /\ i \in Roots => i \notin pools.folders[Project]

\* Statements of the comments the code does not keep.

\* close: a closed worktree keeps no server (a call that was routed before attaches it
\* again).
ClosedIsServedByNone ==
    \A i \in Ids : pools.worktrees[i] = None => pools.dedicated[i] = None /\ (i \in Roots => i \notin pools.folders[Project])

\* ensure_at: repeat queries of a path reuse one server (two first queries mint two ids).
OneServerPerPath ==
    \A r \in Roots : Cardinality({s \in Pooled \ {None} : r \in client[s].roots}) <= 1

\* reap_idle: a stale holder is told, and the caller asks again (the bridge returns the
\* error).
StaleHolderAsksAgain == \A c \in Calls : At(c, "failed") /\ call[c].srv # None => ~client[call[c].srv].told

\* A dead server is replaced by the next call.
NoDeadServerIsServed == [][\A c \in Calls : Reuse(c) => client[call'[c].srv].proc = "up"]_vars
=============================================================================
