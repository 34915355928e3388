------------------------------ MODULE AgentPool ------------------------------
(* The pool of WSL agents (apps/desktop/src/infra/agent_pool.rs), the agent     *)
(* process at the other end of its stdio (apps/agent) and the service that      *)
(* keeps one watch per worktree open on it (WslFsWatchService).  A request id   *)
(* is fresh for every call (new_request_id), so a call is its own request id.   *)
(* The line a writer task puts into the pipe of a live agent is read at once:   *)
(* a request lost in the pipe is one the agent dies on.                         *)
EXTENDS Naturals, Sequences, FiniteSets

CONSTANTS
    Calls,       \* the calls made in a behaviour
    Distros,     \* WSL distros
    Agents,      \* identities of agent processes, each spawned at most once
    Worktrees,   \* worktrees of WSL projects, as WslFsWatchService keys them
    DistroOf,    \* the distro of a worktree
    None,
    Capacity,    \* places in the channel to the writer task (32 in the code)
    MaxEvents,   \* events one request may emit (a bound)
    MaxDeaths    \* agent processes that die by themselves (a bound)

Ops == {"call", "stream", "watch"}   \* call, call_streaming, call_open_stream
Results == {"ok", "remote", "gone", "channel", "deploy"}
Frames == [req : Calls, kind : {"event", "result", "error"}]

ASSUME PoolAssumption ==
    /\ None \notin Agents \cup Calls \cup Results \cup Worktrees
    /\ DistroOf \in [Worktrees -> Distros]
    /\ Capacity \in Nat \ {0} /\ MaxEvents \in Nat /\ MaxDeaths \in Nat

VARIABLES
    pool,       \* pool[d]: the handle in the map, or None
    agent,      \* agent[a]: the process and the two tasks of its handle
    pending,    \* pending[a]: the requests with a PendingCall entry
    call,       \* call[c]: where the caller stands
    emitted,    \* emitted[c]: events the agent wrote for c
    armed,      \* worktrees WslFsWatchService takes for watched
    deaths

poolVars == <<pool, agent, pending, call, emitted, deaths>>
vars == <<pool, agent, pending, call, emitted, armed, deaths>>

Unborn == [state |-> "unborn", distro |-> None, queue |-> <<>>, writing |-> FALSE,
           running |-> {}, watching |-> {}, out |-> <<>>, reading |-> FALSE]
Spawned(d) == [Unborn EXCEPT !.state = "up", !.distro = d, !.writing = TRUE, !.reading = TRUE]
Idle == [pc |-> "idle", op |-> None, distro |-> None, agent |-> None, got |-> 0,
         result |-> None, key |-> None]

Init ==
    /\ pool = [d \in Distros |-> None]
    /\ agent = [a \in Agents |-> Unborn]
    /\ pending = [a \in Agents |-> {}]
    /\ call = [c \in Calls |-> Idle]
    /\ emitted = [c \in Calls |-> 0]
    /\ armed = {}
    /\ deaths = 0
-----------------------------------------------------------------------------
(* Callers *)

\* ensure_agent looks the distro up under the lock and lets go of it.
Looked(c, op, d, k) ==
    call' = [call EXCEPT ![c] =
        [Idle EXCEPT !.pc = IF pool[d] = None THEN "deploying" ELSE "have",
                     !.op = op, !.distro = d, !.agent = pool[d], !.key = k]]

Start(c, op, d) ==
    /\ call[c].pc = "idle" /\ op # "watch"
    /\ Looked(c, op, d, None)
    /\ UNCHANGED <<pool, agent, pending, emitted, armed, deaths>>

\* deploy_if_needed fails: no binary on the host, or a failing script.
DeployFails(c) ==
    /\ call[c].pc = "deploying"
    /\ call' = [call EXCEPT ![c].pc = "done", ![c].result = "deploy"]
    /\ UNCHANGED <<pool, agent, pending, emitted, armed, deaths>>

\* Spawns and inserts, whatever another caller inserted since the lookup.
SpawnAndInsert(c) ==
    /\ call[c].pc = "deploying"
    /\ \E a \in Agents :
          /\ agent[a].state = "unborn"
          /\ agent' = [agent EXCEPT ![a] = Spawned(call[c].distro)]
          /\ pool' = [pool EXCEPT ![call[c].distro] = a]
          /\ call' = [call EXCEPT ![c].pc = "have", ![c].agent = a]
    /\ UNCHANGED <<pending, emitted, armed, deaths>>

Register(c) ==
    /\ call[c].pc = "have"
    /\ pending' = [pending EXCEPT ![call[c].agent] = @ \cup {c}]
    /\ call' = [call EXCEPT ![c].pc = "registered"]
    /\ UNCHANGED <<pool, agent, emitted, armed, deaths>>

\* The writer task is gone: the send fails and the pending entry stays.
SendFails(c) ==
    LET a == call[c].agent IN
    /\ call[c].pc = "registered" /\ ~agent[a].writing
    /\ call' = [call EXCEPT ![c].pc = "done", ![c].result = "channel"]
    /\ UNCHANGED <<pool, agent, pending, emitted, armed, deaths>>

\* An open stream returns to its caller here; a call waits for its answer, which
\* the drain at EOF may have left in the oneshot already.
Send(c) ==
    LET a == call[c].agent IN
    /\ call[c].pc = "registered" /\ agent[a].writing /\ Len(agent[a].queue) < Capacity
    /\ agent' = [agent EXCEPT ![a].queue = Append(@, c)]
    /\ call' = [call EXCEPT ![c].pc = IF call[c].op = "watch" THEN "open"
                                      ELSE IF call[c].result = None THEN "waiting" ELSE "done"]
    /\ UNCHANGED <<pool, pending, emitted, armed, deaths>>
-----------------------------------------------------------------------------
(* The writer and reader tasks of a handle *)

\* fs.watch is handled in the order of the lines: it starts the watch, or answers
\* with an error (no such root).  Every other request becomes a task.
Write(a) ==
    LET c == Head(agent[a].queue) IN
    /\ agent[a].state = "up" /\ agent[a].writing /\ agent[a].queue # <<>>
    /\ \/ /\ call[c].op # "watch"
          /\ agent' = [agent EXCEPT ![a].queue = Tail(@), ![a].running = @ \cup {c}]
       \/ /\ call[c].op = "watch"
          /\ agent' = [agent EXCEPT ![a].queue = Tail(@), ![a].watching = @ \cup {c}]
       \/ /\ call[c].op = "watch"
          /\ agent' = [agent EXCEPT ![a].queue = Tail(@),
                                    ![a].out = Append(@, [req |-> c, kind |-> "error"])]
    /\ UNCHANGED <<pool, pending, call, emitted, armed, deaths>>

\* The pipe of a dead agent refuses the next line: the task ends, its channel closes.
WriteFails(a) ==
    /\ agent[a].state = "dead" /\ agent[a].writing /\ agent[a].queue # <<>>
    /\ agent' = [agent EXCEPT ![a].writing = FALSE, ![a].queue = <<>>]
    /\ UNCHANGED <<pool, pending, call, emitted, armed, deaths>>

AnsweredUnlessRemote(c, r) ==     \* MUTANT of Answered: an error frame fires no oneshot
    [call[c] EXCEPT
        !.result = IF @ = None /\ r # "remote" THEN r ELSE @,
        !.pc = CASE @ = "waiting" /\ r # "remote" -> "done" [] @ = "open" -> "closed" [] OTHER -> @]

\* What a caller sees when its PendingCall goes: its answer, or a closed stream.
Answered(c, r) ==
    [call[c] EXCEPT
        !.result = IF @ = None THEN r ELSE @,
        !.pc = CASE @ = "waiting" -> "done" [] @ = "open" -> "closed" [] OTHER -> @]

\* route_frame: a frame for a request without an entry is dropped.
RouteFrame(a) ==
    LET f == Head(agent[a].out)  c == f.req IN
    /\ agent[a].reading /\ agent[a].out # <<>>
    /\ agent' = [agent EXCEPT ![a].out = Tail(@)]
    /\ IF c \notin pending[a] THEN UNCHANGED <<pending, call>>
       ELSE \/ /\ f.kind = "event"
               /\ call' = [call EXCEPT ![c].got = @ + 1]
               /\ UNCHANGED pending
            \/ /\ f.kind # "event"
               /\ pending' = [pending EXCEPT ![a] = @ \ {c}]
               /\ call' = [call EXCEPT ![c] =
                              Answered(c, IF f.kind = "result" THEN "ok" ELSE "remote")]
    /\ UNCHANGED <<pool, emitted, armed, deaths>>

DrainSilently(a) ==               \* MUTANT of Drain: the entries go, nobody is told
    /\ agent[a].state = "dead" /\ agent[a].reading /\ agent[a].out = <<>>
    /\ agent' = [agent EXCEPT ![a].reading = FALSE]
    /\ pending' = [pending EXCEPT ![a] = {}]
    /\ UNCHANGED <<pool, call, emitted, armed, deaths>>

\* EOF once everything the agent wrote is read: every pending call is cancelled.
Drain(a) ==
    /\ agent[a].state = "dead" /\ agent[a].reading /\ agent[a].out = <<>>
    /\ agent' = [agent EXCEPT ![a].reading = FALSE]
    /\ call' = [c \in Calls |-> IF c \in pending[a] THEN Answered(c, "gone") ELSE call[c]]
    /\ pending' = [pending EXCEPT ![a] = {}]
    /\ UNCHANGED <<pool, emitted, armed, deaths>>
-----------------------------------------------------------------------------
(* The agent process *)

Emits(a, c) ==
    /\ agent[a].state = "up" /\ emitted[c] < MaxEvents
    /\ emitted' = [emitted EXCEPT ![c] = @ + 1]
    /\ agent' = [agent EXCEPT ![a].out = Append(@, [req |-> c, kind |-> "event"])]
    /\ UNCHANGED <<pool, pending, call, armed, deaths>>

EmitProgressLate(a) ==            \* MUTANT of EmitProgress: the pump outlives its request
    \E c \in Calls : call[c].agent = a /\ call[c].op = "stream" /\ Emits(a, c)
EmitProgress(a) == \E c \in agent[a].running : call[c].op = "stream" /\ Emits(a, c)
EmitChange(a)   == \E c \in agent[a].watching : Emits(a, c)

\* A task answers once its events are out (rebuild_inner waits for its pump);
\* tasks end in any order.
Finish(a) ==
    \E c \in agent[a].running, k \in {"result", "error"} :
       /\ agent[a].state = "up"
       /\ agent' = [agent EXCEPT ![a].running = @ \ {c},
                                 ![a].out = Append(@, [req |-> c, kind |-> k])]
       /\ UNCHANGED <<pool, pending, call, emitted, armed, deaths>>

Dead(a) == agent' = [agent EXCEPT ![a].state = "dead", ![a].running = {}, ![a].watching = {}]

Die(a) ==
    /\ agent[a].state = "up" /\ deaths < MaxDeaths
    /\ deaths' = deaths + 1
    /\ Dead(a)
    /\ UNCHANGED <<pool, pending, call, emitted, armed>>

HeldByStreams(a) ==               \* MUTANT of Held: an open stream keeps its agent
    \/ \E d \in Distros : pool[d] = a
    \/ \E c \in Calls : call[c].agent = a /\ call[c].pc \in {"have", "registered", "waiting", "open"}

\* A handle lives as long as the map or a caller inside the pool holds it.
Held(a) == \/ \E d \in Distros : pool[d] = a
           \/ \E c \in Calls : call[c].agent = a /\ call[c].pc \in {"have", "registered", "waiting"}

\* kill_on_drop: with its last holder the handle takes the child along.
Reap(a) ==
    /\ agent[a].state = "up" /\ ~Held(a)
    /\ Dead(a)
    /\ UNCHANGED <<pool, pending, call, emitted, armed, deaths>>
-----------------------------------------------------------------------------
(* WslFsWatchService *)

\* ensure: a directory listing arms the worktree unless it is armed.
Arm(w, c) ==
    /\ call[c].pc = "idle" /\ w \notin armed
    /\ armed' = armed \cup {w}
    /\ Looked(c, "watch", DistroOf[w], w)
    /\ UNCHANGED <<pool, agent, pending, emitted, deaths>>

\* The open failed, or the receiver ran dry because its entry is gone.
Disarm(c) ==
    /\ call[c].op = "watch" /\ call[c].pc \in {"done", "closed"} /\ call[c].key # None
    /\ armed' = armed \ {call[c].key}
    /\ call' = [call EXCEPT ![c].key = None]
    /\ UNCHANGED <<pool, agent, pending, emitted, deaths>>

\* An entry the drain removed before the caller had its receiver: the loop ends at once.
FindClosed(c) ==
    /\ call[c].pc = "open" /\ call[c].result # None
    /\ call' = [call EXCEPT ![c].pc = "closed"]
    /\ UNCHANGED <<pool, agent, pending, emitted, armed, deaths>>
-----------------------------------------------------------------------------
CallerStep(c) == \/ DeployFails(c) \/ SpawnAndInsert(c) \/ Register(c) \/ SendFails(c) \/ Send(c)
                 \/ Disarm(c) \/ FindClosed(c)
Pump(a) == Write(a) \/ WriteFails(a) \/ RouteFrame(a) \/ Drain(a)
Process(a) == EmitProgress(a) \/ EmitChange(a) \/ Finish(a) \/ Die(a) \/ Reap(a)

Next ==
    \/ \E c \in Calls, op \in Ops, d \in Distros : Start(c, op, d)
    \/ \E w \in Worktrees, c \in Calls : Arm(w, c)
    \/ \E c \in Calls : CallerStep(c)
    \/ \E a \in Agents : Pump(a) \/ Process(a)

Spec == Init /\ [][Next]_vars

\* Tokio keeps running every task that can take a step, an operation of the
\* agent ends or the agent dies, and a handle nobody holds is dropped.
Fairness ==
    /\ \A c \in Calls : WF_vars(CallerStep(c))
    /\ \A a \in Agents : WF_vars(Pump(a)) /\ WF_vars(Finish(a)) /\ WF_vars(Reap(a))
FairSpec == Spec /\ Fairness
-----------------------------------------------------------------------------
Handles == [state : {"unborn", "up", "dead"}, distro : Distros \cup {None},
            queue : Seq(Calls), writing : BOOLEAN, running : SUBSET Calls,
            watching : SUBSET Calls, out : Seq(Frames), reading : BOOLEAN]
Callers == [pc : {"idle", "deploying", "have", "registered", "waiting", "open", "done", "closed"},
            op : Ops \cup {None}, distro : Distros \cup {None}, agent : Agents \cup {None},
            got : Nat, result : Results \cup {None}, key : Worktrees \cup {None}]
HasAgent == {"have", "registered", "waiting", "open", "closed"}

TypeOK ==
    /\ pool \in [Distros -> Agents \cup {None}]
    /\ agent \in [Agents -> Handles]
    /\ pending \in [Agents -> SUBSET Calls]
    /\ call \in [Calls -> Callers]
    /\ \A c \in Calls : call[c].pc \in HasAgent => call[c].agent \in Agents
    /\ emitted \in [Calls -> Nat]
    /\ armed \subseteq Worktrees
    /\ deaths \in Nat

\* Nobody is forgotten: a caller that registered and has no answer yet still has
\* the entry its answer, or the drain at EOF, will find (call, route_frame).
WaiterIsRegistered ==
    \A c \in Calls :
        call[c].pc \in {"registered", "waiting", "open"} /\ call[c].result = None
            => c \in pending[call[c].agent]

\* A streaming call that succeeds has been given every event of its operation:
\* none is overtaken by the result that removes the entry (call_streaming,
\* rebuild_inner), and none reaches another request.
StreamIsComplete ==
    \A c \in Calls : call[c].result = "ok" => call[c].got = emitted[c]

\* WslFsWatchService holds one stream per armed worktree, neither more nor fewer,
\* so no worktree is disarmed by a stream that is not its own.
OneStreamPerWorktree ==
    /\ armed = {call[c].key : c \in Calls} \ {None}
    /\ \A c1, c2 \in Calls : call[c1].key = call[c2].key => c1 = c2 \/ call[c1].key = None

\* A call that registers while the reader of its agent runs is answered, whatever
\* dies in between (the drain at EOF cancels what is left).
CallsAreAnswered ==
    \A c \in Calls :
        (call[c].pc = "registered" /\ call[c].op # "watch" /\ agent[call[c].agent].reading)
            ~> call[c].pc = "done"

\* The agent that lost the race of two spawns does not stay: it ends with the
\* calls it serves, and the streams it serves are closed so their worktrees can
\* be armed again.
ReplacedAgentsEnd ==
    \A a \in Agents :
        (agent[a].state = "up" /\ pool[agent[a].distro] # a)
            ~> /\ agent[a].state = "dead"
               /\ \A c \in Calls : call[c].agent = a => call[c].pc # "open"

\* What the comment on ensure says: the stream of a dead agent ends, and the next
\* listing arms the worktree against a fresh agent (fs_watcher.rs).
OpenStreamIsServed ==
    \A c \in Calls : call[c].pc = "open" /\ call[c].result = None
        => agent[call[c].agent].reading
=============================================================================
