---------------------------- MODULE AgentPoolProof ----------------------------
(***************************************************************************)
(* The pool of WSL agents for any number of calls, distros, agents and      *)
(* worktrees, and any deaths: its states are well typed, no caller waits on *)
(* a pending entry that is gone, and a streaming call that succeeds has     *)
(* every event of its operation.                                            *)
(***************************************************************************)
EXTENDS AgentPool, SequenceTheorems, TLAPS

\* A request the pool forgets about (route_frame, the drain at EOF) is answered:
\* the caller has a result from then on, and keeps the agent it was given.
LEMMA AnsweredIsAnswered ==
  ASSUME TypeOK, NEW c \in Calls, NEW r \in Results
  PROVE  /\ Answered(c, r) \in Callers
         /\ Answered(c, r).result # None
         /\ Answered(c, r).agent = call[c].agent
         /\ Answered(c, r).pc \in HasAgent => call[c].pc \in HasAgent
<1> DEFINE res == IF call[c].result = None THEN r ELSE call[c].result
           pc == CASE call[c].pc = "waiting" -> "done" [] call[c].pc = "open" -> "closed"
                   [] OTHER -> call[c].pc
<1>1. call[c] \in Callers
  BY DEF TypeOK
<1>2. Answered(c, r) = [call[c] EXCEPT !.result = res, !.pc = pc]
  BY DEF Answered
<1>3. res \in Results /\ res # None
  BY <1>1, PoolAssumption DEF Callers
<1>4. /\ pc \in {"idle", "deploying", "have", "registered", "waiting", "open", "done", "closed"}
      /\ pc \in HasAgent => call[c].pc \in HasAgent
  BY <1>1 DEF Callers, HasAgent
<1> HIDE DEF res, pc
<1> QED
  BY <1>1, <1>2, <1>3, <1>4 DEF Callers

\* What ensure_agent finds is a caller's state, with an agent when it says so.
LEMMA LookedIsTyped ==
  ASSUME TypeOK, NEW c \in Calls, NEW op \in Ops, NEW d \in Distros,
         NEW k \in Worktrees \cup {None}, Looked(c, op, d, k)
  PROVE  /\ call' \in [Calls -> Callers]
         /\ call'[c].pc \in {"deploying", "have"}
         /\ call'[c].pc \in HasAgent => call'[c].agent \in Agents
         /\ \A x \in Calls : x # c => call'[x] = call[x]
<1> DEFINE n == [Idle EXCEPT !.pc = IF pool[d] = None THEN "deploying" ELSE "have",
                             !.op = op, !.distro = d, !.agent = pool[d], !.key = k]
<1>1. call' = [call EXCEPT ![c] = n]
  BY DEF Looked
<1>2. pool[d] \in Agents \cup {None}
  BY DEF TypeOK
<1>3. /\ n \in Callers /\ n.pc \in {"deploying", "have"}
      /\ n.pc \in HasAgent => n.agent \in Agents
  BY <1>2 DEF Idle, Callers, HasAgent
<1> HIDE DEF n
<1> QED
  BY <1>1, <1>3 DEF TypeOK

\* A handle with fields replaced by values of their types.
LEMMA HandleUpdates ==
  ASSUME NEW x \in Handles, NEW c \in Calls, NEW f \in Frames
  PROVE  /\ [x EXCEPT !.queue = Append(@, c)] \in Handles
         /\ [x EXCEPT !.out = Append(@, f)] \in Handles
         /\ [x EXCEPT !.running = @ \ {c}, !.out = Append(@, f)] \in Handles
         /\ [x EXCEPT !.writing = FALSE, !.queue = <<>>] \in Handles
         /\ [x EXCEPT !.reading = FALSE] \in Handles
         /\ [x EXCEPT !.state = "dead", !.running = {}, !.watching = {}] \in Handles
         /\ x.queue # <<>> =>
              /\ Head(x.queue) \in Calls
              /\ [x EXCEPT !.queue = Tail(@), !.running = @ \cup {c}] \in Handles
              /\ [x EXCEPT !.queue = Tail(@), !.watching = @ \cup {c}] \in Handles
              /\ [x EXCEPT !.queue = Tail(@), !.out = Append(@, f)] \in Handles
         /\ x.out # <<>> => /\ Head(x.out) \in Frames
                            /\ [x EXCEPT !.out = Tail(@)] \in Handles
<1>1. x.queue \in Seq(Calls) /\ x.out \in Seq(Frames)
  BY DEF Handles
<1>2. /\ Append(x.queue, c) \in Seq(Calls) /\ Append(x.out, f) \in Seq(Frames)
      /\ <<>> \in Seq(Calls)
  BY <1>1, AppendProperties, EmptySeq
<1>3. /\ x.queue # <<>> => Head(x.queue) \in Calls /\ Tail(x.queue) \in Seq(Calls)
      /\ x.out # <<>> => Head(x.out) \in Frames /\ Tail(x.out) \in Seq(Frames)
  BY <1>1, HeadTailProperties
<1>4. QED
  <2>1. /\ [x EXCEPT !.queue = Append(@, c)] \in Handles
        /\ [x EXCEPT !.out = Append(@, f)] \in Handles
    BY <1>2 DEF Handles
  <2>2. [x EXCEPT !.running = @ \ {c}, !.out = Append(@, f)] \in Handles
    BY <1>2 DEF Handles
  <2>3. /\ [x EXCEPT !.writing = FALSE, !.queue = <<>>] \in Handles
        /\ [x EXCEPT !.reading = FALSE] \in Handles
    BY <1>2 DEF Handles
  <2>4. [x EXCEPT !.state = "dead", !.running = {}, !.watching = {}] \in Handles
    BY DEF Handles
  <2>5. ASSUME x.queue # <<>>
        PROVE  /\ Head(x.queue) \in Calls
               /\ [x EXCEPT !.queue = Tail(@), !.running = @ \cup {c}] \in Handles
               /\ [x EXCEPT !.queue = Tail(@), !.watching = @ \cup {c}] \in Handles
               /\ [x EXCEPT !.queue = Tail(@), !.out = Append(@, f)] \in Handles
    <3>1. Head(x.queue) \in Calls /\ Tail(x.queue) \in Seq(Calls)
      BY <1>3, <2>5
    <3>2. [x EXCEPT !.queue = Tail(@), !.running = @ \cup {c}] \in Handles
      BY <3>1 DEF Handles
    <3>3. [x EXCEPT !.queue = Tail(@), !.watching = @ \cup {c}] \in Handles
      BY <3>1 DEF Handles
    <3>4. [x EXCEPT !.queue = Tail(@), !.out = Append(@, f)] \in Handles
      BY <1>2, <3>1 DEF Handles
    <3> QED
      BY <3>1, <3>2, <3>3, <3>4
  <2>6. x.out # <<>> => Head(x.out) \in Frames /\ [x EXCEPT !.out = Tail(@)] \in Handles
    BY <1>3 DEF Handles
  <2> QED
    BY <2>1, <2>2, <2>3, <2>4, <2>5, <2>6

\* A step that replaces the record of one caller, and lets no entry go: what
\* remains to show is the new record.
LEMMA CallerStepKeeps ==
  ASSUME TypeOK, WaiterIsRegistered, NEW c \in Calls, NEW r \in Callers,
         call' = [call EXCEPT ![c] = r],
         r.pc \in HasAgent => r.agent \in Agents,
         pending' \in [Agents -> SUBSET Calls],
         \A a \in Agents : pending[a] \subseteq pending'[a],
         r.pc \in {"registered", "waiting", "open"} /\ r.result = None => c \in pending'[r.agent]
  PROVE  /\ call' \in [Calls -> Callers]
         /\ \A x \in Calls : call'[x].pc \in HasAgent => call'[x].agent \in Agents
         /\ WaiterIsRegistered'
<1>1. /\ call' \in [Calls -> Callers]
      /\ call'[c] = r /\ \A x \in Calls : x # c => call'[x] = call[x]
  BY DEF TypeOK
<1>2. \A x \in Calls : call'[x].pc \in HasAgent => call'[x].agent \in Agents
  BY <1>1 DEF TypeOK
<1>3. ASSUME NEW x \in Calls, call'[x].pc \in {"registered", "waiting", "open"}, call'[x].result = None
      PROVE  x \in pending'[call'[x].agent]
  <2>1. CASE x = c
    BY <1>1, <1>3, <2>1
  <2>2. CASE x # c
    <3>1. x \in pending[call[x].agent] /\ call[x].agent \in Agents
      BY <1>1, <1>3, <2>2 DEF WaiterIsRegistered, TypeOK, HasAgent
    <3> QED
      BY <1>1, <2>2, <3>1
  <2> QED
    BY <2>1, <2>2
<1> QED
  BY <1>1, <1>2, <1>3 DEF WaiterIsRegistered

\* A step of an agent or of the tasks of its handle: the callers stand where they
\* stood and no entry goes.
LEMMA AgentStepKeeps ==
  ASSUME TypeOK, WaiterIsRegistered, NEW a \in Agents, NEW x \in Handles,
         agent' = [agent EXCEPT ![a] = x], emitted' \in [Calls -> Nat], deaths' \in Nat,
         UNCHANGED <<pool, pending, call, armed>>
  PROVE  TypeOK' /\ WaiterIsRegistered'
<1>1. agent' \in [Agents -> Handles]
  BY DEF TypeOK
<1> QED
  BY <1>1 DEF TypeOK, WaiterIsRegistered

\* The initial state, where nobody has called yet.
LEMMA PoolInit == Init => TypeOK /\ WaiterIsRegistered
<1> SUFFICES ASSUME Init PROVE TypeOK /\ WaiterIsRegistered
  OBVIOUS
<1>1. Unborn \in Handles
  <2>1. <<>> \in Seq(Calls) /\ <<>> \in Seq(Frames)
    BY EmptySeq
  <2> QED
    BY <2>1 DEF Unborn, Handles
<1>2. Idle \in Callers /\ Idle.pc = "idle"
  BY DEF Idle, Callers
<1>3. TypeOK
  BY <1>1, <1>2 DEF Init, TypeOK, HasAgent
<1>4. WaiterIsRegistered
  BY <1>2 DEF Init, WaiterIsRegistered
<1> QED
  BY <1>3, <1>4

\* A command that looks the agent of its distro up (ensure_agent).
LEMMA LookedKeeps ==
  ASSUME TypeOK, WaiterIsRegistered, NEW c \in Calls, NEW op \in Ops, NEW d \in Distros,
         NEW k \in Worktrees \cup {None}, Looked(c, op, d, k), armed' \subseteq Worktrees,
         UNCHANGED <<pool, agent, pending, emitted, deaths>>
  PROVE  TypeOK' /\ WaiterIsRegistered'
<1>1. /\ call' \in [Calls -> Callers] /\ call'[c].pc \in {"deploying", "have"}
      /\ call'[c].pc \in HasAgent => call'[c].agent \in Agents
      /\ \A x \in Calls : x # c => call'[x] = call[x]
  BY LookedIsTyped
<1>2. TypeOK'
  BY <1>1 DEF TypeOK
<1>3. WaiterIsRegistered'
  BY <1>1 DEF WaiterIsRegistered
<1> QED
  BY <1>2, <1>3

\* Every step a caller takes, from the deployment of an agent to the end of its
\* stream: the only one after which it waits puts its entry there first.
LEMMA CallerKeeps ==
  ASSUME TypeOK, WaiterIsRegistered, NEW c \in Calls, CallerStep(c)
  PROVE  TypeOK' /\ WaiterIsRegistered'
<1>1. call[c] \in Callers /\ pending \in [Agents -> SUBSET Calls]
  BY DEF TypeOK
<1>2. call[c].pc \in {"registered", "waiting", "open"} /\ call[c].result = None
         => c \in pending[call[c].agent]
  BY DEF WaiterIsRegistered
<1>3. call[c].pc \in HasAgent => call[c].agent \in Agents
  BY DEF TypeOK
<1>4. CASE DeployFails(c)
  <2> DEFINE r == [call[c] EXCEPT !.pc = "done", !.result = "deploy"]
  <2>1. r \in Callers /\ r.pc = "done"
    BY <1>1 DEF Callers, Results
  <2>2. call' = [call EXCEPT ![c] = r] /\ UNCHANGED <<pool, agent, pending, emitted, armed, deaths>>
    BY <1>4 DEF DeployFails
  <2> HIDE DEF r
  <2>3. /\ call' \in [Calls -> Callers] /\ WaiterIsRegistered'
        /\ \A x \in Calls : call'[x].pc \in HasAgent => call'[x].agent \in Agents
    BY <1>1, <2>1, <2>2, CallerStepKeeps DEF HasAgent
  <2> QED
    BY <2>2, <2>3 DEF TypeOK
<1>5. CASE SpawnAndInsert(c)
  <2>1. PICK a \in Agents :
          /\ agent' = [agent EXCEPT ![a] = Spawned(call[c].distro)]
          /\ pool' = [pool EXCEPT ![call[c].distro] = a]
          /\ call' = [call EXCEPT ![c].pc = "have", ![c].agent = a]
    BY <1>5 DEF SpawnAndInsert
  <2> DEFINE r == [call[c] EXCEPT !.pc = "have", !.agent = a]
  <2>2. r \in Callers /\ r.pc = "have" /\ r.agent = a
    BY <1>1 DEF Callers, Results
  <2>3. call' = [call EXCEPT ![c] = r] /\ UNCHANGED <<pending, emitted, armed, deaths>>
    BY <1>5, <2>1, <1>1 DEF SpawnAndInsert, TypeOK, Callers
  <2> HIDE DEF r
  <2>4. /\ call' \in [Calls -> Callers] /\ WaiterIsRegistered'
        /\ \A x \in Calls : call'[x].pc \in HasAgent => call'[x].agent \in Agents
    BY <1>1, <2>2, <2>3, CallerStepKeeps
  <2>5. Spawned(call[c].distro) \in Handles
    <3>1. <<>> \in Seq(Calls) /\ <<>> \in Seq(Frames) /\ call[c].distro \in Distros \cup {None}
      BY <1>1, EmptySeq DEF Callers
    <3> QED
      BY <3>1 DEF Spawned, Unborn, Handles
  <2>6. agent' \in [Agents -> Handles] /\ pool' \in [Distros -> Agents \cup {None}]
    BY <2>1, <2>5 DEF TypeOK
  <2> QED
    BY <2>3, <2>4, <2>6 DEF TypeOK
<1>6. CASE Register(c)
  <2> DEFINE r == [call[c] EXCEPT !.pc = "registered"]
  <2>1. r \in Callers /\ r.pc = "registered" /\ r.agent = call[c].agent
    BY <1>1 DEF Callers, Results
  <2>2. /\ call' = [call EXCEPT ![c] = r] /\ UNCHANGED <<pool, agent, emitted, armed, deaths>>
        /\ pending' = [pending EXCEPT ![call[c].agent] = @ \cup {c}]
        /\ call[c].agent \in Agents
    BY <1>3, <1>6 DEF Register, HasAgent
  <2> HIDE DEF r
  <2>3. /\ pending' \in [Agents -> SUBSET Calls] /\ c \in pending'[r.agent]
        /\ \A a \in Agents : pending[a] \subseteq pending'[a]
    BY <1>1, <2>1, <2>2
  <2>4. /\ call' \in [Calls -> Callers] /\ WaiterIsRegistered'
        /\ \A x \in Calls : call'[x].pc \in HasAgent => call'[x].agent \in Agents
    BY <2>1, <2>2, <2>3, CallerStepKeeps
  <2> QED
    BY <2>2, <2>3, <2>4 DEF TypeOK
<1>7. CASE SendFails(c)
  <2> DEFINE r == [call[c] EXCEPT !.pc = "done", !.result = "channel"]
  <2>1. r \in Callers /\ r.pc = "done"
    BY <1>1 DEF Callers, Results
  <2>2. call' = [call EXCEPT ![c] = r] /\ UNCHANGED <<pool, agent, pending, emitted, armed, deaths>>
    BY <1>7 DEF SendFails
  <2> HIDE DEF r
  <2>3. /\ call' \in [Calls -> Callers] /\ WaiterIsRegistered'
        /\ \A x \in Calls : call'[x].pc \in HasAgent => call'[x].agent \in Agents
    BY <1>1, <2>1, <2>2, CallerStepKeeps DEF HasAgent
  <2> QED
    BY <2>2, <2>3 DEF TypeOK
<1>8. CASE Send(c)
  <2> DEFINE p == IF call[c].op = "watch" THEN "open"
                  ELSE IF call[c].result = None THEN "waiting" ELSE "done"
             r == [call[c] EXCEPT !.pc = p]
             h == [agent[call[c].agent] EXCEPT !.queue = Append(@, c)]
  <2>1. /\ r \in Callers /\ r.pc = p /\ r.agent = call[c].agent /\ r.result = call[c].result
        /\ p \in {"open", "waiting", "done"}
    BY <1>1 DEF Callers, Results
  <2>2. /\ call' = [call EXCEPT ![c] = r] /\ UNCHANGED <<pool, pending, emitted, armed, deaths>>
        /\ call[c].pc = "registered" /\ call[c].agent \in Agents
        /\ agent' = [agent EXCEPT ![call[c].agent] = h]
    BY <1>3, <1>8 DEF Send, HasAgent
  <2>3. h \in Handles
    <3>1. agent[call[c].agent] \in Handles
      BY <2>2 DEF TypeOK
    <3>2. [req |-> c, kind |-> "event"] \in Frames
      BY DEF Frames
    <3> QED
      BY <3>1, <3>2, HandleUpdates
  <2> HIDE DEF r, h, p
  <2>4. /\ call' \in [Calls -> Callers] /\ WaiterIsRegistered'
        /\ \A x \in Calls : call'[x].pc \in HasAgent => call'[x].agent \in Agents
    BY <1>1, <1>2, <2>1, <2>2, CallerStepKeeps DEF HasAgent
  <2>5. agent' \in [Agents -> Handles]
    BY <2>2, <2>3 DEF TypeOK
  <2> QED
    BY <2>2, <2>4, <2>5 DEF TypeOK
<1>9. CASE Disarm(c)
  <2> DEFINE r == [call[c] EXCEPT !.key = None]
  <2>1. r \in Callers /\ r.pc = call[c].pc /\ r.agent = call[c].agent /\ r.result = call[c].result
    BY <1>1 DEF Callers, Results
  <2>2. /\ call' = [call EXCEPT ![c] = r] /\ UNCHANGED <<pool, agent, pending, emitted, deaths>>
        /\ armed' \subseteq armed
    BY <1>9 DEF Disarm
  <2> HIDE DEF r
  <2>3. /\ call' \in [Calls -> Callers] /\ WaiterIsRegistered'
        /\ \A x \in Calls : call'[x].pc \in HasAgent => call'[x].agent \in Agents
    BY <1>1, <1>2, <1>3, <2>1, <2>2, CallerStepKeeps
  <2> QED
    BY <2>2, <2>3 DEF TypeOK
<1>10. CASE FindClosed(c)
  <2> DEFINE r == [call[c] EXCEPT !.pc = "closed"]
  <2>1. r \in Callers /\ r.pc = "closed" /\ r.agent = call[c].agent
    BY <1>1 DEF Callers, Results
  <2>2. /\ call' = [call EXCEPT ![c] = r] /\ UNCHANGED <<pool, agent, pending, emitted, armed, deaths>>
        /\ call[c].pc = "open"
    BY <1>10 DEF FindClosed
  <2> HIDE DEF r
  <2>3. /\ call' \in [Calls -> Callers] /\ WaiterIsRegistered'
        /\ \A x \in Calls : call'[x].pc \in HasAgent => call'[x].agent \in Agents
    BY <1>1, <1>3, <2>1, <2>2, CallerStepKeeps DEF HasAgent
  <2> QED
    BY <2>2, <2>3 DEF TypeOK
<1> QED
  BY <1>4, <1>5, <1>6, <1>7, <1>8, <1>9, <1>10 DEF CallerStep

\* Every step of the writer and reader tasks: an entry goes only as its caller
\* gets its result.
LEMMA PumpKeeps ==
  ASSUME TypeOK, WaiterIsRegistered, NEW a \in Agents, Pump(a)
  PROVE  TypeOK' /\ WaiterIsRegistered'
<1>1. agent[a] \in Handles
  BY DEF TypeOK
<1>2. CASE Write(a)
  <2> DEFINE c == Head(agent[a].queue)
             f == [req |-> c, kind |-> "error"]
  <2>1. agent[a].queue # <<>> /\ UNCHANGED <<pool, pending, call, emitted, armed, deaths>>
    BY <1>2 DEF Write
  <2>2. c \in Calls
    BY <1>1, <2>1, HeadTailProperties DEF Handles
  <2>3. f \in Frames
    BY <2>2 DEF Frames
  <2>4. PICK x : /\ agent' = [agent EXCEPT ![a] = x]
                 /\ x \in {[agent[a] EXCEPT !.queue = Tail(@), !.running = @ \cup {c}],
                           [agent[a] EXCEPT !.queue = Tail(@), !.watching = @ \cup {c}],
                           [agent[a] EXCEPT !.queue = Tail(@), !.out = Append(@, f)]}
    <3>1. CASE agent' = [agent EXCEPT ![a].queue = Tail(@), ![a].running = @ \cup {c}]
      <4> WITNESS [agent[a] EXCEPT !.queue = Tail(@), !.running = @ \cup {c}]
      <4> QED
        BY <1>1, <3>1 DEF TypeOK, Handles
    <3>2. CASE agent' = [agent EXCEPT ![a].queue = Tail(@), ![a].watching = @ \cup {c}]
      <4> WITNESS [agent[a] EXCEPT !.queue = Tail(@), !.watching = @ \cup {c}]
      <4> QED
        BY <1>1, <3>2 DEF TypeOK, Handles
    <3>3. CASE agent' = [agent EXCEPT ![a].queue = Tail(@), ![a].out = Append(@, f)]
      <4> WITNESS [agent[a] EXCEPT !.queue = Tail(@), !.out = Append(@, f)]
      <4> QED
        BY <1>1, <3>3 DEF TypeOK, Handles
    <3> QED
      BY <1>2, <3>1, <3>2, <3>3 DEF Write
  <2> HIDE DEF c, f
  <2>5. x \in Handles
    BY <1>1, <2>1, <2>2, <2>3, <2>4, HandleUpdates
  <2> QED
    BY <2>1, <2>4, <2>5, AgentStepKeeps DEF TypeOK
<1>3. CASE WriteFails(a)
  <2> DEFINE x == [agent[a] EXCEPT !.writing = FALSE, !.queue = <<>>]
  <2>1. x \in Handles
    <3>1. <<>> \in Seq(Calls)
      BY EmptySeq
    <3> QED
      BY <1>1, <3>1 DEF Handles
  <2>2. agent' = [agent EXCEPT ![a] = x] /\ UNCHANGED <<pool, pending, call, emitted, armed, deaths>>
    BY <1>3 DEF WriteFails
  <2> HIDE DEF x
  <2> QED
    BY <2>1, <2>2, AgentStepKeeps DEF TypeOK
<1>4. CASE RouteFrame(a)
  <2> DEFINE f == Head(agent[a].out)
             c == f.req
             x == [agent[a] EXCEPT !.out = Tail(@)]
  <2>1. /\ agent[a].out # <<>> /\ UNCHANGED <<pool, emitted, armed, deaths>>
        /\ agent' = [agent EXCEPT ![a] = x]
        /\ \/ UNCHANGED <<pending, call>>
           \/ c \in pending[a] /\ call' = [call EXCEPT ![c].got = @ + 1] /\ UNCHANGED pending
           \/ /\ c \in pending[a]
              /\ pending' = [pending EXCEPT ![a] = @ \ {c}]
              /\ call' = [call EXCEPT ![c] = Answered(c, IF f.kind = "result" THEN "ok" ELSE "remote")]
    BY <1>4 DEF RouteFrame
  <2>2. f \in Frames /\ x \in Handles
    <3>1. agent[a].out \in Seq(Frames)
      BY <1>1 DEF Handles
    <3>2. f \in Frames /\ Tail(agent[a].out) \in Seq(Frames)
      BY <2>1, <3>1, HeadTailProperties
    <3> QED
      BY <1>1, <3>2 DEF Handles
  <2>3. c \in Calls
    BY <2>2 DEF Frames
  <2>4. agent' \in [Agents -> Handles]
    BY <2>1, <2>2 DEF TypeOK
  <2>5. /\ call[c] \in Callers /\ pending \in [Agents -> SUBSET Calls]
        /\ call[c].pc \in HasAgent => call[c].agent \in Agents
        /\ call[c].pc \in {"registered", "waiting", "open"} /\ call[c].result = None
             => c \in pending[call[c].agent]
    BY <2>3 DEF TypeOK, WaiterIsRegistered
  <2> HIDE DEF f, c, x
  <2>6. CASE UNCHANGED <<pending, call>>
    BY <2>1, <2>4, <2>6 DEF TypeOK, WaiterIsRegistered
  <2>7. CASE call' = [call EXCEPT ![c].got = @ + 1] /\ UNCHANGED pending
    <3> DEFINE r == [call[c] EXCEPT !.got = @ + 1]
    <3>1. r \in Callers /\ r.pc = call[c].pc /\ r.agent = call[c].agent /\ r.result = call[c].result
      BY <2>5 DEF Callers
    <3>2. call' = [call EXCEPT ![c] = r]
      BY <2>7
    <3> HIDE DEF r
    <3>3. /\ call' \in [Calls -> Callers] /\ WaiterIsRegistered'
          /\ \A y \in Calls : call'[y].pc \in HasAgent => call'[y].agent \in Agents
      BY <2>3, <2>5, <2>7, <3>1, <3>2, CallerStepKeeps
    <3> QED
      BY <2>1, <2>4, <2>7, <3>3 DEF TypeOK
  <2>8. CASE /\ pending' = [pending EXCEPT ![a] = @ \ {c}]
             /\ call' = [call EXCEPT ![c] = Answered(c, IF f.kind = "result" THEN "ok" ELSE "remote")]
    <3> DEFINE v == IF f.kind = "result" THEN "ok" ELSE "remote"
               r == Answered(c, v)
    <3>1. v \in Results
      BY DEF Results
    <3>2. call' = [call EXCEPT ![c] = r]
      BY <2>8
    <3> HIDE DEF v
    <3>3. r \in Callers /\ r.result # None /\ r.agent = call[c].agent
          /\ (r.pc \in HasAgent => call[c].pc \in HasAgent)
      BY <2>3, <3>1, AnsweredIsAnswered
    <3> HIDE DEF r
    <3>4. pending' \in [Agents -> SUBSET Calls]
      BY <2>5, <2>8
    <3>5. TypeOK'
      BY <2>1, <2>3, <2>4, <2>5, <3>2, <3>3, <3>4 DEF TypeOK
    <3>6. ASSUME NEW y \in Calls, call'[y].pc \in {"registered", "waiting", "open"},
                 call'[y].result = None
          PROVE  y \in pending'[call'[y].agent]
      <4>1. y # c /\ call'[y] = call[y]
        BY <2>3, <3>2, <3>3, <3>6 DEF TypeOK
      <4>2. y \in pending[call[y].agent] /\ call[y].agent \in Agents
        BY <3>6, <4>1 DEF WaiterIsRegistered, TypeOK, HasAgent
      <4> QED
        BY <2>5, <2>8, <4>1, <4>2
    <3> QED
      BY <3>5, <3>6 DEF WaiterIsRegistered
  <2> QED
    BY <2>1, <2>6, <2>7, <2>8
<1>5. CASE Drain(a)
  <2> DEFINE x == [agent[a] EXCEPT !.reading = FALSE]
  <2>1. /\ agent' = [agent EXCEPT ![a] = x] /\ UNCHANGED <<pool, emitted, armed, deaths>>
        /\ call' = [c \in Calls |-> IF c \in pending[a] THEN Answered(c, "gone") ELSE call[c]]
        /\ pending' = [pending EXCEPT ![a] = {}]
    BY <1>5 DEF Drain
  <2>2. x \in Handles
    BY <1>1 DEF Handles
  <2> HIDE DEF x
  <2>3. "gone" \in Results
    BY DEF Results
  <2>4. ASSUME NEW c \in Calls
        PROVE  /\ call'[c] \in Callers
               /\ call'[c].pc \in HasAgent => call'[c].agent \in Agents
               /\ call'[c].pc \in {"registered", "waiting", "open"} /\ call'[c].result = None
                    => c \in pending'[call'[c].agent]
    <3>1. CASE c \in pending[a]
      <4>1. call'[c] = Answered(c, "gone")
        BY <2>1, <3>1
      <4> QED
        BY <2>3, <4>1, AnsweredIsAnswered DEF TypeOK
    <3>2. CASE c \notin pending[a]
      <4>1. call'[c] = call[c]
        BY <2>1, <3>2
      <4>2. call[c] \in Callers /\ (call[c].pc \in HasAgent => call[c].agent \in Agents)
        BY DEF TypeOK
      <4>3. call[c].pc \in {"registered", "waiting", "open"} /\ call[c].result = None
              => c \in pending'[call[c].agent]
        <5>1. call[c].pc \in {"registered", "waiting", "open"} /\ call[c].result = None
                => c \in pending[call[c].agent] /\ call[c].agent \in Agents
          BY <4>2 DEF WaiterIsRegistered, HasAgent
        <5> QED
          BY <2>1, <3>2, <5>1 DEF TypeOK
      <4> QED
        BY <4>1, <4>2, <4>3
    <3> QED
      BY <3>1, <3>2
  <2>5. call' \in [Calls -> Callers] /\ agent' \in [Agents -> Handles]
        /\ pending' \in [Agents -> SUBSET Calls]
    BY <2>1, <2>2, <2>4 DEF TypeOK
  <2>6. TypeOK'
    BY <2>1, <2>4, <2>5 DEF TypeOK
  <2> QED
    BY <2>4, <2>6 DEF WaiterIsRegistered
<1> QED
  BY <1>2, <1>3, <1>4, <1>5 DEF Pump

\* Every step of the agent process, its death included.
LEMMA ProcessKeeps ==
  ASSUME TypeOK, WaiterIsRegistered, NEW a \in Agents, Process(a)
  PROVE  TypeOK' /\ WaiterIsRegistered'
<1>1. agent[a] \in Handles
  BY DEF TypeOK
<1>2. ASSUME NEW c \in Calls, Emits(a, c) PROVE TypeOK' /\ WaiterIsRegistered'
  <2> DEFINE f == [req |-> c, kind |-> "event"]
             x == [agent[a] EXCEPT !.out = Append(@, f)]
  <2>1. f \in Frames
    BY DEF Frames
  <2>2. agent' = [agent EXCEPT ![a] = x] /\ UNCHANGED <<pool, pending, call, armed, deaths>>
        /\ emitted' = [emitted EXCEPT ![c] = @ + 1]
    BY <1>2 DEF Emits
  <2> HIDE DEF f
  <2>3. x \in Handles
    BY <1>1, <2>1, HandleUpdates
  <2> HIDE DEF x
  <2>4. emitted' \in [Calls -> Nat]
    BY <2>2 DEF TypeOK
  <2> QED
    BY <2>2, <2>3, <2>4, AgentStepKeeps DEF TypeOK
<1>3. CASE EmitProgress(a) \/ EmitChange(a)
  <2>1. PICK c \in agent[a].running \cup agent[a].watching : Emits(a, c)
    BY <1>3 DEF EmitProgress, EmitChange
  <2>2. c \in Calls
    BY <1>1 DEF Handles
  <2> QED
    BY <1>2, <2>1, <2>2
<1>4. CASE Finish(a)
  <2>1. PICK c \in agent[a].running, k \in {"result", "error"} :
          agent' = [agent EXCEPT ![a].running = @ \ {c}, ![a].out = Append(@, [req |-> c, kind |-> k])]
    BY <1>4 DEF Finish
  <2> DEFINE f == [req |-> c, kind |-> k]
             x == [agent[a] EXCEPT !.running = @ \ {c}, !.out = Append(@, f)]
  <2>2. c \in Calls /\ f \in Frames
    BY <1>1 DEF Handles, Frames
  <2>3. agent' = [agent EXCEPT ![a] = x] /\ UNCHANGED <<pool, pending, call, emitted, armed, deaths>>
    BY <1>1, <1>4, <2>1 DEF Finish, TypeOK, Handles
  <2> HIDE DEF f
  <2>4. x \in Handles
    BY <1>1, <2>2, HandleUpdates
  <2> HIDE DEF x
  <2> QED
    BY <2>3, <2>4, AgentStepKeeps DEF TypeOK
<1>5. CASE Die(a) \/ Reap(a)
  <2> DEFINE x == [agent[a] EXCEPT !.state = "dead", !.running = {}, !.watching = {}]
  <2>1. /\ agent' = [agent EXCEPT ![a] = x] /\ UNCHANGED <<pool, pending, call, emitted, armed>>
        /\ deaths' \in {deaths, deaths + 1}
    BY <1>1, <1>5 DEF Die, Reap, Dead, TypeOK, Handles
  <2>2. x \in Handles
    BY <1>1 DEF Handles
  <2> HIDE DEF x
  <2>3. deaths' \in Nat
    BY <2>1 DEF TypeOK
  <2> QED
    BY <2>1, <2>2, <2>3, AgentStepKeeps DEF TypeOK
<1> QED
  BY <1>3, <1>4, <1>5 DEF Process

\* Both invariants hold after every step of the pool.
LEMMA PoolStep == TypeOK /\ WaiterIsRegistered /\ [Next]_vars => TypeOK' /\ WaiterIsRegistered'
<1> SUFFICES ASSUME TypeOK, WaiterIsRegistered, [Next]_vars PROVE TypeOK' /\ WaiterIsRegistered'
  OBVIOUS
<1>1. ASSUME NEW c \in Calls, NEW op \in Ops, NEW d \in Distros, Start(c, op, d)
      PROVE  TypeOK' /\ WaiterIsRegistered'
  <2>1. /\ Looked(c, op, d, None) /\ armed' \subseteq Worktrees
        /\ UNCHANGED <<pool, agent, pending, emitted, deaths>>
    BY <1>1 DEF Start, TypeOK
  <2> QED
    BY <2>1, LookedKeeps
<1>2. ASSUME NEW w \in Worktrees, NEW c \in Calls, Arm(w, c)
      PROVE  TypeOK' /\ WaiterIsRegistered'
  <2>1. /\ Looked(c, "watch", DistroOf[w], w) /\ armed' \subseteq Worktrees
        /\ UNCHANGED <<pool, agent, pending, emitted, deaths>>
    BY <1>2 DEF Arm, TypeOK
  <2>2. "watch" \in Ops /\ DistroOf[w] \in Distros
    BY PoolAssumption DEF Ops
  <2> QED
    BY <2>1, <2>2, LookedKeeps
<1>3. CASE UNCHANGED vars
  BY <1>3 DEF vars, TypeOK, WaiterIsRegistered
<1> QED
  BY <1>1, <1>2, <1>3, CallerKeeps, PumpKeeps, ProcessKeeps DEF Next

\* The tables of the pool, the handles and the callers stay well typed (agent_pool.rs).
THEOREM TypeCorrect == Spec => []TypeOK
  BY PoolInit, PoolStep, PTL DEF Spec

\* Whatever dies and whoever races to spawn: a caller that has registered and has no
\* answer yet has its pending entry, for route_frame or the drain at EOF to find.
THEOREM NobodyIsForgotten == Spec => []WaiterIsRegistered
  BY PoolInit, PoolStep, PTL DEF Spec
-----------------------------------------------------------------------------
(* A streaming call is given every event of its operation.  For each request   *)
(* and agent, the invariant below says where the request is, and that the       *)
(* events its caller has got and those under way are the ones the agent wrote.  *)

Fresh == {"idle", "deploying", "have"}
Sent == {"waiting", "open", "done", "closed"}

Queued(x, q) == \E i \in 1..Len(q) : q[i] = x
Injective(q) == \A i, j \in 1..Len(q) : q[i] = q[j] => i = j
Framed(x, s) == \E i \in 1..Len(s) : s[i].req = x
Closed(x, s) == \E i \in 1..Len(s) : s[i].req = x /\ s[i].kind # "event"
Works(x, h) == Queued(x, h.queue) \/ x \in h.running \/ x \in h.watching

\* f[i]: the events of x before the i-th frame of s, from got on; the frame that
\* answers x has them all before it.
Counts(f, x, s, got, n) ==
    /\ f[1] = got /\ f[Len(s) + 1] = n
    /\ \A i \in 1..Len(s) :
          /\ f[i + 1] = f[i] + IF s[i].req = x /\ s[i].kind = "event" THEN 1 ELSE 0
          /\ s[i].req = x /\ s[i].kind # "event" => f[i] = n
Accounts(x, s, got, n) == \E f \in [1..(Len(s) + 1) -> 0..n] : Counts(f, x, s, got, n)

\* The request x, its caller r and the n events written for it, at the agent a with
\* the handle h and the pending table P.
Placed(x, a, h, r, P, n) ==
    /\ Works(x, h) \/ Framed(x, h.out) => a = r.agent /\ r.pc \in Sent
    /\ x \in P => /\ a = r.agent /\ r.pc \in Sent \cup {"registered"}
                  /\ Accounts(x, h.out, r.got, n)
    /\ Works(x, h) => ~Closed(x, h.out)
    /\ Queued(x, h.queue) => x \notin h.running \cup h.watching
    /\ x \in h.running => r.op # "watch"
    /\ x \in h.watching => r.op = "watch"
    /\ r.result = "ok" => x \notin P /\ ~Works(x, h)
Ended(r, n) ==
    /\ r.pc \in Fresh => r.got = 0 /\ n = 0
    /\ r.result = "ok" => r.pc \in Sent /\ r.got = n
Orderly(h) == Injective(h.queue) /\ (h.state = "unborn" => h.out = <<>>)

StreamInv ==
    /\ \A a \in Agents : Orderly(agent[a])
    /\ \A c \in Calls : Ended(call[c], emitted[c])
    /\ \A a \in Agents, c \in Calls :
          Placed(c, a, agent[a], call[c], pending[a], emitted[c])

\* A frame more at the end of what an agent wrote: the events before it stay
\* counted, and one of x counts.
LEMMA AccountsAppend ==
  ASSUME NEW x \in Calls, NEW s \in Seq(Frames), NEW g \in Frames,
         NEW got \in Nat, NEW n \in Nat, Accounts(x, s, got, n)
  PROVE  /\ ~(g.req = x /\ g.kind = "event") => Accounts(x, Append(s, g), got, n)
         /\ g.req = x /\ g.kind = "event" /\ ~Closed(x, s) => Accounts(x, Append(s, g), got, n + 1)
<1> DEFINE t == Append(s, g)
           L == Len(s)
           m == n + IF g.req = x /\ g.kind = "event" THEN 1 ELSE 0
<1>1. PICK f \in [1..(L + 1) -> 0..n] : Counts(f, x, s, got, n)
  BY DEF Accounts
<1>2. /\ L \in Nat /\ Len(t) = L + 1
      /\ t[L + 1] = g /\ \A i \in 1..L : t[i] = s[i]
  BY AppendProperties, LenProperties
<1>3. m \in Nat /\ n <= m
  OBVIOUS
<1> DEFINE h == [i \in 1..(L + 2) |-> IF i <= L + 1 THEN f[i] ELSE m]
<1>4. /\ h \in [1..(Len(t) + 1) -> 0..m]
      /\ h[L + 2] = m /\ \A i \in 1..(L + 1) : h[i] = f[i]
  BY <1>1, <1>2, <1>3
<1> SUFFICES ASSUME g.req = x /\ g.kind = "event" => ~Closed(x, s)
             PROVE  Accounts(x, t, got, m)
  OBVIOUS
<1>5. /\ f[1] = got /\ f[L + 1] = n
      /\ \A i \in 1..L :
            /\ f[i + 1] = f[i] + IF s[i].req = x /\ s[i].kind = "event" THEN 1 ELSE 0
            /\ s[i].req = x /\ s[i].kind # "event" => f[i] = n
  BY <1>1 DEF Counts
<1>6. \A i \in 1..L : ~(s[i].req = x /\ s[i].kind # "event") \/ m = n
  BY <1>2 DEF Closed
<1> HIDE DEF h, t, L
<1>7. h[1] = got /\ h[Len(t) + 1] = m
  BY <1>2, <1>4, <1>5
<1>8. ASSUME NEW i \in 1..Len(t)
      PROVE  /\ h[i + 1] = h[i] + IF t[i].req = x /\ t[i].kind = "event" THEN 1 ELSE 0
             /\ t[i].req = x /\ t[i].kind # "event" => h[i] = m
  <2>1. CASE i = L + 1
    BY <1>2, <1>4, <1>5, <2>1
  <2>2. CASE i \in 1..L
    <3>1. t[i] = s[i] /\ h[i] = f[i] /\ h[i + 1] = f[i + 1]
      BY <1>2, <1>4, <2>2
    <3>2. s[i].req = x /\ s[i].kind # "event" => m = n
      BY <1>6, <2>2
    <3> HIDE DEF m
    <3> QED
      BY <1>5, <2>2, <3>1, <3>2
  <2> QED
    BY <1>2, <2>1, <2>2
<1> HIDE DEF m
<1> QED
  BY <1>4, <1>7, <1>8 DEF Accounts, Counts

\* The reader takes the first frame: an event of x is one more its caller has got,
\* and the answer of x comes when it has them all.
LEMMA AccountsTail ==
  ASSUME NEW x \in Calls, NEW s \in Seq(Frames), s # <<>>,
         NEW got \in Nat, NEW n \in Nat, Accounts(x, s, got, n)
  PROVE  /\ ~(Head(s).req = x /\ Head(s).kind = "event") => Accounts(x, Tail(s), got, n)
         /\ Head(s).req = x /\ Head(s).kind = "event" => Accounts(x, Tail(s), got + 1, n)
         /\ Head(s).req = x /\ Head(s).kind # "event" => got = n
<1> DEFINE t == Tail(s)
           L == Len(s)
           g == s[1]
           m == got + IF g.req = x /\ g.kind = "event" THEN 1 ELSE 0
<1>1. PICK f \in [1..(L + 1) -> 0..n] : Counts(f, x, s, got, n)
  BY DEF Accounts
<1>2. /\ L \in Nat \ {0} /\ Len(t) = L - 1 /\ Head(s) = g
      /\ \A i \in 1..Len(t) : t[i] = s[i + 1]
  BY HeadTailProperties, EmptySeq
<1>3. /\ f[1] = got /\ f[L + 1] = n
      /\ \A i \in 1..L :
            /\ f[i + 1] = f[i] + IF s[i].req = x /\ s[i].kind = "event" THEN 1 ELSE 0
            /\ s[i].req = x /\ s[i].kind # "event" => f[i] = n
  BY <1>1 DEF Counts
<1>4. f[2] = m /\ (g.req = x /\ g.kind # "event" => got = n)
  BY <1>2, <1>3
<1> DEFINE h == [i \in 1..L |-> f[i + 1]]
<1>5. h \in [1..(Len(t) + 1) -> 0..n] /\ \A i \in 1..L : h[i] = f[i + 1]
  BY <1>1, <1>2
<1> HIDE DEF h, t, L, g
<1>6. h[1] = m /\ h[Len(t) + 1] = n
  BY <1>2, <1>3, <1>4, <1>5
<1>7. ASSUME NEW i \in 1..Len(t)
      PROVE  /\ h[i + 1] = h[i] + IF t[i].req = x /\ t[i].kind = "event" THEN 1 ELSE 0
             /\ t[i].req = x /\ t[i].kind # "event" => h[i] = n
  <2>1. i + 1 \in 1..L /\ i \in 1..L
    <3>1. \A k \in Nat \ {0} : \A j \in 1..(k - 1) : j + 1 \in 1..k /\ j \in 1..k
      OBVIOUS
    <3> QED
      BY <1>2, <3>1
  <2>2. t[i] = s[i + 1] /\ h[i] = f[i + 1] /\ h[i + 1] = f[(i + 1) + 1]
    <3>1. \A j \in 1..L : h[j] = f[j + 1]
      BY <1>5
    <3>2. t[i] = s[i + 1]
      BY <1>2
    <3> QED
      BY <2>1, <3>1, <3>2, Zenon
  <2> QED
    BY <1>3, <2>1, <2>2
<1>8. Accounts(x, t, m, n)
  <2> HIDE DEF m
  <2> QED
    BY <1>5, <1>6, <1>7 DEF Accounts, Counts
<1> QED
  BY <1>2, <1>4, <1>8 DEF t

\* What a queue holds when a request joins it, or its first one leaves.
LEMMA QueueSteps ==
  ASSUME NEW q \in Seq(Calls), NEW c \in Calls
  PROVE  /\ \A x : Queued(x, Append(q, c)) <=> Queued(x, q) \/ x = c
         /\ Injective(q) /\ ~Queued(c, q) => Injective(Append(q, c))
         /\ q # <<>> => /\ Head(q) \in Calls /\ Queued(Head(q), q)
                        /\ \A x : Queued(x, Tail(q)) => Queued(x, q)
                        /\ Injective(q) => Injective(Tail(q)) /\ ~Queued(Head(q), Tail(q))
<1>1. /\ Len(q) \in Nat /\ Len(Append(q, c)) = Len(q) + 1
      /\ Append(q, c)[Len(q) + 1] = c /\ \A i \in 1..Len(q) : Append(q, c)[i] = q[i]
  BY AppendProperties, LenProperties
<1>2. \A x : Queued(x, Append(q, c)) <=> Queued(x, q) \/ x = c
  BY <1>1 DEF Queued
<1>3. Injective(q) /\ ~Queued(c, q) => Injective(Append(q, c))
  BY <1>1 DEF Queued, Injective
<1>4. ASSUME q # <<>>
      PROVE  /\ Head(q) \in Calls /\ Queued(Head(q), q)
             /\ \A x : Queued(x, Tail(q)) => Queued(x, q)
             /\ Injective(q) => Injective(Tail(q)) /\ ~Queued(Head(q), Tail(q))
  <2>1. /\ Len(q) \in Nat \ {0} /\ Len(Tail(q)) = Len(q) - 1 /\ Head(q) = q[1] /\ Head(q) \in Calls
        /\ \A i \in 1..Len(Tail(q)) : Tail(q)[i] = q[i + 1]
    BY <1>4, HeadTailProperties, EmptySeq
  <2>2. Queued(Head(q), q) /\ \A x : Queued(x, Tail(q)) => Queued(x, q)
    BY <2>1 DEF Queued
  <2>3. ASSUME Injective(q) PROVE Injective(Tail(q)) /\ ~Queued(Head(q), Tail(q))
    <3>1. \A i, j \in 1..Len(Tail(q)) : Tail(q)[i] = Tail(q)[j] => i = j
      <4> SUFFICES ASSUME NEW i \in 1..Len(Tail(q)), NEW j \in 1..Len(Tail(q)), Tail(q)[i] = Tail(q)[j]
                   PROVE  i = j
        OBVIOUS
      <4>1. i + 1 \in 1..Len(q) /\ j + 1 \in 1..Len(q) /\ q[i + 1] = q[j + 1]
        BY <2>1
      <4>2. i + 1 = j + 1
        BY <2>3, <4>1 DEF Injective
      <4> QED
        BY <4>2
    <3>2. ASSUME NEW i \in 1..Len(Tail(q)), Tail(q)[i] = Head(q) PROVE FALSE
      <4>1. i + 1 \in 1..Len(q) /\ 1 \in 1..Len(q) /\ q[i + 1] = q[1]
        BY <2>1, <3>2
      <4>2. i + 1 = 1
        BY <2>3, <4>1 DEF Injective
      <4> QED
        BY <4>2
    <3> QED
      BY <3>1, <3>2 DEF Injective, Queued
  <2> QED
    BY <2>1, <2>2, <2>3
<1> QED
  BY <1>2, <1>3, <1>4

\* The frames under way when one more is written, or the first one is read.
LEMMA OutSteps ==
  ASSUME NEW s \in Seq(Frames), NEW g \in Frames
  PROVE  /\ \A x : Framed(x, Append(s, g)) <=> Framed(x, s) \/ g.req = x
         /\ \A x : Closed(x, Append(s, g)) <=> Closed(x, s) \/ (g.req = x /\ g.kind # "event")
         /\ s # <<>> => /\ Head(s) \in Frames /\ Framed(Head(s).req, s)
                        /\ Head(s).kind # "event" => Closed(Head(s).req, s)
                        /\ \A x : Framed(x, Tail(s)) => Framed(x, s)
                        /\ \A x : Closed(x, Tail(s)) => Closed(x, s)
<1>1. /\ Len(s) \in Nat /\ Len(Append(s, g)) = Len(s) + 1
      /\ Append(s, g)[Len(s) + 1] = g /\ \A i \in 1..Len(s) : Append(s, g)[i] = s[i]
  BY AppendProperties, LenProperties
<1>2. /\ \A x : Framed(x, Append(s, g)) <=> Framed(x, s) \/ g.req = x
      /\ \A x : Closed(x, Append(s, g)) <=> Closed(x, s) \/ (g.req = x /\ g.kind # "event")
  BY <1>1 DEF Framed, Closed
<1>3. ASSUME s # <<>>
      PROVE  /\ Head(s) \in Frames /\ Framed(Head(s).req, s)
             /\ Head(s).kind # "event" => Closed(Head(s).req, s)
             /\ \A x : Framed(x, Tail(s)) => Framed(x, s)
             /\ \A x : Closed(x, Tail(s)) => Closed(x, s)
  <2>1. /\ Len(s) \in Nat \ {0} /\ Len(Tail(s)) = Len(s) - 1 /\ Head(s) = s[1] /\ Head(s) \in Frames
        /\ \A i \in 1..Len(Tail(s)) : Tail(s)[i] = s[i + 1]
    BY <1>3, HeadTailProperties, EmptySeq
  <2> QED
    BY <2>1 DEF Framed, Closed
<1> QED
  BY <1>2, <1>3

\* Where no frame of x is under way the counts agree without one.
LEMMA AccountsNone ==
  ASSUME NEW x \in Calls, NEW s \in Seq(Frames), NEW n \in Nat, ~Framed(x, s)
  PROVE  Accounts(x, s, n, n)
<1> DEFINE f == [i \in 1..(Len(s) + 1) |-> n]
<1>1. Len(s) \in Nat
  BY LenProperties
<1>2. /\ f \in [1..(Len(s) + 1) -> 0..n]
      /\ \A i \in 1..(Len(s) + 1) : f[i] = n
  OBVIOUS
<1> HIDE DEF f
<1>3. \A i \in 1..Len(s) : f[i + 1] = n /\ f[i] = n /\ s[i].req # x
  BY <1>1, <1>2 DEF Framed
<1>4. f[1] = n /\ f[Len(s) + 1] = n
  BY <1>1, <1>2
<1> QED
  BY <1>2, <1>3, <1>4 DEF Accounts, Counts

\* A request that is nowhere at an agent is placed there whatever its caller does.
LEMMA PlacedNowhere ==
  ASSUME NEW x, NEW a, NEW h, NEW r, NEW P, NEW n,
         ~Works(x, h), ~Framed(x, h.out), x \notin P
  PROVE  Placed(x, a, h, r, P, n)
BY DEF Placed, Works

\* At an agent that loses traces of x, and loses no event under way for it.
LEMMA PlacedLess ==
  ASSUME NEW x, NEW a, NEW h, NEW r, NEW P, NEW n, NEW k, Placed(x, a, h, r, P, n),
         Queued(x, k.queue) => Queued(x, h.queue),
         x \in k.running => x \in h.running, x \in k.watching => x \in h.watching,
         Framed(x, k.out) => Framed(x, h.out), Closed(x, k.out) => Closed(x, h.out),
         x \in P /\ Accounts(x, h.out, r.got, n) => Accounts(x, k.out, r.got, n)
  PROVE  Placed(x, a, k, r, P, n)
BY DEF Placed, Works

\* What changed in a step, as a set of agents and a set of calls: the rest of the
\* invariant is as it was.
LEMMA Moves ==
  ASSUME StreamInv, NEW A \in SUBSET Agents, NEW C \in SUBSET Calls,
         \A b \in Agents \ A : agent'[b] = agent[b],
         \A b \in A : Orderly(agent'[b]),
         \A x \in Calls \ C : /\ call'[x] = call[x] /\ emitted'[x] = emitted[x]
                              /\ \A b \in Agents : x \in pending'[b] <=> x \in pending[b],
         \A b \in A : \A x \in Calls \ C :
            Placed(x, b, agent'[b], call[x], pending[b], emitted[x]),
         \A x \in C : /\ Ended(call'[x], emitted'[x])
                      /\ \A b \in Agents :
                            Placed(x, b, agent'[b], call'[x], pending'[b], emitted'[x])
  PROVE  StreamInv'
<1>1. \A b \in Agents : Orderly(agent'[b])
  BY DEF StreamInv
<1>2. \A x \in Calls : Ended(call'[x], emitted'[x])
  BY DEF StreamInv
<1>3. ASSUME NEW b \in Agents, NEW x \in Calls
      PROVE  Placed(x, b, agent'[b], call'[x], pending'[b], emitted'[x])
  <2>1. CASE x \in C
    BY <2>1
  <2>2. CASE x \notin C
    <3>1. Placed(x, b, agent'[b], call[x], pending[b], emitted[x])
      BY <2>2 DEF StreamInv
    <3>2. /\ call'[x] = call[x] /\ emitted'[x] = emitted[x]
          /\ x \in pending'[b] <=> x \in pending[b]
      BY <2>2
    <3> QED
      BY <3>1, <3>2 DEF Placed
  <2> QED
    BY <2>1, <2>2
<1> QED
  BY <1>1, <1>2, <1>3 DEF StreamInv

\* A step of one call at most at one agent.
LEMMA OneMoves ==
  ASSUME StreamInv, NEW a \in Agents, NEW c \in Calls,
         \A b \in Agents \ {a} : agent'[b] = agent[b],
         Orderly(agent'[a]),
         \A x \in Calls \ {c} : /\ call'[x] = call[x] /\ emitted'[x] = emitted[x]
                                /\ \A b \in Agents : x \in pending'[b] <=> x \in pending[b],
         \A x \in Calls \ {c} : Placed(x, a, agent'[a], call[x], pending[a], emitted[x]),
         Ended(call'[c], emitted'[c]),
         \A b \in Agents : Placed(c, b, agent'[b], call'[c], pending'[b], emitted'[c])
  PROVE  StreamInv'
<1> DEFINE A == {a}
           C == {c}
<1>1. A \in SUBSET Agents /\ C \in SUBSET Calls
  OBVIOUS
<1>2. /\ \A b \in Agents \ A : agent'[b] = agent[b]
      /\ \A b \in A : Orderly(agent'[b])
      /\ \A x \in Calls \ C : /\ call'[x] = call[x] /\ emitted'[x] = emitted[x]
                              /\ \A b \in Agents : x \in pending'[b] <=> x \in pending[b]
  OBVIOUS
<1>3. \A b \in A : \A x \in Calls \ C : Placed(x, b, agent'[b], call[x], pending[b], emitted[x])
  OBVIOUS
<1>4. \A x \in C : /\ Ended(call'[x], emitted'[x])
                   /\ \A b \in Agents : Placed(x, b, agent'[b], call'[x], pending'[b], emitted'[x])
  OBVIOUS
<1> HIDE DEF A, C
<1> QED
  BY <1>1, <1>2, <1>3, <1>4, Moves

\* A step of one caller that leaves the agents alone.
LEMMA CallMoves ==
  ASSUME StreamInv, NEW c \in Calls, agent' = agent,
         \A x \in Calls \ {c} : /\ call'[x] = call[x] /\ emitted'[x] = emitted[x]
                                /\ \A b \in Agents : x \in pending'[b] <=> x \in pending[b],
         Ended(call'[c], emitted'[c]),
         \A b \in Agents : Placed(c, b, agent'[b], call'[c], pending'[b], emitted'[c])
  PROVE  StreamInv'
<1> DEFINE A == {}
           C == {c}
<1>1. A \in SUBSET Agents /\ C \in SUBSET Calls
  OBVIOUS
<1>2. /\ \A b \in Agents \ A : agent'[b] = agent[b]
      /\ \A b \in A : Orderly(agent'[b])
      /\ \A x \in Calls \ C : /\ call'[x] = call[x] /\ emitted'[x] = emitted[x]
                              /\ \A b \in Agents : x \in pending'[b] <=> x \in pending[b]
  OBVIOUS
<1>3. \A b \in A : \A x \in Calls \ C : Placed(x, b, agent'[b], call[x], pending[b], emitted[x])
  OBVIOUS
<1>4. \A x \in C : /\ Ended(call'[x], emitted'[x])
                   /\ \A b \in Agents : Placed(x, b, agent'[b], call'[x], pending'[b], emitted'[x])
  OBVIOUS
<1> HIDE DEF A, C
<1> QED
  BY <1>1, <1>2, <1>3, <1>4, Moves

\* A step of a handle that leaves the callers, the tables and the counts alone.
LEMMA HandleMoves ==
  ASSUME StreamInv, NEW a \in Agents, \A b \in Agents \ {a} : agent'[b] = agent[b],
         Orderly(agent'[a]), call' = call, pending' = pending, emitted' = emitted,
         \A x \in Calls : Placed(x, a, agent'[a], call[x], pending[a], emitted[x])
  PROVE  StreamInv'
<1> DEFINE A == {a}
           C == {}
<1>1. A \in SUBSET Agents /\ C \in SUBSET Calls
  OBVIOUS
<1>2. /\ \A b \in Agents \ A : agent'[b] = agent[b]
      /\ \A b \in A : Orderly(agent'[b])
      /\ \A x \in Calls \ C : /\ call'[x] = call[x] /\ emitted'[x] = emitted[x]
                              /\ \A b \in Agents : x \in pending'[b] <=> x \in pending[b]
  OBVIOUS
<1>3. \A b \in A : \A x \in Calls \ C : Placed(x, b, agent'[b], call[x], pending[b], emitted[x])
  OBVIOUS
<1>4. \A x \in C : /\ Ended(call'[x], emitted'[x])
                   /\ \A b \in Agents : Placed(x, b, agent'[b], call'[x], pending'[b], emitted'[x])
  OBVIOUS
<1> HIDE DEF A, C
<1> QED
  BY <1>1, <1>2, <1>3, <1>4, Moves

\* The initial state: no request is anywhere.
LEMMA StreamInit == Init => StreamInv
<1> SUFFICES ASSUME Init PROVE StreamInv
  OBVIOUS
<1>1. \A x : ~Queued(x, <<>>) /\ ~Framed(x, <<>>)
  BY DEF Queued, Framed
<1>2. Unborn.queue = <<>> /\ Unborn.out = <<>> /\ Unborn.running = {} /\ Unborn.watching = {}
  BY DEF Unborn
<1>3. Orderly(Unborn)
  BY <1>2 DEF Orderly, Injective
<1>4. Ended(Idle, 0)
  BY PoolAssumption DEF Ended, Idle, Results
<1>5. \A a, x : Placed(x, a, Unborn, Idle, {}, 0)
  BY <1>1, <1>2 DEF Placed, Works
<1> QED
  BY <1>3, <1>4, <1>5 DEF Init, StreamInv

\* Before its request is sent, a call is nowhere at any agent; before it registers,
\* it is in no pending table either.
LEMMA UnsentIsNowhere ==
  ASSUME StreamInv, NEW c \in Calls, NEW a \in Agents, call[c].pc \notin Sent
  PROVE  /\ ~Works(c, agent[a]) /\ ~Framed(c, agent[a].out)
         /\ call[c].pc # "registered" => c \notin pending[a]
BY DEF StreamInv, Placed

\* At an agent that is not its own, a call is nowhere.
LEMMA ElsewhereIsNowhere ==
  ASSUME StreamInv, NEW c \in Calls, NEW a \in Agents, a # call[c].agent
  PROVE  ~Works(c, agent[a]) /\ ~Framed(c, agent[a].out) /\ c \notin pending[a]
BY DEF StreamInv, Placed

\* A caller that is answered keeps its place, its operation and its agent.
LEMMA AnsweredKeeps ==
  ASSUME TypeOK, NEW c \in Calls, NEW v \in Results
  PROVE  LET r == Answered(c, v) IN
         /\ r.agent = call[c].agent /\ r.op = call[c].op /\ r.got = call[c].got
         /\ call[c].pc \in Sent => r.pc \in Sent
         /\ r.pc \in Sent \cup {"registered"} <=> call[c].pc \in Sent \cup {"registered"}
         /\ r.pc \in Fresh <=> call[c].pc \in Fresh
         /\ r.result \in {call[c].result, v}
<1> DEFINE res == IF call[c].result = None THEN v ELSE call[c].result
           pc == CASE call[c].pc = "waiting" -> "done" [] call[c].pc = "open" -> "closed"
                   [] OTHER -> call[c].pc
<1>1. call[c] \in Callers
  BY DEF TypeOK
<1>2. Answered(c, v) = [call[c] EXCEPT !.result = res, !.pc = pc]
  BY DEF Answered
<1>3. /\ call[c].pc \in Sent => pc \in Sent
      /\ pc \in Sent \cup {"registered"} <=> call[c].pc \in Sent \cup {"registered"}
      /\ pc \in Fresh <=> call[c].pc \in Fresh
      /\ res \in {call[c].result, v}
  BY <1>1 DEF Callers, Sent, Fresh
<1> HIDE DEF res, pc
<1> QED
  BY <1>1, <1>2, <1>3 DEF Callers

\* Every step of a caller: the one that sends the request finds it nowhere, and the
\* one that registers it finds its counts at zero.
LEMMA CallerStreams ==
  ASSUME TypeOK, StreamInv, NEW c \in Calls, CallerStep(c)
  PROVE  StreamInv'
<1>1. /\ call[c] \in Callers /\ call \in [Calls -> Callers] /\ agent \in [Agents -> Handles]
      /\ pending \in [Agents -> SUBSET Calls] /\ emitted[c] \in Nat
      /\ call[c].pc \in HasAgent => call[c].agent \in Agents
  BY DEF TypeOK
<1>2. Ended(call[c], emitted[c])
  BY DEF StreamInv
<1>3. \A b \in Agents : Placed(c, b, agent[b], call[c], pending[b], emitted[c])
  BY DEF StreamInv
<1>4. ASSUME NEW r \in Callers, call' = [call EXCEPT ![c] = r], UNCHANGED <<agent, emitted>>,
             \A b \in Agents : \A x \in Calls \ {c} : x \in pending'[b] <=> x \in pending[b],
             Ended(r, emitted[c]),
             \A b \in Agents : Placed(c, b, agent[b], r, pending'[b], emitted[c])
      PROVE  StreamInv'
  <2>1. call'[c] = r /\ \A x \in Calls \ {c} : call'[x] = call[x]
    BY <1>1, <1>4
  <2> QED
    BY <1>4, <2>1, CallMoves
<1>5. CASE DeployFails(c)
  <2> DEFINE r == [call[c] EXCEPT !.pc = "done", !.result = "deploy"]
  <2>1. /\ call[c].pc = "deploying" /\ call' = [call EXCEPT ![c] = r]
        /\ UNCHANGED <<agent, emitted, pending>>
    BY <1>5 DEF DeployFails
  <2>2. r \in Callers /\ r.pc = "done" /\ r.result = "deploy"
    BY <1>1 DEF Callers, Results
  <2> HIDE DEF r
  <2>3. Ended(r, emitted[c])
    BY <2>2 DEF Ended, Fresh
  <2>4. \A b \in Agents : Placed(c, b, agent[b], r, pending'[b], emitted[c])
    BY <2>1, UnsentIsNowhere, PlacedNowhere DEF Sent
  <2> QED
    BY <1>4, <2>1, <2>2, <2>3, <2>4
<1>6. CASE SpawnAndInsert(c)
  <2>1. PICK a \in Agents : /\ agent[a].state = "unborn"
                            /\ agent' = [agent EXCEPT ![a] = Spawned(call[c].distro)]
                            /\ call' = [call EXCEPT ![c].pc = "have", ![c].agent = a]
    BY <1>6 DEF SpawnAndInsert
  <2> DEFINE r == [call[c] EXCEPT !.pc = "have", !.agent = a]
             h == Spawned(call[c].distro)
  <2>2. call[c].pc = "deploying" /\ UNCHANGED <<pending, emitted>>
    BY <1>6 DEF SpawnAndInsert
  <2>3. r \in Callers /\ r.pc = "have" /\ r.result = call[c].result /\ r.got = call[c].got
    BY <1>1 DEF Callers
  <2>4. /\ agent'[a] = h /\ \A b \in Agents \ {a} : agent'[b] = agent[b]
        /\ call'[c] = r /\ \A x \in Calls \ {c} : call'[x] = call[x]
    BY <1>1, <2>1
  <2>5. /\ h.state = "up" /\ h.queue = <<>> /\ h.out = <<>> /\ h.running = {} /\ h.watching = {}
        /\ agent[a].out = <<>>
    BY <2>1 DEF Spawned, Unborn, StreamInv, Orderly
  <2> HIDE DEF r, h
  <2>6. \A x : ~Queued(x, <<>>) /\ ~Framed(x, <<>>)
    BY DEF Queued, Framed
  <2>7. \A x \in Calls \ {c} : Placed(x, a, h, call[x], pending[a], emitted[x])
    <3> SUFFICES ASSUME NEW x \in Calls \ {c} PROVE Placed(x, a, h, call[x], pending[a], emitted[x])
      OBVIOUS
    <3>1. Placed(x, a, agent[a], call[x], pending[a], emitted[x])
      BY DEF StreamInv
    <3> QED
      BY <2>5, <2>6, <3>1, PlacedLess
  <2>8. \A b \in Agents : Placed(c, b, agent'[b], r, pending[b], emitted[c])
    <3> SUFFICES ASSUME NEW b \in Agents PROVE Placed(c, b, agent'[b], r, pending[b], emitted[c])
      OBVIOUS
    <3>1. ~Works(c, agent[b]) /\ ~Framed(c, agent[b].out) /\ c \notin pending[b]
      BY <2>2, UnsentIsNowhere DEF Sent
    <3>2. ~Works(c, agent'[b]) /\ ~Framed(c, agent'[b].out)
      BY <2>4, <2>5, <2>6, <3>1 DEF Works
    <3> QED
      BY <3>1, <3>2, PlacedNowhere
  <2>9. Ended(r, emitted[c])
    BY <1>2, <2>2, <2>3 DEF Ended, Fresh, Sent
  <2>10. Orderly(h)
    BY <2>5 DEF Orderly, Injective
  <2> QED
    BY <2>2, <2>4, <2>7, <2>8, <2>9, <2>10, OneMoves
<1>7. CASE Register(c)
  <2> DEFINE a == call[c].agent
             r == [call[c] EXCEPT !.pc = "registered"]
  <2>1. /\ call[c].pc = "have" /\ call' = [call EXCEPT ![c] = r] /\ UNCHANGED <<agent, emitted>>
        /\ pending' = [pending EXCEPT ![a] = @ \cup {c}] /\ a \in Agents
    BY <1>1, <1>7 DEF Register, HasAgent
  <2>2. /\ r \in Callers /\ r.pc = "registered" /\ r.agent = a
        /\ r.result = call[c].result /\ r.got = call[c].got
    BY <1>1 DEF Callers
  <2>3. call[c].got = 0 /\ emitted[c] = 0 /\ call[c].result # "ok"
    BY <1>2, <2>1 DEF Ended, Fresh, Sent
  <2>4. /\ \A b \in Agents : \A x \in Calls \ {c} : x \in pending'[b] <=> x \in pending[b]
        /\ \A b \in Agents \ {a} : pending'[b] = pending[b]
    BY <1>1, <2>1
  <2> HIDE DEF a, r
  <2>5. Ended(r, emitted[c])
    BY <2>2, <2>3 DEF Ended
  <2>6. ASSUME NEW b \in Agents PROVE Placed(c, b, agent[b], r, pending'[b], emitted[c])
    <3>1. ~Works(c, agent[b]) /\ ~Framed(c, agent[b].out) /\ c \notin pending[b]
      BY <2>1, UnsentIsNowhere DEF Sent
    <3>2. CASE b = a
      <4>1. agent[b].out \in Seq(Frames)
        BY <1>1 DEF Handles
      <4>2. Accounts(c, agent[b].out, r.got, emitted[c])
        BY <2>2, <2>3, <3>1, <4>1, AccountsNone
      <4> QED
        BY <2>2, <2>3, <3>1, <3>2, <4>2 DEF Placed, Works
    <3>3. CASE b # a
      BY <2>4, <3>1, <3>3, PlacedNowhere
    <3> QED
      BY <3>2, <3>3
  <2> QED
    BY <1>4, <2>1, <2>2, <2>4, <2>5, <2>6
<1>8. CASE SendFails(c)
  <2> DEFINE r == [call[c] EXCEPT !.pc = "done", !.result = "channel"]
  <2>1. /\ call[c].pc = "registered" /\ call' = [call EXCEPT ![c] = r]
        /\ UNCHANGED <<agent, emitted, pending>>
    BY <1>8 DEF SendFails
  <2>2. /\ r \in Callers /\ r.pc = "done" /\ r.result = "channel"
        /\ r.got = call[c].got /\ r.agent = call[c].agent
    BY <1>1 DEF Callers, Results
  <2> HIDE DEF r
  <2>3. Ended(r, emitted[c])
    BY <2>2 DEF Ended, Fresh
  <2>4. ASSUME NEW b \in Agents PROVE Placed(c, b, agent[b], r, pending'[b], emitted[c])
    <3>1. ~Works(c, agent[b]) /\ ~Framed(c, agent[b].out)
      BY <2>1, UnsentIsNowhere DEF Sent
    <3>2. c \in pending[b] => b = call[c].agent /\ Accounts(c, agent[b].out, call[c].got, emitted[c])
      BY <1>3 DEF Placed
    <3> QED
      BY <2>1, <2>2, <3>1, <3>2 DEF Placed, Works, Sent
  <2> QED
    BY <1>4, <2>1, <2>2, <2>3, <2>4
<1>9. CASE Send(c)
  <2> DEFINE a == call[c].agent
             p == IF call[c].op = "watch" THEN "open"
                  ELSE IF call[c].result = None THEN "waiting" ELSE "done"
             r == [call[c] EXCEPT !.pc = p]
             h == [agent[a] EXCEPT !.queue = Append(@, c)]
  <2>1. /\ call[c].pc = "registered" /\ call' = [call EXCEPT ![c] = r] /\ UNCHANGED <<pending, emitted>>
        /\ agent' = [agent EXCEPT ![a] = h] /\ a \in Agents
    BY <1>1, <1>9 DEF Send, HasAgent
  <2>2. /\ r \in Callers /\ r.pc \in Sent /\ r.agent = a /\ r.op = call[c].op
        /\ r.result = call[c].result /\ r.got = call[c].got
    BY <1>1 DEF Callers, Sent
  <2>3. agent[a] \in Handles /\ agent[a].queue \in Seq(Calls)
    BY <1>1, <2>1 DEF Handles
  <2>4. /\ h.queue = Append(agent[a].queue, c) /\ h.out = agent[a].out /\ h.state = agent[a].state
        /\ h.running = agent[a].running /\ h.watching = agent[a].watching
    BY <2>3 DEF Handles
  <2>5. /\ agent'[a] = h /\ \A b \in Agents \ {a} : agent'[b] = agent[b]
        /\ call'[c] = r /\ \A x \in Calls \ {c} : call'[x] = call[x]
    BY <1>1, <2>1
  <2> HIDE DEF a, p, r, h
  <2>6. \A b \in Agents : ~Works(c, agent[b]) /\ ~Framed(c, agent[b].out)
    BY <2>1, UnsentIsNowhere DEF Sent
  <2>7. call[c].result # "ok"
    BY <1>2, <2>1 DEF Ended, Sent
  <2>8. Orderly(h)
    <3>1. Orderly(agent[a]) /\ ~Queued(c, agent[a].queue)
      BY <2>1, <2>6 DEF StreamInv, Works
    <3> QED
      BY <2>3, <2>4, <3>1, QueueSteps DEF Orderly
  <2>9. ASSUME NEW x \in Calls \ {c} PROVE Placed(x, a, h, call[x], pending[a], emitted[x])
    <3>1. Placed(x, a, agent[a], call[x], pending[a], emitted[x])
      BY <2>1 DEF StreamInv
    <3>2. Queued(x, h.queue) => Queued(x, agent[a].queue)
      BY <2>3, <2>4, QueueSteps
    <3> QED
      BY <2>4, <3>1, <3>2, PlacedLess
  <2>10. ASSUME NEW b \in Agents PROVE Placed(c, b, agent'[b], r, pending'[b], emitted[c])
    <3>1. c \in pending[b] => b = a /\ Accounts(c, agent[b].out, call[c].got, emitted[c])
      BY <1>3 DEF Placed, a
    <3>2. CASE b = a
      BY <2>1, <2>2, <2>4, <2>5, <2>6, <2>7, <3>1, <3>2 DEF Placed, Works, Closed, Framed
    <3>3. CASE b # a
      BY <2>1, <2>5, <2>6, <3>1, <3>3, PlacedNowhere
    <3> QED
      BY <3>2, <3>3
  <2>11. Ended(r, emitted[c])
    BY <2>2, <2>7 DEF Ended, Fresh, Sent
  <2> QED
    BY <2>1, <2>5, <2>8, <2>9, <2>10, <2>11, OneMoves
<1>10. CASE Disarm(c) \/ FindClosed(c)
  <2>1. PICK r \in Callers :
          /\ call' = [call EXCEPT ![c] = r]
          /\ r.agent = call[c].agent /\ r.op = call[c].op /\ r.got = call[c].got
          /\ r.result = call[c].result /\ (r.pc = call[c].pc \/ {r.pc, call[c].pc} \subseteq Sent)
    <3>1. CASE Disarm(c)
      <4> DEFINE r == [call[c] EXCEPT !.key = None]
      <4>1. /\ r \in Callers /\ call' = [call EXCEPT ![c] = r]
            /\ r.agent = call[c].agent /\ r.op = call[c].op /\ r.got = call[c].got
            /\ r.result = call[c].result /\ r.pc = call[c].pc
        BY <1>1, <3>1 DEF Disarm, Callers
      <4> QED
        BY <4>1
    <3>2. CASE FindClosed(c)
      <4> DEFINE r == [call[c] EXCEPT !.pc = "closed"]
      <4>1. /\ r \in Callers /\ call' = [call EXCEPT ![c] = r]
            /\ r.agent = call[c].agent /\ r.op = call[c].op /\ r.got = call[c].got
            /\ r.result = call[c].result /\ r.pc = "closed" /\ call[c].pc = "open"
        BY <1>1, <3>2 DEF FindClosed, Callers
      <4> QED
        BY <4>1 DEF Sent
    <3> QED
      BY <1>10, <3>1, <3>2
  <2>2. UNCHANGED <<agent, pending, emitted>>
    BY <1>10 DEF Disarm, FindClosed
  <2>3. Ended(r, emitted[c])
    BY <1>2, <2>1 DEF Ended, Fresh, Sent
  <2>4. \A b \in Agents : Placed(c, b, agent[b], r, pending'[b], emitted[c])
    BY <1>3, <2>1, <2>2 DEF Placed
  <2> QED
    BY <1>4, <2>1, <2>2, <2>3, <2>4
<1> QED
  BY <1>5, <1>6, <1>7, <1>8, <1>9, <1>10 DEF CallerStep

\* The writer task: a line in the pipe starts its request, which was nowhere else,
\* or refuses it with an answer.
LEMMA WriteStreams ==
  ASSUME TypeOK, StreamInv, NEW a \in Agents, Write(a)
  PROVE  StreamInv'
<1> DEFINE c == Head(agent[a].queue)
           g == [req |-> c, kind |-> "error"]
           h == agent'[a]
<1>1. /\ agent[a].state = "up" /\ agent[a].queue # <<>>
      /\ UNCHANGED <<pending, call, emitted>>
  BY DEF Write
<1>2. /\ agent \in [Agents -> Handles] /\ agent[a] \in Handles
      /\ agent[a].queue \in Seq(Calls) /\ agent[a].out \in Seq(Frames)
  BY DEF TypeOK, Handles
<1>3. /\ c \in Calls /\ Queued(c, agent[a].queue) /\ ~Queued(c, Tail(agent[a].queue))
      /\ \A x : Queued(x, Tail(agent[a].queue)) => Queued(x, agent[a].queue)
      /\ Injective(Tail(agent[a].queue))
  <2>1. Injective(agent[a].queue)
    BY DEF StreamInv, Orderly
  <2> QED
    BY <1>1, <1>2, <2>1, QueueSteps, HeadTailProperties
<1>4. g \in Frames /\ g.req = c /\ g.kind = "error"
  BY <1>3 DEF Frames
<1>5. /\ \A b \in Agents \ {a} : agent'[b] = agent[b]
      /\ h.state = "up" /\ h.queue = Tail(agent[a].queue)
      /\ \/ /\ call[c].op # "watch" /\ h.running = agent[a].running \cup {c}
            /\ h.watching = agent[a].watching /\ h.out = agent[a].out
         \/ /\ call[c].op = "watch" /\ h.watching = agent[a].watching \cup {c}
            /\ h.running = agent[a].running /\ h.out = agent[a].out
         \/ /\ call[c].op = "watch" /\ h.out = Append(agent[a].out, g)
            /\ h.running = agent[a].running /\ h.watching = agent[a].watching
  BY <1>1, <1>2 DEF Write, Handles
<1> HIDE DEF c, g, h
<1>6. \A x \in Calls : Placed(x, a, agent[a], call[x], pending[a], emitted[x])
  BY DEF StreamInv
<1>7. Orderly(h)
  BY <1>3, <1>5 DEF Orderly
<1>8. \A x : x # c => /\ Framed(x, h.out) => Framed(x, agent[a].out)
                      /\ Closed(x, h.out) => Closed(x, agent[a].out)
  <2>1. CASE h.out = agent[a].out
    BY <2>1
  <2>2. CASE h.out = Append(agent[a].out, g)
    BY <1>2, <1>4, <2>2, OutSteps
  <2> QED
    BY <1>5, <2>1, <2>2
<1>9. ASSUME NEW x \in Calls, x \in pending[a]
      PROVE  Accounts(x, h.out, call[x].got, emitted[x])
  <2>1. Accounts(x, agent[a].out, call[x].got, emitted[x])
    BY <1>6, <1>9 DEF Placed
  <2>2. call[x].got \in Nat /\ emitted[x] \in Nat
    BY DEF TypeOK, Callers
  <2>3. Accounts(x, Append(agent[a].out, g), call[x].got, emitted[x])
    BY <1>2, <1>4, <2>1, <2>2, AccountsAppend
  <2> QED
    BY <1>5, <2>1, <2>3
<1>10. ASSUME NEW x \in Calls \ {c}
       PROVE  Placed(x, a, h, call[x], pending[a], emitted[x])
  <2>1. /\ Queued(x, h.queue) => Queued(x, agent[a].queue)
        /\ x \in h.running => x \in agent[a].running
        /\ x \in h.watching => x \in agent[a].watching
    BY <1>3, <1>5
  <2> QED
    BY <1>6, <1>8, <1>9, <2>1, PlacedLess
<1>11. Placed(c, a, h, call[c], pending[a], emitted[c])
  <2>1. /\ Placed(c, a, agent[a], call[c], pending[a], emitted[c])
        /\ Works(c, agent[a])
    BY <1>3, <1>6 DEF Works
  <2>2. /\ a = call[c].agent /\ call[c].pc \in Sent /\ call[c].result # "ok"
        /\ ~Closed(c, agent[a].out)
        /\ c \notin agent[a].running /\ c \notin agent[a].watching
    BY <1>3, <2>1 DEF Placed
  <2>3. Works(c, h) => ~Closed(c, h.out)
    BY <1>3, <1>5, <2>2 DEF Works
  <2> QED
    BY <1>3, <1>5, <1>9, <2>2, <2>3 DEF Placed
<1> QED
  BY <1>1, <1>5, <1>7, <1>10, <1>11, HandleMoves DEF h

\* The reader task: an event under way becomes one its caller has got; the answer
\* comes with nothing of its request left to come.
LEMMA RouteStreams ==
  ASSUME TypeOK, StreamInv, NEW a \in Agents, RouteFrame(a)
  PROVE  StreamInv'
<1> DEFINE f == Head(agent[a].out)
           c == f.req
           h == agent'[a]
           v == IF f.kind = "result" THEN "ok" ELSE "remote"
<1>1. /\ agent[a].out # <<>> /\ UNCHANGED emitted
      /\ \/ UNCHANGED <<pending, call>> /\ c \notin pending[a]
         \/ /\ c \in pending[a] /\ f.kind = "event"
            /\ call' = [call EXCEPT ![c].got = @ + 1] /\ UNCHANGED pending
         \/ /\ c \in pending[a] /\ f.kind # "event"
            /\ pending' = [pending EXCEPT ![a] = @ \ {c}]
            /\ call' = [call EXCEPT ![c] = Answered(c, v)]
  BY DEF RouteFrame
<1>2. /\ agent \in [Agents -> Handles] /\ agent[a] \in Handles
      /\ agent[a].queue \in Seq(Calls) /\ agent[a].out \in Seq(Frames)
      /\ call \in [Calls -> Callers] /\ pending \in [Agents -> SUBSET Calls]
  BY DEF TypeOK, Handles
<1>3. /\ f \in Frames /\ Framed(c, agent[a].out)
      /\ f.kind # "event" => Closed(c, agent[a].out)
      /\ \A x : Framed(x, Tail(agent[a].out)) => Framed(x, agent[a].out)
      /\ \A x : Closed(x, Tail(agent[a].out)) => Closed(x, agent[a].out)
  <2>1. f \in Frames
    BY <1>1, <1>2, HeadTailProperties
  <2> QED
    BY <1>1, <1>2, <2>1, OutSteps
<1>4. c \in Calls
  BY <1>3 DEF Frames
<1>5. /\ \A b \in Agents \ {a} : agent'[b] = agent[b]
      /\ h.state = agent[a].state /\ h.queue = agent[a].queue /\ h.out = Tail(agent[a].out)
      /\ h.running = agent[a].running /\ h.watching = agent[a].watching
  BY <1>2 DEF RouteFrame, Handles
<1> HIDE DEF f, c, h, v
<1>6. \A x \in Calls : /\ \A b \in Agents : Placed(x, b, agent[b], call[x], pending[b], emitted[x])
                       /\ call[x].got \in Nat /\ emitted[x] \in Nat
                       /\ Ended(call[x], emitted[x])
  BY DEF StreamInv, TypeOK, Callers
<1>7. Orderly(h)
  BY <1>1, <1>5 DEF Orderly, StreamInv
<1>8. ASSUME NEW x \in Calls, x \in pending[a]
      PROVE  /\ ~(x = c /\ f.kind = "event") => Accounts(x, h.out, call[x].got, emitted[x])
             /\ x = c /\ f.kind = "event" => Accounts(x, h.out, call[x].got + 1, emitted[x])
             /\ x = c /\ f.kind # "event" => call[x].got = emitted[x]
  <2>1. Accounts(x, agent[a].out, call[x].got, emitted[x])
    BY <1>6, <1>8 DEF Placed
  <2> QED
    BY <1>1, <1>2, <1>5, <1>6, <2>1, AccountsTail DEF f, c
<1>9. ASSUME NEW x \in Calls, x # c \/ x \notin pending[a]
      PROVE  Placed(x, a, h, call[x], pending[a], emitted[x])
  <2>1. Placed(x, a, agent[a], call[x], pending[a], emitted[x])
    BY <1>6
  <2>2. x \in pending[a] => Accounts(x, h.out, call[x].got, emitted[x])
    BY <1>8, <1>9
  <2>3. /\ Framed(x, h.out) => Framed(x, agent[a].out)
        /\ Closed(x, h.out) => Closed(x, agent[a].out)
    BY <1>3, <1>5
  <2> QED
    BY <1>5, <2>1, <2>2, <2>3, PlacedLess
<1>10. CASE UNCHANGED <<pending, call>> /\ c \notin pending[a]
  BY <1>1, <1>5, <1>7, <1>9, <1>10, HandleMoves DEF h
<1>11. ASSUME c \in pending[a]
       PROVE  /\ a = call[c].agent /\ call[c].pc \in Sent /\ call[c].result # "ok"
              /\ \A b \in Agents \ {a} : /\ ~Works(c, agent[b]) /\ ~Framed(c, agent[b].out)
                                         /\ c \notin pending[b]
  <2>1. a = call[c].agent /\ call[c].pc \in Sent /\ call[c].result # "ok"
    BY <1>3, <1>4, <1>6, <1>11 DEF Placed
  <2> QED
    BY <1>4, <2>1, ElsewhereIsNowhere
<1>12. CASE /\ c \in pending[a] /\ f.kind = "event"
            /\ call' = [call EXCEPT ![c].got = @ + 1] /\ UNCHANGED pending
  <2>1. /\ \A x \in Calls \ {c} : call'[x] = call[x]
        /\ call'[c].got = call[c].got + 1 /\ call'[c].pc = call[c].pc /\ call'[c].op = call[c].op
        /\ call'[c].agent = call[c].agent /\ call'[c].result = call[c].result
    BY <1>2, <1>4, <1>12 DEF Callers
  <2>2. Ended(call'[c], emitted'[c])
    BY <1>11, <1>12, <2>1 DEF Ended, Sent, Fresh
  <2>3. Placed(c, a, h, call'[c], pending'[a], emitted'[c])
    <3>1. /\ Placed(c, a, agent[a], call[c], pending[a], emitted[c])
          /\ Accounts(c, h.out, call'[c].got, emitted[c])
      BY <1>4, <1>6, <1>8, <1>12, <2>1
    <3> QED
      BY <1>1, <1>3, <1>5, <1>11, <1>12, <2>1, <3>1 DEF Placed, Works
  <2>4. \A b \in Agents : Placed(c, b, agent'[b], call'[c], pending'[b], emitted'[c])
    <3> SUFFICES ASSUME NEW b \in Agents
                 PROVE  Placed(c, b, agent'[b], call'[c], pending'[b], emitted'[c])
      OBVIOUS
    <3>1. CASE b = a
      BY <2>3, <3>1 DEF h
    <3>2. CASE b # a
      BY <1>5, <1>11, <1>12, <3>2, PlacedNowhere
    <3> QED
      BY <3>1, <3>2
  <2> QED
    BY <1>1, <1>4, <1>5, <1>7, <1>9, <1>12, <2>1, <2>2, <2>4, OneMoves DEF h
<1>13. CASE /\ c \in pending[a] /\ f.kind # "event"
            /\ pending' = [pending EXCEPT ![a] = @ \ {c}]
            /\ call' = [call EXCEPT ![c] = Answered(c, v)]
  <2>1. /\ \A x \in Calls \ {c} : call'[x] = call[x]
        /\ call'[c] = Answered(c, v)
        /\ \A x \in Calls \ {c} : \A b \in Agents : x \in pending'[b] <=> x \in pending[b]
        /\ c \notin pending'[a]
        /\ \A b \in Agents \ {a} : pending'[b] = pending[b]
    BY <1>2, <1>4, <1>13
  <2>2. v \in Results
    BY DEF v, Results
  <2>3. /\ call'[c].agent = call[c].agent /\ call'[c].op = call[c].op
        /\ call'[c].got = call[c].got /\ call'[c].pc \in Sent
    BY <1>4, <1>11, <1>13, <2>1, <2>2, AnsweredKeeps
  <2>4. Ended(call'[c], emitted'[c])
    BY <1>1, <1>4, <1>8, <1>13, <2>3 DEF Ended, Sent, Fresh
  <2>5. ~Works(c, h)
    <3>1. ~Works(c, agent[a])
      BY <1>3, <1>4, <1>6, <1>13 DEF Placed
    <3> QED
      BY <1>5, <3>1 DEF Works
  <2>6. Placed(c, a, h, call'[c], pending'[a], emitted'[c])
    BY <1>11, <1>13, <2>1, <2>3, <2>5 DEF Placed, Works
  <2>7. \A b \in Agents : Placed(c, b, agent'[b], call'[c], pending'[b], emitted'[c])
    <3> SUFFICES ASSUME NEW b \in Agents
                 PROVE  Placed(c, b, agent'[b], call'[c], pending'[b], emitted'[c])
      OBVIOUS
    <3>1. CASE b = a
      BY <2>6, <3>1 DEF h
    <3>2. CASE b # a
      BY <1>5, <1>11, <1>13, <2>1, <3>2, PlacedNowhere
    <3> QED
      BY <3>1, <3>2
  <2> QED
    BY <1>1, <1>4, <1>5, <1>7, <1>9, <2>1, <2>4, <2>7, OneMoves DEF h
<1> QED
  BY <1>1, <1>10, <1>12, <1>13

\* EOF: the calls the drain cancels have no answer to come, so none of them
\* succeeds.
LEMMA DrainStreams ==
  ASSUME TypeOK, StreamInv, NEW a \in Agents, Drain(a)
  PROVE  StreamInv'
<1> DEFINE A == {a}
           C == pending[a]
<1>1. /\ UNCHANGED emitted
      /\ call' = [x \in Calls |-> IF x \in pending[a] THEN Answered(x, "gone") ELSE call[x]]
      /\ pending' = [pending EXCEPT ![a] = {}]
      /\ agent' = [agent EXCEPT ![a].reading = FALSE]
  BY DEF Drain
<1>2. /\ agent \in [Agents -> Handles] /\ agent[a] \in Handles /\ pending \in [Agents -> SUBSET Calls]
      /\ A \in SUBSET Agents /\ C \in SUBSET Calls
  BY DEF TypeOK
<1>3. /\ \A b \in Agents \ A : agent'[b] = agent[b]
      /\ agent'[a].state = agent[a].state /\ agent'[a].queue = agent[a].queue
      /\ agent'[a].out = agent[a].out /\ agent'[a].running = agent[a].running
      /\ agent'[a].watching = agent[a].watching
  BY <1>1, <1>2 DEF Handles
<1>4. \A b \in A : Orderly(agent'[b])
  BY <1>3 DEF StreamInv, Orderly
<1>5. \A x \in Calls \ C : /\ call'[x] = call[x] /\ emitted'[x] = emitted[x]
                           /\ \A b \in Agents : x \in pending'[b] <=> x \in pending[b]
  BY <1>1, <1>2
<1>6. ASSUME NEW b \in A, NEW x \in Calls \ C
      PROVE  Placed(x, b, agent'[b], call[x], pending[b], emitted[x])
  <2>1. b = a /\ Placed(x, b, agent[b], call[x], pending[b], emitted[x])
    BY DEF StreamInv
  <2> QED
    BY <1>3, <2>1, PlacedLess
<1>7. ASSUME NEW x \in C
      PROVE  /\ Ended(call'[x], emitted'[x])
             /\ \A b \in Agents : Placed(x, b, agent'[b], call'[x], pending'[b], emitted'[x])
  <2>1. x \in Calls /\ x \in pending[a]
    BY <1>2
  <2>2. /\ Placed(x, a, agent[a], call[x], pending[a], emitted[x])
        /\ Ended(call[x], emitted[x])
    BY <2>1 DEF StreamInv
  <2>3. a = call[x].agent /\ call[x].result # "ok" /\ call[x].pc \in Sent \cup {"registered"}
    BY <2>1, <2>2 DEF Placed
  <2>4. call'[x] = Answered(x, "gone") /\ "gone" \in Results
    BY <1>1, <2>1 DEF Results
  <2>5. /\ call'[x].agent = call[x].agent /\ call'[x].op = call[x].op /\ call'[x].result # "ok"
        /\ call[x].pc \in Sent => call'[x].pc \in Sent
        /\ call'[x].pc \notin Fresh
    <3>1. "gone" # "ok" /\ call[x].pc \notin Fresh
      BY <2>3 DEF Sent, Fresh
    <3> QED
      BY <2>1, <2>3, <2>4, <3>1, AnsweredKeeps
  <2>6. Ended(call'[x], emitted'[x])
    BY <2>5 DEF Ended
  <2>7. ASSUME NEW b \in Agents
        PROVE  Placed(x, b, agent'[b], call'[x], pending'[b], emitted'[x])
    <3>1. CASE b = a
      <4>1. pending'[a] = {}
        BY <1>1, <1>2
      <4> QED
        BY <1>3, <2>2, <2>3, <2>5, <3>1, <4>1 DEF Placed, Works
    <3>2. CASE b # a
      <4>1. ~Works(x, agent[b]) /\ ~Framed(x, agent[b].out) /\ x \notin pending[b]
        BY <2>1, <2>3, <3>2, ElsewhereIsNowhere
      <4>2. agent'[b] = agent[b] /\ pending'[b] = pending[b]
        BY <1>1, <1>2, <1>3, <3>2
      <4> QED
        BY <4>1, <4>2, PlacedNowhere
    <3> QED
      BY <3>1, <3>2
  <2> QED
    BY <2>6, <2>7
<1> HIDE DEF A, C
<1> QED
  BY <1>2, <1>3, <1>4, <1>5, <1>6, <1>7, Moves

\* An agent that loses its queue, or its operations: nothing new is under way.
LEMMA LossStreams ==
  ASSUME TypeOK, StreamInv, NEW a \in Agents,
         WriteFails(a) \/ Die(a) \/ Reap(a)
  PROVE  StreamInv'
<1>1. /\ agent \in [Agents -> Handles] /\ agent[a] \in Handles
  BY DEF TypeOK
<1>2. /\ \A b \in Agents \ {a} : agent'[b] = agent[b]
      /\ UNCHANGED <<pending, call, emitted>>
      /\ agent'[a].out = agent[a].out
      /\ agent'[a].queue \in {agent[a].queue, <<>>}
      /\ agent'[a].running \subseteq agent[a].running
      /\ agent'[a].watching \subseteq agent[a].watching
      /\ agent'[a].state = "dead"
  <2>1. CASE WriteFails(a)
    BY <1>1, <2>1 DEF WriteFails, Handles
  <2>2. CASE Die(a) \/ Reap(a)
    BY <1>1, <2>2 DEF Die, Reap, Dead, Handles
  <2> QED
    BY <2>1, <2>2
<1>3. ~\E x : Queued(x, <<>>)
  BY DEF Queued
<1>4. Orderly(agent'[a])
  BY <1>2 DEF Orderly, Injective, StreamInv
<1>5. ASSUME NEW x \in Calls
      PROVE  Placed(x, a, agent'[a], call[x], pending[a], emitted[x])
  <2>1. Placed(x, a, agent[a], call[x], pending[a], emitted[x])
    BY DEF StreamInv
  <2>2. /\ Queued(x, agent'[a].queue) => Queued(x, agent[a].queue)
        /\ x \in agent'[a].running => x \in agent[a].running
        /\ x \in agent'[a].watching => x \in agent[a].watching
    BY <1>2, <1>3
  <2> QED
    BY <1>2, <2>1, <2>2, PlacedLess
<1> QED
  BY <1>2, <1>4, <1>5, HandleMoves

\* The agent writes for a request it works on: an event counts from then on, and an
\* answer is the last of its frames.
LEMMA WorkStreams ==
  ASSUME TypeOK, StreamInv, NEW a \in Agents,
         EmitProgress(a) \/ EmitChange(a) \/ Finish(a)
  PROVE  StreamInv'
<1>1. /\ agent \in [Agents -> Handles] /\ agent[a] \in Handles /\ emitted \in [Calls -> Nat]
      /\ agent[a].out \in Seq(Frames)
  BY DEF TypeOK, Handles
<1>2. PICK c \in agent[a].running \cup agent[a].watching, g \in Frames :
        /\ g.req = c /\ UNCHANGED <<pending, call>>
        /\ \A b \in Agents \ {a} : agent'[b] = agent[b]
        /\ agent'[a].out = Append(agent[a].out, g) /\ agent'[a].queue = agent[a].queue
        /\ agent'[a].state = "up" /\ agent'[a].watching = agent[a].watching
        /\ \/ /\ g.kind = "event" /\ emitted' = [emitted EXCEPT ![c] = @ + 1]
              /\ agent'[a].running = agent[a].running
           \/ /\ g.kind # "event" /\ UNCHANGED emitted
              /\ c \in agent[a].running /\ agent'[a].running = agent[a].running \ {c}
  <2>1. CASE EmitProgress(a) \/ EmitChange(a)
    <3>1. PICK c \in agent[a].running \cup agent[a].watching : Emits(a, c)
      BY <2>1 DEF EmitProgress, EmitChange
    <3> DEFINE g == [req |-> c, kind |-> "event"]
    <3>2. g \in Frames /\ g.req = c /\ g.kind = "event"
      BY <1>1 DEF Frames, Handles
    <3>3. /\ UNCHANGED <<pending, call>> /\ emitted' = [emitted EXCEPT ![c] = @ + 1]
          /\ agent' = [agent EXCEPT ![a].out = Append(@, g)] /\ agent[a].state = "up"
      BY <3>1 DEF Emits
    <3> HIDE DEF g
    <3>4. /\ \A b \in Agents \ {a} : agent'[b] = agent[b]
          /\ agent'[a].out = Append(agent[a].out, g) /\ agent'[a].queue = agent[a].queue
          /\ agent'[a].state = "up" /\ agent'[a].watching = agent[a].watching
          /\ agent'[a].running = agent[a].running
      BY <1>1, <3>3 DEF Handles
    <3> QED
      BY <3>2, <3>3, <3>4
  <2>2. CASE Finish(a)
    <3>1. PICK c \in agent[a].running, k \in {"result", "error"} :
            /\ agent[a].state = "up" /\ UNCHANGED <<pending, call, emitted>>
            /\ agent' = [agent EXCEPT ![a].running = @ \ {c},
                                      ![a].out = Append(@, [req |-> c, kind |-> k])]
      BY <2>2 DEF Finish
    <3> DEFINE g == [req |-> c, kind |-> k]
    <3>2. g \in Frames /\ g.req = c /\ g.kind # "event"
      BY <1>1 DEF Frames, Handles
    <3>3. agent' = [agent EXCEPT ![a].running = @ \ {c}, ![a].out = Append(@, g)]
      BY <3>1
    <3> HIDE DEF g
    <3>4. /\ \A b \in Agents \ {a} : agent'[b] = agent[b]
          /\ agent'[a].out = Append(agent[a].out, g) /\ agent'[a].queue = agent[a].queue
          /\ agent'[a].state = "up" /\ agent'[a].watching = agent[a].watching
          /\ agent'[a].running = agent[a].running \ {c}
      BY <1>1, <3>1, <3>3 DEF Handles
    <3> QED
      BY <3>1, <3>2, <3>4
  <2> QED
    BY <2>1, <2>2
<1> DEFINE h == agent'[a]
<1>3. c \in Calls /\ Works(c, agent[a])
  BY <1>1, <1>2 DEF Works, Handles
<1>4. \A x \in Calls : /\ Placed(x, a, agent[a], call[x], pending[a], emitted[x])
                       /\ call[x].got \in Nat /\ emitted[x] \in Nat
  BY DEF StreamInv, TypeOK, Callers
<1>5. /\ a = call[c].agent /\ call[c].pc \in Sent /\ call[c].result # "ok"
      /\ ~Closed(c, agent[a].out) /\ ~Queued(c, agent[a].queue)
      /\ c \in agent[a].running => call[c].op # "watch" /\ c \notin agent[a].watching
  BY <1>2, <1>3, <1>4 DEF Placed
<1>6. /\ \A x : Framed(x, h.out) <=> Framed(x, agent[a].out) \/ c = x
      /\ \A x : Closed(x, h.out) <=> Closed(x, agent[a].out) \/ (c = x /\ g.kind # "event")
  BY <1>1, <1>2, OutSteps
<1>7. ASSUME NEW x \in Calls, x \in pending[a]
      PROVE  Accounts(x, h.out, call[x].got, emitted'[x])
  <2>1. Accounts(x, agent[a].out, call[x].got, emitted[x])
    BY <1>4, <1>7 DEF Placed
  <2>2. emitted'[x] = emitted[x] + IF g.req = x /\ g.kind = "event" THEN 1 ELSE 0
    BY <1>1, <1>2, <1>4
  <2>3. CASE g.req = x /\ g.kind = "event"
    <3>1. ~Closed(x, agent[a].out)
      BY <1>2, <1>5, <2>3
    <3>2. Accounts(x, Append(agent[a].out, g), call[x].got, emitted[x] + 1)
      BY <1>1, <1>4, <2>1, <2>3, <3>1, AccountsAppend
    <3> QED
      BY <1>2, <2>2, <2>3, <3>2
  <2>4. CASE ~(g.req = x /\ g.kind = "event")
    <3>1. Accounts(x, Append(agent[a].out, g), call[x].got, emitted[x])
      BY <1>1, <1>4, <2>1, <2>4, AccountsAppend
    <3>2. emitted'[x] = emitted[x]
      BY <1>4, <2>2, <2>4
    <3> QED
      BY <1>2, <3>1, <3>2
  <2> QED
    BY <2>3, <2>4
<1>8. Orderly(h)
  BY <1>2 DEF Orderly, StreamInv
<1>9. \A x \in Calls \ {c} : emitted'[x] = emitted[x]
  BY <1>1, <1>2
<1> HIDE DEF h
<1>10. ASSUME NEW x \in Calls \ {c}
       PROVE  Placed(x, a, h, call[x], pending[a], emitted[x])
  <2>1. /\ Placed(x, a, agent[a], call[x], pending[a], emitted[x])
        /\ x \in pending[a] => Accounts(x, h.out, call[x].got, emitted[x])
    BY <1>4, <1>7, <1>9
  <2>2. /\ Queued(x, h.queue) => Queued(x, agent[a].queue)
        /\ x \in h.running => x \in agent[a].running
        /\ x \in h.watching => x \in agent[a].watching
        /\ Framed(x, h.out) => Framed(x, agent[a].out)
        /\ Closed(x, h.out) => Closed(x, agent[a].out)
    BY <1>2, <1>6 DEF h
  <2> QED
    BY <2>1, <2>2, PlacedLess
<1>11. Placed(c, a, h, call[c], pending[a], emitted'[c])
  <2>1. Works(c, h) => g.kind = "event"
    BY <1>2, <1>5 DEF Works, h
  <2>2. Works(c, h) => ~Closed(c, h.out)
    BY <1>5, <1>6, <2>1
  <2>3. /\ ~Queued(c, h.queue) /\ h.running \subseteq agent[a].running
        /\ h.watching = agent[a].watching
    BY <1>2, <1>5 DEF h
  <2>4. /\ c \in agent[a].running => call[c].op # "watch"
        /\ c \in agent[a].watching => call[c].op = "watch"
    BY <1>3, <1>4 DEF Placed
  <2> QED
    BY <1>3, <1>5, <1>7, <2>2, <2>3, <2>4 DEF Placed
<1>12. \A b \in Agents : Placed(c, b, agent'[b], call'[c], pending'[b], emitted'[c])
  <2> SUFFICES ASSUME NEW b \in Agents
               PROVE  Placed(c, b, agent'[b], call'[c], pending'[b], emitted'[c])
    OBVIOUS
  <2>1. CASE b = a
    BY <1>2, <1>11, <2>1 DEF h
  <2>2. CASE b # a
    <3>1. ~Works(c, agent[b]) /\ ~Framed(c, agent[b].out) /\ c \notin pending[b]
      BY <1>3, <1>5, <2>2, ElsewhereIsNowhere
    <3> QED
      BY <1>2, <2>2, <3>1, PlacedNowhere
  <2> QED
    BY <2>1, <2>2
<1>13. Ended(call'[c], emitted'[c])
  BY <1>2, <1>5 DEF Ended, Sent, Fresh
<1> QED
  BY <1>2, <1>3, <1>8, <1>9, <1>10, <1>12, <1>13, OneMoves DEF h

\* A call that begins: it was nowhere and stays there (ensure_agent).
LEMMA LookedStreams ==
  ASSUME TypeOK, StreamInv, NEW c \in Calls, NEW op \in Ops, NEW d \in Distros,
         NEW k \in Worktrees \cup {None}, call[c].pc = "idle", Looked(c, op, d, k),
         UNCHANGED <<agent, pending, emitted>>
  PROVE  StreamInv'
<1>1. /\ call'[c].pc \in Fresh /\ call'[c].got = 0 /\ call'[c].result = None
      /\ \A x \in Calls \ {c} : call'[x] = call[x]
  BY DEF Looked, Idle, TypeOK, Fresh
<1>2. Ended(call[c], emitted[c])
  BY DEF StreamInv
<1>3. Ended(call'[c], emitted'[c])
  BY <1>1, <1>2, PoolAssumption DEF Ended, Fresh, Results
<1>4. \A b \in Agents : Placed(c, b, agent'[b], call'[c], pending'[b], emitted'[c])
  BY UnsentIsNowhere, PlacedNowhere DEF Sent
<1> QED
  BY <1>1, <1>3, <1>4, CallMoves

\* The streams stay accounted for in every step of the pool.
LEMMA StreamStep == TypeOK /\ StreamInv /\ [Next]_vars => StreamInv'
<1> SUFFICES ASSUME TypeOK, StreamInv, [Next]_vars PROVE StreamInv'
  OBVIOUS
<1>1. ASSUME NEW c \in Calls, NEW op \in Ops, NEW d \in Distros, Start(c, op, d)
      PROVE  StreamInv'
  <2>1. call[c].pc = "idle" /\ Looked(c, op, d, None) /\ UNCHANGED <<agent, pending, emitted>>
    BY <1>1 DEF Start
  <2> QED
    BY <2>1, LookedStreams
<1>2. ASSUME NEW w \in Worktrees, NEW c \in Calls, Arm(w, c)
      PROVE  StreamInv'
  <2>1. /\ call[c].pc = "idle" /\ Looked(c, "watch", DistroOf[w], w)
        /\ UNCHANGED <<agent, pending, emitted>>
    BY <1>2 DEF Arm
  <2>2. "watch" \in Ops /\ DistroOf[w] \in Distros
    BY PoolAssumption DEF Ops
  <2> QED
    BY <2>1, <2>2, LookedStreams
<1>3. CASE UNCHANGED vars
  BY <1>3 DEF vars, StreamInv
<1>4. ASSUME NEW a \in Agents, Pump(a) \/ Process(a) PROVE StreamInv'
  BY <1>4, WriteStreams, RouteStreams, DrainStreams, LossStreams, WorkStreams DEF Pump, Process
<1> QED
  BY <1>1, <1>2, <1>3, <1>4, CallerStreams DEF Next

\* Whatever the order of the tasks, the frames and the deaths: a streaming call that
\* succeeds has been given every event of its operation, and nothing written later
\* can add one (call_streaming, route_frame, rebuild_inner).
THEOREM StreamsAreComplete == Spec => []StreamIsComplete
<1>1. StreamInv => StreamIsComplete
  BY DEF StreamInv, Ended, StreamIsComplete
<1> QED
  BY <1>1, TypeCorrect, StreamInit, StreamStep, PTL DEF Spec
------------------------------------------------------------------------------
(* One open stream for each armed worktree. *)

\* A call that has not begun has no worktree, and worktrees are armed by the calls that have them.
KeyInv == OneStreamPerWorktree /\ \A c \in Calls : call[c].pc = "idle" => call[c].key = None

\* Worktrees and calls that have not begun stay as they are.
SameKeys ==
  /\ UNCHANGED armed
  /\ \A c \in Calls : call'[c].key = call[c].key /\ (call'[c].pc = "idle" => call[c].pc = "idle")

\* Then the invariant stays too.
LEMMA SameKeysKeep ==
  ASSUME KeyInv, SameKeys
  PROVE  KeyInv'
<1>1. {call'[c].key : c \in Calls} = {call[c].key : c \in Calls}
  BY DEF SameKeys
<1> QED
  BY <1>1 DEF SameKeys, KeyInv, OneStreamPerWorktree

\* The call of c alone moves, and not its worktree.
LEMMA OneMovesOn ==
  ASSUME TypeOK, NEW c \in Calls, NEW r \in Callers, call' = [call EXCEPT ![c] = r],
         r.key = call[c].key, r.pc # "idle", UNCHANGED armed
  PROVE  SameKeys
BY DEF SameKeys, TypeOK

\* A request the pool forgets about keeps its worktree.
LEMMA AnsweredKeys ==
  ASSUME TypeOK, NEW c \in Calls, NEW r
  PROVE  Answered(c, r).key = call[c].key /\ (Answered(c, r).pc = "idle" => call[c].pc = "idle")
<1> DEFINE res == IF call[c].result = None THEN r ELSE call[c].result
           pc == CASE call[c].pc = "waiting" -> "done" [] call[c].pc = "open" -> "closed"
                   [] OTHER -> call[c].pc
<1>1. call[c] \in Callers
  BY DEF TypeOK
<1>2. Answered(c, r) = [call[c] EXCEPT !.result = res, !.pc = pc]
  BY DEF Answered
<1>3. pc = "idle" => call[c].pc = "idle"
  OBVIOUS
<1> HIDE DEF res, pc
<1> QED
  BY <1>1, <1>2, <1>3 DEF Callers

\* What the tasks of a handle and the agent do leaves the worktrees alone.
LEMMA PumpKeys ==
  ASSUME TypeOK, NEW a \in Agents, Pump(a) \/ Process(a)
  PROVE  SameKeys
<1>0. call \in [Calls -> Callers]
  BY DEF TypeOK
<1>1. CASE UNCHANGED <<call, armed>>
  BY <1>1 DEF SameKeys
<1>2. CASE RouteFrame(a)
  <2> DEFINE f == Head(agent[a].out)
             c == f.req
  <2>1. /\ UNCHANGED armed
        /\ \/ UNCHANGED call
           \/ c \in pending[a] /\ call' = [call EXCEPT ![c].got = @ + 1]
           \/ c \in pending[a] /\ \E r : call' = [call EXCEPT ![c] = Answered(c, r)]
    BY <1>2 DEF RouteFrame
  <2> HIDE DEF c, f
  <2>2. pending[a] \subseteq Calls
    BY DEF TypeOK
  <2>3. CASE UNCHANGED call
    BY <1>1, <2>1, <2>3
  <2>4. CASE c \in pending[a] /\ call' = [call EXCEPT ![c].got = @ + 1]
    <3>1. c \in Calls
      BY <2>2, <2>4
    <3> DEFINE n == call[c].got + 1
    <3>2. call' = [call EXCEPT ![c] = [call[c] EXCEPT !.got = n]]
      BY <1>0, <2>4, <3>1
    <3> HIDE DEF n
    <3>3. [call[c] EXCEPT !.got = n].key = call[c].key /\ [call[c] EXCEPT !.got = n].pc = call[c].pc
      BY <1>0, <3>1 DEF Callers
    <3> QED
      BY <1>0, <2>1, <3>1, <3>2, <3>3 DEF SameKeys
  <2>5. CASE c \in pending[a] /\ \E r : call' = [call EXCEPT ![c] = Answered(c, r)]
    <3>1. PICK r : call' = [call EXCEPT ![c] = Answered(c, r)]
      BY <2>5
    <3>2. c \in Calls
      BY <2>2, <2>5
    <3> QED
      BY <1>0, <2>1, <3>1, <3>2, AnsweredKeys DEF SameKeys
  <2> QED
    BY <2>1, <2>3, <2>4, <2>5
<1>3. CASE Drain(a)
  <2>1. /\ call' = [c \in Calls |-> IF c \in pending[a] THEN Answered(c, "gone") ELSE call[c]]
        /\ UNCHANGED armed
    BY <1>3 DEF Drain
  <2> QED
    BY <2>1, AnsweredKeys DEF SameKeys
<1>4. CASE Write(a) \/ WriteFails(a) \/ Process(a)
  <2>1. UNCHANGED <<call, armed>>
    BY <1>4 DEF Write, WriteFails, Process, EmitProgress, EmitChange, Emits, Finish, Die, Reap
  <2> QED
    BY <1>1, <2>1
<1> QED
  BY <1>2, <1>3, <1>4 DEF Pump

\* A call keeps its worktree until it disarms it.
LEMMA CallerKeys ==
  ASSUME TypeOK, KeyInv, NEW c \in Calls, CallerStep(c)
  PROVE  KeyInv'
<1>1. call[c] \in Callers /\ call \in [Calls -> Callers]
  BY DEF TypeOK
<1>2. CASE DeployFails(c) \/ SendFails(c)
  <2> DEFINE r(out) == [call[c] EXCEPT !.pc = "done", !.result = out]
  <2>1. \A out \in Results : r(out) \in Callers /\ r(out).key = call[c].key /\ r(out).pc = "done"
    BY <1>1 DEF Callers
  <2>2. UNCHANGED armed /\ \E out \in {"deploy", "channel"} : call' = [call EXCEPT ![c] = r(out)]
    <3>1. CASE DeployFails(c)
      BY <1>1, <3>1 DEF DeployFails
    <3>2. CASE SendFails(c)
      BY <1>1, <3>2 DEF SendFails
    <3> QED
      BY <1>2, <3>1, <3>2
  <2> HIDE DEF r
  <2>3. {"deploy", "channel"} \subseteq Results
    BY DEF Results
  <2> QED
    BY <2>1, <2>2, <2>3, OneMovesOn, SameKeysKeep
<1>3. CASE SpawnAndInsert(c)
  <2>1. PICK a \in Agents : call' = [call EXCEPT ![c].pc = "have", ![c].agent = a]
    BY <1>3 DEF SpawnAndInsert
  <2> DEFINE r == [call[c] EXCEPT !.pc = "have", !.agent = a]
  <2>2. r \in Callers /\ r.key = call[c].key /\ r.pc = "have"
    BY <1>1 DEF Callers
  <2>3. call' = [call EXCEPT ![c] = r] /\ UNCHANGED armed
    BY <1>1, <1>3, <2>1 DEF SpawnAndInsert
  <2> HIDE DEF r
  <2> QED
    BY <2>2, <2>3, OneMovesOn, SameKeysKeep
<1>4. CASE Register(c) \/ Send(c) \/ FindClosed(c)
  <2> DEFINE r(pc) == [call[c] EXCEPT !.pc = pc]
             end == {"registered", "open", "waiting", "done", "closed"}
  <2>1. \A pc \in end : r(pc) \in Callers /\ r(pc).key = call[c].key /\ r(pc).pc = pc
    BY <1>1 DEF Callers
  <2>2. UNCHANGED armed /\ \E pc \in end : call' = [call EXCEPT ![c] = r(pc)]
    <3>1. CASE Register(c)
      BY <1>1, <3>1 DEF Register
    <3>2. CASE Send(c)
      BY <1>1, <3>2 DEF Send
    <3>3. CASE FindClosed(c)
      BY <1>1, <3>3 DEF FindClosed
    <3> QED
      BY <1>4, <3>1, <3>2, <3>3
  <2> HIDE DEF r
  <2> QED
    BY <2>1, <2>2, OneMovesOn, SameKeysKeep
<1>5. CASE Disarm(c)
  <2> DEFINE r == [call[c] EXCEPT !.key = None]
             k == call[c].key
  <2>1. r.key = None /\ r.pc = call[c].pc
    BY <1>1 DEF Callers
  <2>2. call' = [call EXCEPT ![c] = r] /\ armed' = armed \ {k} /\ k # None /\ call[c].pc # "idle"
    BY <1>5 DEF Disarm
  <2> HIDE DEF r
  <2>3. call'[c].key = None /\ \A x \in Calls : x # c => call'[x] = call[x]
    BY <1>1, <2>1, <2>2
  <2>4. armed = {call[x].key : x \in Calls} \ {None}
        /\ \A x, y \in Calls : call[x].key = call[y].key => x = y \/ call[x].key = None
    BY DEF KeyInv, OneStreamPerWorktree
  <2>5. armed' = {call'[x].key : x \in Calls} \ {None}
    <3>1. \A x \in Calls : x # c => call[x].key # k
      BY <2>2, <2>4
    <3>2. \A v : v \in armed' <=> v \in {call'[x].key : x \in Calls} \ {None}
      BY <2>2, <2>3, <2>4, <3>1
    <3> QED
      BY <3>2
  <2>6. \A x, y \in Calls : call'[x].key = call'[y].key => x = y \/ call'[x].key = None
    BY <2>3, <2>4
  <2>7. \A x \in Calls : call'[x].pc = "idle" => call'[x].key = None
    BY <2>3 DEF KeyInv
  <2> QED
    BY <2>5, <2>6, <2>7 DEF KeyInv, OneStreamPerWorktree
<1> QED
  BY <1>2, <1>3, <1>4, <1>5 DEF CallerStep

\* A call that begins arms a worktree that is not armed, or none.
LEMMA LookedKeys ==
  ASSUME TypeOK, KeyInv, NEW c \in Calls, NEW op \in Ops, NEW d \in Distros, NEW k \in Worktrees \cup {None},
         call[c].pc = "idle", Looked(c, op, d, k), k \notin armed, armed' = armed \cup ({k} \ {None})
  PROVE  KeyInv'
<1>1. call'[c].key = k /\ call'[c].pc # "idle" /\ \A x \in Calls : x # c => call'[x] = call[x]
  <2> DEFINE n == [Idle EXCEPT !.pc = IF pool[d] = None THEN "deploying" ELSE "have",
                               !.op = op, !.distro = d, !.agent = pool[d], !.key = k]
  <2>1. call' = [call EXCEPT ![c] = n]
    BY DEF Looked
  <2>2. n.key = k /\ n.pc # "idle"
    BY DEF Idle
  <2> HIDE DEF n
  <2> QED
    BY <2>1, <2>2 DEF TypeOK
<1>2. call[c].key = None
  BY DEF KeyInv
<1>3. armed = {call[x].key : x \in Calls} \ {None}
      /\ \A x, y \in Calls : call[x].key = call[y].key => x = y \/ call[x].key = None
  BY DEF KeyInv, OneStreamPerWorktree
<1>4. armed' = {call'[x].key : x \in Calls} \ {None}
  <2>1. \A v : v \in armed' <=> v \in {call'[x].key : x \in Calls} \ {None}
    BY <1>1, <1>2, <1>3
  <2> QED
    BY <2>1
<1>5. \A x, y \in Calls : call'[x].key = call'[y].key => x = y \/ call'[x].key = None
  <2>1. \A x \in Calls : x # c => call[x].key # k \/ k = None
    BY <1>3
  <2> QED
    BY <1>1, <1>3, <2>1
<1>6. \A x \in Calls : call'[x].pc = "idle" => call'[x].key = None
  BY <1>1 DEF KeyInv
<1> QED
  BY <1>4, <1>5, <1>6 DEF KeyInv, OneStreamPerWorktree

\* Every step keeps one stream for each armed worktree.
LEMMA KeyStep == TypeOK /\ KeyInv /\ [Next]_vars => KeyInv'
<1> SUFFICES ASSUME TypeOK, KeyInv, [Next]_vars
             PROVE  KeyInv'
  OBVIOUS
<1>1. CASE UNCHANGED vars
  <2>1. SameKeys
    BY <1>1 DEF vars, SameKeys
  <2> QED
    BY <2>1, SameKeysKeep
<1>2. ASSUME NEW c \in Calls, NEW op \in Ops, NEW d \in Distros, Start(c, op, d)
      PROVE  KeyInv'
  <2>1. None \notin armed
    BY DEF KeyInv, OneStreamPerWorktree
  <2>2. call[c].pc = "idle" /\ Looked(c, op, d, None) /\ armed' = armed \cup ({None} \ {None})
    BY <1>2 DEF Start
  <2> QED
    BY <2>1, <2>2, LookedKeys
<1>3. ASSUME NEW w \in Worktrees, NEW c \in Calls, Arm(w, c)
      PROVE  KeyInv'
  <2>1. w # None /\ DistroOf[w] \in Distros /\ "watch" \in Ops
    BY PoolAssumption DEF Ops
  <2>2. call[c].pc = "idle" /\ Looked(c, "watch", DistroOf[w], w) /\ w \notin armed /\ armed' = armed \cup ({w} \ {None})
    BY <1>3, <2>1 DEF Arm
  <2> QED
    BY <2>1, <2>2, LookedKeys
<1>4. ASSUME NEW a \in Agents, Pump(a) \/ Process(a)
      PROVE  KeyInv'
  BY <1>4, PumpKeys, SameKeysKeep
<1> QED
  BY <1>1, <1>2, <1>3, <1>4, CallerKeys DEF Next

\* Whatever calls and agents do, there is one open stream for each armed worktree, so a stream
\* that ends disarms no worktree but its own (WslFsWatchService).
THEOREM StreamsAreOwned == Spec => []OneStreamPerWorktree
<1>1. Init => KeyInv
  <2>1. ASSUME Init
        PROVE  armed = {call[c].key : c \in Calls} \ {None} /\ \A c \in Calls : call[c].key = None
    BY <2>1 DEF Init, Idle
  <2> QED
    BY <2>1 DEF KeyInv, OneStreamPerWorktree
<1>2. KeyInv => OneStreamPerWorktree
  BY DEF KeyInv
<1> QED
  BY <1>1, <1>2, KeyStep, TypeCorrect, PTL DEF Spec
==============================================================================
