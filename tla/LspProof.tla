------------------------------- MODULE LspProof -------------------------------
(***************************************************************************)
(* Proofs about the clients of the language servers and their pools, for any*)
(* servers, calls, worktrees, minted ids and folder cap, and whatever load  *)
(* the surroundings put on them.                                            *)
(*                                                                         *)
(* CheckedMeansEnded rests on what a waiting call may conclude from what it *)
(* read of its client (Waits), and on the progress of a client: completions *)
(* grow, and a check leaves the active work, only with an end of a check or *)
(* with the end of the reader (Later).  FoldersMatchRoots rests on the      *)
(* servers of the pools being distinct, on ids having one root for good, and*)
(* on what the call that holds the pools across a spawn saw before it.      *)
(***************************************************************************)
EXTENDS LspPool, TLAPS, FiniteSetTheorems

\* The steps of a call that has its server, but for the handshake.
Going == {"use", "ensureOpen", "register", "save", "flycheck", "change", "didOpen", "insert",
          "forget", "didClose", "send", "wait", "subscribe", "phase1", "phase2"}
Over  == {"done", "failed"}
Unrouted == {"new", "route", "enroll", "mint", "running"}
Pcs   == Going \cup Over \cup Unrouted \cup {"ensure", "handshake"}
CallKinds == EditorKinds \cup BridgeKinds \cup {"warm"}

Docs == [version : Nat, text : Texts \cup {None}]

Clients ==
  [proc : {"off", "up", "dead"}, reader : {"off", "run", "ended"}, told : BOOLEAN,
   idle : BOOLEAN, roots : SUBSET Roots, pending : SUBSET Calls, opened : [Roots -> Docs],
   held : [Roots -> Docs], active : SUBSET Tokens, completions : Nat, checks : Nat]

CallRecs ==
  [pc : Pcs, kind : CallKinds \cup {None}, root : Roots \cup {None}, id : Ids \cup {None},
   project : Projects \cup {None}, srv : Servers \cup {None}, text : Texts \cup {None},
   doc : Docs, answer : {None, "reply", "gone"}, attempt : Nat, base : Nat, before : Nat,
   checked : BOOLEAN]

\* The client of y has gone on from x: what it counts grows, a reader that ended stays
\* ended, and the completions and the running check are what they were unless a check
\* or the reader ended.
Later(x, y) ==
  /\ x.checks <= y.checks /\ x.completions <= y.completions
  /\ x.reader = "ended" => y.reader = "ended"
  /\ \/ x.checks < y.checks
     \/ y.reader = "ended"
     \/ /\ y.completions = x.completions
        /\ "flycheck" \in x.active => "flycheck" \in y.active

\* Nothing but the pool opens a client or changes its folders.
Same(x, y) == y.roots = x.roots /\ (y.proc = "off" <=> x.proc = "off")

\* A call keeps what it was routed to.
Routed(k, j) ==
  /\ j.id = k.id /\ j.root = k.root /\ j.project = k.project /\ j.srv = k.srv
  /\ j.pc = k.pc \/ (k.pc \in Going /\ j.pc \in Going \cup Over)

\* What call k knows of its client x.
Waits(k, x) ==
  /\ k.pc = "phase1" => /\ k.before <= x.checks /\ k.base <= x.completions
                        /\ \/ x.completions = k.base
                           \/ k.before < x.checks
                           \/ x.reader = "ended"
  /\ k.pc = "phase2" => /\ k.before <= x.checks
                        /\ \/ "flycheck" \in x.active
                           \/ k.before < x.checks
                           \/ x.reader = "ended"
  /\ k.checked => k.pc = "done" /\ (k.before < x.checks \/ x.reader = "ended")

\* A call that has its server has one that was spawned.
Attached(k) ==
  /\ k.pc \in Going \cup {"handshake"} => k.srv \in Servers
  /\ k.checked => k.srv \in Servers
  /\ k.pc # "new" => k.root \in Roots

TypeInv ==
  /\ client \in [Servers -> Clients]
  /\ call \in [Calls -> CallRecs]
  /\ left \in LoadTypes

\* The inductive invariant of the clients.
WaitInv ==
  \A c \in Calls : /\ Attached(call[c])
                   /\ call[c].srv \in Servers => /\ Srv(c).proc # "off"
                                                 /\ Waits(call[c], Srv(c))

ClientInv == TypeInv /\ WaitInv

------------------------------------------------------------------------------
(* Clients go on. *)

\* What a call knows stays true of a client that goes on.
LEMMA WaitsLater ==
  ASSUME NEW x \in Clients, NEW y \in Clients, NEW k \in CallRecs, Later(x, y), Waits(k, x)
  PROVE  Waits(k, y)
<1>1. /\ x.checks \in Nat /\ y.checks \in Nat /\ x.completions \in Nat /\ y.completions \in Nat
      /\ k.before \in Nat /\ k.base \in Nat
  BY DEF Clients, CallRecs
<1> QED
  BY <1>1 DEF Later, Waits

\* A client that stands still is not behind itself.
LEMMA LaterRefl ==
  ASSUME NEW x \in Clients
  PROVE  Later(x, x) /\ Same(x, x)
<1>1. x.checks \in Nat /\ x.completions \in Nat
  BY DEF Clients
<1> QED
  BY <1>1 DEF Later, Same

\* The changes a call makes to its client.
LEMMA ClientChanges ==
  ASSUME NEW x \in Clients, NEW root \in Roots, NEW doc \in Docs, NEW P \in SUBSET Calls
  PROVE  /\ Touched(x) \in Clients /\ Later(x, Touched(x)) /\ Same(x, Touched(x))
         /\ Sent(x, root, doc) \in Clients /\ Later(x, Sent(x, root, doc))
         /\ Same(x, Sent(x, root, doc))
         /\ LET y == [x EXCEPT !.opened[root] = doc]
            IN y \in Clients /\ Later(x, y) /\ Same(x, y)
         /\ LET y == [x EXCEPT !.pending = P]
            IN y \in Clients /\ Later(x, y) /\ Same(x, y)
<1>1. x.checks \in Nat /\ x.completions \in Nat
  BY DEF Clients
<1>2. Touched(x) \in Clients /\ Later(x, Touched(x)) /\ Same(x, Touched(x))
  <2>1. [x EXCEPT !.idle = FALSE] \in Clients
    BY DEF Clients
  <2>2. LET y == [x EXCEPT !.idle = FALSE]
        IN /\ y.checks = x.checks /\ y.completions = x.completions /\ y.reader = x.reader
           /\ y.active = x.active /\ y.roots = x.roots /\ y.proc = x.proc
    BY DEF Clients
  <2> QED
    BY <1>1, <2>1, <2>2 DEF Touched, Later, Same
<1>3. Sent(x, root, doc) \in Clients /\ Later(x, Sent(x, root, doc)) /\ Same(x, Sent(x, root, doc))
  <2> DEFINE z == [x EXCEPT !.idle = FALSE]
             y == [z EXCEPT !.held[root] = doc]
  <2>1. z \in Clients /\ y \in Clients
    BY DEF Clients
  <2>2. /\ y.checks = x.checks /\ y.completions = x.completions /\ y.reader = x.reader
        /\ y.active = x.active /\ y.roots = x.roots /\ y.proc = x.proc
    BY DEF Clients
  <2>3. Later(x, y) /\ Same(x, y)
    BY <1>1, <2>2 DEF Later, Same
  <2>4. Sent(x, root, doc) = y \/ Sent(x, root, doc) = Touched(x)
    BY DEF Sent, Touched
  <2> QED
    BY <1>2, <2>1, <2>3, <2>4
<1>4. LET y == [x EXCEPT !.opened[root] = doc]
      IN y \in Clients /\ Later(x, y) /\ Same(x, y)
  <2> DEFINE y == [x EXCEPT !.opened[root] = doc]
  <2>1. y \in Clients
    BY DEF Clients
  <2>2. /\ y.checks = x.checks /\ y.completions = x.completions /\ y.reader = x.reader
        /\ y.active = x.active /\ y.roots = x.roots /\ y.proc = x.proc
    BY DEF Clients
  <2> QED
    BY <1>1, <2>1, <2>2 DEF Later, Same
<1>5. LET y == [x EXCEPT !.pending = P]
      IN y \in Clients /\ Later(x, y) /\ Same(x, y)
  <2> DEFINE y == [x EXCEPT !.pending = P]
  <2>1. y \in Clients
    BY DEF Clients
  <2>2. /\ y.checks = x.checks /\ y.completions = x.completions /\ y.reader = x.reader
        /\ y.active = x.active /\ y.roots = x.roots /\ y.proc = x.proc
    BY DEF Clients
  <2> QED
    BY <1>1, <2>1, <2>2 DEF Later, Same
<1> QED
  BY <1>2, <1>3, <1>4, <1>5

\* Of two changes in a row the first leads to the second.
LEMMA LaterTrans ==
  ASSUME NEW x \in Clients, NEW y \in Clients, NEW z \in Clients,
         Later(x, y), Same(x, y), Later(y, z), Same(y, z)
  PROVE  Later(x, z) /\ Same(x, z)
<1>1. /\ x.checks \in Nat /\ y.checks \in Nat /\ z.checks \in Nat
      /\ x.completions \in Nat /\ y.completions \in Nat /\ z.completions \in Nat
  BY DEF Clients
<1> QED
  BY <1>1 DEF Later, Same

\* A step of the clients: they go on, calls keep their routes and know what is true.
Onward ==
  /\ client' \in [Servers -> Clients]
  /\ call' \in [Calls -> CallRecs]
  /\ left' \in LoadTypes
  /\ \A s \in Servers : Later(client[s], client'[s]) /\ Same(client[s], client'[s])
  /\ \A c \in Calls : Routed(call[c], call'[c])
  /\ WaitInv'

\* One call moves, and changes its client at most.
LEMMA OneMoves ==
  ASSUME ClientInv, NEW c \in Calls, call[c].srv \in Servers,
         NEW y \in Clients, Later(Srv(c), y), Same(Srv(c), y),
         NEW j \in CallRecs, Routed(call[c], j), Waits(j, y),
         client' = [client EXCEPT ![call[c].srv] = y],
         call' = [call EXCEPT ![c] = j], UNCHANGED left
  PROVE  Onward
<1>1. /\ client \in [Servers -> Clients] /\ call \in [Calls -> CallRecs]
      /\ left' \in LoadTypes
  BY DEF ClientInv, TypeInv
<1>2. client' \in [Servers -> Clients] /\ call' \in [Calls -> CallRecs]
  BY <1>1
<1>3. \A s \in Servers : Later(client[s], client'[s]) /\ Same(client[s], client'[s])
  BY <1>1, LaterRefl DEF Srv
<1>4. \A d \in Calls : Routed(call[d], call'[d])
  BY <1>1 DEF Routed
<1>5. ASSUME NEW d \in Calls
      PROVE  /\ Attached(call'[d])
             /\ call'[d].srv \in Servers => /\ client'[call'[d].srv].proc # "off"
                                            /\ Waits(call'[d], client'[call'[d].srv])
  <2>1. /\ Attached(call[d])
        /\ call[d].srv \in Servers => Srv(d).proc # "off" /\ Waits(call[d], Srv(d))
    BY DEF ClientInv, WaitInv
  <2>2. Routed(call[d], call'[d])
    BY <1>4
  <2>3. call[d].srv \in Servers => client'[call[d].srv].proc # "off"
    BY <1>3, <2>1 DEF Same, Srv
  <2>4. CASE d = c
    <3>1. call'[d] = j /\ client'[call[c].srv] = y
      BY <1>1, <2>4
    <3>2. Attached(j)
      BY <2>1, <2>2, <2>4, <3>1 DEF Attached, Routed, Going, Over
    <3> QED
      BY <2>2, <2>3, <2>4, <3>1, <3>2 DEF Routed
  <2>5. CASE d # c
    <3>1. call'[d] = call[d]
      BY <1>1, <2>5
    <3>2. call[d].srv \in Servers => Waits(call[d], client'[call[d].srv])
      BY <1>1, <1>2, <1>3, <2>1, WaitsLater DEF Srv
    <3> QED
      BY <2>1, <2>3, <3>1, <3>2
  <2> QED
    BY <2>4, <2>5
<1>6. WaitInv'
  BY <1>5 DEF WaitInv, Srv
<1> QED
  BY <1>1, <1>2, <1>3, <1>4, <1>6 DEF Onward

\* A call goes on to step q.
Goes(k, j, q) ==
  /\ j \in CallRecs /\ j.pc = q /\ j.checked = k.checked
  /\ j.id = k.id /\ j.root = k.root /\ j.project = k.project /\ j.srv = k.srv

\* The ways in which a call goes on: to another step, with a document, with another attempt.
LEMMA RecordGoes ==
  ASSUME NEW k \in CallRecs, NEW q \in Going \cup Over
  PROVE  /\ Goes(k, [k EXCEPT !.pc = q], q)
         /\ \A doc \in Docs : Goes(k, [k EXCEPT !.pc = q, !.doc = doc], q)
         /\ \A n \in Nat : Goes(k, [k EXCEPT !.attempt = n, !.pc = q], q)
<1>1. q \in Pcs
  BY DEF Pcs
<1>2. ASSUME NEW x \in CallRecs
      PROVE  Goes(x, [x EXCEPT !.pc = q], q)
  BY <1>1 DEF CallRecs, Goes
<1>3. ASSUME NEW x \in CallRecs, NEW doc \in Docs
      PROVE  LET r == [x EXCEPT !.doc = doc]
             IN r \in CallRecs /\ r.pc = x.pc /\ r.checked = x.checked /\ r.id = x.id
                /\ r.root = x.root /\ r.project = x.project /\ r.srv = x.srv
  BY DEF CallRecs
<1>4. ASSUME NEW x \in CallRecs, NEW n \in Nat
      PROVE  LET r == [x EXCEPT !.attempt = n]
             IN r \in CallRecs /\ r.pc = x.pc /\ r.checked = x.checked /\ r.id = x.id
                /\ r.root = x.root /\ r.project = x.project /\ r.srv = x.srv
  BY DEF CallRecs
<1>5. ASSUME NEW doc \in Docs
      PROVE  Goes(k, [k EXCEPT !.pc = q, !.doc = doc], q)
  <2> DEFINE r == [k EXCEPT !.pc = q]
  <2>1. Goes(k, r, q)
    BY <1>2
  <2> HIDE DEF r
  <2>2. Goes(k, [r EXCEPT !.doc = doc], q)
    BY <1>3, <2>1 DEF Goes
  <2> QED
    BY <2>2 DEF r
<1>6. ASSUME NEW n \in Nat
      PROVE  Goes(k, [k EXCEPT !.attempt = n, !.pc = q], q)
  <2> DEFINE r == [k EXCEPT !.attempt = n]
  <2>1. /\ r \in CallRecs /\ r.pc = k.pc /\ r.checked = k.checked /\ r.id = k.id
        /\ r.root = k.root /\ r.project = k.project /\ r.srv = k.srv
    BY <1>4
  <2> HIDE DEF r
  <2>2. Goes(k, [r EXCEPT !.pc = q], q)
    BY <1>2, <2>1 DEF Goes
  <2> QED
    BY <2>2 DEF r
<1> QED
  BY <1>2, <1>5, <1>6

\* A call of a client that does not wait for a check.
LEMMA PlainMove ==
  ASSUME ClientInv, NEW c \in Calls, call[c].pc \in Going,
         NEW y \in Clients, Later(Srv(c), y), Same(Srv(c), y),
         NEW q \in (Going \cup Over) \ {"phase1", "phase2"}, NEW j, Goes(call[c], j, q),
         client' = [client EXCEPT ![call[c].srv] = y],
         call' = [call EXCEPT ![c] = j],
         UNCHANGED left
  PROVE  Onward
<1> DEFINE k == call[c]
<1>1. k \in CallRecs /\ k.srv \in Servers /\ ~k.checked
  <2>1. k \in CallRecs /\ k.checked \in BOOLEAN
    BY DEF ClientInv, TypeInv, CallRecs
  <2>2. k.srv \in Servers
    BY DEF ClientInv, WaitInv, Attached
  <2>3. k.pc # "done"
    BY DEF Going
  <2> QED
    BY <2>1, <2>2, <2>3 DEF ClientInv, WaitInv, Waits
<1>2. Routed(k, j)
  BY DEF Routed, Goes
<1>3. Waits(j, y)
  BY <1>1 DEF Waits, Goes
<1> QED
  BY <1>1, <1>2, <1>3, OneMoves DEF Goes

\* Documents.
LEMMA DocumentSteps ==
  ASSUME ClientInv, NEW c \in Calls,
         \/ OpenOrUpdate(c) \/ SyncFromDisk(c) \/ SyncOpenFromDisk(c) \/ DidChange(c)
         \/ EnsureOpen(c) \/ DidOpen(c) \/ InsertDoc(c) \/ DidSave(c)
         \/ CloseDocument(c) \/ DidClose(c)
  PROVE  Onward
<1> DEFINE k == call[c]
           x == Srv(c)
<1>1. k.pc \in Going
  BY DEF OpenOrUpdate, SyncFromDisk, SyncOpenFromDisk, DidChange, EnsureOpen, DidOpen,
         InsertDoc, DidSave, CloseDocument, DidClose, At, Going
<1>2. /\ k \in CallRecs /\ k.srv \in Servers /\ k.root \in Roots /\ x \in Clients
      /\ client \in [Servers -> Clients]
  <2>1. /\ k \in CallRecs /\ k.srv \in Servers /\ client \in [Servers -> Clients]
        /\ k.root \in Roots
    BY <1>1 DEF ClientInv, TypeInv, WaitInv, Attached, Going
  <2> QED
    BY <2>1 DEF Srv
<1>3. /\ Closed \in Docs /\ OnDisk \in Docs /\ k.doc \in Docs
      /\ [version |-> Doc(c).version + 1, text |-> k.text] \in Docs
  <2>1. Doc(c) \in Docs
    BY <1>2 DEF Doc, Srv, Clients
  <2>2. k.text \in Texts \cup {None} /\ k.doc \in Docs
    BY <1>2 DEF CallRecs
  <2>3. Doc(c).version \in Nat
    BY <2>1 DEF Docs
  <2> QED
    BY <2>2, <2>3, ClientAssumption DEF Docs, Closed, OnDisk, ClientAssumption
<1>4. AfterPush(k.kind) \in (Going \cup Over) \ {"phase1", "phase2"}
  BY DEF AfterPush, Going, Over
<1>5. {"change", "flycheck", "didOpen", "register", "insert", "done", "didClose"}
          \subseteq (Going \cup Over) \ {"phase1", "phase2"}
  BY DEF Going, Over
<1>6. ASSUME NEW q \in (Going \cup Over) \ {"phase1", "phase2"}, Goto(c, q),
             UNCHANGED <<client, left>>
      PROVE  Onward
  <2>1. client' = [client EXCEPT ![k.srv] = x]
    BY <1>2, <1>6 DEF Srv
  <2>2. Later(x, x) /\ Same(x, x)
    BY <1>2, LaterRefl
  <2>3. Goes(k, [k EXCEPT !.pc = q], q) /\ call' = [call EXCEPT ![c] = [k EXCEPT !.pc = q]]
    BY <1>2, <1>6, RecordGoes DEF Goto
  <2> QED
    BY <1>1, <1>2, <1>6, <2>1, <2>2, <2>3, PlainMove
<1>7. ASSUME NEW y \in Clients, Later(x, y), Same(x, y), Put(k.srv, y),
             NEW q \in (Going \cup Over) \ {"phase1", "phase2"}, Goto(c, q), UNCHANGED left
      PROVE  Onward
  <2>1. Goes(k, [k EXCEPT !.pc = q], q) /\ call' = [call EXCEPT ![c] = [k EXCEPT !.pc = q]]
    BY <1>2, <1>7, RecordGoes DEF Goto
  <2> QED
    BY <1>1, <1>7, <2>1, PlainMove DEF Put
<1>8. ASSUME NEW doc \in Docs
      PROVE  /\ Sent(x, k.root, doc) \in Clients /\ Later(x, Sent(x, k.root, doc))
             /\ Same(x, Sent(x, k.root, doc))
             /\ LET y == [x EXCEPT !.opened[k.root] = doc]
                IN y \in Clients /\ Later(x, y) /\ Same(x, y)
             /\ Touched(x) \in Clients /\ Later(x, Touched(x)) /\ Same(x, Touched(x))
  BY <1>2, ClientChanges
<1>9. CASE Pushed(c)
  <2> DEFINE doc == [version |-> Doc(c).version + 1, text |-> k.text]
             opened == [x EXCEPT !.opened[k.root] = doc]
  <2>1. opened \in Clients /\ Later(x, opened) /\ Same(x, opened) /\ doc \in Docs
    BY <1>3, <1>8
  <2>2. \/ Goto(c, AfterPush(k.kind)) /\ UNCHANGED client
        \/ Put(k.srv, Sent(opened, k.root, doc)) /\ Goto(c, AfterPush(k.kind))
        \/ Put(k.srv, opened) /\ call' = [call EXCEPT ![c].pc = "change", ![c].doc = doc]
    BY <1>9 DEF Pushed
  <2>3. UNCHANGED left
    BY <1>9 DEF Pushed
  <2> HIDE DEF opened, doc
  <2>4. CASE Goto(c, AfterPush(k.kind)) /\ UNCHANGED client
    BY <1>4, <1>6, <2>3, <2>4
  <2>5. CASE Put(k.srv, Sent(opened, k.root, doc)) /\ Goto(c, AfterPush(k.kind))
    <3>1. /\ Sent(opened, k.root, doc) \in Clients /\ Later(opened, Sent(opened, k.root, doc))
          /\ Same(opened, Sent(opened, k.root, doc))
      BY <1>2, <2>1, ClientChanges
    <3>2. Later(x, Sent(opened, k.root, doc)) /\ Same(x, Sent(opened, k.root, doc))
      BY <1>2, <2>1, <3>1, LaterTrans
    <3> QED
      BY <1>4, <1>7, <2>3, <2>5, <3>1, <3>2
  <2>6. CASE Put(k.srv, opened) /\ call' = [call EXCEPT ![c].pc = "change", ![c].doc = doc]
    <3> DEFINE j == [k EXCEPT !.pc = "change", !.doc = doc]
    <3>1. Goes(k, j, "change")
      BY <1>2, <1>5, <2>1, RecordGoes
    <3>2. call' = [call EXCEPT ![c] = j]
      BY <2>6 DEF ClientInv, TypeInv
    <3> HIDE DEF j
    <3> QED
      BY <1>1, <1>5, <2>1, <2>3, <2>6, <3>1, <3>2, PlainMove DEF Put
  <2> QED
    BY <2>2, <2>4, <2>5, <2>6
<1>10. CASE SyncOpenFromDisk(c)
  BY <1>5, <1>6, <1>10 DEF SyncOpenFromDisk
<1>11. CASE DidChange(c)
  BY <1>3, <1>4, <1>7, <1>8, <1>11 DEF DidChange
<1>12. CASE EnsureOpen(c)
  <2>1. Goto(c, "didOpen") \/ Goto(c, "register")
    BY <1>12 DEF EnsureOpen
  <2> QED
    BY <1>5, <1>6, <1>12, <2>1 DEF EnsureOpen
<1>13. CASE DidOpen(c)
  BY <1>3, <1>5, <1>7, <1>8, <1>13 DEF DidOpen
<1>14. CASE InsertDoc(c)
  BY <1>3, <1>5, <1>7, <1>8, <1>14 DEF InsertDoc
<1>15. CASE DidSave(c)
  BY <1>3, <1>5, <1>6, <1>7, <1>8, <1>15 DEF DidSave
<1>16. CASE CloseDocument(c)
  <2>1. Goto(c, "done") \/ Goto(c, "didClose")
    BY <1>16 DEF CloseDocument
  <2> QED
    BY <1>3, <1>5, <1>7, <1>8, <1>16, <2>1 DEF CloseDocument
<1>17. CASE DidClose(c)
  BY <1>3, <1>5, <1>7, <1>8, <1>17 DEF DidClose
<1> QED
  BY <1>9, <1>10, <1>11, <1>12, <1>13, <1>14, <1>15, <1>16, <1>17
     DEF OpenOrUpdate, SyncFromDisk

\* Requests, and the steps of a check but for its wait.
LEMMA RequestSteps ==
  ASSUME ClientInv, NEW c \in Calls,
         \/ ServerGone(c) \/ Register(c) \/ Send(c) \/ Finish(c) \/ TimesOut(c)
         \/ RunFlycheck(c) \/ GraceEnds(c) \/ CheckTimesOut(c)
  PROVE  Onward
<1> DEFINE k == call[c]
           x == Srv(c)
<1>1. k.pc \in Going
  BY DEF ServerGone, Sends, Register, Send, Finish, TimesOut, RunFlycheck, GraceEnds,
         CheckTimesOut, At, Going
<1>2. /\ k \in CallRecs /\ k.srv \in Servers /\ k.root \in Roots /\ x \in Clients
      /\ client \in [Servers -> Clients]
  <2>1. /\ k \in CallRecs /\ k.srv \in Servers /\ client \in [Servers -> Clients]
        /\ k.root \in Roots
    BY <1>1 DEF ClientInv, TypeInv, WaitInv, Attached, Going
  <2> QED
    BY <2>1 DEF Srv
<1>3. {"send", "wait", "done", "failed", "subscribe", "flycheck"}
          \subseteq (Going \cup Over) \ {"phase1", "phase2"}
  BY DEF Going, Over
<1>4. Later(x, x) /\ Same(x, x)
  BY <1>2, LaterRefl
<1>5. ASSUME NEW q \in (Going \cup Over) \ {"phase1", "phase2"}, Goto(c, q),
             UNCHANGED <<client, left>>
      PROVE  Onward
  <2>1. client' = [client EXCEPT ![k.srv] = x]
    BY <1>2, <1>5 DEF Srv
  <2>2. Goes(k, [k EXCEPT !.pc = q], q) /\ call' = [call EXCEPT ![c] = [k EXCEPT !.pc = q]]
    BY <1>2, <1>5, RecordGoes DEF Goto
  <2> QED
    BY <1>1, <1>2, <1>4, <1>5, <2>1, <2>2, PlainMove
<1>6. ASSUME NEW y \in Clients, Later(x, y), Same(x, y), Put(k.srv, y),
             NEW q \in (Going \cup Over) \ {"phase1", "phase2"}, Goto(c, q), UNCHANGED left
      PROVE  Onward
  <2>1. Goes(k, [k EXCEPT !.pc = q], q) /\ call' = [call EXCEPT ![c] = [k EXCEPT !.pc = q]]
    BY <1>2, <1>6, RecordGoes DEF Goto
  <2> QED
    BY <1>1, <1>6, <2>1, PlainMove DEF Put
<1>7. ASSUME NEW P \in SUBSET Calls
      PROVE  /\ LET y == [x EXCEPT !.pending = P]
                IN y \in Clients /\ Later(x, y) /\ Same(x, y)
             /\ Touched(x) \in Clients /\ Later(x, Touched(x)) /\ Same(x, Touched(x))
  <2>1. Closed \in Docs
    BY DEF Closed, Docs
  <2> QED
    BY <1>2, <2>1, ClientChanges
<1>8. Touched(x) \in Clients /\ Later(x, Touched(x)) /\ Same(x, Touched(x))
  BY <1>7
<1>9. CASE ServerGone(c)
  <2>1. Goto(c, "done") \/ Goto(c, "failed")
    BY <1>9 DEF ServerGone
  <2> QED
    BY <1>3, <1>6, <1>8, <1>9, <2>1 DEF ServerGone
<1>10. CASE Register(c)
  <2> DEFINE z == Touched(x)
             y == [z EXCEPT !.pending = z.pending \cup {c}]
  <2>1. z \in Clients /\ Later(x, z) /\ Same(x, z)
    BY <1>8
  <2> HIDE DEF z
  <2>2. z.pending \cup {c} \in SUBSET Calls
    BY <2>1 DEF Clients
  <2>3. y \in Clients /\ Later(z, y) /\ Same(z, y)
    <3>1. Closed \in Docs
      BY DEF Closed, Docs
    <3> QED
      BY <1>2, <2>1, <2>2, <3>1, ClientChanges
  <2>4. Later(x, y) /\ Same(x, y)
    <3> HIDE DEF y
    <3> QED
      BY <1>2, <2>1, <2>3, LaterTrans
  <2>5. Put(k.srv, y) /\ Goto(c, "send") /\ UNCHANGED left
    BY <1>10 DEF Register, z
  <2> HIDE DEF y
  <2> QED
    BY <1>3, <1>6, <2>3, <2>4, <2>5
<1>11. CASE Send(c)
  BY <1>3, <1>5, <1>11 DEF Send
<1>12. CASE Finish(c)
  <2>1. Goto(c, "done") \/ Goto(c, "failed")
    BY <1>12 DEF Finish
  <2> QED
    BY <1>3, <1>5, <1>12, <2>1 DEF Finish
<1>13. CASE TimesOut(c)
  <2> DEFINE y == [x EXCEPT !.pending = x.pending \ {c}]
  <2>1. x.pending \ {c} \in SUBSET Calls
    BY <1>2 DEF Clients
  <2>2. y \in Clients /\ Later(x, y) /\ Same(x, y)
    BY <1>7, <2>1
  <2>3. Put(k.srv, y) /\ Goto(c, "failed") /\ UNCHANGED left
    BY <1>13 DEF TimesOut
  <2> HIDE DEF y
  <2> QED
    BY <1>3, <1>6, <2>2, <2>3
<1>14. CASE RunFlycheck(c)
  BY <1>3, <1>6, <1>8, <1>14 DEF RunFlycheck
<1>15. CASE GraceEnds(c)
  <2> DEFINE q == IF k.attempt = 0 THEN "flycheck" ELSE "done"
             j == [k EXCEPT !.attempt = k.attempt + 1, !.pc = q]
  <2>1. call' = [call EXCEPT ![c].attempt = @ + 1, ![c].pc = q]
        /\ UNCHANGED <<client, left>>
    BY <1>15 DEF GraceEnds
  <2>2. q \in (Going \cup Over) \ {"phase1", "phase2"}
    BY <1>3
  <2>3. k.attempt + 1 \in Nat
    <3>1. k.attempt \in Nat
      BY <1>2 DEF CallRecs
    <3> QED
      BY <3>1
  <2>4. client' = [client EXCEPT ![k.srv] = x]
    BY <1>2, <2>1 DEF Srv
  <2> HIDE DEF q
  <2>5. call' = [call EXCEPT ![c] = j]
    <3>1. call'[c] = j
      BY <1>2, <2>1 DEF ClientInv, TypeInv, CallRecs
    <3> QED
      BY <2>1, <3>1 DEF ClientInv, TypeInv
  <2>6. Goes(k, j, q)
    BY <1>2, <2>2, <2>3, RecordGoes
  <2> HIDE DEF j
  <2> QED
    BY <1>1, <1>2, <1>4, <2>1, <2>2, <2>4, <2>5, <2>6, PlainMove
<1>16. CASE CheckTimesOut(c)
  BY <1>3, <1>5, <1>16 DEF CheckTimesOut
<1> QED
  BY <1>9, <1>10, <1>11, <1>12, <1>13, <1>14, <1>15, <1>16

\* Two records of a call that tell the same about it.
LEMMA RecordAnswered ==
  ASSUME NEW k \in CallRecs, NEW a \in {"reply", "gone"}
  PROVE  LET j == [k EXCEPT !.answer = a]
         IN /\ j \in CallRecs /\ Routed(k, j)
            /\ Attached(k) => Attached(j)
            /\ \A x : Waits(k, x) => Waits(j, x)
<1> DEFINE j == [k EXCEPT !.answer = a]
<1>1. j \in CallRecs
  BY DEF CallRecs
<1>2. /\ j.pc = k.pc /\ j.checked = k.checked /\ j.id = k.id /\ j.root = k.root
      /\ j.project = k.project /\ j.srv = k.srv /\ j.base = k.base /\ j.before = k.before
  BY DEF CallRecs
<1> HIDE DEF j
<1>3. Routed(k, j) /\ (Attached(k) => Attached(j)) /\ (\A x : Waits(k, x) => Waits(j, x))
  BY <1>2 DEF Routed, Attached, Waits
<1> QED
  BY <1>1, <1>3 DEF j

\* The wait for a check.
LEMMA WaitSteps ==
  ASSUME ClientInv, NEW c \in Calls, Replies(c) \/ Subscribe(c) \/ Phase1(c) \/ Phase2(c)
  PROVE  Onward
<1> DEFINE k == call[c]
           x == Srv(c)
<1>1. k.pc \in Going
  BY DEF Replies, Subscribe, Phase1, Phase2, At, Going
<1>2. /\ k \in CallRecs /\ k.srv \in Servers /\ k.root \in Roots /\ x \in Clients
      /\ client \in [Servers -> Clients] /\ Waits(k, x) /\ ~k.checked
  <2>1. /\ k \in CallRecs /\ k.srv \in Servers /\ client \in [Servers -> Clients]
        /\ k.root \in Roots
    BY <1>1 DEF ClientInv, TypeInv, WaitInv, Attached, Going
  <2>2. Waits(k, x)
    BY <2>1 DEF ClientInv, WaitInv
  <2>3. ~k.checked
    BY <1>1, <2>2 DEF Waits, Going
  <2> QED
    BY <2>1, <2>2, <2>3 DEF Srv
<1>3. Later(x, x) /\ Same(x, x) /\ x.checks \in Nat /\ x.completions \in Nat
  BY <1>2, LaterRefl DEF Clients
<1>4. {"phase1", "phase2"} \subseteq Going /\ "done" \in Over
  BY DEF Going, Over
<1>5. CASE Replies(c)
  <2> DEFINE y == [x EXCEPT !.pending = x.pending \ {c}]
             j == [k EXCEPT !.answer = "reply"]
  <2>1. y \in Clients /\ Later(x, y) /\ Same(x, y)
    <3>1. x.pending \ {c} \in SUBSET Calls /\ Closed \in Docs
      BY <1>2 DEF Clients, Closed, Docs
    <3> QED
      BY <1>2, <3>1, ClientChanges
  <2>2. j \in CallRecs /\ Routed(k, j) /\ Waits(j, x)
    BY <1>2, RecordAnswered
  <2>3. client' = [client EXCEPT ![k.srv] = y] /\ call' = [call EXCEPT ![c] = j] /\ UNCHANGED left
    BY <1>5 DEF Replies, Put
  <2>4. Waits(j, y)
    BY <1>2, <2>1, <2>2, WaitsLater
  <2> HIDE DEF y, j
  <2> QED
    BY <1>2, <2>1, <2>2, <2>3, <2>4, OneMoves
<1>6. ASSUME NEW j \in CallRecs, Routed(k, j), Waits(j, x), call' = [call EXCEPT ![c] = j],
             UNCHANGED <<client, left>>
      PROVE  Onward
  <2>1. client' = [client EXCEPT ![k.srv] = x]
    BY <1>2, <1>6 DEF Srv
  <2> QED
    BY <1>2, <1>3, <1>6, <2>1, OneMoves
<1>7. CASE Subscribe(c)
  <2> DEFINE j == [k EXCEPT !.pc = "phase1", !.base = x.completions, !.before = x.checks]
  <2>1. /\ j \in CallRecs /\ j.pc = "phase1" /\ j.base = x.completions /\ j.before = x.checks
        /\ j.checked = k.checked /\ j.id = k.id /\ j.root = k.root
        /\ j.project = k.project /\ j.srv = k.srv
    <3>1. ASSUME NEW n \in Nat, NEW m \in Nat
          PROVE  LET r == [k EXCEPT !.pc = "phase1", !.base = n, !.before = m]
                 IN /\ r \in CallRecs /\ r.pc = "phase1" /\ r.base = n /\ r.before = m
                    /\ r.checked = k.checked /\ r.id = k.id /\ r.root = k.root
                    /\ r.project = k.project /\ r.srv = k.srv
      <4>1. "phase1" \in Pcs
        BY <1>4 DEF Pcs
      <4> QED
        BY <1>2, <4>1 DEF CallRecs
    <3> QED
      BY <1>3, <3>1
  <2>2. call' = [call EXCEPT ![c] = j] /\ UNCHANGED <<client, left>>
    BY <1>7 DEF Subscribe
  <2> HIDE DEF j
  <2>3. Routed(k, j) /\ Waits(j, x)
    BY <1>1, <1>2, <1>3, <1>4, <2>1 DEF Routed, Waits
  <2> QED
    BY <1>6, <2>1, <2>2, <2>3
<1>8. ASSUME Checked(c), k.before < x.checks \/ x.reader = "ended", UNCHANGED <<client, left>>
      PROVE  Onward
  <2> DEFINE j == [k EXCEPT !.pc = "done", !.checked = TRUE]
  <2>1. /\ j \in CallRecs /\ j.pc = "done" /\ j.before = k.before
        /\ j.id = k.id /\ j.root = k.root /\ j.project = k.project /\ j.srv = k.srv
    <3>1. "done" \in Pcs
      BY <1>4 DEF Pcs
    <3> QED
      BY <1>2, <3>1 DEF CallRecs
  <2>2. call' = [call EXCEPT ![c] = j]
    BY <1>8 DEF Checked
  <2> HIDE DEF j
  <2>3. Routed(k, j) /\ Waits(j, x)
    BY <1>1, <1>4, <1>8, <2>1 DEF Routed, Waits
  <2> QED
    BY <1>6, <1>8, <2>1, <2>2, <2>3
<1>9. CASE Phase1(c)
  <2>1. k.pc = "phase1" /\ UNCHANGED <<client, left>>
    BY <1>9 DEF Phase1, At
  <2>2. CASE "flycheck" \in x.active /\ Goto(c, "phase2")
    <3> DEFINE j == [k EXCEPT !.pc = "phase2"]
    <3>1. Goes(k, j, "phase2") /\ j.before = k.before
      <4>1. j.before = k.before
        BY <1>2 DEF CallRecs
      <4> QED
        BY <1>2, <1>4, <4>1, RecordGoes
    <3>2. call' = [call EXCEPT ![c] = j]
      BY <2>2 DEF Goto
    <3> HIDE DEF j
    <3>3. Routed(k, j) /\ Waits(j, x)
      BY <1>1, <1>2, <1>4, <2>1, <2>2, <3>1 DEF Routed, Waits, Goes
    <3> QED
      BY <1>6, <2>1, <3>1, <3>2, <3>3 DEF Goes
  <2>3. CASE x.completions # k.base /\ Checked(c)
    BY <1>2, <1>8, <2>1, <2>3 DEF Waits
  <2> QED
    BY <1>9, <2>2, <2>3 DEF Phase1, FlycheckRunning
<1>10. CASE Phase2(c)
  <2>1. k.pc = "phase2" /\ UNCHANGED <<client, left>> /\ "flycheck" \notin x.active /\ Checked(c)
    BY <1>10 DEF Phase2, At, FlycheckRunning
  <2> QED
    BY <1>2, <1>8, <2>1 DEF Waits
<1> QED
  BY <1>5, <1>7, <1>9, <1>10

\* What the surroundings do is counted down.
LEMMA SpendTyped ==
  ASSUME left \in LoadTypes,
         \/ Spend("calls") \/ Spend("mints") \/ Spend("closes") \/ Spend("idles")
         \/ Spend("begins") \/ Spend("deaths") \/ Spend("failures")
  PROVE  left' \in LoadTypes
BY DEF Spend, LoadTypes

\* A server moves; its pending calls may be answered.
LEMMA ServerMoves ==
  ASSUME ClientInv, NEW s \in Servers, NEW y \in Clients, Later(client[s], y), Same(client[s], y),
         client' = [client EXCEPT ![s] = y], left' \in LoadTypes,
         NEW P, call' = [c \in Calls |-> IF c \in P THEN [call[c] EXCEPT !.answer = "gone"]
                                         ELSE call[c]]
  PROVE  Onward
<1>1. /\ client \in [Servers -> Clients] /\ call \in [Calls -> CallRecs]
  BY DEF ClientInv, TypeInv
<1>2. client' \in [Servers -> Clients]
  BY <1>1
<1>3. \A t \in Servers : Later(client[t], client'[t]) /\ Same(client[t], client'[t])
  BY <1>1, LaterRefl
<1>4. ASSUME NEW d \in Calls
      PROVE  /\ call'[d] \in CallRecs /\ Routed(call[d], call'[d])
             /\ Attached(call[d]) => Attached(call'[d])
             /\ \A x : Waits(call[d], x) => Waits(call'[d], x)
  <2>1. call[d] \in CallRecs
    BY <1>1
  <2>2. CASE d \in P
    <3>1. call'[d] = [call[d] EXCEPT !.answer = "gone"]
      BY <2>2
    <3> QED
      BY <2>1, <3>1, RecordAnswered
  <2>3. CASE d \notin P
    <3>1. call'[d] = call[d]
      BY <2>3
    <3> QED
      BY <2>1, <3>1 DEF Routed
  <2> QED
    BY <2>2, <2>3
<1>5. call' \in [Calls -> CallRecs]
  BY <1>4
<1>6. ASSUME NEW d \in Calls
      PROVE  /\ Attached(call'[d])
             /\ call'[d].srv \in Servers => /\ client'[call'[d].srv].proc # "off"
                                            /\ Waits(call'[d], client'[call'[d].srv])
  <2>1. /\ Attached(call[d])
        /\ call[d].srv \in Servers => Srv(d).proc # "off" /\ Waits(call[d], Srv(d))
    BY DEF ClientInv, WaitInv
  <2>2. call'[d].srv = call[d].srv
    BY <1>4 DEF Routed
  <2>3. call[d].srv \in Servers => /\ client'[call[d].srv].proc # "off"
                                   /\ Waits(call[d], client'[call[d].srv])
    BY <1>1, <1>2, <1>3, <2>1, WaitsLater DEF Same, Srv
  <2> QED
    BY <1>4, <2>1, <2>2, <2>3
<1>7. WaitInv'
  BY <1>6 DEF WaitInv, Srv
<1> QED
  BY <1>2, <1>3, <1>4, <1>5, <1>7 DEF Onward

\* What a server does (a check, an answer, its death) only moves its client on.
LEMMA ServerSteps ==
  ASSUME ClientInv, NEW s \in Servers, ServerStep(s)
  PROVE  Onward
<1> DEFINE x == client[s]
<1>1. /\ x \in Clients /\ left \in LoadTypes /\ call \in [Calls -> CallRecs]
      /\ x.checks \in Nat /\ x.completions \in Nat
  BY DEF ClientInv, TypeInv, Clients
<1>2. ASSUME NEW y \in Clients, Later(x, y), Same(x, y), Put(s, y), left' \in LoadTypes,
             UNCHANGED call
      PROVE  Onward
  <2> DEFINE P == {}
  <2>1. call' = [c \in Calls |-> IF c \in P THEN [call[c] EXCEPT !.answer = "gone"] ELSE call[c]]
    BY <1>1, <1>2
  <2> HIDE DEF P
  <2> QED
    BY <1>2, <2>1, ServerMoves DEF Put
<1>3. ASSUME NEW token \in Tokens, ProgressBegin(s, token)
      PROVE  Onward
  <2> DEFINE y == [x EXCEPT !.active = x.active \cup {token}]
  <2>1. y \in Clients
    BY <1>1 DEF Clients
  <2>2. /\ y.checks = x.checks /\ y.completions = x.completions /\ y.reader = x.reader
        /\ y.active = x.active \cup {token} /\ y.roots = x.roots /\ y.proc = x.proc
    BY <1>1 DEF Clients
  <2>3. Put(s, y) /\ left' \in LoadTypes /\ UNCHANGED call
    BY <1>1, <1>3, SpendTyped DEF ProgressBegin
  <2> HIDE DEF y
  <2>4. Later(x, y) /\ Same(x, y)
    BY <1>1, <2>2 DEF Later, Same
  <2> QED
    BY <1>2, <2>1, <2>3, <2>4
<1>4. ASSUME NEW token \in Tokens, ProgressEnd(s, token)
      PROVE  Onward
  <2> DEFINE n == IF token = "flycheck" THEN 1 ELSE 0
             m == x.completions + n
             q == x.checks + n
             y == [x EXCEPT !.active = x.active \ {token}, !.completions = m, !.checks = q]
  <2>1. n \in Nat /\ (token = "flycheck" => n = 1) /\ (token # "flycheck" => n = 0)
    OBVIOUS
  <2>2. /\ Put(s, [x EXCEPT !.active = x.active \ {token}, !.completions = x.completions + n,
                            !.checks = x.checks + n])
        /\ UNCHANGED <<call, left>>
    BY <1>4 DEF ProgressEnd
  <2>3. m \in Nat /\ q \in Nat
    <3> HIDE DEF n
    <3> QED
      BY <1>1, <2>1
  <2>4. Put(s, y)
    BY <2>2
  <2> HIDE DEF n, m, q
  <2>5. /\ y \in Clients /\ y.checks = q /\ y.completions = m
        /\ y.reader = x.reader /\ y.active = x.active \ {token}
        /\ y.roots = x.roots /\ y.proc = x.proc
    BY <1>1, <2>3 DEF Clients
  <2> HIDE DEF y
  <2>6. Later(x, y) /\ Same(x, y)
    BY <1>1, <2>1, <2>5 DEF Later, Same, m, q
  <2> QED
    BY <1>1, <1>2, <2>2, <2>4, <2>5, <2>6
<1>5. CASE ServerDies(s)
  <2> DEFINE y == [x EXCEPT !.proc = "dead"]
  <2>1. x.proc = "up" /\ Put(s, y) /\ UNCHANGED call
    BY <1>5 DEF ServerDies
  <2>2. left' \in LoadTypes
    BY <1>1, <1>5, SpendTyped DEF ServerDies
  <2>3. y \in Clients
    BY <1>1 DEF Clients
  <2>4. /\ y.checks = x.checks /\ y.completions = x.completions /\ y.reader = x.reader
        /\ y.active = x.active /\ y.roots = x.roots /\ y.proc = "dead"
    BY <1>1 DEF Clients
  <2> HIDE DEF y
  <2>5. Later(x, y) /\ Same(x, y)
    BY <1>1, <2>1, <2>4 DEF Later, Same
  <2> QED
    BY <1>2, <2>1, <2>2, <2>3, <2>5
<1>6. CASE ReaderEnds(s)
  <2> DEFINE y == [x EXCEPT !.reader = "ended", !.pending = {}, !.active = {},
                            !.completions = x.completions + 1]
  <2>1. /\ client' = [client EXCEPT ![s] = y] /\ UNCHANGED left
        /\ call' = [c \in Calls |-> IF c \in x.pending THEN [call[c] EXCEPT !.answer = "gone"]
                                    ELSE call[c]]
    BY <1>6 DEF ReaderEnds, Put
  <2>2. x.completions + 1 \in Nat
    BY <1>1
  <2>3. ASSUME NEW p \in Nat
        PROVE  LET z == [x EXCEPT !.reader = "ended", !.pending = {}, !.active = {},
                                  !.completions = p]
               IN /\ z \in Clients /\ z.checks = x.checks /\ z.completions = p
                  /\ z.reader = "ended" /\ z.roots = x.roots /\ z.proc = x.proc
    BY <1>1 DEF Clients
  <2>4. /\ y \in Clients /\ y.checks = x.checks /\ y.completions = x.completions + 1
        /\ y.reader = "ended" /\ y.roots = x.roots /\ y.proc = x.proc
    BY <2>2, <2>3
  <2> HIDE DEF y
  <2>5. Later(x, y) /\ Same(x, y)
    BY <1>1, <2>4 DEF Later, Same
  <2> QED
    BY <1>1, <2>1, <2>4, <2>5, ServerMoves
<1> QED
  BY <1>3, <1>4, <1>5, <1>6 DEF ServerStep

\* Whatever a client, its server and its calls do, the clients go on.
LEMMA ClientsGoOn ==
  ASSUME ClientInv, (\E c \in Calls : ClientStep(c)) \/ (\E s \in Servers : ServerStep(s))
  PROVE  Onward
BY DocumentSteps, RequestSteps, WaitSteps, ServerSteps DEF ClientStep

------------------------------------------------------------------------------
(* The pools. *)

PoolTypes ==
  [worktrees : [Ids -> Records \cup {None}], byPath : [Roots -> Ids \cup {None}],
   shared : [Projects -> Servers \cup {None}], folders : [Projects -> SUBSET Roots],
   dedicated : [Ids -> Servers \cup {None}]]

\* A call that is routed has an id with the call's root, and a minted id has a record
\* for good.
Known(k, names) ==
  /\ k.pc \in Unrouted => k.id = None
  /\ k.pc \in {"ensure", "handshake"} => k.id \in Ids
  /\ k.id \in Roots => k.id = k.root /\ k.project = Project
  /\ k.id \in Minted => /\ k.project = k.id /\ names[k.id] # None
                        /\ names[k.id].root = k.root

NamesInv ==
  /\ \A i \in Ids : pools.worktrees[i] # None =>
         /\ i \in Roots => pools.worktrees[i].root = i /\ pools.worktrees[i].project = Project
         /\ i \in Minted => pools.worktrees[i].project = i
  /\ \A r \in Roots : /\ pools.byPath[r] \in Roots => pools.byPath[r] = r
                      /\ pools.byPath[r] \in Minted =>
                             /\ pools.worktrees[pools.byPath[r]] # None
                             /\ pools.worktrees[pools.byPath[r]].root = r
  /\ \A m \in Minted : pools.worktrees[m] # None => \E c \in Calls : call[c].id = m
  /\ \A c \in Calls : Known(call[c], pools.worktrees)

\* The servers of the pools are distinct and were spawned.
DistinctInv ==
  /\ \A p, q \in Projects : pools.shared[p] = pools.shared[q] /\ p # q => pools.shared[p] = None
  /\ \A i, j \in Ids : pools.dedicated[i] = pools.dedicated[j] /\ i # j => pools.dedicated[i] = None
  /\ \A p \in Projects, i \in Ids :
         pools.shared[p] = pools.dedicated[i] => pools.shared[p] = None
  /\ \A p \in Projects : pools.shared[p] # None => client[pools.shared[p]].proc # "off"
  /\ \A i \in Ids : pools.dedicated[i] # None => client[pools.dedicated[i]].proc # "off"

\* Their folders are the roots they were told of.
FolderInv ==
  /\ \A p \in Projects :
         IF pools.shared[p] = None THEN pools.folders[p] = {}
         ELSE pools.folders[p] # {} /\ client[pools.shared[p]].roots = pools.folders[p]
  /\ \A i \in Ids : pools.dedicated[i] # None =>
         /\ i \in Roots => /\ client[pools.dedicated[i]].roots = {i}
                           /\ i \notin pools.folders[Project]
         /\ i \in Minted => /\ pools.worktrees[i] # None
                            /\ client[pools.dedicated[i]].roots = {pools.worktrees[i].root}

\* The call that holds the pools across a spawn: its server is in no pool yet, and the
\* pools are as it found them.
Spawns(c) ==
  LET k == call[c] IN
  /\ k.pc = "handshake" /\ client[k.srv].roots = {k.root}
  /\ \A p \in Projects : pools.shared[p] # k.srv
  /\ \A i \in Ids : pools.dedicated[i] # k.srv
  /\ pools.dedicated[k.id] = None
  /\ pools.shared[k.project] # None => k.root \notin pools.folders[k.project] /\ Full(k.project)

LockInv ==
  /\ lock \in Calls \cup {None}
  /\ \A c \in Calls : call[c].pc = "handshake" => lock = c
  /\ lock # None => Spawns(lock)

PoolInv == pools \in PoolTypes /\ NamesInv /\ DistinctInv /\ FolderInv /\ LockInv

\* The inductive invariant of the whole.
LspInv == ClientInv /\ PoolInv

\* The property is what the invariant says of names and folders, server by server.
LEMMA FoldersFollow == PoolInv => FoldersMatchRoots
<1> SUFFICES ASSUME PoolInv
             PROVE  FoldersMatchRoots
  OBVIOUS
<1>1. ASSUME NEW i \in Ids, pools.dedicated[i] # None
      PROVE  /\ pools.worktrees[i] # None =>
                    client[pools.dedicated[i]].roots = {pools.worktrees[i].root}
             /\ \A p \in Projects : pools.shared[p] # pools.dedicated[i]
             /\ i \in Roots => i \notin pools.folders[Project]
  <2>1. \A p \in Projects : pools.shared[p] # pools.dedicated[i]
    BY <1>1 DEF PoolInv, DistinctInv
  <2>2. i \in Roots \/ i \in Minted
    BY DEF Ids
  <2> QED
    BY <1>1, <2>1, <2>2 DEF PoolInv, FolderInv, NamesInv
<1> QED
  BY <1>1 DEF PoolInv, FolderInv, FoldersMatchRoots

\* The clients' steps leave the pools as they are.
LEMMA OnwardKeepsPools ==
  ASSUME LspInv, Onward, QuietPool
  PROVE  LspInv'
<1>1. ClientInv'
  BY DEF Onward, ClientInv, TypeInv
<1>2. /\ \A s \in Servers : /\ client'[s].roots = client[s].roots
                            /\ client[s].proc # "off" => client'[s].proc # "off"
      /\ \A c \in Calls : /\ call'[c].id = call[c].id /\ call'[c].root = call[c].root
                          /\ call'[c].project = call[c].project /\ call'[c].srv = call[c].srv
                          /\ call'[c].pc = "handshake" <=> call[c].pc = "handshake"
                          /\ call'[c].pc = "ensure" <=> call[c].pc = "ensure"
                          /\ call'[c].pc \in Unrouted => call[c].pc \in Unrouted
      /\ pools' = pools /\ lock' = lock
  BY DEF Onward, Same, Routed, QuietPool, Going, Over, Unrouted
<1>3. /\ pools \in PoolTypes /\ NamesInv /\ DistinctInv /\ FolderInv /\ LockInv
  BY DEF LspInv, PoolInv
<1>4. /\ \A p \in Projects : pools.shared[p] \in Servers \cup {None}
      /\ \A i \in Ids : pools.dedicated[i] \in Servers \cup {None}
  BY <1>3 DEF PoolTypes
<1>5. NamesInv'
  BY <1>2, <1>3 DEF NamesInv, Known
<1>6. DistinctInv' /\ FolderInv'
  BY <1>2, <1>3, <1>4 DEF DistinctInv, FolderInv
<1>7. LockInv'
  <2>1. ASSUME lock # None
        PROVE  Spawns(lock)'
    <3>1. lock \in Calls /\ Spawns(lock) /\ call[lock].srv \in Servers
      BY <1>3, <2>1 DEF LockInv, LspInv, ClientInv, WaitInv, Attached, Spawns
    <3> QED
      BY <1>2, <3>1 DEF Spawns, Full
  <2> QED
    BY <1>2, <1>3, <2>1 DEF LockInv
<1> QED
  BY <1>1, <1>2, <1>3, <1>5, <1>6, <1>7 DEF LspInv, PoolInv

\* What the pools change of a client.
LEMMA PoolChanges ==
  ASSUME NEW x \in Clients, NEW R \in SUBSET Roots
  PROVE  /\ LET y == [Touched(x) EXCEPT !.roots = R]
            IN y \in Clients /\ Later(x, y) /\ y.roots = R /\ y.proc = x.proc
         /\ Told(x) \in Clients /\ Later(x, Told(x)) /\ Same(x, Told(x))
         /\ LET y == [x EXCEPT !.idle = TRUE]
            IN y \in Clients /\ Later(x, y) /\ Same(x, y)
         /\ LET y == [NewClient EXCEPT !.proc = "up", !.reader = "run", !.roots = R]
            IN y \in Clients /\ y.roots = R /\ y.proc = "up"
<1>1. x.checks \in Nat /\ x.completions \in Nat
  BY DEF Clients
<1>2. LET y == [Touched(x) EXCEPT !.roots = R]
      IN y \in Clients /\ Later(x, y) /\ y.roots = R /\ y.proc = x.proc
  <2> DEFINE z == [x EXCEPT !.idle = FALSE]
             y == [z EXCEPT !.roots = R]
  <2>1. y \in Clients
    BY DEF Clients
  <2>2. /\ y.checks = x.checks /\ y.completions = x.completions /\ y.reader = x.reader
        /\ y.active = x.active /\ y.roots = R /\ y.proc = x.proc
    BY DEF Clients
  <2> HIDE DEF y
  <2>3. Later(x, y)
    BY <1>1, <2>2 DEF Later
  <2> QED
    BY <2>1, <2>2, <2>3 DEF y, Touched
<1>3. Told(x) \in Clients /\ Later(x, Told(x)) /\ Same(x, Told(x))
  <2> DEFINE y == [x EXCEPT !.told = TRUE]
  <2>1. y \in Clients
    BY DEF Clients
  <2>2. /\ y.checks = x.checks /\ y.completions = x.completions /\ y.reader = x.reader
        /\ y.active = x.active /\ y.roots = x.roots /\ y.proc = x.proc
    BY DEF Clients
  <2>3. Told(x) = y
    BY DEF Told
  <2> HIDE DEF y
  <2> QED
    BY <1>1, <2>1, <2>2, <2>3 DEF Later, Same
<1>4. LET y == [x EXCEPT !.idle = TRUE]
      IN y \in Clients /\ Later(x, y) /\ Same(x, y)
  <2> DEFINE y == [x EXCEPT !.idle = TRUE]
  <2>1. y \in Clients
    BY DEF Clients
  <2>2. /\ y.checks = x.checks /\ y.completions = x.completions /\ y.reader = x.reader
        /\ y.active = x.active /\ y.roots = x.roots /\ y.proc = x.proc
    BY DEF Clients
  <2> HIDE DEF y
  <2>3. Later(x, y) /\ Same(x, y)
    BY <1>1, <2>2 DEF Later, Same
  <2> QED
    BY <2>1, <2>3 DEF y
<1>5. LET y == [NewClient EXCEPT !.proc = "up", !.reader = "run", !.roots = R]
      IN y \in Clients /\ y.roots = R /\ y.proc = "up"
  <2>1. [r \in Roots |-> Closed] \in [Roots -> Docs]
    BY DEF Closed, Docs
  <2>2. NewClient \in Clients
    BY <2>1 DEF NewClient, Clients
  <2> QED
    BY <2>2 DEF Clients
<1> QED
  BY <1>2, <1>3, <1>4, <1>5

\* And of a call.
LEMMA CallChanges ==
  ASSUME NEW k \in CallRecs, NEW q \in Pcs, NEW i \in Ids, NEW p \in Projects,
         NEW s \in Servers \cup {None}
  PROVE  /\ LET j == [k EXCEPT !.pc = q]
            IN j \in CallRecs /\ j.pc = q /\ j.id = k.id /\ j.project = k.project
               /\ j.root = k.root /\ j.srv = k.srv /\ j.checked = k.checked
         /\ LET j == [k EXCEPT !.pc = q, !.id = i, !.project = p]
            IN j \in CallRecs /\ j.pc = q /\ j.id = i /\ j.project = p
               /\ j.root = k.root /\ j.srv = k.srv /\ j.checked = k.checked
         /\ LET j == [k EXCEPT !.srv = s, !.pc = q]
            IN j \in CallRecs /\ j.pc = q /\ j.id = k.id /\ j.project = k.project
               /\ j.root = k.root /\ j.srv = s /\ j.checked = k.checked
BY DEF CallRecs

\* A step of the pools: no client that was spawned goes back, no call waits.
LEMMA PoolsKeepClients ==
  ASSUME ClientInv, client' \in [Servers -> Clients], left' \in LoadTypes,
         \A s \in Servers : \/ client[s].proc = "off"
                            \/ Later(client[s], client'[s]) /\ client'[s].proc # "off",
         NEW c, NEW j \in CallRecs, call' = [call EXCEPT ![c] = j],
         j.pc \notin {"phase1", "phase2"}, ~j.checked, Attached(j),
         j.srv \in Servers => client'[j.srv].proc # "off"
  PROVE  ClientInv'
<1>1. call \in [Calls -> CallRecs] /\ client \in [Servers -> Clients]
  BY DEF ClientInv, TypeInv
<1>2. call' \in [Calls -> CallRecs]
  BY <1>1
<1>3. ASSUME NEW d \in Calls
      PROVE  /\ Attached(call'[d])
             /\ call'[d].srv \in Servers => /\ client'[call'[d].srv].proc # "off"
                                            /\ Waits(call'[d], client'[call'[d].srv])
  <2>1. CASE d = c
    <3>1. call'[d] = j
      BY <1>1, <2>1
    <3> QED
      BY <3>1 DEF Waits
  <2>2. CASE d # c
    <3>1. call'[d] = call[d]
      BY <1>1, <2>2
    <3>2. /\ Attached(call[d])
          /\ call[d].srv \in Servers => Srv(d).proc # "off" /\ Waits(call[d], Srv(d))
      BY DEF ClientInv, WaitInv
    <3> QED
      BY <1>1, <3>1, <3>2, WaitsLater DEF Srv
  <2> QED
    BY <2>1, <2>2
<1>4. WaitInv'
  BY <1>3 DEF WaitInv, Srv
<1> QED
  BY <1>2, <1>4 DEF ClientInv, TypeInv

\* A call that moves without a change of the names keeps them.
LEMMA NamesMove ==
  ASSUME LspInv, NEW c \in Calls, NEW j \in CallRecs, call' = [call EXCEPT ![c] = j],
         call[c].id \in {None, j.id}, Known(j, pools.worktrees),
         pools'.worktrees = pools.worktrees, pools'.byPath = pools.byPath
  PROVE  NamesInv'
<1>1. call \in [Calls -> CallRecs] /\ NamesInv /\ None \notin Minted
  BY PoolAssumption DEF LspInv, ClientInv, TypeInv, PoolInv, PoolAssumption
<1>2. \A d \in Calls : call'[d] = IF d = c THEN j ELSE call[d]
  BY <1>1
<1>3. \A d \in Calls : Known(call'[d], pools'.worktrees)
  BY <1>1, <1>2 DEF NamesInv
<1>4. ASSUME NEW m \in Minted, pools'.worktrees[m] # None
      PROVE  \E d \in Calls : call'[d].id = m
  <2>1. PICK d \in Calls : call[d].id = m
    BY <1>1, <1>4 DEF NamesInv
  <2>2. call'[d].id = m
    BY <1>1, <1>2, <2>1
  <2> QED
    BY <2>2
<1> QED
  BY <1>1, <1>3, <1>4 DEF NamesInv

\* Nobody holds the pools.
LEMMA LockFree ==
  ASSUME LspInv, Free, lock' = None, NEW c \in Calls, NEW j, j.pc # "handshake",
         call' = [call EXCEPT ![c] = j]
  PROVE  LockInv'
<1>1. call \in [Calls -> CallRecs] /\ LockInv /\ None \notin Calls
  BY ClientAssumption DEF LspInv, ClientInv, TypeInv, PoolInv, ClientAssumption
<1>2. \A d \in Calls : call[d].pc # "handshake"
  BY <1>1 DEF LockInv, Free
<1>3. \A d \in Calls : call'[d].pc # "handshake"
  BY <1>1, <1>2
<1> QED
  BY <1>3 DEF LockInv

\* A call begins.
LEMMA BeginStep ==
  ASSUME LspInv, NEW c \in Calls, NEW kind \in CallKinds, NEW root \in left.roots,
         NEW text \in Texts \cup {None}, NEW pc \in {"running", "route", "enroll"},
         Begin(c, kind, root, text, pc)
  PROVE  LspInv'
<1> DEFINE j == [NewCall EXCEPT !.pc = pc, !.kind = kind, !.root = root, !.text = text]
<1>1. /\ call[c] = NewCall /\ call' = [call EXCEPT ![c] = j] /\ Spend("calls")
      /\ UNCHANGED <<client, pools, lock>>
  BY DEF Begin, Fresh
<1>2. /\ call \in [Calls -> CallRecs] /\ client \in [Servers -> Clients] /\ left \in LoadTypes
      /\ ClientInv /\ PoolInv
  BY DEF LspInv, ClientInv, TypeInv
<1>3. root \in Roots
  BY <1>2 DEF LoadTypes
<1>4. NewCall \in CallRecs /\ NewCall.checked = FALSE /\ NewCall.id = None /\ NewCall.srv = None
  BY DEF NewCall, CallRecs, Pcs, Unrouted, Closed, Docs
<1>5. /\ j \in CallRecs /\ j.pc = pc /\ j.checked = FALSE /\ j.id = None /\ j.srv = None
      /\ j.root = root
  <2>1. pc \in Pcs
    BY DEF Pcs, Unrouted
  <2> QED
    BY <1>3, <1>4, <2>1 DEF CallRecs
<1> HIDE DEF j
<1>6. None \notin Servers \cup Calls \cup Roots \cup Minted
  BY ClientAssumption, PoolAssumption DEF ClientAssumption, PoolAssumption
<1>7. left' \in LoadTypes
  BY <1>1, <1>2, SpendTyped
<1>8. Attached(j)
  BY <1>3, <1>5 DEF Attached, Going
<1>9. ASSUME NEW s \in Servers
      PROVE  client[s].proc = "off" \/ (Later(client[s], client'[s]) /\ client'[s].proc # "off")
  BY <1>1, <1>2, LaterRefl
<1>10. ClientInv'
  BY <1>1, <1>2, <1>5, <1>6, <1>7, <1>8, <1>9, PoolsKeepClients
<1>11. NamesInv'
  <2>1. Known(j, pools.worktrees)
    BY <1>5, <1>6 DEF Known
  <2> QED
    BY <1>1, <1>4, <1>5, <2>1, NamesMove
<1>12. DistinctInv' /\ FolderInv'
  BY <1>1, <1>2 DEF PoolInv, DistinctInv, FolderInv
<1>13. LockInv'
  <2>1. NewCall.pc # "handshake" /\ j.pc # "handshake"
    BY <1>5 DEF NewCall
  <2>2. ASSUME lock # None
        PROVE  Spawns(lock)'
    <3>1. lock \in Calls /\ Spawns(lock)
      BY <1>2, <2>2 DEF PoolInv, LockInv
    <3>2. lock # c
      BY <1>1, <2>1, <3>1 DEF Spawns
    <3>3. call'[lock] = call[lock]
      BY <1>1, <1>2, <3>1, <3>2
    <3> QED
      BY <1>1, <3>1, <3>3 DEF Spawns, Full
  <2>3. \A d \in Calls : call'[d].pc = "handshake" => call[d].pc = "handshake"
    BY <1>1, <1>2, <2>1
  <2> QED
    BY <1>1, <1>2, <2>2, <2>3 DEF LockInv, PoolInv
<1> QED
  BY <1>1, <1>2, <1>10, <1>11, <1>12, <1>13 DEF LspInv, PoolInv

\* A path is registered: it has an id, and the id a record with its root.
LEMMA RegisterStep ==
  ASSUME LspInv, Free, lock' = None, UNCHANGED client, left' \in LoadTypes,
         NEW c \in Calls, NEW i \in Ids, NEW p \in Projects,
         call[c].root \in Roots, call[c].id \in {None, i}, call[c].pc \in {"enroll", "mint"},
         i \in Roots => i = call[c].root /\ p = Project,
         i \in Minted => p = i /\ pools.worktrees[i] = None,
         pools' = Registered(i, p, call[c].root),
         call' = [call EXCEPT ![c] = [@ EXCEPT !.pc = "ensure", !.id = i, !.project = p]]
  PROVE  LspInv'
<1> DEFINE k == call[c]
           j == [k EXCEPT !.pc = "ensure", !.id = i, !.project = p]
           rec == [project |-> p, root |-> k.root]
           new == IF pools.worktrees[i] = None THEN rec ELSE pools.worktrees[i]
<1>1. /\ call \in [Calls -> CallRecs] /\ client \in [Servers -> Clients] /\ k \in CallRecs
      /\ ClientInv /\ pools \in PoolTypes /\ NamesInv /\ DistinctInv /\ FolderInv
  BY DEF LspInv, ClientInv, TypeInv, PoolInv
<1>2. /\ j \in CallRecs /\ j.pc = "ensure" /\ j.id = i /\ j.project = p
      /\ j.root = k.root /\ j.srv = k.srv /\ j.checked = k.checked
  <2>1. "ensure" \in Pcs
    BY DEF Pcs
  <2>2. None \in Servers \cup {None}
    OBVIOUS
  <2> QED
    BY <1>1, <2>1 DEF CallRecs
<1>3. call' = [call EXCEPT ![c] = j]
  OBVIOUS
<1>4. rec \in Records /\ rec # None /\ rec.project = p /\ rec.root = k.root
  BY PoolAssumption DEF Records, PoolAssumption
<1>5. /\ pools' \in PoolTypes
      /\ pools'.worktrees = [pools.worktrees EXCEPT ![i] = new]
      /\ pools'.byPath = [pools.byPath EXCEPT ![k.root] = i]
      /\ pools'.shared = pools.shared /\ pools'.folders = pools.folders
      /\ pools'.dedicated = pools.dedicated
  <2>1. pools' = [[pools EXCEPT !.byPath[k.root] = i] EXCEPT !.worktrees[i] = new]
    BY DEF Registered
  <2>2. new \in Records \cup {None}
    BY <1>1, <1>4 DEF PoolTypes
  <2> DEFINE half == [pools EXCEPT !.byPath[k.root] = i]
  <2>3. /\ half \in PoolTypes
        /\ half.byPath = [pools.byPath EXCEPT ![k.root] = i]
        /\ half.worktrees = pools.worktrees
        /\ half.shared = pools.shared /\ half.folders = pools.folders
        /\ half.dedicated = pools.dedicated
    BY <1>1 DEF PoolTypes
  <2>4. pools' = [half EXCEPT !.worktrees[i] = new]
    BY <2>1
  <2> HIDE DEF new, half
  <2> QED
    BY <2>2, <2>3, <2>4 DEF PoolTypes
<1>6. new # None /\ (i \in Minted => new = rec)
      /\ (pools.worktrees[i] # None => new = pools.worktrees[i])
      /\ (pools.worktrees[i] = None => new = rec)
  BY <1>4
<1> HIDE DEF j, new, rec
<1>7. /\ \A x \in Ids : pools'.worktrees[x] = IF x = i THEN new ELSE pools.worktrees[x]
      /\ \A r \in Roots : pools'.byPath[r] = IF r = k.root THEN i ELSE pools.byPath[r]
  BY <1>1, <1>5 DEF PoolTypes
<1>8. ~k.checked
  <2>1. k.pc # "done" /\ k.checked \in BOOLEAN
    BY <1>1 DEF CallRecs
  <2> QED
    BY <2>1, <1>1 DEF ClientInv, WaitInv, Waits, Attached
<1>9. ClientInv'
  <2>1. Attached(j)
    BY <1>2, <1>8 DEF Attached, Going
  <2>2. \A s \in Servers : client[s].proc = "off" \/ (Later(client[s], client'[s]) /\ client'[s].proc # "off")
    BY <1>1, LaterRefl
  <2>3. j.srv \in Servers => client'[j.srv].proc # "off"
    BY <1>1, <1>2 DEF ClientInv, WaitInv, Srv
  <2> QED
    BY <1>1, <1>2, <1>3, <1>8, <2>1, <2>2, <2>3, PoolsKeepClients
<1>10. i \in Roots => i \notin Minted
  BY PoolAssumption DEF PoolAssumption
<1>11. Minted \subseteq Ids /\ Roots \subseteq Ids /\ None \notin Minted
  BY PoolAssumption DEF Ids, PoolAssumption
<1>12. \A m \in Minted : pools.worktrees[m] # None => pools'.worktrees[m] = pools.worktrees[m]
  BY <1>6, <1>7, <1>11
<1>13. NamesInv'
  <2>1. ASSUME NEW x \in Ids, pools'.worktrees[x] # None
        PROVE  /\ x \in Roots => pools'.worktrees[x].root = x /\ pools'.worktrees[x].project = Project
               /\ x \in Minted => pools'.worktrees[x].project = x
    BY <1>1, <1>4, <1>6, <1>7, <2>1 DEF NamesInv
  <2>2. ASSUME NEW r \in Roots
        PROVE  /\ pools'.byPath[r] \in Roots => pools'.byPath[r] = r
               /\ pools'.byPath[r] \in Minted => /\ pools'.worktrees[pools'.byPath[r]] # None
                                                 /\ pools'.worktrees[pools'.byPath[r]].root = r
    <3>1. CASE r = k.root
      BY <1>4, <1>6, <1>7, <3>1
    <3>2. CASE r # k.root
      <4>1. pools'.byPath[r] = pools.byPath[r]
        BY <1>7, <3>2
      <4> QED
        BY <1>1, <1>12, <4>1 DEF NamesInv
    <3> QED
      BY <3>1, <3>2
  <2>3. ASSUME NEW m \in Minted, pools'.worktrees[m] # None
        PROVE  \E d \in Calls : call'[d].id = m
    <3>1. CASE m = i
      <4>1. call'[c].id = m
        BY <1>1, <1>2, <1>3, <3>1
      <4> QED
        BY <4>1
    <3>2. CASE m # i
      <4>1. pools.worktrees[m] # None
        BY <1>7, <1>11, <2>3, <3>2
      <4>2. PICK d \in Calls : call[d].id = m
        BY <1>1, <4>1 DEF NamesInv
      <4>3. call'[d].id = m
        BY <1>1, <1>2, <1>3, <1>11, <3>2, <4>2
      <4> QED
        BY <4>3
    <3> QED
      BY <3>1, <3>2
  <2>4. ASSUME NEW d \in Calls
        PROVE  Known(call'[d], pools'.worktrees)
    <3>1. CASE d = c
      <4>1. call'[d] = j
        BY <1>1, <1>3, <3>1
      <4>2. Known(j, pools'.worktrees)
        BY <1>2, <1>4, <1>6, <1>7 DEF Known, Unrouted
      <4> QED
        BY <4>1, <4>2
    <3>2. CASE d # c
      <4>1. call'[d] = call[d] /\ Known(call[d], pools.worktrees)
        BY <1>1, <1>3, <3>2 DEF NamesInv
      <4> QED
        BY <1>12, <4>1 DEF Known
    <3> QED
      BY <3>1, <3>2
  <2> QED
    BY <2>1, <2>2, <2>3, <2>4 DEF NamesInv
<1>14. DistinctInv' /\ FolderInv'
  <2>1. DistinctInv'
    BY <1>1, <1>5 DEF DistinctInv
  <2>2. FolderInv'
    <3>1. \A m \in Ids : pools.dedicated[m] # None /\ m \in Minted => pools'.worktrees[m] = pools.worktrees[m]
      BY <1>1, <1>12 DEF FolderInv
    <3>2. ASSUME NEW m \in Ids, pools'.dedicated[m] # None
          PROVE  /\ m \in Roots => /\ client'[pools'.dedicated[m]].roots = {m}
                                   /\ m \notin pools'.folders[Project]
                 /\ m \in Minted => /\ pools'.worktrees[m] # None
                                    /\ client'[pools'.dedicated[m]].roots = {pools'.worktrees[m].root}
      BY <1>1, <1>5, <3>1, <3>2 DEF FolderInv
    <3>3. \A q \in Projects :
            IF pools'.shared[q] = None THEN pools'.folders[q] = {}
            ELSE pools'.folders[q] # {} /\ client'[pools'.shared[q]].roots = pools'.folders[q]
      BY <1>1, <1>5 DEF FolderInv
    <3> QED
      BY <3>2, <3>3 DEF FolderInv
  <2> QED
    BY <2>1, <2>2
<1>15. LockInv'
  BY <1>2, <1>3, LockFree
<1> QED
  BY <1>5, <1>9, <1>13, <1>14, <1>15 DEF LspInv, PoolInv

\* Routing.
LEMMA RouteSteps ==
  ASSUME LspInv, NEW c \in Calls, Enroll(c) \/ Route(c) \/ Mint(c) \/ RunningAt(c)
  PROVE  LspInv'
<1> DEFINE k == call[c]
<1>1. /\ call \in [Calls -> CallRecs] /\ client \in [Servers -> Clients] /\ k \in CallRecs
      /\ ClientInv /\ pools \in PoolTypes /\ NamesInv /\ DistinctInv /\ FolderInv
      /\ left \in LoadTypes
  BY DEF LspInv, ClientInv, TypeInv, PoolInv
<1>2. /\ k.pc \in {"enroll", "route", "mint", "running"} /\ Free /\ lock' = None
      /\ UNCHANGED client
  BY DEF Enroll, Route, Mint, RunningAt, At, Free
<1>3. k.root \in Roots /\ ~k.checked
  <2>1. k.pc \notin {"new", "done"} /\ k.checked \in BOOLEAN
    BY <1>1, <1>2 DEF CallRecs
  <2>2. Attached(k) /\ (k.checked => Waits(k, Srv(c)))
    BY <1>1 DEF ClientInv, WaitInv, Attached
  <2> QED
    BY <2>1, <2>2 DEF Attached, Waits
<1>4. k.id = None \/ k.id \in Ids
  BY <1>1 DEF CallRecs
<1>5. /\ Roots \subseteq Ids /\ Minted \subseteq Ids /\ Project \in Projects
      /\ Minted \subseteq Projects
      /\ None \notin Servers \cup Calls \cup Roots \cup Minted
      /\ Minted \cap Roots = {}
  BY ClientAssumption, PoolAssumption DEF Ids, Projects, ClientAssumption, PoolAssumption
<1>6. ASSUME NEW j \in CallRecs, call' = [call EXCEPT ![c] = j], UNCHANGED <<pools, left>>,
             j.pc \in {"ensure", "mint", "done", "forget"}, ~j.checked, j.root = k.root,
             j.srv \in Servers => client[j.srv].proc # "off",
             j.pc = "forget" => j.srv \in Servers,
             k.id \in {None, j.id}, Known(j, pools.worktrees)
      PROVE  LspInv'
  <2>1. Attached(j)
    BY <1>3, <1>6 DEF Attached, Going
  <2>2. \A s \in Servers : client[s].proc = "off" \/ (Later(client[s], client'[s]) /\ client'[s].proc # "off")
    BY <1>1, <1>2, LaterRefl
  <2>3. ClientInv'
    BY <1>1, <1>2, <1>6, <2>1, <2>2, PoolsKeepClients
  <2>4. NamesInv'
    BY <1>6, NamesMove
  <2>5. DistinctInv' /\ FolderInv'
    BY <1>1, <1>2, <1>6 DEF DistinctInv, FolderInv
  <2>6. LockInv'
    BY <1>2, <1>6, LockFree
  <2> QED
    BY <1>1, <1>6, <2>3, <2>4, <2>5, <2>6 DEF LspInv, PoolInv
<1>7. k.srv \in Servers => client[k.srv].proc # "off"
  BY <1>1 DEF ClientInv, WaitInv, Srv
<1>8. Known(k, pools.worktrees)
  BY <1>1 DEF NamesInv
<1>9. k.id = None
  BY <1>2, <1>8 DEF Known, Unrouted
<1>10. "ensure" \in Pcs /\ "mint" \in Pcs /\ "done" \in Pcs /\ "forget" \in Pcs
  BY DEF Pcs, Going, Over, Unrouted
<1>11. None \in Servers \cup {None}
  OBVIOUS
<1>12. CASE Enroll(c)
  BY <1>2, <1>3, <1>5, <1>9, <1>12, <1>1, RegisterStep DEF Enroll, At
<1>13. CASE Route(c)
  <2> DEFINE id == pools.byPath[k.root]
  <2>1. CASE id # None /\ pools.worktrees[id] # None
    <3> DEFINE j == [k EXCEPT !.pc = "ensure", !.id = id, !.project = pools.worktrees[id].project]
    <3>1. id \in Ids /\ pools.worktrees[id] \in Records
      BY <1>1, <1>3, <2>1 DEF PoolTypes
    <3>2. pools.worktrees[id].project \in Projects
      BY <3>1 DEF Records
    <3>3. /\ j \in CallRecs /\ j.pc = "ensure" /\ j.id = id
          /\ j.project = pools.worktrees[id].project
          /\ j.root = k.root /\ j.srv = k.srv /\ j.checked = k.checked
      <4> DEFINE p == pools.worktrees[id].project
      <4> HIDE DEF id, p
      <4>1. /\ [k EXCEPT !.pc = "ensure", !.id = id, !.project = p] \in CallRecs
            /\ LET e == [k EXCEPT !.pc = "ensure", !.id = id, !.project = p]
               IN e.pc = "ensure" /\ e.id = id /\ e.project = p
                  /\ e.root = k.root /\ e.srv = k.srv /\ e.checked = k.checked
        <5>1. p \in Projects
          BY <3>2 DEF p
        <5> QED
          BY <1>1, <1>10, <3>1, <5>1 DEF CallRecs
      <4> QED
        BY <4>1 DEF p
    <3>4. call' = [call EXCEPT ![c] = j] /\ UNCHANGED <<pools, left>>
      BY <1>13, <2>1 DEF Route
    <3> HIDE DEF j
    <3>5. Known(j, pools.worktrees)
      <4>1. id \in Roots => id = k.root /\ j.project = Project
        BY <1>1, <1>3, <2>1, <3>1, <3>3 DEF NamesInv
      <4>2. id \in Minted => j.project = id /\ pools.worktrees[id].root = k.root
        BY <1>1, <1>3, <2>1, <3>1, <3>3 DEF NamesInv
      <4> QED
        BY <2>1, <3>1, <3>3, <4>1, <4>2 DEF Known, Unrouted
    <3> QED
      BY <1>3, <1>6, <1>7, <1>9, <3>3, <3>4, <3>5
  <2>2. CASE ~(id # None /\ pools.worktrees[id] # None)
    <3> DEFINE j == [k EXCEPT !.pc = "mint"]
    <3>1. /\ j \in CallRecs /\ j.pc = "mint" /\ j.id = k.id /\ j.project = k.project
          /\ j.root = k.root /\ j.srv = k.srv /\ j.checked = k.checked
      BY <1>1, <1>10 DEF CallRecs
    <3>2. call' = [call EXCEPT ![c] = j] /\ UNCHANGED <<pools, left>>
      BY <1>13, <2>2 DEF Route
    <3> HIDE DEF j
    <3>3. Known(j, pools.worktrees)
      BY <1>5, <1>9, <3>1 DEF Known
    <3> QED
      BY <1>3, <1>6, <1>7, <1>9, <3>1, <3>2, <3>3
  <2> QED
    BY <2>1, <2>2
<1>14. CASE Mint(c)
  <2>1. PICK i \in Unminted : /\ pools' = Registered(i, i, k.root)
                              /\ call' = [call EXCEPT ![c] = [@ EXCEPT !.pc = "ensure", !.id = i, !.project = i]]
                              /\ Spend("mints")
    BY <1>14 DEF Mint
  <2>2. i \in Minted /\ i \in Ids /\ i \in Projects /\ i \notin Roots
    BY <1>5, <2>1 DEF Unminted
  <2>3. pools.worktrees[i] = None
    BY <1>1, <2>1, <2>2 DEF NamesInv, Unminted
  <2>4. left' \in LoadTypes
    BY <1>1, <2>1, SpendTyped
  <2> QED
    BY <1>2, <1>3, <1>9, <2>1, <2>2, <2>3, <2>4, <1>14, RegisterStep DEF Mint, At
<1>15. CASE RunningAt(c)
  <2> DEFINE id == pools.byPath[k.root]
             rec == IF id = None THEN None ELSE pools.worktrees[id]
             srv == IF rec = None THEN None
                    ELSE IF pools.dedicated[id] # None THEN pools.dedicated[id]
                         ELSE pools.shared[rec.project]
             pc == IF srv = None THEN "done" ELSE "forget"
             j == [k EXCEPT !.srv = srv, !.pc = pc]
  <2>1. /\ srv \in Servers \cup {None}
        /\ srv \in Servers => client[srv].proc # "off"
    <3>1. CASE rec = None
      BY <1>5, <3>1
    <3>2. CASE rec # None
      <4>1. id \in Ids /\ rec \in Records
        BY <1>1, <1>3, <3>2 DEF PoolTypes
      <4>2. rec.project \in Projects
        BY <4>1 DEF Records
      <4>3. pools.dedicated[id] \in Servers \cup {None} /\ pools.shared[rec.project] \in Servers \cup {None}
        BY <1>1, <4>1, <4>2 DEF PoolTypes
      <4>4. /\ pools.dedicated[id] # None => client[pools.dedicated[id]].proc # "off"
            /\ pools.shared[rec.project] # None => client[pools.shared[rec.project]].proc # "off"
        BY <1>1, <4>1, <4>2 DEF DistinctInv
      <4> HIDE DEF rec, id
      <4> QED
        BY <1>5, <3>2, <4>3, <4>4
    <3> QED
      BY <3>1, <3>2
  <2>2. call' = [call EXCEPT ![c] = [@ EXCEPT !.srv = srv, !.pc = pc]] /\ UNCHANGED <<pools, left>>
    BY <1>15 DEF RunningAt
  <2> HIDE DEF srv
  <2>3. /\ pc \in Pcs /\ pc \in {"done", "forget"}
        /\ pc = "forget" => srv \in Servers
    BY <1>10, <2>1
  <2> HIDE DEF pc
  <2>4. /\ j \in CallRecs /\ j.pc = pc /\ j.id = k.id /\ j.project = k.project
        /\ j.root = k.root /\ j.srv = srv /\ j.checked = k.checked
    BY <1>1, <2>1, <2>3 DEF CallRecs
  <2>5. call' = [call EXCEPT ![c] = j]
    BY <2>2
  <2> HIDE DEF j
  <2>6. Known(j, pools.worktrees)
    BY <1>5, <1>9, <2>3, <2>4 DEF Known, Unrouted
  <2> QED
    BY <1>3, <1>6, <1>9, <2>1, <2>2, <2>3, <2>4, <2>5, <2>6
<1> QED
  BY <1>12, <1>13, <1>14, <1>15

\* A step of the pools that moves no call.
LEMMA CallsStand ==
  ASSUME ClientInv, client' \in [Servers -> Clients], left' \in LoadTypes, call' = call,
         \A s \in Servers : Later(client[s], client'[s]) /\ (client'[s].proc = "off" <=> client[s].proc = "off")
  PROVE  ClientInv'
<1>1. call \in [Calls -> CallRecs] /\ client \in [Servers -> Clients]
  BY DEF ClientInv, TypeInv
<1>2. ASSUME NEW d \in Calls
      PROVE  /\ Attached(call'[d])
             /\ call'[d].srv \in Servers => /\ client'[call'[d].srv].proc # "off"
                                            /\ Waits(call'[d], client'[call'[d].srv])
  <2>1. /\ Attached(call[d])
        /\ call[d].srv \in Servers => Srv(d).proc # "off" /\ Waits(call[d], Srv(d))
    BY DEF ClientInv, WaitInv
  <2> QED
    BY <1>1, <2>1, WaitsLater DEF Srv
<1>3. WaitInv'
  BY <1>2 DEF WaitInv, Srv
<1> QED
  BY <1>1, <1>3 DEF ClientInv, TypeInv

\* What a call at the pools' door knows.
LEMMA AtTheDoor ==
  ASSUME LspInv, NEW c \in Calls, call[c].pc \in {"ensure", "handshake"}
  PROVE  /\ call[c] \in CallRecs /\ ~call[c].checked
         /\ call[c].root \in Roots /\ call[c].id \in Ids
         /\ call[c].id \in Roots => call[c].id = call[c].root /\ call[c].project = Project
         /\ call[c].id \in Minted => /\ call[c].project = call[c].id
                                     /\ pools.worktrees[call[c].id] # None
                                     /\ pools.worktrees[call[c].id].root = call[c].root
         /\ call[c].project \in Projects
         /\ call[c].project = Project => call[c].id = call[c].root
         /\ AfterEnsure(c) \in {"done", "use"}
<1>1. /\ call[c] \in CallRecs /\ Known(call[c], pools.worktrees) /\ Attached(call[c])
      /\ call[c].srv \in Servers => Waits(call[c], Srv(c))
  BY DEF LspInv, ClientInv, TypeInv, WaitInv, PoolInv, NamesInv
<1>2. call[c].checked \in BOOLEAN
  BY <1>1 DEF CallRecs
<1>3. ~call[c].checked
  BY <1>1, <1>2 DEF Attached, Waits
<1>4. call[c].root \in Roots
  BY <1>1 DEF Attached
<1>5. Minted \cap (Roots \cup {Project}) = {} /\ Project \in Projects /\ Minted \subseteq Projects
      /\ Ids = Roots \cup Minted
  BY PoolAssumption DEF PoolAssumption, Ids, Projects
<1> QED
  BY <1>1, <1>3, <1>4, <1>5 DEF Known, AfterEnsure

\* The same call afterwards, with its server and at another step.
Holding(k, s, q) == [k EXCEPT !.srv = s, !.pc = q]

\* A call that is given its server is attached to it and known to the pools.
LEMMA Served ==
  ASSUME LspInv, NEW c \in Calls, call[c].pc \in {"ensure", "handshake"},
         NEW s \in Servers, NEW q \in {"done", "use", "failed", "handshake"}
  PROVE  LET j == Holding(call[c], s, q)
         IN /\ j \in CallRecs /\ j.pc = q /\ j.srv = s /\ j.id = call[c].id
            /\ j.project = call[c].project /\ j.root = call[c].root /\ ~j.checked
            /\ Attached(j) /\ Known(j, pools.worktrees)
<1> DEFINE j == Holding(call[c], s, q)
<1>1. /\ call[c] \in CallRecs /\ ~call[c].checked /\ call[c].root \in Roots
      /\ Known(call[c], pools.worktrees)
  BY AtTheDoor DEF LspInv, PoolInv, NamesInv
<1>2. q \in Pcs
  BY DEF Pcs, Going, Over
<1>3. /\ j \in CallRecs /\ j.pc = q /\ j.srv = s /\ j.id = call[c].id
      /\ j.project = call[c].project /\ j.root = call[c].root /\ j.checked = call[c].checked
  BY <1>1, <1>2 DEF CallRecs, Holding
<1> HIDE DEF j
<1>4. call[c].id \in Ids
  BY AtTheDoor
<1>5. Known(j, pools.worktrees)
  BY <1>1, <1>3, <1>4 DEF Known, Unrouted
<1>6. Attached(j)
  BY <1>1, <1>3 DEF Attached
<1> QED
  BY <1>1, <1>3, <1>5, <1>6 DEF j

\* ensure finds a server: the call's own, one that has its folder, or one with room.
LEMMA ReuseStep ==
  ASSUME LspInv, NEW c \in Calls, Reuse(c)
  PROVE  LspInv'
<1> DEFINE k == call[c]
           ded == pools.dedicated[k.id]
           shared == pools.shared[k.project]
           q == AfterEnsure(c)
<1>1. /\ call \in [Calls -> CallRecs] /\ client \in [Servers -> Clients] /\ left \in LoadTypes
      /\ ClientInv /\ pools \in PoolTypes /\ NamesInv /\ DistinctInv /\ FolderInv
  BY DEF LspInv, ClientInv, TypeInv, PoolInv
<1>2. k.pc = "ensure" /\ Free /\ lock' = None /\ left' = left
  BY DEF Reuse, At, Free
<1>3. /\ k \in CallRecs /\ k.root \in Roots /\ k.id \in Ids /\ k.project \in Projects
      /\ k.project = Project => k.id = k.root
      /\ q \in {"done", "use"}
  BY <1>2, AtTheDoor
<1>4. ded \in Servers \cup {None} /\ shared \in Servers \cup {None} /\ None \notin Servers
  BY <1>1, <1>3, ClientAssumption DEF PoolTypes, ClientAssumption
<1>5. ASSUME NEW s \in Servers, Serve(c, s), client[s].proc # "off",
             client' \in [Servers -> Clients],
             \A t \in Servers : /\ Later(client[t], client'[t])
                                /\ client'[t].proc = "off" <=> client[t].proc = "off",
             pools'.worktrees = pools.worktrees, pools'.byPath = pools.byPath
      PROVE  ClientInv' /\ NamesInv' /\ LockInv'
  <2> DEFINE j == [k EXCEPT !.srv = s, !.pc = q]
  <2>1. call' = [call EXCEPT ![c] = j]
    BY <1>5 DEF Serve
  <2>2. /\ j \in CallRecs /\ j.pc = q /\ j.srv = s /\ j.id = k.id
        /\ j.project = k.project /\ j.root = k.root /\ ~j.checked
        /\ Attached(j) /\ Known(j, pools.worktrees)
    <3>1. q \in {"done", "use", "failed", "handshake"}
      BY <1>3
    <3> HIDE DEF q
    <3>2. j = Holding(k, s, q)
      BY DEF Holding
    <3> HIDE DEF j
    <3> QED
      BY <1>2, <3>1, <3>2, Served
  <2> HIDE DEF j
  <2>3. ClientInv'
    BY <1>1, <1>2, <1>3, <1>5, <2>1, <2>2, PoolsKeepClients
  <2>4. NamesInv'
    BY <1>5, <2>1, <2>2, NamesMove
  <2>5. LockInv'
    BY <1>2, <1>3, <2>1, <2>2, LockFree
  <2> QED
    BY <2>3, <2>4, <2>5
<1>6. ASSUME NEW s \in {ded, shared}, s # None, Serve(c, s), UNCHANGED <<client, pools>>
      PROVE  LspInv'
  <2>1. s \in Servers /\ client[s].proc # "off"
    BY <1>1, <1>3, <1>4, <1>6 DEF DistinctInv
  <2>2. \A t \in Servers : /\ Later(client[t], client'[t])
                           /\ client'[t].proc = "off" <=> client[t].proc = "off"
    BY <1>1, <1>6, LaterRefl
  <2>3. ClientInv' /\ NamesInv' /\ LockInv'
    BY <1>1, <1>5, <1>6, <2>1, <2>2
  <2>4. DistinctInv' /\ FolderInv'
    BY <1>1, <1>6 DEF DistinctInv, FolderInv
  <2> QED
    BY <1>1, <1>6, <2>3, <2>4 DEF LspInv, PoolInv
<1>7. ASSUME ded = None, shared # None, k.root \notin pools.folders[k.project],
             pools' = [pools EXCEPT !.folders[k.project] = @ \cup {k.root}],
             Put(shared, AddFolder(client[shared], k.root)), Serve(c, shared)
      PROVE  LspInv'
  <2> DEFINE R == client[shared].roots \cup {k.root}
             y == [Touched(client[shared]) EXCEPT !.roots = R]
             F == pools.folders[k.project] \cup {k.root}
  <2>1. shared \in Servers /\ client[shared].proc # "off" /\ client[shared] \in Clients
        /\ client[shared].roots = pools.folders[k.project]
    BY <1>1, <1>3, <1>4, <1>7 DEF DistinctInv, FolderInv
  <2>2. y \in Clients /\ Later(client[shared], y) /\ y.roots = R /\ y.proc = client[shared].proc
    <3>1. R \in SUBSET Roots
      BY <1>3, <2>1 DEF Clients
    <3> HIDE DEF R
    <3> QED
      BY <2>1, <3>1, PoolChanges
  <2>3. client' = [client EXCEPT ![shared] = y]
    <3>1. AddFolder(client[shared], k.root) = y
      BY DEF AddFolder, Touched
    <3> QED
      BY <1>7, <3>1 DEF Put
  <2>4. R = F
    BY <2>1
  <2>5. F \in SUBSET Roots /\ F # {}
    BY <1>1, <1>3 DEF PoolTypes
  <2>6. /\ pools' \in PoolTypes
        /\ pools'.folders = [pools.folders EXCEPT ![k.project] = F]
        /\ pools'.worktrees = pools.worktrees /\ pools'.byPath = pools.byPath
        /\ pools'.shared = pools.shared /\ pools'.dedicated = pools.dedicated
    BY <1>1, <1>3, <1>7, <2>5 DEF PoolTypes
  <2> HIDE DEF y, F, R
  <2>7. client' \in [Servers -> Clients]
        /\ \A t \in Servers : /\ Later(client[t], client'[t])
                              /\ client'[t].proc = "off" <=> client[t].proc = "off"
                              /\ client'[t].roots = IF t = shared THEN F ELSE client[t].roots
    BY <1>1, <2>1, <2>2, <2>3, <2>4, LaterRefl
  <2>8. ClientInv' /\ NamesInv' /\ LockInv'
    BY <1>5, <1>7, <2>1, <2>6, <2>7
  <2>9. DistinctInv'
    BY <1>1, <1>4, <2>6, <2>7 DEF DistinctInv, PoolTypes
  <2>10. ASSUME NEW p \in Projects
         PROVE  IF pools'.shared[p] = None THEN pools'.folders[p] = {}
                ELSE pools'.folders[p] # {} /\ client'[pools'.shared[p]].roots = pools'.folders[p]
    <3>1. CASE p = k.project
      BY <1>1, <1>3, <1>7, <2>1, <2>5, <2>6, <2>7, <3>1 DEF PoolTypes
    <3>2. CASE p # k.project
      <4>1. pools'.folders[p] = pools.folders[p] /\ pools'.shared[p] = pools.shared[p]
        BY <1>1, <2>6, <3>2 DEF PoolTypes
      <4>2. pools.shared[p] # None => pools.shared[p] \in Servers /\ pools.shared[p] # shared
        BY <1>1, <1>3, <1>7, <3>2 DEF DistinctInv, PoolTypes
      <4> QED
        BY <1>1, <2>7, <4>1, <4>2 DEF FolderInv
    <3> QED
      BY <3>1, <3>2
  <2>11. ASSUME NEW i \in Ids, pools.dedicated[i] # None
         PROVE  /\ pools.dedicated[i] \in Servers /\ client'[pools.dedicated[i]].roots = client[pools.dedicated[i]].roots
                /\ i \in Roots => i \notin pools'.folders[Project]
    <3>1. pools.dedicated[i] \in Servers /\ pools.dedicated[i] # shared
      BY <1>1, <1>3, <1>7, <2>11 DEF DistinctInv, PoolTypes
    <3>2. ASSUME i \in Roots
          PROVE  i \notin pools'.folders[Project]
      <4>1. i \notin pools.folders[Project]
        BY <1>1, <2>11, <3>2 DEF FolderInv
      <4>2. Project \in Projects
        BY DEF Projects
      <4>3. pools'.folders[Project] = IF k.project = Project THEN F ELSE pools.folders[Project]
        BY <1>1, <2>6, <4>2 DEF PoolTypes
      <4> QED
        BY <1>3, <1>7, <2>11, <4>1, <4>3 DEF F
    <3> QED
      BY <2>7, <3>1, <3>2
  <2>12. FolderInv'
    BY <1>1, <2>6, <2>10, <2>11 DEF FolderInv
  <2> QED
    BY <2>6, <2>8, <2>9, <2>12 DEF LspInv, PoolInv
<1> QED
  BY <1>6, <1>7 DEF Reuse

\* ensure spawns a server and holds the pools until the handshake is over.
LEMMA SpawnStep ==
  ASSUME LspInv, NEW c \in Calls, Spawn(c)
  PROVE  LspInv'
<1> DEFINE k == call[c]
<1>1. /\ call \in [Calls -> CallRecs] /\ client \in [Servers -> Clients] /\ left \in LoadTypes
      /\ ClientInv /\ pools \in PoolTypes /\ NamesInv /\ DistinctInv /\ FolderInv /\ LockInv
  BY DEF LspInv, ClientInv, TypeInv, PoolInv
<1>2. k.pc = "ensure" /\ Free /\ lock' = c /\ left' = left /\ pools' = pools
  BY DEF Spawn, At
<1>3. /\ k \in CallRecs /\ k.root \in Roots /\ k.id \in Ids /\ k.project \in Projects
  BY <1>2, AtTheDoor
<1>4. None \notin Servers \cup Calls
  BY ClientAssumption DEF ClientAssumption
<1>5. PICK s \in Servers : /\ client[s].proc = "off"
                           /\ Put(s, [NewClient EXCEPT !.proc = "up", !.reader = "run", !.roots = {k.root}])
                           /\ call' = [call EXCEPT ![c] = [@ EXCEPT !.srv = s, !.pc = "handshake"]]
  BY DEF Spawn
<1> DEFINE R == {k.root}
           y == [NewClient EXCEPT !.proc = "up", !.reader = "run", !.roots = R]
           j == [k EXCEPT !.srv = s, !.pc = "handshake"]
<1>6. y \in Clients /\ y.roots = {k.root} /\ y.proc = "up"
  <2>1. R \in SUBSET Roots
    BY <1>3
  <2> HIDE DEF R
  <2>2. [r \in Roots |-> Closed] \in [Roots -> Docs]
    BY DEF Closed, Docs
  <2>3. NewClient \in Clients
    BY <2>2 DEF NewClient, Clients
  <2>4. y \in Clients /\ y.roots = R /\ y.proc = "up"
    BY <2>1, <2>3 DEF Clients
  <2> QED
    BY <2>4 DEF R
<1>7. /\ j \in CallRecs /\ j.pc = "handshake" /\ j.srv = s /\ j.id = k.id
      /\ j.project = k.project /\ j.root = k.root /\ ~j.checked
      /\ Attached(j) /\ Known(j, pools.worktrees)
  <2>1. j = Holding(k, s, "handshake")
    BY DEF Holding
  <2> HIDE DEF j
  <2> QED
    BY <1>2, <2>1, Served
<1>8. client' = [client EXCEPT ![s] = y] /\ call' = [call EXCEPT ![c] = j]
  BY <1>5 DEF Put
<1> HIDE DEF y, j
<1>9. client' \in [Servers -> Clients]
      /\ \A t \in Servers : client'[t] = IF t = s THEN y ELSE client[t]
  BY <1>1, <1>6, <1>8
<1>10. ClientInv'
  <2>1. \A t \in Servers : client[t].proc = "off" \/ (Later(client[t], client'[t]) /\ client'[t].proc # "off")
    BY <1>1, <1>5, <1>9, LaterRefl
  <2>2. j.srv \in Servers => client'[j.srv].proc # "off"
    BY <1>6, <1>7, <1>9
  <2> QED
    BY <1>1, <1>2, <1>7, <1>8, <1>9, <2>1, <2>2, PoolsKeepClients
<1>11. NamesInv'
  BY <1>2, <1>7, <1>8, NamesMove
<1>12. /\ \A p \in Projects : pools.shared[p] # s
       /\ \A i \in Ids : pools.dedicated[i] # s
  BY <1>4, <1>5, <1>1 DEF DistinctInv
<1>13. /\ \A p \in Projects : pools.shared[p] # None => client'[pools.shared[p]] = client[pools.shared[p]]
       /\ \A i \in Ids : pools.dedicated[i] # None => client'[pools.dedicated[i]] = client[pools.dedicated[i]]
  BY <1>1, <1>9, <1>12 DEF PoolTypes
<1>14. DistinctInv' /\ FolderInv'
  BY <1>1, <1>2, <1>13 DEF DistinctInv, FolderInv
<1>15. LockInv'
  <2>1. \A d \in Calls : call[d].pc # "handshake"
    BY <1>1, <1>2, <1>4 DEF LockInv, Free
  <2>2. \A d \in Calls : call'[d].pc = "handshake" => d = c
    BY <1>1, <1>8, <2>1
  <2>3. Spawns(c)'
    <3>1. call'[c] = j
      BY <1>1, <1>8
    <3>2. /\ pools.dedicated[k.id] = None
          /\ pools.shared[k.project] # None => k.root \notin pools.folders[k.project] /\ Full(k.project)
      BY DEF Spawn
    <3>4. client'[s].roots = {k.root}
      BY <1>6, <1>9
    <3> QED
      BY <1>2, <1>7, <1>12, <3>1, <3>2, <3>4 DEF Spawns, Full
  <2> QED
    BY <1>2, <2>2, <2>3 DEF LockInv
<1> QED
  BY <1>1, <1>2, <1>10, <1>11, <1>14, <1>15 DEF LspInv, PoolInv

\* The handshake is over: the call lets the pools go.
LEMMA SpawnOver ==
  ASSUME LspInv, NEW c \in Calls, call[c].pc = "handshake", lock' = None, UNCHANGED client,
         left' \in LoadTypes, pools'.worktrees = pools.worktrees, pools'.byPath = pools.byPath,
         NEW q \in {"done", "use", "failed"}, Goto(c, q)
  PROVE  /\ ClientInv' /\ NamesInv' /\ LockInv'
         /\ lock = c /\ Spawns(c) /\ call[c].srv \in Servers /\ Srv(c).proc # "off"
<1> DEFINE k == call[c]
           j == [k EXCEPT !.pc = q]
<1>1. /\ call \in [Calls -> CallRecs] /\ client \in [Servers -> Clients]
      /\ ClientInv /\ LockInv
  BY DEF LspInv, ClientInv, TypeInv, PoolInv
<1>2. None \notin Servers \cup Calls
  BY ClientAssumption DEF ClientAssumption
<1>3. lock = c /\ Spawns(c)
  BY <1>1, <1>2 DEF LockInv
<1>4. k.srv \in Servers /\ Srv(c).proc # "off"
  BY <1>1 DEF ClientInv, WaitInv, Attached
<1>5. /\ j \in CallRecs /\ j.pc = q /\ j.srv = k.srv /\ j.id = k.id
      /\ j.project = k.project /\ j.root = k.root /\ ~j.checked
      /\ Attached(j) /\ Known(j, pools.worktrees)
  <2>1. /\ k \in CallRecs /\ ~k.checked /\ k.root \in Roots /\ k.id \in Ids
        /\ Known(k, pools.worktrees)
    BY AtTheDoor DEF LspInv, PoolInv, NamesInv
  <2>2. q \in Pcs
    BY DEF Pcs, Going, Over
  <2>3. /\ j \in CallRecs /\ j.pc = q /\ j.srv = k.srv /\ j.id = k.id
        /\ j.project = k.project /\ j.root = k.root /\ j.checked = k.checked
    BY <2>1, <2>2 DEF CallRecs
  <2> HIDE DEF j
  <2>4. Known(j, pools.worktrees)
    BY <2>1, <2>3 DEF Known, Unrouted
  <2>5. Attached(j)
    BY <1>4, <2>1, <2>3 DEF Attached
  <2> QED
    BY <2>1, <2>3, <2>4, <2>5
<1>6. call' = [call EXCEPT ![c] = j]
  BY DEF Goto
<1> HIDE DEF j
<1>7. ClientInv'
  <2>1. \A t \in Servers : client[t].proc = "off" \/ (Later(client[t], client'[t]) /\ client'[t].proc # "off")
    BY <1>1, LaterRefl
  <2>2. j.srv \in Servers => client'[j.srv].proc # "off"
    BY <1>4, <1>5 DEF Srv
  <2>3. client' \in [Servers -> Clients]
    BY <1>1
  <2> QED
    BY <1>1, <1>5, <1>6, <2>1, <2>2, <2>3, PoolsKeepClients
<1>8. NamesInv'
  BY <1>5, <1>6, NamesMove
<1>9. LockInv'
  <2>1. \A d \in Calls : call'[d].pc # "handshake"
    BY <1>1, <1>3, <1>5, <1>6 DEF LockInv
  <2> QED
    BY <2>1 DEF LockInv
<1> QED
  BY <1>3, <1>4, <1>7, <1>8, <1>9

\* A spawn that fails gives the lock back and leaves the pools as they were.
LEMMA SpawnFailsStep ==
  ASSUME LspInv, NEW c \in Calls, SpawnFails(c)
  PROVE  LspInv'
<1>1. /\ call[c].pc = "handshake" /\ lock' = None /\ client' = client /\ pools' = pools
      /\ Goto(c, "failed")
  BY DEF SpawnFails, At
<1>2. left' \in LoadTypes
  BY SpendTyped DEF SpawnFails, LspInv, ClientInv, TypeInv
<1>3. ClientInv' /\ NamesInv' /\ LockInv'
  BY <1>1, <1>2, SpawnOver
<1>4. pools \in PoolTypes /\ DistinctInv /\ FolderInv
  BY DEF LspInv, PoolInv
<1>5. DistinctInv' /\ FolderInv'
  BY <1>1, <1>4 DEF DistinctInv, FolderInv
<1> QED
  BY <1>1, <1>3, <1>4, <1>5 DEF LspInv, PoolInv

\* The server joins the pools: alone for its call's id, or as the project's first.
LEMMA SpawnReadyStep ==
  ASSUME LspInv, NEW c \in Calls, SpawnReady(c)
  PROVE  LspInv'
<1> DEFINE k == call[c]
           s == k.srv
<1>1. /\ call \in [Calls -> CallRecs] /\ client \in [Servers -> Clients] /\ left \in LoadTypes
      /\ pools \in PoolTypes /\ NamesInv /\ DistinctInv /\ FolderInv
  BY DEF LspInv, ClientInv, TypeInv, PoolInv
<1>2. /\ k.pc = "handshake" /\ lock' = None /\ client' = client /\ left' = left
      /\ Goto(c, AfterEnsure(c))
  BY DEF SpawnReady, At
<1>3. /\ k \in CallRecs /\ k.root \in Roots /\ k.id \in Ids /\ k.project \in Projects
      /\ k.project = Project => k.id = k.root
      /\ k.id \in Roots => k.id = k.root /\ k.project = Project
      /\ k.id \in Minted => pools.worktrees[k.id] # None /\ pools.worktrees[k.id].root = k.root
      /\ AfterEnsure(c) \in {"done", "use"}
  BY <1>2, AtTheDoor
<1>4. pools'.worktrees = pools.worktrees /\ pools'.byPath = pools.byPath
  BY <1>1 DEF SpawnReady, PoolTypes
<1>5. /\ ClientInv' /\ NamesInv' /\ LockInv'
      /\ Spawns(c) /\ s \in Servers /\ client[s].proc # "off"
  <2>1. AfterEnsure(c) \in {"done", "use", "failed"}
    BY <1>3
  <2> QED
    BY <1>1, <1>2, <1>4, <2>1, SpawnOver DEF Srv
<1>6. /\ client[s].roots = {k.root}
      /\ \A p \in Projects : pools.shared[p] # s
      /\ \A i \in Ids : pools.dedicated[i] # s
      /\ pools.dedicated[k.id] = None
      /\ pools.shared[k.project] # None => k.root \notin pools.folders[k.project] /\ Full(k.project)
  BY <1>5 DEF Spawns
<1>7. k.root \notin pools.folders[k.project]
  BY <1>1, <1>3, <1>6 DEF FolderInv
<1>8. None \notin Servers /\ Project \in Projects
  BY ClientAssumption DEF ClientAssumption, Projects
<1>9. CASE Full(k.project)
  <2>1. pools' = [pools EXCEPT !.dedicated[k.id] = s]
    BY <1>9 DEF SpawnReady
  <2>2. /\ pools' \in PoolTypes /\ pools'.shared = pools.shared /\ pools'.folders = pools.folders
        /\ pools'.dedicated = [pools.dedicated EXCEPT ![k.id] = s]
    BY <1>1, <1>3, <1>5, <2>1 DEF PoolTypes
  <2>3. \A i \in Ids : pools'.dedicated[i] = IF i = k.id THEN s ELSE pools.dedicated[i]
    BY <1>1, <2>2 DEF PoolTypes
  <2>4. DistinctInv'
    BY <1>1, <1>2, <1>5, <1>6, <2>2, <2>3 DEF DistinctInv
  <2>5. ASSUME NEW i \in Ids, pools'.dedicated[i] # None
        PROVE  /\ i \in Roots => /\ client'[pools'.dedicated[i]].roots = {i}
                                 /\ i \notin pools'.folders[Project]
               /\ i \in Minted => /\ pools'.worktrees[i] # None
                                  /\ client'[pools'.dedicated[i]].roots = {pools'.worktrees[i].root}
    <3>1. CASE i = k.id
      BY <1>2, <1>3, <1>4, <1>6, <1>7, <2>2, <2>3, <3>1
    <3>2. CASE i # k.id
      BY <1>1, <1>2, <1>4, <2>2, <2>3, <2>5, <3>2 DEF FolderInv
    <3> QED
      BY <3>1, <3>2
  <2>6. \A p \in Projects :
          IF pools'.shared[p] = None THEN pools'.folders[p] = {}
          ELSE pools'.folders[p] # {} /\ client'[pools'.shared[p]].roots = pools'.folders[p]
    BY <1>1, <1>2, <2>2 DEF FolderInv
  <2>7. FolderInv'
    BY <2>5, <2>6 DEF FolderInv
  <2> QED
    BY <1>5, <2>2, <2>4, <2>7 DEF LspInv, PoolInv
<1>10. CASE ~Full(k.project)
  <2> DEFINE half == [pools EXCEPT !.shared[k.project] = s]
             F == pools.folders[k.project] \cup {k.root}
  <2>1. pools' = [half EXCEPT !.folders[k.project] = F]
    BY <1>1, <1>10 DEF SpawnReady, PoolTypes
  <2>2. pools.shared[k.project] = None /\ pools.folders[k.project] = {}
    BY <1>1, <1>3, <1>6, <1>10 DEF FolderInv
  <2>3. F = {k.root} /\ F \in SUBSET Roots
    BY <1>3, <2>2
  <2>4. /\ half \in PoolTypes /\ half.folders = pools.folders /\ half.dedicated = pools.dedicated
        /\ half.shared = [pools.shared EXCEPT ![k.project] = s]
    BY <1>1, <1>3, <1>5 DEF PoolTypes
  <2> HIDE DEF half, F
  <2>5. /\ pools' \in PoolTypes /\ pools'.dedicated = pools.dedicated
        /\ pools'.shared = [pools.shared EXCEPT ![k.project] = s]
        /\ pools'.folders = [pools.folders EXCEPT ![k.project] = F]
    BY <1>3, <2>1, <2>3, <2>4 DEF PoolTypes
  <2>6. \A p \in Projects : /\ pools'.shared[p] = IF p = k.project THEN s ELSE pools.shared[p]
                            /\ pools'.folders[p] = IF p = k.project THEN F ELSE pools.folders[p]
    BY <1>1, <2>5 DEF PoolTypes
  <2>7. DistinctInv'
    BY <1>1, <1>2, <1>5, <1>6, <2>5, <2>6 DEF DistinctInv
  <2>8. ASSUME NEW i \in Ids, pools.dedicated[i] # None
        PROVE  i \in Roots => i \notin pools'.folders[Project]
    BY <1>1, <1>3, <1>6, <1>8, <2>3, <2>6, <2>8 DEF FolderInv
  <2>9. \A p \in Projects :
          IF pools'.shared[p] = None THEN pools'.folders[p] = {}
          ELSE pools'.folders[p] # {} /\ client'[pools'.shared[p]].roots = pools'.folders[p]
    <3> TAKE p \in Projects
    <3>1. CASE p = k.project
      BY <1>2, <1>5, <1>6, <1>8, <2>3, <2>6, <3>1
    <3>2. CASE p # k.project
      BY <1>1, <1>2, <2>6, <3>2 DEF FolderInv
    <3> QED
      BY <3>1, <3>2
  <2>10. FolderInv'
    BY <1>1, <1>2, <1>4, <2>5, <2>8, <2>9 DEF FolderInv
  <2> QED
    BY <1>5, <2>5, <2>7, <2>10 DEF LspInv, PoolInv
<1> QED
  BY <1>9, <1>10

\* A step of the pools that moves no call keeps what the calls and the names know.
LEMMA NamesStand ==
  ASSUME LspInv, Free, call' = call, lock' = lock, pools' \in PoolTypes,
         \A i \in Ids : \/ pools'.worktrees[i] = pools.worktrees[i]
                        \/ i \notin Minted /\ pools'.worktrees[i] = None,
         \A r \in Roots : pools'.byPath[r] \in {pools.byPath[r], None}
  PROVE  NamesInv' /\ LockInv'
<1>1. NamesInv /\ LockInv /\ None \notin Roots \cup Minted \cup Calls /\ Minted \subseteq Ids
  BY ClientAssumption, PoolAssumption
  DEF LspInv, PoolInv, ClientAssumption, PoolAssumption, Ids
<1>2. \A i \in Minted : pools'.worktrees[i] = pools.worktrees[i]
  BY <1>1
<1>3. \A c \in Calls : Known(call'[c], pools'.worktrees)
  BY <1>1, <1>2 DEF NamesInv, Known
<1>4. \A i \in Ids : pools'.worktrees[i] # None => pools'.worktrees[i] = pools.worktrees[i]
  OBVIOUS
<1>5. ASSUME NEW r \in Roots
      PROVE  /\ pools'.byPath[r] \in Roots => pools'.byPath[r] = r
             /\ pools'.byPath[r] \in Minted => /\ pools'.worktrees[pools'.byPath[r]] # None
                                               /\ pools'.worktrees[pools'.byPath[r]].root = r
  <2>1. pools'.byPath[r] = pools.byPath[r] \/ pools'.byPath[r] = None
    OBVIOUS
  <2> QED
    BY <1>1, <1>2, <2>1 DEF NamesInv
<1>6. NamesInv'
  BY <1>1, <1>2, <1>3, <1>4, <1>5 DEF NamesInv
<1>7. LockInv'
  BY <1>1 DEF LockInv, Free
<1> QED
  BY <1>6, <1>7

\* A worktree ends: its own server is told to stop, the shared one loses its folder, and
\* is told to stop when it was the last.
LEMMA CloseStep ==
  ASSUME LspInv, NEW w \in Roots, Close(w)
  PROVE  LspInv'
<1> DEFINE rec == pools.worktrees[w]
           shared == pools.shared[Project]
           ded == pools.dedicated[w]
           attached == w \in pools.folders[Project]
           rest == pools.folders[Project] \ {w}
           last == attached /\ rest = {}
           over == {ded} \cup (IF last THEN {shared} ELSE {})
           detached == IF attached /\ rest # {} THEN {shared} ELSE {}
           kept == IF last THEN None ELSE shared
<1>1. /\ call \in [Calls -> CallRecs] /\ client \in [Servers -> Clients] /\ left \in LoadTypes
      /\ ClientInv /\ pools \in PoolTypes /\ NamesInv /\ DistinctInv /\ FolderInv
  BY DEF LspInv, ClientInv, TypeInv, PoolInv
<1>2. /\ None \notin Servers /\ Project \in Projects /\ w \in Ids /\ w \notin Minted
      /\ Minted \subseteq Ids
  BY ClientAssumption, PoolAssumption DEF ClientAssumption, PoolAssumption, Projects, Ids
<1>3. rec # None /\ Free /\ call' = call /\ lock' = lock /\ left' \in LoadTypes
  BY <1>1, SpendTyped DEF Close
<1>4. rec.root = w /\ rec.project = Project
  BY <1>1, <1>2, <1>3 DEF NamesInv
<1>5. /\ pools' = [pools EXCEPT !.worktrees[w] = None, !.byPath[w] = None, !.dedicated[w] = None,
                                !.folders[Project] = rest,
                                !.shared[Project] = IF last THEN None ELSE @]
      /\ client' = [s \in Servers |-> IF s \in over THEN Told(client[s])
                                      ELSE IF s \in detached
                                           THEN [Touched(client[s]) EXCEPT !.roots = @ \ {w}]
                                           ELSE client[s]]
  BY <1>4 DEF Close
<1>6. rest \in SUBSET Roots /\ shared \in Servers \cup {None} /\ ded \in Servers \cup {None}
  BY <1>1, <1>2 DEF PoolTypes
<1>7. kept \in Servers \cup {None}
  BY <1>6
<1>8. /\ pools' \in PoolTypes
      /\ pools'.worktrees = [pools.worktrees EXCEPT ![w] = None]
      /\ pools'.byPath = [pools.byPath EXCEPT ![w] = None]
      /\ pools'.dedicated = [pools.dedicated EXCEPT ![w] = None]
      /\ pools'.folders = [pools.folders EXCEPT ![Project] = rest]
      /\ pools'.shared = [pools.shared EXCEPT ![Project] = kept]
  <2> DEFINE a == [pools EXCEPT !.worktrees[w] = None]
             b == [a EXCEPT !.byPath[w] = None]
             d == [b EXCEPT !.dedicated[w] = None]
             e == [d EXCEPT !.folders[Project] = rest]
             f == [e EXCEPT !.shared[Project] = kept]
  <2>1. /\ a \in PoolTypes /\ a.worktrees = [pools.worktrees EXCEPT ![w] = None]
        /\ a.byPath = pools.byPath /\ a.dedicated = pools.dedicated
        /\ a.folders = pools.folders /\ a.shared = pools.shared
    BY <1>1, <1>2 DEF PoolTypes
  <2>2. pools' = f
    <3>1. shared = e.shared[Project]
      BY <1>1, <1>2 DEF PoolTypes
    <3> QED
      BY <1>1, <1>2, <1>5, <3>1 DEF PoolTypes
  <2> HIDE DEF a
  <2>3. /\ b \in PoolTypes /\ b.byPath = [a.byPath EXCEPT ![w] = None]
        /\ b.worktrees = a.worktrees /\ b.dedicated = a.dedicated
        /\ b.folders = a.folders /\ b.shared = a.shared
    BY <1>2, <2>1 DEF PoolTypes
  <2> HIDE DEF b
  <2>4. /\ d \in PoolTypes /\ d.dedicated = [b.dedicated EXCEPT ![w] = None]
        /\ d.worktrees = b.worktrees /\ d.byPath = b.byPath
        /\ d.folders = b.folders /\ d.shared = b.shared
    BY <1>2, <2>3 DEF PoolTypes
  <2> HIDE DEF d, rest, kept
  <2>5. /\ e \in PoolTypes /\ e.folders = [d.folders EXCEPT ![Project] = rest]
        /\ e.worktrees = d.worktrees /\ e.byPath = d.byPath
        /\ e.dedicated = d.dedicated /\ e.shared = d.shared
    BY <1>2, <1>6, <2>4 DEF PoolTypes
  <2> HIDE DEF e
  <2>6. /\ f \in PoolTypes /\ f.shared = [e.shared EXCEPT ![Project] = kept]
        /\ f.worktrees = e.worktrees /\ f.byPath = e.byPath
        /\ f.dedicated = e.dedicated /\ f.folders = e.folders
    BY <1>2, <1>7, <2>5 DEF PoolTypes
  <2> HIDE DEF f
  <2> QED
    BY <2>1, <2>2, <2>3, <2>4, <2>5, <2>6
<1>9. /\ \A i \in Ids : /\ pools'.worktrees[i] = IF i = w THEN None ELSE pools.worktrees[i]
                        /\ pools'.dedicated[i] = IF i = w THEN None ELSE pools.dedicated[i]
      /\ \A r \in Roots : pools'.byPath[r] = IF r = w THEN None ELSE pools.byPath[r]
      /\ \A p \in Projects : /\ pools'.folders[p] = IF p = Project THEN rest ELSE pools.folders[p]
                             /\ pools'.shared[p] = IF p = Project THEN kept ELSE pools.shared[p]
  BY <1>1, <1>8 DEF PoolTypes
<1>10. NamesInv' /\ LockInv'
  BY <1>2, <1>3, <1>8, <1>9, NamesStand
<1>11. ASSUME NEW s \in Servers
       PROVE  /\ client'[s] \in Clients /\ Later(client[s], client'[s])
              /\ client'[s].proc = client[s].proc
              /\ client'[s].roots = IF s \in detached /\ s \notin over THEN client[s].roots \ {w}
                                    ELSE client[s].roots
  <2> DEFINE x == client[s]
             R == x.roots \ {w}
  <2>1. x \in Clients /\ R \in SUBSET Roots
    BY <1>1 DEF Clients
  <2>2. /\ Told(x) \in Clients /\ Later(x, Told(x)) /\ Told(x).roots = x.roots
        /\ Told(x).proc = x.proc
    <3> HIDE DEF x
    <3>1. Told(x) \in Clients /\ Later(x, Told(x))
      BY <2>1, PoolChanges
    <3>2. Told(x).roots = x.roots /\ Told(x).proc = x.proc
      BY <2>1 DEF Told, Clients
    <3> QED
      BY <3>1, <3>2
  <2>3. LET y == [Touched(x) EXCEPT !.roots = R]
        IN y \in Clients /\ Later(x, y) /\ y.roots = R /\ y.proc = x.proc
    <3> HIDE DEF R
    <3> QED
      BY <2>1, PoolChanges
  <2>4. [Touched(x) EXCEPT !.roots = @ \ {w}] = [Touched(x) EXCEPT !.roots = R]
    BY <2>1 DEF Touched, Clients
  <2>5. Later(x, x)
    BY <2>1, LaterRefl
  <2>6. client'[s] = IF s \in over THEN Told(x)
                     ELSE IF s \in detached THEN [Touched(x) EXCEPT !.roots = R] ELSE x
    BY <1>5, <2>4
  <2> HIDE DEF x, over, detached
  <2>7. CASE s \in over
    BY <2>2, <2>6, <2>7 DEF x
  <2>8. CASE s \notin over /\ s \in detached
    BY <2>3, <2>6, <2>8 DEF x
  <2>9. CASE s \notin over /\ s \notin detached
    BY <2>1, <2>5, <2>6, <2>9 DEF x
  <2> QED
    BY <2>7, <2>8, <2>9
<1>12. client' \in [Servers -> Clients]
  BY <1>5, <1>11
<1>13. ClientInv'
  BY <1>1, <1>3, <1>11, <1>12, CallsStand
<1>14. DistinctInv'
  <2>1. /\ \A p \in Projects : pools'.shared[p] \in {pools.shared[p], None}
        /\ \A i \in Ids : pools'.dedicated[i] \in {pools.dedicated[i], None}
    BY <1>9
  <2>2. /\ \A p \in Projects : pools.shared[p] \in Servers \cup {None}
        /\ \A i \in Ids : pools.dedicated[i] \in Servers \cup {None}
    BY <1>1 DEF PoolTypes
  <2>3. \A s \in Servers : client'[s].proc = client[s].proc
    BY <1>11
  <2> QED
    BY <1>1, <1>2, <2>1, <2>2, <2>3 DEF DistinctInv
<1>15. attached => shared # None
  BY <1>1, <1>2 DEF FolderInv
<1>16. \A p \in Projects :
          IF pools'.shared[p] = None THEN pools'.folders[p] = {}
          ELSE pools'.folders[p] # {} /\ client'[pools'.shared[p]].roots = pools'.folders[p]
  <2> TAKE p \in Projects
  <2>1. CASE p = Project
    <3>1. pools'.shared[p] = kept /\ pools'.folders[p] = rest
      BY <1>9, <2>1
    <3>2. CASE last
      BY <3>1, <3>2
    <3>3. CASE ~last /\ attached
      <4>1. shared \in Servers /\ shared \in detached /\ shared \notin over /\ rest # {}
        BY <1>1, <1>2, <1>6, <1>15, <3>3 DEF DistinctInv
      <4>2. client[shared].roots = pools.folders[Project]
        BY <1>1, <1>2, <1>15, <3>3 DEF FolderInv
      <4>3. client'[shared].roots = rest
        BY <1>11, <4>1, <4>2
      <4> QED
        BY <1>2, <3>1, <3>3, <4>1, <4>3
    <3>4. CASE ~attached
      <4>1. rest = pools.folders[Project] /\ detached = {} /\ kept = shared
        BY <3>4
      <4>2. shared \in Servers => client'[shared].roots = client[shared].roots
        BY <1>11, <4>1
      <4> QED
        BY <1>1, <1>2, <1>6, <2>1, <3>1, <4>1, <4>2 DEF FolderInv
    <3> QED
      BY <3>2, <3>3, <3>4
  <2>2. CASE p # Project
    <3>1. pools'.shared[p] = pools.shared[p] /\ pools'.folders[p] = pools.folders[p]
      BY <1>9, <2>2
    <3>2. pools.shared[p] # None => pools.shared[p] \in Servers /\ pools.shared[p] # shared
      BY <1>1, <1>2, <2>2 DEF DistinctInv, PoolTypes
    <3>3. pools.shared[p] # None => client'[pools.shared[p]].roots = client[pools.shared[p]].roots
      BY <1>11, <3>2
    <3> QED
      BY <1>1, <3>1, <3>3 DEF FolderInv
  <2> QED
    BY <2>1, <2>2
<1>17. ASSUME NEW i \in Ids, pools'.dedicated[i] # None
       PROVE  /\ i \in Roots => /\ client'[pools'.dedicated[i]].roots = {i}
                                /\ i \notin pools'.folders[Project]
              /\ i \in Minted => /\ pools'.worktrees[i] # None
                                 /\ client'[pools'.dedicated[i]].roots = {pools'.worktrees[i].root}
  <2>1. /\ i # w /\ pools'.dedicated[i] = pools.dedicated[i]
        /\ pools'.worktrees[i] = pools.worktrees[i]
    BY <1>9, <1>17
  <2>2. pools.dedicated[i] \in Servers /\ pools.dedicated[i] # shared
    BY <1>1, <1>2, <1>17, <2>1 DEF DistinctInv, PoolTypes
  <2>3. client'[pools.dedicated[i]].roots = client[pools.dedicated[i]].roots
    BY <1>11, <2>2
  <2>4. pools'.folders[Project] \subseteq pools.folders[Project]
    BY <1>2, <1>9
  <2> QED
    BY <1>1, <1>17, <2>1, <2>3, <2>4 DEF FolderInv
<1>18. FolderInv'
  BY <1>16, <1>17 DEF FolderInv
<1> QED
  BY <1>8, <1>10, <1>13, <1>14, <1>18 DEF LspInv, PoolInv

\* Time passes for a server of the pools.
LEMMA IdleStep ==
  ASSUME LspInv, NEW s \in Servers, IdlePasses(s)
  PROVE  LspInv'
<1> DEFINE y == [client[s] EXCEPT !.idle = TRUE]
<1>1. /\ call \in [Calls -> CallRecs] /\ client \in [Servers -> Clients] /\ left \in LoadTypes
      /\ ClientInv
  BY DEF LspInv, ClientInv, TypeInv
<1>2. /\ client' = [client EXCEPT ![s] = y] /\ call' = call /\ QuietPool /\ left' \in LoadTypes
  BY <1>1, SpendTyped DEF IdlePasses, Put, QuietPool
<1>3. y \in Clients /\ Later(client[s], y) /\ Same(client[s], y)
  BY <1>1, PoolChanges
<1> HIDE DEF y
<1>4. client' \in [Servers -> Clients]
      /\ \A t \in Servers : Later(client[t], client'[t]) /\ Same(client[t], client'[t])
  BY <1>1, <1>2, <1>3, LaterRefl
<1>5. ClientInv'
  BY <1>1, <1>2, <1>4, CallsStand DEF Same
<1>6. Onward
  BY <1>1, <1>2, <1>4, <1>5 DEF Onward, Routed, ClientInv, TypeInv
<1> QED
  BY <1>2, <1>6, OnwardKeepsPools

\* The reaper takes the idle servers out of the pools, with their folders.
LEMMA ReapStep ==
  ASSUME LspInv, ReapIdle
  PROVE  LspInv'
<1> DEFINE victims == {s \in Pooled \ {None} : client[s].idle}
<1>1. /\ call \in [Calls -> CallRecs] /\ client \in [Servers -> Clients] /\ left \in LoadTypes
      /\ ClientInv /\ pools \in PoolTypes /\ NamesInv /\ DistinctInv /\ FolderInv
  BY DEF LspInv, ClientInv, TypeInv, PoolInv
<1>2. /\ Free /\ call' = call /\ lock' = lock /\ left' = left
      /\ pools' = [pools EXCEPT
           !.shared = [p \in Projects |-> IF pools.shared[p] \in victims THEN None ELSE pools.shared[p]],
           !.folders = [p \in Projects |-> IF pools.shared[p] \in victims THEN {} ELSE pools.folders[p]],
           !.dedicated = [i \in Ids |-> IF pools.dedicated[i] \in victims THEN None ELSE pools.dedicated[i]]]
      /\ client' = [s \in Servers |-> IF s \in victims THEN Told(client[s]) ELSE client[s]]
  BY DEF ReapIdle
<1>3. None \notin victims
  OBVIOUS
<1> HIDE DEF victims
<1>4. /\ \A p \in Projects : pools.shared[p] \in Servers \cup {None} /\ pools.folders[p] \in SUBSET Roots
      /\ \A i \in Ids : pools.dedicated[i] \in Servers \cup {None}
  BY <1>1 DEF PoolTypes
<1>5. /\ pools' \in PoolTypes
      /\ pools'.worktrees = pools.worktrees /\ pools'.byPath = pools.byPath
      /\ \A p \in Projects :
           /\ pools'.shared[p] = IF pools.shared[p] \in victims THEN None ELSE pools.shared[p]
           /\ pools'.folders[p] = IF pools.shared[p] \in victims THEN {} ELSE pools.folders[p]
      /\ \A i \in Ids :
           pools'.dedicated[i] = IF pools.dedicated[i] \in victims THEN None ELSE pools.dedicated[i]
  <2> DEFINE sh == [p \in Projects |-> IF pools.shared[p] \in victims THEN None ELSE pools.shared[p]]
             fo == [p \in Projects |-> IF pools.shared[p] \in victims THEN {} ELSE pools.folders[p]]
             de == [i \in Ids |-> IF pools.dedicated[i] \in victims THEN None ELSE pools.dedicated[i]]
  <2>1. /\ sh \in [Projects -> Servers \cup {None}] /\ fo \in [Projects -> SUBSET Roots]
        /\ de \in [Ids -> Servers \cup {None}]
    BY <1>4
  <2>2. pools' = [pools EXCEPT !.shared = sh, !.folders = fo, !.dedicated = de]
    BY <1>2
  <2>3. /\ \A p \in Projects :
           /\ sh[p] = IF pools.shared[p] \in victims THEN None ELSE pools.shared[p]
           /\ fo[p] = IF pools.shared[p] \in victims THEN {} ELSE pools.folders[p]
        /\ \A i \in Ids : de[i] = IF pools.dedicated[i] \in victims THEN None ELSE pools.dedicated[i]
    OBVIOUS
  <2> HIDE DEF sh, fo, de
  <2>4. /\ pools' \in PoolTypes
        /\ pools'.worktrees = pools.worktrees /\ pools'.byPath = pools.byPath
        /\ pools'.shared = sh /\ pools'.folders = fo /\ pools'.dedicated = de
    BY <1>1, <2>1, <2>2 DEF PoolTypes
  <2> QED
    BY <2>3, <2>4
<1>6. NamesInv' /\ LockInv'
  BY <1>2, <1>5, NamesStand
<1>7. ASSUME NEW s \in Servers
      PROVE  client'[s] \in Clients /\ Later(client[s], client'[s]) /\ Same(client[s], client'[s])
  BY <1>1, <1>2, LaterRefl, PoolChanges
<1>8. client' \in [Servers -> Clients]
  BY <1>2, <1>7
<1>9. ClientInv'
  BY <1>1, <1>2, <1>7, <1>8, CallsStand DEF Same
<1>10. \A s \in Servers : client'[s].roots = client[s].roots
                          /\ (client'[s].proc = "off" <=> client[s].proc = "off")
  BY <1>7 DEF Same
<1>11. DistinctInv'
  <2>1. /\ \A p \in Projects : pools'.shared[p] \in {pools.shared[p], None}
        /\ \A i \in Ids : pools'.dedicated[i] \in {pools.dedicated[i], None}
    BY <1>5
  <2> QED
    BY <1>1, <1>4, <1>10, <2>1 DEF DistinctInv
<1>12. FolderInv'
  <2>1. \A p \in Projects :
          IF pools'.shared[p] = None THEN pools'.folders[p] = {}
          ELSE pools'.folders[p] # {} /\ client'[pools'.shared[p]].roots = pools'.folders[p]
    BY <1>1, <1>3, <1>4, <1>5, <1>10 DEF FolderInv
  <2>2. ASSUME NEW i \in Ids, pools'.dedicated[i] # None
        PROVE  /\ i \in Roots => /\ client'[pools'.dedicated[i]].roots = {i}
                                 /\ i \notin pools'.folders[Project]
               /\ i \in Minted => /\ pools'.worktrees[i] # None
                                  /\ client'[pools'.dedicated[i]].roots = {pools'.worktrees[i].root}
    <3>1. pools'.dedicated[i] = pools.dedicated[i]
      BY <1>5, <2>2
    <3>2. Project \in Projects
      BY DEF Projects
    <3>3. pools'.folders[Project] \subseteq pools.folders[Project]
      BY <1>5, <3>2
    <3> QED
      BY <1>1, <1>4, <1>5, <1>10, <2>2, <3>1, <3>3 DEF FolderInv
  <2> QED
    BY <2>1, <2>2 DEF FolderInv
<1> QED
  BY <1>5, <1>6, <1>9, <1>11, <1>12 DEF LspInv, PoolInv

------------------------------------------------------------------------------
(* The whole. *)

\* At the start no server was spawned and nobody calls.
LEMMA InitLspInv == Init => LspInv
<1> SUFFICES ASSUME Init
             PROVE  LspInv
  OBVIOUS
<1>1. None \notin Servers \cup Calls \cup Roots \cup Minted
  BY ClientAssumption, PoolAssumption DEF ClientAssumption, PoolAssumption
<1>2. Closed \in Docs
  BY DEF Closed, Docs
<1>3. [r \in Roots |-> Closed] \in [Roots -> Docs]
  BY <1>2
<1>4. NewClient \in Clients
  BY <1>3 DEF NewClient, Clients
<1>5. /\ NewCall \in CallRecs /\ NewCall.pc = "new" /\ ~NewCall.checked
      /\ NewCall.id = None /\ NewCall.srv = None
  BY <1>2 DEF NewCall, CallRecs, Pcs, Unrouted
<1>6. /\ client = [s \in Servers |-> NewClient] /\ call = [c \in Calls |-> NewCall]
      /\ left \in LoadTypes /\ lock = None
  BY LoadAssumption DEF Init, ClientInit, LoadAssumption
<1>7. /\ pools = [worktrees |-> [i \in Ids |-> None], byPath |-> [r \in Roots |-> None],
                  shared |-> [p \in Projects |-> None], folders |-> [p \in Projects |-> {}],
                  dedicated |-> [i \in Ids |-> None]]
  BY DEF Init
<1>8. ClientInv
  <2>1. Attached(NewCall)
    BY <1>5 DEF Attached, Going
  <2> QED
    BY <1>1, <1>4, <1>5, <1>6, <2>1 DEF ClientInv, TypeInv, WaitInv
<1>9. /\ pools \in PoolTypes
      /\ \A i \in Ids : pools.worktrees[i] = None /\ pools.dedicated[i] = None
      /\ \A r \in Roots : pools.byPath[r] = None
      /\ \A p \in Projects : pools.shared[p] = None /\ pools.folders[p] = {}
  BY <1>7 DEF PoolTypes
<1>10. NamesInv
  <2>1. Known(NewCall, pools.worktrees)
    BY <1>1, <1>5 DEF Known
  <2>2. Minted \subseteq Ids
    BY DEF Ids
  <2> QED
    BY <1>1, <1>6, <1>9, <2>1, <2>2 DEF NamesInv
<1>11. DistinctInv /\ FolderInv
  BY <1>9 DEF DistinctInv, FolderInv
<1>12. LockInv
  BY <1>5, <1>6 DEF LockInv
<1> QED
  BY <1>8, <1>9, <1>10, <1>11, <1>12 DEF LspInv, PoolInv

\* Every step keeps both parts: the clients move on, the pools record what was told.
LEMMA NextLspInv == LspInv /\ [Next]_vars => LspInv'
<1> SUFFICES ASSUME LspInv, [Next]_vars
             PROVE  LspInv'
  OBVIOUS
<1>1. ASSUME NEW c \in Calls, NEW root \in left.roots,
             \/ \E kind \in EditorKinds, text \in left.texts : AskEditor(c, kind, root, text)
             \/ \E kind \in BridgeKinds : AskBridge(c, kind, root)
             \/ WarmPrimary(c, root)
      PROVE  LspInv'
  <2>1. left.texts \subseteq Texts /\ Disk \in Texts
    BY ClientAssumption DEF LspInv, ClientInv, TypeInv, LoadTypes, ClientAssumption
  <2>2. ASSUME NEW kind \in EditorKinds, NEW text \in left.texts, AskEditor(c, kind, root, text)
        PROVE  LspInv'
    <3>1. kind \in CallKinds /\ text \in Texts \cup {None}
      BY <2>1 DEF CallKinds
    <3>2. Begin(c, kind, root, text, "running") \/ Begin(c, kind, root, text, "route")
      BY <2>2 DEF AskEditor
    <3> QED
      BY <3>1, <3>2, BeginStep
  <2>3. ASSUME NEW kind \in BridgeKinds, AskBridge(c, kind, root)
        PROVE  LspInv'
    <3>1. kind \in CallKinds /\ Disk \in Texts \cup {None}
      BY <2>1 DEF CallKinds
    <3> QED
      BY <2>3, <3>1, BeginStep DEF AskBridge
  <2>4. ASSUME WarmPrimary(c, root)
        PROVE  LspInv'
    <3>1. "warm" \in CallKinds /\ None \in Texts \cup {None}
      BY DEF CallKinds
    <3> QED
      BY <2>4, <3>1, BeginStep DEF WarmPrimary
  <2> QED
    BY <1>1, <2>2, <2>3, <2>4
<1>2. ASSUME NEW c \in Calls, PoolStep(c)
      PROVE  LspInv'
  BY <1>2, RouteSteps, ReuseStep, SpawnStep, SpawnReadyStep, SpawnFailsStep DEF PoolStep
<1>3. ASSUME NEW c \in Calls, ClientStep(c), QuietPool
      PROVE  LspInv'
  BY <1>3, ClientsGoOn, OnwardKeepsPools DEF LspInv
<1>4. ASSUME NEW s \in Servers, ServerStep(s), QuietPool
      PROVE  LspInv'
  BY <1>4, ClientsGoOn, OnwardKeepsPools DEF LspInv
<1>5. ASSUME UNCHANGED vars
      PROVE  LspInv'
  <2>1. /\ client' = client /\ call' = call /\ left' = left /\ QuietPool
    BY <1>5 DEF vars, QuietPool
  <2>2. ClientInv /\ TypeInv /\ WaitInv
    BY DEF LspInv, ClientInv
  <2>3. Onward
    BY <2>1, <2>2, LaterRefl DEF Onward, Routed, TypeInv, WaitInv, Srv
  <2> QED
    BY <2>1, <2>3, OnwardKeepsPools
<1> QED
  BY <1>1, <1>2, <1>3, <1>4, <1>5, CloseStep, IdleStep, ReapStep DEF Next

\* The invariant holds at all times.
LEMMA LspInvHolds == Spec => []LspInv
BY InitLspInv, NextLspInv, PTL DEF Spec

\* The folders the pools record for a server are those it was told of, a shared server
\* without folders is not kept, and no worktree is on two servers of its project, through
\* joins, the folder cap, closes, reaps and failed spawns (ensure, close, reap_idle).
THEOREM PoolsMatchServers == Spec => []FoldersMatchRoots
<1>1. LspInv => FoldersMatchRoots
  BY FoldersFollow DEF LspInv
<1> QED
  BY <1>1, LspInvHolds, PTL

\* A wait that reports a finished check saw one end after the call began, or the reader
\* of its client end (run_flycheck, wait_for_flycheck).
THEOREM WaitsAreHonest == Spec => []CheckedMeansEnded
<1>1. LspInv => CheckedMeansEnded
  BY DEF LspInv, ClientInv, WaitInv, Attached, Waits, CheckedMeansEnded, Srv
<1> QED
  BY <1>1, LspInvHolds, PTL
==============================================================================
