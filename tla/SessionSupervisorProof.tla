----------------------- MODULE SessionSupervisorProof -----------------------
(***************************************************************************)
(* Proofs about the session supervisor, for any handlers, commands, turns,  *)
(* processes, lines of output and crashes.                                  *)
(*                                                                         *)
(* Neither TypeOK nor DecisionsAreCurrent is inductive.  A pump may append  *)
(* what its cache decided long ago, so the invariant has to relate cache and*)
(* log (GoodCache); what it decided on is the head of its process's channel,*)
(* so no step of the process may change that head (Evolves); and a spawn    *)
(* takes the next generation, so those under way are counted (SpawnBound).  *)
(* The argument then is that the log only grows, by batches that are not    *)
(* empty: every append makes all other loaded versions stale at once.       *)
(*                                                                         *)
(* The first part is about what the supervisor is made of: the Session      *)
(* aggregate (a command decides at most one event, and folding an event     *)
(* into a session gives a session) and the provider process (its steps keep *)
(* the record well typed, none but the pump's own removes an event from the *)
(* channel, and a child ends with SessionEnded).                            *)
(***************************************************************************)
EXTENDS SessionSupervisor, SessionLaws, ClaudeProvider, SequenceTheorems, FiniteSetTheorems, TLAPS

------------------------------------------------------------------------------
(* The Session aggregate and the provider process. *)

\* A set of naturals that is not empty has a least element: the intervals 0..n are
\* finite, and inclusion is well founded on finite sets.
LEMMA LeastNatural ==
  ASSUME NEW I \in SUBSET Nat, I # {}
  PROVE  \E n \in I : \A m \in I : n <= m
<1> DEFINE R == StrictSubsetOrdering(Nat)
           T == {0..n : n \in I}
<1>1. T \subseteq FiniteSubsetsOf(Nat) /\ T # {}
  <2>1. \A n \in I : 0..n \in SUBSET Nat /\ IsFiniteSet(0..n)
    BY FS_Interval
  <2>2. \A x \in T : x \in FiniteSubsetsOf(Nat)
    BY <2>1 DEF FiniteSubsetsOf
  <2>3. T # {}
    OBVIOUS
  <2> QED
    BY <2>2, <2>3
<1>2. IsWellFoundedOn(R, FiniteSubsetsOf(Nat))
  BY FS_StrictSubsetOrderingWellFounded
<1>3. PICK x \in T : \A y \in T : <<y, x>> \notin R
  <2> HIDE DEF R, T
  <2> QED
    BY <1>1, <1>2, WFMin
<1>4. PICK n \in I : x = 0..n
  OBVIOUS
<1>5. ASSUME NEW m \in I
      PROVE  n <= m
  <2>1. SUFFICES ASSUME m < n
                 PROVE  FALSE
    OBVIOUS
  <2>2. 0..m \in T /\ 0..m \subseteq 0..n /\ n \in 0..n /\ n \notin 0..m
    BY <2>1
  <2>3. <<0..m, 0..n>> \in R
    BY <2>2 DEF StrictSubsetOrdering
  <2> QED
    BY <1>3, <1>4, <2>2, <2>3
<1> QED
  BY <1>5

\* The turn that is looked up is one of the session's.
LEMMA TurnAtIsIndex ==
  ASSUME NEW s \in SessionData, NEW t, HasTurn(s, t)
  PROVE  TurnAt(s, t) \in 1..Len(s.turns)
<1> DEFINE I == {i \in 1..Len(s.turns) : s.turns[i].id = t}
<1>1. TurnAt(s, t) = IF I # {} THEN Min(I) ELSE 0
  BY DEF TurnAt, SelectInSeq
<1>2. I # {}
  BY <1>1 DEF HasTurn
<1>3. I \in SUBSET Nat
  OBVIOUS
<1> HIDE DEF I
<1>4. PICK n \in I : \A m \in I : n <= m
  BY <1>2, <1>3, LeastNatural
<1>5. Min(I) \in I
  BY <1>4 DEF Min
<1> QED
  BY <1>1, <1>2, <1>5 DEF I

\* merge_block gives a list of blocks.
LEMMA MergeTyped ==
  ASSUME NEW blocks \in Seq(Blocks), NEW b \in Blocks
  PROVE  MergeBlock(blocks, b) \in Seq(Blocks)
<1>1. CASE b.kind = "text" /\ blocks # <<>> /\ Last(blocks).kind = "text"
  <2> DEFINE n == Len(blocks)
             glued == [blocks[n] EXCEPT !.size = @ + b.size]
  <2>1. n \in 1..Len(blocks)
    BY <1>1, EmptySeq, LenProperties
  <2>2. blocks[n] \in Blocks
    BY <2>1, ElementOfSeq
  <2>3. ASSUME NEW last \in Blocks
        PROVE  [last EXCEPT !.size = @ + b.size] \in Blocks
    BY DEF Blocks
  <2>4. glued \in Blocks
    <3> HIDE DEF n
    <3> QED
      BY <2>2, <2>3
  <2>5. MergeBlock(blocks, b) = [blocks EXCEPT ![n] = glued]
    BY <1>1 DEF MergeBlock
  <2> HIDE DEF glued, n
  <2> QED
    BY <2>1, <2>4, <2>5, ExceptSeq
<1>2. CASE ~(b.kind = "text" /\ blocks # <<>> /\ Last(blocks).kind = "text")
  BY <1>2, AppendProperties DEF MergeBlock
<1> QED
  BY <1>1, <1>2

\* A session whose turn i is replaced by a turn is a session.
LEMMA ChangeTurn ==
  ASSUME NEW s \in SessionData, NEW i \in 1..Len(s.turns), NEW turn \in Turns
  PROVE  [s EXCEPT !.turns = [@ EXCEPT ![i] = turn]] \in SessionData
<1>1. s.turns \in Seq(Turns)
  BY DEF SessionData
<1>2. [s.turns EXCEPT ![i] = turn] \in Seq(Turns)
  BY <1>1, ExceptSeq
<1>3. ASSUME NEW turns \in Seq(Turns)
      PROVE  [s EXCEPT !.turns = turns] \in SessionData
  BY DEF SessionData
<1> QED
  BY <1>2, <1>3

\* Ending a turn (TurnCompleted, TurnFailed, TurnInterrupted) leaves a session.
LEMMA EndTurnTyped ==
  ASSUME NEW s \in SessionData, NEW t, NEW status \in TurnStates
  PROVE  EndTurn(s, t, status) \in SessionData
<1> SUFFICES ASSUME HasTurn(s, t)
             PROVE  [s EXCEPT !.turns[TurnAt(s, t)].status = status] \in SessionData
  BY DEF EndTurn
<1> DEFINE i == TurnAt(s, t)
<1>1. i \in 1..Len(s.turns)
  BY TurnAtIsIndex
<1> HIDE DEF i
<1>2. s.turns[i] \in Turns
  BY <1>1, ElementOfSeq DEF SessionData
<1>3. ASSUME NEW turn \in Turns
      PROVE  [turn EXCEPT !.status = status] \in Turns
  BY DEF Turns
<1>4. [s EXCEPT !.turns = [@ EXCEPT ![i] = [s.turns[i] EXCEPT !.status = status]]]
          \in SessionData
  BY <1>1, <1>2, <1>3, ChangeTurn
<1> QED
  BY <1>4 DEF i

\* Appending a block to a turn leaves a session, whether it is glued or not.
LEMMA AppendBlockTyped ==
  ASSUME NEW s \in SessionData, NEW t, NEW b \in Blocks
  PROVE  AppendBlock(s, t, b) \in SessionData
<1> SUFFICES ASSUME HasTurn(s, t)
             PROVE  [s EXCEPT !.turns[TurnAt(s, t)].blocks = MergeBlock(@, b)]
                        \in SessionData
  BY DEF AppendBlock
<1> DEFINE i == TurnAt(s, t)
<1>1. i \in 1..Len(s.turns)
  BY TurnAtIsIndex
<1> HIDE DEF i
<1>2. s.turns[i] \in Turns
  BY <1>1, ElementOfSeq DEF SessionData
<1>3. ASSUME NEW turn \in Turns
      PROVE  [turn EXCEPT !.blocks = MergeBlock(@, b)] \in Turns
  BY MergeTyped DEF Turns
<1>4. [s EXCEPT !.turns = [@ EXCEPT ![i] = [s.turns[i] EXCEPT !.blocks = MergeBlock(@, b)]]]
          \in SessionData
  BY <1>1, <1>2, <1>3, ChangeTurn
<1> QED
  BY <1>4 DEF i

\* Starting a turn leaves a session.
LEMMA PushTurnTyped ==
  ASSUME NEW s \in SessionData, NEW t \in TurnIds
  PROVE  PushTurn(s, t) \in SessionData
<1> DEFINE turn == [id |-> t, status |-> "streaming", blocks |-> <<>>]
<1>1. turn \in Turns
  BY EmptySeq DEF Turns, TurnStates
<1>2. Append(s.turns, turn) \in Seq(Turns)
  <2> HIDE DEF turn
  <2> QED
    BY <1>1, AppendProperties DEF SessionData
<1>3. ASSUME NEW turns \in Seq(Turns)
      PROVE  [s EXCEPT !.turns = turns] \in SessionData
  BY DEF SessionData
<1> QED
  BY <1>2, <1>3 DEF PushTurn

\* Session::apply gives a session, of one that starts and of one that is not deleted.
LEMMA ApplyToSession ==
  ASSUME NEW s \in SessionStates, NEW e \in SessionEvents,
         e.type = "SessionStarted" \/ (s # Absent /\ e.type # "SessionDeleted")
  PROVE  Apply(s, e) \in SessionData
<1>1. CASE e.type = "SessionStarted"
  <2>1. e.kind \in Kinds /\ e.env \in EnvModes
    BY <1>1 DEF SessionEvents
  <2>2. Fresh(e.kind, e.env) \in SessionData
    BY <2>1, EmptySeq DEF Fresh, SessionData, Statuses
  <2> QED
    BY <1>1, <2>2 DEF Apply
<1>2. CASE e.type # "SessionStarted" /\ s # Absent /\ e.type # "SessionDeleted"
  <2>1. s \in SessionData
    BY <1>2 DEF SessionStates
  <2>2. CASE e.type = "SessionEnvModeChanged"
    <3>1. e.mode \in EnvModes
      BY <2>2 DEF SessionEvents
    <3>2. [s EXCEPT !.env = e.mode] \in SessionData
      BY <2>1, <3>1 DEF SessionData
    <3> QED
      BY <1>2, <2>2, <3>2 DEF Apply
  <2>3. CASE e.type \in {"SessionStopped", "SessionErrored", "SessionResumed"}
    <3>1. ASSUME NEW status \in Statuses
          PROVE  [s EXCEPT !.status = status] \in SessionData
      BY <2>1 DEF SessionData
    <3> QED
      BY <1>2, <2>3, <3>1 DEF Apply, Statuses
  <2>4. CASE e.type = "TurnStarted"
    <3>1. e.turn \in TurnIds
      BY <2>4 DEF SessionEvents
    <3> QED
      BY <1>2, <2>1, <2>4, <3>1, PushTurnTyped DEF Apply
  <2>5. CASE e.type = "TurnAssistantBlockAppended"
    <3>1. e.block \in Blocks
      BY <2>5 DEF SessionEvents
    <3> QED
      BY <1>2, <2>1, <2>5, <3>1, AppendBlockTyped DEF Apply
  <2>6. CASE e.type \in {"TurnCompleted", "TurnFailed", "TurnInterrupted"}
    <3>1. ASSUME NEW status \in TurnStates
          PROVE  EndTurn(s, e.turn, status) \in SessionData
      BY <2>1, EndTurnTyped
    <3> QED
      BY <1>2, <2>6, <3>1 DEF Apply, TurnStates
  <2>7. CASE e.type = "ProviderSessionAttached"
    <3>1. e.provider \in ProviderIds
      BY <2>7 DEF SessionEvents
    <3>2. [s EXCEPT !.provider = e.provider] \in SessionData
      BY <2>1, <3>1 DEF SessionData
    <3> QED
      BY <1>2, <2>7, <3>2 DEF Apply
  <2>8. CASE e.type = "SessionRenamed"
    <3>1. e.title \in Titles
      BY <2>8 DEF SessionEvents
    <3>2. [s EXCEPT !.title = e.title] \in SessionData
      BY <2>1, <3>1 DEF SessionData
    <3> QED
      BY <1>2, <2>8, <3>2 DEF Apply
  <2>9. CASE e.type = "SessionPinToggled"
    <3>1. e.pinned \in BOOLEAN
      BY <2>9 DEF SessionEvents
    <3>2. [s EXCEPT !.pinned = e.pinned] \in SessionData
      BY <2>1, <3>1 DEF SessionData
    <3> QED
      BY <1>2, <2>9, <3>2 DEF Apply
  <2> QED
    BY <1>2, <2>2, <2>3, <2>4, <2>5, <2>6, <2>7, <2>8, <2>9 DEF SessionEvents
<1> QED
  BY <1>1, <1>2

\* Session::apply takes a session, or none, to a session or none.
LEMMA ApplyTyped ==
  ASSUME NEW s \in SessionStates, NEW e \in SessionEvents
  PROVE  Apply(s, e) \in SessionStates
<1>1. CASE e.type = "SessionStarted" \/ (s # Absent /\ e.type # "SessionDeleted")
  BY <1>1, ApplyToSession DEF SessionStates
<1>2. CASE e.type # "SessionStarted" /\ (s = Absent \/ e.type = "SessionDeleted")
  BY <1>2 DEF Apply, SessionStates
<1> QED
  BY <1>1, <1>2

\* Folding a batch gives a session or none.
LEMMA ApplyBatchTyped ==
  ASSUME NEW s \in SessionStates, NEW batch \in Batches
  PROVE  ApplyBatch(s, batch) \in SessionStates
<1>1. batch \in Seq(SessionEvents) /\ Len(batch) \in 1..2
  BY DEF Batches
<1>2. batch[1] \in SessionEvents /\ (Len(batch) = 2 => batch[2] \in SessionEvents)
  BY <1>1, ElementOfSeq
<1> QED
  BY <1>1, <1>2, ApplyTyped DEF ApplyBatch

\* What Session::decide can be asked.
SessionCommands ==
  [type : {"Start"}, kind : Kinds, env : EnvModes]
  \cup [type : {"SetEnvMode"}, mode : EnvModes]
  \cup [type : {"Stop", "Resume", "Delete", "TogglePin"}]
  \cup [type : {"StartTurn", "CompleteTurn", "FailTurn", "InterruptTurn"}, turn : TurnIds]
  \cup [type : {"AppendAssistantBlock"}, turn : TurnIds, block : Blocks]
  \cup [type : {"AttachProviderSession"}, provider : ProviderIds]
  \cup [type : {"Rename"}, title : Titles \cup {Absent}]

\* What a decision comes down to: one event, or none.
Decisions == {Accept(<<e>>) : e \in SessionEvents}
Nothing(d) == d.events = <<>>

\* Session::decide answers with at most one event.
LEMMA DecideTyped ==
  ASSUME NEW s \in SessionStates, NEW c \in SessionCommands
  PROVE  Decide(s, c) \in Decisions \/ Nothing(Decide(s, c))
<1>1. \A e \in SessionEvents : Accept(<<e>>) \in Decisions
  BY DEF Decisions
<1>2. Nothing(Accept(<<>>)) /\ \A error : Nothing(Refuse(error))
  BY DEF Nothing, Accept, Refuse
<1>3. CASE c.type = "Start"
  <2>1. c.kind \in Kinds /\ c.env \in EnvModes
    BY <1>3 DEF SessionCommands
  <2>2. [type |-> "SessionStarted", kind |-> c.kind, env |-> c.env] \in SessionEvents
    BY <2>1 DEF SessionEvents
  <2> QED
    BY <1>1, <1>2, <1>3, <2>2 DEF Decide
<1>4. CASE c.type # "Start" /\ s = Absent
  BY <1>2, <1>4 DEF Decide
<1>5. CASE c.type # "Start" /\ s # Absent
  <2>1. s \in SessionData
    BY <1>5 DEF SessionStates
  <2>2. CASE c.type = "SetEnvMode"
    <3>1. [type |-> "SessionEnvModeChanged", mode |-> c.mode] \in SessionEvents
      BY <2>2 DEF SessionCommands, SessionEvents
    <3> QED
      BY <1>1, <1>2, <1>5, <2>2, <3>1 DEF Decide, DecideSetEnvMode
  <2>3. CASE c.type = "Stop"
    <3>1. [type |-> "SessionStopped"] \in SessionEvents
      BY DEF SessionEvents
    <3> QED
      BY <1>1, <1>2, <1>5, <2>3, <3>1 DEF Decide, DecideStop
  <2>4. CASE c.type = "StartTurn"
    <3>1. [type |-> "TurnStarted", turn |-> c.turn] \in SessionEvents
      BY <2>4 DEF SessionCommands, SessionEvents
    <3> QED
      BY <1>1, <1>2, <1>5, <2>4, <3>1 DEF Decide, DecideStartTurn
  <2>5. CASE c.type = "AppendAssistantBlock"
    <3>1. c.turn \in TurnIds /\ c.block \in Blocks
      BY <2>5 DEF SessionCommands
    <3>2. [type |-> "TurnAssistantBlockAppended", turn |-> c.turn, block |-> c.block]
              \in SessionEvents
      BY <3>1 DEF SessionEvents
    <3> QED
      BY <1>1, <1>2, <1>5, <2>5, <3>2 DEF Decide, DecideAppend
  <2>6. CASE c.type = "CompleteTurn"
    <3>1. [type |-> "TurnCompleted", turn |-> c.turn] \in SessionEvents
      BY <2>6 DEF SessionCommands, SessionEvents
    <3> QED
      BY <1>1, <1>2, <1>5, <2>6, <3>1 DEF Decide, DecideComplete
  <2>7. CASE c.type = "FailTurn"
    <3>1. [type |-> "TurnFailed", turn |-> c.turn] \in SessionEvents
      BY <2>7 DEF SessionCommands, SessionEvents
    <3> QED
      BY <1>1, <1>2, <1>5, <2>7, <3>1 DEF Decide, DecideFail
  <2>8. CASE c.type = "InterruptTurn"
    <3>1. [type |-> "TurnInterrupted", turn |-> c.turn] \in SessionEvents
      BY <2>8 DEF SessionCommands, SessionEvents
    <3> QED
      BY <1>1, <1>2, <1>5, <2>8, <3>1 DEF Decide, DecideInterrupt
  <2>9. CASE c.type = "AttachProviderSession"
    <3>1. [type |-> "ProviderSessionAttached", provider |-> c.provider] \in SessionEvents
      BY <2>9 DEF SessionCommands, SessionEvents
    <3> QED
      BY <1>1, <1>2, <1>5, <2>9, <3>1 DEF Decide, DecideAttach
  <2>10. CASE c.type = "Resume"
    <3>1. [type |-> "SessionResumed"] \in SessionEvents
      BY DEF SessionEvents
    <3> QED
      BY <1>1, <1>2, <1>5, <2>10, <3>1 DEF Decide, DecideResume
  <2>11. CASE c.type = "Rename"
    <3>1. c.title # Absent => [type |-> "SessionRenamed", title |-> c.title] \in SessionEvents
      BY <2>11 DEF SessionCommands, SessionEvents
    <3> QED
      BY <1>1, <1>2, <1>5, <2>11, <3>1 DEF Decide, DecideRename
  <2>12. CASE c.type = "Delete"
    <3>1. [type |-> "SessionDeleted"] \in SessionEvents
      BY DEF SessionEvents
    <3> QED
      BY <1>1, <1>5, <2>12, <3>1 DEF Decide
  <2>13. CASE c.type = "TogglePin"
    <3>1. [type |-> "SessionPinToggled", pinned |-> ~s.pinned] \in SessionEvents
      BY DEF SessionEvents
    <3> QED
      BY <1>1, <1>5, <2>13, <3>1 DEF Decide, DecideTogglePin
  <2> QED
    BY <1>5, <2>2, <2>3, <2>4, <2>5, <2>6, <2>7, <2>8, <2>9, <2>10, <2>11, <2>12, <2>13
       DEF SessionCommands
<1> QED
  BY <1>3, <1>4, <1>5

------------------------------------------------------------------------------
(* One decision after the other adds up to a lawful history.  A law speaks of  *)
(* the whole log and a decision reads the state only, so the lemmas relate the *)
(* two (Tells): what of the history the state still knows.                     *)

Unanswered(l) ==
  \E i \in OfType(l, {"SessionStopped"}) : \A k \in OfType(l, {"SessionResumed"}) : k < i

\* The turns are the ones the log starts, once each; one that streams has no end.
TellsTurns(l, turns) ==
  /\ \A i, j \in 1..Len(turns) : turns[i].id = turns[j].id => i = j
  /\ \A j \in OfType(l, {"TurnStarted"}) : \E i \in 1..Len(turns) : turns[i].id = l[j].turn
  /\ \A i \in 1..Len(turns) :
        /\ \E j \in OfType(l, {"TurnStarted"}) : l[j].turn = turns[i].id
        /\ turns[i].status = "streaming" =>
               \A j \in OfType(l, TurnEnds) : l[j].turn # turns[i].id

\* What state s knows of log l.
Tells(l, s) ==
  /\ l = <<>> => s = Absent
  /\ s # Absent =>
        /\ OfType(l, {"SessionDeleted"}) = {}
        /\ s.status \in {"running", "stopped"} /\ (s.status = "stopped" <=> Unanswered(l))
        /\ s.provider # Absent => OfType(l, {"ProviderSessionAttached"}) # {}
        /\ TellsTurns(l, s.turns)

LawfulInv(l, s) == Lawful(l) /\ Tells(l, s)

\* The events a decision may append to log l in state s.
Accepted(l, s, e) ==
  /\ e.type = "SessionStarted" => l = <<>>
  /\ e.type # "SessionStarted" => s # Absent
  /\ e.type # "SessionErrored"
  /\ e.type = "SessionStopped" => s.status # "stopped"
  /\ e.type = "SessionResumed" => s.status \in {"stopped", "errored"} /\ s.provider # Absent
  /\ e.type = "TurnStarted" => s.status # "stopped" /\ ~HasTurn(s, e.turn)
  /\ e.type \in TurnEvents => HasTurn(s, e.turn)
  /\ e.type \in {"TurnAssistantBlockAppended", "TurnCompleted"} =>
         TurnStatus(s, e.turn) = "streaming"

\* What TurnAt finds has the id it looks for, and HasTurn finds what there is.
LEMMA TurnFound ==
  ASSUME NEW s \in SessionData, NEW t
  PROVE  /\ HasTurn(s, t) => TurnAt(s, t) \in 1..Len(s.turns) /\ s.turns[TurnAt(s, t)].id = t
         /\ (\E i \in 1..Len(s.turns) : s.turns[i].id = t) => HasTurn(s, t)
<1> DEFINE I == {i \in 1..Len(s.turns) : s.turns[i].id = t}
<1>1. TurnAt(s, t) = IF I # {} THEN Min(I) ELSE 0
  BY DEF TurnAt, SelectInSeq
<1>2. I \in SUBSET Nat /\ 0 \notin I
  OBVIOUS
<1>3. ASSUME I # {} PROVE Min(I) \in I
  <2> HIDE DEF I
  <2>1. PICK n \in I : \A m \in I : n <= m
    BY <1>2, <1>3, LeastNatural
  <2> QED
    BY <2>1 DEF Min
<1>4. HasTurn(s, t) <=> I # {}
  <2> HIDE DEF I
  <2> QED
    BY <1>1, <1>2, <1>3 DEF HasTurn
<1> QED
  BY <1>1, <1>3, <1>4

\* The positions of the events of some types, with one event more.
LEMMA OfTypeAppend ==
  ASSUME NEW l \in Seq(SessionEvents), NEW e \in SessionEvents
  PROVE  /\ Len(l) \in Nat /\ Len(Append(l, e)) = Len(l) + 1
         /\ Append(l, e)[Len(l) + 1] = e
         /\ \A i \in 1..Len(l) : Append(l, e)[i] = l[i]
         /\ \A T : OfType(l, T) \subseteq 1..Len(l)
         /\ \A T : OfType(Append(l, e), T) =
                       IF e.type \in T THEN OfType(l, T) \cup {Len(l) + 1} ELSE OfType(l, T)
         /\ \A T : \A i \in OfType(l, T) : l[i].type \in T
<1>1. /\ Len(l) \in Nat /\ Len(Append(l, e)) = Len(l) + 1 /\ Append(l, e) \in Seq(SessionEvents)
      /\ Append(l, e)[Len(l) + 1] = e
      /\ \A i \in 1..Len(l) : Append(l, e)[i] = l[i]
  BY AppendProperties, LenProperties
<1>2. ASSUME NEW k \in Seq(SessionEvents), NEW T
      PROVE  OfType(k, T) = {i \in 1..Len(k) : k[i].type \in T}
  <2>1. DOMAIN k = 1..Len(k)
    BY LenProperties
  <2> QED
    BY <2>1 DEF OfType
<1>3. ASSUME NEW T
      PROVE  OfType(Append(l, e), T) =
                 IF e.type \in T THEN OfType(l, T) \cup {Len(l) + 1} ELSE OfType(l, T)
  <2>1. /\ OfType(Append(l, e), T) = {i \in 1..(Len(l) + 1) : Append(l, e)[i].type \in T}
        /\ OfType(l, T) = {i \in 1..Len(l) : l[i].type \in T}
    BY <1>1, <1>2
  <2>2. \A i : i \in 1..(Len(l) + 1) <=> i \in 1..Len(l) \/ i = Len(l) + 1
    BY <1>1
  <2> QED
    BY <1>1, <2>1, <2>2
<1>4. ASSUME NEW T PROVE OfType(l, T) \subseteq 1..Len(l) /\ \A i \in OfType(l, T) : l[i].type \in T
  BY <1>2
<1> QED
  BY <1>1, <1>3, <1>4

\* A session with turn i replaced.
LEMMA TurnReplaced ==
  ASSUME NEW s \in SessionData, NEW i \in 1..Len(s.turns), NEW turn \in Turns
  PROVE  LET r == [s EXCEPT !.turns = [@ EXCEPT ![i] = turn]] IN
         /\ Len(r.turns) = Len(s.turns) /\ r.status = s.status /\ r.provider = s.provider
         /\ \A j \in 1..Len(s.turns) : r.turns[j] = IF j = i THEN turn ELSE s.turns[j]
<1> DEFINE turns == [s.turns EXCEPT ![i] = turn]
<1>1. s.turns \in Seq(Turns)
  BY DEF SessionData
<1>2. /\ Len(turns) = Len(s.turns)
      /\ \A j \in 1..Len(s.turns) : turns[j] = IF j = i THEN turn ELSE s.turns[j]
  BY <1>1, ExceptSeq
<1> HIDE DEF turns
<1>3. LET r == [s EXCEPT !.turns = turns]
      IN r.turns = turns /\ r.status = s.status /\ r.provider = s.provider
  BY DEF SessionData
<1> QED
  BY <1>2, <1>3 DEF turns

\* The status and the provider of r, with the turns of s: the same ids, and every
\* turn but those of E as it was.
SameTurns(r, s, E) ==
  /\ Len(r.turns) = Len(s.turns)
  /\ \A i \in 1..Len(s.turns) :
        /\ r.turns[i].id = s.turns[i].id
        /\ i \notin E => r.turns[i].status = s.turns[i].status

\* A turn that ends is the one with its id.
LEMMA EndTurnShape ==
  ASSUME NEW s \in SessionData, NEW t, NEW status \in TurnStates, HasTurn(s, t)
  PROVE  LET r == EndTurn(s, t, status) IN
         /\ r.status = s.status /\ r.provider = s.provider
         /\ SameTurns(r, s, {TurnAt(s, t)})
         /\ r.turns[TurnAt(s, t)].status = status
         /\ \A j \in 1..Len(s.turns) : r.turns[j].blocks = s.turns[j].blocks
<1> DEFINE i == TurnAt(s, t)
<1>1. i \in 1..Len(s.turns)
  BY TurnAtIsIndex
<1>2. EndTurn(s, t, status) = [s EXCEPT !.turns[i].status = status]
  BY DEF EndTurn
<1> HIDE DEF i
<1>3. s.turns[i] \in Turns
  BY <1>1, ElementOfSeq DEF SessionData
<1> DEFINE turn == [s.turns[i] EXCEPT !.status = status]
<1>4. turn \in Turns /\ turn.id = s.turns[i].id /\ turn.status = status /\ turn.blocks = s.turns[i].blocks
  <2>1. ASSUME NEW x \in Turns
        PROVE  LET y == [x EXCEPT !.status = status]
               IN y \in Turns /\ y.id = x.id /\ y.status = status /\ y.blocks = x.blocks
    BY DEF Turns
  <2> QED
    BY <1>3, <2>1
<1>5. EndTurn(s, t, status) = [s EXCEPT !.turns = [@ EXCEPT ![i] = turn]]
  BY <1>2
<1> HIDE DEF turn
<1> QED
  BY <1>1, <1>4, <1>5, TurnReplaced DEF SameTurns, i

\* A block leaves the turns as they stand, and goes to the one with its id.
LEMMA AppendBlockShape ==
  ASSUME NEW s \in SessionData, NEW t, NEW b \in Blocks, HasTurn(s, t)
  PROVE  LET r == AppendBlock(s, t, b) IN
         /\ r.status = s.status /\ r.provider = s.provider /\ SameTurns(r, s, {})
         /\ \A j \in 1..Len(s.turns) :
               r.turns[j].blocks = IF j = TurnAt(s, t) THEN MergeBlock(s.turns[j].blocks, b)
                                   ELSE s.turns[j].blocks
<1> DEFINE i == TurnAt(s, t)
<1>1. i \in 1..Len(s.turns)
  BY TurnAtIsIndex
<1>2. AppendBlock(s, t, b) = [s EXCEPT !.turns[i].blocks = MergeBlock(@, b)]
  BY DEF AppendBlock
<1> HIDE DEF i
<1>3. s.turns[i] \in Turns
  BY <1>1, ElementOfSeq DEF SessionData
<1> DEFINE turn == [s.turns[i] EXCEPT !.blocks = MergeBlock(@, b)]
<1>4. /\ turn \in Turns /\ turn.id = s.turns[i].id /\ turn.status = s.turns[i].status
      /\ turn.blocks = MergeBlock(s.turns[i].blocks, b)
  <2>1. ASSUME NEW x \in Turns
        PROVE  LET y == [x EXCEPT !.blocks = MergeBlock(@, b)]
               IN y \in Turns /\ y.id = x.id /\ y.status = x.status /\ y.blocks = MergeBlock(x.blocks, b)
    BY MergeTyped DEF Turns
  <2> QED
    BY <1>3, <2>1
<1>5. AppendBlock(s, t, b) = [s EXCEPT !.turns = [@ EXCEPT ![i] = turn]]
  BY <1>2
<1> HIDE DEF turn
<1> QED
  BY <1>1, <1>4, <1>5, TurnReplaced DEF SameTurns, i

\* What an accepted event other than the first and the last does to a session: its
\* status, its provider, its turns.
LEMMA AcceptedShape ==
  ASSUME NEW l, NEW s \in SessionData, s # Absent, NEW e \in SessionEvents, Accepted(l, s, e),
         e.type \notin {"SessionStarted", "SessionDeleted"}
  PROVE  LET r == Apply(s, e) IN
         /\ r.status = CASE e.type = "SessionStopped" -> "stopped"
                         [] e.type = "SessionResumed" -> "running"
                         [] OTHER -> s.status
         /\ r.provider # s.provider => e.type = "ProviderSessionAttached"
         /\ e.type = "TurnStarted" =>
               r.turns = Append(s.turns, [id |-> e.turn, status |-> "streaming", blocks |-> <<>>])
         /\ e.type \notin TurnEnds \cup {"TurnStarted"} => SameTurns(r, s, {})
         /\ e.type \in TurnEnds => /\ SameTurns(r, s, {TurnAt(s, e.turn)})
                                   /\ r.turns[TurnAt(s, e.turn)].status # "streaming"
<1> DEFINE r == Apply(s, e)
<1>1. CASE e.type \in {"SessionStopped", "SessionResumed", "SessionEnvModeChanged",
                       "ProviderSessionAttached", "SessionRenamed", "SessionPinToggled"}
  <2>1. r = CASE e.type = "SessionEnvModeChanged"   -> [s EXCEPT !.env = e.mode]
              [] e.type = "SessionStopped"          -> [s EXCEPT !.status = "stopped"]
              [] e.type = "SessionResumed"          -> [s EXCEPT !.status = "running"]
              [] e.type = "ProviderSessionAttached" -> [s EXCEPT !.provider = e.provider]
              [] e.type = "SessionRenamed"          -> [s EXCEPT !.title = e.title]
              [] e.type = "SessionPinToggled"       -> [s EXCEPT !.pinned = e.pinned]
    BY <1>1 DEF Apply
  <2>2. /\ r.turns = s.turns
        /\ r.status = CASE e.type = "SessionStopped" -> "stopped"
                        [] e.type = "SessionResumed" -> "running"
                        [] OTHER -> s.status
        /\ r.provider # s.provider => e.type = "ProviderSessionAttached"
    BY <1>1, <2>1 DEF SessionData
  <2> HIDE DEF r
  <2> QED
    BY <1>1, <2>2 DEF SameTurns, TurnEnds, r
<1>2. CASE e.type = "TurnStarted"
  <2>1. r = PushTurn(s, e.turn)
    BY <1>2 DEF Apply
  <2>2. /\ r.turns = Append(s.turns, [id |-> e.turn, status |-> "streaming", blocks |-> <<>>])
        /\ r.status = s.status /\ r.provider = s.provider
    BY <2>1 DEF PushTurn, SessionData
  <2> HIDE DEF r
  <2> QED
    BY <1>2, <2>2 DEF TurnEnds, r
<1>3. CASE e.type = "TurnAssistantBlockAppended"
  <2>1. r = AppendBlock(s, e.turn, e.block) /\ e.block \in Blocks /\ HasTurn(s, e.turn)
    BY <1>3 DEF Apply, SessionEvents, Accepted, TurnEvents
  <2>2. r.status = s.status /\ r.provider = s.provider /\ SameTurns(r, s, {})
    BY <2>1, AppendBlockShape
  <2> HIDE DEF r
  <2> QED
    BY <1>3, <2>2 DEF TurnEnds, r
<1>4. CASE e.type \in TurnEnds
  <2>1. HasTurn(s, e.turn)
    BY <1>4 DEF Accepted, TurnEvents
  <2>2. PICK status \in TurnStates : status # "streaming" /\ r = EndTurn(s, e.turn, status)
    BY <1>4 DEF Apply, TurnEnds, TurnStates
  <2>3. /\ r.status = s.status /\ r.provider = s.provider
        /\ SameTurns(r, s, {TurnAt(s, e.turn)})
        /\ r.turns[TurnAt(s, e.turn)].status = status
    BY <2>1, <2>2, EndTurnShape
  <2> HIDE DEF r
  <2> QED
    BY <1>4, <2>2, <2>3 DEF TurnEnds, r
<1> QED
  BY <1>1, <1>2, <1>3, <1>4 DEF SessionEvents, Accepted, TurnEnds

\* A first event is a lawful log, of a session that runs.
LEMMA FirstIsLawful ==
  ASSUME NEW l \in Seq(SessionEvents), NEW s, NEW e \in SessionEvents, l = <<>>,
         e.type = "SessionStarted"
  PROVE  LawfulInv(Append(l, e), Apply(s, e))
<1> DEFINE k == Append(l, e)
<1>1. /\ \A T : OfType(k, T) = IF e.type \in T THEN {1} ELSE {}
      /\ k # <<>> /\ Len(k) = 1
  <2>1. Len(l) = 0 /\ \A T : OfType(l, T) = {}
    <3>1. \A T : OfType(l, T) \subseteq 1..Len(l)
      BY OfTypeAppend
    <3>2. Len(l) = 0
      BY EmptySeq
    <3> QED
      BY <3>1, <3>2
  <2>2. /\ Len(k) = Len(l) + 1
        /\ \A T : OfType(k, T) =
                      IF e.type \in T THEN OfType(l, T) \cup {Len(l) + 1} ELSE OfType(l, T)
    BY OfTypeAppend
  <2>3. Len(<<>>) = 0
    OBVIOUS
  <2> HIDE DEF k
  <2>4. Len(k) = 1
    BY <2>1, <2>2
  <2>5. k # <<>>
    BY <2>3, <2>4
  <2>6. \A T : OfType(k, T) = IF e.type \in T THEN {1} ELSE {}
    BY <2>1, <2>2
  <2> QED
    BY <2>4, <2>5, <2>6
<1>2. /\ OfType(k, {"SessionStarted"}) = {1}
      /\ \A t \in {"SessionDeleted", "SessionStopped", "SessionResumed", "TurnStarted"} :
             OfType(k, {t}) = {}
      /\ OfType(k, TurnEvents) = {}
  BY <1>1 DEF TurnEvents, TurnEnds
<1> HIDE DEF k
<1>3. Lawful(k)
  BY <1>1, <1>2 DEF Lawful, StartsOnce, DeletionIsLast, StopsAlternate, ResumesHaveProvider,
                    TurnsStartOnce, NoTurnWhileStopped, TurnsAreAnswered
<1>4. Tells(k, Apply(s, e))
  <2>1. Apply(s, e) = Fresh(e.kind, e.env)
    BY DEF Apply
  <2>2. /\ Fresh(e.kind, e.env).turns = <<>> /\ Len(<<>>) = 0
        /\ Fresh(e.kind, e.env).status = "running"
        /\ Fresh(e.kind, e.env).provider = Absent
    BY DEF Fresh
  <2>3. OfType(k, TurnEnds) = {}
    BY <1>1 DEF TurnEnds
  <2> QED
    BY <1>1, <1>2, <2>1, <2>2, <2>3 DEF Tells, TellsTurns, Unanswered
<1> QED
  BY <1>3, <1>4 DEF LawfulInv, k

\* An event that is accepted later keeps the log lawful ...
LEMMA NextIsLawful ==
  ASSUME NEW l \in Seq(SessionEvents), NEW s \in SessionData, NEW e \in SessionEvents,
         s # Absent, LawfulInv(l, s), Accepted(l, s, e), e.type # "SessionStarted"
  PROVE  Lawful(Append(l, e))
<1> DEFINE k == Append(l, e)
           n == Len(l) + 1
<1>1. /\ Len(l) \in Nat /\ Len(k) = n /\ k[n] = e
      /\ \A i \in 1..Len(l) : k[i] = l[i]
      /\ \A T : OfType(l, T) \subseteq 1..Len(l)
      /\ \A T : OfType(k, T) = IF e.type \in T THEN OfType(l, T) \cup {n} ELSE OfType(l, T)
      /\ \A T : \A i \in OfType(l, T) : l[i].type \in T
  BY OfTypeAppend
<1> HIDE DEF k
<1>2. \A T : \A i \in OfType(l, T) : i \in 1..Len(l) /\ i < n /\ k[i] = l[i] /\ i # n
  BY <1>1
<1>3. /\ l # <<>> /\ k # <<>>
  <2>1. l # <<>>
    BY DEF LawfulInv, Tells
  <2>2. Len(<<>>) = 0
    OBVIOUS
  <2> QED
    BY <1>1, <2>1, <2>2
<1> HIDE DEF n
<1>4. /\ s.status = "stopped" <=> Unanswered(l)
      /\ OfType(l, {"SessionDeleted"}) = {}
      /\ s.provider # Absent => OfType(l, {"ProviderSessionAttached"}) # {}
      /\ TellsTurns(l, s.turns) /\ s.status # "errored"
  BY DEF LawfulInv, Tells
<1>5. StartsOnce(k)
  BY <1>1, <1>3 DEF LawfulInv, Lawful, StartsOnce
<1>6. DeletionIsLast(k)
  BY <1>1, <1>4 DEF DeletionIsLast
<1>7. StopsAlternate(k)
  <2> DEFINE stops == OfType(l, {"SessionStopped"})
             resumes == OfType(l, {"SessionResumed"})
  <2>1. /\ \A i, j \in stops : i < j => \E m \in resumes : i < m /\ m < j
        /\ \A j \in resumes : \E i \in stops : i < j /\ \A m \in resumes : m < j => m < i
    BY DEF LawfulInv, Lawful, StopsAlternate
  <2>2. /\ \A i \in stops : i \in Nat /\ i < n
        /\ \A i \in resumes : i \in Nat /\ i < n
        /\ stops \cap resumes = {} /\ n \in Nat
    BY <1>1, <1>2 DEF n
  <2>3. Unanswered(l) <=> \E i \in stops : \A m \in resumes : m < i
    BY DEF Unanswered
  <2>4. CASE e.type = "SessionStopped"
    <3>1. OfType(k, {"SessionStopped"}) = stops \cup {n} /\ OfType(k, {"SessionResumed"}) = resumes
      BY <1>1, <2>4
    <3>2. \A i \in stops : \E m \in resumes : i < m
      <4>1. \A i \in stops : \E m \in resumes : ~(m < i)
        BY <1>4, <2>3, <2>4 DEF Accepted
      <4> HIDE DEF stops, resumes
      <4> QED
        BY <2>2, <4>1
    <3> HIDE DEF stops, resumes
    <3> QED
      BY <2>1, <2>2, <3>1, <3>2 DEF StopsAlternate
  <2>5. CASE e.type = "SessionResumed"
    <3>1. OfType(k, {"SessionStopped"}) = stops /\ OfType(k, {"SessionResumed"}) = resumes \cup {n}
      BY <1>1, <2>5
    <3>2. \E i \in stops : \A m \in resumes : m < i
      BY <1>4, <2>3, <2>5 DEF Accepted
    <3> HIDE DEF stops, resumes
    <3> QED
      BY <2>1, <2>2, <3>1, <3>2 DEF StopsAlternate
  <2>6. CASE e.type \notin {"SessionStopped", "SessionResumed"}
    <3>1. OfType(k, {"SessionStopped"}) = stops /\ OfType(k, {"SessionResumed"}) = resumes
      BY <1>1, <2>6
    <3> HIDE DEF stops, resumes
    <3> QED
      BY <2>1, <3>1 DEF StopsAlternate
  <2> QED
    BY <2>4, <2>5, <2>6
<1>8. ResumesHaveProvider(k)
  <2>1. \A j \in OfType(l, {"SessionResumed"}) : \E i \in OfType(l, {"ProviderSessionAttached"}) : i < j
    BY DEF LawfulInv, Lawful, ResumesHaveProvider
  <2>2. e.type = "SessionResumed" => \E i \in OfType(l, {"ProviderSessionAttached"}) : i < n
    BY <1>2, <1>4 DEF Accepted
  <2> QED
    BY <1>1, <2>1, <2>2 DEF ResumesHaveProvider
<1>9. TurnsStartOnce(k)
  <2>1. \A i, j \in OfType(l, {"TurnStarted"}) : l[i].turn = l[j].turn => i = j
    BY DEF LawfulInv, Lawful, TurnsStartOnce
  <2>2. e.type = "TurnStarted" => \A j \in OfType(l, {"TurnStarted"}) : l[j].turn # e.turn
    BY <1>4, TurnFound DEF Accepted, TellsTurns
  <2> QED
    BY <1>1, <1>2, <2>1, <2>2 DEF TurnsStartOnce
<1>10. NoTurnWhileStopped(k)
  <2>1. \A j \in OfType(l, {"TurnStarted"}), i \in OfType(l, {"SessionStopped"}) :
            i < j => \E m \in OfType(l, {"SessionResumed"}) : i < m /\ m < j
    BY DEF LawfulInv, Lawful, NoTurnWhileStopped
  <2>2. CASE e.type = "TurnStarted"
    <3> DEFINE stops == OfType(l, {"SessionStopped"})
               resumes == OfType(l, {"SessionResumed"})
    <3>1. \A i \in stops : \E m \in resumes : ~(m < i)
      BY <1>4, <2>2 DEF Accepted, Unanswered
    <3>2. /\ \A i \in stops : i \in Nat /\ i < n
          /\ \A i \in resumes : i \in Nat /\ i < n
          /\ stops \cap resumes = {} /\ n \in Nat
      BY <1>1, <1>2 DEF n
    <3>3. /\ OfType(k, {"SessionStopped"}) = stops /\ OfType(k, {"SessionResumed"}) = resumes
          /\ OfType(k, {"TurnStarted"}) = OfType(l, {"TurnStarted"}) \cup {n}
      BY <1>1, <2>2
    <3> HIDE DEF stops, resumes
    <3>4. \A i \in stops : \E m \in resumes : i < m /\ m < n
      BY <3>1, <3>2
    <3> QED
      BY <2>1, <3>3, <3>4 DEF NoTurnWhileStopped, stops, resumes
  <2>3. CASE e.type = "SessionStopped"
    <3>1. /\ OfType(k, {"SessionStopped"}) = OfType(l, {"SessionStopped"}) \cup {n}
          /\ OfType(k, {"SessionResumed"}) = OfType(l, {"SessionResumed"})
          /\ OfType(k, {"TurnStarted"}) = OfType(l, {"TurnStarted"})
      BY <1>1, <2>3
    <3>2. \A j \in OfType(l, {"TurnStarted"}) : ~(n < j)
      BY <1>1 DEF n
    <3> QED
      BY <2>1, <3>1, <3>2 DEF NoTurnWhileStopped
  <2>4. CASE e.type \notin {"TurnStarted", "SessionStopped"}
    <3>1. /\ OfType(k, {"SessionStopped"}) = OfType(l, {"SessionStopped"})
          /\ OfType(l, {"SessionResumed"}) \subseteq OfType(k, {"SessionResumed"})
          /\ OfType(k, {"TurnStarted"}) = OfType(l, {"TurnStarted"})
      BY <1>1, <2>4
    <3> QED
      BY <2>1, <3>1 DEF NoTurnWhileStopped
  <2> QED
    BY <2>2, <2>3, <2>4
<1>11. TurnsAreAnswered(k)
  <2> DEFINE starts == OfType(l, {"TurnStarted"})
             ends == OfType(l, TurnEnds)
             events == OfType(l, TurnEvents)
  <2>1. \A j \in events :
           /\ \E i \in starts : i < j /\ l[i].turn = l[j].turn
           /\ l[j].type \in {"TurnAssistantBlockAppended", "TurnCompleted"} =>
                  \A i \in ends : l[i].turn = l[j].turn => i >= j
    BY DEF LawfulInv, Lawful, TurnsAreAnswered
  <2>2. e.type \in TurnEvents => \E i \in starts : i < n /\ l[i].turn = e.turn
    <3>1. e.type \in TurnEvents => \E i \in starts : l[i].turn = e.turn
      <4>1. e.type \in TurnEvents =>
               TurnAt(s, e.turn) \in 1..Len(s.turns) /\ s.turns[TurnAt(s, e.turn)].id = e.turn
        BY TurnFound DEF Accepted
      <4> QED
        BY <1>4, <4>1 DEF TellsTurns
    <3> QED
      BY <1>2, <3>1
  <2>3. e.type \in {"TurnAssistantBlockAppended", "TurnCompleted"} =>
           \A i \in ends : l[i].turn # e.turn
    <3> SUFFICES ASSUME e.type \in {"TurnAssistantBlockAppended", "TurnCompleted"}
                 PROVE  \A i \in ends : l[i].turn # e.turn
      OBVIOUS
    <3>1. HasTurn(s, e.turn) /\ TurnStatus(s, e.turn) = "streaming"
      BY DEF Accepted, TurnEvents, TurnEnds
    <3>2. /\ TurnAt(s, e.turn) \in 1..Len(s.turns) /\ s.turns[TurnAt(s, e.turn)].id = e.turn
          /\ s.turns[TurnAt(s, e.turn)].status = "streaming"
      BY <3>1, TurnFound DEF TurnStatus
    <3> QED
      BY <1>4, <3>2 DEF TellsTurns
  <2>4. /\ OfType(k, {"TurnStarted"}) \in {starts, starts \cup {n}}
        /\ OfType(k, TurnEnds) = IF e.type \in TurnEnds THEN ends \cup {n} ELSE ends
        /\ OfType(k, TurnEvents) = IF e.type \in TurnEvents THEN events \cup {n} ELSE events
        /\ \A i \in starts \cup ends \cup events : i \in Nat /\ i < n /\ k[i] = l[i]
        /\ k[n] = e /\ n \in Nat
    BY <1>1, <1>2 DEF n
  <2> HIDE DEF starts, ends, events
  <2>5. ASSUME NEW j \in OfType(k, TurnEvents)
        PROVE  /\ \E i \in OfType(k, {"TurnStarted"}) : i < j /\ k[i].turn = k[j].turn
               /\ k[j].type \in {"TurnAssistantBlockAppended", "TurnCompleted"} =>
                      \A i \in OfType(k, TurnEnds) : k[i].turn = k[j].turn => i >= j
    <3>1. CASE j = n
      <4>1. e.type \in TurnEvents
        BY <2>4, <3>1
      <4>2. \E i \in OfType(k, {"TurnStarted"}) : i < j /\ k[i].turn = k[j].turn
        BY <2>2, <2>4, <3>1, <4>1
      <4>3. ASSUME e.type \in {"TurnAssistantBlockAppended", "TurnCompleted"},
                   NEW i \in OfType(k, TurnEnds), k[i].turn = e.turn
            PROVE  i >= n
        <5>1. i \notin ends
          BY <2>3, <2>4, <4>3
        <5> QED
          BY <2>4, <5>1
      <4> QED
        BY <2>4, <3>1, <4>2, <4>3
    <3>2. CASE j \in events
      <4>1. \E i \in OfType(k, {"TurnStarted"}) : i < j /\ k[i].turn = k[j].turn
        BY <2>1, <2>4, <3>2
      <4>2. ASSUME k[j].type \in {"TurnAssistantBlockAppended", "TurnCompleted"},
                   NEW i \in OfType(k, TurnEnds), k[i].turn = k[j].turn
            PROVE  i >= j
        BY <2>1, <2>4, <3>2, <4>2
      <4> QED
        BY <4>1, <4>2
    <3> QED
      BY <2>4, <3>1, <3>2
  <2> QED
    BY <2>5 DEF TurnsAreAnswered
<1> QED
  BY <1>5, <1>6, <1>7, <1>8, <1>9, <1>10, <1>11 DEF Lawful, k

\* ... and the state still tells what it has to of the longer log.
LEMMA NextIsTold ==
  ASSUME NEW l \in Seq(SessionEvents), NEW s \in SessionData, NEW e \in SessionEvents,
         s # Absent, LawfulInv(l, s), Accepted(l, s, e),
         e.type \notin {"SessionStarted", "SessionDeleted"}
  PROVE  Tells(Append(l, e), Apply(s, e))
<1> DEFINE k == Append(l, e)
           n == Len(l) + 1
           r == Apply(s, e)
<1>1. /\ Len(l) \in Nat /\ Len(k) = n /\ k[n] = e
      /\ \A i \in 1..Len(l) : k[i] = l[i]
      /\ \A T : OfType(l, T) \subseteq 1..Len(l)
      /\ \A T : OfType(k, T) = IF e.type \in T THEN OfType(l, T) \cup {n} ELSE OfType(l, T)
      /\ \A T : \A i \in OfType(l, T) : l[i].type \in T
  BY OfTypeAppend
<1>2. \A T : \A i \in OfType(l, T) : i \in Nat /\ i < n /\ k[i] = l[i] /\ i # n
  BY <1>1
<1>3. /\ s.status \in {"running", "stopped"} /\ (s.status = "stopped" <=> Unanswered(l))
      /\ OfType(l, {"SessionDeleted"}) = {}
      /\ s.provider # Absent => OfType(l, {"ProviderSessionAttached"}) # {}
      /\ TellsTurns(l, s.turns)
  BY DEF LawfulInv, Tells
<1>4. /\ r.status = CASE e.type = "SessionStopped" -> "stopped"
                      [] e.type = "SessionResumed" -> "running"
                      [] OTHER -> s.status
      /\ r.provider # s.provider => e.type = "ProviderSessionAttached"
      /\ e.type = "TurnStarted" =>
            r.turns = Append(s.turns, [id |-> e.turn, status |-> "streaming", blocks |-> <<>>])
      /\ e.type \notin TurnEnds \cup {"TurnStarted"} => SameTurns(r, s, {})
      /\ e.type \in TurnEnds => /\ SameTurns(r, s, {TurnAt(s, e.turn)})
                                /\ r.turns[TurnAt(s, e.turn)].status # "streaming"
  BY AcceptedShape
<1> HIDE DEF k, r
<1>5. k # <<>>
  <2>1. Len(<<>>) = 0
    OBVIOUS
  <2> QED
    BY <1>1, <2>1
<1> HIDE DEF n
<1>6. OfType(k, {"SessionDeleted"}) = {}
  BY <1>1, <1>3
<1>7. r.status \in {"running", "stopped"} /\ (r.status = "stopped" <=> Unanswered(k))
  <2> DEFINE stops == OfType(l, {"SessionStopped"})
             resumes == OfType(l, {"SessionResumed"})
  <2>1. Unanswered(l) <=> \E i \in stops : \A m \in resumes : m < i
    BY DEF Unanswered
  <2>2. /\ \A i \in stops \cup resumes : i \in Nat /\ i < n
        /\ n \in Nat
    BY <1>1, <1>2 DEF n
  <2>3. CASE e.type = "SessionStopped"
    <3>1. OfType(k, {"SessionStopped"}) = stops \cup {n} /\ OfType(k, {"SessionResumed"}) = resumes
      BY <1>1, <2>3
    <3> HIDE DEF stops, resumes
    <3> QED
      BY <1>4, <2>2, <2>3, <3>1 DEF Unanswered
  <2>4. CASE e.type = "SessionResumed"
    <3>1. OfType(k, {"SessionStopped"}) = stops /\ OfType(k, {"SessionResumed"}) = resumes \cup {n}
      BY <1>1, <2>4
    <3> HIDE DEF stops, resumes
    <3>2. ASSUME NEW i \in stops PROVE ~(n < i)
      BY <2>2
    <3> QED
      BY <1>4, <2>2, <2>4, <3>1, <3>2 DEF Unanswered
  <2>5. CASE e.type \notin {"SessionStopped", "SessionResumed"}
    <3>1. OfType(k, {"SessionStopped"}) = stops /\ OfType(k, {"SessionResumed"}) = resumes
      BY <1>1, <2>5
    <3> HIDE DEF stops, resumes
    <3> QED
      BY <1>3, <1>4, <2>1, <2>5, <3>1 DEF Unanswered
  <2> QED
    BY <2>3, <2>4, <2>5
<1>8. r.provider # Absent => OfType(k, {"ProviderSessionAttached"}) # {}
  BY <1>1, <1>3, <1>4
<1>9. TellsTurns(k, r.turns)
  <2> DEFINE starts == OfType(l, {"TurnStarted"})
             ends == OfType(l, TurnEnds)
  <2>1. /\ \A i, j \in 1..Len(s.turns) : s.turns[i].id = s.turns[j].id => i = j
        /\ \A j \in starts : \E i \in 1..Len(s.turns) : s.turns[i].id = l[j].turn
        /\ \A i \in 1..Len(s.turns) :
              /\ \E j \in starts : l[j].turn = s.turns[i].id
              /\ s.turns[i].status = "streaming" => \A j \in ends : l[j].turn # s.turns[i].id
    BY <1>3 DEF TellsTurns
  <2>2. /\ OfType(k, {"TurnStarted"}) = IF e.type = "TurnStarted" THEN starts \cup {n} ELSE starts
        /\ OfType(k, TurnEnds) = IF e.type \in TurnEnds THEN ends \cup {n} ELSE ends
        /\ \A i \in starts \cup ends : k[i] = l[i]
        /\ k[n] = e
    BY <1>1, <1>2
  <2>3. CASE e.type = "TurnStarted"
    <3> DEFINE turn == [id |-> e.turn, status |-> "streaming", blocks |-> <<>>]
               m == Len(s.turns)
    <3>1. s.turns \in Seq(Turns) /\ turn \in Turns
      <4>1. e.turn \in TurnIds
        BY <2>3 DEF SessionEvents
      <4> QED
        BY <4>1, EmptySeq DEF SessionData, Turns, TurnStates
    <3>2. turn.id = e.turn
      OBVIOUS
    <3>3. r.turns = Append(s.turns, turn)
      BY <1>4, <2>3
    <3> HIDE DEF turn
    <3>4. /\ m \in Nat /\ Len(r.turns) = m + 1 /\ r.turns[m + 1] = turn
          /\ \A i \in 1..m : r.turns[i] = s.turns[i]
      BY <3>1, <3>3, AppendProperties, LenProperties
    <3>5. \A i \in 1..m : s.turns[i].id # e.turn
      BY <2>3, TurnFound DEF Accepted
    <3>6. \A j \in ends : l[j].turn # e.turn
      <4> SUFFICES ASSUME NEW j \in ends, l[j].turn = e.turn PROVE FALSE
        OBVIOUS
      <4>1. j \in OfType(l, TurnEvents)
        BY DEF OfType, TurnEvents
      <4>2. PICK i \in starts : l[i].turn = l[j].turn
        BY <4>1 DEF LawfulInv, Lawful, TurnsAreAnswered
      <4> QED
        BY <2>1, <3>5, <4>2
    <3>7. e.type \notin TurnEnds
      BY <2>3 DEF TurnEnds
    <3> HIDE DEF m, starts, ends
    <3>8. \A i, j \in 1..(m + 1) : r.turns[i].id = r.turns[j].id => i = j
      <4> SUFFICES ASSUME NEW i \in 1..(m + 1), NEW j \in 1..(m + 1), r.turns[i].id = r.turns[j].id
                   PROVE  i = j
        OBVIOUS
      <4>1. /\ i \in 1..m => r.turns[i].id = s.turns[i].id /\ r.turns[i].id # e.turn
            /\ j \in 1..m => r.turns[j].id = s.turns[j].id /\ r.turns[j].id # e.turn
            /\ r.turns[m + 1].id = e.turn
        BY <3>2, <3>4, <3>5
      <4>2. (i \in 1..m \/ i = m + 1) /\ (j \in 1..m \/ j = m + 1)
        BY <3>4
      <4>3. i \in 1..m /\ j \in 1..m => i = j
        BY <2>1, <4>1 DEF m
      <4> QED
        BY <4>1, <4>2, <4>3
    <3>9. \A j \in starts \cup {n} : \E i \in 1..(m + 1) : r.turns[i].id = k[j].turn
      <4> SUFFICES ASSUME NEW j \in starts \cup {n}
                   PROVE  \E i \in 1..(m + 1) : r.turns[i].id = k[j].turn
        OBVIOUS
      <4>1. CASE j = n
        BY <2>2, <3>2, <3>4, <4>1
      <4>2. CASE j \in starts
        <5>1. PICK i \in 1..m : s.turns[i].id = l[j].turn
          BY <2>1, <4>2 DEF m
        <5>2. i \in 1..(m + 1) /\ r.turns[i].id = k[j].turn
          BY <2>2, <3>4, <4>2, <5>1
        <5> QED
          BY <5>2
      <4> QED
        BY <4>1, <4>2
    <3>10. ASSUME NEW i \in 1..(m + 1)
           PROVE  /\ \E j \in starts \cup {n} : k[j].turn = r.turns[i].id
                  /\ r.turns[i].status = "streaming" =>
                         \A j \in ends : k[j].turn # r.turns[i].id
      <4>1. CASE i = m + 1
        BY <2>2, <3>2, <3>4, <3>6, <4>1
      <4>2. CASE i \in 1..m
        <5>1. r.turns[i] = s.turns[i]
          BY <3>4, <4>2
        <5>2. PICK j \in starts : l[j].turn = s.turns[i].id
          BY <2>1, <4>2 DEF m
        <5>3. k[j] = l[j] /\ j \in starts \cup {n}
          BY <2>2
        <5>4. ASSUME r.turns[i].status = "streaming", NEW x \in ends
              PROVE  k[x].turn # r.turns[i].id
          <6>1. k[x] = l[x]
            BY <2>2
          <6>2. l[x].turn # s.turns[i].id
            BY <2>1, <4>2, <5>1, <5>4 DEF m
          <6> QED
            BY <5>1, <6>1, <6>2
        <5> QED
          BY <5>1, <5>2, <5>3, <5>4
      <4> QED
        BY <3>4, <4>1, <4>2
    <3> QED
      BY <2>2, <2>3, <3>4, <3>7, <3>8, <3>9, <3>10 DEF TellsTurns
  <2>4. CASE e.type \notin TurnEnds \cup {"TurnStarted"}
    <3>1. SameTurns(r, s, {})
      BY <1>4, <2>4
    <3> HIDE DEF starts, ends
    <3> QED
      BY <2>1, <2>2, <2>4, <3>1 DEF TellsTurns, SameTurns
  <2>5. CASE e.type \in TurnEnds
    <3> DEFINE a == TurnAt(s, e.turn)
    <3>1. SameTurns(r, s, {a}) /\ r.turns[a].status # "streaming"
      BY <1>4, <2>5
    <3>2. HasTurn(s, e.turn)
      BY <2>5 DEF Accepted, TurnEvents
    <3>3. a \in 1..Len(s.turns) /\ s.turns[a].id = e.turn
      BY <3>2, TurnFound
    <3>4. e.type # "TurnStarted"
      BY <2>5 DEF TurnEnds
    <3> HIDE DEF starts, ends, a
    <3>5. ASSUME NEW i \in 1..Len(s.turns), r.turns[i].status = "streaming", NEW j \in ends \cup {n}
          PROVE  k[j].turn # r.turns[i].id
      <4>1. i # a /\ s.turns[i].status = "streaming" /\ r.turns[i].id = s.turns[i].id
        BY <3>1, <3>5 DEF SameTurns
      <4>2. s.turns[i].id # e.turn
        BY <2>1, <3>3, <4>1
      <4> QED
        BY <2>1, <2>2, <4>1, <4>2
    <3>6. /\ Len(r.turns) = Len(s.turns)
          /\ \A i \in 1..Len(s.turns) : r.turns[i].id = s.turns[i].id
      BY <3>1 DEF SameTurns
    <3>7. OfType(k, {"TurnStarted"}) = starts /\ OfType(k, TurnEnds) = ends \cup {n}
      BY <2>2, <2>5, <3>4
    <3>8. /\ \A i, j \in 1..Len(r.turns) : r.turns[i].id = r.turns[j].id => i = j
          /\ \A j \in starts : \E i \in 1..Len(r.turns) : r.turns[i].id = k[j].turn
          /\ \A i \in 1..Len(r.turns) : \E j \in starts : k[j].turn = r.turns[i].id
      BY <2>1, <2>2, <3>6
    <3>9. \A i \in 1..Len(r.turns) :
             r.turns[i].status = "streaming" =>
                 \A j \in ends \cup {n} : k[j].turn # r.turns[i].id
      BY <3>5, <3>6
    <3> QED
      BY <3>7, <3>8, <3>9 DEF TellsTurns
  <2> QED
    BY <2>3, <2>4, <2>5
<1> QED
  BY <1>5, <1>6, <1>7, <1>8, <1>9 DEF Tells, k, r

\* An accepted event keeps the history lawful, and the state true to it.
LEMMA AcceptedIsLawful ==
  ASSUME NEW l \in Seq(SessionEvents), NEW s \in SessionStates, NEW e \in SessionEvents,
         LawfulInv(l, s), Accepted(l, s, e)
  PROVE  LawfulInv(Append(l, e), Apply(s, e))
<1>1. CASE e.type = "SessionStarted"
  BY <1>1, FirstIsLawful DEF Accepted
<1>2. CASE e.type # "SessionStarted"
  <2>1. s # Absent /\ s \in SessionData
    BY <1>2 DEF Accepted, SessionStates
  <2>2. Lawful(Append(l, e))
    BY <1>2, <2>1, NextIsLawful
  <2>3. Tells(Append(l, e), Apply(s, e))
    <3>1. CASE e.type = "SessionDeleted"
      <4>1. Apply(s, e) = Absent
        BY <2>1, <3>1 DEF Apply
      <4> QED
        BY <4>1 DEF Tells
    <3>2. CASE e.type # "SessionDeleted"
      BY <1>2, <2>1, <3>2, NextIsTold
    <3> QED
      BY <3>1, <3>2
  <2> QED
    BY <2>2, <2>3 DEF LawfulInv
<1> QED
  BY <1>1, <1>2

\* What Session::decide decides is accepted, and only a start, a resume and a delete
\* decide to start, to resume and to delete; only a start needs an empty log.
LEMMA DecidedIsAccepted ==
  ASSUME NEW l, NEW s \in SessionStates, NEW c \in SessionCommands, NEW e,
         Decide(s, c).events = <<e>>, c.type = "Start" => l = <<>>
  PROVE  /\ Accepted(l, s, e)
         /\ e.type = "SessionStarted" => c.type = "Start"
         /\ e.type = "SessionResumed" => c.type = "Resume"
         /\ e.type = "SessionDeleted" => c.type = "Delete"
<1>1. \A error : Refuse(error).events = <<>>
  BY DEF Refuse
<1>2. Accept(<<>>).events = <<>> /\ \A x : Accept(<<x>>).events = <<x>>
  BY DEF Accept
<1>3. \A x, y : <<x>> = <<y>> => x = y
  OBVIOUS
<1>4. \A x : <<x>> # <<>>
  OBVIOUS
<1>5. CASE c.type = "Start"
  <2>1. Decide(s, c) = Accept(<<[type |-> "SessionStarted", kind |-> c.kind, env |-> c.env]>>)
    BY <1>1, <1>4, <1>5 DEF Decide
  <2>2. e = [type |-> "SessionStarted", kind |-> c.kind, env |-> c.env]
    BY <1>2, <1>3, <2>1
  <2> QED
    BY <1>5, <2>2 DEF Accepted, TurnEvents, TurnEnds
<1>6. CASE c.type # "Start"
  <2>1. s # Absent
    BY <1>1, <1>4, <1>6 DEF Decide
  <2>2. CASE c.type = "SetEnvMode"
    <3>1. e = [type |-> "SessionEnvModeChanged", mode |-> c.mode]
      BY <1>2, <1>3, <1>4, <2>1, <2>2 DEF Decide, DecideSetEnvMode
    <3> QED
      BY <2>1, <3>1 DEF Accepted, TurnEvents, TurnEnds
  <2>3. CASE c.type = "Stop"
    <3>1. e = [type |-> "SessionStopped"] /\ s.status # "stopped"
      BY <1>2, <1>3, <1>4, <2>1, <2>3 DEF Decide, DecideStop
    <3> QED
      BY <2>1, <3>1 DEF Accepted, TurnEvents, TurnEnds
  <2>4. CASE c.type = "StartTurn"
    <3>1. /\ e = [type |-> "TurnStarted", turn |-> c.turn]
          /\ s.status # "stopped" /\ ~HasTurn(s, c.turn)
      BY <1>1, <1>2, <1>3, <1>4, <2>1, <2>4 DEF Decide, DecideStartTurn
    <3> QED
      BY <2>1, <3>1 DEF Accepted, TurnEvents, TurnEnds
  <2>5. CASE c.type = "AppendAssistantBlock"
    <3>1. /\ e = [type |-> "TurnAssistantBlockAppended", turn |-> c.turn, block |-> c.block]
          /\ HasTurn(s, c.turn) /\ TurnStatus(s, c.turn) = "streaming"
      BY <1>1, <1>2, <1>3, <1>4, <2>1, <2>5 DEF Decide, DecideAppend
    <3> QED
      BY <2>1, <3>1 DEF Accepted, TurnEvents, TurnEnds
  <2>6. CASE c.type = "CompleteTurn"
    <3>1. /\ e = [type |-> "TurnCompleted", turn |-> c.turn]
          /\ HasTurn(s, c.turn) /\ TurnStatus(s, c.turn) = "streaming"
      BY <1>1, <1>2, <1>3, <1>4, <2>1, <2>6 DEF Decide, DecideComplete
    <3> QED
      BY <2>1, <3>1 DEF Accepted, TurnEvents, TurnEnds
  <2>7. CASE c.type = "FailTurn"
    <3>1. e = [type |-> "TurnFailed", turn |-> c.turn] /\ HasTurn(s, c.turn)
      BY <1>1, <1>2, <1>3, <1>4, <2>1, <2>7 DEF Decide, DecideFail
    <3> QED
      BY <2>1, <3>1 DEF Accepted, TurnEvents, TurnEnds
  <2>8. CASE c.type = "InterruptTurn"
    <3>1. e = [type |-> "TurnInterrupted", turn |-> c.turn] /\ HasTurn(s, c.turn)
      BY <1>1, <1>2, <1>3, <1>4, <2>1, <2>8 DEF Decide, DecideInterrupt
    <3> QED
      BY <2>1, <3>1 DEF Accepted, TurnEvents, TurnEnds
  <2>9. CASE c.type = "AttachProviderSession"
    <3>1. e = [type |-> "ProviderSessionAttached", provider |-> c.provider]
      BY <1>2, <1>3, <1>4, <2>1, <2>9 DEF Decide, DecideAttach
    <3> QED
      BY <2>1, <3>1 DEF Accepted, TurnEvents, TurnEnds
  <2>10. CASE c.type = "Resume"
    <3>1. /\ e = [type |-> "SessionResumed"]
          /\ s.status \in {"stopped", "errored"} /\ s.provider # Absent
      BY <1>1, <1>2, <1>3, <1>4, <2>1, <2>10 DEF Decide, DecideResume
    <3> QED
      BY <2>1, <2>10, <3>1 DEF Accepted, TurnEvents, TurnEnds
  <2>11. CASE c.type = "Rename"
    <3>1. e = [type |-> "SessionRenamed", title |-> c.title]
      BY <1>1, <1>2, <1>3, <1>4, <2>1, <2>11 DEF Decide, DecideRename
    <3> QED
      BY <2>1, <3>1 DEF Accepted, TurnEvents, TurnEnds
  <2>12. CASE c.type = "Delete"
    <3>1. e = [type |-> "SessionDeleted"]
      BY <1>2, <1>3, <2>1, <2>12 DEF Decide
    <3> QED
      BY <2>1, <2>12, <3>1 DEF Accepted, TurnEvents, TurnEnds
  <2>13. CASE c.type = "TogglePin"
    <3>1. e = [type |-> "SessionPinToggled", pinned |-> ~s.pinned]
      BY <1>2, <1>3, <2>1, <2>13 DEF Decide, DecideTogglePin
    <3> QED
      BY <2>1, <3>1 DEF Accepted, TurnEvents, TurnEnds
  <2> QED
    BY <1>6, <2>2, <2>3, <2>4, <2>5, <2>6, <2>7, <2>8, <2>9, <2>10, <2>11, <2>12, <2>13
       DEF SessionCommands
<1> QED
  BY <1>5, <1>6

------------------------------------------------------------------------------
(* The text of a turn. *)

\* The sums of the first numbers of a list, up to n of them.
Sums(n, numbers, t) == t = [i \in 0..n |-> IF i = 0 THEN 0 ELSE t[i - 1] + numbers[i]]

\* There are sums of all the first numbers, and one more.
LEMMA SumsGrow ==
  ASSUME NEW n \in Nat, NEW f, NEW t, Sums(n, f, t)
  PROVE  Sums(n + 1, f, [i \in 0..(n + 1) |-> IF i \in 0..n THEN t[i] ELSE t[n] + f[n + 1]])
<1> DEFINE last == t[n] + f[n + 1]
           u == [i \in 0..(n + 1) |-> IF i \in 0..n THEN t[i] ELSE last]
           step == [i \in 0..(n + 1) |-> IF i = 0 THEN 0 ELSE u[i - 1] + f[i]]
<1>1. t = [i \in 0..n |-> IF i = 0 THEN 0 ELSE t[i - 1] + f[i]]
  BY DEF Sums
<1> HIDE DEF last
<1>2. \A i \in 0..(n + 1) : u[i] = IF i \in 0..n THEN t[i] ELSE last
  OBVIOUS
<1>3. \A i \in 0..n : t[i] = IF i = 0 THEN 0 ELSE t[i - 1] + f[i]
  BY <1>1
<1> HIDE DEF u
<1>4. ASSUME NEW i \in 0..(n + 1)
      PROVE  (IF i \in 0..n THEN t[i] ELSE last) = IF i = 0 THEN 0 ELSE u[i - 1] + f[i]
  <2>1. CASE i = 0
    BY <2>1, <1>3
  <2>2. CASE i \in 1..n
    <3>1. i - 1 \in 0..n /\ i - 1 \in 0..(n + 1) /\ i \in 0..n /\ i # 0
      BY <2>2
    <3>2. u[i - 1] = t[i - 1]
      BY <3>1, <1>2
    <3> QED
      BY <3>1, <3>2, <1>3
  <2>3. CASE i = n + 1
    <3>1. i - 1 = n /\ n \in 0..(n + 1) /\ n \in 0..n /\ i \notin 0..n /\ i # 0
      BY <2>3
    <3>2. u[i - 1] = t[n]
      BY <3>1, <1>2
    <3> QED
      BY <3>1, <3>2, <2>3 DEF last
  <2> QED
    BY <2>1, <2>2, <2>3
<1>5. u = step
  BY <1>4 DEF u
<1> HIDE DEF step
<1>6. Sums(n + 1, f, u)
  BY <1>5 DEF Sums, step
<1> QED
  BY <1>6 DEF u, last

\* There are sums up to every number.
LEMMA SumsExist ==
  ASSUME NEW n \in Nat, NEW f
  PROVE  \E t : Sums(n, f, t)
<1> DEFINE I == {m \in Nat : ~\E t : Sums(m, f, t)}
<1>1. SUFFICES ASSUME I # {}
               PROVE  FALSE
  OBVIOUS
<1>2. I \in SUBSET Nat
  OBVIOUS
<1>3. PICK m \in I : \A v \in I : m <= v
  <2> HIDE DEF I
  <2> QED
    BY <1>1, <1>2, LeastNatural
<1>4. m # 0
  <2> DEFINE t == [i \in 0..0 |-> 0]
  <2>1. t = [i \in 0..0 |-> IF i = 0 THEN 0 ELSE t[i - 1] + f[i]]
    OBVIOUS
  <2>2. Sums(0, f, t)
    BY <2>1 DEF Sums
  <2> QED
    BY <1>3, <2>2
<1>5. m - 1 \in Nat /\ ~(m <= m - 1) /\ (m - 1) + 1 = m
  BY <1>3, <1>4
<1>6. PICK t : Sums(m - 1, f, t)
  BY <1>3, <1>5
<1>7. \E u : Sums((m - 1) + 1, f, u)
  BY <1>5, <1>6, SumsGrow
<1> QED
  BY <1>3, <1>5, <1>7

\* Sums of the same numbers are the same.
LEMMA SumsAgree ==
  ASSUME NEW n \in Nat, NEW f, NEW g, \A i \in 1..n : f[i] = g[i],
         NEW t, NEW u, Sums(n, f, t), Sums(n, g, u)
  PROVE  \A i \in 0..n : t[i] = u[i]
<1> DEFINE I == {i \in 0..n : t[i] # u[i]}
<1>1. /\ t = [i \in 0..n |-> IF i = 0 THEN 0 ELSE t[i - 1] + f[i]]
      /\ u = [i \in 0..n |-> IF i = 0 THEN 0 ELSE u[i - 1] + g[i]]
  BY DEF Sums
<1>2. SUFFICES ASSUME I # {}
               PROVE  FALSE
  OBVIOUS
<1>3. I \in SUBSET Nat
  OBVIOUS
<1>4. PICK m \in I : \A v \in I : m <= v
  <2> HIDE DEF I
  <2> QED
    BY <1>2, <1>3, LeastNatural
<1>5. m \in 0..n /\ t[m] # u[m]
  BY <1>4
<1>6. \A i \in 0..n : t[i] = IF i = 0 THEN 0 ELSE t[i - 1] + f[i]
  BY <1>1
<1>7. \A i \in 0..n : u[i] = IF i = 0 THEN 0 ELSE u[i - 1] + g[i]
  BY <1>1
<1>8. m # 0
  BY <1>5, <1>6, <1>7
<1>9. m - 1 \in 0..n /\ m \in 1..n /\ ~(m <= m - 1)
  BY <1>5, <1>8
<1>10. t[m - 1] = u[m - 1]
  BY <1>4, <1>9
<1>11. t[m] = t[m - 1] + f[m] /\ u[m] = u[m - 1] + g[m]
  BY <1>5, <1>6, <1>7, <1>8
<1> QED
  BY <1>5, <1>9, <1>10, <1>11

\* The total is the last sum.
LEMMA TotalIsLast ==
  ASSUME NEW n \in Nat, NEW f, NEW t, Sums(n, f, t)
  PROVE  Total(n, f) = t[n]
<1> DEFINE u == CHOOSE s : s = [i \in 0..n |-> IF i = 0 THEN 0 ELSE s[i - 1] + f[i]]
<1>1. Total(n, f) = u[n]
  BY DEF Total
<1>2. t = [i \in 0..n |-> IF i = 0 THEN 0 ELSE t[i - 1] + f[i]]
  BY DEF Sums
<1>3. u = [i \in 0..n |-> IF i = 0 THEN 0 ELSE u[i - 1] + f[i]]
  BY <1>2
<1> HIDE DEF u
<1>4. Sums(n, f, u)
  BY <1>3 DEF Sums
<1>5. \A i \in 0..n : u[i] = t[i]
  BY <1>4, SumsAgree
<1> QED
  BY <1>1, <1>5

\* What is added up depends on the first numbers alone.
LEMMA TotalAgrees ==
  ASSUME NEW n \in Nat, NEW f, NEW g, \A i \in 1..n : f[i] = g[i]
  PROVE  Total(n, f) = Total(n, g)
<1>1. PICK t : Sums(n, f, t)
  BY SumsExist
<1>2. PICK u : Sums(n, g, u)
  BY SumsExist
<1>3. \A i \in 0..n : t[i] = u[i]
  BY <1>1, <1>2, SumsAgree
<1> QED
  BY <1>1, <1>2, <1>3, TotalIsLast

\* One number more.
LEMMA TotalGrows ==
  ASSUME NEW n \in Nat, NEW f
  PROVE  Total(n + 1, f) = Total(n, f) + f[n + 1]
<1>1. PICK t : Sums(n, f, t)
  BY SumsExist
<1> DEFINE u == [i \in 0..(n + 1) |-> IF i \in 0..n THEN t[i] ELSE t[n] + f[n + 1]]
<1>2. Sums(n + 1, f, u)
  BY <1>1, SumsGrow
<1>3. u[n + 1] = t[n] + f[n + 1]
  OBVIOUS
<1> HIDE DEF u
<1> QED
  BY <1>1, <1>2, <1>3, TotalIsLast

\* Noughts, and no numbers at all, add up to nought.
LEMMA TotalOfNone ==
  ASSUME NEW n \in Nat, NEW f, \A i \in 1..n : f[i] = 0
  PROVE  Total(n, f) = 0
<1> DEFINE t == [i \in 0..n |-> 0]
<1>1. \A i \in 0..n : 0 = IF i = 0 THEN 0 ELSE t[i - 1] + f[i]
  <2> SUFFICES ASSUME NEW i \in 0..n, i # 0
               PROVE  0 = t[i - 1] + f[i]
    OBVIOUS
  <2>1. i - 1 \in 0..n /\ i \in 1..n
    OBVIOUS
  <2>2. t[i - 1] = 0 /\ f[i] = 0
    BY <2>1
  <2> QED
    BY <2>2
<1>2. t = [i \in 0..n |-> IF i = 0 THEN 0 ELSE t[i - 1] + f[i]]
  BY <1>1
<1>3. Sums(n, f, t)
  BY <1>2 DEF Sums
<1>4. t[n] = 0
  OBVIOUS
<1> HIDE DEF t
<1> QED
  BY <1>3, <1>4, TotalIsLast

\* Natural numbers add up to one.
LEMMA TotalTyped ==
  ASSUME NEW n \in Nat, NEW f, \A i \in 1..n : f[i] \in Nat
  PROVE  Total(n, f) \in Nat
<1> DEFINE I == {m \in 0..n : Total(m, f) \notin Nat}
<1>1. SUFFICES ASSUME I # {}
               PROVE  FALSE
  <2>1. n \in 0..n
    OBVIOUS
  <2> QED
    BY <2>1
<1>2. I \in SUBSET Nat
  OBVIOUS
<1>3. PICK m \in I : \A v \in I : m <= v
  <2> HIDE DEF I
  <2> QED
    BY <1>1, <1>2, LeastNatural
<1>4. m # 0
  <2>1. Total(0, f) = 0
    <3>1. \A i \in 1..0 : f[i] = 0
      OBVIOUS
    <3> QED
      BY <3>1, TotalOfNone
  <2> QED
    BY <1>3, <2>1
<1>5. m - 1 \in Nat /\ m - 1 \in 0..n /\ ~(m <= m - 1) /\ (m - 1) + 1 = m /\ m \in 1..n
  BY <1>3, <1>4
<1>6. Total(m - 1, f) \in Nat
  BY <1>3, <1>5
<1>7. Total((m - 1) + 1, f) = Total(m - 1, f) + f[(m - 1) + 1]
  BY <1>5, TotalGrows
<1> QED
  BY <1>3, <1>5, <1>6, <1>7

\* No blocks hold nothing, and a block more holds what it holds.
LEMMA HeldGrows ==
  ASSUME NEW blocks \in Seq(Blocks), NEW b \in Blocks
  PROVE  /\ Held(<<>>) = 0 /\ Held(blocks) \in Nat
         /\ Held(Append(blocks, b)) = Held(blocks) + b.size
<1> DEFINE n == Len(blocks)
           a == Append(blocks, b)
           sizes == [k \in DOMAIN blocks |-> blocks[k].size]
           more == [k \in DOMAIN a |-> a[k].size]
<1>1. /\ n \in Nat /\ DOMAIN blocks = 1..n /\ Len(a) = n + 1 /\ DOMAIN a = 1..(n + 1)
      /\ a[n + 1] = b /\ \A k \in 1..n : a[k] = blocks[k] /\ blocks[k] \in Blocks
  <2>1. \A k \in 1..n : blocks[k] \in Blocks
    BY ElementOfSeq
  <2> QED
    BY <2>1, LenProperties, AppendProperties
<1>2. Held(<<>>) = 0
  <2>1. Len(<<>>) = 0 /\ DOMAIN <<>> = {}
    OBVIOUS
  <2>2. \A f : Total(0, f) = 0
    <3>1. \A f : \A i \in 1..0 : f[i] = 0
      OBVIOUS
    <3> QED
      BY <3>1, TotalOfNone
  <2> QED
    BY <2>1, <2>2 DEF Held
<1>3. Held(blocks) = Total(n, sizes) /\ Held(a) = Total(n + 1, more)
  BY <1>1 DEF Held
<1> HIDE DEF n, a
<1>4. /\ \A k \in 1..n : sizes[k] = blocks[k].size /\ more[k] = sizes[k]
      /\ more[n + 1] = b.size
  BY <1>1
<1>5. \A k \in 1..n : sizes[k] \in Nat
  BY <1>1, <1>4 DEF Blocks
<1> HIDE DEF sizes, more
<1>6. Total(n + 1, more) = Total(n, more) + more[n + 1] /\ Total(n, more) = Total(n, sizes)
  BY <1>1, <1>4, TotalGrows, TotalAgrees
<1>7. Total(n, sizes) \in Nat
  BY <1>1, <1>5, TotalTyped
<1> QED
  BY <1>2, <1>3, <1>4, <1>6, <1>7 DEF a

\* merge_block adds what the block holds, and keeps text apart.
LEMMA MergeHolds ==
  ASSUME NEW blocks \in Seq(Blocks), NEW b \in Blocks, Glued(blocks)
  PROVE  /\ Held(MergeBlock(blocks, b)) = Held(blocks) + b.size
         /\ Glued(MergeBlock(blocks, b))
<1> DEFINE n == Len(blocks)
<1>0. /\ n \in Nat /\ DOMAIN blocks = 1..n
      /\ \A k \in 1..n : blocks[k] \in Blocks
      /\ blocks # <<>> => n # 0 /\ Last(blocks) = blocks[n]
      /\ blocks = <<>> => n = 0
  BY LenProperties, EmptySeq, ElementOfSeq DEF Last
<1>1. CASE b.kind = "text" /\ blocks # <<>> /\ Last(blocks).kind = "text"
  <2> DEFINE glued == [blocks[n] EXCEPT !.size = @ + b.size]
             m == [blocks EXCEPT ![n] = glued]
             sizes == [k \in DOMAIN blocks |-> blocks[k].size]
             more == [k \in DOMAIN m |-> m[k].size]
  <2>1. n \in 1..n /\ n - 1 \in Nat /\ (n - 1) + 1 = n
    BY <1>0, <1>1
  <2>2. glued \in Blocks /\ glued.kind = blocks[n].kind /\ glued.size = blocks[n].size + b.size
    <3>1. ASSUME NEW last \in Blocks
          PROVE  LET g == [last EXCEPT !.size = @ + b.size]
                 IN g \in Blocks /\ g.kind = last.kind /\ g.size = last.size + b.size
      BY DEF Blocks
    <3> HIDE DEF n
    <3> QED
      BY <1>0, <2>1, <3>1
  <2>3. MergeBlock(blocks, b) = m
    BY <1>1 DEF MergeBlock
  <2> HIDE DEF glued, n
  <2>4. /\ m \in Seq(Blocks) /\ Len(m) = n /\ DOMAIN m = 1..n
        /\ \A k \in 1..n : m[k] = IF k = n THEN glued ELSE blocks[k]
    BY <1>0, <2>1, <2>2, ExceptSeq DEF n
  <2> HIDE DEF m
  <2>5. Glued(m)
    <3>1. \A k \in 1..n : m[k].kind = blocks[k].kind
      BY <2>2, <2>4
    <3>2. \A k \in 2..n : k \in 1..n /\ k - 1 \in 1..n
      BY <1>0
    <3> QED
      BY <2>4, <3>1, <3>2 DEF Glued, n
  <2>6. /\ Held(m) = Total(n, more) /\ Held(blocks) = Total(n, sizes)
        /\ \A k \in 1..n : sizes[k] = blocks[k].size /\ more[k] = m[k].size
    BY <1>0, <2>4 DEF Held, n
  <2> HIDE DEF sizes, more
  <2>7. /\ Total(n, more) = Total(n - 1, more) + more[n]
        /\ Total(n, sizes) = Total(n - 1, sizes) + sizes[n]
    BY <2>1, TotalGrows
  <2>8. \A k \in 1..(n - 1) : k \in 1..n /\ k # n
    BY <1>0
  <2>9. Total(n - 1, more) = Total(n - 1, sizes)
    <3>1. \A k \in 1..(n - 1) : more[k] = sizes[k]
      BY <2>4, <2>6, <2>8
    <3> QED
      BY <2>1, <3>1, TotalAgrees
  <2>10. \A k \in 1..(n - 1) : sizes[k] \in Nat
    BY <1>0, <2>6, <2>8 DEF Blocks
  <2>11. Total(n - 1, sizes) \in Nat
    BY <2>1, <2>10, TotalTyped
  <2>12. more[n] = sizes[n] + b.size /\ sizes[n] \in Nat /\ b.size \in Nat
    BY <1>0, <2>1, <2>2, <2>4, <2>6 DEF Blocks
  <2> QED
    BY <2>3, <2>5, <2>6, <2>7, <2>9, <2>11, <2>12
<1>2. CASE ~(b.kind = "text" /\ blocks # <<>> /\ Last(blocks).kind = "text")
  <2> DEFINE a == Append(blocks, b)
  <2>1. MergeBlock(blocks, b) = a
    BY <1>2 DEF MergeBlock
  <2>2. Len(a) = n + 1 /\ a[n + 1] = b /\ \A k \in 1..n : a[k] = blocks[k]
    BY AppendProperties
  <2>3. Held(a) = Held(blocks) + b.size
    BY HeldGrows
  <2> HIDE DEF a
  <2>4. Glued(a)
    <3> SUFFICES ASSUME NEW k \in 2..(n + 1), a[k].kind = "text", a[k - 1].kind = "text"
                 PROVE  FALSE
      BY <2>2 DEF Glued
    <3>1. CASE k = n + 1
      <4>1. k - 1 = n /\ n \in 1..n
        BY <1>0, <3>1
      <4>2. a[k] = b /\ a[k - 1] = blocks[n] /\ blocks # <<>>
        BY <1>0, <2>2, <3>1, <4>1
      <4> QED
        BY <1>0, <1>2, <4>2
    <3>2. CASE k # n + 1
      <4>1. k \in 2..n /\ k \in 1..n /\ k - 1 \in 1..n
        BY <1>0, <3>2
      <4> QED
        BY <2>2, <4>1 DEF Glued
    <3> QED
      BY <3>1, <3>2
  <2> QED
    BY <2>1, <2>3, <2>4
<1> QED
  BY <1>1, <1>2

\* What was appended to a turn, with one event more; and nothing without such events.
LEMMA AppendedGrows ==
  ASSUME NEW l \in Seq(SessionEvents), NEW e \in SessionEvents, NEW t
  PROVE  /\ AppendedTo(l, t) \in Nat
         /\ AppendedTo(Append(l, e), t) = AppendedTo(l, t) + SizeFor(t, e)
         /\ (\A j \in OfType(l, {"TurnAssistantBlockAppended"}) : l[j].turn # t) =>
                AppendedTo(l, t) = 0
<1> DEFINE n == Len(l)
           k == Append(l, e)
           sizes == [j \in DOMAIN l |-> SizeFor(t, l[j])]
           more == [j \in DOMAIN k |-> SizeFor(t, k[j])]
<1>1. /\ n \in Nat /\ DOMAIN l = 1..n /\ Len(k) = n + 1 /\ DOMAIN k = 1..(n + 1)
      /\ k[n + 1] = e /\ \A j \in 1..n : k[j] = l[j] /\ l[j] \in SessionEvents
  <2>1. \A j \in 1..n : l[j] \in SessionEvents
    BY ElementOfSeq
  <2> QED
    BY <2>1, LenProperties, AppendProperties
<1>2. AppendedTo(l, t) = Total(n, sizes) /\ AppendedTo(k, t) = Total(n + 1, more)
  BY <1>1 DEF AppendedTo
<1> HIDE DEF n, k
<1>3. /\ \A j \in 1..n : sizes[j] = SizeFor(t, l[j]) /\ more[j] = sizes[j]
      /\ more[n + 1] = SizeFor(t, e)
  BY <1>1
<1>4. \A x \in SessionEvents : SizeFor(t, x) \in Nat
  BY DEF SizeFor, SessionEvents, Blocks
<1> HIDE DEF sizes, more
<1>5. Total(n + 1, more) = Total(n, more) + more[n + 1] /\ Total(n, more) = Total(n, sizes)
  BY <1>1, <1>3, TotalGrows, TotalAgrees
<1>6. \A j \in 1..n : sizes[j] \in Nat
  BY <1>1, <1>3, <1>4
<1>7. Total(n, sizes) \in Nat
  BY <1>1, <1>6, TotalTyped
<1>8. ASSUME \A j \in OfType(l, {"TurnAssistantBlockAppended"}) : l[j].turn # t
      PROVE  Total(n, sizes) = 0
  <2>1. \A j \in 1..n : sizes[j] = 0
    BY <1>1, <1>3, <1>8 DEF SizeFor, OfType
  <2> QED
    BY <1>1, <2>1, TotalOfNone
<1> QED
  BY <1>2, <1>3, <1>5, <1>7, <1>8 DEF k

\* An accepted event keeps the text of every turn whole: a block goes to the turn with
\* its id and to no other, and a turn that starts is one nothing was appended to.
LEMMA AcceptedCoalesces ==
  ASSUME NEW l \in Seq(SessionEvents), NEW s \in SessionStates, NEW e \in SessionEvents,
         LawfulInv(l, s), Accepted(l, s, e), Coalesced(l, s)
  PROVE  Coalesced(Append(l, e), Apply(s, e))
<1> DEFINE k == Append(l, e)
           r == Apply(s, e)
<1>1. CASE e.type = "SessionStarted"
  <2>1. r.turns = <<>>
    BY <1>1 DEF Apply, Fresh
  <2>2. DOMAIN r.turns = {}
    BY <2>1
  <2> HIDE DEF r
  <2> QED
    BY <2>2 DEF Coalesced, r
<1>2. CASE e.type = "SessionDeleted"
  <2>1. r = Absent
    BY <1>2 DEF Apply
  <2> QED
    BY <2>1 DEF Coalesced
<1>3. CASE e.type \notin {"SessionStarted", "SessionDeleted"}
  <2>1. s # Absent /\ s \in SessionData /\ s.turns \in Seq(Turns)
    BY <1>3 DEF Accepted, SessionStates, SessionData
  <2>2. /\ DOMAIN s.turns = 1..Len(s.turns) /\ Len(s.turns) \in Nat
        /\ \A i \in 1..Len(s.turns) : s.turns[i] \in Turns
    BY <2>1, LenProperties, ElementOfSeq
  <2>3. \A i \in 1..Len(s.turns) :
           /\ s.turns[i].blocks \in Seq(Blocks)
           /\ Held(s.turns[i].blocks) = AppendedTo(l, s.turns[i].id) /\ Glued(s.turns[i].blocks)
    BY <2>1, <2>2 DEF Coalesced, Turns
  <2>4. \A t : AppendedTo(k, t) = AppendedTo(l, t) + SizeFor(t, e) /\ AppendedTo(l, t) \in Nat
    BY AppendedGrows
  <2>5. e.type # "TurnAssistantBlockAppended" => \A t : AppendedTo(k, t) = AppendedTo(l, t)
    BY <2>4 DEF SizeFor
  <2>6. Apply(s, e) \in SessionData
    BY <1>3, <2>1, ApplyToSession
  <2>7. DOMAIN r.turns = 1..Len(r.turns)
    BY <2>6, LenProperties DEF SessionData
  <2>8. CASE e.type = "TurnStarted"
    <3> DEFINE new == [id |-> e.turn, status |-> "streaming", blocks |-> <<>>]
    <3>1. r.turns = Append(s.turns, new)
      BY <1>3, <2>1, <2>8, AcceptedShape
    <3>2. new \in Turns /\ new.id = e.turn /\ new.blocks = <<>>
      BY <2>8, EmptySeq DEF Turns, TurnStates, SessionEvents
    <3> HIDE DEF r, k, new
    <3>3. /\ Len(r.turns) = Len(s.turns) + 1 /\ r.turns[Len(s.turns) + 1] = new
          /\ \A i \in 1..Len(s.turns) : r.turns[i] = s.turns[i]
      BY <2>1, <3>1, <3>2, AppendProperties
    <3>4. Held(<<>>) = 0 /\ Glued(<<>>)
      <4>1. \E b : b \in Blocks
        <5>1. [kind |-> "text", size |-> 0] \in Blocks
          BY DEF Blocks
        <5> QED
          BY <5>1
      <4>2. <<>> \in Seq(Blocks)
        BY EmptySeq
      <4>3. Held(<<>>) = 0
        BY <4>1, <4>2, HeldGrows
      <4>4. \A i \in 2..Len(<<>>) : FALSE
        OBVIOUS
      <4> QED
        BY <4>3, <4>4 DEF Glued
    <3>5. AppendedTo(l, e.turn) = 0
      <4>1. ASSUME NEW j \in OfType(l, {"TurnAssistantBlockAppended"}), l[j].turn = e.turn
            PROVE  FALSE
        <5>1. j \in OfType(l, TurnEvents)
          BY DEF OfType, TurnEvents
        <5>2. PICK i \in OfType(l, {"TurnStarted"}) : l[i].turn = e.turn
          BY <4>1, <5>1 DEF LawfulInv, Lawful, TurnsAreAnswered
        <5>3. \E m \in 1..Len(s.turns) : s.turns[m].id = e.turn
          BY <2>1, <5>2 DEF LawfulInv, Tells, TellsTurns
        <5>4. HasTurn(s, e.turn)
          BY <2>1, <5>3, TurnFound
        <5> QED
          BY <2>8, <5>4 DEF Accepted
      <4> QED
        BY <4>1, AppendedGrows
    <3>6. \A i \in 1..Len(r.turns) :
             Held(r.turns[i].blocks) = AppendedTo(k, r.turns[i].id) /\ Glued(r.turns[i].blocks)
      <4> SUFFICES ASSUME NEW i \in 1..Len(r.turns)
                   PROVE  Held(r.turns[i].blocks) = AppendedTo(k, r.turns[i].id) /\ Glued(r.turns[i].blocks)
        OBVIOUS
      <4>1. CASE i \in 1..Len(s.turns)
        BY <2>3, <2>5, <2>8, <3>3, <4>1
      <4>2. CASE i \notin 1..Len(s.turns)
        <5>1. i = Len(s.turns) + 1
          BY <2>2, <3>3, <4>2
        <5> QED
          BY <2>5, <2>8, <3>2, <3>3, <3>4, <3>5, <5>1
      <4> QED
        BY <4>1, <4>2
    <3> QED
      BY <2>7, <3>6 DEF Coalesced, r, k
  <2>9. CASE e.type = "TurnAssistantBlockAppended"
    <3> DEFINE a == TurnAt(s, e.turn)
    <3>1. r = AppendBlock(s, e.turn, e.block) /\ e.block \in Blocks /\ HasTurn(s, e.turn)
      BY <2>1, <2>9 DEF Apply, SessionEvents, Accepted, TurnEvents
    <3>2. a \in 1..Len(s.turns) /\ s.turns[a].id = e.turn
      BY <2>1, <3>1, TurnFound
    <3>3. /\ Len(r.turns) = Len(s.turns)
          /\ \A i \in 1..Len(s.turns) :
                /\ r.turns[i].id = s.turns[i].id
                /\ r.turns[i].blocks = IF i = a THEN MergeBlock(s.turns[i].blocks, e.block)
                                       ELSE s.turns[i].blocks
      BY <2>1, <3>1, AppendBlockShape DEF SameTurns
    <3> HIDE DEF r, k, a
    <3>4. \A i \in 1..Len(s.turns) : s.turns[i].id = e.turn => i = a
      BY <2>1, <3>2 DEF LawfulInv, Tells, TellsTurns
    <3>5. SizeFor(e.turn, e) = e.block.size /\ \A t : t # e.turn => SizeFor(t, e) = 0
      BY <2>9 DEF SizeFor
    <3>6. ASSUME NEW i \in 1..Len(s.turns)
          PROVE  Held(r.turns[i].blocks) = AppendedTo(k, r.turns[i].id) /\ Glued(r.turns[i].blocks)
      <4>1. CASE i = a
        <5>1. /\ Held(MergeBlock(s.turns[a].blocks, e.block)) = Held(s.turns[a].blocks) + e.block.size
              /\ Glued(MergeBlock(s.turns[a].blocks, e.block))
          BY <2>3, <3>1, <3>2, MergeHolds
        <5>2. AppendedTo(k, e.turn) = AppendedTo(l, e.turn) + e.block.size
          BY <2>4, <3>5
        <5> QED
          BY <2>3, <3>2, <3>3, <4>1, <5>1, <5>2
      <4>2. CASE i # a
        <5>1. s.turns[i].id # e.turn
          BY <3>4, <4>2
        <5>2. AppendedTo(k, s.turns[i].id) = AppendedTo(l, s.turns[i].id)
          BY <2>4, <3>5, <5>1
        <5> QED
          BY <2>3, <3>3, <4>2, <5>2
      <4> QED
        BY <4>1, <4>2
    <3> QED
      BY <2>7, <3>3, <3>6 DEF Coalesced, r, k
  <2>10. CASE e.type \notin {"TurnStarted", "TurnAssistantBlockAppended"}
    <3>1. /\ Len(r.turns) = Len(s.turns)
          /\ \A i \in 1..Len(s.turns) :
                r.turns[i].id = s.turns[i].id /\ r.turns[i].blocks = s.turns[i].blocks
      <4>1. CASE e.type \in TurnEnds
        <5>1. HasTurn(s, e.turn)
          BY <4>1 DEF Accepted, TurnEvents
        <5>2. PICK status \in TurnStates : r = EndTurn(s, e.turn, status)
          BY <2>1, <4>1 DEF Apply, TurnEnds, TurnStates
        <5> QED
          BY <2>1, <5>1, <5>2, EndTurnShape DEF SameTurns
      <4>2. CASE e.type \notin TurnEnds
        <5>1. e.type \in {"SessionStopped", "SessionErrored", "SessionResumed",
                 "SessionEnvModeChanged", "ProviderSessionAttached", "SessionRenamed",
                 "SessionPinToggled"}
          BY <1>3, <2>10, <4>2 DEF SessionEvents, TurnEnds
        <5>2. r = CASE e.type = "SessionEnvModeChanged"   -> [s EXCEPT !.env = e.mode]
                    [] e.type = "SessionStopped"          -> [s EXCEPT !.status = "stopped"]
                    [] e.type = "SessionErrored"          -> [s EXCEPT !.status = "errored"]
                    [] e.type = "SessionResumed"          -> [s EXCEPT !.status = "running"]
                    [] e.type = "ProviderSessionAttached" -> [s EXCEPT !.provider = e.provider]
                    [] e.type = "SessionRenamed"          -> [s EXCEPT !.title = e.title]
                    [] e.type = "SessionPinToggled"       -> [s EXCEPT !.pinned = e.pinned]
          BY <2>1, <5>1 DEF Apply
        <5>3. r.turns = s.turns
          BY <2>1, <5>1, <5>2 DEF SessionData
        <5> HIDE DEF r
        <5> QED
          BY <5>3
      <4> QED
        BY <4>1, <4>2
    <3> HIDE DEF r, k
    <3> QED
      BY <2>3, <2>5, <2>7, <2>10, <3>1 DEF Coalesced, r, k
  <2> QED
    BY <2>8, <2>9, <2>10
<1> QED
  BY <1>1, <1>2, <1>3

------------------------------------------------------------------------------
(* The provider process. *)

\* A well-typed process; it has an active turn once a message was written to it.
Good(p) == p \in Providers /\ (p.work # <<>> => p.active \in TurnIds)

\* A step from p to q that its pump does not notice: what is at the head of the
\* channel stays there until the pump consumes it.
Evolves(p, q) ==
  /\ Good(q)
  /\ q.phase = "unborn" <=> p.phase = "unborn"
  /\ p.out # <<>> => q.out # <<>> /\ Head(q.out) = Head(p.out)

\* ProviderSession::send puts a command into the inbox and touches nothing else.
LEMMA PushEvolves ==
  ASSUME NEW p, Good(p), NEW c \in ProviderCommands
  PROVE  Evolves(p, Push(p, c))
<1>1. p.inbox \in Seq(ProviderCommands)
  BY DEF Good, Providers
<1>2. Append(p.inbox, c) \in Seq(ProviderCommands)
  BY <1>1, AppendProperties
<1> QED
  BY <1>2 DEF Good, Evolves, Push, Providers

\* A command writer that returns loses its inbox, not what the child printed.
LEMMA WriterGoneGood ==
  ASSUME NEW p, Good(p)
  PROVE  /\ Good(WriterGone(p))
         /\ WriterGone(p).out = p.out /\ WriterGone(p).phase = p.phase
<1>1. <<>> \in Seq(ProviderCommands)
  BY EmptySeq
<1> QED
  BY <1>1 DEF Good, WriterGone, Providers

\* Whatever command the writer task takes, and whether the child still runs or
\* not, the events its pump has not received stay where they are.
LEMMA WriterEvolves ==
  ASSUME NEW p, Good(p), CanWrite(p)
  PROVE  Evolves(p, WriterStep(p))
<1> DEFINE c == Head(p.inbox)
<1>1. /\ c \in ProviderCommands /\ Tail(p.inbox) \in Seq(ProviderCommands)
      /\ p.work \in Seq(TurnIds)
  BY HeadTailProperties DEF Good, Providers, CanWrite
<1>2. WriterStep(p) = CASE c.type = "SendMessage" -> WriteMessage(p, c.turn)
         [] c.type \in {"Interrupt", "Stop"} -> KillChild(p)
         [] c.type \in {"ApproveToolUse", "RejectToolUse"} -> WriteApproval(p)
  BY DEF WriterStep
<1> HIDE DEF c
<1>3. CASE c.type = "SendMessage"
  <2>1. c.turn \in TurnIds
    BY <1>1, <1>3 DEF ProviderCommands
  <2>2. Append(p.work, c.turn) \in Seq(TurnIds)
    BY <1>1, <2>1, AppendProperties
  <2>3. CASE Running(p)
    <3> DEFINE q == [p EXCEPT !.inbox = Tail(@), !.active = c.turn,
                              !.work = Append(@, c.turn)]
    <3>1. WriterStep(p) = q
      BY <1>2, <1>3, <2>3 DEF WriteMessage
    <3>2. q \in Providers /\ q.active = c.turn /\ q.out = p.out /\ q.phase = p.phase
      BY <1>1, <2>1, <2>2 DEF Good, Providers
    <3> HIDE DEF q
    <3> QED
      BY <2>1, <3>1, <3>2 DEF Evolves, Good
  <2>4. CASE ~Running(p)
    <3>1. WriterStep(p) = [WriterGone(p) EXCEPT !.active = c.turn]
      BY <1>2, <1>3, <2>4 DEF WriteMessage
    <3>2. ASSUME NEW q, Good(q)
          PROVE  LET r == [q EXCEPT !.active = c.turn]
                 IN Good(r) /\ r.out = q.out /\ r.phase = q.phase
      BY <2>1, <3>2 DEF Good, Providers
    <3> QED
      BY <3>1, <3>2, WriterGoneGood DEF Evolves
  <2> QED
    BY <2>3, <2>4
<1>4. CASE c.type \in {"Interrupt", "Stop"}
  <2>1. KillChild(p) = [WriterGone(p) EXCEPT !.phase = IF Running(p) THEN "killed" ELSE @]
    BY DEF KillChild
  <2>2. WriterStep(p) = KillChild(p)
    BY <1>2, <1>4
  <2>3. ASSUME NEW q, Good(q), NEW ph \in ProviderPhases
        PROVE  LET r == [q EXCEPT !.phase = ph]
               IN Good(r) /\ r.out = q.out /\ r.phase = ph
    BY <2>3 DEF Good, Providers
  <2>4. Good(WriterGone(p)) /\ WriterGone(p).out = p.out /\ WriterGone(p).phase = p.phase
    BY WriterGoneGood
  <2>5. p.phase \in ProviderPhases
    BY DEF Good, Providers
  <2>6. CASE Running(p)
    <3>1. "killed" \in ProviderPhases /\ p.phase # "unborn"
      BY <2>6 DEF ProviderPhases, Running
    <3>2. WriterStep(p) = [WriterGone(p) EXCEPT !.phase = "killed"]
      BY <2>1, <2>2, <2>6
    <3> QED
      BY <2>3, <2>4, <3>1, <3>2 DEF Evolves
  <2>7. CASE ~Running(p)
    <3>1. WriterStep(p) = [WriterGone(p) EXCEPT !.phase = WriterGone(p).phase]
      BY <2>1, <2>2, <2>7
    <3>2. WriterGone(p).phase \in ProviderPhases
      BY <2>4, <2>5
    <3> QED
      BY <2>3, <2>4, <3>1, <3>2 DEF Evolves
  <2> QED
    BY <2>6, <2>7
<1>5. CASE c.type \in {"ApproveToolUse", "RejectToolUse"}
  <2>1. CASE Running(p)
    BY <1>1, <1>2, <1>5, <2>1 DEF WriteApproval, Evolves, Good, Providers
  <2>2. CASE ~Running(p)
    BY <1>2, <1>5, <2>2, WriterGoneGood DEF WriteApproval, Evolves
  <2> QED
    BY <2>1, <2>2
<1> QED
  BY <1>1, <1>3, <1>4, <1>5 DEF ProviderCommands

\* An event goes to the end of the channel: the event at its head stays there.
LEMMA EmitGood ==
  ASSUME NEW p, Good(p), NEW e \in ProviderEvents
  PROVE  /\ Good(Emit(p, e)) /\ Emit(p, e).out # <<>>
         /\ p.out # <<>> => Head(Emit(p, e).out) = Head(p.out)
         /\ Emit(p, e).phase = p.phase
<1>1. p.out \in Seq(ProviderEvents)
  BY DEF Good, Providers
<1>2. /\ Append(p.out, e) \in Seq(ProviderEvents) /\ Append(p.out, e) # <<>>
      /\ p.out # <<>> => Head(Append(p.out, e)) = Head(p.out)
  BY <1>1, AppendProperties
<1> QED
  BY <1>2 DEF Emit, Good, Providers

\* A line of output appends one event.
LEMMA LineEvolves ==
  ASSUME NEW p, Good(p), NEW e \in ProviderEvents
  PROVE  Evolves(p, PrintLine(p, e))
<1>1. ASSUME NEW q, Good(q)
      PROVE  LET r == [q EXCEPT !.lines = @ + 1]
             IN Good(r) /\ r.out = q.out /\ r.phase = q.phase
  <2>1. q.lines + 1 \in Nat
    BY <1>1 DEF Good, Providers
  <2>2. ASSUME NEW n \in Nat
        PROVE  LET r == [q EXCEPT !.lines = n]
               IN Good(r) /\ r.out = q.out /\ r.phase = q.phase
    BY <1>1, <2>2 DEF Good, Providers
  <2> QED
    BY <2>1, <2>2
<1> QED
  BY <1>1, EmitGood DEF PrintLine, Evolves

\* Every line the reader task parses, and the end of the child, append events
\* that carry a turn id once a message was written, and keep the head.
LEMMA PrintEvolves ==
  ASSUME NEW p, Good(p)
  PROVE  /\ \A id \in ProviderIds : Evolves(p, PrintReady(p, id))
         /\ p.work # <<>> =>
                /\ \A b \in Blocks : Evolves(p, PrintBlock(p, b))
                /\ Evolves(p, AskTool(p))
                /\ \A failed \in BOOLEAN : Evolves(p, PrintResult(p, failed))
         /\ CanPrint(p) => Evolves(p, ExitChild(p))
<1>1. ASSUME NEW id \in ProviderIds
      PROVE  Evolves(p, PrintReady(p, id))
  <2>1. SessionReady(id) \in ProviderEvents
    BY DEF SessionReady, ProviderEvents
  <2> QED
    BY <2>1, LineEvolves DEF PrintReady
<1>2. ASSUME p.work # <<>>, NEW b \in Blocks
      PROVE  Evolves(p, PrintBlock(p, b))
  <2>1. AssistantBlock(p.active, b) \in ProviderEvents
    BY <1>2 DEF AssistantBlock, ProviderEvents, Good
  <2> QED
    BY <2>1, LineEvolves DEF PrintBlock
<1>3. ASSUME p.work # <<>>
      PROVE  Evolves(p, AskTool(p))
  <2>1. ToolApprovalRequested(p.active) \in ProviderEvents
    BY <1>3 DEF ToolApprovalRequested, ProviderEvents, Good
  <2>2. Evolves(p, PrintLine(p, ToolApprovalRequested(p.active)))
    BY <2>1, LineEvolves
  <2>3. ASSUME NEW q, Good(q)
        PROVE  LET r == [q EXCEPT !.asking = TRUE]
               IN Good(r) /\ r.out = q.out /\ r.phase = q.phase
    BY <2>3 DEF Good, Providers
  <2> QED
    BY <2>2, <2>3 DEF AskTool, Evolves
<1>4. ASSUME p.work # <<>>, NEW failed \in BOOLEAN
      PROVE  Evolves(p, PrintResult(p, failed))
  <2> DEFINE e == IF failed THEN TurnFailed(p.active) ELSE TurnCompleted(p.active)
  <2>1. e \in ProviderEvents
    BY <1>4 DEF TurnFailed, TurnCompleted, ProviderEvents, Good
  <2>2. PrintResult(p, failed) = [Emit(p, e) EXCEPT !.work = Tail(@)]
    BY DEF PrintResult
  <2> HIDE DEF e
  <2>3. Emit(p, e).work = p.work /\ Emit(p, e).active = p.active
    BY DEF Emit, Good, Providers
  <2>4. Tail(p.work) \in Seq(TurnIds) /\ p.active \in TurnIds
    BY <1>4, HeadTailProperties DEF Good, Providers
  <2>5. ASSUME NEW q, Good(q), q.work = p.work, q.active = p.active
        PROVE  LET r == [q EXCEPT !.work = Tail(@)]
               IN Good(r) /\ r.out = q.out /\ r.phase = q.phase
    BY <2>4, <2>5 DEF Good, Providers
  <2> QED
    BY <2>1, <2>2, <2>3, <2>5, EmitGood DEF Evolves
<1>5. ASSUME CanPrint(p)
      PROVE  Evolves(p, ExitChild(p))
  <2>1. SessionEnded \in ProviderEvents /\ <<>> \in Seq(TurnIds)
    BY EmptySeq DEF SessionEnded, ProviderEvents
  <2>2. ASSUME NEW q, Good(q)
        PROVE  LET r == [q EXCEPT !.phase = "exited", !.work = <<>>, !.asking = FALSE]
               IN Good(r) /\ r.out = q.out /\ r.phase = "exited"
    BY <2>1, <2>2 DEF Good, Providers, ProviderPhases
  <2> QED
    BY <1>5, <2>1, <2>2, EmitGood DEF ExitChild, CanPrint, Evolves
<1> QED
  BY <1>1, <1>2, <1>3, <1>4, <1>5

\* The child runs, or has been sent a kill signal and not ended yet.
Alive == {"running", "killed"}

\* A step from p to q as far as the end of the child goes: it ends with SessionEnded,
\* and once it has ended it says nothing more.
Goes(p, q) ==
  /\ p.phase = "exited" => q.phase = "exited" /\ q.out = p.out
  /\ p.phase \in Alive => \/ q.phase \in Alive
                          \/ q.phase = "exited" /\ q.out = Append(p.out, SessionEnded)

\* A command in the inbox changes neither, and the writer only kills.
LEMMA CommandsGo ==
  ASSUME NEW p, Good(p)
  PROVE  /\ Goes(p, p) /\ \A c : Goes(p, Push(p, c))
         /\ CanWrite(p) => Goes(p, WriterStep(p))
<1>1. p \in Providers
  BY DEF Good
<1>2. Goes(p, p)
  BY DEF Goes
<1>3. ASSUME NEW q, q.out = p.out, q.phase = p.phase \/ (p.phase = "running" /\ q.phase = "killed")
      PROVE  Goes(p, q)
  BY <1>3 DEF Goes, Alive
<1>4. ASSUME NEW c
      PROVE  Goes(p, Push(p, c))
  <2>1. ASSUME NEW i
        PROVE  LET q == [p EXCEPT !.inbox = i] IN q.out = p.out /\ q.phase = p.phase
    BY <1>1 DEF Providers
  <2> QED
    BY <1>2, <1>3, <2>1 DEF Push
<1>5. ASSUME CanWrite(p)
      PROVE  Goes(p, WriterStep(p))
  <2> DEFINE c == Head(p.inbox)
  <2>1. c \in ProviderCommands
    BY <1>1, <1>5, HeadTailProperties DEF Providers, CanWrite
  <2>2. WriterStep(p) = CASE c.type = "SendMessage" -> WriteMessage(p, c.turn)
         [] c.type \in {"Interrupt", "Stop"} -> KillChild(p)
         [] c.type \in {"ApproveToolUse", "RejectToolUse"} -> WriteApproval(p)
    BY DEF WriterStep
  <2> HIDE DEF c
  <2>3. WriterGone(p) \in Providers /\ WriterGone(p).out = p.out /\ WriterGone(p).phase = p.phase
    BY WriterGoneGood DEF Good
  <2>4. ASSUME NEW r \in Providers, NEW i, NEW a, NEW w, NEW k
        PROVE  /\ LET q == [r EXCEPT !.inbox = i, !.active = a, !.work = w]
                  IN q.out = r.out /\ q.phase = r.phase
               /\ LET q == [r EXCEPT !.active = a] IN q.out = r.out /\ q.phase = r.phase
               /\ LET q == [r EXCEPT !.inbox = i, !.asking = a]
                  IN q.out = r.out /\ q.phase = r.phase
               /\ LET q == [r EXCEPT !.phase = k] IN q.out = r.out /\ q.phase = k
    BY DEF Providers
  <2>5. CASE c.type = "SendMessage"
    <3>1. WriteMessage(p, c.turn).out = p.out /\ WriteMessage(p, c.turn).phase = p.phase
      BY <1>1, <2>3, <2>4 DEF WriteMessage
    <3> QED
      BY <1>3, <2>2, <2>5, <3>1
  <2>6. CASE c.type \in {"Interrupt", "Stop"}
    <3>1. /\ KillChild(p).out = p.out
          /\ KillChild(p).phase = IF Running(p) THEN "killed" ELSE p.phase
      BY <2>3, <2>4 DEF KillChild
    <3> QED
      BY <1>3, <2>2, <2>6, <3>1 DEF Running
  <2>7. CASE c.type \in {"ApproveToolUse", "RejectToolUse"}
    <3>1. WriteApproval(p).out = p.out /\ WriteApproval(p).phase = p.phase
      BY <1>1, <2>3, <2>4 DEF WriteApproval
    <3> QED
      BY <1>3, <2>2, <2>7, <3>1
  <2> QED
    BY <2>1, <2>5, <2>6, <2>7 DEF ProviderCommands
<1> QED
  BY <1>2, <1>4, <1>5

\* A child that prints goes on, and its end is the last it says.
LEMMA PrintsGo ==
  ASSUME NEW p, Good(p), CanPrint(p)
  PROVE  /\ \A id : Goes(p, PrintReady(p, id))
         /\ \A b : Goes(p, PrintBlock(p, b))
         /\ Goes(p, AskTool(p))
         /\ \A failed : Goes(p, PrintResult(p, failed))
         /\ Goes(p, ExitChild(p))
<1>1. p \in Providers /\ p.phase \in Alive /\ p.phase # "exited"
  BY DEF Good, CanPrint, Alive
<1>2. ASSUME NEW q, q.phase = p.phase
      PROVE  Goes(p, q)
  BY <1>1, <1>2 DEF Goes
<1>3. \A e : /\ Emit(p, e) = [p EXCEPT !.out = Append(p.out, e)]
             /\ Emit(p, e).phase = p.phase
  BY <1>1 DEF Emit, Providers
<1>4. \A e : PrintLine(p, e).phase = p.phase
  BY <1>1 DEF PrintLine, Emit, Providers
<1>5. AskTool(p).phase = p.phase
  BY <1>1 DEF AskTool, PrintLine, Emit, Providers
<1>6. \A failed : PrintResult(p, failed).phase = p.phase
  BY <1>1 DEF PrintResult, Emit, Providers
<1>7. ExitChild(p).phase = "exited" /\ ExitChild(p).out = Append(p.out, SessionEnded)
  BY <1>1 DEF ExitChild, Emit, Providers
<1> QED
  BY <1>1, <1>2, <1>4, <1>5, <1>6, <1>7 DEF PrintReady, PrintBlock, Goes

------------------------------------------------------------------------------
(* The supervisor. *)

\* The databases.
StoredInv(l, s) ==
  /\ l \in Seq(SessionEvents) /\ s \in SessionStates
  /\ l = <<>> => s = Absent

\* A handler on log l of state s.  The last conjunct is the one that matters: it
\* speaks of the present log only, so that it is kept by every append of another
\* writer, which falsifies its hypothesis for good (the log only grows).
GoodTask(t, l, s) ==
  /\ t \in Tasks /\ t.expected <= Len(l)
  /\ t.op \in {"send", "interrupt"} => t.turn \in TurnIds
  /\ t.pc = "spawn" => t.op \in {"start", "resume"}
  /\ t.pc = "project" => t.events # <<>>
  /\ t.pc = "append" =>
         /\ t.events \in Batches
         /\ t.expected = Len(l) =>
                \E c \in CommandsOf(t) : Decide(s, c).events = <<Head(t.events)>>

\* A pump's cache is the state whenever its version is the length of the log.  It
\* can be behind the log, then the append conflicts; it is never ahead.
GoodCache(u, l, s) ==
  /\ u \in Pumps /\ u.version <= Len(l)
  /\ u.version = 0 => u.cache = Absent
  /\ u.version = Len(l) => u.cache = s

\* A pump with process p.  It decided on the event at the head of the channel,
\* which stays there until the append went through.
GoodPump(u, p, l, s) ==
  /\ GoodCache(u, l, s)
  /\ u.pc \in {"append", "project"} => p.out # <<>>
  /\ u.pc = "append" =>
         /\ Len(u.events) = 1
         /\ u.version = Len(l) => Decide(s, CommandOf(Head(p.out))).events = u.events

\* Every handler, process and pump is good.
TaskInv == task \in [Handlers -> Tasks] /\ \A h \in Handlers : GoodTask(task[h], log, state)
ProvInv == prov \in [Gens -> Providers] /\ \A g \in Gens : Good(prov[g])
PumpInv == pump \in [Gens -> Pumps] /\ \A g \in Gens : GoodPump(pump[g], prov[g], log, state)

\* The row, the live map, the boot and the counters.
ViewInv ==
  /\ row \in SessionStates
  /\ live \in 0..MaxGens
  /\ phase \in {"up", "boot", "bootProject"}
  /\ phase = "bootProject" => log # <<>>
  /\ ops \in 0..MaxOps /\ crashes \in 0..MaxCrashes
  /\ {torn, lost, spawnFailed, panicked} \subseteq BOOLEAN

\* MaySpawn keeps the processes, with those about to be spawned, within MaxGens:
\* without it SpawnProvider would take a generation that does not exist.
SpawnBound == Cardinality(Spawns) + Cardinality(Spawning) <= MaxGens

\* The inductive invariant.
IndInv == StoredInv(log, state) /\ ViewInv /\ TaskInv /\ ProvInv /\ PumpInv /\ SpawnBound

------------------------------------------------------------------------------
\* Tasks, pumps and processes that have not begun satisfy the invariant.
LEMMA IdleIsGood ==
  ASSUME NEW l, NEW s, StoredInv(l, s)
  PROVE  /\ GoodTask(IdleTask, l, s)
         /\ GoodTask([IdleTask EXCEPT !.op = "delete", !.pc = "load"], l, s)
         /\ \A p : GoodPump(NoPump, p, l, s) /\ GoodPump(NewPump, p, l, s)
                   /\ GoodPump([NewPump EXCEPT !.attempt = 1], p, l, s)
         /\ Good(Unborn) /\ Good(Spawned) /\ Good([Unborn EXCEPT !.phase = "exited"])
<1>1. Len(l) \in Nat /\ (Len(l) = 0 => s = Absent)
  BY EmptySeq, LenProperties DEF StoredInv
<1>2. /\ <<>> \in Seq(SessionEvents) /\ <<>> \in Seq(ProviderCommands)
      /\ <<>> \in Seq(TurnIds) /\ <<>> \in Seq(ProviderEvents) /\ Absent \in SessionStates
  BY EmptySeq DEF SessionStates
<1>3. GoodTask(IdleTask, l, s)
  BY <1>1, <1>2 DEF GoodTask, IdleTask, Tasks, AllOperations
<1>4. GoodTask([IdleTask EXCEPT !.op = "delete", !.pc = "load"], l, s)
  <2>1. IdleTask \in Tasks /\ IdleTask.expected = 0
    BY <1>2 DEF IdleTask, Tasks
  <2>2. ASSUME NEW t \in Tasks, t.expected = 0
        PROVE  GoodTask([t EXCEPT !.op = "delete", !.pc = "load"], l, s)
    <3> DEFINE r == [t EXCEPT !.op = "delete", !.pc = "load"]
    <3>1. r \in Tasks /\ r.op = "delete" /\ r.pc = "load" /\ r.expected = 0
      BY <2>2 DEF Tasks, AllOperations
    <3>2. GoodTask(r, l, s)
      <4> HIDE DEF r
      <4> QED
        BY <1>1, <3>1 DEF GoodTask
    <3> QED
      BY <3>2
  <2> QED
    BY <2>1, <2>2
<1>5. ASSUME NEW p
      PROVE  GoodPump(NoPump, p, l, s) /\ GoodPump(NewPump, p, l, s)
             /\ GoodPump([NewPump EXCEPT !.attempt = 1], p, l, s)
  <2>1. ASSUME NEW u \in Pumps, u.pc \in {"none", "recv"}, u.version = 0, u.cache = Absent
        PROVE  GoodPump(u, p, l, s)
    BY <1>1, <2>1 DEF GoodPump, GoodCache
  <2>2. /\ NoPump \in Pumps /\ NoPump.pc = "none"
        /\ NoPump.version = 0 /\ NoPump.cache = Absent
    BY <1>2 DEF NoPump, Pumps
  <2>3. ASSUME NEW u \in Pumps, NEW pc \in {"recv"}
        PROVE  LET r == [u EXCEPT !.pc = pc]
               IN r \in Pumps /\ r.pc = pc /\ r.version = u.version /\ r.cache = u.cache
    BY DEF Pumps
  <2>4. ASSUME NEW u \in Pumps
        PROVE  LET r == [u EXCEPT !.attempt = 1]
               IN r \in Pumps /\ r.pc = u.pc /\ r.version = u.version /\ r.cache = u.cache
    BY DEF Pumps
  <2>5. /\ NewPump \in Pumps /\ NewPump.pc = "recv"
        /\ NewPump.version = 0 /\ NewPump.cache = Absent
    BY <2>2, <2>3 DEF NewPump
  <2> QED
    BY <2>1, <2>2, <2>4, <2>5
<1>6. Good(Unborn) /\ Good(Spawned) /\ Good([Unborn EXCEPT !.phase = "exited"])
  BY <1>2 DEF Good, Unborn, Spawned, Providers, ProviderPhases
<1> QED
  BY <1>3, <1>4, <1>5, <1>6

\* A longer log keeps a handler good: what it expected is now behind, so its
\* append conflicts and nothing is asked of its decision.
LEMMA TaskGrowth ==
  ASSUME NEW t, NEW l, NEW s, NEW k, NEW r,
         Len(l) \in Nat, Len(k) \in Nat, Len(l) < Len(k), GoodTask(t, l, s)
  PROVE  GoodTask(t, k, r)
<1>1. t.expected \in Nat
  BY DEF GoodTask, Tasks
<1>2. t.expected < Len(k)
  BY <1>1 DEF GoodTask
<1> QED
  BY <1>1, <1>2 DEF GoodTask

\* The same for a pump and its cached version.
LEMMA PumpGrowth ==
  ASSUME NEW u, NEW p, NEW q, NEW l, NEW s, NEW k, NEW r,
         Len(l) \in Nat, Len(k) \in Nat, Len(l) < Len(k),
         GoodPump(u, p, l, s), p.out # <<>> => q.out # <<>>
  PROVE  GoodPump(u, q, k, r)
<1>1. u.version \in Nat
  BY DEF GoodPump, GoodCache, Pumps
<1>2. u.version < Len(k)
  BY <1>1 DEF GoodPump, GoodCache
<1> QED
  BY <1>1, <1>2 DEF GoodPump, GoodCache

\* A step of its process leaves a pump good: it keeps the head of the channel.
LEMMA PumpEvolves ==
  ASSUME NEW u, NEW p, NEW q, NEW l, NEW s, Evolves(p, q), GoodPump(u, p, l, s)
  PROVE  GoodPump(u, q, l, s)
BY DEF Evolves, GoodPump, GoodCache

\* A process that does nothing evolves.
LEMMA GoodEvolves ==
  ASSUME NEW p, Good(p)
  PROVE  Evolves(p, p)
BY DEF Evolves

\* What a handler does after persist_and_emit.
LEMMA AfterPersistGood ==
  ASSUME NEW t \in Tasks, NEW l, NEW s, StoredInv(l, s),
         t.expected <= Len(l), t.op \in {"send", "interrupt"} => t.turn \in TurnIds
  PROVE  GoodTask(AfterPersist(t), l, s)
<1>1. <<>> \in Seq(SessionEvents)
  BY EmptySeq
<1>2. CASE t.op \in {"start", "resume"}
  <2>1. AfterPersist(t) = [t EXCEPT !.pc = "spawn", !.events = <<>>]
    BY <1>2 DEF AfterPersist
  <2> QED
    BY <1>1, <1>2, <2>1 DEF GoodTask, Tasks
<1>3. CASE t.op \in {"send", "interrupt", "stop"}
  <2>1. AfterPersist(t) = [t EXCEPT !.pc = "forward", !.events = <<>>]
    BY <1>3 DEF AfterPersist
  <2> QED
    BY <1>1, <1>3, <2>1 DEF GoodTask, Tasks
<1>4. CASE t.op \notin {"start", "resume", "send", "interrupt", "stop"}
  BY <1>4, IdleIsGood DEF AfterPersist
<1> QED
  BY <1>2, <1>3, <1>4

\* A handler that just loaded the session expects the length of the log, and
\* what it is about to append is decided on the state of that log.
LEMMA LoadedGood ==
  ASSUME StoredInv(log, state), NEW op \in AllOperations, NEW turn \in TurnIds \cup {Absent},
         op \in {"send", "interrupt"} => turn \in TurnIds, NEW decision,
         decision.error = "none" /\ decision.events # <<>> =>
             /\ decision.events \in Batches
             /\ \A t : t.op = op /\ t.turn = turn =>
                    \E c \in CommandsOf(t) :
                        Decide(state, c).events = <<Head(decision.events)>>
  PROVE  GoodTask(Loaded(op, turn, decision), log, state)
<1> DEFINE t == [op |-> op, pc |-> "append", turn |-> turn, expected |-> Len(log),
                 events |-> decision.events]
<1>1. Len(log) \in Nat
  BY LenProperties DEF StoredInv
<1>2. CASE decision.error # "none"
  BY <1>2, IdleIsGood DEF Loaded
<1>3. CASE decision.error = "none" /\ decision.events = <<>>
  <2>1. t \in Tasks /\ t.expected <= Len(log) /\ t.op = op /\ t.turn = turn
    BY <1>1, <1>3, EmptySeq DEF Tasks
  <2>2. Loaded(op, turn, decision) = AfterPersist(t)
    BY <1>3 DEF Loaded
  <2> HIDE DEF t
  <2> QED
    BY <2>1, <2>2, AfterPersistGood
<1>4. CASE decision.error = "none" /\ decision.events # <<>>
  <2>1. t \in Tasks
    BY <1>1, <1>4 DEF Tasks, Batches
  <2>2. Loaded(op, turn, decision) = t
    BY <1>4 DEF Loaded
  <2>3. /\ t.expected = Len(log) /\ t.op = op /\ t.turn = turn /\ t.pc = "append"
        /\ t.events = decision.events
    OBVIOUS
  <2>4. t.events \in Batches
    BY <1>4
  <2> HIDE DEF t
  <2>5. \E c \in CommandsOf(t) : Decide(state, c).events = <<Head(t.events)>>
    BY <1>4, <2>3
  <2> QED
    BY <1>1, <2>1, <2>2, <2>3, <2>4, <2>5 DEF GoodTask
<1> QED
  BY <1>2, <1>3, <1>4

\* An append makes the log strictly longer, with the old log as a prefix.
LEMMA LogGrows ==
  ASSUME StoredInv(log, state), NEW batch \in Batches, Persist(batch)
  PROVE  /\ StoredInv(log, state)'
         /\ Len(log) \in Nat /\ Len(log') \in Nat
         /\ Len(log') = Len(log) + Len(batch) /\ Len(batch) \in Nat /\ Len(log) < Len(log')
         /\ \A i \in 1..Len(log) : log'[i] = log[i]
         /\ log' # <<>>
<1>1. log \in Seq(SessionEvents) /\ batch \in Seq(SessionEvents) /\ Len(batch) \in 1..2
  BY DEF StoredInv, Batches
<1>2. /\ log \o batch \in Seq(SessionEvents)
      /\ Len(log \o batch) = Len(log) + Len(batch)
      /\ \A i \in 1..(Len(log) + Len(batch)) :
             (log \o batch)[i] = IF i <= Len(log) THEN log[i] ELSE batch[i - Len(log)]
  BY <1>1, ConcatProperties
<1>3. Len(log) \in Nat /\ Len(log) < Len(log) + Len(batch)
  <2>1. Len(log) \in Nat
    BY <1>1, LenProperties
  <2> QED
    BY <1>1, <2>1
<1>4. log \o batch # <<>>
  BY <1>2, <1>3, EmptySeq
<1>5. ApplyBatch(state, batch) \in SessionStates
  BY ApplyBatchTyped DEF StoredInv
<1> QED
  BY <1>1, <1>2, <1>3, <1>4, <1>5 DEF Persist, StoredInv

------------------------------------------------------------------------------
\* Sets of generations and of handlers are finite.
LEMMA SpawnCounts ==
  ASSUME NEW G \in SUBSET Gens, NEW H \in SUBSET Handlers
  PROVE  /\ IsFiniteSet(G) /\ IsFiniteSet(H)
         /\ Cardinality(G) \in Nat /\ Cardinality(H) \in Nat /\ MaxGens \in Nat
<1>1. MaxGens \in Nat /\ IsFiniteSet(Handlers)
  BY SupervisorAssumption DEF SupervisorAssumption
<1>2. IsFiniteSet(Gens)
  BY <1>1, FS_Interval DEF Gens
<1>3. IsFiniteSet(G) /\ IsFiniteSet(H)
  BY <1>1, <1>2, FS_Subset
<1> QED
  BY <1>1, <1>3, FS_CardinalityType

\* Fewer spawned processes and fewer spawning handlers stay within the bound.
LEMMA BoundKept ==
  ASSUME NEW G \in SUBSET Gens, NEW H \in SUBSET Handlers,
         NEW G2 \in SUBSET G, NEW H2 \in SUBSET H,
         Cardinality(G) + Cardinality(H) <= MaxGens
  PROVE  Cardinality(G2) + Cardinality(H2) <= MaxGens
<1>1. /\ IsFiniteSet(G) /\ IsFiniteSet(H) /\ MaxGens \in Nat
      /\ Cardinality(G) \in Nat /\ Cardinality(H) \in Nat
  BY SpawnCounts
<1>2. /\ Cardinality(G2) \in Nat /\ Cardinality(G2) <= Cardinality(G)
      /\ Cardinality(H2) \in Nat /\ Cardinality(H2) <= Cardinality(H)
  BY <1>1, FS_Subset, FS_CardinalityType
<1> QED
  BY <1>1, <1>2

\* A handler that begins a start or a resume takes one place.
LEMMA BoundBegin ==
  ASSUME NEW G \in SUBSET Gens, NEW H \in SUBSET Handlers, NEW h \in Handlers,
         NEW H2 \in SUBSET (H \cup {h}),
         Cardinality(G) + Cardinality(H) < MaxGens
  PROVE  Cardinality(G) + Cardinality(H2) <= MaxGens
<1>1. /\ IsFiniteSet(H) /\ MaxGens \in Nat
      /\ Cardinality(G) \in Nat /\ Cardinality(H) \in Nat
  BY SpawnCounts
<1>2. /\ IsFiniteSet(H \cup {h})
      /\ Cardinality(H \cup {h}) = Cardinality(H) \/ Cardinality(H \cup {h}) = Cardinality(H) + 1
  BY <1>1, FS_AddElement
<1>3. Cardinality(H2) \in Nat /\ Cardinality(H2) <= Cardinality(H \cup {h})
  BY <1>2, FS_Subset, FS_CardinalityType
<1> QED
  BY <1>1, <1>2, <1>3

\* A handler that spawns gives its place to the process.
LEMMA BoundSpawn ==
  ASSUME NEW G \in SUBSET Gens, NEW H \in SUBSET Handlers, NEW h \in H,
         NEW g \in Gens, NEW G2 \in SUBSET (G \cup {g}), NEW H2 \in SUBSET (H \ {h}),
         Cardinality(G) + Cardinality(H) <= MaxGens
  PROVE  Cardinality(G2) + Cardinality(H2) <= MaxGens
<1>1. /\ IsFiniteSet(G) /\ IsFiniteSet(H) /\ MaxGens \in Nat
      /\ Cardinality(G) \in Nat /\ Cardinality(H) \in Nat
  BY SpawnCounts
<1>2. /\ IsFiniteSet(G \cup {g})
      /\ Cardinality(G \cup {g}) = Cardinality(G) \/ Cardinality(G \cup {g}) = Cardinality(G) + 1
  BY <1>1, FS_AddElement
<1>3. IsFiniteSet(H \ {h}) /\ Cardinality(H \ {h}) = Cardinality(H) - 1
  BY <1>1, FS_RemoveElement
<1>4. Cardinality(G2) \in Nat /\ Cardinality(G2) <= Cardinality(G \cup {g})
  BY <1>2, FS_Subset, FS_CardinalityType
<1>5. Cardinality(H2) \in Nat /\ Cardinality(H2) <= Cardinality(H \ {h})
  BY <1>3, FS_Subset, FS_CardinalityType
<1> QED
  BY <1>1, <1>2, <1>3, <1>4, <1>5

\* There is a generation left for every handler about to spawn.
LEMMA RoomToSpawn ==
  ASSUME SpawnBound, NEW h \in Spawning
  PROVE  Cardinality(Spawns) + 1 \in Gens
<1>1. Spawns \in SUBSET Gens /\ Spawning \in SUBSET Handlers
  BY DEF Spawns, Spawning
<1>2. /\ IsFiniteSet(Spawning) /\ MaxGens \in Nat
      /\ Cardinality(Spawns) \in Nat /\ Cardinality(Spawning) \in Nat
  BY <1>1, SpawnCounts
<1>3. Cardinality(Spawning) # 0
  BY <1>2, FS_EmptySet
<1> QED
  BY <1>2, <1>3 DEF SpawnBound, Gens

------------------------------------------------------------------------------
\* A step of one handler that leaves the log alone keeps the other handlers good.
LEMMA TaskFrame ==
  ASSUME TaskInv, NEW h \in Handlers, NEW t, GoodTask(t, log, state), UNCHANGED stored,
         task' = [task EXCEPT ![h] = t]
  PROVE  TaskInv'
BY DEF TaskInv, GoodTask, stored

\* So does one that makes the log longer.
LEMMA TaskGrown ==
  ASSUME TaskInv, Len(log) \in Nat, Len(log') \in Nat, Len(log) < Len(log'),
         NEW h \in Handlers, NEW t, GoodTask(t, log', state'),
         task' = [task EXCEPT ![h] = t]
  PROVE  TaskInv'
<1>1. \A i \in Handlers : GoodTask(task[i], log', state')
  BY TaskGrowth DEF TaskInv
<1>2. \A i \in Handlers : task'[i] = IF i = h THEN t ELSE task[i]
  BY DEF TaskInv
<1>3. t \in Tasks
  BY DEF GoodTask
<1> QED
  BY <1>1, <1>2, <1>3 DEF TaskInv

\* And a step of a pump or of the boot that makes the log longer.
LEMMA TaskSameGrown ==
  ASSUME TaskInv, Len(log) \in Nat, Len(log') \in Nat, Len(log) < Len(log'), task' = task
  PROVE  TaskInv'
BY TaskGrowth DEF TaskInv

\* A step of one process keeps processes and pumps good and spawns nothing.
LEMMA ProvFrame ==
  ASSUME ProvInv, PumpInv, UNCHANGED <<stored, pump>>,
         NEW g \in Gens, NEW q, Evolves(prov[g], q), prov' = [prov EXCEPT ![g] = q]
  PROVE  ProvInv' /\ PumpInv' /\ Spawns' = Spawns
<1>1. \A i \in Gens : prov'[i] = IF i = g THEN q ELSE prov[i]
  BY DEF ProvInv
<1>2. \A i \in Gens : Evolves(prov[i], prov'[i])
  BY <1>1, GoodEvolves DEF ProvInv
<1>3. ProvInv'
  BY <1>1, <1>2 DEF ProvInv, Evolves, Good
<1>4. PumpInv'
  BY <1>2, PumpEvolves DEF PumpInv, stored
<1>5. Spawns' = Spawns
  BY <1>2 DEF Spawns, Evolves
<1> QED
  BY <1>3, <1>4, <1>5

\* A step of one pump that consumes no event keeps the other pumps good.
LEMMA PumpFrame ==
  ASSUME PumpInv, UNCHANGED <<stored, prov>>, NEW g \in Gens, NEW u,
         GoodPump(u, prov[g], log, state), pump' = [pump EXCEPT ![g] = u]
  PROVE  PumpInv'
BY DEF PumpInv, GoodPump, GoodCache, stored

\* Nor does consuming an event, when the pump goes back to receiving.
LEMMA Consumed ==
  ASSUME ProvInv, PumpInv, UNCHANGED stored, NEW g \in Gens, NEW u,
         GoodCache(u, log, state), u.pc = "recv", prov[g].out # <<>>,
         pump' = [pump EXCEPT ![g] = u], Consume(g)
  PROVE  ProvInv' /\ PumpInv' /\ Spawns' = Spawns
<1> DEFINE q == [prov[g] EXCEPT !.out = Tail(@)]
<1>1. prov' = [prov EXCEPT ![g] = q]
  BY DEF Consume
<1>2. Good(q) /\ q.phase = prov[g].phase
  <2>1. ASSUME NEW p, Good(p), p.out # <<>>
        PROVE  LET r == [p EXCEPT !.out = Tail(@)] IN Good(r) /\ r.phase = p.phase
    <3>1. Tail(p.out) \in Seq(ProviderEvents)
      BY <2>1, HeadTailProperties DEF Good, Providers
    <3> QED
      BY <2>1, <3>1 DEF Good, Providers
  <2> QED
    BY <2>1 DEF ProvInv
<1> HIDE DEF q
<1>3. \A i \in Gens : prov'[i] = IF i = g THEN q ELSE prov[i]
  BY <1>1 DEF ProvInv
<1>4. ProvInv'
  BY <1>1, <1>2, <1>3 DEF ProvInv, Good
<1>5. GoodPump(u, q, log, state)
  BY DEF GoodPump
<1>6. PumpInv'
  BY <1>3, <1>5 DEF PumpInv, stored, GoodPump, GoodCache
<1>7. Spawns' = Spawns
  BY <1>2, <1>3 DEF Spawns
<1> QED
  BY <1>4, <1>6, <1>7

\* A longer log keeps every pump good.
LEMMA PumpGrown ==
  ASSUME PumpInv, Len(log) \in Nat, Len(log') \in Nat, Len(log) < Len(log'),
         UNCHANGED prov
  PROVE  /\ \A i \in Gens : GoodPump(pump[i], prov'[i], log', state')
         /\ pump' = pump => PumpInv'
<1>1. \A i \in Gens : GoodPump(pump[i], prov'[i], log', state')
  BY PumpGrowth DEF PumpInv
<1> QED
  BY <1>1 DEF PumpInv

\* A pump that is done with an event keeps its cache and its version.
LEMMA ReceivedGood ==
  ASSUME NEW g, NEW u, NEW l, NEW s, GoodCache(u, l, s)
  PROVE  GoodCache(Received(g, u), l, s) /\ Received(g, u).pc = "recv"
<1>1. <<>> \in Seq(SessionEvents)
  BY EmptySeq
<1>2. /\ Received(g, u) \in Pumps
      /\ Received(g, u).pc = "recv"
      /\ Received(g, u).version = u.version /\ Received(g, u).cache = u.cache
  <2>1. u \in Pumps /\ 0 \in 0..1
    BY DEF GoodCache
  <2>2. ASSUME NEW n \in 0..1, NEW events \in Seq(SessionEvents)
        PROVE  LET r == [u EXCEPT !.pc = "recv", !.attempt = n, !.events = events]
               IN /\ r \in Pumps /\ r.pc = "recv"
                  /\ r.version = u.version /\ r.cache = u.cache
    BY <2>1 DEF Pumps
  <2> QED
    BY <1>1, <2>1, <2>2 DEF Received
<1> QED
  BY <1>2 DEF GoodCache

\* A handler that goes on after persisting keeps its operation.
LEMMA AfterPersistOp ==
  ASSUME NEW t \in Tasks
  PROVE  AfterPersist(t).op \in {t.op, "none"}
BY DEF AfterPersist, IdleTask, Tasks

\* Loading turns no operation into a start or a resume.
LEMMA LoadedOp ==
  ASSUME StoredInv(log, state), NEW op \in AllOperations, NEW turn \in TurnIds \cup {Absent},
         NEW decision, GoodTask(Loaded(op, turn, decision), log, state)
  PROVE  Loaded(op, turn, decision).op \in {op, "none"}
<1> DEFINE t == [op |-> op, pc |-> "append", turn |-> turn, expected |-> Len(log),
                 events |-> decision.events]
<1>1. CASE decision.error # "none"
  BY <1>1 DEF Loaded, IdleTask
<1>2. CASE decision.error = "none" /\ decision.events = <<>>
  <2>1. t \in Tasks /\ t.op = op
    BY <1>2, EmptySeq, LenProperties DEF Tasks, StoredInv
  <2>2. Loaded(op, turn, decision) = AfterPersist(t)
    BY <1>2 DEF Loaded
  <2> HIDE DEF t
  <2> QED
    BY <2>1, <2>2, AfterPersistOp
<1>3. CASE decision.error = "none" /\ decision.events # <<>>
  BY <1>3 DEF Loaded
<1> QED
  BY <1>1, <1>2, <1>3

------------------------------------------------------------------------------
\* A step of a handler that leaves the log, the row and the processes alone.
LEMMA HandlerStep ==
  ASSUME IndInv, NEW h \in Handlers, NEW t, GoodTask(t, log, state),
         task' = [task EXCEPT ![h] = t],
         t.op \in {"start", "resume"} => MaySpawn \/ h \in Spawning,
         UNCHANGED <<stored, pump, phase>>, ViewInv', ProvInv', PumpInv', Spawns' = Spawns
  PROVE  IndInv'
<1>1. TaskInv'
  BY TaskFrame DEF IndInv
<1>2. StoredInv(log, state)'
  BY DEF IndInv, stored
<1>3. \A i \in Handlers : task'[i] = IF i = h THEN t ELSE task[i]
  BY DEF IndInv, TaskInv
<1>4. Spawns \in SUBSET Gens /\ Spawning \in SUBSET Handlers /\ Spawning' \in SUBSET Handlers
  BY DEF Spawns, Spawning
<1>5. Cardinality(Spawns) + Cardinality(Spawning) <= MaxGens
  BY DEF IndInv, SpawnBound
<1>6. Cardinality(Spawns) + Cardinality(Spawning') <= MaxGens
  <2>1. CASE t.op \in {"start", "resume"} /\ MaySpawn
    <3>1. Spawning' \in SUBSET (Spawning \cup {h})
      BY <1>3 DEF Spawning
    <3> QED
      BY <1>4, <2>1, <3>1, BoundBegin DEF MaySpawn
  <2>2. CASE ~(t.op \in {"start", "resume"} /\ MaySpawn)
    <3>1. Spawning' \in SUBSET Spawning
      BY <1>3, <2>2 DEF Spawning
    <3> QED
      BY <1>4, <1>5, <3>1, BoundKept
  <2> QED
    BY <2>1, <2>2
<1> QED
  BY <1>1, <1>2, <1>6 DEF IndInv, SpawnBound

\* A command that loads and decides preserves the invariant.
LEMMA BeginStep ==
  ASSUME IndInv, NEW h \in Handlers, NEW op \in AllOperations,
         NEW turn \in TurnIds \cup {Absent},
         op \in {"send", "interrupt"} => turn \in TurnIds,
         op \in {"start", "resume"} => MaySpawn, NEW decision,
         decision.error = "none" /\ decision.events # <<>> =>
             /\ decision.events \in Batches
             /\ \A t : t.op = op /\ t.turn = turn =>
                    \E c \in CommandsOf(t) :
                        Decide(state, c).events = <<Head(decision.events)>>,
         Begin(h, op, turn, decision)
  PROVE  IndInv'
<1>1. GoodTask(Loaded(op, turn, decision), log, state)
  BY LoadedGood DEF IndInv
<1>2. Loaded(op, turn, decision).op \in {op, "none"}
  BY <1>1, LoadedOp DEF IndInv
<1>3. /\ ops' = ops + 1 /\ ops < MaxOps
      /\ task' = [task EXCEPT ![h] = Loaded(op, turn, decision)]
      /\ UNCHANGED <<stored, row, live, prov, pump, phase, crashes, history>>
  BY DEF Begin, CanBegin
<1>4. ops' \in 0..MaxOps
  BY <1>3, SupervisorAssumption DEF SupervisorAssumption, IndInv, ViewInv
<1>5. ViewInv' /\ ProvInv' /\ PumpInv' /\ Spawns' = Spawns
  BY <1>3, <1>4
     DEF IndInv, ViewInv, ProvInv, PumpInv, Spawns, stored, history, GoodPump, GoodCache
<1> QED
  BY <1>1, <1>2, <1>3, <1>5, HandlerStep

\* The decision on a command: what LoadedGood asks of it.
LEMMA DecisionOfCommand ==
  ASSUME StoredInv(log, state), NEW c \in SessionCommands
  PROVE  LET d == Decide(state, c)
         IN d.error = "none" /\ d.events # <<>> =>
                d.events \in Batches /\ d.events = <<Head(d.events)>>
<1> DEFINE d == Decide(state, c)
<1>1. CASE d.events = <<>>
  BY <1>1
<1>2. ASSUME NEW e \in SessionEvents, d = Accept(<<e>>)
      PROVE  d.events \in Batches /\ d.events = <<Head(d.events)>>
  <2>1. d.events = <<e>>
    BY <1>2 DEF Accept
  <2>2. <<e>> \in Seq(SessionEvents) /\ Len(<<e>>) = 1 /\ Head(<<e>>) = e
    OBVIOUS
  <2> QED
    BY <2>1, <2>2 DEF Batches
<1>3. d \in Decisions \/ Nothing(d)
  BY DecideTyped DEF StoredInv
<1> QED
  BY <1>1, <1>2, <1>3 DEF Decisions, Nothing

\* In particular one whose decision is Session::decide of its own command.
LEMMA CommandBegins ==
  ASSUME IndInv, NEW h \in Handlers, NEW op \in AllOperations,
         NEW turn \in TurnIds \cup {Absent},
         op \in {"send", "interrupt"} => turn \in TurnIds,
         op \in {"start", "resume"} => MaySpawn, NEW c \in SessionCommands,
         \A t : t.op = op /\ t.turn = turn => c \in CommandsOf(t),
         Begin(h, op, turn, Decide(state, c))
  PROVE  IndInv'
<1> DEFINE d == Decide(state, c)
<1>1. d.error = "none" /\ d.events # <<>> =>
          d.events \in Batches /\ d.events = <<Head(d.events)>>
  BY DecisionOfCommand DEF IndInv
<1>2. d.error = "none" /\ d.events # <<>> =>
          /\ d.events \in Batches
          /\ \A t : t.op = op /\ t.turn = turn =>
                 \E x \in CommandsOf(t) : Decide(state, x).events = <<Head(d.events)>>
  BY <1>1
<1> HIDE DEF d
<1>3. Begin(h, op, turn, d)
  BY DEF d
<1> QED
  BY <1>2, <1>3, BeginStep

\* start_session preserves the invariant.
LEMMA StartStep ==
  ASSUME IndInv, NEW h \in Handlers, NEW kind \in StartKinds, NEW env \in StartEnvs,
         StartSession(h, kind, env)
  PROVE  IndInv'
<1>1. log = <<>> /\ MaySpawn /\ Begin(h, "start", Absent, Decide(Absent, StartCmd(kind, env)))
  BY DEF StartSession
<1>2. state = Absent
  BY <1>1 DEF IndInv, StoredInv
<1>3. StartCmd(kind, env) \in SessionCommands
  BY SupervisorAssumption DEF SupervisorAssumption, StartCmd, SessionCommands
<1>4. \A t : t.op = "start" => StartCmd(kind, env) \in CommandsOf(t)
  BY DEF CommandsOf
<1> QED
  BY <1>1, <1>2, <1>3, <1>4, CommandBegins DEF AllOperations

\* interrupt_turn preserves the invariant.
LEMMA InterruptStep ==
  ASSUME IndInv, NEW h \in Handlers, NEW t \in TurnIds, InterruptTurn(h, t)
  PROVE  IndInv'
<1>1. Begin(h, "interrupt", t, Decide(state, InterruptTurnCmd(t)))
  BY DEF InterruptTurn
<1>2. InterruptTurnCmd(t) \in SessionCommands
  BY DEF InterruptTurnCmd, SessionCommands
<1>3. \A x : x.op = "interrupt" /\ x.turn = t => InterruptTurnCmd(t) \in CommandsOf(x)
  BY DEF CommandsOf
<1> QED
  BY <1>1, <1>2, <1>3, CommandBegins DEF AllOperations

\* rename_session preserves the invariant.
LEMMA RenameStep ==
  ASSUME IndInv, NEW h \in Handlers, NEW title \in Titles \cup {Absent}, RenameSession(h, title)
  PROVE  IndInv'
<1>1. Begin(h, "rename", Absent, Decide(state, RenameCmd(title)))
  BY DEF RenameSession
<1>2. RenameCmd(title) \in SessionCommands
  BY DEF RenameCmd, SessionCommands
<1>3. \A x : x.op = "rename" => RenameCmd(title) \in CommandsOf(x)
  BY DEF CommandsOf
<1> QED
  BY <1>1, <1>2, <1>3, CommandBegins DEF AllOperations

\* toggle_session_pin preserves the invariant.
LEMMA TogglePinStep ==
  ASSUME IndInv, NEW h \in Handlers, TogglePin(h)
  PROVE  IndInv'
<1>1. Begin(h, "pin", Absent, Decide(state, TogglePinCmd))
  BY DEF TogglePin
<1>2. TogglePinCmd \in SessionCommands
  BY DEF TogglePinCmd, SessionCommands
<1>3. \A x : x.op = "pin" => TogglePinCmd \in CommandsOf(x)
  BY DEF CommandsOf
<1> QED
  BY <1>1, <1>2, <1>3, CommandBegins DEF AllOperations

\* set_session_env_mode preserves the invariant.
LEMMA SetEnvStep ==
  ASSUME IndInv, NEW h \in Handlers, NEW mode \in EnvModes, SetEnvMode(h, mode)
  PROVE  IndInv'
<1>1. Begin(h, "env", Absent, Decide(state, SetEnvModeCmd(mode)))
  BY DEF SetEnvMode
<1>2. SetEnvModeCmd(mode) \in SessionCommands
  BY DEF SetEnvModeCmd, SessionCommands
<1>3. \A x : x.op = "env" => SetEnvModeCmd(mode) \in CommandsOf(x)
  BY DEF CommandsOf
<1> QED
  BY <1>1, <1>2, <1>3, CommandBegins DEF AllOperations

\* stop_session preserves the invariant.
LEMMA StopStep ==
  ASSUME IndInv, NEW h \in Handlers, StopSession(h)
  PROVE  IndInv'
<1>1. Begin(h, "stop", Absent, Decide(state, StopCmd))
  BY DEF StopSession
<1>2. StopCmd \in SessionCommands
  BY DEF StopCmd, SessionCommands
<1>3. \A x : x.op = "stop" => StopCmd \in CommandsOf(x)
  BY DEF CommandsOf
<1> QED
  BY <1>1, <1>2, <1>3, CommandBegins DEF AllOperations

\* resume_session preserves the invariant, refused before the aggregate or not.
LEMMA ResumeStep ==
  ASSUME IndInv, NEW h \in Handlers, ResumeSession(h)
  PROVE  IndInv'
<1> DEFINE refused == Pure \/ (state # Absent /\ state.provider = Absent)
<1>1. MaySpawn /\ Begin(h, "resume", Absent, IF refused THEN Refuse("NothingToResume")
                                             ELSE Decide(state, ResumeCmd))
  BY DEF ResumeSession
<1> HIDE DEF refused
<1>2. CASE refused
  <2>1. Refuse("NothingToResume").error # "none"
    BY DEF Refuse
  <2>2. Begin(h, "resume", Absent, Refuse("NothingToResume"))
    BY <1>1, <1>2
  <2> QED
    BY <1>1, <2>1, <2>2, BeginStep DEF AllOperations
<1>3. CASE ~refused
  <2>1. ResumeCmd \in SessionCommands
    BY DEF ResumeCmd, SessionCommands
  <2>2. \A x : x.op = "resume" => ResumeCmd \in CommandsOf(x)
    BY DEF CommandsOf
  <2>3. Begin(h, "resume", Absent, Decide(state, ResumeCmd))
    BY <1>1, <1>3
  <2> QED
    BY <1>1, <2>1, <2>2, <2>3, CommandBegins DEF AllOperations
<1> QED
  BY <1>2, <1>3

\* send_user_message preserves the invariant; its batch may have two events, and
\* it is the first that the session decided.
LEMMA SendStep ==
  ASSUME IndInv, NEW h \in Handlers, NEW t \in TurnIds, NEW title \in Titles \cup {Absent},
         SendUserMessage(h, t, title)
  PROVE  IndInv'
<1> DEFINE started == Decide(state, StartTurnCmd(t))
           untitled == state # Absent /\ state.title = Absent /\ state.turns = <<>>
           titled == IF untitled /\ title # Absent /\ started.error = "none"
                     THEN <<[type |-> "SessionRenamed", title |-> title]>> ELSE <<>>
           decision == [started EXCEPT !.events = @ \o titled]
<1>1. Begin(h, "send", t, decision)
  BY DEF SendUserMessage
<1>2. started = Refuse("NotFound") \/ started = Refuse("NotRunning")
      \/ started = Refuse("UnknownTurn")
      \/ started = Accept(<<[type |-> "TurnStarted", turn |-> t]>>)
  BY DEF Decide, StartTurnCmd, DecideStartTurn
<1>3. titled = <<>> \/ (title \in Titles /\ titled = <<[type |-> "SessionRenamed", title |-> title]>>)
  OBVIOUS
<1>4. \A x : x.op = "send" /\ x.turn = t => StartTurnCmd(t) \in CommandsOf(x)
  BY DEF CommandsOf
<1> HIDE DEF titled
<1>5. CASE started = Accept(<<[type |-> "TurnStarted", turn |-> t]>>)
  <2> DEFINE e == [type |-> "TurnStarted", turn |-> t]
             f == [type |-> "SessionRenamed", title |-> title]
  <2>1. e \in SessionEvents /\ (title \in Titles => f \in SessionEvents)
    BY DEF SessionEvents
  <2>2. decision.events = <<e>> \o titled /\ started.events = <<e>>
    BY <1>5 DEF Accept
  <2> HIDE DEF e, f, decision
  <2>3. /\ decision.events \in Batches /\ Head(decision.events) = e
    <3>1. CASE titled = <<>>
      <4>1. <<e>> \in Seq(SessionEvents) /\ Len(<<e>>) = 1 /\ Head(<<e>>) = e
        BY <2>1
      <4>2. <<e>> \o titled = <<e>>
        BY <3>1, <4>1, ConcatEmptySeq
      <4>3. decision.events = <<e>>
        BY <2>2, <4>2
      <4> QED
        BY <4>1, <4>3 DEF Batches
    <3>2. CASE title \in Titles /\ titled = <<f>>
      <4>1. <<e, f>> \in Seq(SessionEvents) /\ Len(<<e, f>>) = 2 /\ Head(<<e, f>>) = e
        BY <2>1, <3>2
      <4>2. <<e>> \o <<f>> = Append(<<e>>, f)
        BY <2>1, <3>2, AppendIsConcat
      <4>3. Append(<<e>>, f) = <<e, f>>
        <5>1. e \in SessionEvents /\ f \in SessionEvents /\ <<e>> \in Seq(SessionEvents)
              /\ Len(<<e>>) = 1 /\ <<e>>[1] = e
          BY <2>1, <3>2
        <5>2. /\ Append(<<e>>, f) \in Seq(SessionEvents)
              /\ Len(Append(<<e>>, f)) = 2
              /\ Append(<<e>>, f)[1] = e /\ Append(<<e>>, f)[2] = f
          BY <5>1, AppendProperties
        <5>3. <<e, f>>[1] = e /\ <<e, f>>[2] = f
          OBVIOUS
        <5>4. \A i \in 1..2 : Append(<<e>>, f)[i] = <<e, f>>[i]
          BY <5>2, <5>3
        <5> QED
          BY <4>1, <5>2, <5>4, SeqEqual
      <4>4. decision.events = <<e, f>>
        BY <2>2, <3>2, <4>2, <4>3
      <4> QED
        BY <4>1, <4>4 DEF Batches
    <3> QED
      BY <1>3, <3>1, <3>2 DEF f
  <2>4. \A x : x.op = "send" /\ x.turn = t =>
            \E c \in CommandsOf(x) : Decide(state, c).events = <<Head(decision.events)>>
    BY <1>4, <2>2, <2>3
  <2> QED
    BY <1>1, <2>3, <2>4, BeginStep DEF AllOperations, decision
<1>6. CASE started = Refuse("NotFound") \/ started = Refuse("NotRunning")
           \/ started = Refuse("UnknownTurn")
  <2>1. decision.error # "none"
    BY <1>6 DEF Refuse
  <2> HIDE DEF decision
  <2> QED
    BY <1>1, <2>1, BeginStep DEF AllOperations
<1> QED
  BY <1>2, <1>5, <1>6

------------------------------------------------------------------------------
\* Sending to the live provider, if there is one.
LEMMA LivePush ==
  ASSUME IndInv, NEW c \in ProviderCommands, UNCHANGED <<stored, pump>>,
         prov' = IF live = 0 THEN prov ELSE [prov EXCEPT ![live] = Push(@, c)]
  PROVE  ProvInv' /\ PumpInv' /\ Spawns' = Spawns
<1>1. CASE live = 0
  BY <1>1 DEF IndInv, ProvInv, PumpInv, Spawns, stored, GoodPump, GoodCache
<1>2. CASE live # 0
  <2>1. live \in Gens
    BY <1>2, SupervisorAssumption DEF SupervisorAssumption, IndInv, ViewInv, Gens
  <2>2. Evolves(prov[live], Push(prov[live], c))
    BY <2>1, PushEvolves DEF IndInv, ProvInv
  <2>3. prov' = [prov EXCEPT ![live] = Push(prov[live], c)]
    BY <1>2
  <2> QED
    BY <2>1, <2>2, <2>3, ProvFrame DEF IndInv
<1> QED
  BY <1>1, <1>2

\* A step that changes one provider process.
LEMMA ProvStep ==
  ASSUME IndInv, NEW g \in Gens, NEW q, Evolves(prov[g], q), ProviderStep(g, q)
  PROVE  IndInv'
<1>1. /\ prov' = [prov EXCEPT ![g] = q]
      /\ UNCHANGED <<stored, row, live, pump, task, phase, bounds, history>>
  BY DEF ProviderStep
<1>2. ProvInv' /\ PumpInv' /\ Spawns' = Spawns
  BY <1>1, ProvFrame DEF IndInv
<1>3. TaskInv' /\ StoredInv(log, state)' /\ ViewInv' /\ Spawning' = Spawning
  BY <1>1 DEF IndInv, TaskInv, ViewInv, Spawning, stored, bounds, history
<1> QED
  BY <1>2, <1>3 DEF IndInv, SpawnBound

\* approve_tool_use and reject_tool_use preserve the invariant.
LEMMA AnswerStep ==
  ASSUME IndInv, NEW h \in Handlers, NEW answer \in {ApproveToolUse, RejectToolUse},
         AnswerTool(h, answer)
  PROVE  IndInv'
<1>1. /\ live # 0 /\ ops < MaxOps /\ ops' = ops + 1
      /\ prov' = [prov EXCEPT ![live] = Push(@, answer)]
      /\ UNCHANGED <<stored, row, live, pump, task, phase, crashes, history>>
  BY DEF AnswerTool, CanBegin
<1>2. answer \in ProviderCommands
  BY DEF ApproveToolUse, RejectToolUse, ProviderCommands
<1>3. ProvInv' /\ PumpInv' /\ Spawns' = Spawns
  BY <1>1, <1>2, LivePush
<1>4. ops' \in 0..MaxOps
  BY <1>1, SupervisorAssumption DEF SupervisorAssumption, IndInv, ViewInv
<1>5. TaskInv' /\ StoredInv(log, state)' /\ ViewInv' /\ Spawning' = Spawning
  BY <1>1, <1>4 DEF IndInv, TaskInv, ViewInv, Spawning, stored, history
<1> QED
  BY <1>3, <1>5 DEF IndInv, SpawnBound

\* delete_session, up to the removal from the live map, preserves the invariant.
LEMMA DeleteStep ==
  ASSUME IndInv, NEW h \in Handlers, DeleteSession(h)
  PROVE  IndInv'
<1> DEFINE t == [IdleTask EXCEPT !.op = "delete", !.pc = "load"]
<1>1. /\ ops < MaxOps /\ ops' = ops + 1 /\ live' = 0
      /\ prov' = IF live = 0 THEN prov ELSE [prov EXCEPT ![live] = Push(@, StopCommand)]
      /\ task' = [task EXCEPT ![h] = t]
      /\ UNCHANGED <<stored, row, pump, phase, crashes, history>>
  BY DEF DeleteSession, CanBegin
<1>2. StopCommand \in ProviderCommands
  BY DEF StopCommand, ProviderCommands
<1>3. ProvInv' /\ PumpInv' /\ Spawns' = Spawns
  BY <1>1, <1>2, LivePush
<1>4. ops' \in 0..MaxOps /\ 0 \in 0..MaxGens
  BY <1>1, SupervisorAssumption DEF SupervisorAssumption, IndInv, ViewInv
<1>5. ViewInv'
  BY <1>1, <1>4 DEF IndInv, ViewInv, stored, history
<1>6. GoodTask(t, log, state)
  BY IdleIsGood DEF IndInv
<1>7. t.op = "delete"
  BY DEF IdleTask
<1> HIDE DEF t
<1> QED
  BY <1>1, <1>3, <1>5, <1>6, <1>7, HandlerStep

\* delete_session, from loading on, preserves the invariant.
LEMMA LoadForDeleteStep ==
  ASSUME IndInv, NEW h \in Handlers, LoadForDelete(h)
  PROVE  IndInv'
<1> DEFINE d == Decide(state, DeleteCmd)
           t == Loaded("delete", Absent, d)
<1>1. /\ task' = [task EXCEPT ![h] = t]
      /\ UNCHANGED <<stored, row, live, prov, pump, phase, bounds, history>>
  BY DEF LoadForDelete
<1>2. DeleteCmd \in SessionCommands
  BY DEF DeleteCmd, SessionCommands
<1>3. d.error = "none" /\ d.events # <<>> =>
          d.events \in Batches /\ d.events = <<Head(d.events)>>
  BY <1>2, DecisionOfCommand DEF IndInv
<1>4. \A x : x.op = "delete" => DeleteCmd \in CommandsOf(x)
  BY DEF CommandsOf
<1>5. d.error = "none" /\ d.events # <<>> =>
          \A x : x.op = "delete" /\ x.turn = Absent =>
              \E c \in CommandsOf(x) : Decide(state, c).events = <<Head(d.events)>>
  BY <1>3, <1>4
<1> HIDE DEF d
<1>6. GoodTask(t, log, state)
  BY <1>3, <1>5, LoadedGood DEF IndInv, AllOperations
<1>7. t.op \in {"delete", "none"}
  BY <1>6, LoadedOp DEF IndInv, AllOperations
<1> HIDE DEF t
<1>8. ViewInv' /\ ProvInv' /\ PumpInv' /\ Spawns' = Spawns
  BY <1>1 DEF IndInv, ViewInv, ProvInv, PumpInv, Spawns, stored, history, bounds,
              GoodPump, GoodCache
<1> QED
  BY <1>1, <1>6, <1>7, <1>8, HandlerStep

\* A batch has an event.
LEMMA BatchNotEmpty ==
  ASSUME NEW batch \in Batches
  PROVE  batch # <<>>
<1>1. Len(batch) \in 1..2
  BY DEF Batches
<1>2. Len(batch) # 0
  BY <1>1
<1> QED
  BY <1>2, EmptySeq

\* EventStore::append by a handler preserves the invariant: every other handler
\* and pump that is about to append now expects a version that is behind.
LEMMA AppendStep ==
  ASSUME IndInv, NEW h \in Handlers, AppendEvents(h)
  PROVE  IndInv'
<1> DEFINE t == task[h]
<1>1. /\ t.pc = "append"
      /\ UNCHANGED <<row, live, prov, pump, phase, bounds, lost, spawnFailed, panicked>>
  BY DEF AppendEvents
<1>2. GoodTask(t, log, state) /\ t \in Tasks
  BY DEF IndInv, TaskInv, GoodTask
<1>3. CASE Len(log) > t.expected
  <2>1. task' = [task EXCEPT ![h] = IdleTask] /\ UNCHANGED <<stored, torn>>
    BY <1>3 DEF AppendEvents
  <2>2. GoodTask(IdleTask, log, state) /\ IdleTask.op = "none"
    BY IdleIsGood DEF IndInv, IdleTask
  <2>3. ViewInv' /\ ProvInv' /\ PumpInv' /\ Spawns' = Spawns
    BY <1>1, <2>1 DEF IndInv, ViewInv, ProvInv, PumpInv, Spawns, stored, bounds,
                      GoodPump, GoodCache
  <2> QED
    BY <1>1, <2>1, <2>2, <2>3, HandlerStep
<1>4. CASE ~(Len(log) > t.expected)
  <2>1. /\ Persist(t.events) /\ task' = [task EXCEPT ![h].pc = "project"]
        /\ torn' = (torn \/ WindowOpen)
    BY <1>4 DEF AppendEvents
  <2>2. t.events \in Batches
    BY <1>1, <1>2 DEF GoodTask
  <2>3. /\ StoredInv(log, state)' /\ log' # <<>>
        /\ Len(log) \in Nat /\ Len(log') \in Nat /\ Len(log) < Len(log')
    BY <2>1, <2>2, LogGrows DEF IndInv
  <2> DEFINE r == [t EXCEPT !.pc = "project"]
  <2>4. task' = [task EXCEPT ![h] = r]
    BY <2>1
  <2>5. r.op = t.op
    BY <1>2 DEF Tasks
  <2>6. GoodTask(r, log', state')
    <3>1. t.events # <<>>
      BY <2>2, BatchNotEmpty
    <3>2. t.expected \in Nat /\ t.expected <= Len(log')
      BY <1>2, <2>3 DEF GoodTask, Tasks
    <3>3. ASSUME NEW x, x \in Tasks
          PROVE  LET y == [x EXCEPT !.pc = "project"]
                 IN /\ y \in Tasks /\ y.pc = "project" /\ y.events = x.events
                    /\ y.expected = x.expected /\ y.op = x.op /\ y.turn = x.turn
      BY <3>3 DEF Tasks
    <3>4. /\ r \in Tasks /\ r.pc = "project" /\ r.events = t.events
          /\ r.expected = t.expected /\ r.op = t.op /\ r.turn = t.turn
      BY <1>2, <3>3
    <3>5. t.op \in {"send", "interrupt"} => t.turn \in TurnIds
      BY <1>2 DEF GoodTask
    <3> HIDE DEF r, t
    <3> QED
      BY <3>1, <3>2, <3>4, <3>5 DEF GoodTask
  <2>7. TaskInv'
    <3> HIDE DEF r
    <3> QED
      BY <2>3, <2>4, <2>6, TaskGrown DEF IndInv
  <2>8. PumpInv'
    BY <1>1, <2>3, PumpGrown DEF IndInv
  <2>9. ProvInv' /\ ViewInv' /\ Spawns' = Spawns
    BY <1>1, <2>1, <2>3 DEF IndInv, ViewInv, ProvInv, Spawns, bounds, WindowOpen
  <2>10. Spawning' = Spawning
    <3> HIDE DEF r, t
    <3>1. \A i \in Handlers : task'[i] = IF i = h THEN r ELSE task[i]
      BY <2>4 DEF IndInv, TaskInv
    <3> QED
      BY <2>5, <3>1 DEF Spawning, t
  <2> QED
    BY <2>3, <2>7, <2>8, <2>9, <2>10 DEF IndInv, SpawnBound
<1> QED
  BY <1>3, <1>4

\* A crash, or a panic, keeps the log and what was spawned, and nothing else.
LEMMA MemoryLost ==
  ASSUME IndInv, LoseMemory, UNCHANGED stored
  PROVE  /\ TaskInv' /\ ProvInv' /\ PumpInv' /\ SpawnBound' /\ StoredInv(log, state)'
         /\ live' \in 0..MaxGens /\ phase' = "boot"
<1>1. /\ live' = 0 /\ phase' = "boot"
      /\ prov' = [g \in Gens |-> IF prov[g].phase = "unborn" THEN Unborn
                                 ELSE [Unborn EXCEPT !.phase = "exited"]]
      /\ pump' = [g \in Gens |-> NoPump]
      /\ task' = [h \in Handlers |-> IdleTask]
  BY DEF LoseMemory
<1>2. live' \in 0..MaxGens
  BY <1>1, SupervisorAssumption DEF SupervisorAssumption
<1>3. StoredInv(log, state)'
  BY DEF IndInv, stored
<1>4. TaskInv'
  BY <1>1, <1>3, IdleIsGood DEF TaskInv, GoodTask
<1>5. PumpInv'
  BY <1>1, <1>3, IdleIsGood DEF PumpInv, GoodPump, GoodCache
<1>6. \A g \in Gens : Good(prov'[g]) /\ (prov'[g].phase = "unborn" <=> prov[g].phase = "unborn")
  <2>1. Good(Unborn) /\ Good([Unborn EXCEPT !.phase = "exited"])
    BY IdleIsGood DEF IndInv
  <2>2. Unborn.phase = "unborn" /\ [Unborn EXCEPT !.phase = "exited"].phase = "exited"
    BY DEF Unborn
  <2> QED
    BY <1>1, <2>1, <2>2
<1>7. ProvInv'
  <2>1. \A g \in Gens : prov'[g] \in Providers
    BY <1>6 DEF Good
  <2> QED
    BY <1>1, <1>6, <2>1 DEF ProvInv
<1>8. SpawnBound'
  <2>1. Spawns' = Spawns /\ Spawning' = {}
    BY <1>1, <1>6 DEF Spawns, Spawning, IdleTask
  <2>2. Spawns \in SUBSET Gens /\ Spawning \in SUBSET Handlers
    BY DEF Spawns, Spawning
  <2>3. Cardinality(Spawns) + Cardinality({}) <= MaxGens
    BY <2>2, BoundKept DEF IndInv, SpawnBound
  <2> QED
    BY <2>1, <2>3 DEF SpawnBound
<1> QED
  BY <1>1, <1>2, <1>3, <1>4, <1>5, <1>7, <1>8

\* Projecting an event preserves the invariant, also when it panics.
LEMMA ProjectStep ==
  ASSUME IndInv, NEW h \in Handlers, ProjectEvent(h)
  PROVE  IndInv'
<1> DEFINE t == task[h]
           e == Head(t.events)
           rest == Tail(t.events)
<1>1. t.pc = "project" /\ UNCHANGED <<stored, bounds, lost, spawnFailed>>
  BY DEF ProjectEvent
<1>2. GoodTask(t, log, state) /\ t \in Tasks /\ t.events # <<>> /\ t.events \in Seq(SessionEvents)
  BY <1>1 DEF IndInv, TaskInv, GoodTask, Tasks
<1>3. e \in SessionEvents /\ rest \in Seq(SessionEvents)
  BY <1>2, HeadTailProperties
<1>4. CASE e.type # "SessionDeleted" /\ Apply(row, e) = Absent
  <2>1. LoseMemory /\ panicked' = TRUE /\ torn' = TRUE /\ UNCHANGED row
    BY <1>4 DEF ProjectEvent
  <2>2. /\ TaskInv' /\ ProvInv' /\ PumpInv' /\ SpawnBound' /\ StoredInv(log, state)'
        /\ live' \in 0..MaxGens /\ phase' = "boot"
    BY <1>1, <2>1, MemoryLost
  <2>3. ViewInv'
    BY <1>1, <2>1, <2>2 DEF IndInv, ViewInv, bounds
  <2> QED
    BY <2>2, <2>3 DEF IndInv
<1>5. CASE ~(e.type # "SessionDeleted" /\ Apply(row, e) = Absent)
  <2> DEFINE r == IF rest = <<>> THEN AfterPersist(t) ELSE [t EXCEPT !.events = rest]
  <2>1. /\ row' = Apply(row, e) /\ task' = [task EXCEPT ![h] = r]
        /\ UNCHANGED <<live, prov, pump, phase, torn, panicked>>
    BY <1>5 DEF ProjectEvent
  <2>2. row' \in SessionStates
    BY <1>3, <2>1, ApplyTyped DEF IndInv, ViewInv
  <2>3. ViewInv' /\ ProvInv' /\ PumpInv' /\ Spawns' = Spawns
    BY <1>1, <2>1, <2>2 DEF IndInv, ViewInv, ProvInv, PumpInv, Spawns, stored, bounds,
                            GoodPump, GoodCache
  <2>4. t.expected <= Len(log) /\ (t.op \in {"send", "interrupt"} => t.turn \in TurnIds)
    BY <1>2 DEF GoodTask
  <2>5. GoodTask(r, log, state) /\ r.op \in {t.op, "none"}
    <3>1. CASE rest = <<>>
      <4> HIDE DEF rest, t
      <4> QED
        BY <1>2, <2>4, <3>1, AfterPersistGood, AfterPersistOp DEF IndInv
    <3>2. CASE rest # <<>>
      <4>1. ASSUME NEW x \in Tasks, NEW events \in Seq(SessionEvents)
            PROVE  LET y == [x EXCEPT !.events = events]
                   IN /\ y \in Tasks /\ y.pc = x.pc /\ y.events = events
                      /\ y.expected = x.expected /\ y.op = x.op /\ y.turn = x.turn
        BY DEF Tasks
      <4> HIDE DEF rest, t
      <4>2. /\ r \in Tasks /\ r.pc = "project" /\ r.events = rest
            /\ r.expected = t.expected /\ r.op = t.op /\ r.turn = t.turn
        BY <1>1, <1>2, <1>3, <3>2, <4>1
      <4> HIDE DEF r
      <4> QED
        BY <2>4, <3>2, <4>2 DEF GoodTask
    <3> QED
      BY <3>1, <3>2
  <2>6. t.op \in {"start", "resume"} => h \in Spawning
    BY DEF Spawning
  <2> HIDE DEF r
  <2> QED
    BY <1>1, <2>1, <2>3, <2>5, <2>6, HandlerStep
<1> QED
  BY <1>4, <1>5

\* Sending to the live provider preserves the invariant.
LEMMA ForwardStep ==
  ASSUME IndInv, NEW h \in Handlers, NEW op, NEW removed \in BOOLEAN,
         NEW c \in ProviderCommands, Forward(h, op, removed, c)
  PROVE  IndInv'
<1>1. /\ prov' = IF live = 0 THEN prov ELSE [prov EXCEPT ![live] = Push(@, c)]
      /\ live' = IF removed THEN 0 ELSE live
      /\ task' = [task EXCEPT ![h] = IdleTask]
      /\ UNCHANGED <<stored, row, pump, phase, bounds, history>>
  BY DEF Forward
<1>2. ProvInv' /\ PumpInv' /\ Spawns' = Spawns
  BY <1>1, LivePush
<1>3. live' \in 0..MaxGens
  BY <1>1, SupervisorAssumption DEF SupervisorAssumption, IndInv, ViewInv
<1>4. ViewInv'
  BY <1>1, <1>3 DEF IndInv, ViewInv, stored, bounds, history
<1>5. GoodTask(IdleTask, log, state) /\ IdleTask.op = "none"
  BY IdleIsGood DEF IndInv, IdleTask
<1> QED
  BY <1>1, <1>2, <1>4, <1>5, HandlerStep

\* So do the three commands that end that way.
LEMMA ForwardSteps ==
  ASSUME IndInv, NEW h \in Handlers,
         ForwardMessage(h) \/ ForwardInterrupt(h) \/ ForwardStop(h)
  PROVE  IndInv'
<1>1. Interrupt \in ProviderCommands /\ StopCommand \in ProviderCommands
  BY DEF Interrupt, StopCommand, ProviderCommands
<1>2. CASE ForwardMessage(h)
  <2>1. task[h].op = "send" /\ Forward(h, "send", FALSE, SendMessage(task[h].turn))
    BY <1>2 DEF ForwardMessage, Forward
  <2>2. task[h].turn \in TurnIds
    BY <2>1 DEF IndInv, TaskInv, GoodTask
  <2>3. SendMessage(task[h].turn) \in ProviderCommands
    BY <2>2 DEF SendMessage, ProviderCommands
  <2> QED
    BY <2>1, <2>3, ForwardStep
<1>3. CASE ForwardInterrupt(h) \/ ForwardStop(h)
  BY <1>1, <1>3, ForwardStep DEF ForwardInterrupt, ForwardStop
<1> QED
  BY <1>2, <1>3

\* Spawning a provider preserves the invariant; its generation is a new one.
LEMMA SpawnStep ==
  ASSUME IndInv, NEW h \in Handlers, SpawnProvider(h)
  PROVE  IndInv'
<1> DEFINE g == Cardinality(Spawns) + 1
<1>1. /\ task[h].pc = "spawn"
      /\ prov' = [prov EXCEPT ![g] = Spawned] /\ pump' = [pump EXCEPT ![g] = NewPump]
      /\ live' = g /\ task' = [task EXCEPT ![h] = IdleTask]
      /\ UNCHANGED <<stored, row, phase, bounds, history>>
  BY DEF SpawnProvider
<1>2. h \in Spawning
  BY <1>1 DEF IndInv, TaskInv, GoodTask, Spawning
<1>3. g \in Gens
  BY <1>2, RoomToSpawn DEF IndInv
<1> HIDE DEF g
<1>4. live' \in 0..MaxGens
  BY <1>1, <1>3, SupervisorAssumption DEF SupervisorAssumption, Gens
<1>5. ViewInv' /\ StoredInv(log, state)'
  BY <1>1, <1>4 DEF IndInv, ViewInv, stored, bounds, history
<1>6. GoodTask(IdleTask, log, state) /\ IdleTask.op = "none"
  BY IdleIsGood DEF IndInv, IdleTask
<1>7. TaskInv'
  BY <1>1, <1>6, TaskFrame DEF IndInv
<1>8. Good(Spawned) /\ \A p : GoodPump(NewPump, p, log, state)
  BY IdleIsGood DEF IndInv
<1>9. \A i \in Gens : /\ prov'[i] = IF i = g THEN Spawned ELSE prov[i]
                      /\ pump'[i] = IF i = g THEN NewPump ELSE pump[i]
  BY <1>1, <1>3 DEF IndInv, ProvInv, PumpInv
<1>10. ProvInv'
  BY <1>1, <1>8, <1>9 DEF IndInv, ProvInv, Good
<1>11. PumpInv'
  <2>1. \A i \in Gens : GoodPump(pump'[i], prov'[i], log, state)
    BY <1>8, <1>9 DEF IndInv, PumpInv
  <2>2. pump' \in [Gens -> Pumps]
    BY <1>1, <1>8 DEF IndInv, PumpInv, GoodPump, GoodCache
  <2> QED
    BY <1>1, <2>1, <2>2 DEF PumpInv, stored
<1>12. SpawnBound'
  <2>1. \A i \in Handlers : task'[i] = IF i = h THEN IdleTask ELSE task[i]
    BY <1>1 DEF IndInv, TaskInv
  <2>2. Spawning' \in SUBSET (Spawning \ {h})
    BY <1>6, <2>1 DEF Spawning
  <2>3. Spawns' \in SUBSET (Spawns \cup {g})
    BY <1>9 DEF Spawns
  <2>4. Spawns \in SUBSET Gens /\ Spawning \in SUBSET Handlers
    BY DEF Spawns, Spawning
  <2>5. Cardinality(Spawns') + Cardinality(Spawning') <= MaxGens
    BY <1>2, <1>3, <2>2, <2>3, <2>4, BoundSpawn DEF IndInv, SpawnBound
  <2> QED
    BY <2>5 DEF SpawnBound
<1> QED
  BY <1>5, <1>7, <1>10, <1>11, <1>12 DEF IndInv

\* Not spawning one preserves the invariant.
LEMMA SpawnNothingStep ==
  ASSUME IndInv, NEW h \in Handlers, SpawnNothing(h)
  PROVE  IndInv'
<1>1. /\ task' = [task EXCEPT ![h] = IdleTask]
      /\ spawnFailed' = (spawnFailed \/ ~Pure)
      /\ UNCHANGED <<stored, row, live, prov, pump, phase, bounds, torn, lost, panicked>>
  BY DEF SpawnNothing
<1>2. ViewInv' /\ ProvInv' /\ PumpInv' /\ Spawns' = Spawns
  BY <1>1 DEF IndInv, ViewInv, ProvInv, PumpInv, Spawns, stored, bounds, Pure,
              GoodPump, GoodCache
<1>3. GoodTask(IdleTask, log, state) /\ IdleTask.op = "none"
  BY IdleIsGood DEF IndInv, IdleTask
<1> QED
  BY <1>1, <1>2, <1>3, HandlerStep

------------------------------------------------------------------------------
\* What a step that leaves the handlers and the view alone has to keep.
LEMMA PumpOnly ==
  ASSUME IndInv, UNCHANGED <<stored, row, live, task, phase, bounds>>,
         {torn, lost, spawnFailed, panicked}' \subseteq BOOLEAN,
         ProvInv', PumpInv', Spawns' = Spawns
  PROVE  IndInv'
<1>1. TaskInv' /\ ViewInv' /\ StoredInv(log, state)' /\ Spawning' = Spawning
  BY DEF IndInv, TaskInv, ViewInv, Spawning, stored, bounds
<1> QED
  BY <1>1 DEF IndInv, SpawnBound

\* Passing a tool prompt on preserves the invariant.
LEMMA PumpApprovalStep ==
  ASSUME IndInv, NEW g \in Gens, PumpApproval(g)
  PROVE  IndInv'
<1>1. /\ pump[g].pc = "recv" /\ prov[g].out # <<>> /\ Consume(g)
      /\ UNCHANGED <<stored, row, live, pump, task, phase, bounds, history>>
  BY DEF PumpApproval
<1>2. GoodCache(pump[g], log, state) /\ pump' = [pump EXCEPT ![g] = pump[g]]
  BY <1>1 DEF IndInv, PumpInv, GoodPump
<1>3. ProvInv' /\ PumpInv' /\ Spawns' = Spawns
  BY <1>1, <1>2, Consumed DEF IndInv
<1> QED
  BY <1>1, <1>3, PumpOnly DEF IndInv, ViewInv, history

\* Every provider event but a tool prompt becomes a command of the session.
LEMMA CommandOfTyped ==
  ASSUME NEW e \in ProviderEvents, e.type # "ToolApprovalRequested"
  PROVE  CommandOf(e) \in SessionCommands
<1>1. CASE e.type = "SessionReady"
  BY <1>1 DEF CommandOf, AttachCmd, ProviderEvents, SessionCommands
<1>2. CASE e.type = "AssistantBlock"
  <2>1. e.turn \in TurnIds /\ e.block \in Blocks
    BY <1>2 DEF ProviderEvents
  <2> QED
    BY <1>2, <2>1 DEF CommandOf, AppendCmd, SessionCommands
<1>3. CASE e.type = "TurnCompleted"
  BY <1>3 DEF CommandOf, CompleteTurnCmd, ProviderEvents, SessionCommands
<1>4. CASE e.type = "TurnFailed"
  BY <1>4 DEF CommandOf, FailTurnCmd, ProviderEvents, SessionCommands
<1>5. CASE e.type = "SessionEnded"
  BY <1>5 DEF CommandOf, StopCmd, SessionCommands
<1> QED
  BY <1>1, <1>2, <1>3, <1>4, <1>5 DEF ProviderEvents

\* A pump's decision preserves the invariant: the cache it decides on is the
\* state, or its version is behind the log and the append will conflict.
LEMMA PumpDecideStep ==
  ASSUME IndInv, NEW g \in Gens, PumpDecide(g)
  PROVE  IndInv'
<1> DEFINE p == pump[g]
           e == Head(prov[g].out)
           loads == p.cache = Absent /\ p.version = 0
           seeded == IF loads THEN [p EXCEPT !.cache = state, !.version = Len(log)] ELSE p
           decision == Decide(seeded.cache, CommandOf(e))
           u == [seeded EXCEPT !.pc = "append", !.events = decision.events]
<1>1. /\ p.pc = "recv" /\ prov[g].out # <<>> /\ e.type # "ToolApprovalRequested"
      /\ UNCHANGED <<stored, row, live, task, phase, bounds, history>>
      /\ IF decision.events = <<>>
         THEN pump' = [pump EXCEPT ![g] = Received(g, seeded)] /\ Consume(g)
         ELSE pump' = [pump EXCEPT ![g] = u] /\ UNCHANGED prov
  BY DEF PumpDecide
<1>2. GoodCache(p, log, state)
  BY DEF IndInv, PumpInv, GoodPump
<1>3. GoodCache(seeded, log, state) /\ seeded.pc = "recv"
  <2>1. CASE loads
    <3>2. Len(log) \in Nat /\ state \in SessionStates /\ p \in Pumps
          /\ (Len(log) = 0 => state = Absent)
      BY <1>2, LenProperties, EmptySeq DEF IndInv, StoredInv, GoodCache
    <3>3. seeded \in Pumps /\ seeded.pc = "recv" /\ seeded.version = Len(log)
          /\ seeded.cache = state
      <4>1. seeded = [p EXCEPT !.cache = state, !.version = Len(log)]
        BY <2>1
      <4>2. p.pc = "recv"
        BY <1>1
      <4>3. PICK cache \in SessionStates, version \in Nat : cache = state /\ version = Len(log)
        BY <3>2
      <4> HIDE DEF p, seeded
      <4>4. p \in Pumps /\ seeded = [p EXCEPT !.cache = cache, !.version = version]
        BY <3>2, <4>1, <4>3
      <4>5. seeded \in Pumps /\ seeded.pc = p.pc
            /\ seeded.version = version /\ seeded.cache = cache
        BY <4>4 DEF Pumps
      <4> QED
        BY <4>2, <4>3, <4>5
    <3> HIDE DEF seeded
    <3> QED
      BY <3>2, <3>3 DEF GoodCache
  <2>2. CASE ~loads
    BY <1>1, <1>2, <2>2
  <2> QED
    BY <2>1, <2>2
<1>4. e \in ProviderEvents
  BY <1>1, HeadTailProperties DEF IndInv, ProvInv, Good, Providers
<1>5. CommandOf(e) \in SessionCommands
  BY <1>1, <1>4, CommandOfTyped
<1>6. {torn, lost, spawnFailed, panicked}' \subseteq BOOLEAN
  BY <1>1 DEF IndInv, ViewInv, history
<1> HIDE DEF p, e, seeded
<1>7. CASE decision.events = <<>>
  <2>1. pump' = [pump EXCEPT ![g] = Received(g, seeded)] /\ Consume(g)
    BY <1>1, <1>7
  <2>2. GoodCache(Received(g, seeded), log, state) /\ Received(g, seeded).pc = "recv"
    BY <1>3, ReceivedGood
  <2>3. ProvInv' /\ PumpInv' /\ Spawns' = Spawns
    BY <1>1, <2>1, <2>2, Consumed DEF IndInv
  <2> QED
    BY <1>1, <1>6, <2>3, PumpOnly
<1>8. CASE decision.events # <<>>
  <2>1. pump' = [pump EXCEPT ![g] = u] /\ UNCHANGED prov
    BY <1>1, <1>8
  <2>2. PICK x \in SessionEvents : decision.events = <<x>>
    <3>1. seeded.cache \in SessionStates
      BY <1>3 DEF GoodCache, Pumps
    <3>2. decision \in Decisions \/ Nothing(decision)
      BY <1>5, <3>1, DecideTyped
    <3> HIDE DEF decision
    <3>3. PICK x \in SessionEvents : decision = Accept(<<x>>)
      BY <1>8, <3>2 DEF Decisions, Nothing
    <3> QED
      BY <3>3 DEF Accept
  <2>3. decision.events \in Seq(SessionEvents) /\ Len(decision.events) = 1
    <3>1. <<x>> \in Seq(SessionEvents) /\ Len(<<x>>) = 1
      OBVIOUS
    <3> QED
      BY <2>2, <3>1
  <2>4. seeded.version = Len(log) => Decide(state, CommandOf(e)).events = decision.events
    BY <1>3 DEF GoodCache
  <2> HIDE DEF decision
  <2>5. /\ u \in Pumps /\ u.pc = "append" /\ u.events = decision.events
        /\ u.version = seeded.version /\ u.cache = seeded.cache
    <3>1. ASSUME NEW y \in Pumps, NEW events \in Seq(SessionEvents)
          PROVE  LET r == [y EXCEPT !.pc = "append", !.events = events]
                 IN /\ r \in Pumps /\ r.pc = "append" /\ r.events = events
                    /\ r.version = y.version /\ r.cache = y.cache
      BY DEF Pumps
    <3> QED
      BY <1>3, <2>3, <3>1 DEF GoodCache
  <2>6. GoodPump(u, prov[g], log, state)
    <3>1. GoodCache(u, log, state)
      <4> HIDE DEF u
      <4> QED
        BY <1>3, <2>5 DEF GoodCache
    <3> HIDE DEF u
    <3> QED
      BY <1>1, <2>3, <2>4, <2>5, <3>1 DEF GoodPump, e
  <2> HIDE DEF u
  <2>7. PumpInv'
    BY <1>1, <2>1, <2>6, PumpFrame DEF IndInv
  <2>8. ProvInv' /\ Spawns' = Spawns
    BY <2>1 DEF IndInv, ProvInv, Spawns
  <2> QED
    BY <1>1, <1>6, <2>7, <2>8, PumpOnly
<1> QED
  BY <1>7, <1>8

\* A pump's append preserves the invariant: folding the batch into the cache
\* gives the new state at the new length, and a conflict drops cache and version.
LEMMA PumpAppendStep ==
  ASSUME IndInv, NEW g \in Gens, PumpAppend(g)
  PROVE  IndInv'
<1> DEFINE p == pump[g]
           u == [p EXCEPT !.pc = "project", !.version = @ + Len(p.events),
                          !.cache = ApplyBatch(@, p.events)]
<1>1. /\ p.pc = "append"
      /\ UNCHANGED <<row, live, task, phase, bounds, spawnFailed, panicked>>
  BY DEF PumpAppend
<1>2. GoodPump(p, prov[g], log, state)
  BY DEF IndInv, PumpInv
<1>3. /\ p \in Pumps /\ p.events \in Seq(SessionEvents) /\ Len(p.events) = 1
      /\ p.version \in Nat /\ p.version <= Len(log) /\ prov[g].out # <<>>
      /\ p.cache \in SessionStates /\ GoodCache(p, log, state)
  BY <1>1, <1>2 DEF GoodPump, GoodCache, Pumps
<1>4. CASE Len(log) = p.version
  <2>1. /\ Persist(p.events) /\ pump' = [pump EXCEPT ![g] = u]
        /\ torn' = (torn \/ WindowOpen) /\ UNCHANGED <<prov, lost>>
    BY <1>4 DEF PumpAppend
  <2>2. p.events \in Batches
    BY <1>3 DEF Batches
  <2>3. /\ StoredInv(log, state)' /\ log' # <<>>
        /\ Len(log) \in Nat /\ Len(log') \in Nat /\ Len(log) < Len(log')
        /\ Len(log') = Len(log) + Len(p.events)
    BY <2>1, <2>2, LogGrows DEF IndInv
  <2>4. p.cache = state /\ state' = ApplyBatch(state, p.events)
    BY <1>3, <1>4, <2>1 DEF GoodCache, Persist
  <2>5. Len(log') = p.version + Len(p.events) /\ state' = ApplyBatch(p.cache, p.events)
    BY <1>4, <2>3, <2>4
  <2>6. state' \in SessionStates
    BY <2>3 DEF StoredInv
  <2>7. /\ u \in Pumps /\ u.pc = "project" /\ u.version = Len(log') /\ u.cache = state'
    <3> HIDE DEF p
    <3>1. u = [p EXCEPT !.pc = "project", !.version = Len(log'), !.cache = state']
      BY <2>5
    <3>2. PICK cache \in SessionStates, version \in Nat :
              cache = state' /\ version = Len(log')
      BY <2>3, <2>6
    <3> HIDE DEF u
    <3>3. p \in Pumps
          /\ u = [p EXCEPT !.pc = "project", !.version = version, !.cache = cache]
      BY <1>3, <3>1, <3>2
    <3>4. u \in Pumps /\ u.pc = "project" /\ u.version = version /\ u.cache = cache
      BY <3>3 DEF Pumps
    <3> QED
      BY <3>2, <3>4
  <2> HIDE DEF u
  <2>8. GoodPump(u, prov'[g], log', state')
    BY <1>3, <2>1, <2>3, <2>7 DEF GoodPump, GoodCache
  <2>9. PumpInv'
    <3>1. \A i \in Gens : GoodPump(pump[i], prov'[i], log', state')
      BY <2>1, <2>3, PumpGrown DEF IndInv
    <3>2. \A i \in Gens : pump'[i] = IF i = g THEN u ELSE pump[i]
      BY <2>1 DEF IndInv, PumpInv
    <3>3. pump' \in [Gens -> Pumps]
      BY <2>1, <2>7 DEF IndInv, PumpInv
    <3> QED
      BY <2>8, <3>1, <3>2, <3>3 DEF PumpInv
  <2>10. TaskInv'
    BY <1>1, <2>3, TaskSameGrown DEF IndInv
  <2>11. ProvInv' /\ ViewInv' /\ SpawnBound'
    BY <1>1, <2>1, <2>3
       DEF IndInv, ViewInv, ProvInv, SpawnBound, Spawns, Spawning, bounds, WindowOpen
  <2> QED
    BY <2>3, <2>9, <2>10, <2>11 DEF IndInv
<1>5. CASE Len(log) # p.version /\ p.attempt = 0
  <2>1. pump' = [pump EXCEPT ![g] = [NewPump EXCEPT !.attempt = 1]]
        /\ UNCHANGED <<stored, prov, torn, lost>>
    BY <1>5 DEF PumpAppend
  <2>2. GoodPump([NewPump EXCEPT !.attempt = 1], prov[g], log, state)
    BY IdleIsGood DEF IndInv
  <2>3. PumpInv'
    BY <2>1, <2>2, PumpFrame DEF IndInv
  <2>4. ProvInv' /\ Spawns' = Spawns
    BY <2>1 DEF IndInv, ProvInv, Spawns
  <2>5. {torn, lost, spawnFailed, panicked}' \subseteq BOOLEAN
    BY <1>1, <2>1 DEF IndInv, ViewInv
  <2> QED
    BY <1>1, <2>1, <2>3, <2>4, <2>5, PumpOnly
<1>6. CASE Len(log) # p.version /\ p.attempt # 0
  <2>1. /\ pump' = [pump EXCEPT ![g] = Received(g, p)] /\ Consume(g) /\ lost' = TRUE
        /\ UNCHANGED <<stored, torn>>
    BY <1>6 DEF PumpAppend
  <2>2. GoodCache(Received(g, p), log, state) /\ Received(g, p).pc = "recv"
    BY <1>3, ReceivedGood
  <2>3. ProvInv' /\ PumpInv' /\ Spawns' = Spawns
    BY <1>3, <2>1, <2>2, Consumed DEF IndInv
  <2>4. {torn, lost, spawnFailed, panicked}' \subseteq BOOLEAN
    BY <1>1, <2>1 DEF IndInv, ViewInv
  <2> QED
    BY <1>1, <2>1, <2>3, <2>4, PumpOnly
<1> QED
  BY <1>4, <1>5, <1>6

\* Overwriting the row with the cache preserves the invariant.
LEMMA PumpProjectStep ==
  ASSUME IndInv, NEW g \in Gens, PumpProject(g)
  PROVE  IndInv'
<1> DEFINE p == pump[g]
<1>1. /\ p.pc = "project" /\ row' = p.cache
      /\ pump' = [pump EXCEPT ![g] = Received(g, p)] /\ Consume(g)
      /\ UNCHANGED <<stored, live, task, phase, bounds, history>>
  BY DEF PumpProject
<1>2. GoodCache(p, log, state) /\ prov[g].out # <<>>
  BY <1>1 DEF IndInv, PumpInv, GoodPump
<1>3. GoodCache(Received(g, p), log, state) /\ Received(g, p).pc = "recv"
  BY <1>2, ReceivedGood
<1>4. ProvInv' /\ PumpInv' /\ Spawns' = Spawns
  BY <1>1, <1>2, <1>3, Consumed DEF IndInv
<1>5. row' \in SessionStates
  BY <1>1, <1>2 DEF GoodCache, Pumps
<1>6. TaskInv' /\ ViewInv' /\ StoredInv(log, state)' /\ Spawning' = Spawning
  BY <1>1, <1>5 DEF IndInv, TaskInv, ViewInv, Spawning, stored, bounds, history
<1> QED
  BY <1>4, <1>6 DEF IndInv, SpawnBound

------------------------------------------------------------------------------
\* The steps of a provider process preserve the invariant.
LEMMA ProcessSteps ==
  ASSUME IndInv, NEW g \in Gens, Write(g) \/ CliPrints(g) \/ Exit(g)
  PROVE  IndInv'
<1>1. Good(prov[g])
  BY DEF IndInv, ProvInv
<1>2. CASE Write(g)
  BY <1>1, <1>2, WriterEvolves, ProvStep DEF Write
<1>3. ASSUME NEW id \in ProviderIds, Ready(g, id)
      PROVE  IndInv'
  BY <1>1, <1>3, PrintEvolves, ProvStep DEF Ready
<1>4. ASSUME NEW b \in {Text, Tool}, Stream(g, b)
      PROVE  IndInv'
  <2>1. b \in Blocks
    BY DEF Text, Tool, Blocks
  <2>2. prov[g].work # <<>> /\ ProviderStep(g, PrintBlock(prov[g], b))
    BY <1>4 DEF Stream, MayPrint, Works
  <2> QED
    BY <1>1, <2>1, <2>2, PrintEvolves, ProvStep
<1>5. CASE Ask(g)
  <2>1. prov[g].work # <<>> /\ ProviderStep(g, AskTool(prov[g]))
    BY <1>5 DEF Ask, MayPrint, Works
  <2> QED
    BY <1>1, <2>1, PrintEvolves, ProvStep
<1>6. ASSUME NEW failed \in BOOLEAN, Result(g, failed)
      PROVE  IndInv'
  <2>1. prov[g].work # <<>> /\ ProviderStep(g, PrintResult(prov[g], failed))
    BY <1>6 DEF Result, Works
  <2> QED
    BY <1>1, <2>1, PrintEvolves, ProvStep
<1>7. CASE Exit(g)
  BY <1>1, <1>7, PrintEvolves, ProvStep DEF Exit
<1> QED
  BY <1>2, <1>3, <1>4, <1>5, <1>6, <1>7 DEF CliPrints

\* A crash preserves the invariant.
LEMMA CrashStep ==
  ASSUME IndInv, Crash
  PROVE  IndInv'
<1>1. /\ LoseMemory /\ crashes < MaxCrashes /\ crashes' = crashes + 1
      /\ torn' = (torn \/ WindowOpen)
      /\ UNCHANGED <<stored, row, ops, lost, spawnFailed, panicked>>
  BY DEF Crash
<1>2. /\ TaskInv' /\ ProvInv' /\ PumpInv' /\ SpawnBound' /\ StoredInv(log, state)'
      /\ live' \in 0..MaxGens /\ phase' = "boot"
  BY <1>1, MemoryLost
<1>3. crashes' \in 0..MaxCrashes
  BY <1>1, SupervisorAssumption DEF SupervisorAssumption, IndInv, ViewInv
<1>4. ViewInv'
  BY <1>1, <1>2, <1>3 DEF IndInv, ViewInv, WindowOpen
<1> QED
  BY <1>2, <1>4 DEF IndInv

\* The boot's reconciliation preserves the invariant, whether it stops or not.
LEMMA ReconcileStep ==
  ASSUME IndInv, Reconcile
  PROVE  IndInv'
<1>1. UNCHANGED <<row, live, prov, pump, task, bounds, history>>
  BY DEF Reconcile
<1>2. CASE UNCHANGED stored /\ phase' = "up"
  BY <1>1, <1>2
     DEF IndInv, ViewInv, TaskInv, ProvInv, PumpInv, SpawnBound, Spawns, Spawning,
         stored, bounds, history, GoodPump, GoodCache
<1>3. CASE /\ state # Absent /\ state.status = "running"
           /\ Persist(Decide(state, StopCmd).events) /\ phase' = "bootProject"
  <2> DEFINE e == [type |-> "SessionStopped"]
  <2>1. Decide(state, StopCmd) = Accept(<<e>>)
    BY <1>3 DEF Decide, StopCmd, DecideStop
  <2>2. e \in SessionEvents
    BY DEF SessionEvents
  <2> HIDE DEF e
  <2>3. <<e>> \in Batches
    <3>1. <<e>> \in Seq(SessionEvents) /\ Len(<<e>>) = 1
      BY <2>2
    <3> QED
      BY <3>1 DEF Batches
  <2>4. Persist(<<e>>)
    BY <1>3, <2>1 DEF Accept
  <2>5. /\ StoredInv(log, state)' /\ log' # <<>>
        /\ Len(log) \in Nat /\ Len(log') \in Nat /\ Len(log) < Len(log')
    BY <2>3, <2>4, LogGrows DEF IndInv
  <2>6. PumpInv' /\ TaskInv'
    BY <1>1, <2>5, PumpGrown, TaskSameGrown DEF IndInv
  <2>7. ProvInv' /\ ViewInv' /\ SpawnBound'
    BY <1>1, <1>3, <2>5
       DEF IndInv, ViewInv, ProvInv, SpawnBound, Spawns, Spawning, bounds, history
  <2> QED
    BY <2>5, <2>6, <2>7 DEF IndInv
<1> QED
  BY <1>2, <1>3 DEF Reconcile

\* Projecting that stop preserves the invariant.
LEMMA ReconcileProjectStep ==
  ASSUME IndInv, ReconcileProject
  PROVE  IndInv'
<1>1. /\ phase = "bootProject" /\ phase' = "up" /\ row' = Apply(row, Last(log))
      /\ UNCHANGED <<stored, live, prov, pump, task, bounds, history>>
  BY DEF ReconcileProject
<1>2. Last(log) \in SessionEvents
  <2>1. log \in Seq(SessionEvents) /\ log # <<>>
    BY <1>1 DEF IndInv, StoredInv, ViewInv
  <2>2. Len(log) \in 1..Len(log)
    BY <2>1, EmptySeq
  <2> QED
    BY <2>1, <2>2, ElementOfSeq DEF Last
<1>3. row' \in SessionStates
  BY <1>1, <1>2, ApplyTyped DEF IndInv, ViewInv
<1> QED
  BY <1>1, <1>3
     DEF IndInv, ViewInv, TaskInv, ProvInv, PumpInv, SpawnBound, Spawns, Spawning,
         stored, bounds, history, GoodPump, GoodCache

------------------------------------------------------------------------------
\* The invariant holds initially ...
LEMMA InitIndInv ==
  Init => IndInv
<1> SUFFICES ASSUME Init
             PROVE  IndInv
  OBVIOUS
<1>1. StoredInv(log, state)
  BY EmptySeq DEF Init, StoredInv, SessionStates
<1>2. /\ GoodTask(IdleTask, log, state) /\ Good(Unborn)
      /\ \A p : GoodPump(NoPump, p, log, state)
  BY <1>1, IdleIsGood
<1>3. TaskInv /\ ProvInv /\ PumpInv
  BY <1>2 DEF Init, TaskInv, ProvInv, PumpInv, GoodTask, GoodPump, GoodCache, Good
<1>4. ViewInv
  <2>1. 0 \in 0..MaxGens /\ 0 \in 0..MaxOps /\ 0 \in 0..MaxCrashes
    BY SupervisorAssumption DEF SupervisorAssumption
  <2> QED
    BY <2>1 DEF Init, ViewInv, SessionStates
<1>5. SpawnBound
  <2>1. Spawns = {} /\ Spawning = {}
    BY DEF Init, Spawns, Spawning, Unborn, IdleTask
  <2>2. Cardinality({}) = 0 /\ MaxGens \in Nat
    BY FS_EmptySet, SupervisorAssumption DEF SupervisorAssumption
  <2> QED
    BY <2>1, <2>2 DEF SpawnBound
<1> QED
  BY <1>1, <1>3, <1>4, <1>5 DEF IndInv

\* ... and every step preserves it.
LEMMA NextIndInv ==
  IndInv /\ [Next]_vars => IndInv'
<1> SUFFICES ASSUME IndInv, [Next]_vars
             PROVE  IndInv'
  OBVIOUS
<1>1. CASE UNCHANGED vars
  BY <1>1
     DEF vars, IndInv, ViewInv, TaskInv, ProvInv, PumpInv, SpawnBound, Spawns, Spawning,
         GoodPump, GoodCache
<1>2. ASSUME NEW h \in Handlers, HandlerBegins(h)
      PROVE  IndInv'
  BY <1>2, StartStep, SendStep, InterruptStep, RenameStep, TogglePinStep, SetEnvStep,
     StopStep, ResumeStep, AnswerStep, DeleteStep
     DEF HandlerBegins
<1>3. ASSUME NEW h \in Handlers, HandlerContinues(h)
      PROVE  IndInv'
  BY <1>3, LoadForDeleteStep, AppendStep, ProjectStep, ForwardSteps, SpawnStep,
     SpawnNothingStep
     DEF HandlerContinues
<1>4. ASSUME NEW g \in Gens, PumpStep(g)
      PROVE  IndInv'
  BY <1>4, PumpApprovalStep, PumpDecideStep, PumpAppendStep, PumpProjectStep DEF PumpStep
<1>5. ASSUME NEW g \in Gens, Write(g) \/ CliPrints(g) \/ Exit(g)
      PROVE  IndInv'
  BY <1>5, ProcessSteps
<1>6. CASE Crash \/ Reconcile \/ ReconcileProject
  BY <1>6, CrashStep, ReconcileStep, ReconcileProjectStep
<1> QED
  BY <1>1, <1>2, <1>3, <1>4, <1>5, <1>6 DEF Next

\* Type correctness of the supervisor, for any number of handlers, commands,
\* processes and crashes: in particular no append of a handler or of a pump ever
\* expects a version ahead of the log, which would leave a gap.
THEOREM TypeCorrect == Spec => []TypeOK
<1>1. IndInv => TypeOK
  BY DEF IndInv, StoredInv, ViewInv, TaskInv, ProvInv, PumpInv, GoodTask, GoodPump,
         GoodCache, TypeOK
<1> QED
  BY <1>1, InitIndInv, NextIndInv, PTL DEF Spec

\* Stale decisions conflict: an append that goes through appends what the session
\* decides on the state it lands on, however handlers, pumps, crashes and boots
\* interleave between load_session and event_store.append.
THEOREM DecisionsCurrent == Spec => []DecisionsAreCurrent
<1>1. IndInv => DecisionsAreCurrent
  BY DEF IndInv, TaskInv, PumpInv, GoodTask, GoodPump, DecisionsAreCurrent
<1> QED
  BY <1>1, InitIndInv, NextIndInv, PTL DEF Spec

------------------------------------------------------------------------------
(* Every step adds a batch to the log of the session or leaves it. *)

\* A command that begins loads the log and leaves it as it is.
LEMMA BeginKeepsLog ==
  ASSUME NEW h, HandlerBegins(h)
  PROVE  log' = log
BY DEF HandlerBegins, StartSession, SendUserMessage, InterruptTurn, RenameSession, TogglePin,
       SetEnvMode, StopSession, ResumeSession, AnswerTool, DeleteSession, Begin, stored

\* Whatever writes the log adds a batch to it.
LEMMA WritesAddBatch ==
  ASSUME IndInv, [Next]_vars, log' # log
  PROVE  \E batch \in Batches : Persist(batch)
<1>1. ASSUME NEW h \in Handlers, HandlerContinues(h)
      PROVE  \E batch \in Batches : Persist(batch)
  <2>1. AppendEvents(h)
    BY <1>1 DEF HandlerContinues, LoadForDelete, ProjectEvent, ForwardMessage,
                ForwardInterrupt, ForwardStop, Forward, SpawnProvider, SpawnNothing, stored
  <2>2. task[h].pc = "append" /\ Persist(task[h].events)
    BY <2>1 DEF AppendEvents, stored
  <2> QED
    BY <2>2 DEF IndInv, TaskInv, GoodTask
<1>2. ASSUME NEW g \in Gens, PumpStep(g)
      PROVE  \E batch \in Batches : Persist(batch)
  <2>1. PumpAppend(g)
    BY <1>2 DEF PumpStep, PumpApproval, PumpDecide, PumpProject, stored
  <2>2. pump[g].pc = "append" /\ Persist(pump[g].events)
    BY <2>1 DEF PumpAppend, stored
  <2>3. pump[g].events \in Seq(SessionEvents) /\ Len(pump[g].events) = 1
    BY <2>2 DEF IndInv, PumpInv, GoodPump, Pumps
  <2> QED
    BY <2>2, <2>3 DEF Batches
<1>3. ASSUME NEW g \in Gens, Write(g) \/ CliPrints(g) \/ Exit(g)
      PROVE  FALSE
  BY <1>3 DEF Write, CliPrints, Exit, Ready, Stream, Ask, Result, ProviderStep, stored
<1>4. CASE Crash \/ ReconcileProject
  BY <1>4 DEF Crash, ReconcileProject, stored
<1>5. CASE Reconcile
  <2>1. state # Absent /\ state.status = "running" /\ Persist(Decide(state, StopCmd).events)
    BY <1>5 DEF Reconcile, stored
  <2>2. Decide(state, StopCmd).events = <<[type |-> "SessionStopped"]>>
    BY <2>1 DEF Decide, StopCmd, DecideStop, Accept
  <2>3. [type |-> "SessionStopped"] \in SessionEvents
    BY DEF SessionEvents
  <2>4. \A e \in SessionEvents : <<e>> \in Batches
    BY DEF Batches
  <2> QED
    BY <2>1, <2>2, <2>3, <2>4
<1> QED
  BY <1>1, <1>2, <1>3, <1>4, <1>5, BeginKeepsLog DEF Next, vars

------------------------------------------------------------------------------
(* The log is a lawful history.  GoodTask says which command decided the first *)
(* event of a handler's batch and GoodCache what a pump decided on; what is    *)
(* left to know is the shape of the batches.                                   *)

\* A handler about to append has an operation that decides; a start expects an
\* empty log, and a second event is the title that comes with a first message.
TaskShaped(t) ==
  t.pc = "append" =>
      /\ t.op \in AllOperations \ {"approve"}
      /\ t.op = "start" => t.expected = 0
      /\ Len(t.events) = 2 => t.op = "send" /\ t.events[2].type = "SessionRenamed"

\* A pump about to append decided on its cache, and never starts, resumes or deletes
\* a session.
PumpShaped(u) ==
  u.pc = "append" =>
      \E c \in SessionCommands : /\ c.type \notin {"Start", "Resume", "Delete"}
                                 /\ Decide(u.cache, c).events = u.events

Shapes == /\ \A h \in Handlers : TaskShaped(task[h])
          /\ \A g \in Gens : PumpShaped(pump[g])

LawInv == LawfulInv(log, state) /\ Shapes

\* A handler that began, or loaded: it has written nothing, and if it goes on to
\* spawn it has an event to append first.
Begun(t) == TaskShaped(t) /\ t.pc \notin {"project", "spawn"}

\* Loading begins a handler, when a start or a resume that is accepted has an event.
LEMMA LoadedBegun ==
  ASSUME NEW op \in AllOperations \ {"approve"}, NEW turn, NEW decision,
         op = "start" => Len(log) = 0,
         op \in {"start", "resume"} => decision.error # "none" \/ decision.events # <<>>,
         Len(decision.events) = 2 =>
             op = "send" /\ decision.events[2].type = "SessionRenamed"
  PROVE  Begun(Loaded(op, turn, decision))
<1> DEFINE t == [op |-> op, pc |-> "append", turn |-> turn, expected |-> Len(log),
                 events |-> decision.events]
<1>1. Begun(IdleTask)
  BY DEF Begun, TaskShaped, IdleTask
<1>2. CASE decision.error # "none"
  BY <1>1, <1>2 DEF Loaded
<1>3. CASE decision.error = "none" /\ decision.events = <<>>
  <2>1. Loaded(op, turn, decision) = AfterPersist(t)
    BY <1>3 DEF Loaded
  <2>2. CASE op \in {"send", "interrupt", "stop"}
    <3>1. AfterPersist(t) = [t EXCEPT !.pc = "forward", !.events = <<>>]
      BY <2>2 DEF AfterPersist
    <3>2. AfterPersist(t).pc = "forward"
      BY <3>1
    <3> QED
      BY <2>1, <3>2 DEF Begun, TaskShaped
  <2>3. CASE op \notin {"send", "interrupt", "stop"}
    <3>1. op \notin {"start", "resume"}
      BY <1>3
    <3>2. AfterPersist(t) = IdleTask
      BY <2>3, <3>1 DEF AfterPersist
    <3> QED
      BY <1>1, <2>1, <3>2
  <2> QED
    BY <2>2, <2>3
<1>4. CASE decision.error = "none" /\ decision.events # <<>>
  <2>1. Loaded(op, turn, decision) = t
    BY <1>4 DEF Loaded
  <2>2. /\ t.pc = "append" /\ t.op = op /\ t.expected = Len(log)
        /\ t.events = decision.events
    OBVIOUS
  <2> HIDE DEF t
  <2> QED
    BY <2>1, <2>2 DEF Begun, TaskShaped
<1> QED
  BY <1>2, <1>3, <1>4

\* Session::decide gives one event or none.
LEMMA DecidesOne ==
  ASSUME NEW s \in SessionStates, NEW c \in SessionCommands
  PROVE  Len(Decide(s, c).events) # 2
<1>1. \A x : Len(<<x>>) = 1
  OBVIOUS
<1>2. Len(<<>>) = 0
  OBVIOUS
<1>3. \A x : Accept(x).events = x
  BY DEF Accept
<1>4. Decide(s, c) \in Decisions \/ Nothing(Decide(s, c))
  BY DecideTyped
<1>5. CASE Decide(s, c) \in Decisions
  <2>1. PICK e \in SessionEvents : Decide(s, c) = Accept(<<e>>)
    BY <1>5 DEF Decisions
  <2> QED
    BY <1>1, <1>3, <2>1
<1>6. CASE Decide(s, c).events = <<>>
  BY <1>2, <1>6
<1> QED
  BY <1>4, <1>5, <1>6 DEF Nothing

\* Two sequences of at most one element that make two: the second is of the second.
LEMMA SecondOfTwo ==
  ASSUME NEW S, NEW a \in Seq(S), NEW b \in Seq(S), Len(a) <= 1, Len(b) <= 1,
         Len(a \o b) = 2
  PROVE  Len(b) = 1 /\ (a \o b)[2] = b[1]
<1>1. /\ Len(a) \in Nat /\ Len(b) \in Nat /\ Len(a \o b) = Len(a) + Len(b)
      /\ \A i \in 1..(Len(a) + Len(b)) :
             (a \o b)[i] = IF i <= Len(a) THEN a[i] ELSE b[i - Len(a)]
  BY ConcatProperties, LenProperties
<1>2. Len(a) = 1 /\ Len(b) = 1
  <2>1. Len(a) + Len(b) = 2 /\ Len(a) <= 1 /\ Len(b) <= 1
    BY <1>1
  <2>2. \A m, n \in Nat : m + n = 2 /\ m <= 1 /\ n <= 1 => m = 1 /\ n = 1
    OBVIOUS
  <2> QED
    BY <1>1, <2>1, <2>2, Zenon
<1>3. 2 \in 1..(Len(a) + Len(b)) /\ ~(2 <= Len(a)) /\ 2 - Len(a) = 1
  BY <1>2
<1> QED
  BY <1>1, <1>2, <1>3

\* The batch of a first message.
LEMMA SendBegun ==
  ASSUME NEW t, NEW title, NEW events, NEW titled,
         events \in {<<>>, <<[type |-> "TurnStarted", turn |-> t]>>},
         titled \in {<<>>, <<[type |-> "SessionRenamed", title |-> title]>>},
         Len(events \o titled) = 2
  PROVE  (events \o titled)[2].type = "SessionRenamed"
<1> DEFINE e == [type |-> "TurnStarted", turn |-> t]
           f == [type |-> "SessionRenamed", title |-> title]
           S == {e, f}
<1>1. f.type = "SessionRenamed" /\ e \in S /\ f \in S
  OBVIOUS
<1>2. events \in {<<>>, <<e>>} /\ titled \in {<<>>, <<f>>}
  OBVIOUS
<1> HIDE DEF e, f, S
<1>3. /\ <<>> \in Seq(S) /\ <<e>> \in Seq(S) /\ <<f>> \in Seq(S)
      /\ Len(<<>>) = 0 /\ Len(<<e>>) = 1 /\ Len(<<f>>) = 1 /\ <<f>>[1] = f
  BY <1>1, EmptySeq
<1>4. events \in Seq(S) /\ titled \in Seq(S) /\ Len(events) <= 1 /\ Len(titled) <= 1
  <2>1. 0 <= 1 /\ 1 <= 1
    OBVIOUS
  <2>2. \A x \in {<<>>, <<e>>, <<f>>} : x \in Seq(S) /\ Len(x) \in {0, 1}
    BY <1>3
  <2>3. events \in Seq(S) /\ titled \in Seq(S) /\ Len(events) \in {0, 1} /\ Len(titled) \in {0, 1}
    BY <1>2, <2>2
  <2> QED
    BY <2>1, <2>3, Zenon
<1>5. Len(titled) = 1 /\ (events \o titled)[2] = titled[1]
  <2>1. Len(events \o titled) = 2
    OBVIOUS
  <2>2. ASSUME NEW a \in Seq(S), NEW b \in Seq(S), Len(a) <= 1, Len(b) <= 1, Len(a \o b) = 2
        PROVE  Len(b) = 1 /\ (a \o b)[2] = b[1]
    BY <2>2, SecondOfTwo
  <2> QED
    BY <1>4, <2>1, <2>2
<1>6. titled = <<f>>
  BY <1>2, <1>3, <1>5
<1> QED
  BY <1>1, <1>3, <1>5, <1>6

\* Every handler that begins or loads is begun.
LEMMA HandlerBegun ==
  ASSUME IndInv, NEW h \in Handlers, HandlerBegins(h) \/ LoadForDelete(h)
  PROVE  /\ \E t : Begun(t) /\ task' = [task EXCEPT ![h] = t]
         /\ UNCHANGED <<stored, row, pump, phase, torn>>
         /\ (task[h] = IdleTask /\ phase = "up") \/ task[h].pc = "load"
<1>1. state \in SessionStates /\ (log = <<>> => Len(log) = 0) /\ log \in Seq(SessionEvents)
  BY DEF IndInv, StoredInv
<1>2. ASSUME NEW op \in AllOperations \ {"approve"}, NEW turn, NEW decision,
             Begin(h, op, turn, decision), Begun(Loaded(op, turn, decision))
      PROVE  /\ \E t : Begun(t) /\ task' = [task EXCEPT ![h] = t]
             /\ UNCHANGED <<stored, row, pump, phase, torn>>
             /\ task[h] = IdleTask /\ phase = "up"
  BY <1>2 DEF Begin, CanBegin, history
<1>3. ASSUME NEW op \in AllOperations \ {"approve", "start", "resume"}, NEW turn,
             NEW c \in SessionCommands
      PROVE  Begun(Loaded(op, turn, Decide(state, c)))
  BY <1>1, DecidesOne, LoadedBegun
<1>4. ASSUME NEW kind \in StartKinds, NEW env \in StartEnvs, StartSession(h, kind, env)
      PROVE  Begun(Loaded("start", Absent, Decide(Absent, StartCmd(kind, env))))
  <2> DEFINE e == [type |-> "SessionStarted", kind |-> kind, env |-> env]
  <2>1. Decide(Absent, StartCmd(kind, env)) = Accept(<<e>>)
    BY DEF Decide, StartCmd
  <2>2. Accept(<<e>>).events = <<e>>
    BY DEF Accept
  <2> HIDE DEF e
  <2>3. <<e>> # <<>> /\ Len(<<e>>) = 1
    OBVIOUS
  <2>4. Len(log) = 0
    BY <1>1, <1>4 DEF StartSession
  <2> DEFINE d == Decide(Absent, StartCmd(kind, env))
  <2>7. d.events = <<e>>
    BY <2>1, <2>2
  <2>5. d.events # <<>> /\ Len(d.events) # 2
    BY <2>3, <2>7
  <2> HIDE DEF d
  <2>6. Begun(Loaded("start", Absent, d))
    BY <2>4, <2>5, LoadedBegun DEF AllOperations
  <2> QED
    BY <2>6 DEF d
<1>5. ASSUME NEW t, NEW title, SendUserMessage(h, t, title)
      PROVE  /\ \E x : Begun(x) /\ task' = [task EXCEPT ![h] = x]
             /\ UNCHANGED <<stored, row, pump, phase, torn>>
             /\ task[h] = IdleTask /\ phase = "up"
  <2> DEFINE started == Decide(state, StartTurnCmd(t))
             untitled == state # Absent /\ state.title = Absent /\ state.turns = <<>>
             titled == IF untitled /\ title # Absent /\ started.error = "none"
                       THEN <<[type |-> "SessionRenamed", title |-> title]>> ELSE <<>>
             decision == [started EXCEPT !.events = @ \o titled]
  <2>1. Begin(h, "send", t, decision)
    BY <1>5 DEF SendUserMessage
  <2>2. \/ started = Accept(<<[type |-> "TurnStarted", turn |-> t]>>)
        \/ \E error : started = Refuse(error)
    BY DEF Decide, StartTurnCmd, DecideStartTurn
  <2>3. titled \in {<<>>, <<[type |-> "SessionRenamed", title |-> title]>>}
    OBVIOUS
  <2> HIDE DEF started, titled
  <2>4. /\ started.events \in {<<>>, <<[type |-> "TurnStarted", turn |-> t]>>}
        /\ decision.events = started.events \o titled
    BY <2>2 DEF Accept, Refuse
  <2> HIDE DEF decision
  <2>6. Len(started.events \o titled) = 2 =>
            (started.events \o titled)[2].type = "SessionRenamed"
    BY <2>3, <2>4, SendBegun
  <2>7. Len(decision.events) = 2 => decision.events[2].type = "SessionRenamed"
    BY <2>4, <2>6
  <2>5. Begun(Loaded("send", t, decision))
    BY <2>7, LoadedBegun DEF AllOperations
  <2> QED
    BY <1>2, <2>1, <2>5 DEF AllOperations
<1>6. ASSUME ResumeSession(h)
      PROVE  /\ \E x : Begun(x) /\ task' = [task EXCEPT ![h] = x]
             /\ UNCHANGED <<stored, row, pump, phase, torn>>
             /\ task[h] = IdleTask /\ phase = "up"
  <2> DEFINE unattached == state # Absent /\ state.provider = Absent
             d == IF Pure \/ unattached THEN Refuse("NothingToResume")
                  ELSE Decide(state, ResumeCmd)
  <2>1. Begin(h, "resume", Absent, d)
    BY <1>6 DEF ResumeSession
  <2>2. (\E error : error # "none" /\ d = Refuse(error)) \/ d = Accept(<<[type |-> "SessionResumed"]>>)
    BY DEF Decide, ResumeCmd, DecideResume
  <2> HIDE DEF d
  <2>3. d.error # "none" \/ d.events = <<[type |-> "SessionResumed"]>>
    BY <2>2 DEF Accept, Refuse
  <2>4. d.error # "none" \/ d.events # <<>>
    BY <2>3
  <2>5. Len(d.events) # 2
    <3>1. d.events \in {<<>>, <<[type |-> "SessionResumed"]>>}
      BY <2>2 DEF Accept, Refuse
    <3> QED
      BY <3>1
  <2>6. Begun(Loaded("resume", Absent, d))
    BY <2>4, <2>5, LoadedBegun DEF AllOperations
  <2> QED
    BY <1>2, <2>1, <2>6 DEF AllOperations
<1>7. ASSUME NEW t \in TurnIds, InterruptTurn(h, t)
      PROVE  Begun(Loaded("interrupt", t, Decide(state, InterruptTurnCmd(t))))
  BY <1>3 DEF AllOperations, InterruptTurnCmd, SessionCommands
<1>8. ASSUME NEW title \in Titles \cup {Absent}
      PROVE  Begun(Loaded("rename", Absent, Decide(state, RenameCmd(title))))
  BY <1>3 DEF AllOperations, RenameCmd, SessionCommands
<1>9. Begun(Loaded("pin", Absent, Decide(state, TogglePinCmd)))
  BY <1>3 DEF AllOperations, TogglePinCmd, SessionCommands
<1>10. ASSUME NEW mode \in EnvModes
       PROVE  Begun(Loaded("env", Absent, Decide(state, SetEnvModeCmd(mode))))
  BY <1>3 DEF AllOperations, SetEnvModeCmd, SessionCommands
<1>11. Begun(Loaded("stop", Absent, Decide(state, StopCmd)))
  BY <1>3 DEF AllOperations, StopCmd, SessionCommands
<1>12. Begun(Loaded("delete", Absent, Decide(state, DeleteCmd)))
  BY <1>3 DEF AllOperations, DeleteCmd, SessionCommands
<1>13. ASSUME NEW answer, AnswerTool(h, answer)
       PROVE  /\ \E x : Begun(x) /\ task' = [task EXCEPT ![h] = x]
              /\ UNCHANGED <<stored, row, pump, phase, torn>>
              /\ task[h] = IdleTask /\ phase = "up"
  <2>1. /\ task[h] = IdleTask /\ phase = "up" /\ task' = task
        /\ UNCHANGED <<stored, row, pump, phase, torn>>
    BY <1>13 DEF AnswerTool, CanBegin, history
  <2>2. task' = [task EXCEPT ![h] = IdleTask]
    BY <2>1 DEF IndInv, TaskInv
  <2>3. Begun(IdleTask)
    BY DEF Begun, TaskShaped, IdleTask
  <2> QED
    BY <2>1, <2>2, <2>3
<1>14. ASSUME DeleteSession(h)
       PROVE  /\ \E x : Begun(x) /\ task' = [task EXCEPT ![h] = x]
              /\ UNCHANGED <<stored, row, pump, phase, torn>>
              /\ task[h] = IdleTask /\ phase = "up"
  <2> DEFINE x == [IdleTask EXCEPT !.op = "delete", !.pc = "load"]
  <2>1. /\ task[h] = IdleTask /\ phase = "up" /\ task' = [task EXCEPT ![h] = x]
        /\ UNCHANGED <<stored, row, pump, phase, torn>>
    BY <1>14 DEF DeleteSession, CanBegin, history
  <2>2. x.pc = "load"
    BY DEF IdleTask
  <2> HIDE DEF x
  <2> QED
    BY <2>1, <2>2 DEF Begun, TaskShaped
<1>15. CASE LoadForDelete(h)
  <2>1. /\ task[h].pc = "load" /\ UNCHANGED <<stored, row, pump, phase, torn>>
        /\ task' = [task EXCEPT ![h] = Loaded("delete", Absent, Decide(state, DeleteCmd))]
    BY <1>15 DEF LoadForDelete, history
  <2> QED
    BY <1>12, <2>1
<1>16. CASE \/ \E kind \in StartKinds, env \in StartEnvs : StartSession(h, kind, env)
            \/ \E t \in TurnIds : InterruptTurn(h, t)
            \/ \E title \in Titles \cup {Absent} : RenameSession(h, title)
            \/ TogglePin(h)
            \/ \E mode \in EnvModes : SetEnvMode(h, mode)
            \/ StopSession(h)
  BY <1>2, <1>4, <1>7, <1>8, <1>9, <1>10, <1>11, <1>16
     DEF StartSession, InterruptTurn, RenameSession, TogglePin, SetEnvMode, StopSession,
         AllOperations
<1> QED
  BY <1>5, <1>6, <1>13, <1>14, <1>15, <1>16 DEF HandlerBegins

\* The actions of handlers and pumps that decide nothing leave nothing to append.
LEMMA HandlerWrote ==
  ASSUME IndInv, NEW h \in Handlers, HandlerContinues(h), ~LoadForDelete(h)
  PROVE  \/ LoseMemory /\ UNCHANGED stored
         \/ /\ \E t : t.pc # "append" /\ task' = [task EXCEPT ![h] = t]
            /\ \A g \in Gens : pump'[g] \in {pump[g], NewPump}
<1>1. task[h] \in Tasks /\ IdleTask.pc = "idle" /\ pump \in [Gens -> Pumps]
  BY DEF IndInv, TaskInv, PumpInv, IdleTask
<1>2. ASSUME NEW t \in Tasks, NEW x
      PROVE  /\ [t EXCEPT !.pc = "project"].pc = "project"
             /\ [t EXCEPT !.events = x].pc = t.pc
             /\ AfterPersist(t).pc \in {"spawn", "forward", "idle"}
  BY <1>1 DEF Tasks, AfterPersist
<1>3. CASE AppendEvents(h)
  <2>1. UNCHANGED pump
    BY <1>3 DEF AppendEvents
  <2>2. task' = [task EXCEPT ![h] = IdleTask] \/ task' = [task EXCEPT ![h].pc = "project"]
    BY <1>3 DEF AppendEvents
  <2>3. CASE task' = [task EXCEPT ![h] = IdleTask]
    BY <1>1, <2>1, <2>3
  <2>4. CASE task' = [task EXCEPT ![h].pc = "project"]
    <3>1. task' = [task EXCEPT ![h] = [task[h] EXCEPT !.pc = "project"]]
      BY <2>4
    <3> QED
      BY <1>1, <1>2, <2>1, <3>1
  <2> QED
    BY <2>2, <2>3, <2>4
<1>4. CASE ProjectEvent(h)
  <2> DEFINE t == task[h]
             rest == Tail(t.events)
  <2>1. /\ t.pc = "project" /\ UNCHANGED stored
        /\ \/ LoseMemory
           \/ /\ task' = [task EXCEPT ![h] = IF rest = <<>> THEN AfterPersist(t)
                                             ELSE [t EXCEPT !.events = rest]]
              /\ UNCHANGED pump
    BY <1>4 DEF ProjectEvent
  <2>2. /\ AfterPersist(t).pc # "append"
        /\ [t EXCEPT !.events = rest].pc # "append"
    <3> HIDE DEF rest
    <3> QED
      BY <1>1, <1>2, <2>1
  <2> QED
    BY <2>1, <2>2
<1>5. CASE ForwardMessage(h) \/ ForwardInterrupt(h) \/ ForwardStop(h)
  <2>1. task' = [task EXCEPT ![h] = IdleTask] /\ UNCHANGED pump
    BY <1>5 DEF ForwardMessage, ForwardInterrupt, ForwardStop, Forward
  <2> QED
    BY <1>1, <2>1
<1>6. CASE SpawnProvider(h)
  <2>1. /\ task' = [task EXCEPT ![h] = IdleTask]
        /\ pump' = [pump EXCEPT ![Cardinality(Spawns) + 1] = NewPump]
    BY <1>6 DEF SpawnProvider
  <2> QED
    BY <1>1, <2>1
<1>7. CASE SpawnNothing(h)
  <2>1. task' = [task EXCEPT ![h] = IdleTask] /\ UNCHANGED pump
    BY <1>7 DEF SpawnNothing
  <2> QED
    BY <1>1, <2>1
<1> QED
  BY <1>3, <1>4, <1>5, <1>6, <1>7 DEF HandlerContinues

\* What a pump decided is a decision on its cache.
LEMMA PumpDecided ==
  ASSUME IndInv, NEW g \in Gens, PumpDecide(g)
  PROVE  \E u : PumpShaped(u) /\ pump' = [pump EXCEPT ![g] = u]
<1> DEFINE p == pump[g]
           e == Head(prov[g].out)
           seeded == IF p.cache = Absent /\ p.version = 0
                     THEN [p EXCEPT !.cache = state, !.version = Len(log)] ELSE p
           decision == Decide(seeded.cache, CommandOf(e))
<1>1. /\ prov[g].out # <<>> /\ e.type # "ToolApprovalRequested" /\ p.pc = "recv"
      /\ IF decision.events = <<>>
         THEN pump' = [pump EXCEPT ![g] = Received(g, seeded)]
         ELSE pump' = [pump EXCEPT ![g] =
                          [seeded EXCEPT !.pc = "append", !.events = decision.events]]
  BY DEF PumpDecide
<1>2. p \in Pumps /\ state \in SessionStates /\ Len(log) \in Nat
  BY LenProperties DEF IndInv, PumpInv, StoredInv
<1>3. seeded \in Pumps
  <2>1. ASSUME NEW s \in SessionStates, NEW n \in Nat
        PROVE  [p EXCEPT !.cache = s, !.version = n] \in Pumps
    BY <1>2 DEF Pumps
  <2> QED
    BY <1>2, <2>1
<1>4. e \in ProviderEvents
  BY <1>1, HeadTailProperties DEF IndInv, ProvInv, Good, Providers
<1>5. CommandOf(e) \in SessionCommands
  BY <1>1, <1>4, CommandOfTyped
<1>6. CommandOf(e).type \notin {"Start", "Resume", "Delete"}
  BY <1>1, <1>4
     DEF CommandOf, ProviderEvents, AttachCmd, AppendCmd, CompleteTurnCmd, FailTurnCmd, StopCmd
<1> HIDE DEF seeded, e
<1>7. ASSUME NEW y \in Pumps, NEW events
      PROVE  LET r == [y EXCEPT !.pc = "append", !.events = events]
             IN r.events = events /\ r.cache = y.cache
  BY DEF Pumps
<1>8. PumpShaped([seeded EXCEPT !.pc = "append", !.events = decision.events])
  <2> DEFINE d == decision
             u == [seeded EXCEPT !.pc = "append", !.events = d.events]
  <2>1. u.events = Decide(seeded.cache, CommandOf(e)).events /\ u.cache = seeded.cache
    BY <1>3, <1>7
  <2> HIDE DEF u
  <2>2. PumpShaped(u)
    BY <1>5, <1>6, <2>1 DEF PumpShaped
  <2> QED
    BY <2>2 DEF u
<1>9. Received(g, seeded).pc = "recv"
  BY <1>3 DEF Received, Pumps
<1>10. PumpShaped(Received(g, seeded))
  BY <1>9 DEF PumpShaped
<1> QED
  BY <1>1, <1>8, <1>10

\* A step keeps the shapes.
LEMMA ShapesStep ==
  ASSUME IndInv, Shapes, [Next]_vars
  PROVE  Shapes'
<1>1. /\ task \in [Handlers -> Tasks] /\ pump \in [Gens -> Pumps]
      /\ \A h \in Handlers : TaskShaped(task[h])
      /\ \A g \in Gens : PumpShaped(pump[g])
  BY DEF IndInv, TaskInv, PumpInv, Shapes
<1>2. TaskShaped(IdleTask) /\ PumpShaped(NoPump) /\ PumpShaped(NewPump)
  BY DEF TaskShaped, PumpShaped, IdleTask, NoPump, NewPump
<1>3. /\ \A t : t.pc # "append" => TaskShaped(t)
      /\ \A u : u.pc # "append" => PumpShaped(u)
  BY DEF TaskShaped, PumpShaped
<1>4. ASSUME NEW h \in Handlers, HandlerBegins(h) \/ LoadForDelete(h)
      PROVE  Shapes'
  <2>1. PICK t : Begun(t) /\ task' = [task EXCEPT ![h] = t] /\ UNCHANGED pump
    BY <1>4, HandlerBegun
  <2>2. TaskShaped(t)
    BY <2>1 DEF Begun
  <2>3. \A i \in Handlers : task'[i] = t \/ task'[i] = task[i]
    BY <1>1, <2>1
  <2> QED
    BY <1>1, <2>1, <2>2, <2>3 DEF Shapes
<1>5. ASSUME LoseMemory PROVE Shapes'
  BY <1>2, <1>5 DEF LoseMemory, Shapes
<1>6. ASSUME NEW h \in Handlers, HandlerContinues(h), ~LoadForDelete(h)
      PROVE  Shapes'
  <2>1. CASE LoseMemory
    BY <1>5, <2>1
  <2>2. CASE /\ \E t : t.pc # "append" /\ task' = [task EXCEPT ![h] = t]
             /\ \A g \in Gens : pump'[g] \in {pump[g], NewPump}
    <3>1. PICK t : t.pc # "append" /\ task' = [task EXCEPT ![h] = t]
      BY <2>2
    <3>2. \A i \in Handlers : task'[i] = t \/ task'[i] = task[i]
      BY <1>1, <3>1
    <3> QED
      BY <1>1, <1>2, <1>3, <2>2, <3>1, <3>2 DEF Shapes
  <2> QED
    BY <1>6, <2>1, <2>2, HandlerWrote
<1>7. ASSUME NEW g \in Gens, NEW u, PumpShaped(u), pump' = [pump EXCEPT ![g] = u],
             UNCHANGED task
      PROVE  Shapes'
  <2>1. \A i \in Gens : pump'[i] = u \/ pump'[i] = pump[i]
    BY <1>1, <1>7
  <2> QED
    BY <1>1, <1>7, <2>1 DEF Shapes
<1>8. ASSUME NEW g \in Gens, PumpStep(g)
      PROVE  Shapes'
  <2> DEFINE p == pump[g]
  <2>1. CASE PumpApproval(g)
    BY <1>1, <2>1 DEF PumpApproval, Shapes
  <2>2. CASE PumpDecide(g)
    <3>1. UNCHANGED task
      BY <2>2 DEF PumpDecide
    <3> QED
      BY <1>7, <2>2, <3>1, PumpDecided
  <2>3. Received(g, p).pc = "recv"
    BY <1>1 DEF Received, Pumps
  <2>4. CASE PumpProject(g)
    BY <1>3, <1>7, <2>3, <2>4 DEF PumpProject
  <2>5. CASE PumpAppend(g)
    <3>1. PICK u : /\ pump' = [pump EXCEPT ![g] = u] /\ UNCHANGED task
                   /\ u \in {[p EXCEPT !.pc = "project", !.version = @ + Len(p.events),
                                       !.cache = ApplyBatch(@, p.events)],
                             [NewPump EXCEPT !.attempt = 1], Received(g, p)}
      BY <2>5 DEF PumpAppend
    <3>2. [p EXCEPT !.pc = "project", !.version = @ + Len(p.events),
                    !.cache = ApplyBatch(@, p.events)].pc = "project"
      BY <1>1 DEF Pumps
    <3>3. [NewPump EXCEPT !.attempt = 1].pc = "recv"
      BY DEF NewPump, NoPump
    <3>4. u.pc # "append"
      BY <2>3, <3>1, <3>2, <3>3
    <3> QED
      BY <1>3, <1>7, <3>1, <3>4
  <2> QED
    BY <1>8, <2>1, <2>2, <2>4, <2>5 DEF PumpStep
<1>9. ASSUME NEW g \in Gens, Write(g) \/ CliPrints(g) \/ Exit(g)
      PROVE  Shapes'
  <2>1. UNCHANGED <<task, pump>>
    BY <1>9 DEF Write, CliPrints, Exit, Ready, Stream, Ask, Result, ProviderStep
  <2> QED
    BY <1>1, <2>1 DEF Shapes
<1>10. CASE Crash \/ Reconcile \/ ReconcileProject \/ UNCHANGED vars
  <2>1. CASE Crash
    BY <1>5, <2>1 DEF Crash
  <2>2. CASE Reconcile \/ ReconcileProject \/ UNCHANGED vars
    <3>1. UNCHANGED <<task, pump>>
      BY <2>2 DEF Reconcile, ReconcileProject, vars
    <3> QED
      BY <1>1, <3>1 DEF Shapes
  <2> QED
    BY <1>10, <2>1, <2>2
<1> QED
  BY <1>4, <1>6, <1>8, <1>9, <1>10 DEF Next

\* Appending a batch of one or of two events.
LEMMA BatchAppended ==
  ASSUME NEW l \in Seq(SessionEvents), NEW b \in Batches
  PROVE  /\ b[1] \in SessionEvents /\ Head(b) = b[1]
         /\ Len(b) = 1 => l \o b = Append(l, b[1])
         /\ Len(b) = 2 => /\ b[2] \in SessionEvents
                          /\ l \o b = Append(Append(l, b[1]), b[2])
<1>1. /\ b \in Seq(SessionEvents) /\ Len(b) \in 1..2 /\ Len(b) \in Nat /\ Len(l) \in Nat
      /\ b[1] \in SessionEvents /\ (Len(b) = 2 => b[2] \in SessionEvents)
  <2>1. b \in Seq(SessionEvents) /\ Len(b) \in 1..2 /\ Len(l) \in Nat
    BY LenProperties DEF Batches
  <2>2. \A i \in 1..Len(b) : b[i] \in SessionEvents
    BY <2>1, ElementOfSeq
  <2>3. 1 \in 1..Len(b) /\ (Len(b) = 2 => 2 \in 1..Len(b))
    <3>1. \A n \in 1..2 : 1 \in 1..n /\ (n = 2 => 2 \in 1..n)
      OBVIOUS
    <3> QED
      BY <2>1, <3>1, Zenon
  <2>4. b[1] \in SessionEvents /\ (Len(b) = 2 => b[2] \in SessionEvents)
    BY <2>2, <2>3
  <2> QED
    BY <2>1, <2>4
<1>2. Head(b) = b[1]
  BY <1>1, EmptySeq, HeadTailProperties
<1>3. /\ l \o b \in Seq(SessionEvents) /\ Len(l \o b) = Len(l) + Len(b)
      /\ \A i \in 1..(Len(l) + Len(b)) :
             (l \o b)[i] = IF i <= Len(l) THEN l[i] ELSE b[i - Len(l)]
  BY <1>1, ConcatProperties
<1> DEFINE n == Len(l)
           k == Append(l, b[1])
<1>4. /\ k \in Seq(SessionEvents) /\ Len(k) = n + 1 /\ k[n + 1] = b[1]
      /\ \A i \in 1..n : k[i] = l[i]
  BY <1>1, AppendProperties
<1>5. ASSUME NEW i \in 1..n
      PROVE  (l \o b)[i] = l[i]
  <2>1. i \in 1..(n + Len(b)) /\ i <= n
    BY <1>1
  <2> QED
    BY <1>3, <2>1
<1>6. ASSUME NEW j \in 1..Len(b)
      PROVE  (l \o b)[n + j] = b[j]
  <2>1. n + j \in 1..(n + Len(b)) /\ ~(n + j <= n) /\ (n + j) - n = j
    BY <1>1
  <2> QED
    BY <1>3, <2>1
<1> HIDE DEF k
<1>7. ASSUME Len(b) = 1
      PROVE  l \o b = k
  <2>1. 1 \in 1..Len(b) /\ Len(l \o b) = Len(k)
    BY <1>3, <1>4, <1>7
  <2>2. (l \o b)[n + 1] = k[n + 1]
    BY <1>4, <1>6, <2>1
  <2>3. \A i \in 1..Len(k) : i \in 1..n \/ i = n + 1
    BY <1>1, <1>4
  <2>4. \A i \in 1..Len(k) : (l \o b)[i] = k[i]
    BY <1>4, <1>5, <2>2, <2>3
  <2> QED
    BY <1>3, <1>4, <2>1, <2>4, SeqEqual
<1>8. ASSUME Len(b) = 2
      PROVE  l \o b = Append(k, b[2])
  <2> DEFINE m == Append(k, b[2])
  <2>1. /\ m \in Seq(SessionEvents) /\ Len(m) = n + 2 /\ m[n + 2] = b[2]
        /\ \A i \in 1..(n + 1) : m[i] = k[i]
    BY <1>1, <1>4, <1>8, AppendProperties
  <2> HIDE DEF m
  <2>2. 1 \in 1..Len(b) /\ 2 \in 1..Len(b) /\ Len(l \o b) = Len(m)
    BY <1>3, <1>8, <2>1
  <2>3. (l \o b)[n + 1] = b[1] /\ (l \o b)[n + 2] = b[2]
    BY <1>6, <2>2
  <2>4. n + 1 \in 1..(n + 1) /\ \A i \in 1..n : i \in 1..(n + 1)
    BY <1>1
  <2>5. m[n + 1] = b[1] /\ \A i \in 1..n : m[i] = l[i]
    BY <1>4, <2>1, <2>4
  <2>6. \A i \in 1..Len(m) : i \in 1..n \/ i = n + 1 \/ i = n + 2
    BY <1>1, <2>1
  <2>7. \A i \in 1..Len(m) : (l \o b)[i] = m[i]
    BY <1>5, <2>1, <2>3, <2>5, <2>6
  <2>8. l \o b = m
    BY <1>3, <2>1, <2>2, <2>7, SeqEqual
  <2> QED
    BY <2>8 DEF m
<1> QED
  BY <1>1, <1>2, <1>7, <1>8 DEF k

\* Persisting a batch of accepted events keeps the history lawful.
LEMMA BatchIsLawful ==
  ASSUME StoredInv(log, state), LawfulInv(log, state), NEW b \in Batches, Persist(b),
         Accepted(log, state, b[1]),
         Len(b) = 2 => b[1].type = "TurnStarted" /\ b[2].type = "SessionRenamed"
  PROVE  LawfulInv(log, state)'
<1> DEFINE k == Append(log, b[1])
           s == Apply(state, b[1])
<1>1. /\ log \in Seq(SessionEvents) /\ state \in SessionStates
      /\ b[1] \in SessionEvents /\ Len(b) \in {1, 2}
  BY BatchAppended DEF StoredInv, Batches
<1>2. LawfulInv(k, s)
  BY <1>1, AcceptedIsLawful
<1>3. k \in Seq(SessionEvents) /\ s \in SessionStates
  BY <1>1, ApplyTyped, AppendProperties
<1>4. CASE Len(b) = 1
  <2>1. log' = k /\ state' = s
    BY <1>1, <1>4, BatchAppended DEF Persist, ApplyBatch
  <2> QED
    BY <1>2, <2>1
<1>5. CASE Len(b) = 2
  <2>1. log' = Append(k, b[2]) /\ state' = Apply(s, b[2]) /\ b[2] \in SessionEvents
    BY <1>1, <1>5, BatchAppended DEF Persist, ApplyBatch
  <2>2. s # Absent
    <3>1. state # Absent /\ state \in SessionData /\ b[1].turn \in TurnIds
      BY <1>1, <1>5 DEF Accepted, SessionStates, SessionEvents
    <3>2. s = PushTurn(state, b[1].turn)
      BY <1>5, <3>1 DEF Apply
    <3>3. s \in SessionData
      BY <3>1, <3>2, PushTurnTyped
    <3> QED
      BY <3>3, SessionAssumption
  <2> HIDE DEF k, s
  <2>3. Accepted(k, s, b[2])
    BY <1>5, <2>2 DEF Accepted, TurnEvents, TurnEnds
  <2>4. LawfulInv(Append(k, b[2]), Apply(s, b[2]))
    BY <1>2, <1>3, <2>1, <2>3, AcceptedIsLawful
  <2> QED
    BY <2>1, <2>4
<1> QED
  BY <1>1, <1>4, <1>5

\* The commands of a handler that appends are commands of a session.
LEMMA TaskCommands ==
  ASSUME NEW t, t.op \in AllOperations \ {"approve"},
         t.op \in {"send", "interrupt"} => t.turn \in TurnIds, NEW c \in CommandsOf(t)
  PROVE  /\ c \in SessionCommands
         /\ c.type = "Start" => t.op = "start"
         /\ t.op = "start" => c.type = "Start"
         /\ t.op = "resume" <=> c.type = "Resume"
         /\ t.op = "send" => c.type = "StartTurn"
<1>1. CASE t.op = "start"
  <2>1. PICK kind \in Kinds, env \in EnvModes : c = StartCmd(kind, env)
    BY <1>1, SupervisorAssumption DEF SupervisorAssumption, CommandsOf
  <2> QED
    BY <1>1, <2>1 DEF StartCmd, SessionCommands
<1>2. CASE t.op = "send"
  <2>1. c = StartTurnCmd(t.turn) /\ t.turn \in TurnIds
    BY <1>2 DEF CommandsOf
  <2> QED
    BY <1>2, <2>1 DEF StartTurnCmd, SessionCommands
<1>3. CASE t.op = "interrupt"
  <2>1. c = InterruptTurnCmd(t.turn) /\ t.turn \in TurnIds
    BY <1>3 DEF CommandsOf
  <2> QED
    BY <1>3, <2>1 DEF InterruptTurnCmd, SessionCommands
<1>4. CASE t.op \in {"stop", "resume", "delete", "pin"}
  <2>1. c = CASE t.op = "stop"   -> StopCmd
              [] t.op = "resume" -> ResumeCmd
              [] t.op = "delete" -> DeleteCmd
              [] t.op = "pin"    -> TogglePinCmd
    BY <1>4 DEF CommandsOf
  <2> QED
    BY <1>4, <2>1 DEF StopCmd, ResumeCmd, DeleteCmd, TogglePinCmd, SessionCommands
<1>5. CASE t.op = "rename"
  <2>1. PICK title \in Titles \cup {Absent} : c = RenameCmd(title)
    BY <1>5 DEF CommandsOf
  <2> QED
    BY <1>5, <2>1 DEF RenameCmd, SessionCommands
<1>6. CASE t.op = "env"
  <2>1. PICK mode \in EnvModes : c = SetEnvModeCmd(mode)
    BY <1>6 DEF CommandsOf
  <2> QED
    BY <1>6, <2>1 DEF SetEnvModeCmd, SessionCommands
<1> QED
  BY <1>1, <1>2, <1>3, <1>4, <1>5, <1>6 DEF AllOperations

\* What a handler appends without a conflict is accepted.
LEMMA HandlerAppends ==
  ASSUME IndInv, Shapes, NEW h \in Handlers, AppendEvents(h), log' # log
  PROVE  LET b == task[h].events IN
         /\ Persist(b) /\ b \in Batches /\ Accepted(log, state, b[1])
         /\ Len(b) = 2 => b[1].type = "TurnStarted" /\ b[2].type = "SessionRenamed"
         /\ task[h].op = "start" <=> b[1].type = "SessionStarted"
         /\ task[h].op = "resume" <=> b[1].type = "SessionResumed"
<1> DEFINE t == task[h]
           b == t.events
<1>1. /\ t.pc = "append" /\ ~(Len(log) > t.expected) /\ Persist(b)
  BY DEF AppendEvents, stored
<1>2. /\ GoodTask(t, log, state) /\ b \in Batches /\ TaskShaped(t)
      /\ log \in Seq(SessionEvents) /\ state \in SessionStates
  BY <1>1 DEF IndInv, TaskInv, GoodTask, Shapes, StoredInv
<1>3. t.expected = Len(log)
  <2>1. t.expected \in Nat /\ t.expected <= Len(log) /\ Len(log) \in Nat
    BY <1>2, LenProperties DEF GoodTask, Tasks
  <2> HIDE DEF t
  <2> QED
    BY <1>1, <2>1
<1>4. PICK c \in CommandsOf(t) : Decide(state, c).events = <<Head(b)>>
  BY <1>1, <1>2, <1>3 DEF GoodTask
<1>5. /\ t.op \in AllOperations \ {"approve"}
      /\ t.op = "start" => t.expected = 0
      /\ Len(b) = 2 => t.op = "send" /\ b[2].type = "SessionRenamed"
      /\ t.op \in {"send", "interrupt"} => t.turn \in TurnIds
  BY <1>1, <1>2 DEF TaskShaped, GoodTask
<1> HIDE DEF t
<1>6. /\ c \in SessionCommands
      /\ c.type = "Start" => t.op = "start"
      /\ t.op = "start" => c.type = "Start"
      /\ t.op = "resume" <=> c.type = "Resume"
      /\ t.op = "send" => c.type = "StartTurn"
  BY <1>5, TaskCommands
<1> HIDE DEF b
<1>7. Head(b) = b[1] /\ b[1] \in SessionEvents
  BY <1>2, BatchAppended
<1>8. Decide(state, c).events = <<b[1]>>
  BY <1>4, <1>7
<1>9. c.type = "Start" => log = <<>>
  <2>1. c.type = "Start" => Len(log) = 0
    BY <1>3, <1>5, <1>6
  <2> QED
    BY <1>2, <2>1, EmptySeq
<1>10. /\ Accepted(log, state, b[1])
       /\ b[1].type = "SessionStarted" => c.type = "Start"
       /\ b[1].type = "SessionResumed" => c.type = "Resume"
  BY <1>2, <1>6, <1>8, <1>9, DecidedIsAccepted
<1>11. /\ c.type = "Start" => b[1].type = "SessionStarted"
       /\ c.type = "Resume" => b[1].type = "SessionResumed"
       /\ c.type = "StartTurn" => b[1].type = "TurnStarted"
  <2>1. \A error : Refuse(error).events # <<b[1]>>
    BY DEF Refuse
  <2>2. ASSUME NEW e, Accept(<<e>>).events = <<b[1]>>
        PROVE  b[1] = e
    BY <2>2 DEF Accept
  <2>3. CASE c.type = "Start"
    <3>1. Decide(state, c) = Accept(<<[type |-> "SessionStarted", kind |-> c.kind, env |-> c.env]>>)
      BY <1>8, <2>1, <2>3 DEF Decide
    <3> QED
      BY <1>8, <2>2, <2>3, <3>1
  <2>4. CASE c.type = "Resume"
    <3>1. Decide(state, c) = Accept(<<[type |-> "SessionResumed"]>>)
      BY <1>8, <2>1, <2>4 DEF Decide, DecideResume
    <3> QED
      BY <1>8, <2>2, <2>4, <3>1
  <2>5. CASE c.type = "StartTurn"
    <3>1. Decide(state, c) = Accept(<<[type |-> "TurnStarted", turn |-> c.turn]>>)
      BY <1>8, <2>1, <2>5 DEF Decide, DecideStartTurn
    <3> QED
      BY <1>8, <2>2, <2>5, <3>1
  <2> QED
    BY <2>3, <2>4, <2>5
<1> QED
  BY <1>1, <1>2, <1>5, <1>6, <1>10, <1>11 DEF b, t

\* So is what a pump appends without a conflict.
LEMMA PumpAppends ==
  ASSUME IndInv, Shapes, NEW g \in Gens, PumpAppend(g), log' # log
  PROVE  LET b == pump[g].events IN
         /\ Persist(b) /\ b \in Batches /\ Len(b) = 1 /\ Accepted(log, state, b[1])
         /\ b[1].type \notin {"SessionStarted", "SessionResumed", "SessionDeleted"}
<1> DEFINE p == pump[g]
           b == p.events
<1>1. p.pc = "append" /\ Len(log) = p.version /\ Persist(b)
  BY DEF PumpAppend, stored
<1>2. /\ GoodPump(p, prov[g], log, state) /\ PumpShaped(p) /\ state \in SessionStates
  BY DEF IndInv, PumpInv, Shapes, StoredInv
<1>3. Len(b) = 1 /\ b \in Seq(SessionEvents) /\ p.cache = state
  BY <1>1, <1>2 DEF GoodPump, GoodCache, Pumps
<1>4. PICK c \in SessionCommands : /\ c.type \notin {"Start", "Resume", "Delete"}
                                   /\ Decide(state, c).events = b
  BY <1>1, <1>2, <1>3 DEF PumpShaped
<1> HIDE DEF b
<1>5. b \in Batches /\ b = <<b[1]>>
  BY <1>3 DEF Batches
<1>6. /\ Accepted(log, state, b[1])
      /\ b[1].type \notin {"SessionStarted", "SessionResumed", "SessionDeleted"}
  <2>1. Decide(state, c).events = <<b[1]>>
    BY <1>4, <1>5
  <2> QED
    BY <1>2, <1>4, <2>1, DecidedIsAccepted
<1> QED
  BY <1>1, <1>3, <1>5, <1>6 DEF b

\* And what the reconciliation of the boot appends.
LEMMA BootAppends ==
  ASSUME IndInv, Reconcile, log' # log
  PROVE  LET b == <<[type |-> "SessionStopped"]>> IN
         /\ Persist(b) /\ b \in Batches /\ Len(b) = 1 /\ Accepted(log, state, b[1])
         /\ phase' = "bootProject"
<1> DEFINE e == [type |-> "SessionStopped"]
<1>1. /\ state # Absent /\ state.status = "running" /\ phase' = "bootProject"
      /\ Persist(Decide(state, StopCmd).events)
  BY DEF Reconcile, stored
<1>2. Decide(state, StopCmd).events = <<e>>
  BY <1>1 DEF Decide, StopCmd, DecideStop, Accept
<1>3. e \in SessionEvents
  BY DEF SessionEvents
<1>4. Accepted(log, state, e)
  BY <1>1 DEF Accepted, TurnEvents, TurnEnds
<1> HIDE DEF e
<1>5. <<e>> \in Batches /\ Len(<<e>>) = 1 /\ <<e>>[1] = e
  BY <1>3 DEF Batches
<1>6. Persist(<<e>>) /\ <<e>> \in Batches /\ Len(<<e>>) = 1
      /\ Accepted(log, state, <<e>>[1]) /\ phase' = "bootProject"
  BY <1>1, <1>2, <1>4, <1>5
<1> QED
  BY <1>6 DEF e

\* Only these write the log.
LEMMA Writers ==
  ASSUME [Next]_vars, log' # log
  PROVE  (\E h \in Handlers : AppendEvents(h)) \/ (\E g \in Gens : PumpAppend(g)) \/ Reconcile
<1>1. ASSUME NEW h \in Handlers, HandlerContinues(h)
      PROVE  AppendEvents(h)
  BY <1>1 DEF HandlerContinues, LoadForDelete, ProjectEvent, ForwardMessage,
              ForwardInterrupt, ForwardStop, Forward, SpawnProvider, SpawnNothing, stored
<1>2. ASSUME NEW g \in Gens, PumpStep(g)
      PROVE  PumpAppend(g)
  BY <1>2 DEF PumpStep, PumpApproval, PumpDecide, PumpProject, stored
<1>3. ASSUME NEW g \in Gens, Write(g) \/ CliPrints(g) \/ Exit(g)
      PROVE  FALSE
  BY <1>3 DEF Write, CliPrints, Exit, Ready, Stream, Ask, Result, ProviderStep, stored
<1>4. ASSUME Crash \/ ReconcileProject \/ UNCHANGED vars
      PROVE  FALSE
  BY <1>4 DEF Crash, ReconcileProject, stored, vars
<1> QED
  BY <1>1, <1>2, <1>3, <1>4, BeginKeepsLog DEF Next

\* Whatever writes the log adds accepted events.
LEMMA WritesAccepted ==
  ASSUME IndInv, Shapes, [Next]_vars, log' # log
  PROVE  \E b \in Batches :
             /\ Persist(b) /\ Accepted(log, state, b[1])
             /\ Len(b) = 2 => b[1].type = "TurnStarted" /\ b[2].type = "SessionRenamed"
<1>1. CASE \E h \in Handlers : AppendEvents(h)
  BY <1>1, HandlerAppends
<1>2. CASE \E g \in Gens : PumpAppend(g)
  <2>1. PICK g \in Gens : PumpAppend(g)
    BY <1>2
  <2> DEFINE b == pump[g].events
  <2>2. Persist(b) /\ b \in Batches /\ Len(b) = 1 /\ Accepted(log, state, b[1])
    BY <2>1, PumpAppends
  <2> HIDE DEF b
  <2> QED
    BY <2>2
<1>3. CASE Reconcile
  <2> DEFINE b == <<[type |-> "SessionStopped"]>>
  <2>1. Persist(b) /\ b \in Batches /\ Len(b) = 1 /\ Accepted(log, state, b[1])
    BY <1>3, BootAppends
  <2> HIDE DEF b
  <2> QED
    BY <2>1
<1> QED
  BY <1>1, <1>2, <1>3, Writers

\* Log and state are written together.
LEMMA LogWritten ==
  ASSUME IndInv, [Next]_vars, log' = log
  PROVE  state' = state
<1>1. ASSUME NEW b \in Batches, Persist(b)
      PROVE  FALSE
  BY <1>1, LogGrows DEF IndInv
<1>2. ASSUME NEW h \in Handlers, HandlerContinues(h)
      PROVE  state' = state
  <2>1. CASE AppendEvents(h)
    <3>1. task[h].pc = "append" => task[h].events \in Batches
      BY DEF IndInv, TaskInv, GoodTask
    <3> QED
      BY <1>1, <2>1, <3>1 DEF AppendEvents, stored
  <2> QED
    BY <1>2, <2>1 DEF HandlerContinues, LoadForDelete, ProjectEvent, ForwardMessage,
              ForwardInterrupt, ForwardStop, Forward, SpawnProvider, SpawnNothing, stored
<1>3. ASSUME NEW g \in Gens, PumpStep(g)
      PROVE  state' = state
  <2>1. CASE PumpAppend(g)
    <3>1. pump[g].pc = "append" => pump[g].events \in Batches
      BY DEF IndInv, PumpInv, GoodPump, GoodCache, Pumps, Batches
    <3> QED
      BY <1>1, <2>1, <3>1 DEF PumpAppend, stored
  <2> QED
    BY <1>3, <2>1 DEF PumpStep, PumpApproval, PumpDecide, PumpProject, stored
<1>4. ASSUME NEW g \in Gens, Write(g) \/ CliPrints(g) \/ Exit(g)
      PROVE  state' = state
  BY <1>4 DEF Write, CliPrints, Exit, Ready, Stream, Ask, Result, ProviderStep, stored
<1>5. CASE Reconcile
  <2>1. CASE Persist(Decide(state, StopCmd).events) /\ state # Absent /\ state.status = "running"
    <3>1. Decide(state, StopCmd).events = <<[type |-> "SessionStopped"]>>
      BY <2>1 DEF Decide, StopCmd, DecideStop, Accept
    <3>2. [type |-> "SessionStopped"] \in SessionEvents
      BY DEF SessionEvents
    <3>3. \A e \in SessionEvents : <<e>> \in Batches
      BY DEF Batches
    <3> QED
      BY <1>1, <2>1, <3>1, <3>2, <3>3
  <2> QED
    BY <1>5, <2>1 DEF Reconcile, stored
<1>6. CASE Crash \/ ReconcileProject \/ UNCHANGED vars
  BY <1>6 DEF Crash, ReconcileProject, stored, vars
<1>7. ASSUME NEW h \in Handlers, HandlerBegins(h)
      PROVE  state' = state
  BY <1>7 DEF HandlerBegins, StartSession, SendUserMessage, InterruptTurn, RenameSession,
       TogglePin, SetEnvMode, StopSession, ResumeSession, AnswerTool, DeleteSession, Begin, stored
<1> QED
  BY <1>2, <1>3, <1>4, <1>5, <1>6, <1>7 DEF Next

\* The empty log is lawful.
LEMMA InitLawInv == Init => LawInv
<1> SUFFICES ASSUME Init
             PROVE  LawInv
  OBVIOUS
<1>1. log = <<>> /\ state = Absent
  BY DEF Init
<1>2. \A T : OfType(log, T) = {}
  <2>1. DOMAIN <<>> = {}
    BY EmptySeq, LenProperties
  <2> QED
    BY <1>1, <2>1 DEF OfType
<1>3. Lawful(log)
  BY <1>1, <1>2 DEF Lawful, StartsOnce, DeletionIsLast, StopsAlternate, ResumesHaveProvider,
                    TurnsStartOnce, NoTurnWhileStopped, TurnsAreAnswered
<1>4. Tells(log, state)
  BY <1>1 DEF Tells
<1>5. Shapes
  BY DEF Init, Shapes, TaskShaped, PumpShaped, IdleTask, NoPump
<1> QED
  BY <1>3, <1>4, <1>5 DEF LawInv, LawfulInv

\* A step keeps the log lawful.
LEMMA NextLawInv ==
  IndInv /\ LawInv /\ [Next]_vars => LawInv'
<1> SUFFICES ASSUME IndInv, LawInv, [Next]_vars
             PROVE  LawInv'
  OBVIOUS
<1>1. Shapes' /\ Shapes /\ LawfulInv(log, state)
  BY ShapesStep DEF LawInv
<1>2. CASE log' # log
  <2>1. PICK b \in Batches :
            /\ Persist(b) /\ Accepted(log, state, b[1])
            /\ Len(b) = 2 => b[1].type = "TurnStarted" /\ b[2].type = "SessionRenamed"
    BY <1>1, <1>2, WritesAccepted
  <2>2. LawfulInv(log, state)'
    BY <1>1, <2>1, BatchIsLawful DEF IndInv
  <2> QED
    BY <1>1, <2>2 DEF LawInv
<1>3. CASE log' = log
  <2>1. state' = state
    BY <1>3, LogWritten
  <2> QED
    BY <1>1, <1>3, <2>1 DEF LawInv
<1> QED
  BY <1>2, <1>3

\* However handlers, pumps and boots race to append, the log of a session is a
\* lawful history: it starts once and first, nothing follows its deletion, stops
\* and resumes alternate, no turn starts while it is stopped, turns have distinct
\* ids and neither text nor completion follows the end of one.
THEOREM HistoryIsLawful == Spec => []LogIsLawful
<1>1. LawInv => LogIsLawful
  BY DEF LawInv, LawfulInv, LogIsLawful
<1> QED
  BY <1>1, InitIndInv, NextIndInv, InitLawInv, NextLawInv, PTL DEF Spec

------------------------------------------------------------------------------
(* The text of the turns. *)

\* Persisting a batch of accepted events keeps the text of every turn whole.
LEMMA BatchCoalesces ==
  ASSUME StoredInv(log, state), LawfulInv(log, state), Coalesced(log, state),
         NEW b \in Batches, Persist(b), Accepted(log, state, b[1]),
         Len(b) = 2 => b[1].type = "TurnStarted" /\ b[2].type = "SessionRenamed"
  PROVE  Coalesced(log, state)'
<1> DEFINE k == Append(log, b[1])
           s == Apply(state, b[1])
<1>1. /\ log \in Seq(SessionEvents) /\ state \in SessionStates
      /\ b[1] \in SessionEvents /\ Len(b) \in {1, 2}
  BY BatchAppended DEF StoredInv, Batches
<1>2. LawfulInv(k, s) /\ Coalesced(k, s)
  BY <1>1, AcceptedIsLawful, AcceptedCoalesces
<1>3. k \in Seq(SessionEvents) /\ s \in SessionStates
  BY <1>1, ApplyTyped, AppendProperties
<1>4. CASE Len(b) = 1
  <2>1. log' = k /\ state' = s
    BY <1>1, <1>4, BatchAppended DEF Persist, ApplyBatch
  <2> QED
    BY <1>2, <2>1
<1>5. CASE Len(b) = 2
  <2>1. log' = Append(k, b[2]) /\ state' = Apply(s, b[2]) /\ b[2] \in SessionEvents
    BY <1>1, <1>5, BatchAppended DEF Persist, ApplyBatch
  <2>2. s # Absent
    <3>1. state # Absent /\ state \in SessionData /\ b[1].turn \in TurnIds
      BY <1>1, <1>5 DEF Accepted, SessionStates, SessionEvents
    <3>2. s = PushTurn(state, b[1].turn)
      BY <1>5, <3>1 DEF Apply
    <3>3. s \in SessionData
      BY <3>1, <3>2, PushTurnTyped
    <3> QED
      BY <3>3, SessionAssumption
  <2> HIDE DEF k, s
  <2>3. Accepted(k, s, b[2])
    BY <1>5, <2>2 DEF Accepted, TurnEvents, TurnEnds
  <2>4. Coalesced(Append(k, b[2]), Apply(s, b[2]))
    BY <1>2, <1>3, <2>1, <2>3, AcceptedCoalesces
  <2> QED
    BY <2>1, <2>4
<1> QED
  BY <1>1, <1>4, <1>5

\* A step keeps the text of every turn whole.
LEMMA NextCoalesces ==
  IndInv /\ LawInv /\ TextIsCoalesced /\ [Next]_vars => TextIsCoalesced'
<1> SUFFICES ASSUME IndInv, LawInv, Coalesced(log, state), [Next]_vars
             PROVE  Coalesced(log, state)'
  BY DEF TextIsCoalesced
<1>1. CASE log' # log
  <2>1. PICK b \in Batches :
            /\ Persist(b) /\ Accepted(log, state, b[1])
            /\ Len(b) = 2 => b[1].type = "TurnStarted" /\ b[2].type = "SessionRenamed"
    BY <1>1, WritesAccepted DEF LawInv
  <2> QED
    BY <2>1, BatchCoalesces DEF IndInv, LawInv
<1>2. CASE log' = log
  <2>1. state' = state
    BY <1>2, LogWritten
  <2> QED
    BY <1>2, <2>1
<1> QED
  BY <1>1, <1>2

\* However the pumps of old and new providers race with the handlers, no text of a turn
\* is lost or told twice: the blocks of every turn hold exactly what was appended to it,
\* and neighbouring texts were glued into one.
THEOREM TextStaysWhole == Spec => []TextIsCoalesced
<1>1. Init => TextIsCoalesced
  BY DEF Init, TextIsCoalesced, Coalesced
<1> QED
  BY <1>1, InitIndInv, NextIndInv, InitLawInv, NextLawInv, NextCoalesces, PTL DEF Spec

------------------------------------------------------------------------------
(* The row and the log.  While no write of log and row overlapped another, at  *)
(* most one writer is between its append and its projection, and it holds what *)
(* the row still lacks.                                                        *)

\* A boot finds neither handlers nor pumps.
BootInv == phase # "up" => /\ \A h \in Handlers : task[h] = IdleTask
                           /\ \A g \in Gens : pump[g] = NoPump

\* Generations are spawned in order, and one that is not has said nothing.
GensInv == /\ Spawns = 1..Cardinality(Spawns)
           /\ \A g \in Gens : prov[g].phase = "unborn" => prov[g] = Unborn

\* The only writer, and what it has still to write.
LoneTask(h) == /\ WritingTasks = {h} /\ WritingPumps = {} /\ phase # "bootProject"
               /\ task[h].events \in Batches
               /\ ApplyBatch(row, task[h].events) = state

LonePump(g) == /\ WritingPumps = {g} /\ WritingTasks = {} /\ phase # "bootProject"
               /\ pump[g].cache = state

LoneBoot == /\ WritingTasks = {} /\ WritingPumps = {}
            /\ Apply(row, Last(log)) = state

RowInv == ~torn => /\ \A h \in WritingTasks : LoneTask(h)
                   /\ \A g \in WritingPumps : LonePump(g)
                   /\ phase = "bootProject" => LoneBoot
                   /\ ~WindowOpen => row = state

RowIndInv == BootInv /\ GensInv /\ RowInv

\* No step unspawns a process or touches one that is not spawned yet.
GensKept ==
  \A g \in Gens : /\ prov'[g].phase = "unborn" <=> prov[g].phase = "unborn"
                  /\ prov[g] = Unborn => prov'[g] = Unborn

\* A send to the live provider, if there is one, is none of those.
LEMMA PushKeepsGens ==
  ASSUME IndInv, NEW c \in ProviderCommands,
         prov' = IF live = 0 THEN prov ELSE [prov EXCEPT ![live] = Push(@, c)]
  PROVE  GensKept
<1>1. \A g \in Gens : Evolves(prov[g], Push(prov[g], c))
  BY PushEvolves DEF IndInv, ProvInv
<1>2. Push(Unborn, c) = Unborn
  BY DEF Push, Unborn
<1>3. \A g \in Gens : prov'[g] = prov[g] \/ prov'[g] = Push(prov[g], c)
  BY DEF IndInv, ProvInv
<1> QED
  BY <1>1, <1>2, <1>3 DEF GensKept, Evolves

\* Nor is any step but a spawn.
LEMMA GensMoves ==
  ASSUME IndInv, [Next]_vars, \A h \in Handlers : ~SpawnProvider(h)
  PROVE  GensKept
<1>1. prov \in [Gens -> Providers] /\ \A g \in Gens : Good(prov[g])
  BY DEF IndInv, ProvInv
<1>2. ASSUME UNCHANGED prov
      PROVE  GensKept
  BY <1>2 DEF GensKept
<1>3. ASSUME NEW h \in Handlers, HandlerBegins(h)
      PROVE  GensKept
  <2>1. /\ ApproveToolUse \in ProviderCommands /\ RejectToolUse \in ProviderCommands
        /\ StopCommand \in ProviderCommands
    BY DEF ApproveToolUse, RejectToolUse, StopCommand, ProviderCommands
  <2>2. ASSUME NEW answer \in {ApproveToolUse, RejectToolUse}, AnswerTool(h, answer)
        PROVE  GensKept
    BY <2>1, <2>2, PushKeepsGens DEF AnswerTool
  <2>3. CASE DeleteSession(h)
    BY <2>1, <2>3, PushKeepsGens DEF DeleteSession
  <2> QED
    BY <1>2, <1>3, <2>2, <2>3
       DEF HandlerBegins, StartSession, SendUserMessage, InterruptTurn, RenameSession,
           TogglePin, SetEnvMode, StopSession, ResumeSession, Begin
<1>4. ASSUME LoseMemory
      PROVE  GensKept
  <2>1. Unborn.phase = "unborn" /\ [Unborn EXCEPT !.phase = "exited"].phase = "exited"
    BY DEF Unborn
  <2> QED
    BY <1>4, <2>1 DEF LoseMemory, GensKept
<1>5. ASSUME NEW h \in Handlers, HandlerContinues(h)
      PROVE  GensKept
  <2>1. StopCommand \in ProviderCommands /\ Interrupt \in ProviderCommands
    BY DEF StopCommand, Interrupt, ProviderCommands
  <2>2. CASE ForwardMessage(h)
    <3>1. task[h].op = "send"
      BY <2>2 DEF ForwardMessage, Forward
    <3>2. task[h].turn \in TurnIds
      BY <3>1 DEF IndInv, TaskInv, GoodTask
    <3>3. SendMessage(task[h].turn) \in ProviderCommands
      BY <3>2 DEF SendMessage, ProviderCommands
    <3> QED
      BY <2>2, <3>3, PushKeepsGens DEF ForwardMessage, Forward
  <2>3. CASE ForwardInterrupt(h) \/ ForwardStop(h)
    BY <2>1, <2>3, PushKeepsGens DEF ForwardInterrupt, ForwardStop, Forward
  <2>4. CASE LoadForDelete(h) \/ AppendEvents(h) \/ ProjectEvent(h) \/ SpawnNothing(h)
    BY <1>2, <1>4, <2>4 DEF LoadForDelete, AppendEvents, ProjectEvent, SpawnNothing
  <2> QED
    BY <1>5, <2>2, <2>3, <2>4 DEF HandlerContinues
<1>6. ASSUME NEW g \in Gens, NEW q, q.phase = "unborn" <=> prov[g].phase = "unborn",
             prov[g] # Unborn, prov' = [prov EXCEPT ![g] = q]
      PROVE  GensKept
  BY <1>1, <1>6 DEF GensKept
<1>7. ASSUME NEW g \in Gens, PumpStep(g)
      PROVE  GensKept
  <2>1. CASE UNCHANGED prov
    BY <1>2, <2>1
  <2>2. CASE Consume(g) /\ prov[g].out # <<>>
    <3>1. ASSUME NEW p \in Providers, NEW out
          PROVE  [p EXCEPT !.out = out].phase = p.phase
      BY DEF Providers
    <3>2. prov[g] # Unborn
      BY <2>2 DEF Unborn
    <3>3. prov' = [prov EXCEPT ![g] = [prov[g] EXCEPT !.out = Tail(prov[g].out)]]
      BY <2>2 DEF Consume
    <3>4. [prov[g] EXCEPT !.out = Tail(prov[g].out)].phase = prov[g].phase
      BY <1>1, <3>1
    <3> QED
      BY <1>6, <3>2, <3>3, <3>4
  <2>3. pump[g].pc \in {"append", "project"} => prov[g].out # <<>>
    BY DEF IndInv, PumpInv, GoodPump
  <2> QED
    BY <1>7, <2>1, <2>2, <2>3 DEF PumpStep, PumpApproval, PumpDecide, PumpAppend, PumpProject
<1>8. ASSUME NEW g \in Gens, Write(g) \/ CliPrints(g) \/ Exit(g)
      PROVE  GensKept
  <2>1. ASSUME NEW q, Evolves(prov[g], q), prov[g] # Unborn, ProviderStep(g, q)
        PROVE  GensKept
    BY <1>6, <2>1 DEF ProviderStep, Evolves
  <2>2. CASE Write(g)
    <3>1. CanWrite(prov[g]) /\ ProviderStep(g, WriterStep(prov[g]))
      BY <2>2 DEF Write
    <3>2. prov[g] # Unborn
      BY <3>1 DEF CanWrite, Unborn
    <3> QED
      BY <1>1, <2>1, <3>1, <3>2, WriterEvolves
  <2>3. CanPrint(prov[g]) => prov[g] # Unborn
    BY DEF CanPrint, Unborn
  <2>4. CASE Exit(g)
    BY <1>1, <2>1, <2>3, <2>4, PrintEvolves DEF Exit
  <2>5. ASSUME NEW id \in ProviderIds, Ready(g, id)
        PROVE  GensKept
    BY <1>1, <2>1, <2>3, <2>5, PrintEvolves DEF Ready, Running, CanPrint
  <2>6. ASSUME NEW b \in {Text, Tool}, Stream(g, b)
        PROVE  GensKept
    <3>1. b \in Blocks
      BY DEF Text, Tool, Blocks
    <3>2. /\ prov[g].work # <<>> /\ CanPrint(prov[g])
          /\ ProviderStep(g, PrintBlock(prov[g], b))
      BY <2>6 DEF Stream, MayPrint, Works
    <3> QED
      BY <1>1, <2>1, <2>3, <3>1, <3>2, PrintEvolves
  <2>7. CASE Ask(g)
    <3>1. prov[g].work # <<>> /\ CanPrint(prov[g]) /\ ProviderStep(g, AskTool(prov[g]))
      BY <2>7 DEF Ask, MayPrint, Works
    <3> QED
      BY <1>1, <2>1, <2>3, <3>1, PrintEvolves
  <2>8. ASSUME NEW failed \in BOOLEAN, Result(g, failed)
        PROVE  GensKept
    <3>1. /\ prov[g].work # <<>> /\ CanPrint(prov[g])
          /\ ProviderStep(g, PrintResult(prov[g], failed))
      BY <2>8 DEF Result, Works
    <3> QED
      BY <1>1, <2>1, <2>3, <3>1, PrintEvolves
  <2> QED
    BY <1>8, <2>2, <2>4, <2>5, <2>6, <2>7, <2>8 DEF CliPrints
<1>9. CASE Crash \/ Reconcile \/ ReconcileProject \/ UNCHANGED vars
  BY <1>2, <1>4, <1>9 DEF Crash, Reconcile, ReconcileProject, vars
<1> QED
  BY <1>3, <1>5, <1>7, <1>8, <1>9 DEF Next

\* The process that is spawned is one of those that were not, and its pump has
\* nothing to write.
LEMMA SpawnMoves ==
  ASSUME IndInv, GensInv, NEW h \in Handlers, SpawnProvider(h)
  PROVE  LET g == Cardinality(Spawns) + 1 IN
         /\ g \in Gens /\ g \notin Spawns /\ pump[g].pc # "project"
         /\ Spawns' = Spawns \cup {g} /\ h \in Spawning
         /\ GensInv'
<1> DEFINE n == Cardinality(Spawns)
           g == n + 1
<1>1. h \in Spawning
  BY DEF IndInv, TaskInv, GoodTask, Spawning, SpawnProvider
<1>2. g \in Gens
  BY <1>1, RoomToSpawn DEF IndInv
<1>3. n \in Nat /\ Spawns = 1..n
  BY SpawnCounts DEF GensInv, Spawns
<1> HIDE DEF n
<1>4. g \notin Spawns
  BY <1>3
<1>5. prov[g] = Unborn
  BY <1>2, <1>4 DEF GensInv, Spawns
<1>6. pump[g].pc # "project"
  BY <1>2, <1>5 DEF IndInv, PumpInv, GoodPump, Unborn
<1>7. prov' = [prov EXCEPT ![g] = Spawned]
  BY DEF SpawnProvider, n
<1> HIDE DEF g
<1>8. Spawned.phase = "running"
  BY DEF Spawned, Unborn
<1>9. \A i \in Gens : prov'[i] = IF i = g THEN Spawned ELSE prov[i]
  BY <1>7 DEF IndInv, ProvInv
<1>10. Spawns' = Spawns \cup {g}
  BY <1>2, <1>8, <1>9 DEF Spawns
<1>11. Spawns' = 1..Cardinality(Spawns')
  <2>1. Spawns' = 1..g /\ g \in Nat
    BY <1>3, <1>10 DEF g
  <2>2. Cardinality(1..g) = g
    <3>1. Cardinality(1..g) = IF 1 > g THEN 0 ELSE g - 1 + 1
      BY <2>1, FS_Interval
    <3>2. g >= 1
      BY <1>3 DEF g
    <3> QED
      BY <2>1, <3>1, <3>2
  <2> QED
    BY <2>1, <2>2
<1>12. GensInv'
  BY <1>8, <1>9, <1>11 DEF GensInv
<1> QED
  BY <1>1, <1>2, <1>4, <1>6, <1>10, <1>12 DEF g, n

\* A step keeps the generations in order.
LEMMA GensStep ==
  ASSUME IndInv, GensInv, [Next]_vars
  PROVE  GensInv'
<1>1. CASE \E h \in Handlers : SpawnProvider(h)
  BY <1>1, SpawnMoves
<1>2. CASE \A h \in Handlers : ~SpawnProvider(h)
  <2>1. GensKept
    BY <1>2, GensMoves
  <2>2. Spawns' = Spawns
    BY <2>1 DEF GensKept, Spawns
  <2> QED
    BY <2>1, <2>2 DEF GensInv, GensKept
<1> QED
  BY <1>1, <1>2

\* A step keeps the boot alone.
LEMMA BootStep ==
  ASSUME IndInv, BootInv, [Next]_vars
  PROVE  BootInv'
<1>1. ASSUME LoseMemory
      PROVE  BootInv'
  BY <1>1 DEF LoseMemory, BootInv
<1>2. ASSUME phase' = "up"
      PROVE  BootInv'
  BY <1>2 DEF BootInv
<1>3. ASSUME UNCHANGED <<task, pump, phase>>
      PROVE  BootInv'
  BY <1>3 DEF BootInv
<1>4. ASSUME NEW h \in Handlers, HandlerBegins(h)
      PROVE  phase' = "up"
  BY <1>4 DEF HandlerBegins, StartSession, SendUserMessage, InterruptTurn, RenameSession,
       TogglePin, SetEnvMode, StopSession, ResumeSession, AnswerTool, DeleteSession, Begin,
       CanBegin
<1>5. ASSUME NEW h \in Handlers, HandlerContinues(h)
      PROVE  LoseMemory \/ phase' = "up"
  <2>1. task[h].pc # "idle"
    BY <1>5 DEF HandlerContinues, LoadForDelete, AppendEvents, ProjectEvent, ForwardMessage,
         ForwardInterrupt, ForwardStop, Forward, SpawnProvider, SpawnNothing
  <2>2. phase = "up"
    BY <2>1 DEF BootInv, IdleTask
  <2> QED
    BY <1>5, <2>2 DEF HandlerContinues, LoadForDelete, AppendEvents, ProjectEvent, ForwardMessage,
         ForwardInterrupt, ForwardStop, Forward, SpawnProvider, SpawnNothing
<1>6. ASSUME NEW g \in Gens, PumpStep(g)
      PROVE  phase' = "up"
  <2>1. pump[g].pc # "none"
    BY <1>6 DEF PumpStep, PumpApproval, PumpDecide, PumpAppend, PumpProject
  <2>2. phase = "up"
    BY <2>1 DEF BootInv, NoPump
  <2> QED
    BY <1>6, <2>2 DEF PumpStep, PumpApproval, PumpDecide, PumpAppend, PumpProject
<1>7. ASSUME NEW g \in Gens, Write(g) \/ CliPrints(g) \/ Exit(g)
      PROVE  UNCHANGED <<task, pump, phase>>
  BY <1>7 DEF Write, CliPrints, Exit, Ready, Stream, Ask, Result, ProviderStep
<1>8. CASE Crash
  BY <1>1, <1>8 DEF Crash
<1>9. CASE Reconcile
  <2>1. UNCHANGED <<task, pump>> /\ phase # "up"
    BY <1>9 DEF Reconcile
  <2> QED
    BY <2>1 DEF BootInv
<1>10. CASE ReconcileProject \/ UNCHANGED vars
  BY <1>2, <1>3, <1>10 DEF ReconcileProject, vars
<1> QED
  BY <1>1, <1>2, <1>3, <1>4, <1>5, <1>6, <1>7, <1>8, <1>9, <1>10 DEF Next

\* No writer comes or goes and nothing is written.
RowStill ==
  /\ UNCHANGED <<stored, row, torn>>
  /\ phase' = "bootProject" <=> phase = "bootProject"
  /\ \A h \in Handlers : /\ task'[h].pc = "project" <=> task[h].pc = "project"
                         /\ task[h].pc = "project" => task'[h] = task[h]
  /\ \A g \in Gens : /\ pump'[g].pc = "project" <=> pump[g].pc = "project"
                     /\ pump[g].pc = "project" => pump'[g] = pump[g]

\* Such a step keeps what the row lacks.
LEMMA StillKeepsRow ==
  ASSUME RowInv, RowStill
  PROVE  RowInv'
<1>1. WritingTasks' = WritingTasks /\ WritingPumps' = WritingPumps
  BY DEF RowStill, WritingTasks, WritingPumps
<1>2. WindowOpen' = WindowOpen
  BY <1>1 DEF WindowOpen, RowStill
<1>3. ASSUME NEW h \in WritingTasks, LoneTask(h)
      PROVE  LoneTask(h)'
  <2>1. h \in Handlers /\ task[h].pc = "project"
    BY DEF WritingTasks
  <2>2. task'[h] = task[h]
    BY <2>1 DEF RowStill
  <2> QED
    BY <1>1, <1>3, <2>2 DEF LoneTask, RowStill, stored
<1>4. ASSUME NEW g \in WritingPumps, LonePump(g)
      PROVE  LonePump(g)'
  <2>1. g \in Gens /\ pump[g].pc = "project"
    BY DEF WritingPumps
  <2>2. pump'[g] = pump[g]
    BY <2>1 DEF RowStill
  <2> QED
    BY <1>1, <1>4, <2>2 DEF LonePump, RowStill, stored
<1>5. LoneBoot => LoneBoot'
  BY <1>1 DEF LoneBoot, RowStill, stored
<1> QED
  BY <1>1, <1>2, <1>3, <1>4, <1>5 DEF RowInv, RowStill, stored

\* A handler that is not writing and goes where nothing is written changes nothing.
LEMMA HandlerStill ==
  ASSUME IndInv, NEW h \in Handlers, NEW t, task[h].pc # "project", t.pc # "project",
         task' = [task EXCEPT ![h] = t], UNCHANGED <<stored, row, torn, pump, phase>>
  PROVE  RowStill
<1>1. \A i \in Handlers : task'[i] = IF i = h THEN t ELSE task[i]
  BY DEF IndInv, TaskInv
<1> QED
  BY <1>1 DEF RowStill

\* So does such a pump.
LEMMA PumpStill ==
  ASSUME IndInv, NEW g \in Gens, NEW u, pump[g].pc # "project", u.pc # "project",
         pump' = [pump EXCEPT ![g] = u], UNCHANGED <<stored, row, torn, task, phase>>
  PROVE  RowStill
<1>1. \A i \in Gens : pump'[i] = IF i = g THEN u ELSE pump[i]
  BY DEF IndInv, PumpInv
<1> QED
  BY <1>1 DEF RowStill

\* No writer is left, and the row is the state.
LEMMA RowWritten ==
  ASSUME WritingTasks' = {}, WritingPumps' = {}, phase' # "bootProject", row' = state'
  PROVE  RowInv'
BY DEF RowInv

\* A handler appends.
LEMMA AppendKeepsRow ==
  ASSUME IndInv, RowInv, NEW h \in Handlers, AppendEvents(h)
  PROVE  RowInv'
<1> DEFINE t == task[h]
<1>1. t.pc = "append" /\ t \in Tasks /\ t.events \in Batches
  BY DEF AppendEvents, IndInv, TaskInv, GoodTask
<1>2. CASE Len(log) > t.expected
  <2>1. /\ task' = [task EXCEPT ![h] = IdleTask]
        /\ UNCHANGED <<stored, row, torn, pump, phase>>
    BY <1>2 DEF AppendEvents
  <2>2. IdleTask.pc # "project"
    BY DEF IdleTask
  <2>3. RowStill
    BY <1>1, <2>1, <2>2, HandlerStill
  <2> QED
    BY <2>3, StillKeepsRow
<1>3. CASE ~(Len(log) > t.expected)
  <2>1. /\ Persist(t.events) /\ torn' = (torn \/ WindowOpen)
        /\ task' = [task EXCEPT ![h] = [t EXCEPT !.pc = "project"]]
        /\ UNCHANGED <<row, pump, phase>>
    BY <1>3 DEF AppendEvents
  <2>2. /\ [t EXCEPT !.pc = "project"].pc = "project"
        /\ [t EXCEPT !.pc = "project"].events = t.events
    BY <1>1 DEF Tasks
  <2>3. SUFFICES ASSUME ~torn'
                 PROVE  RowInv'
    BY DEF RowInv
  <2>4. ~WindowOpen /\ row = state
    BY <2>1, <2>3 DEF RowInv
  <2>5. /\ task'[h].pc = "project" /\ task'[h].events = t.events
        /\ \A i \in Handlers \ {h} : task'[i] = task[i]
    BY <2>1, <2>2 DEF IndInv, TaskInv
  <2>6. WritingTasks' = {h} /\ WritingPumps' = {} /\ phase' # "bootProject"
    BY <2>1, <2>4, <2>5 DEF WindowOpen, WritingTasks, WritingPumps
  <2>7. ApplyBatch(row', task'[h].events) = state'
    BY <2>1, <2>4, <2>5 DEF Persist
  <2>8. LoneTask(h)'
    BY <1>1, <2>5, <2>6, <2>7 DEF LoneTask
  <2> QED
    BY <2>6, <2>8 DEF RowInv, WindowOpen
<1> QED
  BY <1>2, <1>3

\* A pump appends.
LEMMA PumpAppendKeepsRow ==
  ASSUME IndInv, RowInv, NEW g \in Gens, PumpAppend(g)
  PROVE  RowInv'
<1> DEFINE p == pump[g]
<1>1. p.pc = "append" /\ p \in Pumps /\ GoodCache(p, log, state)
  BY DEF PumpAppend, IndInv, PumpInv, GoodPump, GoodCache
<1>2. CASE Len(log) = p.version
  <2> DEFINE u == [p EXCEPT !.pc = "project", !.version = @ + Len(p.events),
                            !.cache = ApplyBatch(@, p.events)]
  <2>1. /\ Persist(p.events) /\ torn' = (torn \/ WindowOpen)
        /\ pump' = [pump EXCEPT ![g] = u]
        /\ UNCHANGED <<row, task, phase>>
    BY <1>2 DEF PumpAppend
  <2>2. u.pc = "project" /\ u.cache = ApplyBatch(p.cache, p.events)
    BY <1>1 DEF Pumps
  <2> HIDE DEF u
  <2>3. SUFFICES ASSUME ~torn'
                 PROVE  RowInv'
    BY DEF RowInv
  <2>4. ~WindowOpen
    BY <2>1, <2>3
  <2>5. /\ pump'[g] = u
        /\ \A i \in Gens \ {g} : pump'[i] = pump[i]
    BY <2>1 DEF IndInv, PumpInv
  <2>6. WritingPumps' = {g} /\ WritingTasks' = {} /\ phase' # "bootProject"
    BY <2>1, <2>2, <2>4, <2>5 DEF WindowOpen, WritingTasks, WritingPumps
  <2>7. pump'[g].cache = state'
    BY <1>1, <1>2, <2>1, <2>2, <2>5 DEF Persist, GoodCache
  <2>8. LonePump(g)'
    BY <2>6, <2>7 DEF LonePump
  <2> QED
    BY <2>6, <2>8 DEF RowInv, WindowOpen
<1>3. CASE Len(log) # p.version
  <2>1. PICK u \in {[NewPump EXCEPT !.attempt = 1], Received(g, p)} :
            /\ pump' = [pump EXCEPT ![g] = u]
            /\ UNCHANGED <<stored, row, torn, task, phase>>
    BY <1>3 DEF PumpAppend
  <2>2. u.pc # "project"
    <3>1. [NewPump EXCEPT !.attempt = 1].pc = "recv"
      BY DEF NewPump, NoPump
    <3>2. Received(g, p).pc = "recv"
      BY <1>1 DEF Received, Pumps
    <3> QED
      BY <3>1, <3>2
  <2>3. RowStill
    BY <1>1, <2>1, <2>2, PumpStill
  <2> QED
    BY <2>3, StillKeepsRow
<1> QED
  BY <1>2, <1>3

\* What is left of a batch when its first event is applied.
LEMMA BatchProjected ==
  ASSUME NEW b \in Batches, NEW r
  PROVE  /\ b[1] \in SessionEvents /\ Head(b) = b[1]
         /\ Tail(b) = <<>> => ApplyBatch(r, b) = Apply(r, b[1])
         /\ Tail(b) # <<>> => /\ Tail(b) \in Batches
                              /\ ApplyBatch(Apply(r, b[1]), Tail(b)) = ApplyBatch(r, b)
<1>1. b \in Seq(SessionEvents) /\ Len(b) \in 1..2 /\ b # <<>>
  BY EmptySeq DEF Batches
<1>2. b[1] \in SessionEvents /\ Head(b) = b[1]
  <2>1. <<>> \in Seq(SessionEvents)
    BY EmptySeq
  <2> QED
    BY <2>1, BatchAppended
<1>3. /\ Tail(b) \in Seq(SessionEvents) /\ Len(Tail(b)) = Len(b) - 1
      /\ \A i \in 1..Len(Tail(b)) : Tail(b)[i] = b[i + 1]
  BY <1>1, HeadTailProperties
<1>4. CASE Len(b) = 1
  <2>1. Len(Tail(b)) = 0
    BY <1>3, <1>4
  <2>2. Tail(b) = <<>>
    BY <1>3, <2>1, EmptySeq
  <2> QED
    BY <1>2, <1>4, <2>2 DEF ApplyBatch
<1>5. CASE Len(b) = 2
  <2>1. Len(Tail(b)) = 1
    BY <1>3, <1>5
  <2>2. Tail(b) # <<>> /\ Tail(b) \in Batches
    <3>1. Len(<<>>) = 0 /\ 1 # 0 /\ 1 \in 1..2
      BY EmptySeq
    <3>2. Tail(b) # <<>>
      BY <2>1, <3>1
    <3>3. Len(Tail(b)) \in 1..2
      BY <2>1, <3>1
    <3> QED
      BY <1>3, <3>2, <3>3 DEF Batches
  <2>3. Tail(b)[1] = b[2]
    <3>1. 1 \in 1..1 /\ 1 + 1 = 2
      OBVIOUS
    <3>2. Tail(b)[1] = b[1 + 1]
      BY <1>3, <2>1, <3>1, Zenon
    <3> QED
      BY <3>1, <3>2
  <2> HIDE DEF Batches
  <2>4. Len(b) # 1
    BY <1>5
  <2> QED
    BY <1>2, <2>1, <2>2, <2>3, <2>4 DEF ApplyBatch
<1> QED
  BY <1>1, <1>4, <1>5

\* A handler applies an event to the row.
LEMMA ProjectKeepsRow ==
  ASSUME IndInv, RowInv, NEW h \in Handlers, ProjectEvent(h)
  PROVE  RowInv'
<1> DEFINE t == task[h]
           b == t.events
           rest == Tail(b)
<1>1. t.pc = "project" /\ t \in Tasks /\ UNCHANGED stored
  BY DEF ProjectEvent, IndInv, TaskInv, GoodTask
<1>2. SUFFICES ASSUME ~torn'
               PROVE  RowInv'
  BY DEF RowInv
<1>3. /\ row' = Apply(row, Head(b))
      /\ task' = [task EXCEPT ![h] = IF rest = <<>> THEN AfterPersist(t)
                                     ELSE [t EXCEPT !.events = rest]]
      /\ UNCHANGED <<pump, phase, torn>>
  BY <1>2 DEF ProjectEvent
<1>4. /\ WritingTasks = {h} /\ WritingPumps = {} /\ phase # "bootProject"
      /\ b \in Batches /\ ApplyBatch(row, b) = state
  <2>1. h \in WritingTasks
    BY <1>1 DEF WritingTasks
  <2> QED
    BY <1>2, <1>3, <2>1 DEF RowInv, LoneTask
<1>5. WritingPumps' = {} /\ phase' # "bootProject"
  BY <1>3, <1>4 DEF WritingPumps
<1>6. \A i \in Handlers \ {h} : task'[i] = task[i] /\ task[i].pc # "project"
  BY <1>3, <1>4 DEF WritingTasks, IndInv, TaskInv
<1>7. CASE rest = <<>>
  <2>1. task'[h] = AfterPersist(t)
    BY <1>3, <1>7 DEF IndInv, TaskInv
  <2>2. task'[h].pc # "project"
    BY <1>1, <2>1 DEF AfterPersist, IdleTask, Tasks
  <2>3. WritingTasks' = {}
    BY <1>6, <2>2 DEF WritingTasks
  <2>4. row' = state'
    BY <1>1, <1>3, <1>4, <1>7, BatchProjected DEF stored
  <2> QED
    BY <1>5, <2>3, <2>4, RowWritten
<1>8. CASE rest # <<>>
  <2>1. task'[h] = [t EXCEPT !.events = rest]
    BY <1>3, <1>8 DEF IndInv, TaskInv
  <2>2. [t EXCEPT !.events = rest].pc = t.pc /\ [t EXCEPT !.events = rest].events = rest
    <3> HIDE DEF rest
    <3> QED
      BY <1>1 DEF Tasks
  <2>3. task'[h].pc = "project" /\ task'[h].events = rest
    BY <1>1, <2>1, <2>2
  <2>4. WritingTasks' = {h}
    BY <1>6, <2>3 DEF WritingTasks
  <2>5. rest \in Batches /\ ApplyBatch(row', rest) = state'
    BY <1>1, <1>3, <1>4, <1>8, BatchProjected DEF stored
  <2>6. LoneTask(h)'
    BY <1>5, <2>3, <2>4, <2>5 DEF LoneTask
  <2> QED
    BY <1>5, <2>4, <2>6 DEF RowInv, WindowOpen
<1> QED
  BY <1>7, <1>8

\* A pump overwrites the row.
LEMMA PumpProjectKeepsRow ==
  ASSUME IndInv, RowInv, NEW g \in Gens, PumpProject(g)
  PROVE  RowInv'
<1>1. /\ pump[g].pc = "project" /\ pump[g] \in Pumps
      /\ row' = pump[g].cache /\ pump' = [pump EXCEPT ![g] = Received(g, pump[g])]
      /\ UNCHANGED <<stored, task, phase, torn>>
  BY DEF PumpProject, history, IndInv, PumpInv, GoodPump, GoodCache
<1>2. SUFFICES ASSUME ~torn
               PROVE  RowInv'
  BY <1>1 DEF RowInv
<1>3. /\ WritingPumps = {g} /\ WritingTasks = {} /\ phase # "bootProject"
      /\ pump[g].cache = state
  <2>1. g \in WritingPumps
    BY <1>1 DEF WritingPumps
  <2> QED
    BY <1>2, <2>1 DEF RowInv, LonePump
<1>4. Received(g, pump[g]).pc = "recv"
  BY <1>1 DEF Received, Pumps
<1>5. pump'[g].pc = "recv" /\ \A i \in Gens \ {g} : pump'[i] = pump[i]
  BY <1>1, <1>4 DEF IndInv, PumpInv
<1>6. WritingPumps' = {} /\ WritingTasks' = {}
  BY <1>1, <1>3, <1>5 DEF WritingPumps, WritingTasks
<1> QED
  BY <1>1, <1>3, <1>6, RowWritten DEF stored

\* A crash loses the writers; it tears the row off the log if there was one.
LEMMA CrashKeepsRow ==
  ASSUME RowInv, Crash
  PROVE  RowInv'
<1>1. SUFFICES ASSUME ~torn'
               PROVE  RowInv'
  BY DEF RowInv
<1>2. row = state /\ UNCHANGED <<stored, row>> /\ LoseMemory
  BY <1>1 DEF Crash, RowInv
<1>3. WritingTasks' = {} /\ WritingPumps' = {} /\ phase' # "bootProject"
  BY <1>2 DEF LoseMemory, WritingTasks, WritingPumps, IdleTask, NoPump
<1> QED
  BY <1>2, <1>3, RowWritten DEF stored

\* The boot reconciles.
LEMMA ReconcileKeepsRow ==
  ASSUME IndInv, BootInv, RowInv, Reconcile
  PROVE  RowInv'
<1>1. phase = "boot" /\ UNCHANGED <<row, task, pump, torn>>
  BY DEF Reconcile, history
<1>2. /\ WritingTasks = {} /\ WritingPumps = {}
      /\ WritingTasks' = {} /\ WritingPumps' = {}
  BY <1>1 DEF BootInv, WritingTasks, WritingPumps, IdleTask, NoPump
<1>3. SUFFICES ASSUME ~torn
               PROVE  RowInv'
  BY <1>1 DEF RowInv
<1>4. row = state
  BY <1>1, <1>2, <1>3 DEF RowInv, WindowOpen
<1>5. CASE log' = log
  <2>1. UNCHANGED stored /\ phase' = "up"
    <3>1. log' # log \/ ~(\E b \in Batches : Persist(b))
      BY LogGrows DEF IndInv
    <3>2. CASE UNCHANGED stored /\ phase' = "up"
      BY <3>2
    <3>3. CASE state # Absent /\ state.status = "running"
               /\ Persist(Decide(state, StopCmd).events)
      <4>1. Decide(state, StopCmd).events = <<[type |-> "SessionStopped"]>>
        BY <3>3 DEF Decide, StopCmd, DecideStop, Accept
      <4>2. [type |-> "SessionStopped"] \in SessionEvents
        BY DEF SessionEvents
      <4>3. \A e \in SessionEvents : <<e>> \in Batches
        BY DEF Batches
      <4> QED
        BY <1>5, <3>1, <3>3, <4>1, <4>2, <4>3
    <3> QED
      BY <3>2, <3>3 DEF Reconcile
  <2> QED
    BY <1>1, <1>2, <1>4, <2>1, RowWritten DEF stored
<1>6. CASE log' # log
  <2> DEFINE e == [type |-> "SessionStopped"]
  <2>1. Persist(<<e>>) /\ <<e>> \in Batches /\ phase' = "bootProject"
    BY <1>6, BootAppends
  <2>2. e \in SessionEvents
    BY DEF SessionEvents
  <2> HIDE DEF e
  <2>3. log' = Append(log, e)
    <3>1. log' = log \o <<e>>
      BY <2>1 DEF Persist
    <3> QED
      BY <2>2, <3>1, AppendIsConcat DEF IndInv, StoredInv
  <2>4. Last(log') = e
    <3>1. Len(log') = Len(log) + 1 /\ log'[Len(log) + 1] = e
      BY <2>2, <2>3, AppendProperties DEF IndInv, StoredInv
    <3> QED
      BY <3>1 DEF Last
  <2>5. state' = Apply(state, e)
    <3>1. Len(<<e>>) = 1 /\ <<e>>[1] = e
      OBVIOUS
    <3> QED
      BY <2>1, <3>1 DEF Persist, ApplyBatch
  <2>6. LoneBoot'
    BY <1>1, <1>2, <1>4, <2>4, <2>5 DEF LoneBoot
  <2> QED
    BY <1>2, <2>1, <2>6 DEF RowInv, WindowOpen
<1> QED
  BY <1>5, <1>6

\* And writes the row of what it stopped.
LEMMA ReconcileProjectKeepsRow ==
  ASSUME RowInv, ReconcileProject
  PROVE  RowInv'
<1>1. /\ phase = "bootProject" /\ phase' = "up" /\ row' = Apply(row, Last(log))
      /\ UNCHANGED <<stored, task, pump, torn>>
  BY DEF ReconcileProject, history
<1>2. SUFFICES ASSUME ~torn
               PROVE  RowInv'
  BY <1>1 DEF RowInv
<1>3. LoneBoot
  BY <1>1, <1>2 DEF RowInv
<1>4. WritingTasks' = {} /\ WritingPumps' = {}
  BY <1>1, <1>3 DEF LoneBoot, WritingTasks, WritingPumps
<1> QED
  BY <1>1, <1>3, <1>4, RowWritten DEF LoneBoot, stored

\* A handler that goes on without writing.
LEMMA ContinueKeepsRow ==
  ASSUME IndInv, GensInv, RowInv, NEW h \in Handlers,
         ForwardMessage(h) \/ ForwardInterrupt(h) \/ ForwardStop(h)
         \/ SpawnProvider(h) \/ SpawnNothing(h)
  PROVE  RowInv'
<1>1. IdleTask.pc # "project"
  BY DEF IdleTask
<1>2. /\ task[h].pc # "project" /\ task' = [task EXCEPT ![h] = IdleTask]
      /\ UNCHANGED <<stored, row, torn, phase>>
  BY DEF ForwardMessage, ForwardInterrupt, ForwardStop, Forward, SpawnProvider, SpawnNothing,
         history
<1>3. CASE SpawnProvider(h)
  <2> DEFINE g == Cardinality(Spawns) + 1
  <2>1. g \in Gens /\ pump[g].pc # "project"
    BY <1>3, SpawnMoves
  <2>2. pump' = [pump EXCEPT ![g] = NewPump]
    BY <1>3 DEF SpawnProvider
  <2>3. NewPump.pc = "recv"
    BY DEF NewPump, NoPump
  <2> HIDE DEF g
  <2>4. /\ \A i \in Gens : pump'[i] = IF i = g THEN NewPump ELSE pump[i]
        /\ \A i \in Handlers : task'[i] = IF i = h THEN IdleTask ELSE task[i]
    BY <1>2, <2>1, <2>2 DEF IndInv, PumpInv, TaskInv
  <2>5. RowStill
    BY <1>1, <1>2, <2>1, <2>3, <2>4 DEF RowStill
  <2> QED
    BY <2>5, StillKeepsRow
<1>4. CASE ~SpawnProvider(h)
  <2>1. UNCHANGED pump
    BY <1>4 DEF ForwardMessage, ForwardInterrupt, ForwardStop, Forward, SpawnNothing
  <2>2. RowStill
    BY <1>1, <1>2, <2>1, HandlerStill
  <2> QED
    BY <2>2, StillKeepsRow
<1> QED
  BY <1>3, <1>4

\* A pump that decides, or passes a prompt on.
LEMMA PumpReadsKeepRow ==
  ASSUME IndInv, RowInv, NEW g \in Gens, PumpApproval(g) \/ PumpDecide(g)
  PROVE  RowInv'
<1>1. /\ pump[g].pc = "recv" /\ pump[g] \in Pumps
      /\ UNCHANGED <<stored, row, torn, task, phase>>
  BY DEF PumpApproval, PumpDecide, history, IndInv, PumpInv, GoodPump, GoodCache
<1>2. CASE PumpApproval(g)
  <2>1. RowStill
    BY <1>1, <1>2 DEF PumpApproval, RowStill
  <2> QED
    BY <2>1, StillKeepsRow
<1>3. CASE PumpDecide(g)
  <2> DEFINE p == pump[g]
             seeded == IF p.cache = Absent /\ p.version = 0
                       THEN [p EXCEPT !.cache = state, !.version = Len(log)] ELSE p
             events == Decide(seeded.cache, CommandOf(Head(prov[g].out))).events
  <2>1. PICK u \in {Received(g, seeded),
                    [seeded EXCEPT !.pc = "append", !.events = events]} :
            pump' = [pump EXCEPT ![g] = u]
    BY <1>3 DEF PumpDecide
  <2>2. seeded \in Pumps
    <3>1. state \in SessionStates /\ Len(log) \in Nat
      BY LenProperties DEF IndInv, StoredInv
    <3>2. ASSUME NEW s \in SessionStates, NEW n \in Nat
          PROVE  [p EXCEPT !.cache = s, !.version = n] \in Pumps
      BY <1>1 DEF Pumps
    <3> QED
      BY <1>1, <3>1, <3>2
  <2> HIDE DEF events, seeded
  <2>3. /\ Received(g, seeded).pc = "recv"
        /\ [seeded EXCEPT !.pc = "append", !.events = events].pc = "append"
    BY <2>2 DEF Received, Pumps
  <2>4. u.pc # "project"
    BY <2>1, <2>3
  <2>5. RowStill
    BY <1>1, <2>1, <2>4, PumpStill
  <2> QED
    BY <2>5, StillKeepsRow
<1> QED
  BY <1>2, <1>3

\* A step keeps what the row lacks.
LEMMA RowStep ==
  ASSUME IndInv, RowIndInv, [Next]_vars
  PROVE  RowInv'
<1>1. BootInv /\ GensInv /\ RowInv
  BY DEF RowIndInv
<1>2. ASSUME NEW h \in Handlers, HandlerBegins(h) \/ LoadForDelete(h)
      PROVE  RowInv'
  <2>1. PICK t : Begun(t) /\ task' = [task EXCEPT ![h] = t]
    BY <1>2, HandlerBegun
  <2>2. UNCHANGED <<stored, row, pump, phase, torn>> /\ task[h].pc # "project"
    BY <1>2, HandlerBegun DEF IdleTask
  <2>3. RowStill
    BY <2>1, <2>2, HandlerStill DEF Begun
  <2> QED
    BY <1>1, <2>3, StillKeepsRow
<1>3. ASSUME NEW h \in Handlers, HandlerContinues(h)
      PROVE  RowInv'
  BY <1>1, <1>2, <1>3, AppendKeepsRow, ProjectKeepsRow, ContinueKeepsRow DEF HandlerContinues
<1>4. ASSUME NEW g \in Gens, PumpStep(g)
      PROVE  RowInv'
  BY <1>1, <1>4, PumpAppendKeepsRow, PumpProjectKeepsRow, PumpReadsKeepRow DEF PumpStep
<1>5. ASSUME NEW g \in Gens, Write(g) \/ CliPrints(g) \/ Exit(g)
      PROVE  RowInv'
  <2>1. UNCHANGED <<stored, row, torn, task, pump, phase>>
    BY <1>5 DEF Write, CliPrints, Exit, Ready, Stream, Ask, Result, ProviderStep, history
  <2>2. RowStill
    BY <2>1 DEF RowStill
  <2> QED
    BY <1>1, <2>2, StillKeepsRow
<1>6. CASE UNCHANGED vars
  <2>1. RowStill
    BY <1>6 DEF vars, RowStill, stored
  <2> QED
    BY <1>1, <2>1, StillKeepsRow
<1>7. CASE Crash \/ Reconcile \/ ReconcileProject
  BY <1>1, <1>7, CrashKeepsRow, ReconcileKeepsRow, ReconcileProjectKeepsRow
<1> QED
  BY <1>2, <1>3, <1>4, <1>5, <1>6, <1>7 DEF Next

\* In the first state nothing is written or spawned.
LEMMA InitRowIndInv == Init => RowIndInv
<1> SUFFICES ASSUME Init
             PROVE  RowIndInv
  OBVIOUS
<1>1. BootInv
  BY DEF Init, BootInv
<1>2. GensInv
  <2>1. Spawns = {}
    BY DEF Init, Spawns, Unborn
  <2>2. Cardinality({}) = 0
    BY FS_EmptySet
  <2> QED
    BY <2>1, <2>2 DEF Init, GensInv
<1>3. RowInv
  BY DEF Init, RowInv, WritingTasks, WritingPumps, IdleTask, NoPump
<1> QED
  BY <1>1, <1>2, <1>3 DEF RowIndInv

\* Every step keeps what is known of the row, the boot and the generations.
LEMMA NextRowIndInv ==
  IndInv /\ RowIndInv /\ [Next]_vars => RowIndInv'
<1> SUFFICES ASSUME IndInv, RowIndInv, [Next]_vars
             PROVE  RowIndInv'
  OBVIOUS
<1> QED
  BY BootStep, GensStep, RowStep DEF RowIndInv

\* Unless two writes of log and row overlapped, or a crash fell into one, the row
\* of a session is what its log folds to whenever no write is in progress.
THEOREM RowInLockstep == Spec => []LockstepUnlessTorn
<1>1. RowIndInv => LockstepUnlessTorn
  BY DEF RowIndInv, RowInv, LockstepUnlessTorn
<1> QED
  BY <1>1, InitIndInv, NextIndInv, InitRowIndInv, NextRowIndInv, PTL DEF Spec

------------------------------------------------------------------------------
(* Spawned processes and persisted starts.  A handler is owed a process from   *)
(* the append of its SessionStarted or SessionResumed to its spawn.            *)

Owing == {h \in Handlers : /\ task[h].op \in {"start", "resume"}
                           /\ task[h].pc \in {"project", "spawn"}}

Persisted(l) == OfType(l, {"SessionStarted", "SessionResumed"})

\* What SpawnsArePersisted needs to be inductive.
OwedInv == Cardinality(Spawns) + Cardinality(Owing) <= Cardinality(Persisted(log))

\* The persisted starts are finitely many, and a batch adds to them.
LEMMA PersistedGrows ==
  ASSUME NEW l \in Seq(SessionEvents), NEW b \in Batches
  PROVE  /\ Cardinality(Persisted(l)) \in Nat /\ Cardinality(Persisted(l \o b)) \in Nat
         /\ Cardinality(Persisted(l)) <= Cardinality(Persisted(l \o b))
         /\ b[1].type \in {"SessionStarted", "SessionResumed"} =>
                Cardinality(Persisted(l)) + 1 <= Cardinality(Persisted(l \o b))
<1> DEFINE T == {"SessionStarted", "SessionResumed"}
<1>1. ASSUME NEW k \in Seq(SessionEvents), NEW e \in SessionEvents
      PROVE  /\ Append(k, e) \in Seq(SessionEvents)
             /\ IsFiniteSet(Persisted(k)) /\ IsFiniteSet(Persisted(Append(k, e)))
             /\ Cardinality(Persisted(k)) \in Nat
             /\ Cardinality(Persisted(Append(k, e))) \in Nat
             /\ Cardinality(Persisted(k)) <= Cardinality(Persisted(Append(k, e)))
             /\ e.type \in T =>
                    Cardinality(Persisted(Append(k, e))) = Cardinality(Persisted(k)) + 1
  <2>1. Append(k, e) \in Seq(SessionEvents)
    BY AppendProperties
  <2>2. /\ Persisted(k) \subseteq 1..Len(k) /\ Len(k) \in Nat
        /\ Persisted(Append(k, e)) = IF e.type \in T THEN Persisted(k) \cup {Len(k) + 1}
                                     ELSE Persisted(k)
    <3>1. /\ \A S : OfType(k, S) \subseteq 1..Len(k)
          /\ \A S : OfType(Append(k, e), S) =
                        IF e.type \in S THEN OfType(k, S) \cup {Len(k) + 1} ELSE OfType(k, S)
      BY OfTypeAppend
    <3>2. Persisted(k) = OfType(k, T) /\ Persisted(Append(k, e)) = OfType(Append(k, e), T)
      BY DEF Persisted
    <3>3. Len(k) \in Nat
      BY LenProperties
    <3> HIDE DEF T, Persisted
    <3> QED
      BY <3>1, <3>2, <3>3
  <2>3. IsFiniteSet(Persisted(k))
    <3>1. IsFiniteSet(1..Len(k))
      BY <2>2, FS_Interval
    <3> QED
      BY <2>2, <3>1, FS_Subset
  <2>4. Len(k) + 1 \notin Persisted(k)
    BY <2>2
  <2>5. /\ IsFiniteSet(Persisted(k) \cup {Len(k) + 1})
        /\ Cardinality(Persisted(k) \cup {Len(k) + 1}) = Cardinality(Persisted(k)) + 1
    BY <2>3, <2>4, FS_AddElement
  <2>6. Cardinality(Persisted(k)) \in Nat
    BY <2>3, FS_CardinalityType
  <2> HIDE DEF T, Persisted
  <2>7. CASE e.type \in T
    BY <2>1, <2>2, <2>3, <2>5, <2>6, <2>7
  <2>8. CASE e.type \notin T
    BY <2>1, <2>2, <2>3, <2>6, <2>8
  <2> QED
    BY <2>7, <2>8
<1>2. Len(b) \in 1..2
  BY DEF Batches
<1>3. CASE Len(b) = 1
  <2>1. l \o b = Append(l, b[1]) /\ b[1] \in SessionEvents
    BY <1>3, BatchAppended
  <2> DEFINE m == Cardinality(Persisted(l))
             n == Cardinality(Persisted(l \o b))
  <2>2. /\ m \in Nat /\ n \in Nat /\ m <= n
        /\ b[1].type \in T => n = m + 1
    BY <1>1, <2>1
  <2> HIDE DEF m, n, Batches
  <2>3. b[1].type \in T => m + 1 <= n
    BY <2>2
  <2> QED
    BY <2>2, <2>3 DEF m, n
<1>4. CASE Len(b) = 2
  <2> DEFINE k == Append(l, b[1])
             m == Cardinality(Persisted(l))
             i == Cardinality(Persisted(k))
             n == Cardinality(Persisted(l \o b))
  <2>1. l \o b = Append(k, b[2]) /\ b[1] \in SessionEvents /\ b[2] \in SessionEvents
    BY <1>4, BatchAppended
  <2>2. /\ m \in Nat /\ i \in Nat /\ m <= i /\ k \in Seq(SessionEvents)
        /\ b[1].type \in T => i = m + 1
    BY <1>1, <2>1
  <2>3. n \in Nat /\ i <= n
    <3> HIDE DEF k
    <3> QED
      BY <1>1, <2>1, <2>2
  <2> HIDE DEF m, i, n, Batches, k
  <2>4. m <= n /\ (b[1].type \in T => m + 1 <= n)
    <3>1. \A x, y, z \in Nat : x <= y /\ y <= z => x <= z
      OBVIOUS
    <3> QED
      BY <2>2, <2>3, <3>1
  <2> QED
    BY <2>2, <2>3, <2>4 DEF m, n
<1> QED
  BY <1>2, <1>3, <1>4

\* A step that spawns nothing and owes nothing new only adds to the log.
LEMMA OwesLess ==
  ASSUME IndInv, OwedInv, [Next]_vars, \A h \in Handlers : ~SpawnProvider(h),
         Owing' \subseteq Owing
  PROVE  OwedInv'
<1>1. Spawns' = Spawns
  BY GensMoves DEF GensKept, Spawns
<1>2. Owing \in SUBSET Handlers /\ Owing' \in SUBSET Handlers /\ Spawns \in SUBSET Gens
  BY DEF Owing, Spawns
<1>3. /\ Cardinality(Spawns) \in Nat /\ Cardinality(Owing) \in Nat
      /\ Cardinality(Owing') \in Nat /\ Cardinality(Owing') <= Cardinality(Owing)
  BY <1>2, SpawnCounts, FS_Subset
<1>4. Cardinality(Persisted(log)) \in Nat /\ Cardinality(Persisted(log')) \in Nat
      /\ Cardinality(Persisted(log)) <= Cardinality(Persisted(log'))
  <2>1. log \in Seq(SessionEvents)
    BY DEF IndInv, StoredInv
  <2>2. CASE log' = log
    <3>1. [type |-> "SessionStopped"] \in SessionEvents
      BY DEF SessionEvents
    <3>2. \A e \in SessionEvents : <<e>> \in Batches
      BY DEF Batches
    <3>3. Cardinality(Persisted(log)) \in Nat
      BY <2>1, <3>1, <3>2, PersistedGrows
    <3> QED
      BY <2>2, <3>3
  <2>3. CASE log' # log
    <3>1. PICK b \in Batches : Persist(b)
      BY <2>3, WritesAddBatch
    <3>2. log' = log \o b
      BY <3>1 DEF Persist
    <3> QED
      BY <2>1, <3>2, PersistedGrows
  <2> QED
    BY <2>2, <2>3
<1> HIDE DEF Persisted
<1>5. Cardinality(Spawns') + Cardinality(Owing') <= Cardinality(Persisted(log'))
  BY <1>1, <1>3, <1>4 DEF OwedInv
<1> QED
  BY <1>5 DEF OwedInv, Persisted

\* A handler appends: it is owed a process for what it persisted.
LEMMA AppendOwes ==
  ASSUME IndInv, Shapes, OwedInv, NEW h \in Handlers, AppendEvents(h)
  PROVE  OwedInv'
<1> DEFINE t == task[h]
           b == t.events
<1>1. /\ t.pc = "append" /\ t \in Tasks
      /\ \A i \in Handlers \ {h} : task'[i] = task[i]
  BY DEF AppendEvents, IndInv, TaskInv, GoodTask
<1>2. [Next]_vars /\ \A i \in Handlers : ~SpawnProvider(i)
  <2>1. ASSUME NEW i \in Handlers, SpawnProvider(i)
        PROVE  FALSE
    <3>1. UNCHANGED pump /\ pump' = [pump EXCEPT ![Cardinality(Spawns) + 1] = NewPump]
          /\ task' = [task EXCEPT ![i] = IdleTask] /\ task[i].pc = "spawn"
      BY <2>1 DEF AppendEvents, SpawnProvider
    <3>2. task'[h] # task[h]
      <4>1. task'[h] = IdleTask \/ task'[h] = [t EXCEPT !.pc = "project"]
        BY DEF AppendEvents, IndInv, TaskInv
      <4>2. [t EXCEPT !.pc = "project"].pc = "project" /\ IdleTask.pc = "idle"
        BY <1>1 DEF Tasks, IdleTask
      <4> QED
        BY <1>1, <4>1, <4>2
    <3> QED
      BY <1>1, <3>1, <3>2
  <2> QED
    BY <2>1 DEF Next, HandlerContinues
<1>3. CASE Owing' \subseteq Owing
  BY <1>2, <1>3, OwesLess
<1>4. CASE ~(Owing' \subseteq Owing)
  <2>1. h \in Owing' /\ Owing' \subseteq Owing \cup {h} /\ h \notin Owing
    BY <1>1, <1>4 DEF Owing
  <2>2. /\ ~(Len(log) > t.expected) /\ t.op \in {"start", "resume"}
    <3>1. IdleTask.pc = "idle" /\ [t EXCEPT !.pc = "project"].op = t.op
      BY <1>1 DEF IdleTask, Tasks
    <3>2. task'[h].op \in {"start", "resume"} /\ task'[h].pc # "idle"
      BY <2>1 DEF Owing
    <3>3. /\ Len(log) > t.expected => task'[h] = IdleTask
          /\ ~(Len(log) > t.expected) => task'[h] = [t EXCEPT !.pc = "project"]
      BY DEF AppendEvents, IndInv, TaskInv
    <3> QED
      BY <3>1, <3>2, <3>3
  <2>3. Persist(b) /\ b \in Batches
    BY <1>1, <2>2 DEF AppendEvents, IndInv, TaskInv, GoodTask
  <2>4. log' # log
    BY <2>3, LogGrows DEF IndInv
  <2>5. b[1].type \in {"SessionStarted", "SessionResumed"}
    BY <2>2, <2>4, HandlerAppends
  <2>6. log \in Seq(SessionEvents) /\ log' = log \o b
    BY <2>3 DEF Persist, IndInv, StoredInv
  <2>7. /\ Cardinality(Persisted(log)) \in Nat /\ Cardinality(Persisted(log')) \in Nat
        /\ Cardinality(Persisted(log)) + 1 <= Cardinality(Persisted(log'))
    BY <2>3, <2>5, <2>6, PersistedGrows
  <2>8. Spawns' = Spawns
    BY <1>2, GensMoves DEF GensKept, Spawns
  <2>9. /\ IsFiniteSet(Owing) /\ Cardinality(Owing) \in Nat /\ Cardinality(Spawns) \in Nat
        /\ Cardinality(Owing') \in Nat
    <3>1. Owing \in SUBSET Handlers /\ Owing' \in SUBSET Handlers /\ Spawns \in SUBSET Gens
      BY DEF Owing, Spawns
    <3> QED
      BY <3>1, SpawnCounts
  <2>10. Cardinality(Owing') <= Cardinality(Owing) + 1
    <3>1. /\ IsFiniteSet(Owing \cup {h})
          /\ Cardinality(Owing \cup {h}) = Cardinality(Owing) + 1
      BY <2>1, <2>9, FS_AddElement
    <3> QED
      BY <2>1, <3>1, FS_Subset
  <2> HIDE DEF Persisted, t
  <2>11. Cardinality(Spawns') + Cardinality(Owing') <= Cardinality(Persisted(log'))
    BY <2>7, <2>8, <2>9, <2>10 DEF OwedInv
  <2> QED
    BY <2>11 DEF OwedInv, Persisted
<1> QED
  BY <1>3, <1>4

\* A spawn pays what it was owed.
LEMMA SpawnPays ==
  ASSUME IndInv, GensInv, OwedInv, NEW h \in Handlers, SpawnProvider(h)
  PROVE  OwedInv'
<1> DEFINE g == Cardinality(Spawns) + 1
<1>1. g \notin Spawns /\ Spawns' = Spawns \cup {g} /\ h \in Spawning
  BY SpawnMoves
<1>2. /\ task[h].pc = "spawn" /\ task' = [task EXCEPT ![h] = IdleTask] /\ UNCHANGED log
      /\ task \in [Handlers -> Tasks] /\ IdleTask.pc = "idle"
  BY DEF SpawnProvider, stored, IndInv, TaskInv, IdleTask
<1>3. h \in Owing /\ Owing' = Owing \ {h}
  BY <1>1, <1>2 DEF Owing, Spawning
<1>4. /\ IsFiniteSet(Owing) /\ Cardinality(Owing) \in Nat
      /\ IsFiniteSet(Spawns) /\ Cardinality(Spawns) \in Nat
  <2>1. Owing \in SUBSET Handlers /\ Spawns \in SUBSET Gens
    BY DEF Owing, Spawns
  <2> QED
    BY <2>1, SpawnCounts
<1>5. Cardinality(Owing') = Cardinality(Owing) - 1
  BY <1>3, <1>4, FS_RemoveElement
<1>6. Cardinality(Spawns') = Cardinality(Spawns) + 1
  <2> HIDE DEF g
  <2> QED
    BY <1>1, <1>4, FS_AddElement
<1> HIDE DEF g
<1>7. Cardinality(Spawns') + Cardinality(Owing') = Cardinality(Spawns) + Cardinality(Owing)
  BY <1>4, <1>5, <1>6
<1> QED
  BY <1>2, <1>7 DEF OwedInv

\* A step keeps the accounts.
LEMMA OwedStep ==
  ASSUME IndInv, Shapes, GensInv, OwedInv, [Next]_vars
  PROVE  OwedInv'
<1>1. CASE \E h \in Handlers : SpawnProvider(h)
  BY <1>1, SpawnPays
<1>2. CASE \E h \in Handlers : AppendEvents(h)
  BY <1>2, AppendOwes
<1>3. CASE /\ \A h \in Handlers : ~SpawnProvider(h) /\ ~AppendEvents(h)
  <2>1. task \in [Handlers -> Tasks] /\ IdleTask.pc = "idle"
    BY DEF IndInv, TaskInv, IdleTask
  <2>2. ASSUME LoseMemory
        PROVE  Owing' \subseteq Owing
    BY <2>1, <2>2 DEF LoseMemory, Owing
  <2>3. ASSUME UNCHANGED task
        PROVE  Owing' \subseteq Owing
    BY <2>3 DEF Owing
  <2>4. ASSUME NEW h \in Handlers, NEW t, task' = [task EXCEPT ![h] = t],
               h \in Owing \/ ~(t.op \in {"start", "resume"} /\ t.pc \in {"project", "spawn"})
        PROVE  Owing' \subseteq Owing
    BY <2>1, <2>4 DEF Owing
  <2>5. ASSUME NEW h \in Handlers, HandlerBegins(h) \/ LoadForDelete(h)
        PROVE  Owing' \subseteq Owing
    <3>1. PICK t : Begun(t) /\ task' = [task EXCEPT ![h] = t]
      BY <2>5, HandlerBegun
    <3> QED
      BY <2>4, <3>1 DEF Begun
  <2>6. ASSUME NEW h \in Handlers, ProjectEvent(h)
        PROVE  Owing' \subseteq Owing
    <3> DEFINE t == task[h]
               rest == Tail(t.events)
               u == IF rest = <<>> THEN AfterPersist(t) ELSE [t EXCEPT !.events = rest]
    <3>1. t.pc = "project" /\ (LoseMemory \/ task' = [task EXCEPT ![h] = u])
      BY <2>6 DEF ProjectEvent
    <3>2. t.op \in {"start", "resume"} => h \in Owing
      BY <3>1 DEF Owing
    <3>3. t.op \notin {"start", "resume"} =>
              ~(u.op \in {"start", "resume"} /\ u.pc \in {"project", "spawn"})
      <4>1. ASSUME NEW x \in Tasks, NEW r, x.op \notin {"start", "resume"}
            PROVE  /\ AfterPersist(x).op \notin {"start", "resume"}
                   /\ [x EXCEPT !.events = r].op = x.op
        BY <4>1 DEF AfterPersist, Tasks, IdleTask
      <4> HIDE DEF rest
      <4> QED
        BY <2>1, <4>1
    <3> HIDE DEF u
    <3> QED
      BY <2>2, <2>4, <3>1, <3>2, <3>3
  <2>7. ASSUME NEW h \in Handlers, HandlerContinues(h)
        PROVE  Owing' \subseteq Owing
    BY <1>3, <2>1, <2>4, <2>5, <2>6, <2>7
       DEF HandlerContinues, ForwardMessage, ForwardInterrupt, ForwardStop, Forward, SpawnNothing
  <2>8. ASSUME NEW g \in Gens, PumpStep(g) \/ Write(g) \/ CliPrints(g) \/ Exit(g)
        PROVE  Owing' \subseteq Owing
    BY <2>3, <2>8 DEF PumpStep, PumpApproval, PumpDecide, PumpAppend, PumpProject, Write,
       CliPrints, Exit, Ready, Stream, Ask, Result, ProviderStep
  <2>9. ASSUME Crash \/ Reconcile \/ ReconcileProject \/ UNCHANGED vars
        PROVE  Owing' \subseteq Owing
    BY <2>2, <2>3, <2>9 DEF Crash, Reconcile, ReconcileProject, vars
  <2>10. Owing' \subseteq Owing
    BY <2>5, <2>7, <2>8, <2>9 DEF Next
  <2> QED
    BY <1>3, <2>10, OwesLess
<1> QED
  BY <1>1, <1>2, <1>3

\* Nothing is spawned, owed or persisted in the first state.
LEMMA InitOwed == Init => OwedInv
<1> SUFFICES ASSUME Init
             PROVE  OwedInv
  OBVIOUS
<1>1. Spawns = {} /\ Owing = {}
  BY DEF Init, Spawns, Owing, Unborn, IdleTask
<1>2. Persisted(log) = {}
  <2>1. DOMAIN <<>> = {}
    BY EmptySeq, LenProperties
  <2> QED
    BY <2>1 DEF Init, Persisted, OfType
<1>3. Cardinality({}) = 0
  BY FS_EmptySet
<1> QED
  BY <1>1, <1>2, <1>3 DEF OwedInv

\* A provider is spawned for a persisted start or resume and for nothing else, so
\* of two handlers that resume at the same time only one spawns.
THEOREM SpawnsPersisted == Spec => []SpawnsArePersisted
<1>1. IndInv /\ OwedInv => SpawnsArePersisted
  <2> SUFFICES ASSUME IndInv, OwedInv
               PROVE  SpawnsArePersisted
    OBVIOUS
  <2>1. Owing \in SUBSET Handlers /\ Spawns \in SUBSET Gens
    BY DEF Owing, Spawns
  <2>2. Cardinality(Owing) \in Nat /\ Cardinality(Spawns) \in Nat
    BY <2>1, SpawnCounts
  <2>3. Cardinality(Persisted(log)) \in Nat
    <3>1. [type |-> "SessionStopped"] \in SessionEvents
      BY DEF SessionEvents
    <3>2. \A e \in SessionEvents : <<e>> \in Batches
      BY DEF Batches
    <3> QED
      BY <3>1, <3>2, PersistedGrows DEF IndInv, StoredInv
  <2> HIDE DEF Persisted
  <2>4. Cardinality(Spawns) <= Cardinality(Persisted(log))
    BY <2>2, <2>3 DEF OwedInv
  <2> QED
    BY <2>4 DEF SpawnsArePersisted, Persisted
<1>2. IndInv /\ LawInv /\ RowIndInv /\ OwedInv /\ [Next]_vars => OwedInv'
  BY OwedStep DEF LawInv, RowIndInv
<1> QED
  BY <1>1, <1>2, InitIndInv, NextIndInv, InitLawInv, NextLawInv, InitRowIndInv,
     NextRowIndInv, InitOwed, PTL DEF Spec

------------------------------------------------------------------------------
(* A session that runs has a provider.  What a running session may rely on is   *)
(* a handler that owes it a process, or a process whose pump will hear its end. *)

\* The pump has not heard yet of anything but a session that runs, and its process
\* is alive, or its last word, SessionEnded, is still in the channel behind what
\* the pump is writing.
Serves(u, p) ==
  /\ u.pc # "none"
  /\ \/ u.cache = Absent /\ u.version = 0
     \/ u.cache # Absent /\ u.cache.status = "running"
  /\ \/ p.phase \in Alive
     \/ /\ p.phase = "exited" /\ p.out # <<>> /\ p.out[Len(p.out)] = SessionEnded
        /\ u.pc = "project" => Len(p.out) > 1

Served == Owing # {} \/ \E g \in Gens : Serves(pump[g], prov[g])

Runs == state # Absent /\ state.status = "running"

\* The exceptions RunningHasProvider names.
Excused == spawnFailed \/ lost \/ (torn /\ crashes # 0) \/ Pure

\* What RunningHasProvider needs to be inductive: a boot stops what it finds running.
RunInv ==
  Runs /\ ~Excused => /\ phase # "bootProject"
                      /\ phase = "boot" => row = state
                      /\ phase = "up" => Served

\* A handler about to append, or writing to the row, the first event of a session.
Starting(t) == t.op = "start" /\ t.pc = "append"
Founding(t) == t.pc = "project" /\ Head(t.events).type = "SessionStarted"

\* Before a session has a row nobody but the handler that starts it is at work, so
\* that no panic (ProjectEvent) stops it before the first crash.
FirstInv ==
  log = <<>> => /\ row = Absent
                /\ \A h \in Handlers : task[h] = IdleTask \/ Starting(task[h])
                /\ \A g \in Gens : pump[g].pc = "none"

RowlessInv ==
  state # Absent /\ crashes = 0 =>
      /\ phase = "up"
      /\ row = Absent =>
           /\ \A g \in Gens : pump[g].pc = "none"
           /\ \A h \in Handlers : task[h] = IdleTask \/ Starting(task[h]) \/ Founding(task[h])

\* Who takes the row away does so because the session is gone.
GoneInv ==
  /\ \A h \in Handlers : task[h].pc = "project" =>
        \A i \in DOMAIN task[h].events :
            task[h].events[i].type = "SessionDeleted" => state = Absent
  /\ \A g \in Gens : pump[g].pc = "project" => pump[g].cache # Absent

PresInv == FirstInv /\ RowlessInv /\ GoneInv

\* The events that make a session run, from a start or a resume only.
LEMMA BatchRuns ==
  ASSUME StoredInv(log, state), NEW b \in Batches, Persist(b), Accepted(log, state, b[1]),
         Len(b) = 2 => b[1].type = "TurnStarted" /\ b[2].type = "SessionRenamed",
         b[1].type \notin {"SessionStarted", "SessionResumed"}, Runs'
  PROVE  Runs /\ b[1].type \notin {"SessionStopped", "SessionDeleted"}
<1> DEFINE r == Apply(state, b[1])
<1>1. Len(b) \in 1..2 /\ b[1] \in SessionEvents /\ (Len(b) = 2 => b[2] \in SessionEvents)
  BY BatchAppended DEF Batches, StoredInv
<1>2. state # Absent /\ state \in SessionData
  BY DEF Accepted, StoredInv, SessionStates
<1>3. state' = IF Len(b) = 1 THEN r ELSE Apply(r, b[2])
  BY DEF Persist, ApplyBatch
<1>4. b[1].type # "SessionDeleted"
  <2>1. SUFFICES ASSUME b[1].type = "SessionDeleted"
                 PROVE  FALSE
    OBVIOUS
  <2>2. Len(b) = 1 /\ r = Absent
    BY <1>1, <2>1 DEF Apply
  <2> QED
    BY <1>3, <2>2 DEF Runs
<1>5. /\ r \in SessionData /\ r # Absent
      /\ r.status = IF b[1].type = "SessionStopped" THEN "stopped" ELSE state.status
  <2>1. r \in SessionData
    BY <1>1, <1>2, <1>4, ApplyToSession DEF SessionStates
  <2>2. r.status = CASE b[1].type = "SessionStopped" -> "stopped"
                     [] b[1].type = "SessionResumed" -> "running"
                     [] OTHER -> state.status
    BY <1>1, <1>2, <1>4, AcceptedShape
  <2> QED
    BY <2>1, <2>2, SessionAssumption
<1> HIDE DEF r
<1>6. CASE Len(b) = 1
  BY <1>2, <1>3, <1>4, <1>5, <1>6 DEF Runs
<1>7. CASE Len(b) = 2
  <2>1. b[1].type = "TurnStarted" /\ b[2].type = "SessionRenamed" /\ b[2] \in SessionEvents
    BY <1>1, <1>7
  <2>2. Accepted(log, r, b[2])
    BY <1>5, <2>1 DEF Accepted, TurnEvents, TurnEnds
  <2>3. Apply(r, b[2]).status = r.status
    BY <1>5, <2>1, <2>2, AcceptedShape
  <2> QED
    BY <1>2, <1>3, <1>5, <1>7, <2>1, <2>3 DEF Runs
<1> QED
  BY <1>1, <1>6, <1>7

\* A session that runs again has a handler that owes it a process.
LEMMA RunsAgain ==
  ASSUME IndInv, Shapes, [Next]_vars, ~Runs, Runs'
  PROVE  \E h \in Handlers : /\ AppendEvents(h) /\ log' # log
                             /\ task[h].op \in {"start", "resume"}
<1>1. log' # log
  BY LogWritten DEF Runs
<1>2. StoredInv(log, state)
  BY DEF IndInv
<1>3. ASSUME NEW h \in Handlers, AppendEvents(h)
      PROVE  task[h].op \in {"start", "resume"}
  <2> DEFINE b == task[h].events
  <2>1. /\ Persist(b) /\ b \in Batches /\ Accepted(log, state, b[1])
        /\ Len(b) = 2 => b[1].type = "TurnStarted" /\ b[2].type = "SessionRenamed"
        /\ task[h].op = "start" <=> b[1].type = "SessionStarted"
        /\ task[h].op = "resume" <=> b[1].type = "SessionResumed"
    BY <1>1, <1>3, HandlerAppends
  <2> HIDE DEF b
  <2> QED
    BY <1>2, <2>1, BatchRuns
<1>4. ASSUME NEW g \in Gens, PumpAppend(g)
      PROVE  FALSE
  <2> DEFINE b == pump[g].events
  <2>1. /\ Persist(b) /\ b \in Batches /\ Len(b) = 1 /\ Accepted(log, state, b[1])
        /\ b[1].type \notin {"SessionStarted", "SessionResumed", "SessionDeleted"}
    BY <1>1, <1>4, PumpAppends
  <2> HIDE DEF b
  <2> QED
    BY <1>2, <2>1, BatchRuns
<1>5. ~Reconcile
  BY <1>1 DEF Reconcile, Runs, stored
<1> QED
  BY <1>1, <1>3, <1>4, <1>5, Writers

------------------------------------------------------------------------------
\* A send to the live provider, if there is one, ends no process.
LEMMA PushGoes ==
  ASSUME IndInv, NEW c,
         prov' = IF live = 0 THEN prov ELSE [prov EXCEPT ![live] = Push(@, c)]
  PROVE  \A g \in Gens : Goes(prov[g], prov'[g])
<1>1. \A g \in Gens : Goes(prov[g], prov[g]) /\ Goes(prov[g], Push(prov[g], c))
  BY CommandsGo DEF IndInv, ProvInv
<1>2. \A g \in Gens : prov'[g] = prov[g] \/ prov'[g] = Push(prov[g], c)
  BY DEF IndInv, ProvInv
<1> QED
  BY <1>1, <1>2

\* A handler that begins or goes on ends no process either, unless the application ends.
LEMMA HandlersGo ==
  ASSUME IndInv, NEW h \in Handlers, HandlerBegins(h) \/ HandlerContinues(h),
         ~SpawnProvider(h), ~LoseMemory
  PROVE  \A g \in Gens : Goes(prov[g], prov'[g])
<1>1. ASSUME UNCHANGED prov
      PROVE  \A g \in Gens : Goes(prov[g], prov'[g])
  BY <1>1, CommandsGo DEF IndInv, ProvInv
<1>2. CASE HandlerBegins(h)
  <2>1. ASSUME NEW answer, AnswerTool(h, answer)
        PROVE  \A g \in Gens : Goes(prov[g], prov'[g])
    BY <2>1, PushGoes DEF AnswerTool
  <2>2. CASE DeleteSession(h)
    BY <2>2, PushGoes DEF DeleteSession
  <2> QED
    BY <1>1, <1>2, <2>1, <2>2
       DEF HandlerBegins, StartSession, SendUserMessage, InterruptTurn, RenameSession,
           TogglePin, SetEnvMode, StopSession, ResumeSession, Begin
<1>3. CASE ForwardMessage(h) \/ ForwardInterrupt(h) \/ ForwardStop(h)
  BY <1>3, PushGoes DEF ForwardMessage, ForwardInterrupt, ForwardStop, Forward
<1>4. CASE LoadForDelete(h) \/ AppendEvents(h) \/ ProjectEvent(h) \/ SpawnNothing(h)
  BY <1>1, <1>4 DEF LoadForDelete, AppendEvents, ProjectEvent, SpawnNothing
<1> QED
  BY <1>2, <1>3, <1>4 DEF HandlerContinues

\* A process goes on by itself or says that it ended.
LEMMA ProcessGoes ==
  ASSUME IndInv, NEW g \in Gens, Write(g) \/ CliPrints(g) \/ Exit(g)
  PROVE  /\ \A i \in Gens : Goes(prov[i], prov'[i])
         /\ UNCHANGED <<stored, row, live, pump, task, phase, bounds, history>>
<1>1. \A i \in Gens : Good(prov[i]) /\ Goes(prov[i], prov[i])
  BY CommandsGo DEF IndInv, ProvInv
<1>2. SUFFICES \E q : ProviderStep(g, q) /\ Goes(prov[g], q)
  <2>1. ASSUME NEW q, ProviderStep(g, q), Goes(prov[g], q)
        PROVE  \A i \in Gens : Goes(prov[i], prov'[i])
    BY <1>1, <2>1 DEF ProviderStep, IndInv, ProvInv
  <2> QED
    BY <2>1 DEF ProviderStep
<1>3. CASE Write(g)
  <2>1. ProviderStep(g, WriterStep(prov[g])) /\ CanWrite(prov[g])
    BY <1>3 DEF Write
  <2>2. Goes(prov[g], WriterStep(prov[g]))
    BY <1>1, <2>1, CommandsGo
  <2> QED
    BY <2>1, <2>2
<1>4. CASE Exit(g)
  <2>1. ProviderStep(g, ExitChild(prov[g])) /\ CanPrint(prov[g])
    BY <1>4 DEF Exit
  <2>2. Goes(prov[g], ExitChild(prov[g]))
    BY <1>1, <2>1, PrintsGo
  <2> QED
    BY <2>1, <2>2
<1>5. CASE CliPrints(g)
  <2>1. CanPrint(prov[g])
    BY <1>5 DEF CliPrints, Ready, Stream, Ask, Result, MayPrint, Works, Running, CanPrint
  <2>2. /\ \A id : Goes(prov[g], PrintReady(prov[g], id))
        /\ \A b : Goes(prov[g], PrintBlock(prov[g], b))
        /\ Goes(prov[g], AskTool(prov[g]))
        /\ \A failed : Goes(prov[g], PrintResult(prov[g], failed))
    BY <1>1, <2>1, PrintsGo
  <2>3. ASSUME NEW id, Ready(g, id)
        PROVE  ProviderStep(g, PrintReady(prov[g], id))
    BY <2>3 DEF Ready
  <2>4. ASSUME NEW b, Stream(g, b)
        PROVE  ProviderStep(g, PrintBlock(prov[g], b))
    BY <2>4 DEF Stream
  <2>5. ASSUME NEW failed, Result(g, failed)
        PROVE  ProviderStep(g, PrintResult(prov[g], failed))
    BY <2>5 DEF Result
  <2>6. Ask(g) => ProviderStep(g, AskTool(prov[g]))
    BY DEF Ask
  <2> QED
    BY <1>5, <2>2, <2>3, <2>4, <2>5, <2>6 DEF CliPrints
<1> QED
  BY <1>3, <1>4, <1>5

\* A process that goes on serves, whether it ends or not.
LEMMA ServesGoes ==
  ASSUME NEW u, NEW p, NEW q, NEW l, NEW s, GoodPump(u, p, l, s), Good(p),
         Serves(u, p), Goes(p, q)
  PROVE  Serves(u, q)
<1>1. CASE p.phase = "exited" \/ q.phase \in Alive
  BY <1>1 DEF Serves, Goes, Alive
<1>2. CASE q.phase = "exited" /\ q.out = Append(p.out, SessionEnded) /\ p.phase \in Alive
  <2>1. p.out \in Seq(ProviderEvents) /\ SessionEnded \in ProviderEvents
    BY DEF Good, Providers, SessionEnded, ProviderEvents
  <2>2. /\ Len(q.out) = Len(p.out) + 1 /\ q.out[Len(q.out)] = SessionEnded
        /\ q.out # <<>>
    BY <1>2, <2>1, AppendProperties
  <2>3. p.out # <<>> => Len(q.out) > 1
    <3>1. Len(p.out) \in Nat /\ (p.out # <<>> => Len(p.out) # 0)
      BY <2>1, EmptySeq, LenProperties
    <3> QED
      BY <2>2, <3>1
  <2>4. u.pc = "project" => p.out # <<>>
    BY DEF GoodPump
  <2> QED
    BY <1>2, <2>2, <2>3, <2>4 DEF Serves
<1> QED
  BY <1>1, <1>2 DEF Serves, Goes

\* A step that only moves processes on, and drops no handler that is owed one.
LEMMA ServedGoes ==
  ASSUME IndInv, Served, UNCHANGED pump, \A g \in Gens : Goes(prov[g], prov'[g]),
         Owing \subseteq Owing'
  PROVE  Served'
<1>1. CASE Owing # {}
  BY <1>1 DEF Served
<1>2. CASE \E g \in Gens : Serves(pump[g], prov[g])
  <2>1. PICK g \in Gens : Serves(pump[g], prov[g])
    BY <1>2
  <2>2. Serves(pump[g], prov'[g])
    BY <2>1, ServesGoes DEF IndInv, PumpInv, ProvInv
  <2> QED
    BY <2>2 DEF Served
<1> QED
  BY <1>1, <1>2 DEF Served

\* Consuming the head of a channel leaves its last event, unless they are the same.
LEMMA ConsumeServes ==
  ASSUME NEW u, NEW v, NEW p, Good(p), p.out # <<>>, Serves(u, p), v.pc = "recv",
         \/ v.cache = Absent /\ v.version = 0
         \/ v.cache # Absent /\ v.cache.status = "running",
         Len(p.out) = 1 => u.pc = "project" \/ Head(p.out) # SessionEnded
  PROVE  Serves(v, [p EXCEPT !.out = Tail(@)])
<1> DEFINE q == [p EXCEPT !.out = Tail(@)]
<1>1. q.phase = p.phase /\ q.out = Tail(p.out)
  BY DEF Good, Providers
<1> HIDE DEF q
<1>2. CASE p.phase \in Alive
  BY <1>1, <1>2 DEF Serves
<1>3. CASE p.phase = "exited" /\ p.out[Len(p.out)] = SessionEnded
  <2>1. p.out \in Seq(ProviderEvents)
    BY DEF Good, Providers
  <2>2. Head(p.out) = p.out[1] /\ Len(p.out) \in Nat /\ Len(p.out) # 0
    BY <2>1, EmptySeq, LenProperties
  <2>3. Len(p.out) # 1
    BY <1>3, <2>2 DEF Serves, Alive
  <2>4. /\ Len(Tail(p.out)) = Len(p.out) - 1
        /\ \A i \in 1..Len(Tail(p.out)) : Tail(p.out)[i] = p.out[i + 1]
        /\ Tail(p.out) \in Seq(ProviderEvents)
    BY <2>1, HeadTailProperties
  <2>5. Len(Tail(p.out)) \in 1..Len(Tail(p.out)) /\ Len(Tail(p.out)) + 1 = Len(p.out)
    <3>1. \A m, n \in Nat : m # 0 /\ m # 1 /\ n = m - 1 => n \in 1..n /\ n + 1 = m
      OBVIOUS
    <3>2. Len(Tail(p.out)) \in Nat
      BY <2>4, LenProperties
    <3> QED
      BY <2>2, <2>3, <2>4, <3>1, <3>2
  <2>6. Tail(p.out)[Len(Tail(p.out))] = SessionEnded
    BY <1>3, <2>4, <2>5
  <2>7. Tail(p.out) # <<>>
    BY <2>4, <2>5, EmptySeq
  <2> QED
    BY <1>1, <1>3, <2>6, <2>7 DEF Serves
<1> QED
  BY <1>2, <1>3 DEF Serves, q

------------------------------------------------------------------------------
\* An event that is not a deletion leaves a session where there is one.
LEMMA EventKeeps ==
  ASSUME NEW s \in SessionStates, NEW e \in SessionEvents, e.type # "SessionDeleted",
         s # Absent \/ e.type = "SessionStarted"
  PROVE  Apply(s, e) # Absent
BY ApplyToSession, SessionAssumption

\* The next event of a handler that writes to the row.
LEMMA NextEvent ==
  ASSUME IndInv, NEW h \in Handlers, task[h].pc = "project"
  PROVE  /\ task[h].events \in Seq(SessionEvents) /\ task[h].events # <<>>
         /\ Head(task[h].events) \in SessionEvents
         /\ 1 \in DOMAIN task[h].events /\ Head(task[h].events) = task[h].events[1]
         /\ \A i \in DOMAIN Tail(task[h].events) :
               i + 1 \in DOMAIN task[h].events
               /\ Tail(task[h].events)[i] = task[h].events[i + 1]
<1> DEFINE s == task[h].events
<1>1. s \in Seq(SessionEvents) /\ s # <<>>
  BY DEF IndInv, TaskInv, GoodTask, Tasks
<1> HIDE DEF s
<1>2. Len(s) \in Nat /\ Len(s) # 0 /\ DOMAIN s = 1..Len(s)
  BY <1>1, EmptySeq, LenProperties
<1>3. /\ Head(s) = s[1] /\ Head(s) \in SessionEvents
      /\ Tail(s) \in Seq(SessionEvents) /\ Len(Tail(s)) = Len(s) - 1
      /\ \A i \in 1..Len(Tail(s)) : Tail(s)[i] = s[i + 1]
  BY <1>1, HeadTailProperties
<1>4. DOMAIN Tail(s) = 1..Len(Tail(s))
  BY <1>3, LenProperties
<1>5. 1 \in DOMAIN s
  BY <1>2
<1>6. \A i \in DOMAIN Tail(s) : i + 1 \in DOMAIN s
  <2>1. \A n \in Nat : \A i \in 1..(n - 1) : i + 1 \in 1..n
    OBVIOUS
  <2> QED
    BY <1>2, <1>3, <1>4, <2>1
<1>7. \A i \in DOMAIN Tail(s) : Tail(s)[i] = s[i + 1]
  BY <1>3, <1>4
<1> QED
  BY <1>1, <1>3, <1>5, <1>6, <1>7 DEF s

\* A session that is gone stays gone.
LEMMA GoneStays ==
  ASSUME IndInv, Shapes, [Next]_vars, state = Absent, log # <<>>
  PROVE  state' = Absent
BY LogWritten, WritesAccepted DEF Accepted

\* The UI cannot give a command to a session it has not seen, except to start one.
LEMMA BeginsUnseen ==
  ASSUME IndInv, NEW h \in Handlers, HandlerBegins(h), row = Absent,
         log = <<>> \/ state # Absent
  PROVE  log = <<>> /\ \E t : Starting(t) /\ task' = [task EXCEPT ![h] = t]
<1>1. ~Seen
  BY DEF Seen, IndInv, StoredInv
<1>2. ASSUME NEW kind, NEW env, StartSession(h, kind, env)
      PROVE  log = <<>> /\ \E t : Starting(t) /\ task' = [task EXCEPT ![h] = t]
  <2> DEFINE d == Decide(Absent, StartCmd(kind, env))
             t == [op |-> "start", pc |-> "append", turn |-> Absent, expected |-> Len(log),
                   events |-> d.events]
  <2>1. d = Accept(<<[type |-> "SessionStarted", kind |-> kind, env |-> env]>>)
    BY DEF Decide, StartCmd
  <2>2. d.error = "none" /\ d.events # <<>>
    BY <2>1 DEF Accept
  <2> HIDE DEF d
  <2>3. Loaded("start", Absent, d) = t
    BY <2>2 DEF Loaded
  <2>4. Starting(t)
    BY DEF Starting
  <2>5. log = <<>> /\ task' = [task EXCEPT ![h] = Loaded("start", Absent, d)]
    BY <1>2 DEF StartSession, Begin, d
  <2> HIDE DEF t
  <2> QED
    BY <2>3, <2>4, <2>5
<1> QED
  BY <1>1, <1>2
     DEF HandlerBegins, SendUserMessage, InterruptTurn, RenameSession, TogglePin, SetEnvMode,
         StopSession, ResumeSession, AnswerTool, DeleteSession, Begin, CanBegin

\* A handler that appends to an empty log, or that started a session that is there.
LEMMA StartingAppends ==
  ASSUME IndInv, Shapes, NEW h \in Handlers, AppendEvents(h), Starting(task[h])
  PROVE  /\ log = <<>> => log' # <<>>
         /\ log # <<>> => task' = [task EXCEPT ![h] = IdleTask] /\ UNCHANGED <<row, pump>>
<1>1. /\ task[h].expected = 0 /\ task[h].events \in Batches
      /\ log \in Seq(SessionEvents) /\ StoredInv(log, state)
  BY DEF IndInv, TaskInv, GoodTask, Shapes, TaskShaped, Starting, StoredInv
<1>2. CASE log = <<>>
  <2>1. Len(log) = 0
    BY <1>2
  <2>2. Persist(task[h].events)
    BY <1>1, <2>1 DEF AppendEvents
  <2> QED
    BY <1>1, <1>2, <2>2, LogGrows
<1>3. CASE log # <<>>
  <2>1. Len(log) > 0
    <3>1. Len(log) \in Nat /\ Len(log) # 0
      BY <1>1, <1>3, EmptySeq, LenProperties
    <3> QED
      BY <3>1
  <2> QED
    BY <1>1, <1>3, <2>1 DEF AppendEvents
<1> QED
  BY <1>2, <1>3

\* Before the session starts there are only handlers that start it.
LEMMA FirstStep ==
  ASSUME IndInv, Shapes, FirstInv, [Next]_vars
  PROVE  FirstInv'
<1> SUFFICES ASSUME log' = <<>>
             PROVE  FirstInv'
  BY DEF FirstInv
<1>1. log = <<>> /\ state = Absent
  <2>1. ASSUME NEW b \in Batches, Persist(b)
        PROVE  FALSE
    BY <2>1, LogGrows DEF IndInv
  <2> QED
    BY <2>1, WritesAddBatch DEF IndInv, StoredInv
<1>2. /\ row = Absent
      /\ \A h \in Handlers : task[h] = IdleTask \/ Starting(task[h])
      /\ \A g \in Gens : pump[g].pc = "none"
  BY <1>1 DEF FirstInv
<1>3. task \in [Handlers -> Tasks]
  BY DEF IndInv, TaskInv
<1>4. ASSUME NEW h \in Handlers, HandlerBegins(h)
      PROVE  FirstInv'
  <2>1. PICK t : Starting(t) /\ task' = [task EXCEPT ![h] = t]
    BY <1>1, <1>2, <1>4, BeginsUnseen
  <2>2. UNCHANGED <<row, pump>>
    BY <1>4, HandlerBegun
  <2>3. \A i \in Handlers : task'[i] = t \/ task'[i] = task[i]
    BY <1>3, <2>1
  <2> QED
    BY <1>2, <2>1, <2>2, <2>3 DEF FirstInv, Starting
<1>5. ASSUME NEW h \in Handlers, HandlerContinues(h)
      PROVE  FALSE
  <2>1. task[h] = IdleTask \/ Starting(task[h])
    BY <1>2
  <2>2. AppendEvents(h) /\ Starting(task[h])
    BY <1>5, <2>1 DEF HandlerContinues, LoadForDelete, AppendEvents, ProjectEvent,
       ForwardMessage, ForwardInterrupt, ForwardStop, Forward, SpawnProvider, SpawnNothing,
       Starting, IdleTask
  <2> QED
    BY <1>1, <2>2, StartingAppends
<1>6. ASSUME NEW g \in Gens, PumpStep(g)
      PROVE  FALSE
  BY <1>2, <1>6 DEF PumpStep, PumpApproval, PumpDecide, PumpAppend, PumpProject
<1>7. ASSUME UNCHANGED <<row, task, pump>>
      PROVE  FirstInv'
  BY <1>2, <1>7 DEF FirstInv, Starting
<1>8. ASSUME NEW g \in Gens, Write(g) \/ CliPrints(g) \/ Exit(g)
      PROVE  FirstInv'
  BY <1>7, <1>8, ProcessGoes
<1>9. CASE Crash
  <2>1. row' = Absent /\ task' = [h \in Handlers |-> IdleTask] /\ pump' = [g \in Gens |-> NoPump]
    BY <1>2, <1>9 DEF Crash, LoseMemory
  <2> QED
    BY <2>1 DEF FirstInv, NoPump, IdleTask
<1>10. CASE Reconcile \/ UNCHANGED vars
  BY <1>7, <1>10 DEF Reconcile, vars
<1>11. ~ReconcileProject
  BY <1>1 DEF ReconcileProject, IndInv, ViewInv
<1> QED
  BY <1>4, <1>5, <1>6, <1>8, <1>9, <1>10, <1>11 DEF Next

\* No panic: the row of a session that never crashed is missing only until the event
\* that starts the session is applied to it.
LEMMA RowFollows ==
  ASSUME IndInv, RowlessInv, GoneInv, NEW h \in Handlers, ProjectEvent(h),
         state # Absent, crashes = 0
  PROVE  row' # Absent /\ UNCHANGED phase
<1> DEFINE e == Head(task[h].events)
<1>1. task[h].pc = "project"
  BY DEF ProjectEvent
<1>2. e \in SessionEvents /\ 1 \in DOMAIN task[h].events /\ e = task[h].events[1]
  BY <1>1, NextEvent
<1>3. e.type # "SessionDeleted"
  BY <1>1, <1>2 DEF GoneInv
<1>4. row # Absent \/ e.type = "SessionStarted"
  BY <1>1 DEF RowlessInv, IdleTask, Starting, Founding
<1>5. row \in SessionStates
  BY DEF IndInv, ViewInv
<1> HIDE DEF e
<1>6. Apply(row, e) # Absent
  BY <1>2, <1>3, <1>4, <1>5, EventKeeps
<1> QED
  BY <1>6 DEF ProjectEvent, e

\* Until its first crash, a session without a row is only being started.
LEMMA RowlessStep ==
  ASSUME IndInv, Shapes, BootInv, FirstInv, RowlessInv, GoneInv, [Next]_vars
  PROVE  RowlessInv'
<1> SUFFICES ASSUME state' # Absent, crashes' = 0
             PROVE  /\ phase' = "up"
                    /\ row' = Absent =>
                         /\ \A g \in Gens : pump'[g].pc = "none"
                         /\ \A h \in Handlers : \/ task'[h] = IdleTask
                                                \/ Starting(task'[h]) \/ Founding(task'[h])
  BY DEF RowlessInv, Starting, Founding
<1>1. ~Crash /\ crashes = 0
  <2>1. crashes \in Nat /\ 0 # crashes + 1
    BY DEF IndInv, ViewInv
  <2>2. ~Crash
    BY <2>1 DEF Crash
  <2>3. ~Crash => crashes' = crashes
    BY DEF Next, HandlerBegins, HandlerContinues, StartSession, SendUserMessage, InterruptTurn,
       RenameSession, TogglePin, SetEnvMode, StopSession, ResumeSession, AnswerTool,
       DeleteSession, Begin, LoadForDelete, AppendEvents, ProjectEvent, ForwardMessage,
       ForwardInterrupt, ForwardStop, Forward, SpawnProvider, SpawnNothing, PumpStep,
       PumpApproval, PumpDecide, PumpAppend, PumpProject, Write, CliPrints, Exit, Ready,
       Stream, Ask, Result, ProviderStep, Reconcile, ReconcileProject, bounds, vars
  <2> QED
    BY <2>2, <2>3
<1>2. task \in [Handlers -> Tasks] /\ IdleTask.pc = "idle"
  BY DEF IndInv, TaskInv, IdleTask
<1>3. CASE state = Absent
  <2>1. log' # log
    BY <1>3, LogWritten
  <2>2. ASSUME NEW g \in Gens, PumpAppend(g)
        PROVE  FALSE
    BY <1>3, <2>1, <2>2, PumpAppends DEF Accepted
  <2>3. ~Reconcile
    BY <1>3, <2>1 DEF Reconcile, stored
  <2>4. PICK h \in Handlers : AppendEvents(h)
    BY <2>1, <2>2, <2>3, Writers
  <2> DEFINE b == task[h].events
  <2>5. Accepted(log, state, b[1]) /\ b \in Batches
    BY <2>1, <2>4, HandlerAppends
  <2>6. log = <<>> /\ b[1].type = "SessionStarted"
    BY <1>3, <2>5 DEF Accepted
  <2>7. Head(b) = b[1]
    BY <2>5, BatchAppended DEF IndInv, StoredInv
  <2>8. phase = "up"
    BY <1>2, <2>4 DEF BootInv, AppendEvents
  <2>9. /\ task' = [task EXCEPT ![h].pc = "project"] /\ UNCHANGED <<row, pump, phase>>
    BY <2>1, <2>4 DEF AppendEvents, stored
  <2>10. task'[h].pc = "project" /\ task'[h].events = b
    BY <1>2, <2>9 DEF Tasks
  <2>11. \A i \in Handlers \ {h} : task'[i] = task[i]
    BY <1>2, <2>9
  <2>12. Founding(task'[h])
    BY <2>6, <2>7, <2>10 DEF Founding
  <2> HIDE DEF b
  <2> QED
    BY <2>6, <2>8, <2>9, <2>11, <2>12 DEF FirstInv
<1>4. CASE state # Absent
  <2>1. phase = "up" /\ log # <<>>
    BY <1>1, <1>4 DEF RowlessInv, IndInv, StoredInv
  <2>2. row = Absent =>
           /\ \A g \in Gens : pump[g].pc = "none"
           /\ \A h \in Handlers : task[h] = IdleTask \/ Starting(task[h]) \/ Founding(task[h])
    BY <1>1, <1>4 DEF RowlessInv
  <2>3. ASSUME UNCHANGED <<row, phase, task, pump>>
        PROVE  RowlessInv'
    BY <2>1, <2>2, <2>3 DEF RowlessInv, Starting, Founding
  <2>4. ASSUME NEW h \in Handlers, HandlerBegins(h)
        PROVE  phase' = "up" /\ row' # Absent
    <3>1. UNCHANGED <<row, phase>>
      BY <2>4, HandlerBegun
    <3> QED
      BY <1>4, <2>1, <2>4, <3>1, BeginsUnseen
  <2>5. ASSUME NEW h \in Handlers, ProjectEvent(h)
        PROVE  phase' = "up" /\ row' # Absent
    BY <1>1, <1>4, <2>1, <2>5, RowFollows
  <2>6. ASSUME NEW h \in Handlers, HandlerContinues(h), ~ProjectEvent(h)
        PROVE  RowlessInv'
    <3>1. UNCHANGED <<row, phase>>
      BY <2>6 DEF HandlerContinues, LoadForDelete, AppendEvents, ForwardMessage,
         ForwardInterrupt, ForwardStop, Forward, SpawnProvider, SpawnNothing
    <3>2. CASE row # Absent
      BY <2>1, <3>1, <3>2 DEF RowlessInv
    <3>3. CASE row = Absent
      <4>1. task[h] = IdleTask \/ Starting(task[h]) \/ Founding(task[h])
        BY <2>2, <3>3
      <4>2. AppendEvents(h) /\ Starting(task[h])
        BY <2>6, <4>1 DEF HandlerContinues, LoadForDelete, AppendEvents, ProjectEvent,
           ForwardMessage, ForwardInterrupt, ForwardStop, Forward, SpawnProvider, SpawnNothing,
           Starting, Founding, IdleTask
      <4>3. task' = [task EXCEPT ![h] = IdleTask] /\ UNCHANGED <<row, pump>>
        BY <2>1, <4>2, StartingAppends
      <4>4. \A i \in Handlers : task'[i] = IdleTask \/ task'[i] = task[i]
        BY <1>2, <4>3
      <4> QED
        BY <2>1, <2>2, <3>1, <3>3, <4>3, <4>4 DEF RowlessInv, Starting, Founding
    <3> QED
      BY <3>2, <3>3
  <2>7. ASSUME NEW g \in Gens, PumpStep(g)
        PROVE  phase' = "up" /\ row' # Absent
    <3>1. pump[g].pc # "none" /\ UNCHANGED phase
      BY <2>7 DEF PumpStep, PumpApproval, PumpDecide, PumpAppend, PumpProject
    <3>2. row # Absent
      BY <2>2, <3>1
    <3>3. PumpProject(g) => pump[g].cache # Absent
      BY DEF PumpProject, GoneInv
    <3> QED
      BY <2>1, <2>7, <3>1, <3>2, <3>3 DEF PumpStep, PumpApproval, PumpDecide, PumpAppend,
         PumpProject
  <2>8. ASSUME NEW g \in Gens, Write(g) \/ CliPrints(g) \/ Exit(g)
        PROVE  RowlessInv'
    BY <2>3, <2>8, ProcessGoes
  <2>9. ~Reconcile /\ ~ReconcileProject
    BY <2>1 DEF Reconcile, ReconcileProject
  <2>10. CASE UNCHANGED vars
    BY <2>3, <2>10 DEF vars, RowlessInv
  <2>11. RowlessInv' \/ (phase' = "up" /\ row' # Absent)
    BY <1>1, <2>3, <2>4, <2>5, <2>6, <2>7, <2>8, <2>9, <2>10 DEF Next, vars
  <2> QED
    BY <2>11 DEF RowlessInv, Starting, Founding
<1> QED
  BY <1>3, <1>4

\* A pump that appends folds its batch into a cache that is the state: the cache is
\* then the new state, and the session is still there.
LEMMA PumpAppended ==
  ASSUME IndInv, Shapes, NEW g \in Gens, PumpAppend(g), Len(log) = pump[g].version
  PROVE  /\ state # Absent /\ state' # Absent
         /\ pump'[g].pc = "project" /\ pump'[g].cache = state'
         /\ pump[g].events = Decide(state, CommandOf(Head(prov[g].out))).events
         /\ pump[g].events = <<pump[g].events[1]>>
         /\ state' = Apply(state, pump[g].events[1])
         /\ UNCHANGED <<task, prov, phase, row>>
         /\ \A i \in Gens \ {g} : pump'[i] = pump[i]
<1> DEFINE p == pump[g]
           b == p.events
<1>1. /\ p \in Pumps /\ pump \in [Gens -> Pumps] /\ p.pc = "append"
      /\ GoodPump(p, prov[g], log, state)
  BY DEF IndInv, PumpInv, PumpAppend
<1>2. /\ Persist(b)
      /\ pump' = [pump EXCEPT ![g] = [p EXCEPT !.pc = "project", !.version = @ + Len(b),
                                               !.cache = ApplyBatch(@, b)]]
      /\ UNCHANGED <<task, prov, phase, row>>
  BY DEF PumpAppend
<1>3. p.cache = state /\ Len(b) = 1 /\ b \in Seq(SessionEvents)
  BY <1>1 DEF GoodPump, GoodCache, Pumps
<1>4. b \in Batches
  BY <1>3 DEF Batches
<1>5. log' # log
  BY <1>2, <1>4, LogGrows DEF IndInv
<1>6. /\ Accepted(log, state, b[1])
      /\ b[1].type \notin {"SessionStarted", "SessionResumed", "SessionDeleted"}
  BY <1>5, PumpAppends
<1>7. b[1] \in SessionEvents /\ state \in SessionStates
  BY <1>4, BatchAppended DEF IndInv, StoredInv
<1>8. state # Absent
  BY <1>6 DEF Accepted
<1>9. state' = Apply(state, b[1]) /\ state' = ApplyBatch(p.cache, b)
  BY <1>2, <1>3 DEF Persist, ApplyBatch
<1>10. state' # Absent
  BY <1>6, <1>7, <1>8, <1>9, EventKeeps
<1>11. pump'[g].pc = "project" /\ pump'[g].cache = ApplyBatch(p.cache, b)
  BY <1>1, <1>2 DEF Pumps
<1>12. b = Decide(state, CommandOf(Head(prov[g].out))).events
  BY <1>1 DEF GoodPump
<1>13. b = <<b[1]>>
  <2> HIDE DEF b
  <2> QED
    BY <1>3
<1>14. \A i \in Gens \ {g} : pump'[i] = pump[i]
  BY <1>1, <1>2
<1> QED
  BY <1>2, <1>8, <1>9, <1>10, <1>11, <1>12, <1>13, <1>14

\* A pump whose append conflicts goes back to receiving, its cache dropped or kept.
LEMMA PumpConflicts ==
  ASSUME IndInv, NEW g \in Gens, PumpAppend(g), Len(log) # pump[g].version
  PROVE  /\ UNCHANGED <<stored, task, phase, row>> /\ pump'[g].pc = "recv"
         /\ \A i \in Gens \ {g} : pump'[i] = pump[i]
         /\ \/ /\ pump'[g].cache = Absent /\ pump'[g].version = 0 /\ UNCHANGED prov
            \/ lost'
<1> DEFINE p == pump[g]
<1>1. p \in Pumps /\ pump \in [Gens -> Pumps]
  BY DEF IndInv, PumpInv
<1>2. Received(g, p).pc = "recv"
  BY <1>1 DEF Received, Pumps
<1>3. LET u == [NewPump EXCEPT !.attempt = 1]
      IN u.pc = "recv" /\ u.cache = Absent /\ u.version = 0
  BY DEF NewPump, NoPump
<1> QED
  BY <1>1, <1>2, <1>3 DEF PumpAppend, stored

\* Who takes the row away still does so because the session is gone.
LEMMA GoneStep ==
  ASSUME IndInv, Shapes, FirstInv, GoneInv, [Next]_vars
  PROVE  GoneInv'
<1> DEFINE Deletes(t) == \E i \in DOMAIN t.events : t.events[i].type = "SessionDeleted"
           FineTask(t) == t.pc = "project" /\ Deletes(t) => state' = Absent
           FinePump(u) == u.pc = "project" => u.cache # Absent
<1>1. SUFFICES /\ \A h \in Handlers : FineTask(task'[h])
               /\ \A g \in Gens : FinePump(pump'[g])
  BY DEF GoneInv
<1>2. /\ task \in [Handlers -> Tasks] /\ pump \in [Gens -> Pumps] /\ IdleTask.pc = "idle"
      /\ NewPump.pc = "recv" /\ NoPump.pc = "none"
  BY DEF IndInv, TaskInv, PumpInv, IdleTask, NewPump, NoPump
<1>3. ASSUME NEW h \in Handlers
      PROVE  FineTask(task[h])
  <2>1. task[h].pc = "project" => log # <<>>
    BY <1>2 DEF FirstInv, Starting
  <2>2. task[h].pc = "project" /\ Deletes(task[h]) => state = Absent
    BY DEF GoneInv
  <2> QED
    BY <2>1, <2>2, GoneStays
<1>4. \A g \in Gens : FinePump(pump[g])
  BY DEF GoneInv
<1> HIDE DEF Deletes
<1>5. /\ \A t : t.pc # "project" => FineTask(t)
      /\ \A u : u.pc # "project" => FinePump(u)
  OBVIOUS
<1> HIDE DEF FineTask, FinePump
<1>6. ASSUME NEW h \in Handlers, NEW t, task' = [task EXCEPT ![h] = t], FineTask(t)
      PROVE  \A i \in Handlers : FineTask(task'[i])
  <2>1. \A i \in Handlers : task'[i] = t \/ task'[i] = task[i]
    BY <1>2, <1>6
  <2> QED
    BY <1>3, <1>6, <2>1
<1>7. ASSUME NEW g \in Gens, NEW u, pump' = [pump EXCEPT ![g] = u], FinePump(u), UNCHANGED task
      PROVE  /\ \A i \in Handlers : FineTask(task'[i])
             /\ \A i \in Gens : FinePump(pump'[i])
  <2>1. \A i \in Gens : pump'[i] = u \/ pump'[i] = pump[i]
    BY <1>2, <1>7
  <2> QED
    BY <1>3, <1>4, <1>7, <2>1
<1>8. ASSUME UNCHANGED <<task, pump>>
      PROVE  /\ \A i \in Handlers : FineTask(task'[i])
             /\ \A i \in Gens : FinePump(pump'[i])
  BY <1>3, <1>4, <1>8
<1>9. ASSUME LoseMemory
      PROVE  /\ \A i \in Handlers : FineTask(task'[i])
             /\ \A i \in Gens : FinePump(pump'[i])
  <2>1. /\ \A i \in Handlers : task'[i].pc # "project"
        /\ \A i \in Gens : pump'[i].pc # "project"
    BY <1>2, <1>9 DEF LoseMemory
  <2> QED
    BY <1>5, <2>1
<1>10. ASSUME NEW h \in Handlers, HandlerBegins(h) \/ LoadForDelete(h)
       PROVE  /\ \A i \in Handlers : FineTask(task'[i])
              /\ \A i \in Gens : FinePump(pump'[i])
  <2>1. PICK t : Begun(t) /\ task' = [task EXCEPT ![h] = t]
    BY <1>10, HandlerBegun
  <2>2. UNCHANGED pump
    BY <1>10, HandlerBegun
  <2>3. FineTask(t)
    BY <1>5, <2>1 DEF Begun
  <2> QED
    BY <1>4, <1>6, <2>1, <2>2, <2>3
<1>11. ASSUME NEW h \in Handlers, AppendEvents(h)
       PROVE  /\ \A i \in Handlers : FineTask(task'[i])
              /\ \A i \in Gens : FinePump(pump'[i])
  <2> DEFINE b == task[h].events
             t == [task[h] EXCEPT !.pc = "project"]
  <2>1. UNCHANGED pump
    BY <1>11 DEF AppendEvents
  <2>2. CASE task' = [task EXCEPT ![h] = IdleTask]
    BY <1>2, <1>4, <1>5, <1>6, <2>1, <2>2
  <2>3. CASE Persist(b) /\ task' = [task EXCEPT ![h] = t]
    <3>1. b \in Batches
      BY <1>11 DEF AppendEvents, IndInv, TaskInv, GoodTask
    <3>2. log' # log
      BY <2>3, <3>1, LogGrows DEF IndInv
    <3>3. Len(b) = 2 => b[1].type = "TurnStarted" /\ b[2].type = "SessionRenamed"
      BY <1>11, <3>2, HandlerAppends
    <3>4. t.events = b
      BY <1>2 DEF Tasks
    <3>5. DOMAIN b = 1..Len(b) /\ Len(b) \in 1..2
      BY <3>1, LenProperties DEF Batches
    <3>6. ASSUME Deletes(t)
          PROVE  state' = Absent
      <4>1. PICK i \in DOMAIN b : b[i].type = "SessionDeleted"
        BY <3>4, <3>6 DEF Deletes
      <4> HIDE DEF b
      <4>2. Len(b) = 1 /\ i = 1
        BY <3>3, <3>5, <4>1
      <4>3. Apply(state, b[1]) = Absent
        BY <4>1, <4>2 DEF Apply
      <4> QED
        BY <2>3, <4>2, <4>3 DEF Persist, ApplyBatch
    <3>7. FineTask(t)
      BY <3>6 DEF FineTask
    <3> HIDE DEF t
    <3> QED
      BY <1>4, <1>6, <2>1, <2>3, <3>7
  <2> QED
    BY <1>11, <2>2, <2>3 DEF AppendEvents
<1>12. ASSUME NEW h \in Handlers, ProjectEvent(h)
       PROVE  /\ \A i \in Handlers : FineTask(task'[i])
              /\ \A i \in Gens : FinePump(pump'[i])
  <2> DEFINE rest == Tail(task[h].events)
             t == [task[h] EXCEPT !.events = rest]
             a == AfterPersist(task[h])
  <2>1. CASE LoseMemory
    BY <1>9, <2>1
  <2>2. CASE task' = [task EXCEPT ![h] = IF rest = <<>> THEN a ELSE t] /\ UNCHANGED pump
    <3>1. a.pc # "project"
      <4>1. ASSUME NEW x \in Tasks PROVE AfterPersist(x).pc # "project"
        BY <1>2 DEF AfterPersist, Tasks
      <4> QED
        BY <1>2, <4>1
    <3>2. t.pc = "project" /\ t.events = rest /\ task[h].pc = "project"
      BY <1>2, <1>12 DEF Tasks, ProjectEvent
    <3>3. Deletes(t) => Deletes(task[h])
      BY <3>2, NextEvent DEF Deletes
    <3>4. FineTask(t)
      BY <1>3, <3>2, <3>3 DEF FineTask
    <3>5. FineTask(a)
      BY <1>5, <3>1
    <3> HIDE DEF t, a
    <3> QED
      BY <1>4, <1>6, <2>2, <3>4, <3>5
  <2> QED
    BY <1>12, <2>1, <2>2 DEF ProjectEvent
<1>13. ASSUME NEW h \in Handlers, ForwardMessage(h) \/ ForwardInterrupt(h) \/ ForwardStop(h)
                                  \/ SpawnProvider(h) \/ SpawnNothing(h)
       PROVE  /\ \A i \in Handlers : FineTask(task'[i])
              /\ \A i \in Gens : FinePump(pump'[i])
  <2>1. task' = [task EXCEPT ![h] = IdleTask]
    BY <1>13 DEF ForwardMessage, ForwardInterrupt, ForwardStop, Forward, SpawnProvider,
       SpawnNothing
  <2>2. \A i \in Gens : pump'[i] = pump[i] \/ pump'[i] = NewPump
    BY <1>2, <1>13 DEF ForwardMessage, ForwardInterrupt, ForwardStop, Forward, SpawnProvider,
       SpawnNothing
  <2> QED
    BY <1>2, <1>4, <1>5, <1>6, <2>1, <2>2
<1>14. ASSUME NEW g \in Gens, PumpStep(g)
       PROVE  /\ \A i \in Handlers : FineTask(task'[i])
              /\ \A i \in Gens : FinePump(pump'[i])
  <2>1. CASE PumpApproval(g)
    BY <1>8, <2>1 DEF PumpApproval
  <2>2. CASE PumpDecide(g)
    <3>1. PICK u : pump' = [pump EXCEPT ![g] = u] /\ u.pc # "project"
      <4> DEFINE p == pump[g]
                 seeded == IF p.cache = Absent /\ p.version = 0
                           THEN [p EXCEPT !.cache = state, !.version = Len(log)] ELSE p
                 d == Decide(seeded.cache, CommandOf(Head(prov[g].out)))
      <4>1. \/ pump' = [pump EXCEPT ![g] = Received(g, seeded)]
            \/ pump' = [pump EXCEPT ![g] = [seeded EXCEPT !.pc = "append", !.events = d.events]]
        BY <2>2 DEF PumpDecide
      <4>2. ASSUME NEW x \in Pumps, NEW e
            PROVE  /\ Received(g, x).pc = "recv"
                   /\ [x EXCEPT !.pc = "append", !.events = e].pc = "append"
        BY DEF Received, Pumps
      <4>3. seeded \in Pumps
        <5>1. p \in Pumps /\ state \in SessionStates /\ Len(log) \in Nat
          BY <1>2, LenProperties DEF IndInv, StoredInv
        <5>2. ASSUME NEW s \in SessionStates, NEW n \in Nat
              PROVE  [p EXCEPT !.cache = s, !.version = n] \in Pumps
          BY <5>1 DEF Pumps
        <5> QED
          BY <5>1, <5>2
      <4> HIDE DEF d, seeded
      <4>4. /\ Received(g, seeded).pc = "recv"
            /\ [seeded EXCEPT !.pc = "append", !.events = d.events].pc = "append"
        BY <4>2, <4>3
      <4> QED
        BY <4>1, <4>4
    <3> QED
      BY <1>5, <1>7, <2>2, <3>1 DEF PumpDecide
  <2>3. CASE PumpAppend(g) /\ Len(log) = pump[g].version
    <3>1. /\ pump'[g].cache # Absent /\ UNCHANGED task
          /\ \A i \in Gens \ {g} : pump'[i] = pump[i]
      BY <2>3, PumpAppended
    <3> QED
      BY <1>3, <1>4, <3>1 DEF FinePump
  <2>4. CASE PumpAppend(g) /\ Len(log) # pump[g].version
    <3>1. /\ pump'[g].pc = "recv" /\ UNCHANGED task
          /\ \A i \in Gens \ {g} : pump'[i] = pump[i]
      BY <2>4, PumpConflicts
    <3> QED
      BY <1>3, <1>4, <1>5, <3>1
  <2>5. CASE PumpProject(g)
    <3>1. Received(g, pump[g]).pc = "recv"
      BY <1>2 DEF Received, Pumps
    <3> QED
      BY <1>5, <1>7, <2>5, <3>1 DEF PumpProject
  <2> QED
    BY <1>14, <2>1, <2>2, <2>3, <2>4, <2>5 DEF PumpStep
<1>15. ASSUME NEW g \in Gens, Write(g) \/ CliPrints(g) \/ Exit(g)
       PROVE  /\ \A i \in Handlers : FineTask(task'[i])
              /\ \A i \in Gens : FinePump(pump'[i])
  BY <1>8, <1>15, ProcessGoes
<1>16. CASE Crash \/ Reconcile \/ ReconcileProject \/ UNCHANGED vars
  BY <1>8, <1>9, <1>16 DEF Crash, Reconcile, ReconcileProject, vars
<1> QED
  BY <1>10, <1>11, <1>12, <1>13, <1>14, <1>15, <1>16 DEF Next, HandlerContinues

------------------------------------------------------------------------------
\* What excuses a session from having a provider does so for good.
LEMMA ExcusesStay ==
  ASSUME IndInv, [Next]_vars, Excused
  PROVE  Excused'
<1>1. /\ spawnFailed => spawnFailed'
      /\ lost => lost'
      /\ torn => torn'
      /\ crashes' \in {crashes, crashes + 1}
  <2>1. ASSUME NEW h \in Handlers, HandlerBegins(h)
        PROVE  UNCHANGED <<crashes, history>>
    BY <2>1 DEF HandlerBegins, StartSession, SendUserMessage, InterruptTurn, RenameSession,
       TogglePin, SetEnvMode, StopSession, ResumeSession, AnswerTool, DeleteSession, Begin
  <2>2. ASSUME NEW h \in Handlers, HandlerContinues(h)
        PROVE  /\ UNCHANGED <<crashes, lost>>
               /\ spawnFailed' = spawnFailed \/ spawnFailed' = (spawnFailed \/ ~Pure)
               /\ torn' = torn \/ torn' = (torn \/ WindowOpen) \/ torn' = TRUE
    BY <2>2 DEF HandlerContinues, LoadForDelete, AppendEvents, ProjectEvent, ForwardMessage,
       ForwardInterrupt, ForwardStop, Forward, SpawnProvider, SpawnNothing, bounds, history
  <2>3. ASSUME NEW g \in Gens, PumpStep(g)
        PROVE  /\ UNCHANGED <<crashes, spawnFailed>>
               /\ lost' = lost \/ lost' = TRUE
               /\ torn' = torn \/ torn' = (torn \/ WindowOpen)
    BY <2>3 DEF PumpStep, PumpApproval, PumpDecide, PumpAppend, PumpProject, bounds, history
  <2>4. ASSUME NEW g \in Gens, Write(g) \/ CliPrints(g) \/ Exit(g)
        PROVE  UNCHANGED <<crashes, history>>
    BY <2>4, ProcessGoes DEF bounds
  <2>5. ASSUME Crash \/ Reconcile \/ ReconcileProject \/ UNCHANGED vars
        PROVE  /\ UNCHANGED <<lost, spawnFailed>> /\ crashes' \in {crashes, crashes + 1}
               /\ torn' = torn \/ torn' = (torn \/ WindowOpen)
    BY <2>5 DEF Crash, Reconcile, ReconcileProject, bounds, history, vars
  <2>6. /\ spawnFailed' = spawnFailed \/ spawnFailed' = (spawnFailed \/ ~Pure)
        /\ lost' = lost \/ lost' = TRUE
        /\ torn' = torn \/ torn' = (torn \/ WindowOpen) \/ torn' = TRUE
        /\ crashes' \in {crashes, crashes + 1}
    BY <2>1, <2>2, <2>3, <2>4, <2>5 DEF Next, history
  <2>7. spawnFailed => spawnFailed'
    BY <2>6
  <2>8. lost => lost'
    BY <2>6
  <2>9. torn => torn'
    BY <2>6
  <2> QED
    BY <2>6, <2>7, <2>8, <2>9
<1>2. crashes # 0 => crashes' # 0
  BY <1>1 DEF IndInv, ViewInv
<1>3. Pure => Pure'
  <2>1. CASE log' = log
    BY <2>1 DEF Pure
  <2>2. ASSUME log' # log, log # <<>>
        PROVE  log' # <<>> /\ log'[1] = log[1]
    <3>1. PICK b \in Batches : Persist(b)
      BY <2>2, WritesAddBatch
    <3>2. log' # <<>> /\ Len(log) \in Nat /\ \A i \in 1..Len(log) : log'[i] = log[i]
      BY <3>1, LogGrows DEF IndInv
    <3>3. 1 \in 1..Len(log)
      BY <2>2, <3>2, EmptySeq DEF IndInv, StoredInv
    <3> QED
      BY <3>2, <3>3
  <2> QED
    BY <2>1, <2>2 DEF Pure
<1> QED
  BY <1>1, <1>2, <1>3 DEF Excused

\* A handler that is owed a process stays so while its step keeps it owed.
LEMMA OwedStays ==
  ASSUME IndInv, NEW h \in Handlers, NEW t, task' = [task EXCEPT ![h] = t],
         h \in Owing => t.op \in {"start", "resume"} /\ t.pc \in {"project", "spawn"}
  PROVE  Owing \subseteq Owing'
BY DEF Owing, IndInv, TaskInv

\* The handlers leave a running session served.
LEMMA HandlersServe ==
  ASSUME IndInv, RowIndInv, PresInv, RunInv, NEW h \in Handlers,
         HandlerBegins(h) \/ HandlerContinues(h), Runs, ~Excused, ~Excused'
  PROVE  phase' = "up" /\ Served'
<1>1. /\ task \in [Handlers -> Tasks] /\ task[h] \in Tasks /\ IdleTask.pc = "idle"
  BY DEF IndInv, TaskInv, IdleTask
<1>2. phase = "up" /\ Served
  <2>1. HandlerContinues(h) => task[h].pc # "idle"
    BY DEF HandlerContinues, LoadForDelete, AppendEvents, ProjectEvent, ForwardMessage,
       ForwardInterrupt, ForwardStop, Forward, SpawnProvider, SpawnNothing
  <2>2. phase = "up"
    BY <1>1, <2>1, HandlerBegun DEF RowIndInv, BootInv
  <2> QED
    BY <2>2 DEF RunInv
<1>3. ASSUME UNCHANGED <<phase, pump>>, Owing \subseteq Owing', ~SpawnProvider(h), ~LoseMemory
      PROVE  phase' = "up" /\ Served'
  BY <1>2, <1>3, HandlersGo, ServedGoes
<1>4. LoseMemory => phase' # "up"
  BY DEF LoseMemory
<1>5. CASE HandlerBegins(h) \/ LoadForDelete(h)
  <2>1. UNCHANGED <<phase, pump>> /\ task[h].pc \in {"idle", "load"}
    BY <1>1, <1>5, HandlerBegun
  <2>2. h \notin Owing
    BY <2>1 DEF Owing
  <2>3. Owing \subseteq Owing'
    BY <1>5, <2>2, HandlerBegun, OwedStays
  <2>4. ~SpawnProvider(h)
    BY <2>1 DEF SpawnProvider
  <2> QED
    BY <1>2, <1>3, <1>4, <2>1, <2>3, <2>4
<1>6. CASE AppendEvents(h)
  <2>1. UNCHANGED <<phase, pump>> /\ task[h].pc = "append" /\ h \notin Owing
    BY <1>6 DEF AppendEvents, Owing
  <2>2. Owing \subseteq Owing'
    BY <1>6, <2>1, OwedStays DEF AppendEvents
  <2>3. ~SpawnProvider(h)
    BY <2>1 DEF SpawnProvider
  <2> QED
    BY <1>2, <1>3, <1>4, <2>1, <2>2, <2>3
<1>7. CASE ProjectEvent(h)
  <2> DEFINE rest == Tail(task[h].events)
             t == [task[h] EXCEPT !.events = rest]
             a == AfterPersist(task[h])
  <2>1. ~LoseMemory
    <3> SUFFICES ASSUME LoseMemory PROVE FALSE
      OBVIOUS
    <3>1. torn' /\ crashes' = crashes
      BY <1>2, <1>4, <1>7 DEF ProjectEvent, bounds
    <3>2. crashes = 0
      BY <3>1 DEF Excused
    <3>3. UNCHANGED phase
      BY <1>7, <3>2, RowFollows DEF PresInv, Runs
    <3> QED
      BY <1>2, <1>4, <3>3
  <2>2. /\ task[h].pc = "project" /\ UNCHANGED <<phase, pump>>
        /\ task' = [task EXCEPT ![h] = IF rest = <<>> THEN a ELSE t]
    BY <1>7, <2>1 DEF ProjectEvent
  <2>3. task[h].op \in {"start", "resume"} => a.op = task[h].op /\ a.pc = "spawn"
    BY <1>1 DEF AfterPersist, Tasks
  <2>4. t.op = task[h].op /\ t.pc = "project"
    BY <1>1, <2>2 DEF Tasks
  <2>5. h \in Owing => task[h].op \in {"start", "resume"}
    BY DEF Owing
  <2> HIDE DEF t, a, rest
  <2>6. Owing \subseteq Owing'
    BY <2>2, <2>3, <2>4, <2>5, OwedStays
  <2>7. ~SpawnProvider(h)
    BY <2>2 DEF SpawnProvider
  <2> QED
    BY <1>3, <2>1, <2>2, <2>6, <2>7
<1>8. CASE ForwardMessage(h) \/ ForwardInterrupt(h) \/ ForwardStop(h)
  <2>1. /\ UNCHANGED <<phase, pump>> /\ task[h].pc = "forward"
        /\ task' = [task EXCEPT ![h] = IdleTask]
    BY <1>8 DEF ForwardMessage, ForwardInterrupt, ForwardStop, Forward
  <2>2. h \notin Owing /\ ~SpawnProvider(h)
    BY <2>1 DEF Owing, SpawnProvider
  <2>3. Owing \subseteq Owing'
    BY <2>1, <2>2, OwedStays
  <2> QED
    BY <1>2, <1>3, <1>4, <2>1, <2>2, <2>3
<1>9. CASE SpawnProvider(h)
  <2> DEFINE g == Cardinality(Spawns) + 1
  <2>1. g \in Gens
    BY <1>9, SpawnMoves DEF RowIndInv
  <2>2. /\ UNCHANGED phase /\ prov' = [prov EXCEPT ![g] = Spawned]
        /\ pump' = [pump EXCEPT ![g] = NewPump]
    BY <1>9 DEF SpawnProvider
  <2> HIDE DEF g
  <2>3. pump'[g] = NewPump /\ prov'[g] = Spawned
    BY <2>1, <2>2 DEF IndInv, ProvInv, PumpInv
  <2>4. Serves(NewPump, Spawned)
    BY DEF Serves, NewPump, NoPump, Spawned, Unborn, Alive
  <2> QED
    BY <1>2, <2>1, <2>2, <2>3, <2>4 DEF Served
<1>10. ~SpawnNothing(h)
  BY DEF SpawnNothing, Excused
<1> QED
  BY <1>5, <1>6, <1>7, <1>8, <1>9, <1>10 DEF HandlerContinues

\* A session that runs takes a stop: the end of its process is not unheard.
LEMMA EndIsHeard ==
  ASSUME NEW s, s # Absent, s.status = "running"
  PROVE  Decide(s, CommandOf(SessionEnded)).events = <<[type |-> "SessionStopped"]>>
BY DEF Decide, CommandOf, SessionEnded, StopCmd, DecideStop, Accept

\* The pumps leave a running session served.
LEMMA PumpsServe ==
  ASSUME IndInv, Shapes, NEW g \in Gens, PumpStep(g), Served, Runs, Runs', ~lost'
  PROVE  UNCHANGED phase /\ Served'
<1>1. /\ prov \in [Gens -> Providers] /\ pump \in [Gens -> Pumps]
      /\ Good(prov[g]) /\ GoodPump(pump[g], prov[g], log, state)
      /\ StoredInv(log, state)
  BY DEF IndInv, ProvInv, PumpInv
<1>2. /\ UNCHANGED <<task, phase>>
      /\ \A i \in Gens \ {g} : pump'[i] = pump[i] /\ prov'[i] = prov[i]
  BY <1>1 DEF PumpStep, PumpApproval, PumpDecide, PumpAppend, PumpProject, Consume
<1>3. SUFFICES ASSUME Serves(pump[g], prov[g])
               PROVE  Serves(pump'[g], prov'[g])
  <2>1. Owing' = Owing
    BY <1>2 DEF Owing
  <2> QED
    BY <1>2, <1>3, <2>1 DEF Served
<1> DEFINE p == pump[g]
           out == prov[g].out
           Hears(s) == s # Absent /\ s.status = "running"
           Shorter == [prov[g] EXCEPT !.out = Tail(@)]
<1>4. (p.cache = Absent /\ p.version = 0) \/ Hears(p.cache)
  BY <1>3 DEF Serves
<1>5. p \in Pumps /\ Hears(state) /\ Hears(state')
  BY <1>1 DEF Runs
<1>6. Consume(g) => prov'[g] = Shorter
  BY <1>1 DEF Consume
<1>7. CASE PumpApproval(g)
  <2>1. /\ p.pc = "recv" /\ out # <<>> /\ Head(out) # SessionEnded
        /\ pump'[g] = p /\ prov'[g] = Shorter
    BY <1>6, <1>7 DEF PumpApproval, SessionEnded
  <2>2. Serves(p, Shorter)
    BY <1>1, <1>3, <1>4, <2>1, ConsumeServes
  <2> QED
    BY <2>1, <2>2
<1>8. CASE PumpDecide(g)
  <2> DEFINE e == Head(out)
             seeded == IF p.cache = Absent /\ p.version = 0
                       THEN [p EXCEPT !.cache = state, !.version = Len(log)] ELSE p
             d == Decide(seeded.cache, CommandOf(e))
             v == [seeded EXCEPT !.pc = "append", !.events = d.events]
  <2>1. /\ out # <<>>
        /\ IF d.events = <<>>
           THEN pump' = [pump EXCEPT ![g] = Received(g, seeded)] /\ Consume(g)
           ELSE pump' = [pump EXCEPT ![g] = v] /\ UNCHANGED prov
    BY <1>8 DEF PumpDecide
  <2>2. seeded \in Pumps /\ Hears(seeded.cache)
    <3>1. Len(log) \in Nat /\ state \in SessionStates
      BY <1>1, LenProperties DEF StoredInv
    <3>2. ASSUME NEW s \in SessionStates, NEW n \in Nat
          PROVE  /\ [p EXCEPT !.cache = s, !.version = n] \in Pumps
                 /\ [p EXCEPT !.cache = s, !.version = n].cache = s
      BY <1>5 DEF Pumps
    <3> QED
      BY <1>4, <1>5, <3>1, <3>2
  <2>3. ASSUME NEW x \in Pumps, NEW b
        PROVE  /\ Received(g, x).pc = "recv" /\ Received(g, x).cache = x.cache
               /\ [x EXCEPT !.pc = "append", !.events = b].pc = "append"
               /\ [x EXCEPT !.pc = "append", !.events = b].cache = x.cache
    BY DEF Received, Pumps
  <2> HIDE DEF seeded
  <2>4. CASE d.events = <<>>
    <3>1. pump'[g] = Received(g, seeded) /\ prov'[g] = Shorter
      BY <1>1, <1>6, <2>1, <2>4
    <3>2. e # SessionEnded
      <4>1. \A x : <<x>> # <<>>
        OBVIOUS
      <4> QED
        BY <2>2, <2>4, <4>1, EndIsHeard
    <3>3. /\ Received(g, seeded).pc = "recv" /\ Hears(Received(g, seeded).cache)
      BY <2>2, <2>3
    <3> DEFINE w == Received(g, seeded)
    <3> HIDE DEF w
    <3>4. Serves(w, Shorter)
      <4>1. w.pc = "recv" /\ w.cache # Absent /\ w.cache.status = "running"
        BY <3>3 DEF w
      <4> QED
        BY <1>1, <1>3, <2>1, <3>2, <4>1, ConsumeServes
    <3> QED
      BY <3>1, <3>4 DEF w
  <2>5. CASE d.events # <<>>
    <3>1. pump'[g] = v /\ prov'[g] = prov[g]
      BY <1>1, <2>1, <2>5
    <3>2. v.pc = "append" /\ Hears(v.cache)
      BY <2>2, <2>3
    <3> HIDE DEF v
    <3> QED
      BY <1>3, <3>1, <3>2 DEF Serves
  <2> QED
    BY <2>4, <2>5
<1>9. CASE PumpAppend(g) /\ Len(log) = p.version
  <2>1. /\ pump'[g].pc = "project" /\ pump'[g].cache = state' /\ UNCHANGED prov
        /\ p.events = Decide(state, CommandOf(Head(out))).events
    BY <1>9, PumpAppended
  <2>2. ASSUME prov[g].phase = "exited", out # <<>>, out[Len(out)] = SessionEnded, ~(Len(out) > 1)
        PROVE  FALSE
    <3>1. Len(out) = 1 /\ Head(out) = out[1]
      <4>1. out \in Seq(ProviderEvents)
        BY <1>1 DEF Providers
      <4>2. Len(out) \in Nat /\ Len(out) # 0
        BY <2>2, <4>1, EmptySeq, LenProperties
      <4>3. \A n \in Nat : n # 0 /\ ~(n > 1) => n = 1
        OBVIOUS
      <4>4. Head(out) = out[1]
        BY <2>2, <4>1, HeadTailProperties
      <4> QED
        BY <2>2, <4>2, <4>3, <4>4
    <3>2. p.events = <<[type |-> "SessionStopped"]>>
      BY <1>5, <2>1, <2>2, <3>1, EndIsHeard
    <3>3. p.events[1].type = "SessionStopped"
      BY <3>2
    <3>4. log' # log
      <4>1. Persist(p.events)
        BY <1>9 DEF PumpAppend
      <4>2. p.events \in Batches
        <5>1. Len(p.events) = 1 /\ p.events \in Seq(SessionEvents)
          BY <1>1, <1>9 DEF GoodPump, PumpAppend, Pumps
        <5> QED
          BY <5>1 DEF Batches
      <4> QED
        BY <1>1, <4>1, <4>2, LogGrows
    <3>5. /\ Persist(p.events) /\ p.events \in Batches /\ Len(p.events) = 1
          /\ Accepted(log, state, p.events[1])
      BY <1>9, <3>4, PumpAppends
    <3> QED
      BY <1>1, <3>3, <3>5, BatchRuns
  <2> QED
    BY <1>3, <1>5, <2>1, <2>2 DEF Serves
<1>10. CASE PumpAppend(g) /\ Len(log) # p.version
  <2>1. /\ pump'[g].pc = "recv" /\ pump'[g].cache = Absent /\ pump'[g].version = 0
        /\ UNCHANGED prov
    BY <1>10, PumpConflicts
  <2> QED
    BY <1>3, <2>1 DEF Serves
<1>11. CASE PumpProject(g)
  <2> DEFINE w == Received(g, p)
  <2>1. w.pc = "recv" /\ w.cache = p.cache /\ w.version = p.version
    BY <1>5 DEF Received, Pumps
  <2>2. pump'[g] = w /\ prov'[g] = Shorter /\ p.pc = "project" /\ out # <<>>
    BY <1>1, <1>6, <1>11 DEF PumpProject, GoodPump
  <2> HIDE DEF w
  <2>3. Serves(w, Shorter)
    BY <1>1, <1>3, <1>4, <2>1, <2>2, ConsumeServes
  <2> QED
    BY <2>2, <2>3
<1> QED
  BY <1>7, <1>8, <1>9, <1>10, <1>11 DEF PumpStep

\* A boot stops a session that the row says is running.
LEMMA BootStops ==
  ASSUME IndInv, Shapes, [Next]_vars, Reconcile, Runs, row = state
  PROVE  ~Runs'
<1> DEFINE b == <<[type |-> "SessionStopped"]>>
<1>1. Decide(state, StopCmd).events = b
  BY DEF Decide, StopCmd, DecideStop, Accept, Runs
<1>2. Persist(b)
  BY <1>1 DEF Reconcile, Runs
<1>3. b \in Batches /\ Len(b) = 1 /\ b[1].type = "SessionStopped"
  <2>1. [type |-> "SessionStopped"] \in SessionEvents
    BY DEF SessionEvents
  <2> QED
    BY <2>1 DEF Batches
<1> HIDE DEF b
<1>4. log' # log
  BY <1>2, <1>3, LogGrows DEF IndInv
<1>5. Accepted(log, state, b[1])
  BY <1>4, BootAppends DEF b
<1> QED
  BY <1>2, <1>3, <1>5, BatchRuns DEF IndInv

\* A step keeps a running session served.
LEMMA RunStep ==
  ASSUME IndInv, Shapes, RowIndInv, PresInv, RunInv, [Next]_vars
  PROVE  RunInv'
<1> SUFFICES ASSUME Runs', ~Excused'
             PROVE  /\ phase' # "bootProject"
                    /\ phase' = "boot" => row' = state'
                    /\ phase' = "up" => Served'
  BY DEF RunInv
<1>1. ~Excused
  BY ExcusesStay
<1>2. task \in [Handlers -> Tasks] /\ IdleTask.pc = "idle"
  BY DEF IndInv, TaskInv, IdleTask
<1>3. CASE ~Runs
  <2>1. PICK h \in Handlers : /\ AppendEvents(h) /\ log' # log
                              /\ task[h].op \in {"start", "resume"}
    BY <1>3, RunsAgain
  <2>2. phase = "up"
    BY <1>2, <2>1 DEF RowIndInv, BootInv, AppendEvents
  <2>3. UNCHANGED phase /\ task' = [task EXCEPT ![h].pc = "project"]
    BY <2>1 DEF AppendEvents, stored
  <2>4. task'[h].pc = "project" /\ task'[h].op = task[h].op
    BY <1>2, <2>3 DEF Tasks
  <2>5. h \in Owing'
    BY <2>1, <2>4 DEF Owing
  <2> QED
    BY <2>2, <2>3, <2>5 DEF Served
<1>4. CASE Runs
  <2>1. /\ phase # "bootProject" /\ (phase = "boot" => row = state)
        /\ (phase = "up" => Served)
    BY <1>1, <1>4 DEF RunInv
  <2>2. ASSUME NEW h \in Handlers, HandlerBegins(h) \/ HandlerContinues(h)
        PROVE  phase' = "up" /\ Served'
    BY <1>1, <1>4, <2>2, HandlersServe
  <2>3. ASSUME NEW g \in Gens, PumpStep(g)
        PROVE  phase' = "up" /\ Served'
    <3>1. phase = "up"
      <4>1. pump[g].pc # "none" /\ NoPump.pc = "none"
        BY <2>3 DEF PumpStep, PumpApproval, PumpDecide, PumpAppend, PumpProject, NoPump
      <4> QED
        BY <4>1 DEF RowIndInv, BootInv
    <3>2. ~lost'
      BY DEF Excused
    <3> QED
      BY <1>4, <2>1, <2>3, <3>1, <3>2, PumpsServe
  <2>4. ASSUME NEW g \in Gens, Write(g) \/ CliPrints(g) \/ Exit(g)
        PROVE  UNCHANGED <<phase, row, state>> /\ (phase = "up" => Served')
    <3>1. /\ \A i \in Gens : Goes(prov[i], prov'[i])
          /\ UNCHANGED <<phase, row, state, pump, task>>
      BY <2>4, ProcessGoes DEF stored
    <3>2. Owing' = Owing
      BY <3>1 DEF Owing
    <3> QED
      BY <2>1, <3>1, <3>2, ServedGoes
  <2>5. CASE Crash
    <3>1. crashes' # 0
      BY <2>5 DEF Crash, IndInv, ViewInv
    <3>2. ~torn /\ ~WindowOpen
      BY <2>5, <3>1 DEF Crash, Excused
    <3>3. row = state
      BY <3>2 DEF RowIndInv, RowInv
    <3> QED
      BY <2>5, <3>3 DEF Crash, LoseMemory, stored
  <2>6. ~Reconcile
    <3>1. Reconcile => row = state
      BY <2>1 DEF Reconcile
    <3> QED
      BY <1>4, <3>1, BootStops
  <2>7. ~ReconcileProject
    BY <2>1 DEF ReconcileProject
  <2>8. CASE UNCHANGED vars
    <3>1. UNCHANGED <<phase, row, state>> /\ Served' = Served
      BY <2>8 DEF vars, Served, Owing
    <3> QED
      BY <2>1, <3>1
  <2> QED
    BY <2>1, <2>2, <2>3, <2>4, <2>5, <2>6, <2>7, <2>8 DEF Next
<1> QED
  BY <1>3, <1>4

\* Nothing runs in the first state, and nobody is at work.
LEMMA InitRun == Init => PresInv /\ RunInv
BY DEF Init, PresInv, FirstInv, RowlessInv, GoneInv, RunInv, Runs, IdleTask, NoPump

\* A session whose log says running has a provider, once everybody is done, whatever
\* handlers, pumps, processes and crashes did before: a process that ends says so and
\* its pump stops the session.  The exceptions are those that RunningHasProvider names.
THEOREM RunningIsServed == Spec => []RunningHasProvider
<1>1. IndInv /\ RunInv => RunningHasProvider
  <2> SUFFICES ASSUME IndInv, RunInv, Quiet, ~spawnFailed, ~lost, torn => crashes = 0, ~Pure,
                      state # Absent, state.status = "running"
               PROVE  \E g \in Gens : Running(prov[g])
    BY DEF RunningHasProvider
  <2>1. Runs /\ ~Excused /\ phase = "up"
    BY DEF Runs, Excused, Quiet
  <2>2. Served
    BY <2>1 DEF RunInv
  <2>3. Owing = {}
    BY DEF Quiet, Idle, Owing, IdleTask
  <2>4. PICK g \in Gens : Serves(pump[g], prov[g])
    BY <2>2, <2>3 DEF Served
  <2>5. prov[g].phase \in Alive
    BY <2>4 DEF Serves, Quiet
  <2> QED
    BY <2>5 DEF Quiet, Alive, Running
<1>2. IndInv /\ LawInv /\ RowIndInv /\ PresInv /\ RunInv /\ [Next]_vars => PresInv' /\ RunInv'
  BY RunStep, FirstStep, RowlessStep, GoneStep DEF LawInv, RowIndInv, PresInv
<1> QED
  BY <1>1, <1>2, InitIndInv, NextIndInv, InitLawInv, NextLawInv, InitRowIndInv,
     NextRowIndInv, InitRun, PTL DEF Spec
==============================================================================
