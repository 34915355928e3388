---------------------------- MODULE TerminalsProof ----------------------------
(***************************************************************************)
(* Proofs about the terminals of a session, the phones that take them over *)
(* and the auto-pilot that types into them, for any terminals, phones,     *)
(* pilots, capacities, limits and loads of the surroundings.               *)
(*                                                                         *)
(* What the threads of a terminal do is plain to phones, sizes and pilots: *)
(* it changes no size, no place in the map and nothing a phone shows, and  *)
(* the screen only grows (Plain).  The rest is about the dozen steps that  *)
(* are not plain.                                                          *)
(***************************************************************************)
EXTENDS Autopilot, SequenceTheorems, FiniteSetTheorems, TLAPS

Sniffers ==
  [tail : Seq(Lines), prompt : BOOLEAN, poll : BOOLEAN, turnEnd : BOOLEAN, recap : BOOLEAN,
   working : BOOLEAN, waiting : BOOLEAN, apiError : BOOLEAN,
   title : Titles \cup {Unknown}, titleFresh : BOOLEAN, blurred : BOOLEAN]

States == [needsInput : BOOLEAN, busy : BOOLEAN, errored : BOOLEAN]

Places == {"unborn", "starting", "live", "gone"}
DeskSizes == {"desk", "desk2"}

TermRecs ==
  [st : Places, kind : Kinds, child : BOOLEAN, alive : BOOLEAN, seq : Nat, screen : Nat,
   danger : BOOLEAN, size : DeskSizes \cup {"phone"}, desktop : DeskSizes, sniffer : Sniffers,
   fresh : BOOLEAN, recent : BOOLEAN, last : States \cup {None}]

Readers ==
  [pc : {"off", "read", "publish", "feed", "emit", "emitLast", "eof", "end"},
   line : Lines \cup {None}, title : Titles \cup {None}, seq : Nat, state : States]

Beats == [pc : {"off", "sleep", "emit", "end"}, state : States]

Chunks == [term : Terms, seq : Nat]

Socks ==
  [pc : {"off", "upgraded", "closed", "attach", "subscribe", "loop", "lost", "restore"},
   term : Terms \cup {None}, last : Nat, shown : Seq(Nat), queue : Seq(Chunks), lagged : BOOLEAN]

Asks == [kind : {"none", "permission", "turnEnded"}, danger : BOOLEAN]

\* What a watchdog asked about.
Tails == [look : Nat, screen : Nat]

Dogs ==
  [pc : {"off", "poll", "decide", "halt", "enter", "keys", "giveUp", "end"},
   term : Terms \cup {None}, phase : {"observe", "await"}, stable : Nat \cup {None},
   settled : BOOLEAN, late : BOOLEAN, retries : Nat, asked : Seq(Tails), ask : Asks,
   approves : BOOLEAN, turns : Nat]

\* The terminals and their threads.
ThreadTypes ==
  /\ term \in [Terms -> TermRecs] /\ reader \in [Terms -> Readers]
  /\ beat \in [Terms -> Beats] /\ dot \in States
  /\ \A t \in Terms : reader[t].pc \in {"publish", "feed"} => reader[t].line \in Lines

\* The phones and what they lock.
PhoneTypes ==
  /\ typing \in Terms \cup {None} /\ takeover \in SUBSET Terms
  /\ overlay \in Terms \cup {None} /\ forcing \in Terms \cup {None} /\ forced \in BOOLEAN
  /\ sock \in [Phones -> Socks] /\ server \in BOOLEAN
  /\ \A p \in Phones : sock[p].pc # "off" => sock[p].term \in Terms

PilotTypes ==
  /\ engaged \in Pilots \cup {None} /\ runner \in BOOLEAN /\ dog \in [Pilots -> Dogs]
  /\ \A e \in Pilots : dog[e].pc # "off" => dog[e].term \in Terms

TTypeInv == ThreadTypes /\ PhoneTypes /\ notices \in Nat /\ left \in LoadTypes
TypeInv == TTypeInv /\ PilotTypes /\ look \in [Terms -> Nat]

------------------------------------------------------------------------------
(* What the sniffer makes of the output. *)

\* The last lines of the output are lines.
LEMMA LastOfTyped ==
  ASSUME NEW s \in Seq(Lines), NEW n \in Nat
  PROVE  LastOf(s, n) \in Seq(Lines)
<1> DEFINE a == IF Len(s) > n THEN Len(s) - n + 1 ELSE 1
<1>1. Len(s) \in Nat /\ \A i \in 1..Len(s) : s[i] \in Lines
  BY LenProperties, ElementOfSeq
<1>2. a \in Int /\ Len(s) \in Int /\ a >= 1
  BY <1>1
<1>3. \A i \in a..Len(s) : s[i] \in Lines
  BY <1>1, <1>2
<1> HIDE DEF a
<1>4. SubSeq(s, a, Len(s)) \in Seq(Lines)
  BY <1>2, <1>3, SubSeqProperties
<1> QED
  BY <1>4 DEF LastOf, a

\* So is the tail that a chunk was added to.
LEMMA FedTyped ==
  ASSUME NEW s \in Sniffers, NEW line \in Lines
  PROVE  Fed(s, line) \in Seq(Lines)
<1>1. s.tail \in Seq(Lines) /\ TailLines \in Nat
  BY TailAssumption DEF Sniffers, TailAssumption
<1>2. Append(s.tail, line) \in Seq(Lines)
  BY <1>1, AppendProperties
<1> QED
  BY <1>1, <1>2, LastOfTyped DEF Fed

\* The sniffer after a chunk, a title, a focus report or a submit is a sniffer.
LEMMA SnifferMoves ==
  ASSUME NEW s \in Sniffers
  PROVE  /\ \A line \in Lines : FeedStripped(s, line) \in Sniffers
         /\ \A title \in Titles : NoteTitle(s, title) \in Sniffers
         /\ \A f \in BOOLEAN : NoteFocus(s, f) \in Sniffers
         /\ Reset(s) \in Sniffers
<1>1. ASSUME NEW line \in Lines
      PROVE  FeedStripped(s, line) \in Sniffers
  <2> DEFINE tail == Fed(s, line)
             working == Matches(tail, Working)
             prompt == Matches(LastOf(tail, RecentLines), Prompts)
             poll == s.poll \/ Matches(tail, {"poll"})
             turnEnd == s.turnEnd \/ Matches(tail, Footers)
             recap == s.recap \/ Matches(tail, {"recap"})
             apiError == s.apiError \/ Matches(tail, {"apiError"})
             waiting == Waits(s, line)
  <2>1. tail \in Seq(Lines)
    BY <1>1, FedTyped
  <2>2. /\ working \in BOOLEAN /\ prompt \in BOOLEAN /\ poll \in BOOLEAN /\ turnEnd \in BOOLEAN
        /\ recap \in BOOLEAN /\ apiError \in BOOLEAN
    BY DEF Matches
  <2>3. waiting \in BOOLEAN
    BY DEF Waits
  <2>4. FeedStripped(s, line) =
          [s EXCEPT !.tail = tail, !.working = working, !.prompt = prompt, !.poll = poll,
                    !.turnEnd = turnEnd, !.recap = recap, !.apiError = apiError,
                    !.waiting = waiting]
    BY DEF FeedStripped, Sniffers
  <2> HIDE DEF tail, working, prompt, poll, turnEnd, recap, apiError, waiting
  <2> QED
    BY <2>1, <2>2, <2>3, <2>4 DEF Sniffers
<1>2. ASSUME NEW title \in Titles
      PROVE  NoteTitle(s, title) \in Sniffers
  BY DEF NoteTitle, Sniffers
<1>3. ASSUME NEW f \in BOOLEAN
      PROVE  NoteFocus(s, f) \in Sniffers
  <2> DEFINE b == ~f
             g == s.titleFresh \/ (f /\ s.title # Unknown)
  <2>1. b \in BOOLEAN /\ g \in BOOLEAN
    OBVIOUS
  <2>2. NoteFocus(s, f) = [s EXCEPT !.blurred = b, !.titleFresh = g]
    BY DEF NoteFocus, Sniffers
  <2> HIDE DEF b, g
  <2> QED
    BY <2>1, <2>2 DEF Sniffers
<1>4. Reset(s) \in Sniffers
  <2>1. /\ s.title \in Titles \cup {Unknown} /\ s.titleFresh \in BOOLEAN /\ s.blurred \in BOOLEAN
    BY DEF Sniffers
  <2>2. << >> \in Seq(Lines)
    BY EmptySeq
  <2> QED
    BY <2>1, <2>2 DEF Reset, NewSniffer, Sniffers
<1> QED
  BY <1>1, <1>2, <1>3, <1>4

\* What the sniffer computes is a state of a turn.
LEMMA StatesTyped ==
  ASSUME NEW s \in Sniffers, NEW fresh \in BOOLEAN, NEW recent \in BOOLEAN
  PROVE  ComputePureState(s, fresh, recent) \in States /\ IsBusyNow(s) \in BOOLEAN
<1> DEFINE c == ComputePureState(s, fresh, recent)
<1>1. s.prompt \in BOOLEAN /\ s.apiError \in BOOLEAN
  BY DEF Sniffers
<1>2. IsBusyNow(s) \in BOOLEAN
  BY DEF IsBusyNow
<1>3. c \in States
  BY <1>1 DEF ComputePureState, States
<1> QED
  BY <1>2, <1>3

\* A sniffer starts idle.
LEMMA IdleTyped == IdleState \in States /\ NewSniffer \in Sniffers
<1>1. << >> \in Seq(Lines)
  BY EmptySeq
<1> QED
  BY <1>1 DEF IdleState, States, NewSniffer, Sniffers

\* A change of state sends finitely many notices.
LEMMA SignalsCounted ==
  ASSUME NEW s, NEW next
  PROVE  Cardinality(Signals(s, next)) \in Nat
<1>1. IsFiniteSet({"needs_input"}) /\ IsFiniteSet({"turn_ended"})
  BY FS_Singleton
<1>2. IsFiniteSet({"needs_input", "turn_ended"})
  <2>1. {"needs_input", "turn_ended"} = {"needs_input"} \cup {"turn_ended"}
    OBVIOUS
  <2> QED
    BY <1>1, <2>1, FS_Union
<1>3. Signals(s, next) \subseteq {"needs_input", "turn_ended"}
  BY DEF Signals
<1>4. IsFiniteSet(Signals(s, next))
  BY <1>2, <1>3, FS_Subset
<1> QED
  BY <1>4, FS_CardinalityType

------------------------------------------------------------------------------
(* Plain steps. *)

Like(x, y) ==
  y.st = x.st /\ y.kind = x.kind /\ y.size = x.size /\ y.desktop = x.desktop /\ x.screen <= y.screen

\* Nothing a phone shows, no size and no place of a terminal changes.
Plain ==
  /\ \A t \in Terms : Like(term[t], term'[t])
  /\ takeover' = takeover /\ forcing' = forcing /\ forced' = forced
  /\ \A p \in Phones : /\ sock'[p].pc = sock[p].pc /\ sock'[p].term = sock[p].term
                       /\ sock'[p].shown = sock[p].shown /\ sock'[p].last = sock[p].last

\* One terminal changes a little and nothing of the phones.
LEMMA OneTerm ==
  ASSUME TTypeInv, NEW t \in Terms, NEW y \in TermRecs, Like(term[t], y),
         term' = [term EXCEPT ![t] = y], UNCHANGED mobile
  PROVE  term' \in [Terms -> TermRecs] /\ Plain
<1>1. term \in [Terms -> TermRecs]
  BY DEF TTypeInv, ThreadTypes
<1>2. term' \in [Terms -> TermRecs]
  BY <1>1
<1>3. \A u \in Terms : u # t => term'[u] = term[u]
  BY <1>1
<1>4. \A u \in Terms : Like(term[u], term[u])
  <2> TAKE u \in Terms
  <2>1. term[u].screen \in Nat
    BY <1>1 DEF TermRecs
  <2> QED
    BY <2>1 DEF Like
<1>5. \A u \in Terms : Like(term[u], term'[u])
  BY <1>1, <1>3, <1>4
<1> QED
  BY <1>2, <1>5 DEF Plain, mobile

\* A step that leaves the terminals and the phones' lock alone is plain.
LEMMA NoTerm ==
  ASSUME TTypeInv, UNCHANGED <<term, mobile>>
  PROVE  term' \in [Terms -> TermRecs] /\ Plain
<1>1. term \in [Terms -> TermRecs]
  BY DEF TTypeInv, ThreadTypes
<1>2. \A u \in Terms : Like(term[u], term[u])
  <2> TAKE u \in Terms
  <2>1. term[u].screen \in Nat
    BY <1>1 DEF TermRecs
  <2> QED
    BY <2>1 DEF Like
<1> QED
  BY <1>1, <1>2 DEF Plain, mobile

\* A load spent is a load.
LEMMA SpendTyped ==
  ASSUME left \in LoadTypes,
         NEW what \in {"spawns", "kills", "exits", "chunks", "keys", "resizes", "dials", "forces",
                       "toggles", "engages", "disengages"},
         Spend(what)
  PROVE  left' \in LoadTypes
BY DEF Spend, LoadTypes

\* The phones are as they were.
LEMMA PhonesStand ==
  ASSUME TTypeInv, UNCHANGED <<typing, mobile>>
  PROVE  PhoneTypes'
BY DEF TTypeInv, PhoneTypes, mobile

\* The reader thread reads a chunk.
LEMMA ReadStep ==
  ASSUME TTypeInv, NEW t \in Terms, NEW line \in Lines, NEW title \in Titles \cup {None},
         ReadChunk(t, line, title)
  PROVE  TTypeInv' /\ Plain
<1> DEFINE x == term[t]
           n == x.seq + 1
           m == IF HasContent(line) THEN x.screen + 1 ELSE x.screen
           d == x.danger \/ line = "danger"
           y == [x EXCEPT !.seq = n, !.danger = d, !.screen = m]
           r == [pc |-> "publish", line |-> line, title |-> title, seq |-> n, state |-> IdleState]
<1>1. /\ term \in [Terms -> TermRecs] /\ reader \in [Terms -> Readers] /\ x \in TermRecs
      /\ beat \in [Terms -> Beats] /\ dot \in States
      /\ \A u \in Terms : reader[u].pc \in {"publish", "feed"} => reader[u].line \in Lines
      /\ notices \in Nat /\ left \in LoadTypes
  BY DEF TTypeInv, ThreadTypes
<1>2. x.seq \in Nat /\ x.screen \in Nat /\ x.danger \in BOOLEAN
  BY <1>1 DEF TermRecs
<1>3. n \in Nat /\ m \in Nat /\ x.screen <= m /\ d \in BOOLEAN
  BY <1>2
<1>4. y \in TermRecs /\ Like(x, y)
  <2> HIDE DEF n, m, d, x
  <2> QED
    BY <1>1, <1>3 DEF TermRecs, Like
<1>5. term' = [term EXCEPT ![t] = y]
  BY <1>1 DEF ReadChunk, TermRecs
<1>6. /\ reader' = [reader EXCEPT ![t] = r] /\ UNCHANGED <<beat, dot, typing, mobile, notices>>
      /\ Spend("chunks")
  BY DEF ReadChunk
<1>7. r \in Readers
  BY <1>3, IdleTyped DEF Readers
<1> HIDE DEF y
<1>8. term' \in [Terms -> TermRecs] /\ Plain
  BY <1>4, <1>5, <1>6, OneTerm
<1>9. reader' \in [Terms -> Readers]
      /\ \A u \in Terms : reader'[u].pc \in {"publish", "feed"} => reader'[u].line \in Lines
  BY <1>1, <1>6, <1>7
<1> QED
  BY <1>1, <1>6, <1>8, <1>9, PhonesStand, SpendTyped DEF ThreadTypes, TTypeInv

\* A reader moves and leaves its line alone.
LEMMA ReaderGoes ==
  ASSUME TTypeInv, NEW t \in Terms, NEW r \in Readers, reader' = [reader EXCEPT ![t] = r],
         r.line = reader[t].line,
         r.pc \in {"publish", "feed"} => reader[t].pc \in {"publish", "feed"}
  PROVE  /\ reader' \in [Terms -> Readers]
         /\ \A u \in Terms : reader'[u].pc \in {"publish", "feed"} => reader'[u].line \in Lines
BY DEF TTypeInv, ThreadTypes

\* A chunk for a phone goes to its queue, from which a lagging phone loses the oldest; what
\* it shows stays.
LEMMA DeliverTyped ==
  ASSUME NEW s \in Socks, NEW chunk \in Chunks
  PROVE  LET y == Deliver(s, chunk)
         IN y \in Socks /\ y.pc = s.pc /\ y.term = s.term /\ y.shown = s.shown /\ y.last = s.last
<1>1. s.queue \in Seq(Chunks) /\ Capacity \in Nat /\ Capacity # 0
  BY TerminalAssumption DEF Socks, TerminalAssumption
<1>2. Append(s.queue, chunk) \in Seq(Chunks)
  BY <1>1, AppendProperties
<1>3. CASE Len(s.queue) < Capacity
  <2> DEFINE q == Append(s.queue, chunk)
             y == [s EXCEPT !.queue = q]
  <2>1. Deliver(s, chunk) = y
    BY <1>3 DEF Deliver
  <2> HIDE DEF q
  <2>2. q \in Seq(Chunks)
    BY <1>2 DEF q
  <2> QED
    BY <2>1, <2>2 DEF Socks
<1>4. CASE ~(Len(s.queue) < Capacity)
  <2> DEFINE q == Append(Tail(s.queue), chunk)
             y == [s EXCEPT !.queue = q, !.lagged = TRUE]
  <2>1. Deliver(s, chunk) = y
    BY <1>4 DEF Deliver
  <2>2. s.queue # << >>
    BY <1>1, <1>4, LenProperties, EmptySeq
  <2>3. q \in Seq(Chunks)
    BY <1>1, <2>2, HeadTailProperties, AppendProperties
  <2> HIDE DEF q
  <2> QED
    BY <2>1, <2>3 DEF Socks
<1> QED
  BY <1>3, <1>4

\* The reader publishes its chunk: queues grow, the screens of phones do not change.
LEMMA PublishStep ==
  ASSUME TTypeInv, NEW t \in Terms, Publish(t)
  PROVE  TTypeInv' /\ Plain
<1> DEFINE q == IF term[t].kind = "claude" THEN "feed" ELSE "read"
           r == [reader[t] EXCEPT !.pc = q]
           chunk == [term |-> t, seq |-> reader[t].seq]
<1>1. /\ ThreadTypes /\ PhoneTypes /\ notices \in Nat /\ left \in LoadTypes
      /\ reader[t] \in Readers /\ sock \in [Phones -> Socks]
  BY DEF TTypeInv, ThreadTypes, PhoneTypes
<1>2. /\ reader[t].pc = "publish" /\ reader' = [reader EXCEPT ![t] = r]
      /\ UNCHANGED <<term, beat, dot, typing, takeover, overlay, forcing, forced, server, notices, left>>
      /\ sock' = [p \in Phones |-> IF Subscribed(p) THEN Deliver(sock[p], chunk) ELSE sock[p]]
  BY DEF Publish
<1>3. chunk \in Chunks
  BY <1>1 DEF Readers, Chunks
<1>4. r \in Readers /\ r.pc \in {"feed", "read"} /\ r.line = reader[t].line
  <2>1. q \in {"feed", "read"}
    OBVIOUS
  <2> HIDE DEF q
  <2> QED
    BY <1>1, <2>1 DEF Readers
<1> HIDE DEF r, chunk
<1>5. /\ reader' \in [Terms -> Readers]
      /\ \A u \in Terms : reader'[u].pc \in {"publish", "feed"} => reader'[u].line \in Lines
  BY <1>2, <1>4, ReaderGoes
<1>6. ASSUME NEW p \in Phones
      PROVE  /\ sock'[p] \in Socks
             /\ sock'[p].pc = sock[p].pc /\ sock'[p].term = sock[p].term
             /\ sock'[p].shown = sock[p].shown /\ sock'[p].last = sock[p].last
  BY <1>1, <1>2, <1>3, DeliverTyped
<1>7. sock' \in [Phones -> Socks]
  BY <1>2, <1>6
<1>8. \A u \in Terms : Like(term[u], term'[u])
  <2> TAKE u \in Terms
  <2>1. term[u].screen \in Nat
    BY <1>1 DEF ThreadTypes, TermRecs
  <2> QED
    BY <1>2, <2>1 DEF Like
<1> QED
  BY <1>1, <1>2, <1>5, <1>6, <1>7, <1>8 DEF ThreadTypes, PhoneTypes, TTypeInv, Plain

\* The reader feeds the sniffer; the auto-pilot is told of what it signals.
LEMMA FeedStep ==
  ASSUME TTypeInv, NEW t \in Terms, Feed(t)
  PROVE  TTypeInv' /\ Plain
<1> DEFINE x == term[t]
           r == reader[t]
           titled == IF r.title = None THEN x.sniffer ELSE NoteTitle(x.sniffer, r.title)
           next == FeedStripped(titled, r.line)
           fresh == x.fresh \/ HasContent(r.line)
           recent == x.recent \/ IsBusyNow(next)
           state == ComputePureState(next, fresh, recent)
           y == [x EXCEPT !.sniffer = next, !.fresh = fresh, !.recent = recent, !.last = state]
           q == IF state # x.last THEN "emit" ELSE "read"
           r2 == [r EXCEPT !.pc = q, !.state = state]
           signals == Cardinality(Signals(titled, next))
<1>1. /\ ThreadTypes /\ PhoneTypes /\ notices \in Nat /\ left \in LoadTypes
      /\ x \in TermRecs /\ r \in Readers /\ r.pc = "feed" /\ r.line \in Lines
  BY DEF TTypeInv, ThreadTypes, Feed
<1>2. /\ term' = [term EXCEPT ![t] = y] /\ reader' = [reader EXCEPT ![t] = r2]
      /\ notices' = notices + signals /\ UNCHANGED <<beat, dot, typing, mobile, left>>
  BY DEF Feed
<1>3. x.sniffer \in Sniffers /\ x.fresh \in BOOLEAN /\ x.recent \in BOOLEAN
      /\ x.screen <= x.screen
  BY <1>1 DEF TermRecs
<1>4. titled \in Sniffers
  BY <1>1, <1>3, SnifferMoves DEF Readers
<1> HIDE DEF titled
<1>5. next \in Sniffers
  BY <1>1, <1>4, SnifferMoves
<1> HIDE DEF next
<1>6. fresh \in BOOLEAN /\ recent \in BOOLEAN
  OBVIOUS
<1> HIDE DEF fresh, recent
<1>7. state \in States
  BY <1>5, <1>6, StatesTyped
<1> HIDE DEF state
<1>8. q \in {"emit", "read"}
  OBVIOUS
<1> HIDE DEF q
<1>9. y \in TermRecs /\ Like(x, y)
  <2> HIDE DEF x
  <2> QED
    BY <1>1, <1>3, <1>5, <1>6, <1>7 DEF TermRecs, Like
<1>10. r2 \in Readers /\ r2.pc = q /\ r2.line = r.line
  BY <1>1, <1>7, <1>8 DEF Readers
<1> HIDE DEF y, r2
<1>11. term' \in [Terms -> TermRecs] /\ Plain
  BY <1>2, <1>9, OneTerm
<1>12. /\ reader' \in [Terms -> Readers]
       /\ \A u \in Terms : reader'[u].pc \in {"publish", "feed"} => reader'[u].line \in Lines
  BY <1>1, <1>2, <1>8, <1>10, ReaderGoes
<1>13. signals \in Nat
  BY SignalsCounted
<1> HIDE DEF signals
<1> QED
  BY <1>1, <1>2, <1>11, <1>12, <1>13, PhonesStand DEF TTypeInv, ThreadTypes

\* What the reader tells the desktop.
LEMMA ReaderTells ==
  ASSUME TTypeInv, NEW t \in Terms, ReaderEmits(t) \/ ReadEof(t) \/ FinalSnapshot(t)
  PROVE  TTypeInv' /\ Plain
<1> DEFINE x == term[t]
           r == reader[t]
<1>1. /\ ThreadTypes /\ PhoneTypes /\ notices \in Nat /\ left \in LoadTypes
      /\ x \in TermRecs /\ r \in Readers /\ dot \in States
      /\ term \in [Terms -> TermRecs]
  BY DEF TTypeInv, ThreadTypes
<1>2. UNCHANGED <<beat, typing, mobile, notices, left>>
  BY DEF ReaderEmits, ReadEof, FinalSnapshot
<1>3. x.seq \in Nat /\ x.screen \in Nat /\ x.screen <= x.screen /\ x.fresh \in BOOLEAN
      /\ x.sniffer \in Sniffers
  BY <1>1 DEF TermRecs
<1>4. CASE ReaderEmits(t)
  <2> DEFINE q == IF r.pc = "emit" THEN "read" ELSE "end"
             r2 == [r EXCEPT !.pc = q]
  <2>1. /\ reader' = [reader EXCEPT ![t] = r2] /\ dot' = r.state /\ term' = term
    BY <1>1, <1>4 DEF ReaderEmits
  <2>2. q \in {"read", "end"}
    OBVIOUS
  <2> HIDE DEF q
  <2>3. r2 \in Readers /\ r2.pc = q /\ r2.line = r.line
    BY <1>1, <2>2 DEF Readers
  <2> HIDE DEF r2
  <2>4. /\ reader' \in [Terms -> Readers]
        /\ \A u \in Terms : reader'[u].pc \in {"publish", "feed"} => reader'[u].line \in Lines
    BY <2>1, <2>2, <2>3, ReaderGoes
  <2>5. term' \in [Terms -> TermRecs] /\ Plain
    BY <1>2, <2>1, NoTerm
  <2>6. dot' \in States
    BY <1>1, <2>1 DEF Readers
  <2> QED
    BY <1>1, <1>2, <2>4, <2>5, <2>6, PhonesStand DEF TTypeInv, ThreadTypes
<1>5. CASE ReadEof(t)
  <2> DEFINE q == IF x.kind = "claude" THEN "eof" ELSE "end"
             r2 == [r EXCEPT !.pc = q]
             y == [x EXCEPT !.alive = FALSE]
  <2>1. /\ reader' = [reader EXCEPT ![t] = r2] /\ term' = [term EXCEPT ![t] = y] /\ dot' = dot
    BY <1>1, <1>5 DEF ReadEof
  <2>2. q \in {"eof", "end"}
    OBVIOUS
  <2> HIDE DEF q
  <2>3. r2 \in Readers /\ r2.pc = q /\ r2.line = r.line
    BY <1>1, <2>2 DEF Readers
  <2>4. y \in TermRecs /\ Like(x, y)
    <3> HIDE DEF x
    <3> QED
      BY <1>1, <1>3 DEF TermRecs, Like
  <2> HIDE DEF r2, y
  <2>5. /\ reader' \in [Terms -> Readers]
        /\ \A u \in Terms : reader'[u].pc \in {"publish", "feed"} => reader'[u].line \in Lines
    BY <2>1, <2>2, <2>3, ReaderGoes
  <2>6. term' \in [Terms -> TermRecs] /\ Plain
    BY <1>2, <2>1, <2>4, OneTerm
  <2> QED
    BY <1>1, <1>2, <2>1, <2>5, <2>6, PhonesStand DEF TTypeInv, ThreadTypes
<1>6. CASE FinalSnapshot(t)
  <2> DEFINE q == IF x.last # IdleState THEN "emitLast" ELSE "end"
             r2 == [r EXCEPT !.pc = q, !.state = IdleState]
             y == [x EXCEPT !.last = IdleState]
  <2>1. /\ reader' = [reader EXCEPT ![t] = r2] /\ term' = [term EXCEPT ![t] = y] /\ dot' = dot
    BY <1>1, <1>6 DEF FinalSnapshot
  <2>2. q \in {"emitLast", "end"} /\ IdleState \in States
    BY IdleTyped
  <2> HIDE DEF q
  <2>3. r2 \in Readers /\ r2.pc = q /\ r2.line = r.line
    BY <1>1, <2>2 DEF Readers
  <2>4. y \in TermRecs /\ Like(x, y)
    <3> HIDE DEF x
    <3> QED
      BY <1>1, <1>3, <2>2 DEF TermRecs, Like
  <2> HIDE DEF r2, y
  <2>5. /\ reader' \in [Terms -> Readers]
        /\ \A u \in Terms : reader'[u].pc \in {"publish", "feed"} => reader'[u].line \in Lines
    BY <2>1, <2>2, <2>3, ReaderGoes
  <2>6. term' \in [Terms -> TermRecs] /\ Plain
    BY <1>2, <2>1, <2>4, OneTerm
  <2> QED
    BY <1>1, <1>2, <2>1, <2>5, <2>6, PhonesStand DEF TTypeInv, ThreadTypes
<1> QED
  BY <1>4, <1>5, <1>6

\* The heartbeat and the clocks.
LEMMA TickSteps ==
  ASSUME TTypeInv, NEW t \in Terms, Ticks(t)
  PROVE  TTypeInv' /\ Plain
<1> DEFINE x == term[t]
<1>1. /\ ThreadTypes /\ PhoneTypes /\ notices \in Nat /\ left \in LoadTypes
      /\ x \in TermRecs /\ beat \in [Terms -> Beats] /\ dot \in States
      /\ term \in [Terms -> TermRecs]
  BY DEF TTypeInv, ThreadTypes
<1>2. UNCHANGED <<reader, typing, mobile, notices, left>>
  BY DEF Ticks, BeatWakes, BeatEmits, BeatEnds, Clock
<1>3. x.seq \in Nat /\ x.screen \in Nat /\ x.screen <= x.screen /\ x.fresh \in BOOLEAN
      /\ x.recent \in BOOLEAN /\ x.sniffer \in Sniffers
  BY <1>1 DEF TermRecs
<1>4. ASSUME term' \in [Terms -> TermRecs] /\ Plain, beat' \in [Terms -> Beats], dot' \in States
      PROVE  TTypeInv' /\ Plain
  BY <1>1, <1>2, <1>4, PhonesStand DEF TTypeInv, ThreadTypes
<1>5. CASE BeatWakes(t)
  <2> DEFINE s == Snapshot(t)
             y == [x EXCEPT !.last = s]
             b == [pc |-> "emit", state |-> s]
  <2>1. /\ term' = [term EXCEPT ![t] = y] /\ beat' = [beat EXCEPT ![t] = b] /\ dot' = dot
    BY <1>1, <1>5 DEF BeatWakes
  <2>2. s \in States
    BY <1>3, StatesTyped DEF Snapshot
  <2> HIDE DEF s
  <2>3. y \in TermRecs /\ Like(x, y)
    <3> HIDE DEF x
    <3> QED
      BY <1>1, <1>3, <2>2 DEF TermRecs, Like
  <2>4. b \in Beats
    BY <2>2 DEF Beats
  <2> HIDE DEF y, b
  <2>5. term' \in [Terms -> TermRecs] /\ Plain
    BY <1>2, <2>1, <2>3, OneTerm
  <2> QED
    BY <1>1, <1>4, <2>1, <2>4, <2>5
<1>6. CASE BeatEmits(t) \/ BeatEnds(t)
  <2>1. term' = term
    BY <1>6 DEF BeatEmits, BeatEnds
  <2>2. PICK q \in {"sleep", "end"} : beat' = [beat EXCEPT ![t].pc = q]
    BY <1>6 DEF BeatEmits, BeatEnds
  <2>3. beat' \in [Terms -> Beats]
    BY <1>1, <2>2 DEF Beats
  <2>4. dot' \in States
    BY <1>1, <1>6 DEF BeatEmits, BeatEnds, Beats
  <2>5. term' \in [Terms -> TermRecs] /\ Plain
    BY <1>2, <2>1, NoTerm
  <2> QED
    BY <1>4, <2>3, <2>4, <2>5
<1>7. ASSUME NEW what \in {"fresh", "recent", "title"}, Clock(t, what)
      PROVE  TTypeInv' /\ Plain
  <2>1. beat' = beat /\ dot' = dot
    BY <1>7 DEF Clock
  <2>2. PICK y \in TermRecs : term' = [term EXCEPT ![t] = y] /\ Like(x, y)
    <3>1. CASE what = "title"
      <4> DEFINE s == [x.sniffer EXCEPT !.titleFresh = FALSE]
                 y == [x EXCEPT !.sniffer = s]
      <4>1. term' = [term EXCEPT ![t] = y]
        BY <1>1, <1>7, <3>1 DEF Clock
      <4>2. s \in Sniffers
        BY <1>3 DEF Sniffers
      <4> HIDE DEF s
      <4>3. y \in TermRecs /\ Like(x, y)
        <5> HIDE DEF x
        <5> QED
          BY <1>1, <1>3, <4>2 DEF TermRecs, Like
      <4> QED
        BY <4>1, <4>3
    <3>2. CASE what = "fresh"
      <4> DEFINE y == [x EXCEPT !.fresh = FALSE]
      <4>1. term' = [term EXCEPT ![t] = y]
        BY <1>1, <1>7, <3>2 DEF Clock
      <4>2. y \in TermRecs /\ Like(x, y)
        <5> HIDE DEF x
        <5> QED
          BY <1>1, <1>3 DEF TermRecs, Like
      <4> QED
        BY <4>1, <4>2
    <3>3. CASE what = "recent"
      <4> DEFINE y == [x EXCEPT !.recent = FALSE]
      <4>1. term' = [term EXCEPT ![t] = y]
        BY <1>1, <1>7, <3>3 DEF Clock
      <4>2. y \in TermRecs /\ Like(x, y)
        <5> HIDE DEF x
        <5> QED
          BY <1>1, <1>3 DEF TermRecs, Like
      <4> QED
        BY <4>1, <4>2
    <3> QED
      BY <3>1, <3>2, <3>3
  <2>3. term' \in [Terms -> TermRecs] /\ Plain
    BY <1>2, <2>2, OneTerm
  <2> QED
    BY <1>1, <1>4, <2>1, <2>3
<1> QED
  BY <1>5, <1>6, <1>7 DEF Ticks

\* What is written to a terminal.
LEMMA WriteTyped ==
  ASSUME TTypeInv, NEW t \in Terms, NEW data \in Keys, WriteRaw(t, data), UNCHANGED mobile
  PROVE  term' \in [Terms -> TermRecs] /\ Plain
<1> DEFINE x == term[t]
           s == CASE data = "\r" -> Reset(x.sniffer)
                  [] data \in {"focusIn", "focusOut"} -> NoteFocus(x.sniffer, data = "focusIn")
                  [] OTHER -> x.sniffer
           f == x.fresh \/ data = "\r"
           y == [x EXCEPT !.sniffer = s, !.fresh = f]
<1>1. x \in TermRecs /\ term \in [Terms -> TermRecs]
  BY DEF TTypeInv, ThreadTypes
<1>2. x.sniffer \in Sniffers /\ x.screen <= x.screen
  BY <1>1 DEF TermRecs
<1>3. term' = term \/ term' = [term EXCEPT ![t] = y]
  BY <1>1 DEF WriteRaw
<1>4. s \in Sniffers
  BY <1>2, SnifferMoves
<1>5. f \in BOOLEAN
  OBVIOUS
<1> HIDE DEF s, f
<1>6. y \in TermRecs /\ Like(x, y)
  <2> HIDE DEF x
  <2> QED
    BY <1>1, <1>2, <1>4, <1>5 DEF TermRecs, Like
<1> HIDE DEF y
<1> QED
  BY <1>3, <1>6, OneTerm, NoTerm

\* The surroundings' plain steps: a child exits, a key is pressed here or on a phone, the
\* phone server is switched.
LEMMA PlainSurroundings ==
  ASSUME TTypeInv,
         \/ \E t \in Terms : ChildExits(t) \/ Write(t)
         \/ \E data \in Keys : WriteLands(data)
         \/ \E p \in Phones, data \in Keys : WriteMobile(p, data)
         \/ MobileToggle
  PROVE  TTypeInv' /\ Plain
<1>1. /\ ThreadTypes /\ PhoneTypes /\ notices \in Nat /\ left \in LoadTypes
      /\ term \in [Terms -> TermRecs] /\ typing \in Terms \cup {None}
      /\ \A p \in Phones : sock[p].pc # "off" => sock[p].term \in Terms
  BY DEF TTypeInv, ThreadTypes, PhoneTypes
<1>2. ASSUME term' \in [Terms -> TermRecs] /\ Plain, UNCHANGED <<reader, beat, dot, notices>>,
             PhoneTypes', left' \in LoadTypes
      PROVE  TTypeInv' /\ Plain
  BY <1>1, <1>2 DEF TTypeInv, ThreadTypes
<1>3. ASSUME NEW t \in Terms, ChildExits(t)
      PROVE  TTypeInv' /\ Plain
  <2> DEFINE x == term[t]
             y == [x EXCEPT !.child = FALSE]
  <2>1. /\ term' = [term EXCEPT ![t] = y] /\ UNCHANGED <<reader, beat, dot, typing, mobile, notices>>
        /\ left' \in LoadTypes
    BY <1>1, <1>3, SpendTyped DEF ChildExits
  <2>2. x \in TermRecs /\ x.screen <= x.screen
    BY <1>1 DEF TermRecs
  <2>3. y \in TermRecs /\ Like(x, y)
    <3> HIDE DEF x
    <3> QED
      BY <2>2 DEF TermRecs, Like
  <2> HIDE DEF y
  <2>4. term' \in [Terms -> TermRecs] /\ Plain
    BY <2>1, <2>3, OneTerm
  <2> QED
    BY <1>2, <2>1, <2>4, PhonesStand
<1>4. ASSUME NEW t \in Terms, Write(t)
      PROVE  TTypeInv' /\ Plain
  <2>1. UNCHANGED <<shared, mobile, notices>> /\ typing' = t /\ left' \in LoadTypes
    BY <1>1, <1>4, SpendTyped DEF Write
  <2>2. term' \in [Terms -> TermRecs] /\ Plain
    BY <2>1, NoTerm DEF shared
  <2>3. PhoneTypes'
    BY <1>1, <2>1 DEF PhoneTypes, mobile
  <2> QED
    BY <1>2, <2>1, <2>2, <2>3 DEF shared
<1>5. ASSUME NEW data \in Keys, WriteLands(data)
      PROVE  TTypeInv' /\ Plain
  <2>1. /\ typing \in Terms /\ WriteRaw(typing, data) /\ typing' = None
        /\ UNCHANGED <<reader, beat, dot, mobile, notices, left>>
    BY <1>1, <1>5 DEF WriteLands
  <2>2. term' \in [Terms -> TermRecs] /\ Plain
    BY <2>1, WriteTyped
  <2>3. PhoneTypes'
    BY <1>1, <2>1 DEF PhoneTypes, mobile
  <2> QED
    BY <1>1, <1>2, <2>1, <2>2, <2>3
<1>6. ASSUME NEW p \in Phones, NEW data \in Keys, WriteMobile(p, data)
      PROVE  TTypeInv' /\ Plain
  <2>1. /\ sock[p].term \in Terms /\ WriteRaw(sock[p].term, data) /\ left' \in LoadTypes
        /\ UNCHANGED <<reader, beat, dot, typing, mobile, notices>>
    BY <1>1, <1>6, SpendTyped DEF WriteMobile, At
  <2>2. term' \in [Terms -> TermRecs] /\ Plain
    BY <2>1, WriteTyped
  <2> QED
    BY <1>2, <2>1, <2>2, PhonesStand
<1>7. ASSUME MobileToggle
      PROVE  TTypeInv' /\ Plain
  <2>1. /\ UNCHANGED <<shared, typing, takeover, overlay, forcing, forced, sock, notices>>
        /\ server' \in BOOLEAN /\ left' \in LoadTypes
    BY <1>1, <1>7, SpendTyped DEF MobileToggle
  <2>2. PhoneTypes'
    BY <1>1, <2>1 DEF PhoneTypes
  <2>3. \A u \in Terms : Like(term[u], term'[u])
    <3> TAKE u \in Terms
    <3>1. term[u].screen <= term[u].screen
      BY <1>1 DEF TermRecs
    <3> QED
      BY <2>1, <3>1 DEF Like, shared
  <2>4. term' \in [Terms -> TermRecs] /\ Plain
    BY <1>1, <2>1, <2>3 DEF Plain, shared
  <2> QED
    BY <1>2, <2>1, <2>2, <2>4 DEF shared
<1> QED
  BY <1>3, <1>4, <1>5, <1>6, <1>7

------------------------------------------------------------------------------
(* What the phones show, and the sizes. *)

\* A phone shows chunks in their order, none later than the last it knows of.
InOrder(s) ==
  /\ \A i, j \in DOMAIN s.shown : i < j => s.shown[i] < s.shown[j]
  /\ \A i \in DOMAIN s.shown : s.shown[i] <= s.last

SockInv == \A p \in Phones : InOrder(sock[p])

\* From its takeover to its release a phone drives its terminal, and no other phone does;
\* a forced release breaks this.
Driving == {"attach", "subscribe", "loop", "lost"}

LockInv ==
  ~forced => /\ forcing = None
             /\ \A p \in Phones : sock[p].pc \in Driving => sock[p].term \in takeover
             /\ \A p, q \in Phones : p # q /\ sock[p].pc \in Driving /\ sock[q].pc \in Driving
                                       => sock[p].term # sock[q].term

SizeInv ==
  /\ \A t \in Terms : term[t].st \in {"unborn", "starting"} => term[t].size = term[t].desktop
  /\ QuietSizeIsDesktops

\* The inductive invariant of the terminals.
TermsInv == TTypeInv /\ SockInv /\ LockInv /\ SizeInv

\* A terminal that was once live stays so or is gone; its screen grows.
Grows ==
  \A t \in Terms : /\ term[t].screen <= term'[t].screen
                   /\ term[t].st \in {"live", "gone"} => term'[t].st \in {term[t].st, "gone"}

\* Places are kept and sizes follow: what a step must show to keep the sizes.
LEMMA PlainKeeps ==
  ASSUME TermsInv, TTypeInv', Plain
  PROVE  TermsInv' /\ Grows
<1>1. SockInv'
  BY DEF TermsInv, SockInv, InOrder, Plain
<1>2. LockInv'
  BY DEF TermsInv, LockInv, Plain
<1>3. \A t \in Terms : Restoring(t)' <=> Restoring(t)
  BY DEF Restoring, Plain
<1>4. SizeInv'
  <2>1. \A t \in Terms : /\ term'[t].st = term[t].st /\ term'[t].size = term[t].size
                         /\ term'[t].desktop = term[t].desktop
    BY DEF Plain, Like
  <2>2. takeover' = takeover /\ forced' = forced
    BY DEF Plain
  <2>3. \A t \in Terms : term'[t].st \in {"unborn", "starting"} => term'[t].size = term'[t].desktop
    BY <2>1 DEF TermsInv, SizeInv
  <2>4. QuietSizeIsDesktops'
    <3> SUFFICES ASSUME NEW t \in Terms, Live(t)', ~forced', t \notin takeover', ~Restoring(t)'
                 PROVE  term'[t].size = term'[t].desktop
      BY DEF QuietSizeIsDesktops
    <3>1. Live(t) /\ ~forced /\ t \notin takeover /\ ~Restoring(t)
      BY <1>3, <2>1, <2>2 DEF Live
    <3> QED
      BY <2>1, <3>1 DEF TermsInv, SizeInv, QuietSizeIsDesktops
  <2> QED
    BY <2>3, <2>4 DEF SizeInv
<1>5. Grows
  BY DEF Grows, Plain, Like
<1> QED
  BY <1>1, <1>2, <1>4, <1>5 DEF TermsInv

\* Sizes and places are kept when no terminal changes.
LEMMA TermsStand ==
  ASSUME TermsInv, UNCHANGED shared
  PROVE  /\ ThreadTypes' /\ Grows
         /\ \A t \in Terms : term'[t].st \in {"unborn", "starting"} => term'[t].size = term'[t].desktop
<1>1. ThreadTypes /\ SizeInv
  BY DEF TermsInv, TTypeInv
<1>2. \A t \in Terms : term[t].screen <= term[t].screen
  BY <1>1 DEF ThreadTypes, TermRecs
<1> QED
  BY <1>1, <1>2 DEF ThreadTypes, SizeInv, Grows, shared

\* One phone moves.
LEMMA SockMoves ==
  ASSUME TermsInv, NEW p \in Phones, NEW s \in Socks, s.term = sock[p].term, s.term \in Terms,
         InOrder(s), s.pc # "restore", sock[p].pc # "restore",
         s.pc \in Driving => sock[p].pc \in Driving,
         sock' = [sock EXCEPT ![p] = s],
         UNCHANGED <<shared, typing, takeover, overlay, forcing, forced, server, notices, left>>
  PROVE  TermsInv' /\ Grows
<1>1. /\ PhoneTypes /\ notices \in Nat /\ left \in LoadTypes /\ SockInv /\ LockInv /\ SizeInv
      /\ sock \in [Phones -> Socks]
  BY DEF TermsInv, TTypeInv, PhoneTypes
<1>2. \A q \in Phones : sock'[q] = IF q = p THEN s ELSE sock[q]
  BY <1>1
<1>3. PhoneTypes'
  BY <1>1, <1>2 DEF PhoneTypes
<1>4. SockInv'
  BY <1>1, <1>2 DEF SockInv
<1>5. LockInv'
  BY <1>1, <1>2 DEF LockInv
<1>6. \A t \in Terms : Restoring(t)' <=> Restoring(t)
  BY <1>1, <1>2 DEF Restoring
<1>7. QuietSizeIsDesktops'
  BY <1>1, <1>6 DEF SizeInv, QuietSizeIsDesktops, Live, shared
<1> QED
  BY <1>1, <1>3, <1>4, <1>5, <1>7, TermsStand DEF TermsInv, TTypeInv, SizeInv

\* What a snapshot shows is in order.
LEMMA AttachedInOrder ==
  ASSUME TermsInv, NEW s \in Socks, s.term \in Terms, InOrder(s)
  PROVE  LET y == Attached(s)
         IN y \in Socks /\ y.term = s.term /\ y.pc = s.pc /\ InOrder(y)
<1> DEFINE seq == term[s.term].seq
           shown == [i \in 1..seq |-> i]
           y == [s EXCEPT !.last = seq, !.shown = shown]
<1>1. seq \in Nat
  BY DEF TermsInv, TTypeInv, ThreadTypes, TermRecs
<1> HIDE DEF seq
<1>2. shown \in Seq(Nat) /\ DOMAIN shown = 1..seq /\ \A i \in 1..seq : shown[i] = i
  <2>1. \A i \in 1..seq : i \in Nat
    BY <1>1
  <2>2. shown \in [1..seq -> Nat]
    BY <2>1
  <2> QED
    BY <1>1, <2>2, SeqDef
<1> HIDE DEF shown
<1>3. y \in Socks /\ y.term = s.term /\ y.pc = s.pc /\ y.shown = shown /\ y.last = seq
  BY <1>1, <1>2 DEF Socks
<1> HIDE DEF y
<1>4. InOrder(y)
  BY <1>1, <1>2, <1>3 DEF InOrder
<1>5. Attached(s) = IF Live(s.term) THEN y ELSE s
  BY DEF Attached, y, shown, seq
<1> QED
  BY <1>3, <1>4, <1>5

\* A later chunk is shown after the earlier ones.
LEMMA ShownLater ==
  ASSUME NEW s \in Socks, NEW n \in Nat, n > s.last, InOrder(s), NEW q \in Seq(Chunks),
         NEW y, y = [s EXCEPT !.queue = q, !.last = n, !.shown = Append(s.shown, n)]
  PROVE  y \in Socks /\ y.term = s.term /\ y.pc = s.pc /\ InOrder(y)
<1> DEFINE shown == Append(s.shown, n)
<1>1. s.shown \in Seq(Nat) /\ s.last \in Nat
  BY DEF Socks
<1>2. /\ shown \in Seq(Nat) /\ Len(shown) = Len(s.shown) + 1 /\ Len(s.shown) \in Nat
      /\ \A i \in 1..Len(s.shown) : shown[i] = s.shown[i]
      /\ shown[Len(s.shown) + 1] = n
  BY <1>1, AppendProperties, LenProperties
<1>3. DOMAIN shown = 1..Len(s.shown) + 1 /\ DOMAIN s.shown = 1..Len(s.shown)
  BY <1>1, <1>2, LenProperties
<1>4. \A i \in DOMAIN s.shown : s.shown[i] \in Nat
  BY <1>1, <1>3, ElementOfSeq
<1> HIDE DEF shown
<1>5. y \in Socks /\ y.term = s.term /\ y.pc = s.pc /\ y.shown = shown /\ y.last = n
  BY <1>2 DEF Socks, shown
<1> DEFINE len == Len(s.shown)
           old == s.shown
           last == s.last
<1>6. /\ len \in Nat /\ last \in Nat /\ \A i \in 1..len : old[i] \in Nat /\ old[i] <= last
      /\ \A i, j \in 1..len : i < j => old[i] < old[j]
      /\ \A i \in 1..len : shown[i] = old[i]
      /\ shown[len + 1] = n /\ DOMAIN shown = 1..len + 1
  BY <1>1, <1>2, <1>3, <1>4 DEF InOrder
<1> HIDE DEF len, old, last
<1>7. n > last
  BY DEF last
<1>8. /\ \A i, j \in 1..len + 1 : i < j => shown[i] < shown[j]
      /\ \A i \in 1..len + 1 : shown[i] <= n
  <2>1. \A i \in 1..len + 1 : i \in 1..len \/ i = len + 1
    BY <1>6
  <2>2. ASSUME NEW i \in 1..len
        PROVE  shown[i] < n
    <3>1. shown[i] = old[i] /\ old[i] \in Nat /\ old[i] <= last /\ last \in Nat /\ n > last
      BY <1>6, <1>7
    <3> QED
      BY <3>1
  <2>3. ASSUME NEW i \in 1..len + 1, NEW j \in 1..len + 1, i < j
        PROVE  shown[i] < shown[j]
    <3>1. i \in 1..len
      BY <1>6, <2>3
    <3> QED
      BY <1>6, <2>1, <2>2, <2>3, <3>1
  <2>4. ASSUME NEW i \in 1..len + 1
        PROVE  shown[i] <= n
    <3>1. CASE i \in 1..len
      <4>1. shown[i] < n /\ shown[i] \in Nat
        BY <1>6, <2>2, <3>1
      <4> QED
        BY <4>1
    <3>2. CASE i = len + 1
      BY <1>6, <3>2
    <3> QED
      BY <2>1, <3>1, <3>2
  <2> QED
    BY <2>3, <2>4
<1> QED
  BY <1>5, <1>6, <1>8 DEF InOrder

\* A phone attaches, subscribes, shows what comes, and leaves.
LEMMA MirrorSteps ==
  ASSUME TermsInv, NEW p \in Phones,
         AttachSnapshot(p) \/ Subscribe(p) \/ Recv(p) \/ PhoneLeaves(p)
  PROVE  TermsInv' /\ Grows
<1> DEFINE s == sock[p]
<1>1. s \in Socks /\ s.pc \in {"attach", "subscribe", "loop"} /\ s.term \in Terms /\ InOrder(s)
  BY DEF TermsInv, TTypeInv, PhoneTypes, SockInv, AttachSnapshot, Subscribe, Recv, PhoneLeaves, At
<1>2. UNCHANGED <<shared, typing, takeover, overlay, forcing, forced, server, notices, left>>
  BY DEF AttachSnapshot, Subscribe, Recv, PhoneLeaves
<1>3. s.pc \in Driving /\ s.pc # "restore"
  BY <1>1 DEF Driving
<1>4. ASSUME NEW y \in Socks, y.term = s.term, y.pc \in Driving, InOrder(y),
             sock' = [sock EXCEPT ![p] = y]
      PROVE  TermsInv' /\ Grows
  <2>1. y.pc # "restore" /\ y.term \in Terms
    BY <1>1, <1>4 DEF Driving
  <2> QED
    BY <1>2, <1>3, <1>4, <2>1, SockMoves
<1>5. ASSUME NEW y \in Socks, InOrder(y), y.term = s.term, NEW q \in Driving
      PROVE  LET z == [y EXCEPT !.pc = q]
             IN z \in Socks /\ z.term = s.term /\ z.pc = q /\ InOrder(z)
  <2> DEFINE z == [y EXCEPT !.pc = q]
  <2>1. z \in Socks /\ z.term = s.term /\ z.pc = q /\ z.shown = y.shown /\ z.last = y.last
    BY <1>5 DEF Socks, Driving
  <2> HIDE DEF z
  <2>2. InOrder(z)
    BY <1>5, <2>1 DEF InOrder
  <2> QED
    BY <2>1, <2>2 DEF z
<1>6. CASE AttachSnapshot(p)
  <2> DEFINE y == Attached(s)
             z == [y EXCEPT !.pc = "subscribe"]
  <2>1. y \in Socks /\ y.term = s.term /\ InOrder(y)
    BY <1>1, AttachedInOrder
  <2>2. sock' = [sock EXCEPT ![p] = z]
    BY <1>6 DEF AttachSnapshot, ToSock
  <2> HIDE DEF y
  <2>3. z \in Socks /\ z.term = s.term /\ z.pc = "subscribe" /\ InOrder(z)
    BY <1>5, <2>1 DEF Driving
  <2> HIDE DEF z
  <2> QED
    BY <1>4, <2>2, <2>3 DEF Driving
<1>7. CASE Subscribe(p) \/ PhoneLeaves(p)
  <2>1. PICK q \in {"loop", "lost"} : sock' = [sock EXCEPT ![p] = [s EXCEPT !.pc = q]]
    BY <1>7 DEF Subscribe, PhoneLeaves, ToSock
  <2> DEFINE z == [s EXCEPT !.pc = q]
  <2>0. q \in Driving /\ s \in Socks /\ InOrder(s)
    BY <1>1 DEF Driving
  <2> HIDE DEF s
  <2>2. z \in Socks /\ z.term = s.term /\ z.pc = q /\ InOrder(z)
    BY <1>5, <2>0
  <2>3. sock' = [sock EXCEPT ![p] = z]
    BY <2>1
  <2> HIDE DEF z
  <2> QED
    BY <1>4, <2>2, <2>3 DEF Driving
<1>8. CASE Recv(p)
  <2> DEFINE chunk == Head(s.queue)
             rest == Tail(s.queue)
  <2>1. s.pc = "loop" /\ s.queue # << >> /\ s.queue \in Seq(Chunks)
    BY <1>1, <1>8 DEF Recv, At, Socks
  <2>2. chunk \in Chunks /\ rest \in Seq(Chunks)
    BY <2>1, HeadTailProperties
  <2>3. chunk.seq \in Nat
    BY <2>2 DEF Chunks
  <2>4. CASE s.lagged
    <3> DEFINE y == Attached(s)
               z == [y EXCEPT !.lagged = FALSE]
    <3>1. y \in Socks /\ y.term = s.term /\ y.pc = s.pc /\ InOrder(y)
      BY <1>1, AttachedInOrder
    <3>2. sock' = [sock EXCEPT ![p] = z]
      BY <1>8, <2>4 DEF Recv, ToSock
    <3> HIDE DEF y
    <3>3. z \in Socks /\ z.term = s.term /\ z.pc = s.pc /\ z.shown = y.shown /\ z.last = y.last
      BY <3>1 DEF Socks
    <3> HIDE DEF z
    <3>4. InOrder(z)
      BY <3>1, <3>3 DEF InOrder
    <3> QED
      BY <1>3, <1>4, <3>2, <3>3, <3>4
  <2>5. CASE ~s.lagged /\ chunk.term = s.term /\ chunk.seq > s.last
    <3> DEFINE n == chunk.seq
               z == [s EXCEPT !.queue = rest, !.last = n, !.shown = Append(s.shown, n)]
    <3>1. sock' = [sock EXCEPT ![p] = z]
      <4>1. [[s EXCEPT !.queue = Tail(@)] EXCEPT !.last = n, !.shown = Append(@, n)] = z
        BY <1>1 DEF Socks
      <4> QED
        BY <1>8, <2>5, <4>1 DEF Recv, ToSock
    <3> HIDE DEF n, rest, chunk
    <3>2. n \in Nat /\ n > s.last
      BY <2>3, <2>5 DEF n
    <3>3. z \in Socks /\ z.term = s.term /\ z.pc = s.pc /\ InOrder(z)
      BY <1>1, <2>2, <3>2, ShownLater
    <3> HIDE DEF z
    <3> QED
      BY <1>3, <1>4, <3>1, <3>3
  <2>6. CASE ~s.lagged /\ ~(chunk.term = s.term /\ chunk.seq > s.last)
    <3> DEFINE z == [s EXCEPT !.queue = rest]
    <3>1. sock' = [sock EXCEPT ![p] = z]
      BY <1>8, <2>6 DEF Recv, ToSock
    <3> HIDE DEF rest
    <3>2. z \in Socks /\ z.term = s.term /\ z.pc = s.pc /\ z.shown = s.shown /\ z.last = s.last
      BY <1>1, <2>2 DEF Socks
    <3> HIDE DEF z
    <3>3. InOrder(z)
      BY <1>1, <3>2 DEF InOrder
    <3> QED
      BY <1>3, <1>4, <3>1, <3>2, <3>3
  <2> QED
    BY <2>4, <2>5, <2>6
<1> QED
  BY <1>6, <1>7, <1>8

\* Terminals move and the phones stand still: what keeps the sizes.
LEMMA TermsMove ==
  ASSUME TermsInv, ThreadTypes', UNCHANGED <<typing, mobile>>, notices' \in Nat, left' \in LoadTypes,
         \A t \in Terms : \/ term'[t] = term[t]
                          \/ /\ term'[t].screen = term[t].screen
                             /\ term[t].st \in {"live", "gone"} => term'[t].st \in {term[t].st, "gone"}
                             /\ term'[t].st \in {"unborn", "starting"} => term'[t].size = term'[t].desktop
                             /\ term'[t].st = "live" /\ ~forced /\ t \notin takeover
                                  => term'[t].size = term'[t].desktop
  PROVE  TermsInv' /\ Grows
<1>1. /\ ThreadTypes /\ PhoneTypes /\ SockInv /\ LockInv /\ SizeInv /\ QuietSizeIsDesktops
  BY DEF TermsInv, TTypeInv, SizeInv
<1>2. PhoneTypes' /\ SockInv' /\ LockInv'
  BY <1>1 DEF PhoneTypes, SockInv, LockInv, mobile
<1>3. \A t \in Terms : term'[t].st \in {"unborn", "starting"} => term'[t].size = term'[t].desktop
  BY <1>1 DEF SizeInv
<1>4. QuietSizeIsDesktops'
  <2> SUFFICES ASSUME NEW t \in Terms, Live(t)', ~forced', t \notin takeover', ~Restoring(t)'
               PROVE  term'[t].size = term'[t].desktop
    BY DEF QuietSizeIsDesktops
  <2>1. ~forced /\ t \notin takeover /\ ~Restoring(t) /\ term'[t].st = "live"
    BY DEF mobile, Restoring, Live
  <2>2. CASE term'[t] = term[t]
    BY <1>1, <2>1, <2>2 DEF QuietSizeIsDesktops, Live
  <2>3. CASE term'[t] # term[t]
    BY <2>1, <2>3
  <2> QED
    BY <2>2, <2>3
<1>5. Grows
  <2> SUFFICES ASSUME NEW t \in Terms
               PROVE  /\ term[t].screen <= term'[t].screen
                      /\ term[t].st \in {"live", "gone"} => term'[t].st \in {term[t].st, "gone"}
    BY DEF Grows
  <2>1. term[t].screen \in Nat
    BY <1>1 DEF ThreadTypes, TermRecs
  <2> QED
    BY <2>1
<1> QED
  BY <1>1, <1>2, <1>3, <1>4, <1>5 DEF TermsInv, TTypeInv, SizeInv

\* A terminal is spawned.
LEMMA SpawnStep ==
  ASSUME TermsInv, NEW t \in Terms, NEW kind \in Kinds, SpawnProgram(t, kind)
  PROVE  TermsInv' /\ Grows
<1> DEFINE x == term[t]
           y == [x EXCEPT !.st = "starting", !.kind = kind, !.child = TRUE, !.alive = TRUE, !.fresh = TRUE]
           r == [reader[t] EXCEPT !.pc = "read"]
           q == IF kind = "claude" THEN "sleep" ELSE "off"
           b == [beat[t] EXCEPT !.pc = q]
<1>1. /\ TTypeInv /\ ThreadTypes /\ notices \in Nat /\ left \in LoadTypes /\ x \in TermRecs
      /\ term \in [Terms -> TermRecs] /\ beat \in [Terms -> Beats] /\ reader[t] \in Readers
      /\ SizeInv
  BY DEF TermsInv, TTypeInv, ThreadTypes
<1>2. /\ x.st = "unborn" /\ term' = [term EXCEPT ![t] = y] /\ reader' = [reader EXCEPT ![t] = r]
      /\ beat' = [beat EXCEPT ![t] = b] /\ UNCHANGED <<dot, typing, mobile, notices>>
      /\ Spend("spawns")
  BY DEF SpawnProgram
<1>3. left' \in LoadTypes
  BY <1>1, <1>2, SpendTyped
<1>4. y \in TermRecs /\ y.st = "starting" /\ y.size = x.size /\ y.desktop = x.desktop /\ y.screen = x.screen
  <2> HIDE DEF x
  <2> QED
    BY <1>1 DEF TermRecs, Places
<1>5. x.size = x.desktop
  BY <1>1, <1>2 DEF SizeInv
<1>6. r \in Readers /\ r.pc = "read" /\ r.line = reader[t].line
  BY <1>1 DEF Readers
<1>7. q \in {"sleep", "off"} /\ beat[t] \in Beats
  BY <1>1
<1> HIDE DEF q
<1>8. b \in Beats
  BY <1>7 DEF Beats
<1> HIDE DEF y, r, b
<1>9. /\ reader' \in [Terms -> Readers]
      /\ \A u \in Terms : reader'[u].pc \in {"publish", "feed"} => reader'[u].line \in Lines
  BY <1>1, <1>2, <1>6, ReaderGoes
<1>10. ThreadTypes'
  BY <1>1, <1>2, <1>4, <1>8, <1>9 DEF ThreadTypes
<1>11. \A u \in Terms : term'[u] = IF u = t THEN y ELSE term[u]
  BY <1>1, <1>2
<1> QED
  BY <1>1, <1>2, <1>3, <1>4, <1>5, <1>10, <1>11, TermsMove

\* The spawned terminal enters the map.
LEMMA InsertStep ==
  ASSUME TermsInv, NEW t \in Terms, Insert(t)
  PROVE  TermsInv' /\ Grows
<1> DEFINE x == term[t]
           y == [x EXCEPT !.st = "live"]
<1>1. /\ ThreadTypes /\ notices \in Nat /\ left \in LoadTypes /\ x \in TermRecs
      /\ term \in [Terms -> TermRecs] /\ SizeInv
  BY DEF TermsInv, TTypeInv, ThreadTypes
<1>2. /\ x.st = "starting" /\ term' = [term EXCEPT ![t] = y]
      /\ UNCHANGED <<reader, beat, dot, typing, mobile, notices, left>>
  BY DEF Insert
<1>3. y \in TermRecs /\ y.st = "live" /\ y.size = x.size /\ y.desktop = x.desktop /\ y.screen = x.screen
  <2> HIDE DEF x
  <2> QED
    BY <1>1 DEF TermRecs, Places
<1>4. x.size = x.desktop
  BY <1>1, <1>2 DEF SizeInv
<1> HIDE DEF y
<1>5. ThreadTypes'
  BY <1>1, <1>2, <1>3 DEF ThreadTypes
<1>6. \A u \in Terms : term'[u] = IF u = t THEN y ELSE term[u]
  BY <1>1, <1>2
<1> QED
  BY <1>1, <1>2, <1>3, <1>4, <1>5, <1>6, TermsMove

\* Terminals are killed.
LEMMA KillStep ==
  ASSUME TermsInv, NEW ts \in SUBSET Terms, TakeOut(ts)
  PROVE  TermsInv' /\ Grows
<1>1. /\ ThreadTypes /\ notices \in Nat /\ left \in LoadTypes /\ term \in [Terms -> TermRecs]
  BY DEF TermsInv, TTypeInv, ThreadTypes
<1>2. /\ term' = [t \in Terms |-> IF t \in ts THEN [term[t] EXCEPT !.st = "gone"] ELSE term[t]]
      /\ UNCHANGED <<reader, beat, dot, typing, mobile, notices>> /\ Spend("kills")
  BY DEF TakeOut
<1>3. left' \in LoadTypes
  BY <1>1, <1>2, SpendTyped
<1>4. ASSUME NEW t \in Terms
      PROVE  /\ term'[t] \in TermRecs
             /\ \/ term'[t] = term[t]
                \/ term'[t].st = "gone" /\ term'[t].screen = term[t].screen
  <2> DEFINE x == term[t]
             y == [x EXCEPT !.st = "gone"]
  <2>1. x \in TermRecs
    BY <1>1
  <2>2. term'[t] = y \/ term'[t] = x
    BY <1>2
  <2> HIDE DEF x
  <2>3. y \in TermRecs /\ y.st = "gone" /\ y.screen = x.screen
    BY <2>1 DEF TermRecs, Places
  <2> HIDE DEF y
  <2> QED
    BY <2>1, <2>2, <2>3 DEF x
<1>5. term' \in [Terms -> TermRecs]
  BY <1>2, <1>4
<1>6. ThreadTypes'
  BY <1>1, <1>2, <1>5 DEF ThreadTypes
<1>7. \A t \in Terms : \/ term'[t] = term[t]
                       \/ /\ term'[t].screen = term[t].screen
                          /\ term[t].st \in {"live", "gone"} => term'[t].st \in {term[t].st, "gone"}
                          /\ term'[t].st \in {"unborn", "starting"} => term'[t].size = term'[t].desktop
                          /\ term'[t].st = "live" /\ ~forced /\ t \notin takeover
                               => term'[t].size = term'[t].desktop
  BY <1>4
<1> QED
  BY <1>1, <1>2, <1>3, <1>6, <1>7, TermsMove

\* The desktop asks for a size, or the phone does.
LEMMA ResizeStep ==
  ASSUME TermsInv,
         \/ \E t \in Terms, size \in DeskSizes : Resize(t, size)
         \/ \E p \in Phones : ResizeMobile(p)
  PROVE  TermsInv' /\ Grows
<1>1. /\ ThreadTypes /\ notices \in Nat /\ left \in LoadTypes /\ LockInv
      /\ term \in [Terms -> TermRecs]
  BY DEF TermsInv, TTypeInv, ThreadTypes
<1>2. ASSUME NEW t \in Terms, NEW size \in DeskSizes, Resize(t, size)
      PROVE  TermsInv' /\ Grows
  <2> DEFINE x == term[t]
             z == IF t \in takeover THEN x.size ELSE size
             y == [x EXCEPT !.desktop = size, !.size = z]
  <2>1. /\ term' = [term EXCEPT ![t] = y] /\ x.st = "live" /\ Spend("resizes")
        /\ UNCHANGED <<reader, beat, dot, typing, mobile, notices>>
    BY <1>1, <1>2 DEF Resize, Live, TermRecs
  <2>2. z \in DeskSizes \cup {"phone"} /\ (t \notin takeover => z = size)
    BY <1>1 DEF TermRecs
  <2>3. x \in TermRecs
    BY <1>1
  <2> HIDE DEF z
  <2>4. y \in TermRecs /\ y.st = x.st /\ y.size = z /\ y.desktop = size /\ y.screen = x.screen
    <3> HIDE DEF x
    <3> QED
      BY <2>2, <2>3 DEF TermRecs
  <2> HIDE DEF y
  <2>5. ThreadTypes'
    BY <1>1, <2>1, <2>4 DEF ThreadTypes
  <2>6. left' \in LoadTypes
    BY <1>1, <2>1, SpendTyped
  <2>7. \A u \in Terms : term'[u] = IF u = t THEN y ELSE term[u]
    BY <1>1, <2>1
  <2> QED
    BY <1>1, <2>1, <2>2, <2>4, <2>5, <2>6, <2>7, TermsMove
<1>3. ASSUME NEW p \in Phones, ResizeMobile(p)
      PROVE  TermsInv' /\ Grows
  <2> DEFINE t == sock[p].term
             x == term[t]
             y == [x EXCEPT !.size = "phone"]
  <2>1. /\ term' = [term EXCEPT ![t] = y] /\ x.st = "live" /\ Spend("resizes") /\ sock[p].pc = "loop"
        /\ UNCHANGED <<reader, beat, dot, typing, mobile, notices>>
    BY <1>3 DEF ResizeMobile, Live, At
  <2>2. t \in Terms /\ (forced \/ t \in takeover)
    BY <1>1, <2>1 DEF LockInv, Driving, TermsInv, TTypeInv, PhoneTypes
  <2>3. x \in TermRecs
    BY <1>1, <2>2
  <2>4. y \in TermRecs /\ y.st = x.st /\ y.screen = x.screen
    <3> HIDE DEF x
    <3> QED
      BY <2>3 DEF TermRecs
  <2> HIDE DEF y
  <2>5. ThreadTypes'
    BY <1>1, <2>1, <2>4 DEF ThreadTypes
  <2>6. left' \in LoadTypes
    BY <1>1, <2>1, SpendTyped
  <2>7. \A u \in Terms : term'[u] = IF u = t THEN y ELSE term[u]
    BY <1>1, <2>1
  <2> QED
    BY <1>1, <2>1, <2>2, <2>4, <2>5, <2>6, <2>7, TermsMove
<1> QED
  BY <1>2, <1>3

\* A release gives the terminal the size the desktop asked for last.
LEMMA RestoreTyped ==
  ASSUME TermsInv, NEW t \in Terms, Restore(t)
  PROVE  /\ term' \in [Terms -> TermRecs] /\ overlay' \in Terms \cup {None}
         /\ \A u \in Terms : \/ term'[u] = term[u]
                             \/ /\ term'[u].st = term[u].st /\ term'[u].screen = term[u].screen
                                /\ term'[u].desktop = term[u].desktop /\ term'[u].size = term[u].desktop
                                /\ term[u].st = "live"
         /\ term'[t].st = "live" => term'[t].size = term'[t].desktop
<1> DEFINE x == term[t]
           size == x.desktop
           y == [x EXCEPT !.size = size]
<1>1. /\ term \in [Terms -> TermRecs] /\ overlay \in Terms \cup {None} /\ x \in TermRecs
  BY DEF TermsInv, TTypeInv, ThreadTypes, PhoneTypes
<1>2. size \in DeskSizes
  BY <1>1 DEF TermRecs
<1>3. y \in TermRecs /\ y.st = x.st /\ y.screen = x.screen /\ y.desktop = x.desktop /\ y.size = x.desktop
  <2> HIDE DEF x
  <2> QED
    BY <1>1, <1>2 DEF TermRecs
<1>4. CASE x.st = "live"
  <2>1. term' = [term EXCEPT ![t] = y] /\ overlay' = None
    BY <1>4 DEF Restore, Live
  <2> HIDE DEF y
  <2>2. \A u \in Terms : term'[u] = IF u = t THEN y ELSE term[u]
    BY <1>1, <2>1
  <2> QED
    BY <1>1, <1>3, <1>4, <2>1, <2>2
<1>5. CASE x.st # "live"
  BY <1>1, <1>5 DEF Restore, Live
<1> QED
  BY <1>4, <1>5

\* The desktop takes a terminal back from a phone, in two steps.
LEMMA ForceSteps ==
  ASSUME TermsInv, (\E t \in Terms : ForceRelease(t)) \/ ForceRestores
  PROVE  TermsInv' /\ Grows
<1>1. /\ ThreadTypes /\ PhoneTypes /\ notices \in Nat /\ left \in LoadTypes
      /\ SockInv /\ LockInv /\ SizeInv
  BY DEF TermsInv, TTypeInv
<1>2. ASSUME NEW t \in Terms, ForceRelease(t)
      PROVE  TermsInv' /\ Grows
  <2>1. /\ takeover' = takeover \ {t} /\ forcing' = t /\ forced' = TRUE /\ Spend("forces")
        /\ UNCHANGED <<shared, typing, overlay, sock, server, notices>>
    BY <1>2 DEF ForceRelease, Unlock
  <2>2. left' \in LoadTypes
    BY <1>1, <2>1, SpendTyped
  <2>3. PhoneTypes' /\ SockInv' /\ LockInv' /\ QuietSizeIsDesktops'
    BY <1>1, <2>1 DEF PhoneTypes, SockInv, LockInv, QuietSizeIsDesktops
  <2> QED
    BY <1>1, <2>1, <2>2, <2>3, TermsStand DEF TermsInv, TTypeInv, SizeInv
<1>3. ASSUME ForceRestores
      PROVE  TermsInv' /\ Grows
  <2>1. /\ forcing \in Terms /\ forced /\ Restore(forcing) /\ forcing' = None /\ forced' = forced
        /\ UNCHANGED <<reader, beat, dot, typing, takeover, sock, server, notices, left>>
    BY <1>1, <1>3 DEF ForceRestores, LockInv, PhoneTypes
  <2>2. /\ term' \in [Terms -> TermRecs] /\ overlay' \in Terms \cup {None}
        /\ \A u \in Terms : \/ term'[u] = term[u]
                            \/ /\ term'[u].st = term[u].st /\ term'[u].screen = term[u].screen
                               /\ term'[u].size = term'[u].desktop
    BY <2>1, RestoreTyped
  <2>3. ThreadTypes' /\ PhoneTypes' /\ SockInv' /\ LockInv' /\ QuietSizeIsDesktops'
    BY <1>1, <2>1, <2>2 DEF ThreadTypes, PhoneTypes, SockInv, LockInv, QuietSizeIsDesktops
  <2>4. \A t \in Terms : term'[t].st \in {"unborn", "starting"} => term'[t].size = term'[t].desktop
    BY <1>1, <2>2 DEF SizeInv
  <2>5. Grows
    <3>1. \A t \in Terms : term[t].screen \in Nat /\ term[t].screen <= term[t].screen
      BY <1>1 DEF ThreadTypes, TermRecs
    <3> QED
      BY <2>2, <3>1 DEF Grows
  <2> QED
    BY <1>1, <2>1, <2>3, <2>4, <2>5 DEF TermsInv, TTypeInv, SizeInv
<1> QED
  BY <1>2, <1>3

\* A socket that shows what it showed shows it in order.
LEMMA SockGoes ==
  ASSUME NEW s \in Socks, InOrder(s), NEW y \in Socks, y.shown = s.shown, y.last = s.last
  PROVE  InOrder(y)
BY DEF InOrder

\* A phone dials.
LEMMA DialStep ==
  ASSUME TermsInv, NEW p \in Phones, NEW t \in Terms, WsHandler(p, t)
  PROVE  TermsInv' /\ Grows
<1> DEFINE s == [sock[p] EXCEPT !.pc = "upgraded", !.term = t]
<1>1. /\ PhoneTypes /\ notices \in Nat /\ left \in LoadTypes /\ SockInv /\ LockInv /\ SizeInv
      /\ sock \in [Phones -> Socks] /\ sock[p] \in Socks /\ InOrder(sock[p])
  BY DEF TermsInv, TTypeInv, PhoneTypes, SockInv
<1>2. /\ sock' = [sock EXCEPT ![p] = s] /\ sock[p].pc = "off" /\ Spend("dials")
      /\ UNCHANGED <<shared, typing, takeover, overlay, forcing, forced, server, notices>>
  BY DEF WsHandler, ToSock, NoSock
<1>3. s \in Socks /\ InOrder(s) /\ s.pc = "upgraded" /\ s.term = t
  <2>1. /\ s \in Socks /\ s.pc = "upgraded" /\ s.term = t
        /\ s.shown = sock[p].shown /\ s.last = sock[p].last
    BY <1>1 DEF Socks
  <2> HIDE DEF s
  <2> QED
    BY <1>1, <2>1, SockGoes
<1> HIDE DEF s
<1>4. left' \in LoadTypes
  BY <1>1, <1>2, SpendTyped
<1>5. \A r \in Phones : sock'[r] = IF r = p THEN s ELSE sock[r]
  BY <1>1, <1>2
<1>6. PhoneTypes' /\ SockInv'
  BY <1>1, <1>2, <1>3, <1>5 DEF PhoneTypes, SockInv
<1>7. LockInv'
  BY <1>1, <1>2, <1>3, <1>5 DEF LockInv, Driving
<1>8. \A u \in Terms : Restoring(u)' <=> Restoring(u)
  BY <1>2, <1>3, <1>5 DEF Restoring
<1>9. QuietSizeIsDesktops'
  BY <1>1, <1>2, <1>8 DEF SizeInv, QuietSizeIsDesktops, Live, shared
<1> QED
  BY <1>1, <1>2, <1>4, <1>6, <1>7, <1>9, TermsStand DEF TermsInv, TTypeInv, SizeInv

\* A phone takes its terminal over, or finds it taken or gone.
LEMMA TakeoverStep ==
  ASSUME TermsInv, NEW p \in Phones, AcquireTakeover(p)
  PROVE  TermsInv' /\ Grows
<1> DEFINE t == sock[p].term
           busy == ~Live(t) \/ t \in takeover
           q == IF busy THEN "closed" ELSE "attach"
           s == [sock[p] EXCEPT !.pc = q]
<1>1. /\ PhoneTypes /\ notices \in Nat /\ left \in LoadTypes /\ SockInv /\ LockInv /\ SizeInv
      /\ sock \in [Phones -> Socks] /\ sock[p] \in Socks /\ InOrder(sock[p]) /\ sock[p].pc = "upgraded" /\ t \in Terms
  BY DEF TermsInv, TTypeInv, PhoneTypes, SockInv, AcquireTakeover, At
<1>2. /\ sock' = [sock EXCEPT ![p] = s]
      /\ takeover' = IF busy THEN takeover ELSE takeover \cup {t}
      /\ overlay' = IF busy THEN overlay ELSE t
      /\ UNCHANGED <<shared, typing, forcing, forced, server, notices, left>>
  BY DEF AcquireTakeover, ToSock
<1>3. /\ q \in {"closed", "attach"} /\ takeover \subseteq takeover' /\ takeover' \in SUBSET Terms
      /\ q = "attach" => t \in takeover' /\ t \notin takeover
  BY <1>1, <1>2 DEF PhoneTypes
<1> HIDE DEF q
<1>4. s \in Socks /\ InOrder(s) /\ s.pc = q /\ s.term = t
  <2>1. /\ s \in Socks /\ s.pc = q /\ s.term = sock[p].term
        /\ s.shown = sock[p].shown /\ s.last = sock[p].last
    BY <1>1, <1>3 DEF Socks
  <2> HIDE DEF s
  <2> QED
    BY <1>1, <2>1, SockGoes
<1> HIDE DEF s
<1>5. \A r \in Phones : sock'[r] = IF r = p THEN s ELSE sock[r]
  BY <1>1, <1>2
<1>6. PhoneTypes' /\ SockInv'
  BY <1>1, <1>2, <1>3, <1>4, <1>5 DEF PhoneTypes, SockInv
<1> HIDE DEF busy, t
<1>7. LockInv'
  <2> SUFFICES ASSUME ~forced
               PROVE  /\ \A a \in Phones : sock'[a].pc \in Driving => sock'[a].term \in takeover'
                      /\ \A a, b \in Phones : a # b /\ sock'[a].pc \in Driving /\ sock'[b].pc \in Driving
                                                => sock'[a].term # sock'[b].term
    BY <1>1, <1>2 DEF LockInv
  <2>1. /\ \A a \in Phones : sock[a].pc \in Driving => sock[a].term \in takeover
        /\ \A a, b \in Phones : a # b /\ sock[a].pc \in Driving /\ sock[b].pc \in Driving
                                  => sock[a].term # sock[b].term
    BY <1>1 DEF LockInv
  <2>2. s.pc \in Driving => q = "attach"
    BY <1>3, <1>4 DEF Driving
  <2> QED
    BY <1>3, <1>4, <1>5, <2>1, <2>2
<1>8. \A u \in Terms : Restoring(u)' <=> Restoring(u)
  BY <1>1, <1>2, <1>3, <1>4, <1>5 DEF Restoring
<1>9. QuietSizeIsDesktops'
  BY <1>1, <1>2, <1>3, <1>8 DEF SizeInv, QuietSizeIsDesktops, Live, shared
<1> QED
  BY <1>1, <1>2, <1>6, <1>7, <1>9, TermsStand DEF TermsInv, TTypeInv, SizeInv

\* A phone gives its terminal back: the lock first, then the size.
LEMMA ReleaseStep ==
  ASSUME TermsInv, NEW p \in Phones, ReleaseTakeover(p)
  PROVE  TermsInv' /\ Grows
<1>0. PICK t \in Terms : t = sock[p].term
  BY DEF TermsInv, TTypeInv, PhoneTypes, ReleaseTakeover, At
<1> DEFINE q == IF t \in takeover THEN "restore" ELSE "closed"
           s == [sock[p] EXCEPT !.pc = q, !.queue = << >>]
<1>1. /\ PhoneTypes /\ notices \in Nat /\ left \in LoadTypes /\ SockInv /\ LockInv /\ SizeInv
      /\ sock \in [Phones -> Socks] /\ sock[p] \in Socks /\ InOrder(sock[p]) /\ sock[p].pc = "lost"
  BY DEF TermsInv, TTypeInv, PhoneTypes, SockInv, ReleaseTakeover, At
<1>2. /\ sock' = [sock EXCEPT ![p] = s] /\ takeover' = takeover \ {t}
      /\ UNCHANGED <<shared, typing, overlay, forcing, forced, server, notices, left>>
  BY <1>0 DEF ReleaseTakeover, ToSock, Unlock
<1>3. q \in {"restore", "closed"} /\ (t \in takeover => q = "restore")
  OBVIOUS
<1> HIDE DEF q
<1>4. s \in Socks /\ InOrder(s) /\ s.pc = q /\ s.term = t
  <2>0. << >> \in Seq(Chunks)
    BY EmptySeq
  <2>1. /\ s \in Socks /\ s.pc = q /\ s.term = t
        /\ s.shown = sock[p].shown /\ s.last = sock[p].last
    BY <1>0, <1>1, <1>3, <2>0 DEF Socks
  <2> HIDE DEF s
  <2> QED
    BY <1>1, <2>1, SockGoes
<1> HIDE DEF s
<1>5. \A r \in Phones : sock'[r] = IF r = p THEN s ELSE sock[r]
  BY <1>1, <1>2
<1>6. PhoneTypes' /\ SockInv'
  BY <1>1, <1>2, <1>4, <1>5 DEF PhoneTypes, SockInv
<1>7. LockInv'
  <2> SUFFICES ASSUME ~forced
               PROVE  /\ \A a \in Phones : sock'[a].pc \in Driving => sock'[a].term \in takeover'
                      /\ \A a, b \in Phones : a # b /\ sock'[a].pc \in Driving /\ sock'[b].pc \in Driving
                                                => sock'[a].term # sock'[b].term
    BY <1>1, <1>2 DEF LockInv
  <2>1. /\ \A a \in Phones : sock[a].pc \in Driving => sock[a].term \in takeover
        /\ \A a, b \in Phones : a # b /\ sock[a].pc \in Driving /\ sock[b].pc \in Driving
                                  => sock[a].term # sock[b].term
    BY <1>1 DEF LockInv
  <2>2. s.pc \notin Driving /\ sock[p].pc \in Driving
    BY <1>1, <1>3, <1>4 DEF Driving
  <2> QED
    BY <1>0, <1>2, <1>4, <1>5, <2>1, <2>2
<1>8. \A u \in Terms : Restoring(u) => Restoring(u)'
  BY <1>1, <1>2, <1>5 DEF Restoring
<1>9. ~forced => Restoring(t)'
  <2>1. ~forced => t \in takeover
    BY <1>0, <1>1 DEF LockInv, Driving
  <2> QED
    BY <1>3, <1>4, <1>5, <2>1 DEF Restoring
<1>10. QuietSizeIsDesktops'
  <2> SUFFICES ASSUME NEW u \in Terms, Live(u)', ~forced', u \notin takeover', ~Restoring(u)'
               PROVE  term'[u].size = term'[u].desktop
    BY DEF QuietSizeIsDesktops
  <2>1. u # t
    BY <1>2, <1>9
  <2>2. Live(u) /\ ~forced /\ u \notin takeover /\ ~Restoring(u)
    BY <1>2, <1>8, <2>1 DEF Live, shared
  <2> QED
    BY <1>1, <1>2, <2>2 DEF SizeInv, QuietSizeIsDesktops, shared
<1> QED
  BY <1>1, <1>2, <1>6, <1>7, <1>10, TermsStand DEF TermsInv, TTypeInv, SizeInv

\* The release of a phone restores the desktop's size on the terminal it held.
LEMMA ReleaseEnds ==
  ASSUME TermsInv, NEW p \in Phones, ReleaseRestores(p)
  PROVE  TermsInv' /\ Grows
<1>0. PICK t \in Terms : t = sock[p].term
  BY DEF TermsInv, TTypeInv, PhoneTypes, ReleaseRestores, At
<1> DEFINE s == [sock[p] EXCEPT !.pc = "closed"]
<1>1. /\ ThreadTypes /\ PhoneTypes /\ notices \in Nat /\ left \in LoadTypes
      /\ SockInv /\ LockInv /\ SizeInv
      /\ sock \in [Phones -> Socks] /\ sock[p] \in Socks /\ InOrder(sock[p]) /\ sock[p].pc = "restore"
  BY DEF TermsInv, TTypeInv, PhoneTypes, SockInv, ReleaseRestores, At
<1>2. /\ sock' = [sock EXCEPT ![p] = s] /\ Restore(t)
      /\ UNCHANGED <<reader, beat, dot, typing, takeover, forcing, forced, server, notices, left>>
  BY <1>0 DEF ReleaseRestores, ToSock
<1>3. s \in Socks /\ InOrder(s) /\ s.pc = "closed" /\ s.term = t
  <2>1. /\ s \in Socks /\ s.pc = "closed" /\ s.term = t
        /\ s.shown = sock[p].shown /\ s.last = sock[p].last
    BY <1>0, <1>1 DEF Socks
  <2> HIDE DEF s
  <2> QED
    BY <1>1, <2>1, SockGoes
<1> HIDE DEF s
<1>4. \A r \in Phones : sock'[r] = IF r = p THEN s ELSE sock[r]
  BY <1>1, <1>2
<1>5. /\ term' \in [Terms -> TermRecs] /\ overlay' \in Terms \cup {None}
      /\ \A u \in Terms : \/ term'[u] = term[u]
                          \/ /\ term'[u].st = term[u].st /\ term'[u].screen = term[u].screen
                             /\ term'[u].size = term'[u].desktop
      /\ term'[t].st = "live" => term'[t].size = term'[t].desktop
  BY <1>1, <1>2, RestoreTyped
<1>6. ThreadTypes' /\ PhoneTypes' /\ SockInv'
  BY <1>1, <1>2, <1>3, <1>4, <1>5 DEF ThreadTypes, PhoneTypes, SockInv
<1>7. LockInv'
  <2>1. s.pc \notin Driving
    BY <1>3 DEF Driving
  <2> QED
    BY <1>1, <1>2, <1>4, <2>1 DEF LockInv
<1>8. \A u \in Terms : Restoring(u) => u = t \/ Restoring(u)'
  BY <1>0, <1>2, <1>4 DEF Restoring
<1>9. QuietSizeIsDesktops'
  <2> SUFFICES ASSUME NEW u \in Terms, Live(u)', ~forced', u \notin takeover', ~Restoring(u)'
               PROVE  term'[u].size = term'[u].desktop
    BY DEF QuietSizeIsDesktops
  <2>1. CASE u = t
    BY <1>5, <2>1 DEF Live
  <2>2. CASE u # t /\ term'[u] = term[u]
    BY <1>1, <1>2, <1>8, <2>2 DEF SizeInv, QuietSizeIsDesktops, Live
  <2> QED
    BY <1>5, <2>1, <2>2
<1>10. \A u \in Terms : term'[u].st \in {"unborn", "starting"} => term'[u].size = term'[u].desktop
  BY <1>1, <1>5 DEF SizeInv
<1>11. Grows
  <2>1. \A u \in Terms : term[u].screen \in Nat /\ term[u].screen <= term[u].screen
    BY <1>1 DEF ThreadTypes, TermRecs
  <2> QED
    BY <1>5, <2>1 DEF Grows
<1> QED
  BY <1>1, <1>2, <1>6, <1>7, <1>9, <1>10, <1>11 DEF TermsInv, TTypeInv, SizeInv

------------------------------------------------------------------------------
(* The terminals as a whole. *)

\* At the start there is no terminal and no phone.
LEMMA TermsInit == TInit => TermsInv
<1> SUFFICES ASSUME TInit
             PROVE  TermsInv
  OBVIOUS
<1>1. IdleState \in States /\ NewSniffer \in Sniffers /\ << >> \in Seq(Nat) /\ << >> \in Seq(Chunks)
  BY IdleTyped, EmptySeq
<1>2. left \in LoadTypes
  BY TerminalAssumption DEF TInit, TerminalAssumption
<1>3. term \in [Terms -> TermRecs]
  BY <1>1 DEF TInit, TermRecs, Places, Kinds, DeskSizes
<1>4. reader \in [Terms -> Readers] /\ \A t \in Terms : reader[t].pc = "off"
  BY <1>1 DEF TInit, NoReader, Readers
<1>5. beat \in [Terms -> Beats] /\ dot \in States
  BY <1>1 DEF TInit, Beats
<1>6. NoSock \in Socks /\ InOrder(NoSock)
  <2>1. NoSock \in Socks
    BY <1>1 DEF NoSock, Socks
  <2>2. DOMAIN NoSock.shown = {}
    BY DEF NoSock
  <2> QED
    BY <2>1, <2>2 DEF InOrder
<1>7. \A p \in Phones : sock[p] = NoSock /\ sock[p].pc = "off"
  BY DEF TInit, NoSock
<1>8. ThreadTypes
  BY <1>3, <1>4, <1>5 DEF ThreadTypes
<1>9. PhoneTypes
  BY <1>6, <1>7 DEF TInit, PhoneTypes
<1>10. SockInv /\ LockInv
  BY <1>6, <1>7 DEF TInit, SockInv, LockInv, Driving
<1>11. SizeInv
  BY DEF TInit, SizeInv, QuietSizeIsDesktops, Live
<1>12. notices \in Nat
  BY DEF TInit
<1> QED
  BY <1>2, <1>8, <1>9, <1>10, <1>11, <1>12 DEF TermsInv, TTypeInv

\* Every step of terminals and phones keeps the invariant, and screens only grow.
LEMMA TermsNext ==
  ASSUME TermsInv, TNext
  PROVE  TermsInv' /\ Grows
<1>1. TTypeInv
  BY DEF TermsInv
<1>2. ASSUME TTypeInv' /\ Plain
      PROVE  TermsInv' /\ Grows
  BY <1>2, PlainKeeps
<1>3. ASSUME NEW t \in Terms, Threads(t)
      PROVE  TermsInv' /\ Grows
  <2>1. CASE Insert(t)
    BY <2>1, InsertStep
  <2>2. CASE Publish(t)
    BY <1>1, <1>2, <2>2, PublishStep
  <2>3. CASE Feed(t)
    BY <1>1, <1>2, <2>3, FeedStep
  <2>4. CASE ReaderEmits(t) \/ ReadEof(t) \/ FinalSnapshot(t)
    BY <1>1, <1>2, <2>4, ReaderTells
  <2> QED
    BY <1>3, <2>1, <2>2, <2>3, <2>4 DEF Threads
<1>4. ASSUME NEW t \in Terms, Ticks(t)
      PROVE  TermsInv' /\ Grows
  BY <1>1, <1>2, <1>4, TickSteps
<1>5. ASSUME NEW p \in Phones, Socket(p)
      PROVE  TermsInv' /\ Grows
  BY <1>5, TakeoverStep, MirrorSteps, ReleaseStep, ReleaseEnds DEF Socket
<1>6. ASSUME Surroundings
      PROVE  TermsInv' /\ Grows
  <2>1. left.kinds \subseteq Kinds /\ left.lines \subseteq Lines /\ left.titles \subseteq Titles
    BY <1>1 DEF TTypeInv, LoadTypes
  <2>2. CASE Spawns
    BY <2>1, <2>2, SpawnStep DEF Spawns
  <2>3. CASE \/ \E t \in Terms : ChildExits(t) \/ Write(t)
             \/ \E data \in Keys : WriteLands(data)
             \/ \E p \in Phones, data \in Keys : WriteMobile(p, data)
             \/ MobileToggle
    BY <1>1, <1>2, <2>3, PlainSurroundings
  <2>4. CASE \E t \in Terms, line \in left.lines : ReadChunk(t, line, None)
    BY <1>1, <1>2, <2>1, <2>4, ReadStep
  <2>5. CASE \E t \in Terms, title \in left.titles : ReadChunk(t, "chrome", title)
    BY <1>1, <1>2, <2>1, <2>5, ReadStep DEF Lines
  <2>6. CASE (\E t \in Terms : Kill(t)) \/ KillForSession
    <3>1. \A t \in Terms : {t} \in SUBSET Terms
      OBVIOUS
    <3>2. {t \in Terms : Live(t)} \in SUBSET Terms
      OBVIOUS
    <3> QED
      BY <2>6, <3>1, <3>2, KillStep DEF Kill, KillForSession
  <2>7. CASE (\E t \in Terms : ForceRelease(t)) \/ ForceRestores
    BY <2>7, ForceSteps
  <2>8. CASE \/ \E t \in Terms, size \in {"desk", "desk2"} : Resize(t, size)
             \/ \E p \in Phones : ResizeMobile(p)
    BY <2>8, ResizeStep DEF DeskSizes
  <2>9. CASE \E p \in Phones, t \in Terms : WsHandler(p, t)
    BY <2>9, DialStep
  <2>10. CASE \E p \in Phones : PhoneLeaves(p)
    BY <2>10, MirrorSteps
  <2> QED
    BY <1>6, <2>2, <2>3, <2>4, <2>5, <2>6, <2>7, <2>8, <2>9, <2>10 DEF Surroundings
<1> QED
  BY <1>3, <1>4, <1>5, <1>6 DEF TNext

------------------------------------------------------------------------------
(* The pilots. *)

\* What a watchdog asked about a terminal that reads l: ever later paintings, none later than
\* the one it shows, which reads as it did when the watchdog asked about it; once the terminal
\* is gone, at most one blank screen after them.
AskedOf(s, x, l) ==
  /\ x.st \in {"live", "gone"}
  /\ \A i, j \in DOMAIN s :
       i < j => s[i].screen < s[j].screen \/ (x.st = "gone" /\ j = Len(s) /\ s[j].screen = 0)
  /\ x.st = "live" => \A i \in DOMAIN s : s[i].screen <= x.screen
  /\ x.st = "live" => \A i \in DOMAIN s : s[i].screen = x.screen => s[i].look = l
  /\ \A i \in DOMAIN s : s[i].screen = 0 => s[i].look = 0

AskInv ==
  \A e \in Pilots : IF dog[e].pc = "off" THEN dog[e].asked = << >>
                    ELSE AskedOf(dog[e].asked, term[dog[e].term], look[dog[e].term])

\* A terminal on which nothing was painted is blank.
LookInv == look \in [Terms -> Nat] /\ \A t \in Terms : term[t].screen = 0 => look[t] = 0

\* A terminal on which nothing is painted reads as before.
LookKept == \A t \in Terms : term'[t].screen = term[t].screen => look'[t] = look[t]

PilotInv == PilotTypes /\ AskInv /\ LookInv

\* What a chunk paints reads like some painting; other steps leave the screen as it reads.
LEMMA LookGoes ==
  ASSUME TermsInv, TermsInv', PilotInv, Repaints \/ (Grows /\ UNCHANGED look)
  PROVE  LookInv' /\ LookKept
<1>1. /\ look \in [Terms -> Nat] /\ \A t \in Terms : term[t].screen = 0 => look[t] = 0
      /\ \A t \in Terms : term[t].screen \in Nat /\ term'[t].screen \in Nat
      /\ \A n \in left.repeats \cup {0} : n \in Nat
  BY DEF PilotInv, LookInv, TermsInv, TTypeInv, ThreadTypes, TermRecs, LoadTypes
<1>2. CASE Grows /\ UNCHANGED look
  <2>1. \A t \in Terms : term'[t].screen = 0 => term[t].screen = 0
    BY <1>1, <1>2 DEF Grows
  <2> QED
    BY <1>1, <1>2, <2>1 DEF LookInv, LookKept
<1>3. CASE Repaints
  <2>1. PICK ago \in left.repeats \cup {0} :
          look' = [t \in Terms |-> LET n == term'[t].screen IN
                     IF n = term[t].screen THEN look[t] ELSE IF ago < n THEN n - ago ELSE n]
    BY <1>3 DEF Repaints
  <2>2. ago \in Nat
    BY <1>1, <2>1
  <2>3. \A t \in Terms : look'[t] = LET n == term'[t].screen IN
                     IF n = term[t].screen THEN look[t] ELSE IF ago < n THEN n - ago ELSE n
    BY <2>1
  <2>4. \A n \in Nat : ago < n => n - ago \in Nat
    BY <2>2
  <2>5. ASSUME NEW t \in Terms
        PROVE  look'[t] \in Nat /\ (term'[t].screen = 0 => look'[t] = 0)
               /\ (term'[t].screen = term[t].screen => look'[t] = look[t])
    <3>1. CASE term'[t].screen = term[t].screen
      BY <1>1, <2>3, <3>1
    <3>2. CASE term'[t].screen # term[t].screen
      <4> DEFINE n == term'[t].screen
      <4>1. n \in Nat /\ look'[t] = IF ago < n THEN n - ago ELSE n
        BY <1>1, <2>3, <3>2
      <4>2. look'[t] \in Nat /\ (n = 0 => look'[t] = 0)
        <5> HIDE DEF n
        <5> QED
          BY <2>2, <4>1
      <4> QED
        BY <3>2, <4>2
    <3> QED
      BY <3>1, <3>2
  <2>6. look' \in [Terms -> Nat]
    BY <2>1, <2>5
  <2> QED
    BY <2>5, <2>6 DEF LookInv, LookKept
<1> QED
  BY <1>2, <1>3

\* What a pilot has answered stays behind the screen as the screen grows.
LEMMA AskedGrows ==
  ASSUME TermsInv, TermsInv', Grows, LookKept, NEW t \in Terms, NEW s \in Seq(Tails),
         AskedOf(s, term[t], look[t])
  PROVE  AskedOf(s, term'[t], look'[t])
<1> DEFINE m == term[t].screen
           n == term'[t].screen
<1>1. m \in Nat /\ n \in Nat /\ m <= n
  BY DEF TermsInv, TTypeInv, ThreadTypes, TermRecs, Grows
<1>2. \A i \in DOMAIN s : s[i].screen \in Nat
  <2>1. \A i \in DOMAIN s : s[i] \in Tails
    BY LenProperties, ElementOfSeq
  <2> QED
    BY <2>1 DEF Tails
<1>3. term'[t].st \in {term[t].st, "gone"} /\ term[t].st \in {"live", "gone"}
  BY DEF Grows, AskedOf
<1>4. term[t].st = "live" => \A i \in DOMAIN s : s[i].screen <= m /\ (s[i].screen = m => s[i].look = look[t])
  BY DEF AskedOf
<1>5. /\ \A i, j \in DOMAIN s :
           i < j => s[i].screen < s[j].screen \/ (term[t].st = "gone" /\ j = Len(s) /\ s[j].screen = 0)
      /\ \A i \in DOMAIN s : s[i].screen = 0 => s[i].look = 0
  BY DEF AskedOf
<1>6. m = n => look'[t] = look[t]
  BY DEF LookKept
<1>7. ASSUME term[t].st = "live", NEW i \in DOMAIN s
      PROVE  s[i].screen <= n /\ (s[i].screen = n => s[i].look = look'[t])
  <2>1. s[i].screen <= m /\ s[i].screen \in Nat /\ (s[i].screen = m => s[i].look = look[t])
    BY <1>2, <1>4, <1>7
  <2> HIDE DEF m, n
  <2>2. s[i].screen <= n
    BY <1>1, <2>1
  <2>3. s[i].screen = n => m = n
    BY <1>1, <2>1
  <2> QED
    BY <1>6, <2>1, <2>2, <2>3
<1> QED
  BY <1>3, <1>5, <1>7 DEF AskedOf

\* The screen it asks about next reads otherwise than the last one, so it is a later painting.
LEMMA AskedMore ==
  ASSUME NEW x \in TermRecs, NEW l \in Nat, NEW s \in Seq(Tails), AskedOf(s, x, l), NEW r \in Tails,
         r.screen = IF x.st = "live" THEN x.screen ELSE 0, r.look = IF x.st = "live" THEN l ELSE 0,
         x.screen = 0 => l = 0,
         s = << >> \/ Last(s).look # r.look
  PROVE  AskedOf(Append(s, r), x, l) /\ Append(s, r) \in Seq(Tails)
<1> DEFINE a == Append(s, r)
           len == Len(s)
           n == r.screen
<1>1. /\ a \in Seq(Tails) /\ len \in Nat /\ Len(a) = len + 1 /\ DOMAIN a = 1..len + 1
      /\ DOMAIN s = 1..len /\ \A i \in 1..len : a[i] = s[i] /\ s[i] \in Tails
      /\ a[len + 1] = r /\ (len = 0 \/ s[len].look # r.look)
  <2>1. len \in Nat /\ DOMAIN s = 1..len /\ \A i \in 1..len : s[i] \in Tails
    BY LenProperties, ElementOfSeq
  <2>2. a \in Seq(Tails) /\ Len(a) = len + 1 /\ a[len + 1] = r /\ \A i \in 1..len : a[i] = s[i]
    BY <2>1, AppendProperties
  <2>3. DOMAIN a = 1..len + 1
    BY <2>1, <2>2, LenProperties
  <2>4. len = 0 \/ s[len].look # r.look
    <3>1. CASE s = << >>
      BY <3>1
    <3>2. CASE Last(s).look # r.look
      BY <3>2 DEF Last
    <3> QED
      BY <3>1, <3>2
  <2> QED
    BY <2>1, <2>2, <2>3, <2>4
<1> HIDE DEF a
<1>2. /\ x.st \in {"live", "gone"} /\ x.screen \in Nat /\ n \in Nat
      /\ \A i, j \in 1..len : i < j => s[i].screen < s[j].screen \/ (x.st = "gone" /\ j = len /\ s[j].screen = 0)
      /\ x.st = "live" => \A i \in 1..len : s[i].screen <= x.screen /\ (s[i].screen = x.screen => s[i].look = l)
      /\ \A i \in 1..len : s[i].screen \in Nat /\ (s[i].screen = 0 => s[i].look = 0)
      /\ (x.st = "live" => n = x.screen /\ r.look = l) /\ (x.st = "gone" => n = 0 /\ r.look = 0)
  BY <1>1 DEF AskedOf, TermRecs, Tails
<1> HIDE DEF len
<1>7. len = 0 \/ (len \in 1..len /\ s[len].screen # n)
  <2> SUFFICES ASSUME len # 0
               PROVE  len \in 1..len /\ s[len].screen # n
    OBVIOUS
  <2>1. len \in 1..len /\ s[len].look # r.look
    BY <1>1
  <2>2. CASE x.st = "live"
    BY <1>2, <2>1, <2>2
  <2>3. CASE x.st = "gone"
    BY <1>2, <2>1, <2>3
  <2> QED
    BY <1>2, <2>2, <2>3
<1> DEFINE p == [i \in 1..len |-> s[i].screen]
<1>8. \A i \in 1..len : p[i] = s[i].screen /\ p[i] \in Nat
  BY <1>2
<1>9. n \in Nat
  BY <1>2
<1> HIDE DEF p, n
<1>3. ASSUME NEW i \in 1..len
      PROVE  s[i].screen < n \/ (x.st = "gone" /\ n = 0)
  <2>1. CASE x.st = "gone"
    BY <1>2, <2>1
  <2>2. CASE x.st = "live"
    <3>5. n = x.screen /\ len \in 1..len /\ p[len] = s[len].screen /\ p[len] \in Nat /\ p[i] \in Nat
      BY <1>1, <1>2, <1>7, <1>8, <2>2
    <3>6. s[len].screen <= x.screen /\ s[len].screen # n
      BY <1>1, <1>2, <1>7, <2>2, <3>5
    <3>7. p[len] <= n /\ p[len] # n
      <4>1. x.screen = n /\ s[len].screen = p[len]
        BY <3>5
      <4> QED
        BY <3>6, <4>1, Zenon
    <3>1. n = x.screen /\ len \in 1..len /\ p[len] <= n /\ p[len] # n /\ p[len] \in Nat /\ p[i] \in Nat
      BY <3>5, <3>7
    <3>2. p[len] < n
      BY <1>9, <3>1
    <3>3. i = len \/ p[i] < p[len]
      <4> SUFFICES ASSUME i # len
                   PROVE  p[i] < p[len]
        OBVIOUS
      <4>1. i < len
        BY <1>1
      <4>2. s[i].screen < s[len].screen
        BY <1>2, <2>2, <3>1, <4>1
      <4>3. p[i] = s[i].screen /\ p[len] = s[len].screen
        BY <1>8, <3>1
      <4> QED
        BY <4>2, <4>3, Zenon
    <3>4. p[i] < n
      BY <1>9, <3>1, <3>2, <3>3
    <3> QED
      BY <1>8, <3>4
  <2> QED
    BY <1>2, <2>1, <2>2
<1>4. ASSUME NEW i \in 1..len, NEW j \in 1..len, i < j
      PROVE  s[i].screen < s[j].screen
  <2>1. CASE s[i].screen < s[j].screen
    BY <2>1
  <2>2. CASE x.st = "gone" /\ j = len /\ s[j].screen = 0
    <3>1. n = 0 /\ s[len].screen # n
      BY <1>1, <1>2, <1>7, <2>2
    <3> QED
      BY <2>2, <3>1
  <2> QED
    BY <1>2, <1>4, <2>1, <2>2
<1>5. ASSUME NEW i \in 1..len + 1, NEW j \in 1..len + 1, i < j
      PROVE  a[i].screen < a[j].screen \/ (x.st = "gone" /\ j = len + 1 /\ a[j].screen = 0)
  <2>1. i \in 1..len /\ (j \in 1..len \/ j = len + 1)
    BY <1>1, <1>5
  <2>2. CASE j \in 1..len
    BY <1>1, <1>4, <1>5, <2>1, <2>2
  <2>3. CASE j = len + 1
    <3>1. a[j].screen = n /\ a[i] = s[i]
      BY <1>1, <2>1, <2>3 DEF n
    <3> QED
      BY <1>3, <2>1, <2>3, <3>1
  <2> QED
    BY <2>1, <2>2, <2>3
<1>6. ASSUME NEW i \in 1..len + 1
      PROVE  /\ x.st = "live" => a[i].screen <= x.screen /\ (a[i].screen = x.screen => a[i].look = l)
             /\ a[i].screen = 0 => a[i].look = 0
  <2>1. i \in 1..len \/ i = len + 1
    BY <1>1
  <2>2. CASE i \in 1..len
    BY <1>1, <1>2, <2>2
  <2>3. CASE i = len + 1
    <3>1. a[i] = r /\ a[i].screen = n
      BY <1>1, <2>3 DEF n
    <3>2. n <= n
      BY <1>2
    <3> QED
      BY <1>2, <3>1, <3>2
  <2> QED
    BY <2>1, <2>2, <2>3
<1> QED
  BY <1>1, <1>2, <1>5, <1>6 DEF AskedOf, a

\* The terminals stand still, but for the notices and what is left to do.
LEMMA TermsStill ==
  ASSUME TermsInv, UNCHANGED <<shared, typing, mobile>>, notices' \in Nat, left' \in LoadTypes
  PROVE  TermsInv' /\ Grows
<1>1. TTypeInv
  BY DEF TermsInv
<1>2. UNCHANGED <<term, reader, beat, dot>>
  BY DEF shared
<1>3. Plain
  BY <1>1, <1>2, NoTerm
<1>4. ThreadTypes'
  BY <1>1, <1>2 DEF TTypeInv, ThreadTypes
<1>5. PhoneTypes'
  BY <1>1, PhonesStand
<1> QED
  BY <1>3, <1>4, <1>5, PlainKeeps DEF TTypeInv

\* The pilot types, unless a phone holds the terminal.
LEMMA PilotPresses ==
  ASSUME TermsInv, NEW t \in Terms, PilotWrites(t),
         UNCHANGED <<reader, beat, dot, typing, mobile, notices, left>>
  PROVE  TermsInv' /\ Grows
<1>1. TTypeInv
  BY DEF TermsInv
<1>2. "\r" \in Keys
  BY DEF Keys
<1>3. term' \in [Terms -> TermRecs] /\ Plain
  <2>1. CASE t \in takeover
    BY <1>1, <2>1, NoTerm DEF PilotWrites
  <2>2. CASE t \notin takeover
    BY <1>1, <1>2, <2>2, WriteTyped DEF PilotWrites
  <2> QED
    BY <2>1, <2>2
<1>4. PhoneTypes'
  BY <1>1, PhonesStand
<1>5. TTypeInv'
  BY <1>1, <1>3, <1>4 DEF TTypeInv, ThreadTypes
<1> QED
  BY <1>3, <1>5, PlainKeeps

\* The watchdogs stand still.
LEMMA DogsStand ==
  ASSUME TermsInv, PilotInv, TermsInv', Grows, LookInv', LookKept, UNCHANGED dog,
         engaged' \in Pilots \cup {None}, runner' \in BOOLEAN
  PROVE  PilotInv'
<1>1. PilotTypes /\ AskInv
  BY DEF PilotInv
<1>2. PilotTypes'
  BY <1>1 DEF PilotTypes
<1>3. AskInv'
  <2> SUFFICES ASSUME NEW e \in Pilots
               PROVE  IF dog[e].pc = "off" THEN dog[e].asked = << >>
                      ELSE AskedOf(dog[e].asked, term'[dog[e].term], look'[dog[e].term])
    BY DEF AskInv
  <2>1. CASE dog[e].pc = "off"
    BY <1>1, <2>1 DEF AskInv
  <2>2. CASE dog[e].pc # "off"
    <3>1. dog[e].term \in Terms /\ dog[e].asked \in Seq(Tails)
          /\ AskedOf(dog[e].asked, term[dog[e].term], look[dog[e].term])
      BY <1>1, <2>2 DEF AskInv, PilotTypes, Dogs
    <3> QED
      BY <2>2, <3>1, AskedGrows
  <2> QED
    BY <2>1, <2>2
<1> QED
  BY <1>2, <1>3 DEF PilotInv

\* One watchdog moves; what it asked, or asks now, is in order.
LEMMA DogMoves ==
  ASSUME TermsInv, PilotInv, TermsInv', Grows, LookInv', LookKept, NEW e \in Pilots, NEW y \in Dogs,
         dog' = [dog EXCEPT ![e] = y], y.term \in Terms, y.pc # "off",
         AskedOf(y.asked, term[y.term], look[y.term]),
         engaged' \in Pilots \cup {None}, runner' \in BOOLEAN
  PROVE  PilotInv'
<1>1. PilotTypes /\ AskInv /\ dog \in [Pilots -> Dogs]
  BY DEF PilotInv, PilotTypes
<1>2. \A f \in Pilots : dog'[f] = IF f = e THEN y ELSE dog[f]
  BY <1>1
<1>3. dog' \in [Pilots -> Dogs]
  BY <1>1
<1>4. PilotTypes'
  BY <1>1, <1>2, <1>3 DEF PilotTypes
<1>5. AskInv'
  <2> SUFFICES ASSUME NEW f \in Pilots
               PROVE  IF dog'[f].pc = "off" THEN dog'[f].asked = << >>
                      ELSE AskedOf(dog'[f].asked, term'[dog'[f].term], look'[dog'[f].term])
    BY DEF AskInv
  <2>1. CASE f = e
    <3>1. y.asked \in Seq(Tails)
      BY DEF Dogs
    <3>2. AskedOf(y.asked, term'[y.term], look'[y.term])
      BY <3>1, AskedGrows
    <3> QED
      BY <1>2, <2>1, <3>2
  <2>2. CASE f # e /\ dog[f].pc = "off"
    BY <1>1, <1>2, <2>2 DEF AskInv
  <2>3. CASE f # e /\ dog[f].pc # "off"
    <3>1. dog[f].term \in Terms /\ dog[f].asked \in Seq(Tails)
          /\ AskedOf(dog[f].asked, term[dog[f].term], look[dog[f].term])
      BY <1>1, <2>3 DEF AskInv, PilotTypes, Dogs
    <3> QED
      BY <1>2, <2>3, <3>1, AskedGrows
  <2> QED
    BY <2>1, <2>2, <2>3
<1> QED
  BY <1>4, <1>5 DEF PilotInv

\* A watchdog moves and asks nothing.
LEMMA DogGoes ==
  ASSUME TermsInv, PilotInv, TermsInv', Grows, LookInv', LookKept, NEW e \in Pilots,
         dog[e].pc # "off", NEW y \in Dogs,
         y.term = dog[e].term, y.asked = dog[e].asked, y.pc # "off",
         dog' = [dog EXCEPT ![e] = y],
         engaged' \in Pilots \cup {None}, runner' \in BOOLEAN
  PROVE  PilotInv'
<1>1. y.term \in Terms /\ AskedOf(y.asked, term[y.term], look[y.term])
  BY DEF PilotInv, PilotTypes, AskInv
<1> QED
  BY <1>1, DogMoves

\* Steps of a watchdog that touch no terminal.
LEMMA QuietSteps ==
  ASSUME TermsInv, PilotInv, UNCHANGED look, NEW e \in Pilots,
         \/ Gone(e) \/ Settle(e) \/ StartTimeout(e) \/ Halt(e) \/ TypeKeys(e)
         \/ (\E decision \in Answers : Decide(e, decision))
         \/ (\E state \in SeenStates : Started(e, state))
  PROVE  TermsInv' /\ PilotInv'
<1> DEFINE d == dog[e]
<1>1. /\ d \in Dogs /\ d.pc # "off" /\ engaged \in Pilots \cup {None} /\ runner \in BOOLEAN
  BY DEF PilotInv, PilotTypes, Gone, Settle, StartTimeout, Halt, TypeKeys, Decide, Started, Pc
<1>2. UNCHANGED <<tvars, runner>> /\ engaged' \in Pilots \cup {None} /\ runner' \in BOOLEAN
  BY <1>1 DEF Gone, Settle, StartTimeout, Halt, TypeKeys, Decide, Started, Quiet
<1>3. TermsInv' /\ Grows /\ LookInv' /\ LookKept
  <2>1. TermsInv' /\ Grows
    BY <1>2, TermsStill DEF tvars, TermsInv, TTypeInv
  <2> QED
    BY <1>2, <2>1, LookGoes
<1>4. ASSUME NEW y \in Dogs, y.term = d.term, y.asked = d.asked, y.pc # "off",
             dog' = [dog EXCEPT ![e] = y]
      PROVE  TermsInv' /\ PilotInv'
  BY <1>1, <1>2, <1>3, <1>4, DogGoes
<1>5. ASSUME NEW q \in {"poll", "halt", "enter", "keys", "giveUp", "end"},
             dog' = [dog EXCEPT ![e] = [d EXCEPT !.pc = q]]
      PROVE  TermsInv' /\ PilotInv'
  <2> DEFINE y == [d EXCEPT !.pc = q]
  <2>1. y \in Dogs /\ y.term = d.term /\ y.asked = d.asked /\ y.pc # "off"
    BY <1>1 DEF Dogs
  <2>2. dog' = [dog EXCEPT ![e] = y]
    BY <1>5
  <2> HIDE DEF y
  <2> QED
    BY <1>4, <2>1, <2>2
<1>6. CASE Gone(e) \/ Halt(e) \/ TypeKeys(e)
  <2>1. PICK q \in {"poll", "enter", "end"} : dog' = [dog EXCEPT ![e] = [d EXCEPT !.pc = q]]
    BY <1>1, <1>6 DEF Gone, Halt, TypeKeys, ToDog
  <2> HIDE DEF d
  <2> QED
    BY <1>5, <2>1
<1>7. CASE Settle(e) \/ StartTimeout(e)
  <2>1. PICK y : dog' = [dog EXCEPT ![e] = y]
                 /\ (y = [d EXCEPT !.settled = TRUE] \/ y = [d EXCEPT !.late = TRUE])
    BY <1>7 DEF Settle, StartTimeout, ToDog
  <2>2. y \in Dogs /\ y.term = d.term /\ y.asked = d.asked /\ y.pc # "off"
    BY <1>1, <2>1 DEF Dogs
  <2> QED
    BY <1>4, <2>1, <2>2
<1>8. ASSUME NEW decision \in Answers, Decide(e, decision)
      PROVE  TermsInv' /\ PilotInv'
  <2> DEFINE act == PostDecision(d.ask, decision, d.turns)
             approves == act = "approve"
             turns == d.turns + Charged(d.ask, decision)
             q == IF act = "halt" THEN "halt" ELSE IF act = "approve" THEN "enter" ELSE "keys"
             y == [d EXCEPT !.approves = approves, !.turns = turns, !.pc = q]
  <2>1. dog' = [dog EXCEPT ![e] = y]
    BY <1>8 DEF Decide, ToDog
  <2>2. approves \in BOOLEAN /\ q \in {"halt", "enter", "keys"}
    OBVIOUS
  <2>3. turns \in Nat
    BY <1>1 DEF Dogs, Charged
  <2> HIDE DEF approves, turns, q, act
  <2>4. y \in Dogs /\ y.term = d.term /\ y.asked = d.asked /\ y.pc # "off"
    BY <1>1, <2>2, <2>3 DEF Dogs
  <2> HIDE DEF y
  <2> QED
    BY <1>4, <2>1, <2>4
<1>9. ASSUME NEW state \in SeenStates, Started(e, state)
      PROVE  TermsInv' /\ PilotInv'
  <2> DEFINE y == [d EXCEPT !.phase = "observe", !.stable = None, !.settled = FALSE]
  <2>1. dog' = [dog EXCEPT ![e] = y]
    BY <1>9 DEF Started, ToDog
  <2>2. y \in Dogs /\ y.term = d.term /\ y.asked = d.asked /\ y.pc # "off"
    BY <1>1 DEF Dogs
  <2> HIDE DEF y
  <2> QED
    BY <1>4, <2>1, <2>2
<1> QED
  BY <1>6, <1>7, <1>8, <1>9

\* The Enter of an answer, and the Enter sent again.
LEMMA EnterSteps ==
  ASSUME TermsInv, PilotInv, UNCHANGED look, NEW e \in Pilots,
         PressEnter(e) \/ (\E state \in SeenStates : Resend(e, state))
  PROVE  TermsInv' /\ PilotInv'
<1> DEFINE d == dog[e]
<1>1. /\ d \in Dogs /\ d.pc # "off" /\ d.term \in Terms
      /\ engaged \in Pilots \cup {None} /\ runner \in BOOLEAN
  BY DEF PilotInv, PilotTypes, PressEnter, Resend, Pc
<1>2. UNCHANGED <<reader, beat, dot, typing, mobile, notices, left, engaged, runner>>
  BY DEF PressEnter, Resend
<1>3. PilotWrites(d.term) \/ UNCHANGED term
  BY DEF PressEnter, Resend
<1>4. TermsInv' /\ Grows
  <2>1. CASE PilotWrites(d.term)
    BY <1>1, <1>2, <2>1, PilotPresses
  <2>2. CASE UNCHANGED term
    BY <1>2, <2>2, TermsStill DEF shared, TermsInv, TTypeInv
  <2> QED
    BY <1>3, <2>1, <2>2
<1>7. LookInv' /\ LookKept
  BY <1>4, LookGoes
<1>5. PICK y : dog' = [dog EXCEPT ![e] = y]
               /\ \/ y = [d EXCEPT !.pc = "poll", !.phase = "await", !.late = FALSE, !.retries = 0,
                                   !.approves = FALSE]
                  \/ y = [d EXCEPT !.pc = "giveUp"]
                  \/ y = [d EXCEPT !.retries = d.retries + 1, !.late = FALSE]
  <2>1. CASE PressEnter(e)
    BY <2>1 DEF PressEnter, ToDog
  <2>2. ASSUME NEW state \in SeenStates, Resend(e, state)
        PROVE  dog' = [dog EXCEPT ![e] = [d EXCEPT !.pc = "giveUp"]]
               \/ dog' = [dog EXCEPT ![e] = [d EXCEPT !.retries = d.retries + 1, !.late = FALSE]]
    BY <2>2 DEF Resend, ToDog
  <2> QED
    BY <2>1, <2>2
<1>6. y \in Dogs /\ y.term = d.term /\ y.asked = d.asked /\ y.pc # "off"
  <2>1. d.retries + 1 \in Nat
    BY <1>1 DEF Dogs
  <2> DEFINE retries == d.retries + 1
  <2>2. \/ y = [d EXCEPT !.pc = "poll", !.phase = "await", !.late = FALSE, !.retries = 0,
                        !.approves = FALSE]
        \/ y = [d EXCEPT !.pc = "giveUp"]
        \/ y = [d EXCEPT !.retries = retries, !.late = FALSE]
    BY <1>5
  <2>3. retries \in Nat
    BY <2>1
  <2> HIDE DEF d, retries
  <2>4. CASE y = [d EXCEPT !.pc = "poll", !.phase = "await", !.late = FALSE, !.retries = 0,
                           !.approves = FALSE]
    BY <1>1, <2>4 DEF Dogs
  <2>5. CASE y = [d EXCEPT !.pc = "giveUp"]
    BY <1>1, <2>5 DEF Dogs
  <2>6. CASE y = [d EXCEPT !.retries = retries, !.late = FALSE]
    BY <1>1, <2>3, <2>6 DEF Dogs
  <2> QED
    BY <2>2, <2>4, <2>5, <2>6
<1> QED
  BY <1>1, <1>2, <1>4, <1>5, <1>6, <1>7, DogGoes

\* A watchdog looks at the screen, and asks about it when it has held still.
LEMMA ObserveStep ==
  ASSUME TermsInv, PilotInv, UNCHANGED look, NEW e \in Pilots, NEW state \in SeenStates,
         Observe(e, state)
  PROVE  TermsInv' /\ PilotInv'
<1> DEFINE d == dog[e]
           fp == Fingerprint(d.term)
           tail == ScrollbackTail(d.term)
           ask == [kind |-> IF state.needsInput THEN "permission" ELSE "turnEnded",
                   danger |-> Live(d.term) /\ term[d.term].danger]
           asked == Append(d.asked, tail)
           q == IF PreCheck(ask, asked) = "halt" THEN "halt" ELSE "decide"
           a == [d EXCEPT !.stable = None, !.settled = FALSE]
           b == [d EXCEPT !.stable = fp, !.settled = FALSE]
           c == [d EXCEPT !.ask = ask, !.asked = asked, !.pc = q]
<1>1. /\ d \in Dogs /\ d.pc # "off" /\ d.term \in Terms /\ AskedOf(d.asked, term[d.term], look[d.term])
      /\ engaged \in Pilots \cup {None} /\ runner \in BOOLEAN /\ term[d.term] \in TermRecs
      /\ look[d.term] \in Nat /\ (term[d.term].screen = 0 => look[d.term] = 0)
  BY DEF LookInv, PilotInv, PilotTypes, AskInv, Observe, Pc, TermsInv, TTypeInv, ThreadTypes
<1>2. UNCHANGED <<tvars, engaged, runner>>
  BY DEF Observe, Quiet
<1>3. TermsInv' /\ Grows /\ LookInv' /\ LookKept
  <2>1. TermsInv' /\ Grows
    BY <1>2, TermsStill DEF tvars, TermsInv, TTypeInv
  <2> QED
    BY <1>2, <2>1, LookGoes
<1>4. \/ dog' = [dog EXCEPT ![e] = a] \/ dog' = [dog EXCEPT ![e] = b]
      \/ Ripe(e) /\ dog' = [dog EXCEPT ![e] = c]
  BY DEF Observe, ToDog
<1>5. /\ fp \in Nat /\ tail \in Tails /\ tail.look = fp
      /\ tail.screen = IF term[d.term].st = "live" THEN term[d.term].screen ELSE 0
      /\ tail.look = IF term[d.term].st = "live" THEN look[d.term] ELSE 0
  BY <1>1 DEF Fingerprint, ScrollbackTail, Live, TermRecs, Tails
<1>6. ask \in Asks
  <2>1. (Live(d.term) /\ term[d.term].danger) \in BOOLEAN
    OBVIOUS
  <2> QED
    BY <2>1 DEF Asks
<1>7. q \in {"halt", "decide"} /\ d.asked \in Seq(Tails)
  BY <1>1 DEF Dogs
<1>8. CASE dog' = [dog EXCEPT ![e] = a] \/ dog' = [dog EXCEPT ![e] = b]
  <2>1. PICK y \in {a, b} : dog' = [dog EXCEPT ![e] = y]
    BY <1>8
  <2> HIDE DEF fp
  <2>2. y \in Dogs /\ y.term = d.term /\ y.asked = d.asked /\ y.pc # "off"
    BY <1>1, <1>5 DEF Dogs
  <2> HIDE DEF a, b
  <2> QED
    BY <1>1, <1>2, <1>3, <2>1, <2>2, DogGoes
<1>9. CASE Ripe(e) /\ dog' = [dog EXCEPT ![e] = c]
  <2>1. d.asked = << >> \/ Last(d.asked).look # tail.look
    BY <1>5, <1>9 DEF Ripe, LastActed
  <2> HIDE DEF ask, q, tail
  <2>2. AskedOf(asked, term[d.term], look[d.term]) /\ asked \in Seq(Tails)
    BY <1>1, <1>5, <1>7, <2>1, AskedMore
  <2> HIDE DEF asked
  <2>3. c \in Dogs /\ c.term = d.term /\ c.asked = asked /\ c.pc # "off"
    BY <1>1, <1>6, <1>7, <2>2 DEF Dogs
  <2> HIDE DEF c
  <2> QED
    BY <1>1, <1>2, <1>3, <1>9, <2>2, <2>3, DogMoves
<1> QED
  BY <1>4, <1>8, <1>9

\* A pilot is engaged or disengaged, and a notice is passed on.
LEMMA ManagerSteps ==
  ASSUME TermsInv, PilotInv, UNCHANGED look, HandleRequest \/ RunTakes \/ RunPokes
  PROVE  TermsInv' /\ PilotInv'
<1>1. /\ notices \in Nat /\ left \in LoadTypes /\ engaged \in Pilots \cup {None} /\ runner \in BOOLEAN
  BY DEF TermsInv, TTypeInv, PilotInv, PilotTypes
<1>2. CASE Disengage
  <2>1. UNCHANGED <<shared, typing, mobile, notices, runner, dog>> /\ engaged' = None
        /\ left' \in LoadTypes
    BY <1>1, <1>2, SpendTyped DEF Disengage
  <2>2. TermsInv' /\ Grows
    BY <1>1, <2>1, TermsStill
  <2>3. LookInv' /\ LookKept
    BY <2>1, <2>2, LookGoes
  <2> QED
    BY <1>1, <2>1, <2>2, <2>3, DogsStand
<1>3. CASE RunTakes \/ RunPokes
  <2>1. UNCHANGED <<shared, typing, mobile, left, engaged, dog>> /\ runner' \in BOOLEAN
    BY <1>3 DEF RunTakes, RunPokes, tvars
  <2>2. notices' \in Nat
    <3>1. CASE RunTakes
      <4>1. notices > 0 /\ notices' = notices - 1
        BY <3>1 DEF RunTakes
      <4> QED
        BY <1>1, <4>1
    <3>2. CASE RunPokes
      BY <1>1, <3>2 DEF RunPokes, tvars
    <3> QED
      BY <1>3, <3>1, <3>2
  <2>3. TermsInv' /\ Grows
    BY <1>1, <2>1, <2>2, TermsStill
  <2>4. LookInv' /\ LookKept
    BY <2>1, <2>3, LookGoes
  <2> QED
    BY <1>1, <2>1, <2>3, <2>4, DogsStand
<1>4. ASSUME NEW e \in Pilots, NEW t \in Terms, Engage(e, t)
      PROVE  TermsInv' /\ PilotInv'
  <2> DEFINE y == [NoDog EXCEPT !.pc = "poll", !.term = t]
  <2>1. /\ UNCHANGED <<shared, typing, mobile, notices, runner>> /\ engaged' = e
        /\ dog[e] = NoDog /\ Live(t) /\ dog' = [dog EXCEPT ![e] = y] /\ left' \in LoadTypes
    BY <1>1, <1>4, SpendTyped DEF Engage, LiveClaude
  <2>2. NoDog \in Dogs
    BY <2>1 DEF PilotInv, PilotTypes
  <2>3. y \in Dogs /\ y.pc # "off" /\ y.term = t /\ y.asked = << >>
    BY <2>2 DEF Dogs, NoDog
  <2> HIDE DEF y
  <2>4. AskedOf(y.asked, term[t], look[t])
    <3>1. DOMAIN y.asked = {}
      BY <2>3
    <3> QED
      BY <2>1, <3>1 DEF AskedOf, Live
  <2>5. TermsInv' /\ Grows
    BY <1>1, <2>1, TermsStill
  <2>6. LookInv' /\ LookKept
    BY <2>1, <2>5, LookGoes
  <2> QED
    BY <1>1, <2>1, <2>3, <2>4, <2>5, <2>6, DogMoves
<1> QED
  BY <1>2, <1>3, <1>4 DEF HandleRequest

------------------------------------------------------------------------------
(* The system. *)

\* At the start nobody is engaged.
LEMMA SystemInit == Init => TermsInv /\ PilotInv
<1> SUFFICES ASSUME Init
             PROVE  TermsInv /\ PilotInv
  OBVIOUS
<1>1. TermsInv
  BY TermsInit DEF Init
<1>2. NoDog \in Dogs /\ NoDog.pc = "off" /\ NoDog.asked = << >>
  <2>1. << >> \in Seq(Tails)
    BY EmptySeq
  <2> QED
    BY <2>1 DEF NoDog, NoAsk, Dogs, Asks
<1>3. PilotTypes
  BY <1>2 DEF Init, PilotTypes
<1>4. AskInv
  BY <1>2 DEF Init, AskInv
<1>5. LookInv
  BY DEF Init, LookInv
<1> QED
  BY <1>1, <1>3, <1>4, <1>5 DEF PilotInv

\* Every step of terminals, phones and pilots keeps both invariants.
LEMMA SystemNext == TermsInv /\ PilotInv /\ [Next]_vars => TermsInv' /\ PilotInv'
<1> SUFFICES ASSUME TermsInv, PilotInv, [Next]_vars
             PROVE  TermsInv' /\ PilotInv'
  OBVIOUS
<1>1. engaged \in Pilots \cup {None} /\ runner \in BOOLEAN
  BY DEF PilotInv, PilotTypes
<1>2. CASE TNext /\ Repaints /\ UNCHANGED <<engaged, runner, dog>>
  <2>1. TermsInv' /\ Grows
    BY <1>2, TermsNext
  <2>2. LookInv' /\ LookKept
    BY <1>2, <2>1, LookGoes
  <2> QED
    BY <1>1, <1>2, <2>1, <2>2, DogsStand
<1>3. CASE UNCHANGED vars
  <2>1. TermsInv' /\ Grows
    BY <1>3, TermsStill DEF vars, tvars, TermsInv, TTypeInv
  <2>2. LookInv' /\ LookKept
    BY <1>3, <2>1, LookGoes DEF vars, pvars
  <2> QED
    BY <1>1, <1>3, <2>1, <2>2, DogsStand DEF vars, pvars
<1>4. CASE UNCHANGED look /\ \E e \in Pilots : Watchdog(e)
  BY <1>4, QuietSteps, EnterSteps, ObserveStep DEF Watchdog
<1>5. CASE UNCHANGED look /\ \E e \in Pilots, decision \in Answers : Decide(e, decision)
  BY <1>5, QuietSteps
<1>6. CASE UNCHANGED look /\ (HandleRequest \/ RunTakes \/ RunPokes)
  BY <1>6, ManagerSteps
<1> QED
  BY <1>2, <1>3, <1>4, <1>5, <1>6 DEF Next

\* Every step of the terminals, the phones and the pilots keeps the types.
THEOREM TypesOfTerminals == Spec => []TypeInv
<1>1. TermsInv /\ PilotInv => TypeInv
  BY DEF TermsInv, PilotInv, LookInv, TypeInv
<1> QED
  BY SystemInit, SystemNext, <1>1, PTL DEF Spec

\* A phone shows the chunks in their order and none twice, whether the snapshot, the live
\* stream or a resync after a lag brought them (handle_socket, mobile.rs).
THEOREM PhonesMirrorInOrder == Spec => []MirrorIsInOrder
<1>1. TermsInv => MirrorIsInOrder
  BY DEF TermsInv, SockInv, InOrder, MirrorIsInOrder
<1> QED
  BY SystemInit, SystemNext, <1>1, PTL DEF Spec

\* Once the last phone has gone a terminal has the size the desktop asked for last, also
\* when it asked while the phone held the terminal (release_takeover, resize, pty.rs).
THEOREM DesktopsSizeReturns == Spec => []QuietSizeIsDesktops
<1>1. TermsInv => QuietSizeIsDesktops
  BY DEF TermsInv, SizeInv
<1> QED
  BY SystemInit, SystemNext, <1>1, PTL DEF Spec

\* A watchdog asks about no painting of the screen twice, whether or not later paintings read
\* like earlier ones; only the blank screen it began with can come back, when
\* the terminal is closed under it (last_acted_fp, autopilot.rs).
THEOREM PilotsAnswerOnce == Spec => []OneAnswerPerScreen
<1>1. TermsInv /\ PilotInv => OneAnswerPerScreen
  <2> SUFFICES ASSUME TermsInv, PilotInv, NEW e \in Pilots,
                      NEW i \in DOMAIN dog[e].asked, NEW j \in DOMAIN dog[e].asked,
                      i < j, dog[e].asked[i].screen = dog[e].asked[j].screen
               PROVE  i = 1 /\ j = Len(dog[e].asked) /\ dog[e].asked[j].screen = 0 /\ ~Live(dog[e].term)
    BY DEF OneAnswerPerScreen
  <2> DEFINE s == dog[e].asked
             x == term[dog[e].term]
  <2>1. s \in Seq(Tails)
    BY DEF PilotInv, PilotTypes, Dogs
  <2>2. DOMAIN s = 1..Len(s) /\ Len(s) \in Nat /\ \A k \in DOMAIN s : s[k].screen \in Nat
    <3> HIDE DEF s
    <3>1. DOMAIN s = 1..Len(s) /\ Len(s) \in Nat /\ \A k \in DOMAIN s : s[k] \in Tails
      BY <2>1, LenProperties, ElementOfSeq
    <3> QED
      BY <3>1 DEF Tails
  <2>3. dog[e].pc # "off" /\ AskedOf(s, x, look[dog[e].term])
    <3>1. s # << >>
      BY <2>2
    <3> QED
      BY <3>1 DEF PilotInv, AskInv
  <2>4. i < j /\ s[i].screen = s[j].screen /\ i \in 1..Len(s) /\ j \in 1..Len(s)
    BY <2>2
  <2>5. \A k, l \in DOMAIN s : k < l => s[k].screen < s[l].screen \/ (x.st = "gone" /\ l = Len(s) /\ s[l].screen = 0)
    BY <2>3 DEF AskedOf
  <2>6. ~Live(dog[e].term) <=> x.st # "live"
    BY DEF Live
  <2> HIDE DEF s, x
  <2>7. x.st = "gone" /\ j = Len(s) /\ s[j].screen = 0
    <3>1. s[i].screen \in Nat /\ ~(s[i].screen < s[j].screen)
      BY <2>2, <2>4
    <3> QED
      BY <2>2, <2>4, <2>5, <3>1
  <2>8. i = 1
    <3> SUFFICES ASSUME i # 1
                 PROVE  FALSE
      OBVIOUS
    <3>1. 1 \in DOMAIN s /\ 1 < i /\ i # Len(s)
      BY <2>2, <2>4, <2>7
    <3>2. s[1].screen < s[i].screen
      BY <2>2, <2>4, <2>5, <3>1
    <3>3. s[1].screen \in Nat /\ s[i].screen = 0
      BY <2>2, <2>4, <2>7, <3>1
    <3> QED
      BY <3>2, <3>3
  <2> QED
    BY <2>6, <2>7, <2>8 DEF s, x
<1> QED
  BY SystemInit, SystemNext, <1>1, PTL DEF Spec

------------------------------------------------------------------------------
(* The frozen view. *)

\* Why the view is frozen for terminal u; it was live when a phone took it over.
Holder(u) ==
  term[u].st \in {"live", "gone"} /\ (u \in takeover \/ Restoring(u) \/ term[u].st = "gone")

OverlayInv == overlay # None => Holder(overlay)

\* The view stays frozen, and so does what holds it.
LEMMA FrozenStays ==
  ASSUME TermsInv, OverlayInv, Grows, overlay' = overlay, takeover \subseteq takeover',
         forcing' = forcing,
         \A p \in Phones : sock[p].pc = "restore"
                             => sock'[p].pc = "restore" /\ sock'[p].term = sock[p].term
  PROVE  OverlayInv'
<1> SUFFICES ASSUME NEW u \in Terms, Holder(u)
             PROVE  Holder(u)'
  BY DEF OverlayInv, TermsInv, TTypeInv, PhoneTypes, Holder, Restoring
<1>1. term'[u].st \in {term[u].st, "gone"} /\ term[u].st \in {"live", "gone"}
  BY DEF Grows, Holder
<1>2. Restoring(u) => Restoring(u)'
  BY DEF Restoring
<1> QED
  BY <1>1, <1>2 DEF Holder

\* The steps that take a terminal over or give it back.
LEMMA FrozenMoves ==
  ASSUME TermsInv, OverlayInv, Grows,
         \/ \E t \in Terms : ForceRelease(t)
         \/ ForceRestores
         \/ \E p \in Phones : AcquireTakeover(p) \/ ReleaseTakeover(p) \/ ReleaseRestores(p)
  PROVE  OverlayInv'
<1>1. /\ overlay \in Terms \cup {None} /\ None \notin Terms /\ takeover \in SUBSET Terms
      /\ forcing \in Terms \cup {None} /\ sock \in [Phones -> Socks]
      /\ \A p \in Phones : sock[p].pc # "off" => sock[p].term \in Terms
  BY TerminalAssumption DEF TermsInv, TTypeInv, PhoneTypes, TerminalAssumption
<1>2. \A u \in Terms : term[u].st = "gone" => term'[u].st = "gone"
  BY DEF Grows
<1>3. ASSUME NEW t \in Terms, ForceRelease(t)
      PROVE  OverlayInv'
  <2>1. /\ takeover' = takeover \ {t} /\ forcing' = t /\ forcing = None /\ overlay' = overlay
        /\ UNCHANGED <<term, sock>>
    BY <1>3 DEF ForceRelease, Unlock, shared
  <2> QED
    BY <1>1, <2>1 DEF OverlayInv, Holder, Restoring
<1>4. CASE ForceRestores
  <2>1. /\ forcing \in Terms /\ Restore(forcing) /\ UNCHANGED <<takeover, sock>>
    BY <1>1, <1>4 DEF ForceRestores
  <2>2. CASE term[forcing].st = "live"
    <3>1. overlay' = None
      BY <2>1, <2>2 DEF Restore, Live
    <3> QED
      BY <3>1 DEF OverlayInv
  <2>3. CASE term[forcing].st # "live"
    <3>1. UNCHANGED <<term, overlay>>
      BY <2>1, <2>3 DEF Restore, Live
    <3> QED
      BY <1>1, <2>1, <2>3, <3>1 DEF OverlayInv, Holder, Restoring
  <2> QED
    BY <2>2, <2>3
<1>5. ASSUME NEW p \in Phones, AcquireTakeover(p)
      PROVE  OverlayInv'
  <2>1. PICK t \in Terms : t = sock[p].term
    BY <1>1, <1>5 DEF AcquireTakeover, At
  <2>2. /\ UNCHANGED <<term, forcing>> /\ sock[p].pc = "upgraded"
        /\ \A r \in Phones : r # p => sock'[r] = sock[r]
    BY <1>1, <1>5 DEF AcquireTakeover, ToSock, At, shared
  <2>3. CASE overlay' = overlay /\ takeover' = takeover
    BY <2>2, <2>3, FrozenStays
  <2>4. CASE overlay' = t /\ takeover' = takeover \cup {t} /\ Live(t)
    BY <1>1, <2>2, <2>4 DEF OverlayInv, Holder, Live
  <2> QED
    BY <1>5, <2>1, <2>3, <2>4 DEF AcquireTakeover
<1>6. ASSUME NEW p \in Phones, ReleaseTakeover(p)
      PROVE  OverlayInv'
  <2>1. PICK t \in Terms : t = sock[p].term
    BY <1>1, <1>6 DEF ReleaseTakeover, At
  <2>2. /\ UNCHANGED <<term, overlay, forcing>> /\ takeover' = takeover \ {t} /\ sock[p].pc = "lost"
        /\ \A r \in Phones : r # p => sock'[r] = sock[r]
    BY <1>1, <1>6, <2>1 DEF ReleaseTakeover, ToSock, At, Unlock, shared
  <2>3. t \in takeover => sock'[p].pc = "restore" /\ sock'[p].term = t
    <3> DEFINE q == IF t \in takeover THEN "restore" ELSE "closed"
               y == [sock[p] EXCEPT !.pc = q, !.queue = << >>]
    <3>1. y.pc = q /\ y.term = t
      BY <1>1, <2>1 DEF Socks
    <3>2. sock'[p] = y
      BY <1>1, <1>6, <2>1 DEF ReleaseTakeover, ToSock
    <3> QED
      BY <3>1, <3>2
  <2>4. \A u \in Terms : Restoring(u) => Restoring(u)'
    BY <2>2 DEF Restoring
  <2>5. t \in takeover => Restoring(t)'
    BY <2>3 DEF Restoring
  <2> QED
    BY <1>1, <2>2, <2>4, <2>5 DEF OverlayInv, Holder, Restoring
<1>7. ASSUME NEW p \in Phones, ReleaseRestores(p)
      PROVE  OverlayInv'
  <2>1. PICK t \in Terms : t = sock[p].term
    BY <1>1, <1>7 DEF ReleaseRestores, At
  <2>2. /\ Restore(t) /\ UNCHANGED <<takeover, forcing>> /\ \A r \in Phones : r # p => sock'[r] = sock[r]
    BY <1>1, <1>7, <2>1 DEF ReleaseRestores, ToSock
  <2>3. CASE term[t].st = "live"
    <3>1. overlay' = None
      BY <2>2, <2>3 DEF Restore, Live
    <3> QED
      BY <3>1 DEF OverlayInv
  <2>4. CASE term[t].st # "live"
    <3>1. UNCHANGED <<term, overlay>>
      BY <2>2, <2>4 DEF Restore, Live
    <3>2. \A u \in Terms : Restoring(u) => u = t \/ Restoring(u)'
      BY <2>1, <2>2 DEF Restoring
    <3> QED
      BY <1>1, <2>2, <2>4, <3>1, <3>2 DEF OverlayInv, Holder, Restoring
  <2> QED
    BY <2>3, <2>4
<1> QED
  BY <1>3, <1>4, <1>5, <1>6, <1>7

\* What reaches the phones from elsewhere leaves their locks alone.
LEMMA FrozenNext ==
  ASSUME TermsInv, OverlayInv, TNext
  PROVE  OverlayInv'
<1>1. Grows
  BY TermsNext
<1>2. sock \in [Phones -> Socks]
  BY DEF TermsInv, TTypeInv, PhoneTypes
<1>3. ASSUME UNCHANGED mobile
      PROVE  OverlayInv'
  BY <1>1, <1>3, FrozenStays DEF mobile
<1>4. ASSUME NEW p \in Phones, sock[p].pc # "restore", NEW y, sock' = [sock EXCEPT ![p] = y],
             UNCHANGED <<takeover, overlay, forcing>>
      PROVE  OverlayInv'
  <2>1. \A r \in Phones : r # p => sock'[r] = sock[r]
    BY <1>2, <1>4
  <2> QED
    BY <1>1, <1>4, <2>1, FrozenStays
<1>5. ASSUME NEW t \in Terms, Publish(t)
      PROVE  OverlayInv'
  <2>1. \A p \in Phones : sock[p].pc = "restore" => sock'[p] = sock[p]
    BY <1>2, <1>5 DEF Publish, Subscribed
  <2> QED
    BY <1>1, <1>5, <2>1, FrozenStays DEF Publish
<1>6. ASSUME NEW t \in Terms, Threads(t) \/ Ticks(t), ~Publish(t)
      PROVE  OverlayInv'
  BY <1>3, <1>6 DEF Threads, Ticks, Insert, Feed, ReaderEmits, ReadEof, FinalSnapshot,
                    BeatWakes, BeatEmits, BeatEnds, Clock
<1>7. ASSUME NEW p \in Phones, Socket(p)
      PROVE  OverlayInv'
  <2>1. CASE AcquireTakeover(p) \/ ReleaseTakeover(p) \/ ReleaseRestores(p)
    BY <1>1, <2>1, FrozenMoves
  <2>2. CASE AttachSnapshot(p) \/ Subscribe(p) \/ Recv(p)
    BY <1>4, <2>2 DEF AttachSnapshot, Subscribe, Recv, At, ToSock
  <2> QED
    BY <1>7, <2>1, <2>2 DEF Socket
<1>8. ASSUME Surroundings
      PROVE  OverlayInv'
  <2>1. CASE (\E t \in Terms : ForceRelease(t)) \/ ForceRestores
    BY <1>1, <2>1, FrozenMoves
  <2>2. CASE \/ Spawns \/ KillForSession
             \/ \E t \in Terms :
                  \/ Kill(t) \/ ChildExits(t) \/ Write(t)
                  \/ \E line \in left.lines : ReadChunk(t, line, None)
                  \/ \E title \in left.titles : ReadChunk(t, "chrome", title)
                  \/ \E size \in {"desk", "desk2"} : Resize(t, size)
             \/ \E data \in Keys : WriteLands(data)
             \/ \E p \in Phones : ResizeMobile(p) \/ \E data \in Keys : WriteMobile(p, data)
    BY <1>3, <2>2 DEF Spawns, SpawnProgram, KillForSession, Kill, TakeOut, ChildExits, Write, ReadChunk,
                      Resize, WriteLands, ResizeMobile, WriteMobile
  <2>3. CASE MobileToggle
    BY <1>1, <2>3, FrozenStays DEF MobileToggle
  <2>4. ASSUME NEW p \in Phones, NEW t \in Terms, WsHandler(p, t)
        PROVE  OverlayInv'
    <3>1. sock[p].pc = "off" /\ UNCHANGED <<takeover, overlay, forcing>>
      BY <2>4 DEF WsHandler, NoSock
    <3>2. sock' = [sock EXCEPT ![p] = [NoSock EXCEPT !.pc = "upgraded", !.term = t]]
      BY <2>4 DEF WsHandler, ToSock
    <3> QED
      BY <1>4, <3>1, <3>2
  <2>5. ASSUME NEW p \in Phones, PhoneLeaves(p)
        PROVE  OverlayInv'
    BY <1>4, <2>5 DEF PhoneLeaves, At, ToSock
  <2> QED
    BY <1>8, <2>1, <2>2, <2>3, <2>4, <2>5 DEF Surroundings
<1> QED
  BY <1>5, <1>6, <1>7, <1>8 DEF TNext

\* A frozen desktop view has a cause: the terminal that froze it is under takeover, or its
\* release is under way, or it was closed (acquire_ and release_takeover, pty.rs).
THEOREM FrozenViewsAreHeld == Spec => []FrozenHasHolder
<1>1. Init => OverlayInv
  BY DEF Init, TInit, OverlayInv
<1>2. TermsInv /\ PilotInv /\ OverlayInv /\ [Next]_vars => OverlayInv'
  <2> SUFFICES ASSUME TermsInv, PilotInv, OverlayInv, [Next]_vars
               PROVE  OverlayInv'
    OBVIOUS
  <2>1. CASE TNext
    BY <2>1, FrozenNext
  <2>2. ASSUME UNCHANGED mobile, Grows
        PROVE  OverlayInv'
    BY <2>2, FrozenStays DEF mobile
  <2>3. CASE UNCHANGED tvars
    BY <2>2, <2>3, TermsStill DEF tvars, TermsInv, TTypeInv
  <2>4. ASSUME UNCHANGED mobile, UNCHANGED shared, notices' \in Nat, left' \in LoadTypes, UNCHANGED typing
        PROVE  OverlayInv'
    BY <2>2, <2>4, TermsStill
  <2>5. CASE HandleRequest \/ RunTakes
    <3>1. left \in LoadTypes /\ notices \in Nat
      BY DEF TermsInv, TTypeInv
    <3>2. CASE HandleRequest
      <4>1. UNCHANGED <<shared, typing, mobile, notices>> /\ (Spend("engages") \/ Spend("disengages"))
        BY <3>2 DEF HandleRequest, Disengage, Engage
      <4>2. left' \in LoadTypes
        BY <3>1, <4>1, SpendTyped
      <4> QED
        BY <2>4, <3>1, <4>1, <4>2
    <3>3. CASE RunTakes
      <4>1. notices > 0 /\ notices' = notices - 1 /\ UNCHANGED <<shared, typing, mobile, left>>
        BY <3>3 DEF RunTakes
      <4>2. notices' \in Nat
        BY <3>1, <4>1
      <4> QED
        BY <2>4, <3>1, <4>1, <4>2
    <3> QED
      BY <2>5, <3>2, <3>3
  <2>6. ASSUME NEW e \in Pilots, PressEnter(e) \/ \E state \in SeenStates : Resend(e, state)
        PROVE  OverlayInv'
    <3>1. dog[e].term \in Terms
      BY <2>6 DEF PilotInv, PilotTypes, PressEnter, Resend, Pc
    <3>2. UNCHANGED <<reader, beat, dot, typing, mobile, notices, left>>
          /\ (PilotWrites(dog[e].term) \/ UNCHANGED term)
      BY <2>6 DEF PressEnter, Resend
    <3>3. CASE PilotWrites(dog[e].term)
      BY <2>2, <3>1, <3>2, <3>3, PilotPresses
    <3>4. CASE UNCHANGED term
      BY <2>4, <3>2, <3>4 DEF shared, TermsInv, TTypeInv
    <3> QED
      BY <3>2, <3>3, <3>4
  <2>7. ASSUME NEW e \in Pilots, Watchdog(e) \/ (\E decision \in Answers : Decide(e, decision)),
               ~PressEnter(e), \A state \in SeenStates : ~Resend(e, state)
        PROVE  OverlayInv'
    <3>1. UNCHANGED tvars
      BY <2>7 DEF Watchdog, Decide, Gone, Settle, StartTimeout, Halt, TypeKeys, Observe, Started, Quiet
    <3> QED
      BY <2>3, <3>1
  <2> QED
    BY <2>1, <2>3, <2>5, <2>6, <2>7 DEF Next, Watchdog, RunPokes, vars
<1>3. TermsInv /\ OverlayInv => FrozenHasHolder
  BY DEF OverlayInv, Holder, FrozenHasHolder, Live
<1> QED
  BY SystemInit, SystemNext, <1>1, <1>2, <1>3, PTL DEF Spec
==============================================================================
