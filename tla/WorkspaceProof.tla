---------------------------- MODULE WorkspaceProof ----------------------------
(***************************************************************************)
(* Proofs about the event store, and about the projects, worktrees and      *)
(* actions it holds, for any ids, names, fields, commands and writers, any  *)
(* restarts, and any work on the repository by hand.                        *)
(*                                                                         *)
(* The event store: the inductive invariant is TypedRows together with      *)
(* SeenIsPrefix.  TypedRows alone (logs are gap free) is not inductive,     *)
(* because a writer that expected a version ahead of the table would leave  *)
(* a gap.                                                                   *)
(*                                                                         *)
(* The aggregates: every step is one of the event store's, so a batch that  *)
(* is appended was decided on the whole log: what has to be shown is that   *)
(* what is decided on a lawful log keeps it lawful, and that no two calls   *)
(* have an event of one aggregate to apply.                                 *)
(***************************************************************************)
EXTENDS WorktreeEnv, EventStore, SequenceTheorems, FiniteSetTheorems, WellFoundedInduction, TLAPS

------------------------------------------------------------------------------
(* The event store. *)

\* TypeOK without the gap freedom it spells out: sequences have no gaps.
TypedRows ==
  /\ table \in [Aggregates -> Seq(Events)]
  /\ writer \in [Writers -> Held \cup {Idle}]

IInv == TypedRows /\ SeenIsPrefix

------------------------------------------------------------------------------
(* Rows that are a sequence. *)

\* The version of the last row of a gap-free log is its length.
LEMMA HeadOfSeq ==
  ASSUME NEW E, NEW s \in Seq(E)
  PROVE  HeadVersion(s) = Len(s)
<1>1. Len(s) \in Nat /\ DOMAIN s = 1..Len(s)
  BY LenProperties
<1>2. CASE Len(s) = 0
  BY <1>1, <1>2 DEF HeadVersion, Versions
<1>3. CASE Len(s) # 0
  <2>1. Len(s) \in Versions(s) /\ \A u \in Versions(s) : u <= Len(s)
    BY <1>1, <1>3 DEF Versions
  <2>2. \A v \in Versions(s) : (\A u \in Versions(s) : u <= v) => v = Len(s)
    BY <1>1, <2>1 DEF Versions
  <2>3. Versions(s) # {}
    BY <2>1
  <2> QED
    BY <2>1, <2>2, <2>3 DEF HeadVersion
<1> QED
  BY <1>2, <1>3

\* Inserting a batch right after the last row concatenates it.
LEMMA InsertedAtHead ==
  ASSUME NEW E, NEW s \in Seq(E), NEW batch \in Seq(E)
  PROVE  /\ Inserted(s, Len(s), batch) \in Seq(E)
         /\ Len(Inserted(s, Len(s), batch)) = Len(s) + Len(batch)
         /\ \A v \in 1..Len(s) : Inserted(s, Len(s), batch)[v] = s[v]
         /\ \A v \in (Len(s) + 1)..(Len(s) + Len(batch)) :
                Inserted(s, Len(s), batch)[v] = batch[v - Len(s)]
<1> DEFINE n == Len(s)
           m == Len(batch)
           ins == Inserted(s, n, batch)
<1>1. n \in Nat /\ m \in Nat /\ s \in [1..n -> E] /\ batch \in [1..m -> E]
  BY LenProperties
<1>2. DOMAIN s = 1..n
  BY LenProperties
<1>3. 1..n \cup (n+1)..(n+m) = 1..(n+m)
  BY <1>1
<1>4. ins = [v \in 1..(n+m) |-> IF v \in 1..n THEN s[v] ELSE batch[v - n]]
  BY <1>2, <1>3 DEF Inserted, Versions, BatchVersions
<1>5. \A v \in 1..(n+m) : (IF v \in 1..n THEN s[v] ELSE batch[v - n]) \in E
  BY <1>1
<1>6. ins \in [1..(n+m) -> E]
  BY <1>4, <1>5
<1>7. n + m \in Nat
  BY <1>1
<1>8. ins \in Seq(E)
  BY <1>6, <1>7, SeqDef
<1>9. Len(ins) = n + m
  BY <1>6, <1>7, <1>8
<1>10. \A v \in 1..n : ins[v] = s[v]
  BY <1>1, <1>4
<1>11. \A v \in (n+1)..(n+m) : ins[v] = batch[v - n]
  BY <1>1, <1>4
<1> QED
  BY <1>8, <1>9, <1>10, <1>11

\* A batch expected at or before the last row conflicts unless it goes right
\* after it.
LEMMA NoConflictAtHeadOnly ==
  ASSUME NEW E, NEW s \in Seq(E), NEW batch \in Seq(E), batch # <<>>,
         NEW k \in Nat, k <= Len(s), ~Conflicts(s, k, batch)
  PROVE  k = Len(s)
<1>1. DOMAIN s = 1..Len(s)
  BY LenProperties
<1>2. Len(s) \in Nat /\ Len(batch) \in Nat /\ Len(batch) # 0
  BY EmptySeq, LenProperties
<1>3. CASE k < Len(s)
  <2>1. k + 1 \in BatchVersions(k, Len(batch))
    BY <1>2 DEF BatchVersions
  <2>2. k + 1 \in 1..Len(s)
    BY <1>2, <1>3
  <2>3. k + 1 \in Versions(s)
    BY <1>1, <2>2 DEF Versions
  <2> QED
    BY <2>1, <2>3 DEF Conflicts
<1> QED
  BY <1>2, <1>3

\* Every batch is a list of events.
LEMMA BatchesAreSeqs == \A batch \in Batches : batch \in Seq(Events)
<1>1. \A e \in Events : <<e>> \in Seq(Events)
  OBVIOUS
<1>2. \A e, f \in Events : <<e, f>> \in Seq(Events)
  OBVIOUS
<1> QED
  <2>1. SUFFICES ASSUME NEW batch \in Batches PROVE batch \in Seq(Events)
    OBVIOUS
  <2>2. (\E e \in Events : batch = <<e>>) \/ (\E e, f \in Events : batch = <<e, f>>)
    BY DEF Batches
  <2> QED
    BY <1>1, <1>2, <2>2

------------------------------------------------------------------------------
(* The invariant of the event store. *)

\* The invariant holds of an empty table.
LEMMA InitIInv == Init => IInv
<1> SUFFICES ASSUME Init PROVE IInv
  OBVIOUS
<1>1. <<>> \in Seq(Events)
  OBVIOUS
<1>2. TypedRows
  BY <1>1 DEF Init, TypedRows, NoRows, Idle
<1>3. SeenIsPrefix
  BY DEF Init, SeenIsPrefix
<1> QED
  BY <1>2, <1>3 DEF IInv

\* A step that leaves the table alone and puts into one writer nothing, or what
\* agrees with the table, keeps the invariant.
LEMMA WriterStep ==
  ASSUME IInv, UNCHANGED table, NEW w \in Writers, NEW r \in Held \cup {Idle},
         writer' = [writer EXCEPT ![w] = r],
         r # Idle => /\ r.expected = Len(r.seen)
                     /\ r.expected <= Len(table[r.agg])
                     /\ \A v \in 1..r.expected : r.seen[v] = table[r.agg][v]
  PROVE  IInv'
<1>1. TypedRows'
  BY DEF IInv, TypedRows
<1>2. SeenIsPrefix'
  <2> SUFFICES ASSUME NEW x \in Writers, writer'[x] # Idle
               PROVE  /\ writer'[x].expected = Len(writer'[x].seen)
                      /\ writer'[x].expected <= Len(table[writer'[x].agg])
                      /\ \A v \in 1..writer'[x].expected :
                             writer'[x].seen[v] = table[writer'[x].agg][v]
    BY DEF SeenIsPrefix
  <2>1. CASE x = w
    BY <2>1 DEF IInv, TypedRows
  <2>2. CASE x # w
    <3>1. writer'[x] = writer[x]
      BY <2>2 DEF IInv, TypedRows
    <3> QED
      BY <3>1 DEF IInv, SeenIsPrefix
  <2> QED
    BY <2>1, <2>2
<1> QED
  BY <1>1, <1>2 DEF IInv

\* What an append without a conflict does, given the invariant: the writer had
\* seen the whole log, and the log is extended by the batch.
LEMMA AppendFacts ==
  ASSUME IInv, NEW w \in Writers, NEW batch \in Batches, NEW keeps \in BOOLEAN,
         AppendEvents(w, batch, keeps)
  PROVE  /\ writer[w] \in Held
         /\ writer[w].expected = Len(table[writer[w].agg])
         /\ writer[w].seen = table[writer[w].agg]
<1> DEFINE r == writer[w]
<1>1. r \in Held
  BY DEF AppendEvents, IInv, TypedRows
<1>2. table[r.agg] \in Seq(Events) /\ r.seen \in Seq(Events) /\ r.expected \in Nat
  BY <1>1 DEF IInv, TypedRows, Held
<1>3. /\ r.expected = Len(r.seen)
      /\ r.expected <= Len(table[r.agg])
      /\ \A v \in 1..r.expected : r.seen[v] = table[r.agg][v]
  BY DEF AppendEvents, IInv, SeenIsPrefix
<1>4. r.expected = Len(table[r.agg])
  <2>1. batch \in Seq(Events) /\ batch # <<>> /\ ~Conflicts(table[r.agg], r.expected, batch)
    BY BatchesAreSeqs DEF AppendEvents
  <2> QED
    BY <1>2, <1>3, <2>1, NoConflictAtHeadOnly
<1>5. r.seen = table[r.agg]
  BY <1>2, <1>3, <1>4, SeqEqual
<1> QED
  BY <1>1, <1>4, <1>5

\* A writer that keeps what it holds after an append holds the new rows.
LEMMA HeldAdvances ==
  ASSUME NEW r \in Held, NEW rows \in Seq(Events), NEW n \in Nat
  PROVE  [r EXCEPT !.seen = rows, !.expected = n] \in Held
  BY DEF Held

\* An append without a conflict keeps the invariant: the rows stay gap free, and
\* the other writers' expectations stay behind the table.
LEMMA AppendKeepsIInv ==
  ASSUME IInv, NEW w \in Writers, NEW batch \in Batches, NEW keeps \in BOOLEAN,
         AppendEvents(w, batch, keeps)
  PROVE  IInv'
<1> DEFINE r == writer[w]
           a == r.agg
           rows == Inserted(table[a], Len(table[a]), batch)
           held == [r EXCEPT !.seen = rows, !.expected = @ + Len(batch)]
<1>1. r \in Held /\ r.expected = Len(table[a]) /\ r.seen = table[a]
  BY AppendFacts
<1>2. a \in Aggregates /\ table[a] \in Seq(Events) /\ batch \in Seq(Events)
  BY <1>1, BatchesAreSeqs DEF IInv, TypedRows, Held
<1>3. Len(table[a]) \in Nat /\ Len(batch) \in Nat
  BY <1>2, LenProperties
<1>4. /\ rows \in Seq(Events)
      /\ Len(rows) = Len(table[a]) + Len(batch)
      /\ \A v \in 1..Len(table[a]) : rows[v] = table[a][v]
  BY <1>2, InsertedAtHead
<1>5. table' = [table EXCEPT ![a] = rows]
  BY <1>1 DEF AppendEvents
<1>6. table'[a] = rows /\ \A b \in Aggregates : b # a => table'[b] = table[b]
  BY <1>2, <1>5 DEF IInv, TypedRows
<1>7. writer' = [writer EXCEPT ![w] = IF keeps THEN held ELSE Idle]
  BY <1>1 DEF AppendEvents
<1>8. held \in Held
  <2>1. r.expected + Len(batch) \in Nat
    BY <1>1, <1>3
  <2>2. rows \in Seq(Events)
    BY <1>4
  <2> HIDE DEF rows
  <2> QED
    BY <1>1, <2>1, <2>2, HeldAdvances
<1>9. TypedRows'
  BY <1>2, <1>4, <1>5, <1>7, <1>8 DEF IInv, TypedRows
<1>10. SeenIsPrefix'
  <2> SUFFICES ASSUME NEW x \in Writers, writer'[x] # Idle
               PROVE  /\ writer'[x].expected = Len(writer'[x].seen)
                      /\ writer'[x].expected <= Len(table'[writer'[x].agg])
                      /\ \A v \in 1..writer'[x].expected :
                             writer'[x].seen[v] = table'[writer'[x].agg][v]
    BY DEF SeenIsPrefix
  <2>1. CASE x = w
    <3>1. writer'[x] = held
      BY <2>1, <1>7 DEF IInv, TypedRows
    <3>2. held.seen = rows /\ held.expected = Len(rows) /\ held.agg = a
      BY <1>1, <1>4 DEF Held
    <3> QED
      BY <3>1, <3>2, <1>3, <1>4, <1>6
  <2>2. CASE x # w
    <3>1. writer'[x] = writer[x]
      BY <2>2, <1>7 DEF IInv, TypedRows
    <3>2. writer[x] \in Held
      BY <3>1 DEF IInv, TypedRows
    <3>3. /\ writer[x].expected = Len(writer[x].seen)
          /\ writer[x].expected <= Len(table[writer[x].agg])
          /\ \A v \in 1..writer[x].expected :
                 writer[x].seen[v] = table[writer[x].agg][v]
      BY <3>1 DEF IInv, SeenIsPrefix
    <3>4. CASE writer[x].agg = a
      <4>1. writer[x].expected \in Nat
        BY <3>2 DEF Held
      <4> QED
        BY <3>1, <3>3, <3>4, <4>1, <1>3, <1>4, <1>6
    <3>5. CASE writer[x].agg # a
      <4>1. writer[x].agg \in Aggregates
        BY <3>2 DEF Held
      <4>2. table'[writer[x].agg] = table[writer[x].agg]
        BY <4>1, <3>5, <1>6
      <4> QED
        BY <3>1, <3>3, <4>2
    <3> QED
      BY <3>4, <3>5
  <2> QED
    BY <2>1, <2>2
<1> QED
  BY <1>9, <1>10 DEF IInv

\* The invariant is inductive: one case per action.
LEMMA NextIInv == IInv /\ [Next]_vars => IInv'
<1> SUFFICES ASSUME IInv, [Next]_vars PROVE IInv'
  OBVIOUS
<1>1. ASSUME NEW w \in Writers, NEW a \in Aggregates, Load(w, a) PROVE IInv'
  <2> DEFINE r == [pc |-> "loaded", agg |-> a, seen |-> table[a],
                   expected |-> HeadVersion(table[a])]
  <2>1. table[a] \in Seq(Events)
    BY DEF IInv, TypedRows
  <2>2. r.expected = Len(table[a]) /\ Len(table[a]) \in Nat
    BY <2>1, HeadOfSeq, LenProperties
  <2>3. r \in Held
    BY <2>1, <2>2 DEF Held
  <2>4. /\ r.expected = Len(r.seen)
        /\ r.expected <= Len(table[r.agg])
        /\ \A v \in 1..r.expected : r.seen[v] = table[r.agg][v]
    BY <2>2
  <2>5. UNCHANGED table /\ writer' = [writer EXCEPT ![w] = r]
    BY <1>1 DEF Load
  <2> HIDE DEF r
  <2> QED
    BY <2>3, <2>4, <2>5, WriterStep
<1>2. ASSUME NEW w \in Writers, NEW a \in Aggregates, Create(w, a) PROVE IInv'
  <2> DEFINE r == [pc |-> "loaded", agg |-> a, seen |-> NoRows, expected |-> 0]
  <2>1. NoRows \in Seq(Events) /\ Len(NoRows) = 0
    BY EmptySeq DEF NoRows
  <2>2. r \in Held
    BY <2>1 DEF Held
  <2>3. 0 <= Len(table[a])
    BY LenProperties DEF IInv, TypedRows
  <2>4. /\ r.expected = Len(r.seen)
        /\ r.expected <= Len(table[r.agg])
        /\ \A v \in 1..r.expected : r.seen[v] = table[r.agg][v]
    BY <2>1, <2>3
  <2>5. UNCHANGED table /\ writer' = [writer EXCEPT ![w] = r]
    BY <1>2 DEF Create
  <2> HIDE DEF r
  <2> QED
    BY <2>2, <2>4, <2>5, WriterStep
<1>3. ASSUME NEW w \in Writers, NEW batch \in Batches, NEW keeps \in BOOLEAN,
             AppendEvents(w, batch, keeps)
      PROVE  IInv'
  BY <1>3, AppendKeepsIInv
<1>4. ASSUME NEW w \in Writers, NEW batch \in Batches, AppendConflicts(w, batch)
      PROVE  IInv'
  BY <1>4, WriterStep DEF AppendConflicts
<1>5. ASSUME NEW w \in Writers, Release(w) PROVE IInv'
  BY <1>5, WriterStep DEF Release
<1>6. CASE UNCHANGED vars
  BY <1>6 DEF vars, IInv, TypedRows, SeenIsPrefix
<1> QED
  BY <1>1, <1>2, <1>3, <1>4, <1>5, <1>6 DEF Next

\* So it always holds.
LEMMA InvariantHolds == Spec => []IInv
  BY InitIInv, NextIInv, PTL DEF Spec

\* event_store.append keeps every log gap free: its rows are a sequence.
THEOREM TypeCorrect == Spec => []TypeOK
<1>1. TypedRows => TypeOK
  <2>1. \A s \in Seq(Events) : Versions(s) = 1..HeadVersion(s)
    BY HeadOfSeq, LenProperties DEF Versions
  <2> QED
    BY <2>1 DEF TypedRows, TypeOK
<1> QED
  BY <1>1, InvariantHolds, PTL DEF IInv

\* No writer expects a version ahead of the table, and what it has seen is a
\* prefix of the log.
THEOREM WritersSeePrefixes == Spec => []SeenIsPrefix
  BY InvariantHolds, PTL DEF IInv

------------------------------------------------------------------------------
(* No lost update. *)

\* A step that changes an aggregate is an append of a writer that has seen all of it.
LEMMA AppendStepSeesAll ==
  ASSUME IInv, [Next]_vars
  PROVE  \A a \in Aggregates : table'[a] # table[a] =>
             \E w \in Writers : /\ writer[w] # Idle /\ writer[w].agg = a
                                /\ writer[w].seen = table[a]
                                /\ writer'[w] # writer[w]
<1> SUFFICES ASSUME NEW a \in Aggregates, table'[a] # table[a]
             PROVE  \E w \in Writers : /\ writer[w] # Idle /\ writer[w].agg = a
                                       /\ writer[w].seen = table[a]
                                       /\ writer'[w] # writer[w]
  OBVIOUS
<1>1. PICK w \in Writers, batch \in Batches, keeps \in BOOLEAN :
           AppendEvents(w, batch, keeps)
  BY DEF Next, vars, Load, Create, AppendConflicts, Release
<1>2. /\ writer[w] \in Held
      /\ writer[w].expected = Len(table[writer[w].agg])
      /\ writer[w].seen = table[writer[w].agg]
  BY <1>1, AppendFacts
<1>3. writer[w].agg = a
  BY <1>1 DEF AppendEvents, IInv, TypedRows
<1>4. writer'[w] # writer[w]
  <2>1. CASE keeps
    <3>1. writer'[w].expected = writer[w].expected + Len(batch)
      BY <1>1, <1>2, <2>1 DEF AppendEvents, IInv, TypedRows, Held
    <3>2. Len(batch) \in Nat \ {0}
      BY <1>1, BatchesAreSeqs, EmptySeq DEF AppendEvents
    <3>3. writer[w].expected \in Nat
      BY <1>2 DEF Held
    <3> QED
      BY <3>1, <3>2, <3>3
  <2>2. CASE ~keeps
    BY <1>1, <2>2 DEF AppendEvents, IInv, TypedRows
  <2> QED
    BY <2>1, <2>2
<1>5. writer[w] # Idle
  BY <1>1 DEF AppendEvents
<1> QED
  BY <1>2, <1>3, <1>4, <1>5

\* Whoever changes an aggregate has seen all of it: no writer overwrites or
\* ignores what another one appended.
THEOREM NoLostUpdate == Spec => AppendSeesAll
<1>1. IInv /\ [Next]_vars =>
        [\A a \in Aggregates : table'[a] # table[a] =>
             \E w \in Writers : /\ writer[w] # Idle /\ writer[w].agg = a
                                /\ writer[w].seen = table[a]
                                /\ writer'[w] # writer[w]]_vars
  BY AppendStepSeesAll
<1> QED
  BY <1>1, InvariantHolds, PTL DEF Spec, AppendSeesAll

------------------------------------------------------------------------------
(* The table implements the abstract log. *)

\* An empty table is empty logs.
LEMMA InitRefines == Init => Log!Init
  BY DEF Init, Log!Init, NoRows

\* A step of the table adds a batch to one log, or leaves all of them.
LEMMA StepRefines ==
  ASSUME IInv, [Next]_vars
  PROVE  [Log!Next]_table
<1> SUFFICES ASSUME table' # table PROVE Log!Next
  OBVIOUS
<1>1. PICK w \in Writers, batch \in Batches, keeps \in BOOLEAN :
           AppendEvents(w, batch, keeps)
  BY DEF Next, vars, Load, Create, AppendConflicts, Release
<1> DEFINE a == writer[w].agg
           rows == Inserted(table[a], Len(table[a]), batch)
<1>2. writer[w] \in Held /\ writer[w].expected = Len(table[a])
  BY <1>1, AppendFacts
<1>3. a \in Aggregates /\ table[a] \in Seq(Events) /\ batch \in Seq(Events)
  BY <1>2, BatchesAreSeqs DEF IInv, TypedRows, Held
<1>4. table' = [table EXCEPT ![a] = rows]
  BY <1>1, <1>2 DEF AppendEvents
<1>5. table'[a] = rows /\ \A b \in Aggregates \ {a} : table'[b] = table[b]
  BY <1>3, <1>4 DEF IInv, TypedRows
<1>6. Len(table[a]) \in Nat /\ Len(batch) \in Nat \ {0}
  BY <1>1, <1>3, LenProperties, EmptySeq DEF AppendEvents
<1>7. Len(rows) > Len(table[a]) /\ \A i \in 1..Len(table[a]) : rows[i] = table[a][i]
  <2>1. Len(rows) = Len(table[a]) + Len(batch)
    BY <1>3, InsertedAtHead
  <2>2. \A i \in 1..Len(table[a]) : rows[i] = table[a][i]
    BY <1>3, InsertedAtHead
  <2> QED
    BY <1>6, <2>1, <2>2
<1>8. Log!AppendBatch(a)
  BY <1>5, <1>7 DEF Log!AppendBatch, Log!Extends
<1> QED
  BY <1>3, <1>8 DEF Log!Next

\* The events table, with the writers' optimistic concurrency, implements the
\* append-only logs of EventLog.
THEOREM Refinement == Spec => ImplementsLog
<1>1. IInv /\ [Next]_vars => [Log!Next]_table
  BY StepRefines
<1> QED
  BY <1>1, InitRefines, InvariantHolds, PTL DEF Spec, ImplementsLog, Log!Spec


------------------------------------------------------------------------------
(* What a log folds to. *)

\* A set of naturals that is not empty has a least element: the intervals 0..n are
\* finite, and inclusion is well founded on finite sets.
LEMMA LeastNatural ==
  ASSUME NEW I \in SUBSET Nat, I # {}
  PROVE  \E n \in I : \A m \in I : n <= m
<1> DEFINE R == StrictSubsetOrdering(Nat)
           T == {0..n : n \in I}
<1>1. T \subseteq FiniteSubsetsOf(Nat) /\ T # {}
  <2>1. \A n \in I : 0..n \in SUBSET Nat /\ IsFiniteSet(0..n)
    BY FS_Interval
  <2>2. \A x \in T : x \in FiniteSubsetsOf(Nat)
    BY <2>1 DEF FiniteSubsetsOf
  <2>3. T # {}
    OBVIOUS
  <2> QED
    BY <2>2, <2>3
<1>2. IsWellFoundedOn(R, FiniteSubsetsOf(Nat))
  BY FS_StrictSubsetOrderingWellFounded
<1>3. PICK x \in T : \A y \in T : <<y, x>> \notin R
  <2> HIDE DEF R, T
  <2> QED
    BY <1>1, <1>2, WFMin
<1>4. PICK n \in I : x = 0..n
  OBVIOUS
<1>5. ASSUME NEW m \in I
      PROVE  n <= m
  <2>1. SUFFICES ASSUME m < n
                 PROVE  FALSE
    OBVIOUS
  <2>2. 0..m \in T /\ 0..m \subseteq 0..n /\ n \in 0..n /\ n \notin 0..m
    BY <2>1
  <2>3. <<0..m, 0..n>> \in R
    BY <2>2 DEF StrictSubsetOrdering
  <2> QED
    BY <1>3, <1>4, <2>2, <2>3
<1> QED
  BY <1>5

\* The states a log goes through, up to its n-th event.
Folds(a, log, n, f) ==
  f = [v \in 0..n |-> IF v = 0 THEN None ELSE Applied(a, f[v - 1], log[v])]

\* The n-th state depends on the first n events alone.
LEMMA FoldsAgree ==
  ASSUME NEW a, NEW log, NEW rows, NEW m \in Nat, NEW n \in Nat, NEW f, NEW g,
         Folds(a, log, m, f), Folds(a, rows, n, g), m <= n,
         \A v \in 1..m : log[v] = rows[v]
  PROVE  \A v \in 0..m : f[v] = g[v]
<1> DEFINE I == {v \in 0..m : f[v] # g[v]}
<1>1. /\ f = [v \in 0..m |-> IF v = 0 THEN None ELSE Applied(a, f[v - 1], log[v])]
      /\ g = [v \in 0..n |-> IF v = 0 THEN None ELSE Applied(a, g[v - 1], rows[v])]
  BY DEF Folds
<1>2. SUFFICES ASSUME I # {}
               PROVE  FALSE
  OBVIOUS
<1>3. I \in SUBSET Nat
  OBVIOUS
<1>4. PICK u \in I : \A v \in I : u <= v
  <2> HIDE DEF I
  <2> QED
    BY <1>2, <1>3, LeastNatural
<1>5. u \in 0..m /\ f[u] # g[u]
  BY <1>4
<1>6. \A v \in 0..m : f[v] = IF v = 0 THEN None ELSE Applied(a, f[v - 1], log[v])
  BY <1>1
<1>7. \A v \in 0..n : g[v] = IF v = 0 THEN None ELSE Applied(a, g[v - 1], rows[v])
  BY <1>1
<1>8. u # 0
  BY <1>5, <1>6, <1>7
<1>9. u - 1 \in 0..m /\ u \in 0..n /\ u \in 1..m /\ ~(u <= u - 1)
  BY <1>5, <1>8
<1>10. f[u - 1] = g[u - 1]
  BY <1>4, <1>9
<1>11. f[u] = Applied(a, f[u - 1], log[u]) /\ g[u] = Applied(a, g[u - 1], rows[u])
  BY <1>5, <1>6, <1>7, <1>8, <1>9
<1> QED
  BY <1>5, <1>9, <1>10, <1>11

\* What the states are up to an event, they can be up to the next one.
LEMMA FoldsGrow ==
  ASSUME NEW a, NEW log, NEW n \in Nat, NEW f, Folds(a, log, n, f)
  PROVE  \E g : Folds(a, log, n + 1, g)
<1> DEFINE last == Applied(a, f[n], log[n + 1])
           g == [v \in 0..(n + 1) |-> IF v \in 0..n THEN f[v] ELSE last]
           step == [v \in 0..(n + 1) |-> IF v = 0 THEN None ELSE Applied(a, g[v - 1], log[v])]
<1>1. f = [v \in 0..n |-> IF v = 0 THEN None ELSE Applied(a, f[v - 1], log[v])]
  BY DEF Folds
<1> HIDE DEF last
<1>2. \A v \in 0..(n + 1) : g[v] = IF v \in 0..n THEN f[v] ELSE last
  OBVIOUS
<1>3. \A v \in 0..n : f[v] = IF v = 0 THEN None ELSE Applied(a, f[v - 1], log[v])
  BY <1>1
<1> HIDE DEF g
<1>4. ASSUME NEW v \in 0..(n + 1)
      PROVE  (IF v \in 0..n THEN f[v] ELSE last)
               = IF v = 0 THEN None ELSE Applied(a, g[v - 1], log[v])
  <2>1. CASE v = 0
    BY <2>1, <1>3
  <2>2. CASE v \in 1..n
    <3>1. v - 1 \in 0..n /\ v - 1 \in 0..(n + 1) /\ v \in 0..n /\ v # 0
      BY <2>2
    <3>2. g[v - 1] = f[v - 1]
      BY <3>1, <1>2
    <3> QED
      BY <3>1, <3>2, <1>3
  <2>3. CASE v = n + 1
    <3>1. v - 1 = n /\ n \in 0..(n + 1) /\ n \in 0..n /\ v \notin 0..n /\ v # 0
      BY <2>3
    <3>2. g[v - 1] = f[n]
      BY <3>1, <1>2
    <3> QED
      BY <3>1, <3>2, <2>3 DEF last
  <2> QED
    BY <2>1, <2>2, <2>3
<1>5. g = step
  BY <1>4 DEF g
<1> HIDE DEF step
<1>6. Folds(a, log, n + 1, g)
  BY <1>5 DEF Folds, step
<1> QED
  BY <1>6

\* There are states up to every event.
LEMMA FoldsExist ==
  ASSUME NEW a, NEW log, NEW n \in Nat
  PROVE  \E f : Folds(a, log, n, f)
<1> DEFINE I == {m \in Nat : ~\E f : Folds(a, log, m, f)}
<1>1. SUFFICES ASSUME I # {}
               PROVE  FALSE
  OBVIOUS
<1>2. I \in SUBSET Nat
  OBVIOUS
<1>3. PICK m \in I : \A v \in I : m <= v
  <2> HIDE DEF I
  <2> QED
    BY <1>1, <1>2, LeastNatural
<1>4. m # 0
  <2> DEFINE f == [v \in 0..0 |-> None]
  <2>1. f = [v \in 0..0 |-> IF v = 0 THEN None ELSE Applied(a, f[v - 1], log[v])]
    OBVIOUS
  <2>2. Folds(a, log, 0, f)
    BY <2>1 DEF Folds
  <2> QED
    BY <1>3, <2>2
<1>5. m - 1 \in Nat /\ ~(m <= m - 1) /\ (m - 1) + 1 = m
  BY <1>3, <1>4
<1>6. PICK f : Folds(a, log, m - 1, f)
  BY <1>3, <1>5
<1>7. \E g : Folds(a, log, (m - 1) + 1, g)
  BY <1>5, <1>6, FoldsGrow
<1> QED
  BY <1>3, <1>5, <1>7

\* `replay` returns the last of the states.
LEMMA ReplayIsLast ==
  ASSUME NEW a, NEW log, NEW E, log \in Seq(E), NEW f, Folds(a, log, Len(log), f)
  PROVE  Replay(a, log) = f[Len(log)]
<1> DEFINE n == Len(log)
           g == CHOOSE s : s = [v \in 0..n |-> IF v = 0 THEN None ELSE Applied(a, s[v - 1], log[v])]
<1>1. n \in Nat /\ n \in 0..n
  BY LenProperties
<1>2. Replay(a, log) = g[n]
  BY DEF Replay
<1>3. f = [v \in 0..n |-> IF v = 0 THEN None ELSE Applied(a, f[v - 1], log[v])]
  BY DEF Folds
<1>4. g = [v \in 0..n |-> IF v = 0 THEN None ELSE Applied(a, g[v - 1], log[v])]
  BY <1>3
<1> HIDE DEF g, n
<1>5. Folds(a, log, n, f) /\ Folds(a, log, n, g)
  BY <1>4 DEF Folds, n
<1>6. f[n] = g[n]
  BY <1>1, <1>5, FoldsAgree
<1> QED
  BY <1>2, <1>6 DEF n

\* An empty log folds to no state.
LEMMA ReplayEmpty ==
  ASSUME NEW a
  PROVE  Replay(a, << >>) = None
<1>1. PICK h : Folds(a, << >>, 0, h)
  BY FoldsExist
<1>2. << >> \in Seq({}) /\ Len(<< >>) = 0
  BY EmptySeq
<1>3. Replay(a, << >>) = h[0]
  BY <1>1, <1>2, ReplayIsLast
<1>4. h[0] = None
  BY <1>1 DEF Folds
<1> QED
  BY <1>3, <1>4

\* Each event is applied to what those before it fold to.
LEMMA ReplayStep ==
  ASSUME NEW a, NEW E, NEW log \in Seq(E), NEW e \in E
  PROVE  Replay(a, Append(log, e)) = Applied(a, Replay(a, log), e)
<1> DEFINE n == Len(log)
           rows == Append(log, e)
<1>1. n \in Nat /\ n + 1 \in Nat /\ n <= n + 1
  BY LenProperties
<1>9. rows \in Seq(E) /\ Len(rows) = n + 1 /\ rows[n + 1] = e
       /\ \A v \in 1..n : log[v] = rows[v]
  BY LenProperties, AppendProperties
<1> HIDE DEF n, rows
<1>2. PICK f : Folds(a, log, n, f)
  BY <1>1, FoldsExist
<1>3. PICK g : Folds(a, rows, n + 1, g)
  BY <1>1, FoldsExist
<1>4. Replay(a, log) = f[n] /\ Replay(a, rows) = g[n + 1]
  BY <1>9, <1>2, <1>3, ReplayIsLast DEF n
<1>5. n \in 0..n /\ n + 1 \in Nat /\ n <= n + 1 /\ n + 1 \in 0..(n + 1) /\ n + 1 # 0 /\ (n + 1) - 1 = n
  BY <1>1
<1>6. f[n] = g[n]
  <2>1. \A v \in 0..n : f[v] = g[v]
    BY <1>1, <1>9, <1>2, <1>3, FoldsAgree
  <2> QED
    BY <1>5, <2>1
<1>7. g[n + 1] = Applied(a, g[n], rows[n + 1])
  BY <1>3, <1>5 DEF Folds
<1> QED
  BY <1>9, <1>4, <1>6, <1>7 DEF rows

------------------------------------------------------------------------------
(* The invariant of the aggregates. *)

Creations == {"Created", "WorktreeCreated", "Registered"}
Ends == {"Deleted", "Removed"}
Keys == Fields \cup {"name"}

\* What the log of each kind of aggregate folds to, and its row.
WorktreeStates == [project : Projects, name : Names, place : Places, removed : BOOLEAN]
NewTrees == {d \in WorktreeStates : ~d.removed}
ActionStates == [command : Labels, removed : BOOLEAN]
ProjectStates == [Keys -> Labels \cup {None}]
ProjectRows == [Keys -> Labels \cup {None, Epoch}]
StatesOf(a) ==
  IF a \in Projects THEN ProjectStates ELSE IF a \in Worktrees THEN WorktreeStates ELSE ActionStates
RowsOf(a) == IF a \in Projects THEN ProjectRows ELSE StatesOf(a)

\* The events an aggregate logs; its sort key and its name are never cleared.
EventsOf(a) ==
  {e \in WorkspaceEvents :
     IF a \in Projects
     THEN e.kind \in {"Created", "Deleted"} \/ (e.kind = "Set" /\ (e.field = "sort" => e.val # None))
     ELSE IF a \in Worktrees THEN e.kind \in {"WorktreeCreated", "Removed"}
     ELSE e.kind \in {"Registered", "Updated", "Removed"}}

\* The state of an aggregate after a last event: a deleted project is forgotten,
\* anything else that has ended is marked.
StateAfter(a, st, last) ==
  IF a \in Projects THEN IF last.kind \in Ends THEN st = None ELSE st \in StatesOf(a)
  ELSE st \in StatesOf(a) /\ (st.removed <=> last.kind \in Ends)

\* A log that is lawful, and what it folds to.
LogOK(a, log) ==
  /\ log \in Seq(Events)
  /\ \A v \in 1..Len(log) : /\ log[v] \in EventsOf(a)
                            /\ v = 1 <=> log[v].kind \in Creations
                            /\ log[v].kind \in Ends => v = Len(log)
  /\ Len(log) = 0 => Replay(a, log) = None
  /\ Len(log) # 0 => StateAfter(a, Replay(a, log), log[Len(log)])

\* All but the last event of a log.
Front(s) == SubSeq(s, 1, Len(s) - 1)

------------------------------------------------------------------------------
(* What may be appended to a lawful log. *)

\* What the events of an aggregate say.
LEMMA EventTyped ==
  ASSUME NEW a, NEW e \in EventsOf(a)
  PROVE  /\ e \in WorkspaceEvents /\ e \in Events
         /\ a \in Projects => e.kind \in {"Created", "Set", "Deleted"}
         /\ a \notin Projects /\ a \in Worktrees => e.kind \in {"WorktreeCreated", "Removed"}
         /\ a \notin Projects /\ a \notin Worktrees => e.kind \in {"Registered", "Updated", "Removed"}
         /\ e.kind \in {"Created", "Registered", "Updated"} => e.val \in Labels
         /\ e.kind = "Set" => /\ e.field \in Keys /\ e.val \in Labels \cup {None}
                              /\ a \in Projects /\ e.field = "sort" => e.val # None
         /\ e.kind = "WorktreeCreated" => e.val \in NewTrees
<1>1. e \in WorkspaceEvents
  BY DEF EventsOf
<1>2. e \in Events
  BY <1>1, WorkspaceAssumption DEF WorkspaceAssumption
<1>3. /\ e.kind \in {"Created", "Registered", "Updated"} => e.val \in Labels
      /\ e.kind = "Set" => e.field \in Keys /\ e.val \in Labels \cup {None}
      /\ e.kind = "WorktreeCreated" => e.val \in NewTrees
  <2>1. CASE \E v \in Labels : e = Event("Created", "name", v)
    BY <2>1 DEF Event
  <2>2. CASE \E f \in Fields \cup {"name"}, v \in Labels \cup {None} : e = Event("Set", f, v)
    BY <2>2 DEF Event, Keys
  <2>3. CASE \E p \in Projects, n \in Names, place \in Places :
               e = Event("WorktreeCreated", None, WorktreeData(p, n, place))
    <3>1. PICK p \in Projects, n \in Names, place \in Places :
                 e = Event("WorktreeCreated", None, WorktreeData(p, n, place))
      BY <2>3
    <3>2. WorktreeData(p, n, place) \in NewTrees
      BY DEF WorktreeData, NewTrees, WorktreeStates
    <3>3. e.kind = "WorktreeCreated" /\ e.val = WorktreeData(p, n, place)
      BY <3>1 DEF Event
    <3> QED
      BY <3>2, <3>3
  <2>4. CASE \E v \in Labels : e = Event("Registered", None, v) \/ e = Event("Updated", None, v)
    BY <2>4 DEF Event
  <2>5. CASE e = Event("Deleted", None, None) \/ e = Event("Removed", None, None)
    BY <2>5 DEF Event
  <2> QED
    BY <1>1, <2>1, <2>2, <2>3, <2>4, <2>5 DEF WorkspaceEvents
<1>4. /\ a \in Projects => e.kind \in {"Created", "Set", "Deleted"}
      /\ a \notin Projects /\ a \in Worktrees => e.kind \in {"WorktreeCreated", "Removed"}
      /\ a \notin Projects /\ a \notin Worktrees => e.kind \in {"Registered", "Updated", "Removed"}
      /\ e.kind = "Set" /\ a \in Projects /\ e.field = "sort" => e.val # None
  BY DEF EventsOf
<1> QED
  BY <1>1, <1>2, <1>3, <1>4

\* What an event may follow: nothing, when it creates, and otherwise an aggregate that
\* there is.
MayFollow(a, log, e) ==
  IF log = << >> THEN e.kind \in Creations
  ELSE /\ e.kind \notin Creations /\ Replay(a, log) # None
       /\ a \notin Projects => ~Replay(a, log).removed

\* What an event makes of the state of an aggregate.
LEMMA AppliedTyped ==
  ASSUME NEW a, NEW st, NEW e \in EventsOf(a),
         e.kind \notin Creations => st \in StatesOf(a) /\ (a \notin Projects => ~st.removed)
  PROVE  StateAfter(a, Applied(a, st, e), e)
<1>1. CASE a \in Projects
  <2>1. CASE e.kind = "Created"
    <3>1. NewProject(e.val) \in ProjectStates
      BY <1>1, <2>1, EventTyped DEF NewProject, ProjectStates, Keys
    <3> QED
      BY <1>1, <2>1, <3>1 DEF StateAfter, Applied, ApplyToProject, Ends, StatesOf
  <2>2. CASE e.kind = "Set"
    <3>1. st \in ProjectStates /\ e.field \in Keys /\ e.val \in Labels \cup {None}
      BY <1>1, <2>2, EventTyped DEF Creations, StatesOf
    <3>2. st # None
      BY <3>1, WorkspaceAssumption DEF WorkspaceAssumption, ProjectStates, Keys
    <3>3. [st EXCEPT ![e.field] = e.val] \in ProjectStates
      BY <3>1 DEF ProjectStates
    <3> QED
      BY <1>1, <2>2, <3>2, <3>3 DEF StateAfter, Applied, ApplyToProject, Ends, StatesOf
  <2>3. CASE e.kind = "Deleted"
    BY <1>1, <2>3 DEF StateAfter, Applied, ApplyToProject, Ends
  <2> QED
    BY <1>1, <2>1, <2>2, <2>3, EventTyped
<1>2. CASE a \notin Projects /\ a \in Worktrees
  <2>1. CASE e.kind = "WorktreeCreated"
    <3>1. e.val \in WorktreeStates /\ ~e.val.removed
      BY <2>1, EventTyped DEF NewTrees
    <3> QED
      BY <1>2, <2>1, <3>1 DEF StateAfter, Applied, ApplyToWorktree, Ends, StatesOf
  <2>2. CASE e.kind = "Removed"
    <3>1. st \in WorktreeStates
      BY <1>2, <2>2 DEF Creations, StatesOf
    <3>2. st # None
      BY <3>1, WorkspaceAssumption DEF WorkspaceAssumption, WorktreeStates
    <3>3. [st EXCEPT !.removed = TRUE] \in WorktreeStates /\ [st EXCEPT !.removed = TRUE].removed
      BY <3>1 DEF WorktreeStates
    <3> QED
      BY <1>2, <2>2, <3>2, <3>3 DEF StateAfter, Applied, ApplyToWorktree, Ends, StatesOf
  <2> QED
    BY <1>2, <2>1, <2>2, EventTyped
<1>3. CASE a \notin Projects /\ a \notin Worktrees
  <2>1. CASE e.kind = "Registered"
    <3>1. e.val \in Labels
      BY <2>1, EventTyped
    <3>2. /\ [command |-> e.val, removed |-> FALSE] \in ActionStates
          /\ ~[command |-> e.val, removed |-> FALSE].removed
      BY <3>1 DEF ActionStates
    <3> QED
      BY <1>3, <2>1, <3>2 DEF StateAfter, Applied, ApplyToAction, Ends, StatesOf
  <2>2. CASE e.kind \in {"Updated", "Removed"}
    <3>1. st \in ActionStates /\ ~st.removed
      BY <1>3, <2>2 DEF Creations, StatesOf
    <3>2. st # None
      BY <3>1, WorkspaceAssumption DEF WorkspaceAssumption, ActionStates
    <3>3. [st EXCEPT !.removed = TRUE] \in ActionStates /\ [st EXCEPT !.removed = TRUE].removed
      BY <3>1 DEF ActionStates
    <3>4. CASE e.kind = "Updated"
      <4>1. e.val \in Labels
        BY <3>4, EventTyped
      <4>2. [st EXCEPT !.command = e.val] \in ActionStates /\ ~[st EXCEPT !.command = e.val].removed
        BY <3>1, <4>1 DEF ActionStates
      <4> QED
        BY <1>3, <3>2, <3>4, <4>2 DEF StateAfter, Applied, ApplyToAction, Ends, StatesOf
    <3>5. CASE e.kind = "Removed"
      BY <1>3, <3>2, <3>3, <3>5 DEF StateAfter, Applied, ApplyToAction, Ends, StatesOf
    <3> QED
      BY <2>2, <3>4, <3>5
  <2> QED
    BY <1>3, <2>1, <2>2, EventTyped
<1> QED
  BY <1>1, <1>2, <1>3

\* The state of an aggregate there is.
LEMMA PresentTyped ==
  ASSUME NEW a, NEW log, LogOK(a, log), Replay(a, log) # None
  PROVE  /\ log # << >> /\ Len(log) \in Nat \ {0} /\ Replay(a, log) \in StatesOf(a)
         /\ a \in Projects => log[Len(log)].kind \notin Ends
         /\ a \notin Projects => (Replay(a, log).removed <=> log[Len(log)].kind \in Ends)
<1>1. log \in Seq(Events) /\ Len(log) \in Nat /\ Len(log) # 0
  BY LenProperties DEF LogOK
<1>2. log # << >>
  BY <1>1, EmptySeq
<1> QED
  BY <1>1, <1>2 DEF LogOK, StateAfter

\* An event that may follow a lawful log keeps it lawful.
LEMMA LawfulAppend ==
  ASSUME NEW a, NEW log, LogOK(a, log), NEW e \in EventsOf(a), MayFollow(a, log, e)
  PROVE  LogOK(a, Append(log, e)) /\ Len(Append(log, e)) = Len(log) + 1 /\ Len(log) \in Nat
<1> DEFINE rows == Append(log, e)
           n == Len(log)
<1>1. log \in Seq(Events) /\ e \in Events
  BY EventTyped DEF LogOK
<1>2. /\ rows \in Seq(Events) /\ Len(rows) = n + 1 /\ n \in Nat /\ rows[n + 1] = e
      /\ \A v \in 1..n : rows[v] = log[v]
  BY <1>1, LenProperties, AppendProperties
<1>3. n = 0 <=> log = << >>
  BY <1>1, EmptySeq
<1>4. Replay(a, rows) = Applied(a, Replay(a, log), e)
  BY <1>1, ReplayStep
<1> HIDE DEF rows, n
<1>5. \A v \in 1..(n + 1) : v \in 1..n \/ v = n + 1
  BY <1>2
<1>6. (n + 1 = 1 <=> e.kind \in Creations)
  BY <1>2, <1>3 DEF MayFollow
<1>7. \A v \in 1..n : log[v] \in EventsOf(a) /\ (v = 1 <=> log[v].kind \in Creations)
  BY DEF LogOK, n
<1>8. \A v \in 1..n : log[v].kind \notin Ends
  <2> SUFFICES ASSUME NEW v \in 1..n, log[v].kind \in Ends
               PROVE  FALSE
    OBVIOUS
  <2>1. n # 0 /\ v = n
    BY <1>2 DEF LogOK, n
  <2>2. Replay(a, log) # None /\ (a \notin Projects => ~Replay(a, log).removed)
    BY <1>3, <2>1 DEF MayFollow
  <2> QED
    BY <2>1, <2>2, PresentTyped DEF n
<1>9. \A v \in 1..(n + 1) : /\ rows[v] \in EventsOf(a)
                            /\ v = 1 <=> rows[v].kind \in Creations
                            /\ rows[v].kind \in Ends => v = n + 1
  BY <1>2, <1>5, <1>6, <1>7, <1>8
<1>10. StateAfter(a, Replay(a, rows), e)
  <2>1. e.kind \notin Creations =>
          Replay(a, log) \in StatesOf(a) /\ (a \notin Projects => ~Replay(a, log).removed)
    BY PresentTyped DEF MayFollow
  <2> QED
    BY <1>4, <2>1, AppliedTyped
<1>11. LogOK(a, rows)
  <2>1. Len(rows) # 0
    BY <1>2
  <2> QED
    BY <1>2, <1>9, <1>10, <2>1 DEF LogOK
<1> QED
  BY <1>2, <1>11 DEF rows, n

\* A batch of one event goes to the end of the rows as `Append` says.
LEMMA InsertedIsAppend ==
  ASSUME NEW E, NEW s \in Seq(E), NEW e \in E
  PROVE  Inserted(s, Len(s), <<e>>) = Append(s, e)
<1> DEFINE b == <<e>>
           t == Inserted(s, Len(s), b)
           u == Append(s, e)
<1>1. b \in Seq(E) /\ Len(b) = 1 /\ b[1] = e
  OBVIOUS
<1>2. Len(s) \in Nat
  BY LenProperties
<1> HIDE DEF b
<1>3. /\ t \in Seq(E) /\ Len(t) = Len(s) + 1
      /\ \A v \in 1..Len(s) : t[v] = s[v]
      /\ \A v \in (Len(s) + 1)..(Len(s) + 1) : t[v] = b[v - Len(s)]
  <2>1. /\ t \in Seq(E) /\ Len(t) = Len(s) + Len(b)
        /\ \A v \in 1..Len(s) : t[v] = s[v]
        /\ \A v \in (Len(s) + 1)..(Len(s) + Len(b)) : t[v] = b[v - Len(s)]
    BY <1>1, InsertedAtHead
  <2> QED
    BY <1>1, <2>1
<1>4. t[Len(s) + 1] = e
  <2>1. Len(s) + 1 \in (Len(s) + 1)..(Len(s) + 1) /\ (Len(s) + 1) - Len(s) = 1
    BY <1>2
  <2> QED
    BY <1>1, <1>3, <2>1
<1>5. u \in Seq(E) /\ Len(u) = Len(s) + 1 /\ u[Len(s) + 1] = e /\ \A v \in 1..Len(s) : u[v] = s[v]
  BY AppendProperties
<1> HIDE DEF t, u
<1>6. \A v \in 1..Len(t) : t[v] = u[v]
  BY <1>2, <1>3, <1>4, <1>5
<1>7. t = u
  BY <1>3, <1>5, <1>6, SeqEqual
<1> QED
  BY <1>7 DEF t, u, b

\* What is before the last event of a log.
LEMMA FrontOfAppend ==
  ASSUME NEW E, NEW s \in Seq(E), NEW e \in E
  PROVE  Front(Append(s, e)) = s /\ Append(s, e)[Len(Append(s, e))] = e
<1> DEFINE u == Append(s, e)
           n == Len(s)
<1>1. /\ u \in Seq(E) /\ Len(u) = n + 1 /\ u[n + 1] = e /\ n \in Nat
      /\ \A v \in 1..n : u[v] = s[v]
  BY LenProperties, AppendProperties
<1> HIDE DEF u, n
<1>2. (n + 1) - 1 = n /\ 1 \in Int /\ n \in Int /\ \A v \in 1..n : u[v] \in E
  BY <1>1, ElementOfSeq DEF n
<1>3. /\ SubSeq(u, 1, n) \in Seq(E) /\ Len(SubSeq(u, 1, n)) = n
      /\ \A v \in 1..n : SubSeq(u, 1, n)[v] = u[v]
  BY <1>1, <1>2, SubSeqProperties
<1>4. SubSeq(u, 1, n) = s
  BY <1>1, <1>3, SeqEqual DEF n
<1> QED
  BY <1>1, <1>2, <1>4 DEF Front, u

\* Calls: what each command is about, and where it can be.
Listing == [project : Projects, name : Names, place : Places, head : BOOLEAN]
Ops == SyncOps \cup EnvOps \cup {"none", "worktree_create", "worktree_list", "worktree_remove"}
Ats == {"none", "git", "known", "import", "decide", "apply", "render", "write", "compose"}
Vals == Values \cup {None} \cup NewTrees \cup Places
Calls ==
  [op : Ops, agg : AllAggregates \cup {None}, field : Keys \cup {None}, val : Vals, at : Ats,
   found : SUBSET Listing, todo : SUBSET (Listing \cup (BaseFiles \X Templates))]
Deciding == {"decide", "apply"}
CallOK(c) ==
  /\ c.op = "none" => c.at = "none" /\ c = NoCall
  /\ c.op \in {"project_create", "project_set", "project_delete"} =>
       /\ c.agg \in Projects /\ c.at \in Deciding
       /\ c.op = "project_create" => c.field = "name"
       /\ c.op # "project_delete" => c.field \in Keys /\ c.val \in Values
  /\ c.op \in {"action_register", "action_update", "action_delete"} =>
       /\ c.agg \in Actions /\ c.at \in Deciding
       /\ c.op # "action_delete" => c.val \in Values
  /\ c.op = "worktree_create" =>
       /\ c.val \in NewTrees
       /\ c.at = "git" \/ (c.at \in Deciding /\ c.agg \in Worktrees)
  /\ c.op = "worktree_list" =>
       /\ c.at \in {"git", "known", "import"} \cup Deciding /\ c.todo \subseteq Listing
       /\ c.at = "git" => c.agg \in Projects
       /\ c.at \in Deciding => c.agg \in Worktrees /\ c.val \in NewTrees
  /\ c.op = "worktree_remove" => c.agg \in Worktrees /\ c.at \in {"git"} \cup Deciding
  /\ c.op \in EnvOps => c.at \in {"render", "write", "compose"}

Creating == {"project_create", "worktree_create", "worktree_list", "action_register"}
\* A call that has loaded its aggregate, or knows it to be new, and has yet to append.
Loaded(c) == c.at = "decide" \/ (c.op = "worktree_remove" /\ c.at = "git")
Fits(c, r) ==
  /\ c \in Calls /\ CallOK(c)
  /\ IF Loaded(c) THEN r # Idle /\ r.agg = c.agg /\ (c.op \in Creating => r.seen = NoRows)
     ELSE r = Idle

CallsInv ==
  /\ calls \in [Writers -> Calls]
  /\ \A w \in Writers : Fits(calls[w], writer[w])
Alone == \A w, x \in Writers : calls[w].op \in SyncOps /\ calls[x].op \in SyncOps => w = x
LogsInv == \A a \in AllAggregates : LogOK(a, table[a])
DiskInv == admin \in [Names -> Places \cup {None}]

\* A call whose event is in the log and has yet to go to the row.
Pending(w, a) == calls[w].at = "apply" /\ calls[w].agg = a
Behind(a) ==
  LogOK(a, Front(table[a])) /\ (a \in torn \/ row[a] = RowOf(a, Replay(a, Front(table[a]))))
RowsInv ==
  /\ DOMAIN row = AllAggregates
  /\ \A a \in AllAggregates : row[a] \in RowsOf(a) \cup {None}
  /\ \A a \in AllAggregates : table[a] = NoRows => row[a] = None /\ a \notin torn
  /\ \A w \in Writers, a \in AllAggregates :
       Pending(w, a) =>
         /\ \A x \in Writers : Pending(x, a) => x = w
         /\ table[a] # NoRows /\ Behind(a)
         /\ a \in Worktrees /\ calls[w].op # "worktree_remove" => row[a] = None
         /\ calls[w].op = "worktree_remove" => table[a][Len(table[a])].kind \in Ends
  /\ \A w \in Writers :
       calls[w].op = "worktree_remove" /\ calls[w].at # "apply" => row[calls[w].agg] # None

WorkInv == CallsInv /\ Alone /\ LogsInv /\ DiskInv /\ RowsInv /\ RowsMatchLog
SysInv == IInv /\ WorkInv

\* Ids and operations of different kinds differ.
LEMMA KindsDiffer ==
  /\ \A p \in Projects : p \notin Worktrees /\ p \notin Actions
  /\ \A i \in Worktrees : i \notin Projects /\ i \notin Actions
  /\ \A a \in Actions : a \notin Projects /\ a \notin Worktrees
  /\ Aggregates = AllAggregates
  /\ Projects \subseteq AllAggregates /\ Worktrees \subseteq AllAggregates /\ Actions \subseteq AllAggregates
  /\ AllAggregates = Projects \cup Worktrees \cup Actions
BY WorkspaceAssumption DEF WorkspaceAssumption, AllAggregates

\* The row of an aggregate follows the state its log folds to.
LEMMA RowFollows ==
  ASSUME NEW a, NEW log, LogOK(a, log), NEW e \in EventsOf(a), MayFollow(a, log, e),
         row[a] = RowOf(a, Replay(a, log))
  PROVE  AppliedRow(a, e) = RowOf(a, Applied(a, Replay(a, log), e))
<1> DEFINE st == Replay(a, log)
<1>1. e.kind \notin Creations =>
        st \in StatesOf(a) /\ st # None /\ (a \notin Projects => ~st.removed)
  BY PresentTyped DEF MayFollow
<1>2. /\ None \notin ProjectRows /\ None \notin ProjectStates
      /\ "sort" \in Keys
      /\ Epoch \in Labels \cup {None, Epoch}
  BY WorkspaceAssumption DEF WorkspaceAssumption, ProjectRows, ProjectStates, Keys
<1>3. row[a] = RowOf(a, st)
  OBVIOUS
<1> SUFFICES AppliedRow(a, e) = RowOf(a, Applied(a, st, e))
  OBVIOUS
<1> HIDE DEF st
<1>4. CASE a \in Projects
  <2>1. CASE e.kind = "Created"
    <3> DEFINE new == NewProject(e.val)
    <3>1. new \in ProjectStates /\ new["sort"] = None
      BY <1>2, <2>1, EventTyped DEF NewProject, ProjectStates, Keys
    <3>2. Applied(a, st, e) = new /\ AppliedRow(a, e) = [new EXCEPT !["sort"] = Epoch]
      BY <1>4, <2>1 DEF Applied, ApplyToProject, AppliedRow, ProjectRow
    <3>3. new # None
      BY <1>2, <3>1
    <3> HIDE DEF new
    <3> QED
      BY <1>4, <3>1, <3>2, <3>3 DEF RowOf
  <2>2. CASE e.kind = "Set"
    <3>1. /\ st \in ProjectStates /\ st # None /\ e.field \in Keys /\ e.val \in Labels \cup {None}
          /\ e.field = "sort" => e.val # None
      BY <1>1, <1>4, <2>2, EventTyped DEF Creations, StatesOf
    <3> DEFINE next == [st EXCEPT ![e.field] = e.val]
               r == RowOf(a, st)
    <3>2. next \in ProjectStates /\ next # None
      <4>1. next \in ProjectStates
        BY <3>1 DEF ProjectStates
      <4> QED
        BY <1>2, <4>1
    <3>3. r = IF st["sort"] = None THEN [st EXCEPT !["sort"] = Epoch] ELSE st
      BY <1>4, <3>1 DEF RowOf
    <3>4. r # None
      <4>1. r \in ProjectRows
        BY <3>1, <3>3 DEF ProjectStates, ProjectRows
      <4> QED
        BY <1>2, <4>1
    <3>5. Applied(a, st, e) = next /\ AppliedRow(a, e) = [r EXCEPT ![e.field] = e.val]
      BY <1>3, <1>4, <2>2, <3>1, <3>4 DEF Applied, ApplyToProject, AppliedRow, ProjectRow
    <3>6. RowOf(a, next) = IF next["sort"] = None THEN [next EXCEPT !["sort"] = Epoch] ELSE next
      BY <1>4, <3>2 DEF RowOf
    <3>7. CASE e.field = "sort"
      <4>1. next["sort"] # None
        BY <1>2, <3>1, <3>7 DEF ProjectStates
      <4>2. [r EXCEPT !["sort"] = e.val] = [st EXCEPT !["sort"] = e.val]
        BY <3>1, <3>3 DEF ProjectStates
      <4> QED
        BY <3>5, <3>6, <3>7, <4>1, <4>2
    <3>8. CASE e.field # "sort"
      <4>1. next["sort"] = st["sort"]
        BY <1>2, <3>1, <3>8 DEF ProjectStates
      <4>2. CASE st["sort"] = None
        <5>1. [[st EXCEPT !["sort"] = Epoch] EXCEPT ![e.field] = e.val]
                = [next EXCEPT !["sort"] = Epoch]
          BY <3>1, <3>8 DEF ProjectStates
        <5>2. r = [st EXCEPT !["sort"] = Epoch]
          BY <3>3, <4>2
        <5> HIDE DEF next, r
        <5> QED
          BY <3>5, <3>6, <4>1, <4>2, <5>1, <5>2
      <4>3. CASE st["sort"] # None
        BY <3>3, <3>5, <3>6, <4>1, <4>3
      <4> QED
        BY <4>2, <4>3
    <3> QED
      BY <3>7, <3>8
  <2>3. CASE e.kind = "Deleted"
    BY <1>4, <2>3 DEF Applied, ApplyToProject, AppliedRow, ProjectRow, RowOf
  <2> QED
    BY <1>4, <2>1, <2>2, <2>3, EventTyped
<1>5. CASE a \notin Projects
  <2>1. row[a] = st /\ RowOf(a, Applied(a, st, e)) = Applied(a, st, e)
    BY <1>3, <1>5 DEF RowOf
  <2> QED
    BY <1>5, <2>1
    DEF Applied, ApplyToWorktree, ApplyToAction, AppliedRow, WorktreeRow, ActionRow
<1> QED
  BY <1>4, <1>5

\* Whatever row an event meets, it leaves one, or none; that of a worktree stays.
LEMMA RowTyped ==
  ASSUME NEW a, row[a] \in RowsOf(a) \cup {None}, NEW e \in EventsOf(a)
  PROVE  /\ AppliedRow(a, e) \in RowsOf(a) \cup {None}
         /\ a \notin Projects /\ a \in Worktrees /\ row[a] # None => AppliedRow(a, e) # None
<1> DEFINE r == row[a]
<1>1. CASE a \in Projects
  <2>1. r \in ProjectRows \cup {None} /\ AppliedRow(a, e) = ProjectRow(r, e)
    BY <1>1 DEF RowsOf, AppliedRow
  <2>2. CASE e.kind = "Created"
    <3>1. NewProject(e.val) \in ProjectStates
      BY <2>2, EventTyped DEF NewProject, ProjectStates, Keys
    <3>2. [NewProject(e.val) EXCEPT !["sort"] = Epoch] \in ProjectRows
      BY <3>1 DEF ProjectStates, ProjectRows
    <3> QED
      BY <1>1, <2>1, <2>2, <3>2 DEF ProjectRow, RowsOf
  <2>3. CASE e.kind = "Set"
    <3>1. e.field \in Keys /\ e.val \in Labels \cup {None}
      BY <2>3, EventTyped
    <3>2. r \in ProjectRows => [r EXCEPT ![e.field] = e.val] \in ProjectRows
      BY <3>1 DEF ProjectRows
    <3> QED
      BY <1>1, <2>1, <2>3, <3>2 DEF ProjectRow, RowsOf
  <2>4. CASE e.kind = "Deleted"
    BY <1>1, <2>1, <2>4 DEF ProjectRow, RowsOf
  <2> QED
    BY <1>1, <2>2, <2>3, <2>4, EventTyped
<1>2. CASE a \notin Projects /\ a \in Worktrees
  <2>1. r \in WorktreeStates \cup {None} /\ AppliedRow(a, e) = WorktreeRow(r, e)
    BY <1>2 DEF RowsOf, StatesOf, AppliedRow
  <2>2. e.kind = "WorktreeCreated" => e.val \in WorktreeStates
    BY EventTyped DEF NewTrees
  <2>3. r \in WorktreeStates => [r EXCEPT !.removed = TRUE] \in WorktreeStates
    BY DEF WorktreeStates
  <2>4. None \notin WorktreeStates
    BY WorkspaceAssumption DEF WorkspaceAssumption, WorktreeStates
  <2> QED
    BY <1>2, <2>1, <2>2, <2>3, <2>4 DEF WorktreeRow, RowsOf, StatesOf
<1>3. CASE a \notin Projects /\ a \notin Worktrees
  <2>1. r \in ActionStates \cup {None} /\ AppliedRow(a, e) = ActionRow(r, e)
    BY <1>3 DEF RowsOf, StatesOf, AppliedRow
  <2>2. e.kind \in {"Registered", "Updated"} => e.val \in Labels
    BY EventTyped
  <2>3. /\ e.kind = "Registered" => [command |-> e.val, removed |-> FALSE] \in ActionStates
        /\ r \in ActionStates => [r EXCEPT !.removed = TRUE] \in ActionStates
        /\ r \in ActionStates /\ e.kind = "Updated" => [r EXCEPT !.command = e.val] \in ActionStates
    BY <2>2 DEF ActionStates
  <2> QED
    BY <1>3, <2>1, <2>3 DEF ActionRow, RowsOf, StatesOf
<1> QED
  BY <1>1, <1>2, <1>3

\* What a command decides: nothing, or one event of its aggregate, which creates it or
\* finds it there.
LEMMA DecidesOne ==
  ASSUME NEW c \in Calls, CallOK(c), c.at = "decide", NEW st, Decide(st, c).events # << >>
  PROVE  /\ c.agg \in AllAggregates
         /\ \E e \in EventsOf(c.agg) :
              /\ Decide(st, c).events = <<e>>
              /\ e.kind \in Creations <=> c.op \in Creating
              /\ c.op \notin Creating => st # None /\ (c.agg \notin Projects => ~st.removed)
              /\ c.op = "worktree_remove" => e.kind = "Removed"
<1> DEFINE a == c.agg
           v == Normalized(c.val)
<1>1. c.val \in Values => v \in Labels \cup {None}
  BY DEF Normalized, Values
<1> HIDE DEF v
<1>2. ASSUME NEW e \in WorkspaceEvents
      PROVE  /\ a \in Projects /\ (e.kind \in {"Created", "Deleted"}
                 \/ (e.kind = "Set" /\ (e.field = "sort" => e.val # None))) => e \in EventsOf(a)
             /\ a \in Worktrees /\ e.kind \in {"WorktreeCreated", "Removed"} => e \in EventsOf(a)
             /\ a \in Actions /\ e.kind \in {"Registered", "Updated", "Removed"} => e \in EventsOf(a)
  BY KindsDiffer DEF EventsOf
<1>3. CASE c.op \in {"project_create", "project_set", "project_delete"}
  <2>1. a \in Projects /\ Decide(st, c) = DecideProject(st, c)
    BY <1>3 DEF CallOK, Decide
  <2>2. CASE c.op = "project_create"
    <3> DEFINE e == Event("Created", "name", v)
    <3>1. DecideProject(st, c).events = <<e>> /\ v # None
      BY <2>1, <2>2 DEF DecideProject, Refused, Decided, v, CallOK
    <3>2. v \in Labels
      BY <1>1, <2>2, <3>1 DEF CallOK
    <3>3. e \in WorkspaceEvents /\ e.kind = "Created"
      BY <3>2 DEF WorkspaceEvents, Event
    <3> HIDE DEF e
    <3> QED
      BY <1>2, <2>1, <2>2, <3>1, <3>3, KindsDiffer DEF Creations, Creating
  <2>3. CASE c.op = "project_delete"
    <3> DEFINE e == Event("Deleted", None, None)
    <3>1. DecideProject(st, c).events = <<e>> /\ st # None
      BY <2>1, <2>3 DEF DecideProject, Refused, Decided
    <3>2. e \in WorkspaceEvents /\ e.kind = "Deleted"
      BY DEF WorkspaceEvents, Event
    <3> HIDE DEF e
    <3> QED
      BY <1>2, <2>1, <2>3, <3>1, <3>2, KindsDiffer DEF Creations, Creating
  <2>4. CASE c.op = "project_set"
    <3> DEFINE e == Event("Set", c.field, v)
    <3>1. DecideProject(st, c).events = <<e>> /\ st # None /\ (c.field = "sort" => v # None)
      BY <2>1, <2>4 DEF DecideProject, Refused, Decided, v
    <3>2. v \in Labels \cup {None} /\ c.field \in Keys
      BY <1>1, <2>4 DEF CallOK
    <3>3. e \in WorkspaceEvents /\ e.kind = "Set" /\ e.field = c.field /\ e.val = v
      <4>1. e \in {Event("Set", f, w) : f \in Fields \cup {"name"}, w \in Labels \cup {None}}
        BY <3>2 DEF Keys
      <4>2. e.kind = "Set" /\ e.field = c.field /\ e.val = v
        BY DEF Event
      <4> QED
        BY <4>1, <4>2 DEF WorkspaceEvents
    <3> HIDE DEF e
    <3> QED
      BY <1>2, <2>1, <2>4, <3>1, <3>3, KindsDiffer DEF Creations, Creating
  <2> QED
    BY <1>3, <2>2, <2>3, <2>4
<1>4. CASE c.op \in {"action_register", "action_update", "action_delete"}
  <2>1. a \in Actions /\ Decide(st, c) = DecideAction(st, c)
    BY <1>4, KindsDiffer DEF CallOK, Decide
  <2>2. CASE c.op = "action_register"
    <3> DEFINE e == Event("Registered", None, c.val)
    <3>1. DecideAction(st, c).events = <<e>> /\ c.val # Blank
      BY <2>1, <2>2 DEF DecideAction, Refused, Decided
    <3>2. c.val \in Labels
      BY <2>2, <3>1 DEF CallOK, Values
    <3>3. e \in WorkspaceEvents /\ e.kind = "Registered"
      BY <3>2 DEF WorkspaceEvents, Event
    <3> HIDE DEF e
    <3> QED
      BY <1>2, <2>1, <2>2, <3>1, <3>3, KindsDiffer DEF Creations, Creating
  <2>3. CASE c.op = "action_delete"
    <3> DEFINE e == Event("Removed", None, None)
    <3>1. DecideAction(st, c).events = <<e>> /\ st # None /\ ~st.removed
      BY <2>1, <2>3 DEF DecideAction, Refused, Decided
    <3>2. e \in WorkspaceEvents /\ e.kind = "Removed"
      BY DEF WorkspaceEvents, Event
    <3> HIDE DEF e
    <3> QED
      BY <1>2, <2>1, <2>3, <3>1, <3>2, KindsDiffer DEF Creations, Creating
  <2>4. CASE c.op = "action_update"
    <3> DEFINE e == Event("Updated", None, c.val)
    <3>1. DecideAction(st, c).events = <<e>> /\ st # None /\ ~st.removed /\ c.val # Blank
      BY <2>1, <2>4 DEF DecideAction, Refused, Decided
    <3>2. c.val \in Labels
      BY <2>4, <3>1 DEF CallOK, Values
    <3>3. e \in WorkspaceEvents /\ e.kind = "Updated"
      BY <3>2 DEF WorkspaceEvents, Event
    <3> HIDE DEF e
    <3> QED
      BY <1>2, <2>1, <2>4, <3>1, <3>3, KindsDiffer DEF Creations, Creating
  <2> QED
    BY <1>4, <2>2, <2>3, <2>4
<1>5. CASE c.op = "worktree_remove"
  <2> DEFINE e == Event("Removed", None, None)
  <2>1. a \in Worktrees /\ Decide(st, c) = DecideWorktree(st, c)
    BY <1>5, KindsDiffer DEF CallOK, Decide
  <2>2. DecideWorktree(st, c).events = <<e>> /\ st # None /\ ~st.removed
    BY <1>5, <2>1 DEF DecideWorktree, Refused, Decided
  <2>3. e \in WorkspaceEvents /\ e.kind = "Removed"
    BY DEF WorkspaceEvents, Event
  <2> HIDE DEF e
  <2> QED
    BY <1>2, <1>5, <2>1, <2>2, <2>3, KindsDiffer DEF Creations, Creating
<1>6. CASE c.op \in {"worktree_create", "worktree_list"}
  <2> DEFINE e == Event("WorktreeCreated", None, c.val)
  <2>1. a \in Worktrees /\ c.val \in NewTrees
    BY <1>6 DEF CallOK, Deciding
  <2>2. Decide(st, c) = DecideWorktree(st, c)
    BY <2>1, KindsDiffer DEF Decide
  <2>3. DecideWorktree(st, c).events = <<e>>
    BY <1>6, <2>2 DEF DecideWorktree, Refused, Decided
  <2>4. e \in WorkspaceEvents /\ e.kind = "WorktreeCreated"
    <3>1. PICK p \in Projects, n \in Names, place \in Places : c.val = WorktreeData(p, n, place)
      <4>1. /\ c.val.project \in Projects /\ c.val.name \in Names /\ c.val.place \in Places
            /\ c.val = WorktreeData(c.val.project, c.val.name, c.val.place)
        BY <2>1 DEF NewTrees, WorktreeStates, WorktreeData
      <4> QED
        BY <4>1
    <3> QED
      BY <3>1 DEF WorkspaceEvents, Event
  <2> HIDE DEF e
  <2> QED
    BY <1>2, <1>6, <2>1, <2>2, <2>3, <2>4, KindsDiffer DEF Creations, Creating
<1>7. c.op \notin EnvOps \cup {"none"}
  BY DEF CallOK, NoCall
<1>8. c.op \in Ops
  BY DEF Calls
<1> QED
  BY <1>3, <1>4, <1>5, <1>6, <1>7, <1>8 DEF Ops, SyncOps


------------------------------------------------------------------------------
(* Steps of a call that append nothing and apply nothing. *)

\* The call of a writer goes on, and with it what the writer holds.
Turns(w, c, r) ==
  /\ UNCHANGED <<table, row, torn>>
  /\ calls' = [calls EXCEPT ![w] = c] /\ writer' = [writer EXCEPT ![w] = r]
  /\ Fits(c, r) /\ c.at # "apply" /\ calls[w].at # "apply"
  /\ c.op \in SyncOps => calls[w].op \in SyncOps \/ MainThreadFree
  /\ c.op = "worktree_remove" => row[c.agg] # None

\* Such a step keeps the invariant.
LEMMA TurnKeeps ==
  ASSUME SysInv, NEW w \in Writers, NEW c, NEW r, Turns(w, c, r), DiskInv'
  PROVE  WorkInv'
<1>1. /\ calls \in [Writers -> Calls] /\ \A x \in Writers : Fits(calls[x], writer[x])
      /\ writer \in [Writers -> Held \cup {Idle}]
  BY DEF SysInv, WorkInv, CallsInv, IInv, TypedRows
<1>2. /\ calls'[w] = c /\ writer'[w] = r
      /\ \A x \in Writers \ {w} : calls'[x] = calls[x] /\ writer'[x] = writer[x]
  BY <1>1 DEF Turns
<1>3. c \in Calls /\ table' = table /\ row' = row /\ torn' = torn
  BY DEF Turns, Fits
<1>4. CallsInv'
  BY <1>1, <1>2, <1>3 DEF CallsInv, Turns
<1>5. Alone'
  <2> SUFFICES ASSUME NEW x \in Writers, NEW y \in Writers,
                      calls'[x].op \in SyncOps, calls'[y].op \in SyncOps
               PROVE  x = y
    BY DEF Alone
  <2>1. Alone
    BY DEF SysInv, WorkInv
  <2> QED
    BY <1>2, <2>1 DEF Alone, Turns, MainThreadFree
<1>6. LogsInv'
  BY <1>3 DEF SysInv, WorkInv, LogsInv
<1>7. \A x \in Writers, a \in AllAggregates : Pending(x, a)' <=> Pending(x, a) /\ x # w
  BY <1>2 DEF Pending, Turns
<1>8. \A a \in AllAggregates : ~Pending(w, a)
  BY DEF Pending, Turns
<1>9. RowsInv'
  <2>1. RowsInv
    BY DEF SysInv, WorkInv
  <2>2. \A a \in AllAggregates : row[a] \in RowsOf(a) \cup {None}
    BY <2>1 DEF RowsInv
  <2>3. \A a \in AllAggregates : Behind(a)' <=> Behind(a)
    BY <1>3 DEF Behind
  <2>4. ASSUME NEW x \in Writers, NEW a \in AllAggregates, Pending(x, a)'
        PROVE  /\ \A y \in Writers : Pending(y, a)' => y = x
               /\ table'[a] # NoRows /\ Behind(a)'
               /\ a \in Worktrees /\ calls'[x].op # "worktree_remove" => row'[a] = None
               /\ calls'[x].op = "worktree_remove" => table'[a][Len(table'[a])].kind \in Ends
    <3>1. Pending(x, a) /\ x # w /\ calls'[x] = calls[x]
      BY <1>2, <1>7, <2>4
    <3>2. /\ \A y \in Writers : Pending(y, a) => y = x
          /\ table[a] # NoRows /\ Behind(a)
          /\ a \in Worktrees /\ calls[x].op # "worktree_remove" => row[a] = None
          /\ calls[x].op = "worktree_remove" => table[a][Len(table[a])].kind \in Ends
      BY <2>1, <3>1 DEF RowsInv
    <3> QED
      BY <1>3, <1>7, <2>3, <3>1, <3>2
  <2>5. \A x \in Writers : calls'[x].op = "worktree_remove" /\ calls'[x].at # "apply" =>
                             row'[calls'[x].agg] # None
    <3> TAKE x \in Writers
    <3>1. CASE x = w
      BY <1>2, <1>3, <3>1 DEF Turns
    <3>2. CASE x # w
      BY <1>2, <1>3, <2>1, <3>2 DEF RowsInv
    <3> QED
      BY <3>1, <3>2
  <2>6. /\ DOMAIN row' = AllAggregates
        /\ \A a \in AllAggregates : row'[a] \in RowsOf(a) \cup {None}
        /\ \A a \in AllAggregates : table'[a] = NoRows => row'[a] = None /\ a \notin torn'
    BY <1>3, <2>1 DEF RowsInv
  <2> QED
    BY <2>4, <2>5, <2>6 DEF RowsInv
<1>10. RowsMatchLog'
  <2> SUFFICES ASSUME NEW a \in AllAggregates
               PROVE  \/ a \in torn \/ \E x \in Writers : Pending(x, a)'
                      \/ row[a] = RowOf(a, Replay(a, table[a]))
    BY <1>3 DEF RowsMatchLog, Pending
  <2>1. \/ a \in torn \/ \E x \in Writers : Pending(x, a)
        \/ row[a] = RowOf(a, Replay(a, table[a]))
    BY DEF SysInv, WorkInv, RowsMatchLog, Pending
  <2> QED
    BY <1>7, <1>8, <2>1
<1> QED
  BY <1>4, <1>5, <1>6, <1>9, <1>10 DEF WorkInv

\* Steps that touch neither the databases nor a call keep it.
LEMMA StandKeeps ==
  ASSUME SysInv, UNCHANGED <<table, writer, row, calls, torn>>, DiskInv'
  PROVE  [Next]_vars /\ WorkInv'
<1>1. UNCHANGED vars
  BY DEF vars
<1>2. CallsInv' /\ Alone' /\ LogsInv'
  BY DEF SysInv, WorkInv, CallsInv, Alone, LogsInv
<1>3. RowsInv' /\ RowsMatchLog'
  BY DEF SysInv, WorkInv, RowsInv, RowsMatchLog, Pending, Behind
<1> QED
  BY <1>1, <1>2, <1>3 DEF WorkInv

\* What a writer holds is what its call has loaded.
LEMMA HeldFits ==
  ASSUME SysInv, NEW w \in Writers
  PROVE  /\ calls \in [Writers -> Calls] /\ calls[w] \in Calls /\ CallOK(calls[w])
         /\ writer \in [Writers -> Held \cup {Idle}]
         /\ Fits(calls[w], writer[w])
         /\ ~Loaded(calls[w]) => writer[w] = Idle
         /\ calls[w] = NoCall => calls[w].at = "none" /\ calls[w].op = "none" /\ ~Loaded(calls[w])
         /\ calls[w].op = "worktree_remove" /\ calls[w].at # "apply" => row[calls[w].agg] # None
BY DEF SysInv, WorkInv, CallsInv, IInv, TypedRows, Fits, NoCall, Loaded, RowsInv

\* A call loads an aggregate, or begins a new one.
LEMMA LoadTurn ==
  ASSUME SysInv, NEW w \in Writers, NEW c \in Calls, CallOK(c), Loaded(c), c.agg \in AllAggregates,
         calls' = [calls EXCEPT ![w] = c], calls[w].at # "apply",
         Load(w, c.agg) \/ Create(w, c.agg), c.op \in Creating => Create(w, c.agg),
         UNCHANGED <<row, torn>>, DiskInv',
         c.op \in SyncOps => calls[w].op \in SyncOps \/ MainThreadFree,
         c.op = "worktree_remove" => row[c.agg] # None
  PROVE  [Next]_vars /\ WorkInv'
<1>1. c.agg \in Aggregates
  BY KindsDiffer
<1>2. Next
  BY <1>1 DEF Next
<1>3. c.at # "apply"
  BY DEF Loaded
<1>4. CASE Create(w, c.agg)
  <2> DEFINE r == [pc |-> "loaded", agg |-> c.agg, seen |-> NoRows, expected |-> 0]
  <2>1. writer' = [writer EXCEPT ![w] = r] /\ UNCHANGED table
    BY <1>4 DEF Create
  <2>2. r # Idle /\ r.agg = c.agg /\ r.seen = NoRows
    <3>1. r.pc = "loaded" /\ Idle.pc = "idle"
      BY DEF Idle
    <3> QED
      BY <3>1
  <2> HIDE DEF r
  <2>3. Fits(c, r)
    BY <2>2 DEF Fits
  <2>4. Turns(w, c, r)
    BY <1>3, <2>1, <2>3 DEF Turns
  <2> QED
    BY <1>2, <2>4, TurnKeeps
<1>5. CASE c.op \notin Creating /\ Load(w, c.agg)
  <2> DEFINE r == [pc |-> "loaded", agg |-> c.agg, seen |-> table[c.agg],
                   expected |-> HeadVersion(table[c.agg])]
  <2>1. writer' = [writer EXCEPT ![w] = r] /\ UNCHANGED table
    BY <1>5 DEF Load
  <2>2. r # Idle /\ r.agg = c.agg
    <3>1. r.pc = "loaded" /\ Idle.pc = "idle"
      BY DEF Idle
    <3> QED
      BY <3>1
  <2> HIDE DEF r
  <2>3. Fits(c, r)
    BY <1>5, <2>2 DEF Fits
  <2>4. Turns(w, c, r)
    BY <1>3, <2>1, <2>3 DEF Turns
  <2> QED
    BY <1>2, <2>4, TurnKeeps
<1> QED
  BY <1>4, <1>5

\* A call goes on, or returns, and its writer holds nothing after it.
LEMMA FreeTurn ==
  ASSUME SysInv, NEW w \in Writers, NEW c \in Calls, CallOK(c), ~Loaded(c),
         calls' = [calls EXCEPT ![w] = c], calls[w].at # "apply", c.at # "apply",
         \/ writer' = [writer EXCEPT ![w] = Idle]
         \/ UNCHANGED writer /\ ~Loaded(calls[w]),
         UNCHANGED <<table, row, torn>>, DiskInv',
         c.op \notin SyncOps, c.op = "worktree_remove" => row[c.agg] # None
  PROVE  [Next]_vars /\ WorkInv'
<1>1. writer \in [Writers -> Held \cup {Idle}] /\ (~Loaded(calls[w]) => writer[w] = Idle)
  BY HeldFits
<1>2. writer' = [writer EXCEPT ![w] = Idle]
  BY <1>1
<1>3. Fits(c, Idle)
  BY DEF Fits
<1>4. Turns(w, c, Idle)
  BY <1>2, <1>3 DEF Turns
<1>5. [Next]_vars
  <2>1. CASE writer[w] = Idle
    <3>1. writer' = writer
      BY <1>1, <1>2, <2>1
    <3> QED
      BY <3>1 DEF vars
  <2>2. CASE writer[w] # Idle
    <3>1. Release(w)
      BY <1>2, <2>2 DEF Release
    <3> QED
      BY <3>1 DEF Next
  <2> QED
    BY <2>1, <2>2
<1> QED
  BY <1>4, <1>5, TurnKeeps


------------------------------------------------------------------------------
(* The commands, up to what they decide. *)

\* A call that begins.
LEMMA CallFields ==
  ASSUME NEW op, NEW a, NEW f, NEW v, NEW at,
         op \in Ops, a \in AllAggregates \cup {None}, f \in Keys \cup {None}, v \in Vals, at \in Ats
  PROVE  /\ Call(op, a, f, v, at) \in Calls
         /\ Call(op, a, f, v, at).op = op /\ Call(op, a, f, v, at).agg = a
         /\ Call(op, a, f, v, at).field = f /\ Call(op, a, f, v, at).val = v
         /\ Call(op, a, f, v, at).at = at /\ Call(op, a, f, v, at).todo = {}
<1> DEFINE c == Call(op, a, f, v, at)
<1>1. c = [[[[[NoCall EXCEPT !.op = op] EXCEPT !.agg = a] EXCEPT !.field = f] EXCEPT !.val = v]
             EXCEPT !.at = at]
  BY DEF Call
<1>2. NoCall = [op |-> "none", agg |-> None, field |-> None, val |-> None, at |-> "none",
                found |-> {}, todo |-> {}]
  BY DEF NoCall
<1>3. c = [op |-> op, agg |-> a, field |-> f, val |-> v, at |-> at, found |-> {}, todo |-> {}]
  BY <1>1, <1>2
<1> HIDE DEF c
<1> QED
  BY <1>3 DEF Calls, c

\* A shown worktree or action has a row, and a worktree's says where it is.
LEMMA ShownHasRow ==
  ASSUME SysInv
  PROVE  /\ \A i \in Worktrees : IsShown(i) => row[i] # None /\ row[i] \in WorktreeStates
         /\ \A i \in Worktrees : row[i] # None => row[i] \in WorktreeStates
<1>1. \A a \in AllAggregates : row[a] \in RowsOf(a) \cup {None}
  BY DEF SysInv, WorkInv, RowsInv
<1>2. ASSUME NEW i \in Worktrees
      PROVE  row[i] \in WorktreeStates \cup {None} /\ i \notin Projects
  BY <1>1, KindsDiffer DEF RowsOf, StatesOf
<1>3. \A i \in Worktrees : IsShown(i) => row[i] # None
  BY <1>2 DEF IsShown
<1> QED
  BY <1>2, <1>3

\* project_create, and the commands on a project there is.
LEMMA ProjectBegins ==
  ASSUME SysInv, NEW w \in Writers, BeginProjectCreate(w) \/ BeginProject(w)
  PROVE  [Next]_vars /\ WorkInv'
<1>1. UNCHANGED <<row, torn>> /\ DiskInv' /\ MainThreadFree
  BY DEF BeginProjectCreate, BeginProject, disk, SysInv, WorkInv, DiskInv
<1>2. CASE BeginProjectCreate(w)
  <2>1. PICK v \in Values, p \in Unused(Projects) :
          Begin(w, Call("project_create", p, "name", v, "decide")) /\ Create(w, p)
    BY <1>2 DEF BeginProjectCreate
  <2> DEFINE c == Call("project_create", p, "name", v, "decide")
  <2>2. p \in Projects /\ p \in AllAggregates
    BY KindsDiffer DEF Unused
  <2>3. c \in Calls /\ c.op = "project_create" /\ c.agg = p /\ c.field = "name" /\ c.val = v
        /\ c.at = "decide"
      <3>1. /\ "project_create" \in Ops /\ "decide" \in Ats /\ p \in AllAggregates \cup {None}
            /\ "name" \in Keys \cup {None} /\ v \in Vals
        BY <2>2 DEF Ops, Ats, Vals, SyncOps, Keys
      <3> QED
        BY <2>2, <3>1, CallFields
  <2>4. calls[w] = NoCall /\ calls' = [calls EXCEPT ![w] = c]
    BY <2>1 DEF Begin
  <2> HIDE DEF c
  <2>5. CallOK(c) /\ Loaded(c)
    BY <2>2, <2>3 DEF CallOK, Loaded, Deciding, EnvOps, Keys
  <2>6. calls[w].at # "apply"
    BY <2>4 DEF NoCall
  <2> QED
    BY <1>1, <2>1, <2>2, <2>3, <2>4, <2>5, <2>6, LoadTurn
<1>3. CASE BeginProject(w)
  <2>1. PICK p \in Projects :
          /\ Load(w, p)
          /\ \/ \E f \in Fields \cup {"name"}, v \in Values :
                  Begin(w, Call("project_set", p, f, v, "decide"))
             \/ Begin(w, Call("project_delete", p, None, None, "decide"))
    BY <1>3 DEF BeginProject
  <2>2. p \in AllAggregates
    BY KindsDiffer
  <2>3. ASSUME NEW f \in Fields \cup {"name"}, NEW v \in Values,
               Begin(w, Call("project_set", p, f, v, "decide"))
        PROVE  [Next]_vars /\ WorkInv'
    <3> DEFINE c == Call("project_set", p, f, v, "decide")
    <3>1. c \in Calls /\ c.op = "project_set" /\ c.agg = p /\ c.field = f /\ c.val = v
          /\ c.at = "decide"
        <4>1. /\ "project_set" \in Ops /\ "decide" \in Ats /\ p \in AllAggregates \cup {None}
              /\ f \in Keys \cup {None} /\ v \in Vals
          BY <2>2 DEF Ops, Ats, Vals, SyncOps, Keys
        <4> QED
          BY <2>2, <4>1, CallFields
    <3>2. calls[w] = NoCall /\ calls' = [calls EXCEPT ![w] = c]
      BY <2>3 DEF Begin
    <3> HIDE DEF c
    <3>3. CallOK(c) /\ Loaded(c)
      BY <3>1 DEF CallOK, Loaded, Deciding, EnvOps, Keys
    <3>4. calls[w].at # "apply"
      BY <3>2 DEF NoCall
    <3>5. c.op \notin Creating
      BY <3>1 DEF Creating
    <3> QED
      BY <1>1, <2>1, <2>2, <3>1, <3>2, <3>3, <3>4, <3>5, LoadTurn
  <2>4. ASSUME Begin(w, Call("project_delete", p, None, None, "decide"))
        PROVE  [Next]_vars /\ WorkInv'
    <3> DEFINE c == Call("project_delete", p, None, None, "decide")
    <3>1. c \in Calls /\ c.op = "project_delete" /\ c.agg = p /\ c.at = "decide"
        <4>1. /\ "project_delete" \in Ops /\ "decide" \in Ats /\ p \in AllAggregates \cup {None}
              /\ None \in Keys \cup {None} /\ None \in Vals
          BY <2>2 DEF Ops, Ats, Vals, SyncOps
        <4> QED
          BY <2>2, <4>1, CallFields
    <3>2. calls[w] = NoCall /\ calls' = [calls EXCEPT ![w] = c]
      BY <2>4 DEF Begin
    <3> HIDE DEF c
    <3>3. CallOK(c) /\ Loaded(c)
      BY <3>1 DEF CallOK, Loaded, Deciding, EnvOps
    <3>4. calls[w].at # "apply"
      BY <3>2 DEF NoCall
    <3>5. c.op \notin Creating
      BY <3>1 DEF Creating
    <3> QED
      BY <1>1, <2>1, <2>2, <3>1, <3>2, <3>3, <3>4, <3>5, LoadTurn
  <2> QED
    BY <2>1, <2>3, <2>4
<1> QED
  BY <1>2, <1>3

\* action_upsert and action_delete.
LEMMA ActionBegins ==
  ASSUME SysInv, NEW w \in Writers, BeginActionUpsert(w) \/ BeginActionDelete(w)
  PROVE  [Next]_vars /\ WorkInv'
<1>1. UNCHANGED <<row, torn>> /\ DiskInv' /\ MainThreadFree
  BY DEF BeginActionUpsert, BeginActionDelete, disk, SysInv, WorkInv, DiskInv
<1>2. ASSUME NEW a \in Actions,
             NEW op \in {"action_register", "action_update", "action_delete"},
             NEW v \in Values \cup {None}, op # "action_delete" => v \in Values,
             Begin(w, Call(op, a, None, v, "decide")),
             Load(w, a) \/ Create(w, a), op = "action_register" => Create(w, a)
      PROVE  [Next]_vars /\ WorkInv'
  <2> DEFINE c == Call(op, a, None, v, "decide")
  <2>1. a \in AllAggregates
    BY KindsDiffer
  <2>2. c \in Calls /\ c.op = op /\ c.agg = a /\ c.val = v /\ c.at = "decide"
      <3>1. /\ op \in Ops /\ "decide" \in Ats /\ a \in AllAggregates \cup {None}
            /\ None \in Keys \cup {None} /\ v \in Vals
        BY <2>1 DEF Ops, Ats, Vals, SyncOps
      <3> QED
        BY <2>1, <3>1, CallFields
  <2>3. calls[w] = NoCall /\ calls' = [calls EXCEPT ![w] = c]
    BY <1>2 DEF Begin
  <2> HIDE DEF c
  <2>4. CallOK(c) /\ Loaded(c)
    BY <1>2, <2>2 DEF CallOK, Loaded, Deciding, EnvOps
  <2>5. calls[w].at # "apply"
    BY <2>3 DEF NoCall
  <2>6. (c.op \in Creating => c.op = "action_register") /\ c.op # "worktree_remove"
    BY <2>2 DEF Creating
  <2> QED
    BY <1>1, <1>2, <2>1, <2>2, <2>3, <2>4, <2>5, <2>6, LoadTurn
<1>3. CASE BeginActionUpsert(w)
  <2>1. PICK v \in Values :
          \/ \E a \in Unused(Actions) :
                Begin(w, Call("action_register", a, None, v, "decide")) /\ Create(w, a)
          \/ \E a \in Actions :
                Begin(w, Call("action_update", a, None, v, "decide")) /\ Load(w, a)
    BY <1>3 DEF BeginActionUpsert
  <2>2. Unused(Actions) \subseteq Actions
    BY DEF Unused
  <2> QED
    BY <1>2, <2>1, <2>2
<1>4. CASE BeginActionDelete(w)
  <2>1. PICK a \in Actions :
          Begin(w, Call("action_delete", a, None, None, "decide")) /\ Load(w, a)
    BY <1>4 DEF BeginActionDelete
  <2> QED
    BY <1>2, <2>1
<1> QED
  BY <1>3, <1>4

\* worktree_create, worktree_list and worktree_remove, up to git.
LEMMA WorktreeBegins ==
  ASSUME SysInv, NEW w \in Writers, BeginWorktreeCreate(w) \/ BeginList(w) \/ BeginRemove(w)
  PROVE  [Next]_vars /\ WorkInv'
<1>1. UNCHANGED <<row, torn>> /\ DiskInv'
  BY DEF BeginWorktreeCreate, BeginList, BeginRemove, disk, SysInv, WorkInv, DiskInv
<1>2. CASE BeginWorktreeCreate(w)
  <2>1. PICK p \in Projects, n \in Names :
          Begin(w, Call("worktree_create", None, None, WorktreeData(p, n, n), "git"))
    BY <1>2 DEF BeginWorktreeCreate
  <2> DEFINE c == Call("worktree_create", None, None, WorktreeData(p, n, n), "git")
  <2>2. WorktreeData(p, n, n) \in NewTrees
    BY DEF WorktreeData, NewTrees, WorktreeStates, Places
  <2>3. c \in Calls /\ c.op = "worktree_create" /\ c.val \in NewTrees /\ c.at = "git"
      <3>1. /\ "worktree_create" \in Ops /\ "git" \in Ats /\ None \in AllAggregates \cup {None}
            /\ None \in Keys \cup {None} /\ WorktreeData(p, n, n) \in Vals
        BY <2>2 DEF Ops, Ats, Vals
      <3> QED
        BY <2>2, <3>1, CallFields
  <2>4. calls[w] = NoCall /\ calls' = [calls EXCEPT ![w] = c]
    BY <2>1 DEF Begin
  <2> HIDE DEF c
  <2>5. CallOK(c) /\ ~Loaded(c) /\ c.op \notin SyncOps
    BY <2>3 DEF CallOK, Loaded, Deciding, EnvOps, SyncOps
  <2>6. UNCHANGED <<table, writer>>
    BY <1>2 DEF BeginWorktreeCreate, store
  <2>7. calls[w].at # "apply" /\ ~Loaded(calls[w])
    BY <2>4 DEF NoCall, Loaded
  <2> QED
    BY <1>1, <2>3, <2>4, <2>5, <2>6, <2>7, FreeTurn
<1>3. CASE BeginList(w)
  <2>1. PICK p \in Projects : Begin(w, Call("worktree_list", p, None, None, "git"))
    BY <1>3 DEF BeginList
  <2> DEFINE c == Call("worktree_list", p, None, None, "git")
  <2>2. p \in AllAggregates
    BY KindsDiffer
  <2>3. c \in Calls /\ c.op = "worktree_list" /\ c.agg = p /\ c.at = "git" /\ c.todo = {}
      <3>1. /\ "worktree_list" \in Ops /\ "git" \in Ats /\ p \in AllAggregates \cup {None}
            /\ None \in Keys \cup {None} /\ None \in Vals
        BY <2>2 DEF Ops, Ats, Vals
      <3> QED
        BY <2>2, <3>1, CallFields
  <2>4. calls[w] = NoCall /\ calls' = [calls EXCEPT ![w] = c]
    BY <2>1 DEF Begin
  <2> HIDE DEF c
  <2>5. CallOK(c) /\ ~Loaded(c) /\ c.op \notin SyncOps
    BY <2>3 DEF CallOK, Loaded, Deciding, EnvOps, SyncOps
  <2>6. UNCHANGED <<table, writer>>
    BY <1>3 DEF BeginList, store
  <2>7. calls[w].at # "apply" /\ ~Loaded(calls[w])
    BY <2>4 DEF NoCall, Loaded
  <2> QED
    BY <1>1, <2>3, <2>4, <2>5, <2>6, <2>7, FreeTurn
<1>4. CASE BeginRemove(w)
  <2>1. PICK i \in Worktrees :
          /\ IsShown(i) /\ Load(w, i)
          /\ Begin(w, Call("worktree_remove", i, None, row[i].name, "git"))
    BY <1>4 DEF BeginRemove
  <2> DEFINE c == Call("worktree_remove", i, None, row[i].name, "git")
  <2>2. i \in AllAggregates /\ row[i] # None /\ row[i].name \in Places
    BY <2>1, KindsDiffer, ShownHasRow DEF WorktreeStates, Places
  <2>3. c \in Calls /\ c.op = "worktree_remove" /\ c.agg = i /\ c.at = "git"
      <3>1. /\ "worktree_remove" \in Ops /\ "git" \in Ats /\ i \in AllAggregates \cup {None}
            /\ None \in Keys \cup {None} /\ row[i].name \in Vals
        BY <2>2 DEF Ops, Ats, Vals
      <3> QED
        BY <2>2, <3>1, CallFields
  <2>4. calls[w] = NoCall /\ calls' = [calls EXCEPT ![w] = c]
    BY <2>1 DEF Begin
  <2> HIDE DEF c
  <2>5. CallOK(c) /\ Loaded(c) /\ c.op \notin SyncOps /\ c.op \notin Creating
    BY <2>3 DEF CallOK, Loaded, Deciding, EnvOps, SyncOps, Creating
  <2>6. calls[w].at # "apply"
    BY <2>4 DEF NoCall
  <2> QED
    BY <1>1, <2>1, <2>2, <2>3, <2>4, <2>5, <2>6, LoadTurn
<1> QED
  BY <1>2, <1>3, <1>4

\* No call.
LEMMA NoCallFree == NoCall \in Calls /\ CallOK(NoCall) /\ ~Loaded(NoCall) /\ NoCall.at # "apply"
                    /\ NoCall.op \notin SyncOps /\ NoCall.op # "worktree_remove"
BY DEF NoCall, Calls, Ops, Ats, Vals, CallOK, Loaded, Deciding, EnvOps, SyncOps

\* A command that returns without an event.
LEMMA ReturnsNothing ==
  ASSUME SysInv, NEW w \in Writers, calls' = [calls EXCEPT ![w] = NoCall], calls[w].at # "apply",
         \/ writer' = [writer EXCEPT ![w] = Idle]
         \/ UNCHANGED writer /\ ~Loaded(calls[w]),
         UNCHANGED <<table, row, torn>>, DiskInv'
  PROVE  [Next]_vars /\ WorkInv'
BY NoCallFree, FreeTurn

\* A call that waits for git, after git has failed, made or removed a worktree.
LEMMA GitSteps ==
  ASSUME SysInv, NEW w \in Writers, GitFails(w) \/ GitCreate(w) \/ GitRemove(w)
  PROVE  [Next]_vars /\ WorkInv'
<1> DEFINE k == calls[w]
<1>1. /\ calls \in [Writers -> Calls] /\ k \in Calls /\ CallOK(k)
      /\ ~Loaded(k) => writer[w] = Idle
      /\ Fits(k, writer[w]) /\ writer \in [Writers -> Held \cup {Idle}]
      /\ DiskInv
      /\ k.op = "worktree_remove" /\ k.at # "apply" => row[k.agg] # None
  BY HeldFits DEF SysInv, WorkInv
<1>2. CASE GitFails(w)
  <2>1. DiskInv' /\ UNCHANGED <<table, row, torn>> /\ k.at = "git"
    BY <1>1, <1>2 DEF GitFails, disk, DiskInv
  <2> QED
    BY <1>2, <2>1, ReturnsNothing DEF GitFails
<1>3. CASE GitCreate(w)
  <2> DEFINE n == k.val.name
  <2>1. k.op = "worktree_create" /\ k.at = "git" /\ k.val \in NewTrees
        /\ UNCHANGED <<table, row, torn>> /\ ~Loaded(k)
    BY <1>1, <1>3 DEF GitCreate, At, CallOK, Loaded
  <2>2. CASE admin[n] # None \/ n \in trees
    <3>1. calls' = [calls EXCEPT ![w] = NoCall] /\ UNCHANGED writer /\ DiskInv'
      BY <1>1, <1>3, <2>2 DEF GitCreate, disk, DiskInv
    <3> QED
      BY <2>1, <3>1, ReturnsNothing
  <2>3. CASE ~(admin[n] # None \/ n \in trees)
    <3>1. PICK i \in Worktrees :
            /\ Create(w, i) /\ admin' = [admin EXCEPT ![n] = n]
            /\ calls' = [calls EXCEPT ![w].agg = i, ![w].at = "decide"]
      BY <1>3, <2>3 DEF GitCreate
    <3>2. n \in Names /\ n \in Places
      BY <2>1 DEF NewTrees, WorktreeStates, Places
    <3>3. DiskInv'
      BY <1>1, <3>1, <3>2 DEF DiskInv
    <3> DEFINE c == [k EXCEPT !.agg = i, !.at = "decide"]
    <3>4. calls' = [calls EXCEPT ![w] = c]
      BY <3>1
    <3>5. i \in AllAggregates
      BY KindsDiffer
    <3>6. c \in Calls /\ c.op = k.op /\ c.agg = i /\ c.at = "decide" /\ c.val = k.val
      BY <1>1, <3>5 DEF Calls, Ats
    <3> HIDE DEF c
    <3>7. CallOK(c) /\ Loaded(c) /\ c.op \notin SyncOps
      BY <2>1, <3>6 DEF CallOK, Loaded, Deciding, EnvOps, SyncOps
    <3> QED
      BY <2>1, <3>1, <3>3, <3>4, <3>5, <3>6, <3>7, LoadTurn
  <2> QED
    BY <2>2, <2>3
<1>4. CASE GitRemove(w)
  <2> DEFINE n == k.val
             c == [k EXCEPT !.at = "decide"]
  <2>1. k.op = "worktree_remove" /\ k.at = "git" /\ UNCHANGED <<table, writer, row, torn>>
        /\ calls' = [calls EXCEPT ![w] = c] /\ admin' = [admin EXCEPT ![n] = None]
    BY <1>4 DEF GitRemove, At, Move, store
  <2>2. DiskInv'
    BY <1>1, <2>1 DEF DiskInv
  <2>3. c \in Calls /\ c.op = k.op /\ c.agg = k.agg /\ c.at = "decide"
    BY <1>1 DEF Calls, Ats
  <2> HIDE DEF c
  <2>4. CallOK(c) /\ Loaded(c) /\ Loaded(k) /\ c.op \notin SyncOps /\ c.op \notin Creating
    BY <1>1, <2>1, <2>3 DEF CallOK, Loaded, Deciding, EnvOps, SyncOps, Creating
  <2>5. Fits(c, writer[w])
    BY <1>1, <2>3, <2>4 DEF Fits
  <2>6. writer' = [writer EXCEPT ![w] = writer[w]]
    BY <1>1, <2>1
  <2>7. Turns(w, c, writer[w])
    BY <1>1, <2>1, <2>3, <2>4, <2>5, <2>6 DEF Turns
  <2>8. WorkInv'
    BY <2>2, <2>7, TurnKeeps
  <2> QED
    BY <2>1, <2>8 DEF vars
<1> QED
  BY <1>2, <1>3, <1>4

\* The import of a list, from what git has listed to its return.
LEMMA ImportSteps ==
  ASSUME SysInv, NEW w \in Writers, GitList(w) \/ ReadKnown(w) \/ ImportNext(w) \/ ListReturns(w)
  PROVE  [Next]_vars /\ WorkInv'
<1> DEFINE k == calls[w]
<1>1. /\ calls \in [Writers -> Calls] /\ k \in Calls /\ CallOK(k)
      /\ admin \in [Names -> Places \cup {None}]
  BY HeldFits DEF SysInv, WorkInv, DiskInv
<1>2. UNCHANGED <<table, row, torn>> /\ DiskInv'
  BY DEF GitList, ReadKnown, ImportNext, ListReturns, store, disk, SysInv, WorkInv, DiskInv
<1>3. k.op = "worktree_list" /\ k.at \in {"git", "known", "import"} /\ ~Loaded(k) /\ k.todo \subseteq Listing
      /\ k.found \subseteq Listing
  BY <1>1 DEF GitList, ReadKnown, ImportNext, ListReturns, At, Loaded, CallOK, Calls
<1>4. CASE GitList(w)
  <2> DEFINE S == {[project |-> k.agg, name |-> n, place |-> admin[n], head |-> admin[n] \in trees] :
                      n \in {x \in Names : admin[x] # None}}
             c == [k EXCEPT !.at = "known", !.found = S]
  <2>1. calls' = [calls EXCEPT ![w] = c] /\ UNCHANGED writer
    BY <1>4 DEF GitList, store
  <2>2. k.agg \in Projects
    BY <1>1, <1>4 DEF GitList, At, CallOK
  <2>3. S \in SUBSET Listing
    <3> SUFFICES ASSUME NEW n \in Names, admin[n] # None
                 PROVE  [project |-> k.agg, name |-> n, place |-> admin[n],
                         head |-> admin[n] \in trees] \in Listing
      OBVIOUS
    <3>1. admin[n] \in Places /\ (admin[n] \in trees) \in BOOLEAN
      BY <1>1
    <3> QED
      BY <2>2, <3>1 DEF Listing
  <2> HIDE DEF S
  <2>4. c \in Calls /\ c.op = "worktree_list" /\ c.at = "known" /\ c.todo = k.todo
    BY <1>1, <1>3, <2>3 DEF Calls, Ats
  <2> HIDE DEF c
  <2>5. CallOK(c) /\ ~Loaded(c) /\ c.op \notin SyncOps
    BY <1>3, <2>4 DEF CallOK, Loaded, Deciding, EnvOps, SyncOps
  <2> QED
    BY <1>2, <1>3, <2>1, <2>4, <2>5, FreeTurn
<1>5. CASE ReadKnown(w)
  <2> DEFINE S == {d \in k.found : ~Known(d)}
             c == [k EXCEPT !.at = "import", !.todo = S]
  <2>1. calls' = [calls EXCEPT ![w] = c] /\ UNCHANGED writer
    BY <1>5 DEF ReadKnown, store
  <2>2. S \in SUBSET Listing
    BY <1>3
  <2> HIDE DEF S
  <2>3. c \in Calls /\ c.op = "worktree_list" /\ c.at = "import" /\ c.todo = S
    BY <1>1, <1>3, <2>2 DEF Calls, Ats
  <2> HIDE DEF c
  <2>4. CallOK(c) /\ ~Loaded(c) /\ c.op \notin SyncOps
    BY <2>2, <2>3 DEF CallOK, Loaded, Deciding, EnvOps, SyncOps
  <2> QED
    BY <1>2, <1>3, <2>1, <2>3, <2>4, FreeTurn
<1>6. CASE ImportNext(w)
  <2>1. PICK d \in k.todo :
          LET c == [k EXCEPT !.todo = @ \ {d}] IN
          IF ~d.head THEN calls' = [calls EXCEPT ![w] = c] /\ UNCHANGED writer
          ELSE \E i \in Worktrees :
                 /\ Minted(i) /\ Create(w, i)
                 /\ calls' = [calls EXCEPT ![w] =
                        [c EXCEPT !.agg = i, !.at = "decide",
                                  !.val = WorktreeData(d.project, d.name, d.place)]]
    BY <1>6 DEF ImportNext
  <2> DEFINE rest == k.todo \ {d}
             c == [k EXCEPT !.todo = rest]
  <2>2. rest \in SUBSET Listing /\ d \in Listing
    BY <1>3
  <2>3. /\ c \in Calls /\ c.op = "worktree_list" /\ c.at = "import" /\ c.todo = rest
        /\ c = [k EXCEPT !.todo = @ \ {d}]
    BY <1>1, <1>3, <1>6, <2>2 DEF Calls, ImportNext, At
  <2>4. CASE ~d.head
    <3>1. calls' = [calls EXCEPT ![w] = c] /\ UNCHANGED writer
      BY <2>1, <2>3, <2>4
    <3> HIDE DEF rest, c
    <3>2. CallOK(c) /\ ~Loaded(c) /\ c.op \notin SyncOps
      BY <2>2, <2>3 DEF CallOK, Loaded, Deciding, EnvOps, SyncOps
    <3> QED
      BY <1>2, <1>3, <2>3, <3>1, <3>2, FreeTurn
  <2>5. CASE d.head
    <3> DEFINE v == WorktreeData(d.project, d.name, d.place)
    <3>1. PICK i \in Worktrees :
            /\ Create(w, i)
            /\ calls' = [calls EXCEPT ![w] = [c EXCEPT !.agg = i, !.at = "decide", !.val = v]]
      BY <2>1, <2>3, <2>5
    <3> HIDE DEF rest, c
    <3>2. v \in NewTrees /\ v \in Vals /\ i \in AllAggregates
      BY <2>2, KindsDiffer DEF Listing, NewTrees, WorktreeStates, WorktreeData, Vals
    <3> HIDE DEF v
    <3> DEFINE e == [c EXCEPT !.agg = i, !.at = "decide", !.val = v]
    <3>3. e \in Calls /\ e.op = "worktree_list" /\ e.at = "decide" /\ e.agg = i /\ e.val = v
          /\ e.todo = rest
      BY <2>3, <3>2 DEF Calls, Ats
    <3>4. calls' = [calls EXCEPT ![w] = e]
      BY <3>1
    <3> HIDE DEF e
    <3>5. CallOK(e) /\ Loaded(e) /\ e.op \notin SyncOps
      BY <2>2, <3>2, <3>3 DEF CallOK, Loaded, Deciding, EnvOps, SyncOps
    <3> QED
      BY <1>2, <1>3, <3>1, <3>2, <3>3, <3>4, <3>5, LoadTurn
  <2> QED
    BY <2>4, <2>5
<1>7. CASE ListReturns(w)
  <2>1. calls' = [calls EXCEPT ![w] = NoCall] /\ UNCHANGED writer
    BY <1>7 DEF ListReturns, store
  <2> QED
    BY <1>2, <1>3, <2>1, ReturnsNothing
<1> QED
  BY <1>4, <1>5, <1>6, <1>7

\* What a call is after it has returned: the import goes on, any other is over.
Returned(k) ==
  IF k.op = "worktree_list" /\ k.at # "git" THEN [k EXCEPT !.at = "import"] ELSE NoCall

\* It is a call with nothing loaded and no row to write.
LEMMA ReturnedFree ==
  ASSUME NEW k \in Calls, CallOK(k)
  PROVE  LET c == Returned(k)
         IN /\ c \in Calls /\ CallOK(c) /\ ~Loaded(c) /\ c.at # "apply" /\ c.op \notin SyncOps
            /\ c.op # "worktree_remove"
<1> DEFINE c == [k EXCEPT !.at = "import"]
<1>1. CASE k.op = "worktree_list" /\ k.at # "git"
  <2>1. c \in Calls /\ c.op = "worktree_list" /\ c.at = "import" /\ c.todo = k.todo
    BY <1>1 DEF Calls, Ats
  <2>2. k.todo \subseteq Listing
    BY <1>1 DEF CallOK
  <2>3. Returned(k) = c
    BY <1>1 DEF Returned
  <2> HIDE DEF c
  <2>4. CallOK(c) /\ ~Loaded(c) /\ c.op \notin SyncOps
    BY <2>1, <2>2 DEF CallOK, Loaded, Deciding, EnvOps, SyncOps
  <2> QED
    BY <2>1, <2>3, <2>4
<1>2. CASE ~(k.op = "worktree_list" /\ k.at # "git")
  BY <1>2, NoCallFree DEF Returned
<1> QED
  BY <1>1, <1>2

\* A command that decides nothing, or whose event conflicts.
LEMMA DecidesWithout ==
  ASSUME SysInv, NEW w \in Writers, DecideNothing(w) \/ DecideConflicts(w)
  PROVE  [Next]_vars /\ WorkInv'
<1> DEFINE k == calls[w]
           c == Returned(k)
<1>1. calls \in [Writers -> Calls] /\ k \in Calls /\ CallOK(k)
  BY HeldFits
<1>2. /\ UNCHANGED <<table, row, torn>> /\ DiskInv' /\ k.at = "decide"
      /\ writer' = [writer EXCEPT ![w] = Idle] /\ calls' = [calls EXCEPT ![w] = c]
  BY DEF DecideNothing, DecideConflicts, Release, AppendConflicts, Return, Returned, disk,
         SysInv, WorkInv, DiskInv
<1>3. /\ c \in Calls /\ CallOK(c) /\ ~Loaded(c) /\ c.at # "apply" /\ c.op \notin SyncOps
      /\ c.op # "worktree_remove"
  BY <1>1, ReturnedFree
<1> HIDE DEF c
<1> QED
  BY <1>2, <1>3, FreeTurn

------------------------------------------------------------------------------
(* The append, and the row. *)

\* The last event of a lawful log may follow what is before it.
LEMMA LastFollows ==
  ASSUME NEW a, NEW log, LogOK(a, log), log # << >>, LogOK(a, Front(log))
  PROVE  LET f == Front(log)
             e == log[Len(log)]
         IN /\ e \in EventsOf(a) /\ MayFollow(a, f, e)
            /\ Replay(a, log) = Applied(a, Replay(a, f), e)
<1> DEFINE f == Front(log)
           n == Len(log)
           e == log[n]
<1>1. log \in Seq(Events) /\ n \in Nat /\ n # 0
  BY LenProperties, EmptySeq DEF LogOK
<1>2. n - 1 \in Nat /\ n \in 1..n /\ 1 \in Int /\ n - 1 \in Int /\ n - 1 # n /\ (n - 1) + 1 = n
      /\ \A v \in 1..(n - 1) : v \in 1..n
  BY <1>1
<1> HIDE DEF n
<1>3. \A v \in 1..n : /\ log[v] \in EventsOf(a)
                      /\ v = 1 <=> log[v].kind \in Creations
                      /\ log[v].kind \in Ends => v = n
  BY DEF LogOK, n
<1>4. e \in EventsOf(a) /\ e \in Events
  BY <1>2, <1>3, EventTyped
<1>5. \A v \in 1..(n - 1) : log[v] \in Events
  BY <1>1, <1>2, ElementOfSeq DEF n
<1>6. f \in Seq(Events) /\ Len(f) = n - 1 /\ \A v \in 1..(n - 1) : f[v] = log[v]
  <2>1. f = SubSeq(log, 1, n - 1)
    BY DEF Front, n
  <2> HIDE DEF f
  <2> QED
    BY <1>2, <1>5, <2>1, SubSeqProperties
<1>7. log = Append(f, e)
  <2> DEFINE u == Append(f, e)
  <2>1. u \in Seq(Events) /\ Len(u) = n /\ u[n] = e /\ \A v \in 1..(n - 1) : u[v] = f[v]
    <3> HIDE DEF f, e
    <3> QED
      BY <1>2, <1>4, <1>6, AppendProperties
  <2>2. \A v \in 1..n : u[v] = log[v]
    <3> HIDE DEF u, f
    <3>1. \A v \in 1..n : v \in 1..(n - 1) \/ v = n
      BY <1>2
    <3> QED
      BY <1>6, <2>1, <3>1
  <2> HIDE DEF u
  <2>3. u = log
    BY <1>1, <2>1, <2>2, SeqEqual DEF n
  <2> QED
    BY <2>3 DEF u
<1>8. Replay(a, log) = Applied(a, Replay(a, f), e)
  <2> HIDE DEF f, e
  <2> QED
    BY <1>4, <1>6, <1>7, ReplayStep
<1>9. MayFollow(a, f, e)
  <2>1. CASE f = << >>
    <3>1. n = 1
      BY <1>2, <1>6, <2>1, EmptySeq
    <3> QED
      BY <1>2, <1>3, <2>1, <3>1 DEF MayFollow
  <2>2. CASE f # << >>
    <3>1. Len(f) # 0 /\ Len(f) = n - 1 /\ n - 1 # 0
      BY <1>6, <2>2, EmptySeq
    <3> HIDE DEF f
    <3>2. n # 1 /\ n - 1 \in 1..(n - 1)
      BY <1>2, <3>1
    <3>3. e.kind \notin Creations
      BY <1>2, <1>3, <3>2
    <3>4. f[n - 1] = log[n - 1] /\ log[n - 1].kind \notin Ends
      BY <1>2, <1>3, <1>6, <3>2
    <3>5. StateAfter(a, Replay(a, f), f[n - 1])
      BY <3>1 DEF LogOK, f
    <3>6. Replay(a, f) \in StatesOf(a) /\ (a \notin Projects => ~Replay(a, f).removed)
      BY <3>4, <3>5 DEF StateAfter
    <3>7. None \notin StatesOf(a)
      BY WorkspaceAssumption
      DEF WorkspaceAssumption, StatesOf, ProjectStates, WorktreeStates, ActionStates, Keys
    <3> QED
      BY <2>2, <3>3, <3>6, <3>7 DEF MayFollow
  <2> QED
    BY <2>1, <2>2
<1> QED
  BY <1>4, <1>8, <1>9 DEF n

\* What a command that appends has decided on: the whole log, which its event may
\* follow, and to whose end it goes.
LEMMA AppendsLawfully ==
  ASSUME SysInv, NEW w \in Writers, DecideAppends(w)
  PROVE  LET a == calls[w].agg
         IN /\ Next /\ a \in AllAggregates
            /\ calls[w].op \in Creating => table[a] = << >>
            /\ calls[w].op \notin Creating =>
                 /\ Replay(a, table[a]) # None
                 /\ a \notin Projects => ~Replay(a, table[a]).removed
            /\ \E e \in EventsOf(a) :
                 /\ MayFollow(a, table[a], e)
                 /\ calls[w].op = "worktree_remove" => e.kind = "Removed"
                 /\ table' = [table EXCEPT ![a] = Append(table[a], e)]
            /\ writer' = [writer EXCEPT ![w] = Idle]
<1> DEFINE k == calls[w]
           a == k.agg
           r == writer[w]
           st == Replay(a, r.seen)
<1>1. k \in Calls /\ CallOK(k) /\ Fits(k, r) /\ IInv
  BY HeldFits DEF SysInv
<1>2. /\ k.at = "decide" /\ AppendEvents(w, Decide(st, k).events, FALSE)
      /\ Decide(st, k).events # << >>
  BY DEF DecideAppends, Decision, AppendEvents
<1>3. r # Idle /\ r.agg = a /\ (k.op \in Creating => r.seen = << >>)
  BY <1>1, <1>2 DEF Fits, Loaded, NoRows
<1>4. a \in AllAggregates
  BY <1>1, <1>2, DecidesOne
<1>5. PICK e \in EventsOf(a) :
         /\ Decide(st, k).events = <<e>>
         /\ e.kind \in Creations <=> k.op \in Creating
         /\ k.op \notin Creating => st # None /\ (a \notin Projects => ~st.removed)
         /\ k.op = "worktree_remove" => e.kind = "Removed"
  BY <1>1, <1>2, DecidesOne
<1>6. e \in Events /\ <<e>> \in Batches
  BY EventTyped DEF Batches
<1>7. AppendEvents(w, <<e>>, FALSE)
  BY <1>2, <1>5
<1>8. r.expected = Len(table[a]) /\ r.seen = table[a]
  BY <1>1, <1>3, <1>6, <1>7, AppendFacts
<1>9. LogOK(a, table[a]) /\ table[a] \in Seq(Events)
  BY <1>4 DEF SysInv, WorkInv, LogsInv, LogOK
<1>10. MayFollow(a, table[a], e)
  <2>1. CASE k.op \in Creating
    BY <1>3, <1>5, <1>8, <2>1 DEF MayFollow
  <2>2. CASE k.op \notin Creating
    <3>1. Replay(a, table[a]) # None /\ (a \notin Projects => ~Replay(a, table[a]).removed)
      BY <1>5, <1>8, <2>2
    <3>2. table[a] # << >>
      BY <1>9, <3>1, PresentTyped
    <3> QED
      BY <1>5, <2>2, <3>1, <3>2 DEF MayFollow
  <2> QED
    BY <2>1, <2>2
<1>11. table' = [table EXCEPT ![a] = Append(table[a], e)] /\ writer' = [writer EXCEPT ![w] = Idle]
  <2>1. Inserted(table[a], Len(table[a]), <<e>>) = Append(table[a], e)
    BY <1>6, <1>9, InsertedIsAppend
  <2>2. table' = [table EXCEPT ![a] = Inserted(table[a], r.expected, <<e>>)]
    BY <1>3, <1>7 DEF AppendEvents
  <2> QED
    BY <1>7, <1>8, <2>1, <2>2 DEF AppendEvents
<1>12. Next
  BY <1>6, <1>7 DEF Next
<1> QED
  BY <1>3, <1>4, <1>5, <1>8, <1>10, <1>11, <1>12

\* No other call has an event of the aggregate to apply that a command appends to.
LEMMA NoneIsPending ==
  ASSUME SysInv, NEW w \in Writers, DecideAppends(w), NEW x \in Writers
  PROVE  ~Pending(x, calls[w].agg)
<1> DEFINE k == calls[w]
           a == k.agg
           y == calls[x]
<1>1. SUFFICES ASSUME Pending(x, a) PROVE FALSE
  OBVIOUS
<1>2. /\ k \in Calls /\ CallOK(k) /\ y \in Calls /\ CallOK(y) /\ k.at = "decide"
      /\ y.at = "apply" /\ y.agg = a
      /\ k.op = "worktree_remove" => row[a] # None
  BY <1>1, HeldFits DEF DecideAppends, Pending
<1>3. /\ a \in AllAggregates
      /\ k.op \in Creating => table[a] = << >>
      /\ k.op \notin Creating => /\ Replay(a, table[a]) # None
                                 /\ a \notin Projects => ~Replay(a, table[a]).removed
  BY AppendsLawfully
<1>4. /\ table[a] # << >>
      /\ a \in Worktrees /\ y.op # "worktree_remove" => row[a] = None
      /\ y.op = "worktree_remove" => table[a][Len(table[a])].kind \in Ends
  BY <1>1, <1>3 DEF SysInv, WorkInv, RowsInv, NoRows
<1>5. k.op \notin Creating
  BY <1>3, <1>4
<1>6. \/ k.op = "worktree_remove" /\ a \in Worktrees
      \/ k.op \in SyncOps /\ a \notin Worktrees
  BY <1>2, <1>5, KindsDiffer DEF CallOK, Calls, Ops, EnvOps, SyncOps, Creating, NoCall
<1>7. CASE k.op = "worktree_remove" /\ a \in Worktrees
  <2>1. y.op = "worktree_remove"
    BY <1>2, <1>4, <1>7
  <2>2. a \notin Projects /\ LogOK(a, table[a])
    BY <1>3, <1>7, KindsDiffer DEF SysInv, WorkInv, LogsInv
  <2> QED
    BY <1>3, <1>4, <1>5, <2>1, <2>2, PresentTyped
<1>8. CASE k.op \in SyncOps /\ a \notin Worktrees
  <2>1. y.op \in SyncOps
    BY <1>2, <1>8, KindsDiffer DEF CallOK, Calls, Ops, EnvOps, SyncOps, Deciding, NoCall
  <2>2. x = w
    BY <1>8, <2>1 DEF SysInv, WorkInv, Alone
  <2> QED
    BY <1>2, <2>2
<1> QED
  BY <1>6, <1>7, <1>8

\* A command that appends leaves the row of its aggregate behind, and no other.
LEMMA AppendKeeps ==
  ASSUME SysInv, NEW w \in Writers, DecideAppends(w)
  PROVE  [Next]_vars /\ WorkInv'
<1>0. PICK a \in AllAggregates : a = calls[w].agg
  BY AppendsLawfully
<1> DEFINE k == calls[w]
           c == [k EXCEPT !.at = "apply"]
<1>1. /\ calls \in [Writers -> Calls] /\ k \in Calls /\ CallOK(k) /\ k.at = "decide"
      /\ \A x \in Writers : Fits(calls[x], writer[x])
      /\ writer \in [Writers -> Held \cup {Idle}] /\ table \in [AllAggregates -> Seq(Events)]
  BY HeldFits, KindsDiffer DEF DecideAppends, SysInv, IInv, TypedRows
<1>2. /\ calls' = [calls EXCEPT ![w] = c] /\ UNCHANGED <<row, torn>> /\ DiskInv'
      /\ writer' = [writer EXCEPT ![w] = Idle] /\ Next
      /\ k.op \in Creating => table[a] = << >>
  BY <1>0, AppendsLawfully DEF DecideAppends, Move, disk, SysInv, WorkInv, DiskInv
<1>3. PICK e \in EventsOf(a) :
         /\ MayFollow(a, table[a], e)
         /\ k.op = "worktree_remove" => e.kind = "Removed"
         /\ table' = [table EXCEPT ![a] = Append(table[a], e)]
  BY <1>0, AppendsLawfully
<1>4. c \in Calls /\ c.op = k.op /\ c.agg = a /\ c.at = "apply" /\ c.field = k.field
      /\ c.val = k.val /\ c.todo = k.todo
  BY <1>0, <1>1 DEF Calls, Ats
<1> HIDE DEF c
<1>5. CallOK(c)
  BY <1>0, <1>1, <1>4 DEF CallOK, Deciding, EnvOps, NoCall
<1>6. /\ calls'[w] = c /\ writer'[w] = Idle
      /\ \A x \in Writers \ {w} : calls'[x] = calls[x] /\ writer'[x] = writer[x]
  BY <1>1, <1>2
<1>7. Fits(c, Idle)
  BY <1>1, <1>4, <1>5 DEF Fits, Loaded
<1>8. CallsInv'
  BY <1>1, <1>2, <1>4, <1>6, <1>7 DEF CallsInv
<1>9. Alone'
  BY <1>4, <1>6 DEF SysInv, WorkInv, Alone
<1>10. LogOK(a, table[a]) /\ table[a] \in Seq(Events) /\ e \in Events
  BY <1>2, EventTyped DEF SysInv, WorkInv, LogsInv, LogOK
<1> DEFINE rows == Append(table[a], e)
<1>11. /\ LogOK(a, rows) /\ rows # << >> /\ Front(rows) = table[a] /\ rows[Len(rows)] = e
  <2>1. LogOK(a, rows) /\ Len(rows) = Len(table[a]) + 1 /\ Len(table[a]) \in Nat
    BY <1>3, <1>10, LawfulAppend
  <2>2. Len(rows) # 0
    BY <2>1
  <2>3. rows # << >>
    BY <2>2, EmptySeq
  <2> QED
    BY <1>10, <2>1, <2>3, FrontOfAppend
<1> HIDE DEF rows
<1>12. table'[a] = rows /\ \A b \in AllAggregates \ {a} : table'[b] = table[b]
  BY <1>1, <1>2, <1>3 DEF rows
<1>13. LogsInv'
  <2> SUFFICES ASSUME NEW b \in AllAggregates PROVE LogOK(b, table'[b])
    BY DEF LogsInv
  <2>1. LogOK(b, table[b])
    BY DEF SysInv, WorkInv, LogsInv
  <2> QED
    BY <1>11, <1>12, <2>1
<1>14. \A x \in Writers, b \in AllAggregates :
         Pending(x, b)' <=> IF x = w THEN b = a ELSE Pending(x, b)
  BY <1>4, <1>6 DEF Pending
<1>15. \A x \in Writers : ~Pending(x, a)
  BY <1>0, NoneIsPending
<1>16. \A b \in AllAggregates : ~Pending(w, b)
  BY <1>1 DEF Pending
<1>17. RowsInv
  BY DEF SysInv, WorkInv
<1>18. a \in torn \/ row[a] = RowOf(a, Replay(a, table[a]))
  BY <1>2, <1>15 DEF SysInv, WorkInv, RowsMatchLog, Pending
<1>19. RowsInv'
  <2>1. ASSUME NEW b \in AllAggregates
        PROVE  table'[b] = NoRows => row[b] = None /\ b \notin torn
    BY <1>11, <1>12, <1>17 DEF RowsInv, NoRows
  <2>2. ASSUME NEW x \in Writers, NEW b \in AllAggregates, Pending(x, b)'
        PROVE  /\ \A y \in Writers : Pending(y, b)' => y = x
               /\ table'[b] # NoRows /\ Behind(b)'
               /\ b \in Worktrees /\ calls'[x].op # "worktree_remove" => row'[b] = None
               /\ calls'[x].op = "worktree_remove" => table'[b][Len(table'[b])].kind \in Ends
    <3>1. CASE x = w
      <4>1. b = a
        BY <1>14, <2>2, <3>1
      <4>2. \A y \in Writers : Pending(y, a)' => y = w
        BY <1>2, <1>14, <1>15
      <4>3. Behind(a)'
        BY <1>2, <1>10, <1>11, <1>12, <1>18 DEF Behind
      <4>4. a \in Worktrees /\ k.op # "worktree_remove" => row[a] = None
        <5>1. a \in Worktrees /\ k.op # "worktree_remove" => k.op \in Creating
          BY <1>0, <1>1, KindsDiffer DEF CallOK, Calls, Ops, EnvOps, SyncOps, Creating, NoCall
        <5> QED
          BY <1>2, <1>17, <5>1 DEF RowsInv, NoRows
      <4>5. table'[b] = rows /\ rows # NoRows /\ calls'[x].op = k.op /\ row'[b] = row[a]
        BY <1>2, <1>4, <1>6, <1>11, <1>12, <3>1, <4>1 DEF NoRows
      <4>6. k.op = "worktree_remove" => rows[Len(rows)].kind \in Ends
        BY <1>3, <1>11 DEF Ends
      <4> QED
        BY <3>1, <4>1, <4>2, <4>3, <4>4, <4>5, <4>6
    <3>2. CASE x # w
      <4>1. Pending(x, b) /\ b # a /\ calls'[x] = calls[x]
        BY <1>6, <1>14, <1>15, <2>2, <3>2
      <4>2. /\ \A y \in Writers : Pending(y, b) => y = x
            /\ table[b] # NoRows /\ Behind(b)
            /\ b \in Worktrees /\ calls[x].op # "worktree_remove" => row[b] = None
            /\ calls[x].op = "worktree_remove" => table[b][Len(table[b])].kind \in Ends
        BY <1>17, <4>1 DEF RowsInv
      <4>3. table'[b] = table[b] /\ row' = row /\ torn' = torn
        BY <1>2, <1>12, <4>1
      <4>4. Behind(b)'
        BY <4>2, <4>3 DEF Behind
      <4>5. \A y \in Writers : Pending(y, b)' => y = x
        BY <1>14, <4>1, <4>2
      <4> QED
        BY <4>1, <4>2, <4>3, <4>4, <4>5
    <3> QED
      BY <3>1, <3>2
  <2>3. \A x \in Writers : calls'[x].op = "worktree_remove" /\ calls'[x].at # "apply" =>
                             row'[calls'[x].agg] # None
    BY <1>2, <1>4, <1>6, <1>17 DEF RowsInv
  <2>4. /\ DOMAIN row' = AllAggregates
        /\ \A b \in AllAggregates : row'[b] \in RowsOf(b) \cup {None}
    BY <1>2, <1>17 DEF RowsInv
  <2> QED
    BY <1>2, <2>1, <2>2, <2>3, <2>4 DEF RowsInv
<1>20. RowsMatchLog'
  <2> SUFFICES ASSUME NEW b \in AllAggregates
               PROVE  \/ b \in torn' \/ \E x \in Writers : Pending(x, b)'
                      \/ row'[b] = RowOf(b, Replay(b, table'[b]))
    BY DEF RowsMatchLog, Pending
  <2>1. \/ b \in torn \/ \E x \in Writers : Pending(x, b)
        \/ row[b] = RowOf(b, Replay(b, table[b]))
    BY DEF SysInv, WorkInv, RowsMatchLog, Pending
  <2>2. CASE b = a
    BY <1>2, <1>14, <2>2
  <2>3. CASE b # a
    <3>1. table'[b] = table[b] /\ row' = row /\ torn' = torn
      BY <1>2, <1>12, <2>3
    <3> QED
      BY <1>14, <1>16, <2>1, <3>1
  <2> QED
    BY <2>2, <2>3
<1> QED
  BY <1>2, <1>8, <1>9, <1>13, <1>19, <1>20 DEF WorkInv

\* A row that is written is what its log says, and no other row is touched.
LEMMA ApplyKeeps ==
  ASSUME SysInv, NEW w \in Writers, ApplyRow(w)
  PROVE  [Next]_vars /\ WorkInv'
<1>1. /\ calls \in [Writers -> Calls] /\ calls[w] \in Calls /\ CallOK(calls[w]) /\ calls[w].at = "apply"
      /\ \A x \in Writers : Fits(calls[x], writer[x])
      /\ writer \in [Writers -> Held \cup {Idle}]
  BY HeldFits DEF ApplyRow
<1>2. calls[w].agg \in AllAggregates
  BY <1>1, KindsDiffer DEF CallOK, Calls, Ops, EnvOps, SyncOps, Deciding, NoCall
<1>3. PICK a \in AllAggregates : a = calls[w].agg
  BY <1>2
<1> DEFINE k == calls[w]
           c == Returned(k)
           log == table[a]
           e == log[Len(log)]
<1>4. Pending(w, a) /\ RowsInv
  BY <1>1, <1>3 DEF Pending, SysInv, WorkInv
<1>5. /\ \A x \in Writers : Pending(x, a) => x = w
      /\ log # << >> /\ Behind(a) /\ row[a] \in RowsOf(a) \cup {None}
      /\ DOMAIN row = AllAggregates
  BY <1>4 DEF RowsInv, NoRows
<1>6. LogOK(a, log) /\ LogOK(a, Front(log))
  BY <1>5 DEF Behind, SysInv, WorkInv, LogsInv
<1>7. /\ e \in EventsOf(a) /\ MayFollow(a, Front(log), e)
      /\ Replay(a, log) = Applied(a, Replay(a, Front(log)), e)
  BY <1>5, <1>6, LastFollows
<1>8. HeadVersion(table[a]) = Len(log)
  BY <1>6, HeadOfSeq DEF LogOK
<1>9. /\ row' = [row EXCEPT ![a] = AppliedRow(a, e)] /\ calls' = [calls EXCEPT ![w] = c]
      /\ UNCHANGED <<table, writer, torn>> /\ DiskInv'
  BY <1>3, <1>8 DEF ApplyRow, Return, Returned, store, disk, SysInv, WorkInv, DiskInv
<1>10. /\ AppliedRow(a, e) \in RowsOf(a) \cup {None}
       /\ a \notin Projects /\ a \in Worktrees /\ row[a] # None => AppliedRow(a, e) # None
  BY <1>5, <1>7, RowTyped
<1>11. a \in torn \/ AppliedRow(a, e) = RowOf(a, Replay(a, log))
  <2>1. CASE a \notin torn
    <3>1. row[a] = RowOf(a, Replay(a, Front(log)))
      BY <1>5, <2>1 DEF Behind
    <3>2. AppliedRow(a, e) = RowOf(a, Applied(a, Replay(a, Front(log)), e))
      BY <1>6, <1>7, <3>1, RowFollows
    <3> QED
      BY <1>7, <3>2
  <2> QED
    BY <2>1
<1>12. /\ c \in Calls /\ CallOK(c) /\ ~Loaded(c) /\ c.at # "apply" /\ c.op \notin SyncOps
       /\ c.op # "worktree_remove"
  BY <1>1, ReturnedFree
<1>13. writer[w] = Idle
  BY <1>1 DEF Fits, Loaded
<1> HIDE DEF c
<1> DEFINE new == AppliedRow(a, e)
<1>14. row'[a] = new /\ \A b \in AllAggregates \ {a} : row'[b] = row[b]
  BY <1>5, <1>9
<1>15. calls'[w] = c /\ \A x \in Writers \ {w} : calls'[x] = calls[x]
  BY <1>1, <1>9
<1>16. CallsInv'
  BY <1>1, <1>9, <1>12, <1>13, <1>15 DEF CallsInv, Fits
<1>17. Alone'
  BY <1>12, <1>15 DEF SysInv, WorkInv, Alone
<1>18. LogsInv'
  BY <1>9 DEF SysInv, WorkInv, LogsInv
<1>19. \A x \in Writers, b \in AllAggregates : Pending(x, b)' <=> Pending(x, b) /\ x # w
  BY <1>12, <1>15 DEF Pending
<1> HIDE DEF new
<1>20. RowsInv'
  <2>1. ASSUME NEW x \in Writers, NEW b \in AllAggregates, Pending(x, b)'
        PROVE  /\ \A y \in Writers : Pending(y, b)' => y = x
               /\ table'[b] # NoRows /\ Behind(b)'
               /\ b \in Worktrees /\ calls'[x].op # "worktree_remove" => row'[b] = None
               /\ calls'[x].op = "worktree_remove" => table'[b][Len(table'[b])].kind \in Ends
    <3>1. Pending(x, b) /\ x # w /\ b # a /\ calls'[x] = calls[x]
      BY <1>5, <1>15, <1>19, <2>1
    <3>2. /\ \A y \in Writers : Pending(y, b) => y = x
          /\ table[b] # NoRows /\ Behind(b)
          /\ b \in Worktrees /\ calls[x].op # "worktree_remove" => row[b] = None
          /\ calls[x].op = "worktree_remove" => table[b][Len(table[b])].kind \in Ends
      BY <1>4, <3>1 DEF RowsInv
    <3>3. row'[b] = row[b] /\ table' = table /\ torn' = torn
      BY <1>9, <1>14, <3>1
    <3>4. Behind(b)'
      BY <3>2, <3>3 DEF Behind
    <3>5. \A y \in Writers : Pending(y, b)' => y = x
      BY <1>19, <3>2
    <3> QED
      BY <3>1, <3>2, <3>3, <3>4, <3>5
  <2>2. ASSUME NEW x \in Writers, calls'[x].op = "worktree_remove", calls'[x].at # "apply"
        PROVE  row'[calls'[x].agg] # None
    <3>1. x # w /\ calls'[x] = calls[x]
      BY <1>12, <1>15, <2>2
    <3>2. row[calls[x].agg] # None /\ calls[x].agg \in Worktrees
      BY <1>1, <1>4, <2>2, <3>1 DEF RowsInv, Fits, CallOK
    <3>3. calls[x].agg \in AllAggregates /\ calls[x].agg \notin Projects
      BY <3>2, KindsDiffer
    <3>4. CASE calls[x].agg = a
      BY <1>10, <1>14, <3>1, <3>2, <3>3, <3>4 DEF new
    <3>5. CASE calls[x].agg # a
      BY <1>14, <3>1, <3>2, <3>3, <3>5
    <3> QED
      BY <3>4, <3>5
  <2>3. \A b \in AllAggregates : row'[b] \in RowsOf(b) \cup {None}
    BY <1>4, <1>10, <1>14 DEF RowsInv, new
  <2>4. DOMAIN row' = AllAggregates
    BY <1>5, <1>9
  <2>5. \A b \in AllAggregates : table'[b] = NoRows => row'[b] = None /\ b \notin torn'
    BY <1>4, <1>5, <1>9, <1>14 DEF RowsInv, NoRows
  <2> QED
    BY <2>1, <2>2, <2>3, <2>4, <2>5 DEF RowsInv
<1>21. RowsMatchLog'
  <2> SUFFICES ASSUME NEW b \in AllAggregates
               PROVE  \/ b \in torn \/ \E x \in Writers : Pending(x, b)'
                      \/ row'[b] = RowOf(b, Replay(b, table[b]))
    BY <1>9 DEF RowsMatchLog, Pending
  <2>1. \/ b \in torn \/ \E x \in Writers : Pending(x, b)
        \/ row[b] = RowOf(b, Replay(b, table[b]))
    BY DEF SysInv, WorkInv, RowsMatchLog, Pending
  <2>2. CASE b = a
    BY <1>11, <1>14, <2>2 DEF new
  <2>3. CASE b # a
    <3>1. ~Pending(w, b)
      BY <1>3, <2>3 DEF Pending
    <3> QED
      BY <1>14, <1>19, <2>1, <2>3, <3>1
  <2> QED
    BY <2>2, <2>3
<1>22. UNCHANGED vars
  BY <1>9 DEF vars
<1> QED
  BY <1>9, <1>16, <1>17, <1>18, <1>20, <1>21, <1>22 DEF WorkInv

\* The application ends: no call is left, and rows that were behind stay behind.
LEMMA RestartKeeps ==
  ASSUME SysInv, Restart
  PROVE  SysInv'
<1>1. /\ calls' = [w \in Writers |-> NoCall] /\ writer' = [w \in Writers |-> Idle]
      /\ torn' = torn \cup {calls[w].agg : w \in {v \in Writers : calls[v].at = "apply"}}
      /\ UNCHANGED <<table, row>> /\ DiskInv'
  BY DEF Restart, disk, SysInv, WorkInv, DiskInv
<1>2. IInv'
  BY <1>1 DEF SysInv, IInv, TypedRows, SeenIsPrefix
<1>3. CallsInv' /\ Alone' /\ LogsInv'
  BY <1>1, NoCallFree DEF CallsInv, Fits, Alone, LogsInv, SysInv, WorkInv
<1>4. RowsInv
  BY DEF SysInv, WorkInv
<1>5. \A x \in Writers, b \in AllAggregates : ~Pending(x, b)'
  BY <1>1 DEF Pending, NoCall
<1>6. ASSUME NEW b \in AllAggregates
      PROVE  b \in torn' <=> b \in torn \/ \E x \in Writers : Pending(x, b)
  BY <1>1 DEF Pending
<1>7. RowsInv'
  <2>1. \A b \in AllAggregates : table'[b] = NoRows => row'[b] = None /\ b \notin torn'
    BY <1>1, <1>4, <1>6 DEF RowsInv
  <2>2. \A x \in Writers : calls'[x].op # "worktree_remove"
    BY <1>1 DEF NoCall
  <2>3. /\ DOMAIN row' = AllAggregates
        /\ \A b \in AllAggregates : row'[b] \in RowsOf(b) \cup {None}
    BY <1>1, <1>4 DEF RowsInv
  <2> QED
    BY <1>5, <2>1, <2>2, <2>3 DEF RowsInv
<1>8. RowsMatchLog'
  <2> SUFFICES ASSUME NEW b \in AllAggregates
               PROVE  b \in torn' \/ row[b] = RowOf(b, Replay(b, table[b]))
    BY <1>1 DEF RowsMatchLog
  <2>1. \/ b \in torn \/ \E x \in Writers : Pending(x, b)
        \/ row[b] = RowOf(b, Replay(b, table[b]))
    BY DEF SysInv, WorkInv, RowsMatchLog, Pending
  <2> QED
    BY <1>6, <2>1
<1> QED
  BY <1>1, <1>2, <1>3, <1>7, <1>8 DEF SysInv, WorkInv

------------------------------------------------------------------------------
(* The environment of a worktree. *)

\* The environment commands.
LEMMA EnvSteps ==
  ASSUME SysInv, NEW w \in Writers,
         EnvBegin(w) \/ EnvSkip(w) \/ EnvRead(w) \/ EnvWrite(w) \/ EnvCompose(w)
  PROVE  [Next]_vars /\ WorkInv'
<1> DEFINE k == calls[w]
<1>1. calls \in [Writers -> Calls] /\ k \in Calls /\ CallOK(k)
  BY HeldFits
<1>2. UNCHANGED <<table, writer, row, torn>> /\ DiskInv'
  BY DEF EnvBegin, EnvSkip, EnvRead, EnvWrite, EnvCompose, store, disk, SysInv, WorkInv, DiskInv
<1>3. ASSUME k.at \in {"render", "write"}, AfterRender(w)
      PROVE  [Next]_vars /\ WorkInv'
  <2>1. ~Loaded(k) /\ k.at # "apply"
    BY <1>3 DEF Loaded
  <2>2. CASE k.op = "env_up"
    <3> DEFINE c == [k EXCEPT !.at = "compose"]
    <3>1. calls' = [calls EXCEPT ![w] = c]
      BY <1>3, <2>2 DEF AfterRender, Move
    <3>2. c \in Calls /\ c.op = "env_up" /\ c.at = "compose"
      BY <1>1, <2>2 DEF Calls, Ats
    <3> HIDE DEF c
    <3>3. CallOK(c) /\ ~Loaded(c) /\ c.op \notin SyncOps
      BY <3>2 DEF CallOK, Loaded, Deciding, EnvOps, SyncOps
    <3> QED
      BY <1>2, <2>1, <3>1, <3>2, <3>3, FreeTurn
  <2>3. CASE k.op # "env_up"
    <3>1. calls' = [calls EXCEPT ![w] = NoCall]
      BY <1>3, <2>3 DEF AfterRender
    <3> QED
      BY <1>2, <2>1, <3>1, ReturnsNothing
  <2> QED
    BY <2>2, <2>3
<1>4. CASE EnvBegin(w)
  <2>1. PICK i \in Listed, op \in EnvOps :
          Begin(w, Call(op, i, None, row[i].place, IF op = "env_down" THEN "compose" ELSE "render"))
    BY <1>4 DEF EnvBegin
  <2> DEFINE at == IF op = "env_down" THEN "compose" ELSE "render"
             c == Call(op, i, None, row[i].place, at)
  <2>2. i \in AllAggregates /\ row[i].place \in Places
    BY <2>1, KindsDiffer, ShownHasRow DEF Listed, WorktreeStates
  <2>3. c \in Calls /\ c.op = op /\ c.at = at
    <3>1. /\ op \in Ops /\ at \in Ats /\ i \in AllAggregates \cup {None}
          /\ None \in Keys \cup {None} /\ row[i].place \in Vals
      BY <2>2 DEF Ops, Ats, Vals
    <3> HIDE DEF at
    <3> QED
      BY <3>1, CallFields
  <2>4. calls[w] = NoCall /\ calls' = [calls EXCEPT ![w] = c]
    BY <2>1 DEF Begin
  <2>5. at \in {"compose", "render"}
    OBVIOUS
  <2> HIDE DEF c, at
  <2>6. CallOK(c) /\ ~Loaded(c) /\ c.op \notin SyncOps /\ c.op # "worktree_remove" /\ c.at # "apply"
    BY <2>3, <2>5 DEF CallOK, Loaded, Deciding, EnvOps, SyncOps
  <2>7. calls[w].at # "apply" /\ ~Loaded(calls[w])
    BY <2>4 DEF NoCall, Loaded
  <2> QED
    BY <1>2, <2>3, <2>4, <2>6, <2>7, FreeTurn
<1>5. CASE EnvSkip(w)
  BY <1>3, <1>5 DEF EnvSkip
<1>6. CASE EnvRead(w)
  <2>1. PICK base \in BaseFiles, template \in Templates :
          calls' = [calls EXCEPT ![w].at = "write", ![w].todo = {<<base, template>>}]
    BY <1>6 DEF EnvRead
  <2> DEFINE S == {<<base, template>>}
             c == [k EXCEPT !.at = "write", !.todo = S]
  <2>2. calls' = [calls EXCEPT ![w] = c]
    BY <2>1
  <2>3. S \in SUBSET (Listing \cup (BaseFiles \X Templates))
    OBVIOUS
  <2>4. k.at = "render" /\ k.op \in EnvOps
    BY <1>1, <1>6 DEF EnvRead, CallOK, Calls, Ops, SyncOps, Deciding
  <2> HIDE DEF S
  <2>5. c \in Calls /\ c.op = k.op /\ c.at = "write"
    BY <1>1, <2>3 DEF Calls, Ats
  <2> HIDE DEF c
  <2>6. CallOK(c) /\ ~Loaded(c) /\ c.op \notin SyncOps /\ c.op # "worktree_remove" /\ c.at # "apply"
    BY <2>4, <2>5 DEF CallOK, Loaded, Deciding, EnvOps, SyncOps
  <2>7. k.at # "apply" /\ ~Loaded(k)
    BY <2>4 DEF Loaded
  <2> QED
    BY <1>2, <2>2, <2>5, <2>6, <2>7, FreeTurn
<1>7. CASE EnvWrite(w)
  BY <1>3, <1>7 DEF EnvWrite
<1>8. CASE EnvCompose(w)
  <2>1. calls' = [calls EXCEPT ![w] = NoCall] /\ k.at = "compose"
    BY <1>8 DEF EnvCompose
  <2>2. ~Loaded(k)
    BY <2>1 DEF Loaded
  <2> QED
    BY <1>2, <2>1, <2>2, ReturnsNothing
<1> QED
  BY <1>4, <1>5, <1>6, <1>7, <1>8

\* What the user does by hand, and the cleanup, touch neither logs nor rows.
LEMMA HandsKeep ==
  ASSUME SysInv, \/ HandRemovesTree \/ HandAddsWorktree \/ HandPrunes
                 \/ HandWritesDot \/ PruneReads \/ PruneAsks \/ PruneNext
  PROVE  [Next]_vars /\ WorkInv'
<1>1. UNCHANGED <<table, writer, row, calls, torn>>
  BY DEF HandRemovesTree, HandAddsWorktree, HandPrunes, HandWritesDot, PruneReads, PruneAsks,
         PruneNext, ByHand, store, wvars
<1>2. admin \in [Names -> Places \cup {None}]
  BY DEF SysInv, WorkInv, DiskInv
<1>3. DiskInv'
  BY <1>2 DEF HandRemovesTree, HandAddsWorktree, HandPrunes, HandWritesDot, PruneReads, PruneAsks,
              PruneNext, disk, wvars, DiskInv
<1> QED
  BY <1>1, <1>3, StandKeeps

------------------------------------------------------------------------------
(* The theorems. *)

\* The invariant holds before anything was made.
LEMMA InitSysInv == EnvInit => SysInv
<1> SUFFICES ASSUME EnvInit PROVE SysInv
  OBVIOUS
<1>1. WInit /\ Init
  BY DEF EnvInit, WInit
<1>2. IInv
  BY <1>1, InitIInv
<1>3. /\ calls = [w \in Writers |-> NoCall] /\ writer = [w \in Writers |-> Idle]
      /\ row = [a \in AllAggregates |-> None] /\ torn = {} /\ admin = [n \in Names |-> None]
      /\ table = [a \in AllAggregates |-> << >>]
  BY <1>1, KindsDiffer DEF WInit, Init, NoRows
<1>4. \A a \in AllAggregates : Replay(a, << >>) = None
  BY ReplayEmpty
<1>5. CallsInv /\ Alone /\ DiskInv
  BY <1>3, NoCallFree DEF CallsInv, Fits, Alone, DiskInv
<1>6. LogsInv
  <2> SUFFICES ASSUME NEW a \in AllAggregates PROVE LogOK(a, << >>)
    BY <1>3 DEF LogsInv
  <2>1. << >> \in Seq(Events) /\ Len(<< >>) = 0
    BY EmptySeq
  <2> QED
    BY <1>4, <2>1 DEF LogOK
<1>7. RowsInv
  <2>1. \A w \in Writers : calls[w].at = "none" /\ calls[w].op = "none"
    BY <1>3 DEF NoCall
  <2>2. /\ DOMAIN row = AllAggregates /\ torn = {}
        /\ \A a \in AllAggregates : row[a] = None
    BY <1>3
  <2> QED
    BY <2>1, <2>2 DEF RowsInv, Pending
<1>8. RowsMatchLog
  <2>1. \A a \in AllAggregates : RowOf(a, None) = None
    BY DEF RowOf
  <2> QED
    BY <1>3, <1>4, <2>1 DEF RowsMatchLog
<1> QED
  BY <1>2, <1>5, <1>6, <1>7, <1>8 DEF SysInv, WorkInv

\* Every step keeps it, and but for a restart it is a step of the event store.
LEMMA EnvStep ==
  ASSUME SysInv, [EnvNext]_envvars
  PROVE  SysInv' /\ ([Next]_vars \/ UNCHANGED table)
<1>1. ASSUME [Next]_vars /\ WorkInv'
      PROVE  SysInv' /\ ([Next]_vars \/ UNCHANGED table)
  BY <1>1, NextIInv DEF SysInv
<1>2. ASSUME NEW w \in Writers, CommandStep(w)
      PROVE  SysInv' /\ ([Next]_vars \/ UNCHANGED table)
  BY <1>1, <1>2, ProjectBegins, ActionBegins, WorktreeBegins, GitSteps, ImportSteps,
     DecidesWithout, AppendKeeps, ApplyKeeps DEF CommandStep
<1>3. CASE WorkspaceStep
  BY <1>1, <1>2, <1>3, HandsKeep DEF WorkspaceStep, WorkspaceNext
<1>4. CASE EnvRestart
  BY <1>4, RestartKeeps DEF EnvRestart, Restart
<1>5. CASE HandWritesDot \/ PruneReads \/ PruneAsks \/ PruneNext
  BY <1>1, <1>5, HandsKeep
<1>6. ASSUME NEW w \in Writers,
             EnvBegin(w) \/ EnvSkip(w) \/ EnvRead(w) \/ EnvWrite(w) \/ EnvCompose(w)
      PROVE  SysInv' /\ ([Next]_vars \/ UNCHANGED table)
  BY <1>1, <1>6, EnvSteps
<1>7. CASE UNCHANGED envvars
  <2>1. UNCHANGED <<table, writer, row, calls, torn, admin>>
    BY <1>7 DEF envvars, wvars, store, disk
  <2>2. DiskInv'
    BY <2>1 DEF SysInv, WorkInv, DiskInv
  <2> QED
    BY <1>1, <2>1, <2>2, StandKeeps
<1> QED
  BY <1>3, <1>4, <1>5, <1>6, <1>7 DEF EnvNext

\* So it always holds.
LEMMA SysInvHolds == EnvSpec => []SysInv
<1>1. SysInv /\ [EnvNext]_envvars => SysInv'
  BY EnvStep
<1> QED
  BY <1>1, InitSysInv, PTL DEF EnvSpec

\* Whatever commands run in whatever order, and whenever the application ends, a log of
\* a project, a worktree or an action starts with its creation, holds no other, and ends
\* with its end: commands decide on the whole log, or their append conflicts.
THEOREM LawfulLogs == EnvSpec => []LogsAreLawful
<1>1. SysInv => LogsAreLawful
  BY DEF SysInv, WorkInv, LogsInv, LogOK, LogsAreLawful, Creations, Ends
<1> QED
  BY <1>1, SysInvHolds, PTL

\* The row of an aggregate in the read model is what its log folds to, unless a call has
\* yet to write it or the application ended before it did.
THEOREM RowsFollowLogs == EnvSpec => []RowsMatchLog
<1>1. SysInv => RowsMatchLog
  BY DEF SysInv, WorkInv
<1> QED
  BY <1>1, SysInvHolds, PTL

\* The logs of the workspace are those that the event store promises: every step adds
\* a batch to one log or leaves all of them, and so does a restart.
THEOREM WorkspaceImplementsLogs == EnvSpec => ImplementsLog
<1>1. SysInv /\ [EnvNext]_envvars => [Log!Next]_table
  <2> SUFFICES ASSUME SysInv, [EnvNext]_envvars PROVE [Log!Next]_table
    OBVIOUS
  <2>1. CASE [Next]_vars
    BY <2>1, StepRefines DEF SysInv
  <2>2. CASE UNCHANGED table
    BY <2>2
  <2> QED
    BY <2>1, <2>2, EnvStep
<1>2. EnvInit => Log!Init
  BY InitRefines DEF EnvInit, WInit
<1> QED
  BY <1>1, <1>2, SysInvHolds, PTL DEF EnvSpec, ImplementsLog, Log!Spec

\* Whichever command changes an aggregate has seen all of its log: none overwrites or
\* ignores what another one appended.
THEOREM CommandsLoseNothing == EnvSpec => AppendSeesAll
<1> DEFINE Sees == \A a \in Aggregates : table'[a] # table[a] =>
                     \E w \in Writers : /\ writer[w] # Idle /\ writer[w].agg = a
                                        /\ writer[w].seen = table[a]
                                        /\ writer'[w] # writer[w]
<1>1. SysInv /\ [EnvNext]_envvars => Sees
  <2> SUFFICES ASSUME SysInv, [EnvNext]_envvars PROVE Sees
    OBVIOUS
  <2>1. CASE [Next]_vars
    BY <2>1, AppendStepSeesAll DEF SysInv
  <2>2. CASE UNCHANGED table
    BY <2>2
  <2> QED
    BY <2>1, <2>2, EnvStep
<1>2. SysInv /\ [EnvNext]_envvars => [Sees]_vars
  BY <1>1
<1> QED
  BY <1>2, SysInvHolds, PTL DEF EnvSpec, AppendSeesAll

------------------------------------------------------------------------------
(* The import of what git lists. *)

\* What was listed with a branch is known, or on the list still, or under way.
Taken(c) ==
  \A d \in c.found : d.head =>
    \/ Known(d) \/ d \in c.todo
    \/ c.at \in Deciding /\ c.val = WorktreeData(d.project, d.name, d.place)
\* The id of a worktree that is being made is in nobody else's hands.
Sole(w) ==
  /\ table[calls[w].agg] = NoRows
  /\ \A x \in Writers \ {w} : writer[x] # Idle => writer[x].agg # calls[w].agg
\* What has been decided on is the last in the log.
Logged(c) ==
  LET e == table[c.agg][HeadVersion(table[c.agg])]
  IN  e.kind = "WorktreeCreated" /\ e.val = c.val
SpentInv == spent \in [all : Nat, outside : Nat, crashes : Nat]
Imports(w) ==
  calls[w].op = "worktree_list" =>
    /\ calls[w].at \in {"import"} \cup Deciding => Taken(calls[w])
    /\ calls[w].at = "decide" => Sole(w)
    /\ calls[w].at = "apply" => Logged(calls[w])
ImportInv == SpentInv /\ \A w \in Writers : Imports(w)

\* What a call is at the start.
LEMMA CallStarts ==
  ASSUME NEW op, NEW a, NEW f, NEW v, NEW at
  PROVE  Call(op, a, f, v, at).op = op /\ Call(op, a, f, v, at).at = at
BY DEF Call, NoCall

\* The steps of environment commands.
EnvCommandStep(w) == EnvBegin(w) \/ EnvSkip(w) \/ EnvRead(w) \/ EnvWrite(w) \/ EnvCompose(w)

\* A step is that of one call, or a restart, or touches no call.
LEMMA StepsOf ==
  ASSUME SpentInv, [EnvNext]_envvars
  PROVE  \/ \E w \in Writers : CommandStep(w) \/ EnvCommandStep(w)
         \/ Restart
         \/ UNCHANGED <<table, writer, row, calls>> /\ spent'.crashes = spent.crashes
<1>1. CASE HandRemovesTree \/ HandAddsWorktree \/ HandPrunes \/ HandWritesDot
  BY <1>1 DEF HandRemovesTree, HandAddsWorktree, HandPrunes, HandWritesDot, ByHand, store, SpentInv
<1>2. CASE PruneReads \/ PruneAsks \/ PruneNext \/ UNCHANGED envvars
  BY <1>2 DEF PruneReads, PruneAsks, PruneNext, envvars, wvars, store
<1> QED
  BY <1>1, <1>2 DEF EnvNext, WorkspaceStep, WorkspaceNext, EnvRestart, EnvCommandStep

\* What can be spent is counted.
LEMMA SpentCounted ==
  ASSUME SpentInv, [EnvNext]_envvars
  PROVE  SpentInv'
<1> DEFINE n == spent.all + 1
<1>1. SUFFICES \/ spent' = spent \/ spent' = [spent EXCEPT !.all = n]
               \/ spent' = [spent EXCEPT !.all = n, !.outside = spent.outside + 1]
               \/ spent' = [spent EXCEPT !.all = n, !.crashes = spent.crashes + 1]
  <2>1. n \in Nat /\ spent.outside + 1 \in Nat /\ spent.crashes + 1 \in Nat
    BY DEF SpentInv
  <2> HIDE DEF n
  <2> QED
    BY <2>1 DEF SpentInv
<1>2. ASSUME NEW w \in Writers, CommandStep(w)
      PROVE  spent' = spent \/ spent' = [spent EXCEPT !.all = @ + 1]
  BY <1>2 DEF CommandStep, BeginProjectCreate, BeginProject, BeginActionUpsert, BeginActionDelete,
     BeginWorktreeCreate, BeginList, BeginRemove, Begin, GitFails, GitCreate, GitRemove, GitList,
     ReadKnown, ImportNext, ListReturns, DecideNothing, DecideAppends, DecideConflicts, ApplyRow
<1>3. ASSUME NEW w \in Writers, EnvCommandStep(w)
      PROVE  spent' = spent \/ spent' = [spent EXCEPT !.all = @ + 1]
  BY <1>3 DEF EnvCommandStep, EnvBegin, Begin, EnvSkip, EnvRead, EnvWrite, EnvCompose
<1>4. CASE HandRemovesTree \/ HandAddsWorktree \/ HandPrunes \/ HandWritesDot \/ Restart
  BY <1>4 DEF HandRemovesTree, HandAddsWorktree, HandPrunes, HandWritesDot, ByHand, Restart
<1>5. CASE PruneReads \/ PruneAsks \/ PruneNext \/ UNCHANGED envvars
  BY <1>5 DEF PruneReads, PruneAsks, PruneNext, envvars, wvars
<1> QED
  BY <1>2, <1>3, <1>4, <1>5 DEF EnvNext, WorkspaceStep, WorkspaceNext, EnvRestart, EnvCommandStep

\* A call goes on by its own steps alone.
LEMMA OnlyOwn ==
  ASSUME SysInv, NEW x \in Writers, CommandStep(x) \/ EnvCommandStep(x), NEW w \in Writers, w # x
  PROVE  calls'[w] = calls[w]
<1>1. calls \in [Writers -> Calls]
  BY HeldFits
<1>2. CASE CommandStep(x)
  BY <1>1, <1>2 DEF CommandStep, BeginProjectCreate, BeginProject, BeginActionUpsert, BeginActionDelete,
     BeginWorktreeCreate, BeginList, BeginRemove, Begin, GitFails, GitCreate, GitRemove, GitList,
     ReadKnown, ImportNext, ListReturns, DecideNothing, DecideAppends, DecideConflicts, ApplyRow,
     Return, Move
<1>3. CASE EnvCommandStep(x)
  BY <1>1, <1>3 DEF EnvCommandStep, EnvBegin, Begin, EnvSkip, EnvRead, EnvWrite, EnvCompose, AfterRender, Move
<1> QED
  BY <1>2, <1>3

\* Only an append changes a log, and only its writer's row is applied.
LEMMA OnlyAppends ==
  ASSUME NEW x \in Writers, CommandStep(x) \/ EnvCommandStep(x)
  PROVE  /\ table' = table \/ DecideAppends(x)
         /\ row' = row \/ ApplyRow(x)
<1>1. CASE CommandStep(x)
  BY <1>1 DEF CommandStep, BeginProjectCreate, BeginProject, BeginActionUpsert, BeginActionDelete,
     BeginWorktreeCreate, BeginList, BeginRemove, GitFails, GitCreate, GitRemove, GitList,
     ReadKnown, ImportNext, ListReturns, DecideNothing, DecideAppends, DecideConflicts, ApplyRow,
     Load, Create, Release, AppendConflicts, store
<1>2. CASE EnvCommandStep(x)
  BY <1>2 DEF EnvCommandStep, EnvBegin, EnvSkip, EnvRead, EnvWrite, EnvCompose, store
<1> QED
  BY <1>1, <1>2

\* An aggregate nobody has begun.
Untaken(a) == table[a] = NoRows /\ \A w \in Writers : writer[w] = Idle \/ writer[w].agg # a

\* Who takes an aggregate takes one that is new, or one that has a row.
LEMMA TakesNewOrShown ==
  ASSUME SysInv, NEW x \in Writers, CommandStep(x) \/ EnvCommandStep(x), NEW w \in Writers,
         writer'[w] # Idle, writer'[w] # writer[w]
  PROVE  LET a == writer'[w].agg
         IN w = x /\ a \in AllAggregates /\ (Untaken(a) \/ row[a] # None)
<1>1. writer \in [Writers -> Held \cup {Idle}]
  BY HeldFits
<1>2. ASSUME NEW a \in AllAggregates, Load(x, a) \/ Create(x, a), Untaken(a) \/ row[a] # None
      PROVE  w = x /\ writer'[w].agg \in AllAggregates
             /\ (Untaken(writer'[w].agg) \/ row[writer'[w].agg] # None)
  BY <1>1, <1>2 DEF Load, Create
<1>3. CASE writer' = writer \/ writer' = [writer EXCEPT ![x] = Idle]
  BY <1>1, <1>3
<1>4. /\ Projects \subseteq AllAggregates /\ Worktrees \subseteq AllAggregates /\ Actions \subseteq AllAggregates
      /\ \A i \in AllAggregates : IsShown(i) => row[i] # None
  BY KindsDiffer DEF IsShown
<1>5. CASE BeginProjectCreate(x) \/ BeginActionUpsert(x)
  <2>1. \E a \in AllAggregates : (Load(x, a) \/ Create(x, a)) /\ (Untaken(a) \/ row[a] # None)
    BY <1>4, <1>5 DEF BeginProjectCreate, BeginActionUpsert, Unused, Untaken
  <2> QED
    BY <1>2, <2>1
<1>6. CASE BeginProject(x) \/ BeginActionDelete(x) \/ BeginRemove(x)
  <2>1. \E a \in AllAggregates : Load(x, a) /\ row[a] # None
    BY <1>4, <1>6 DEF BeginProject, BeginActionDelete, BeginRemove
  <2> QED
    BY <1>2, <2>1
<1>7. CASE GitCreate(x) \/ ImportNext(x)
  <2>1. writer' = writer \/ \E a \in AllAggregates : Create(x, a) /\ Untaken(a)
    BY <1>4, <1>7 DEF GitCreate, ImportNext, Minted, Unused, Untaken
  <2> QED
    BY <1>2, <1>3, <2>1
<1>8. CASE \/ BeginWorktreeCreate(x) \/ BeginList(x) \/ GitFails(x) \/ GitRemove(x) \/ GitList(x)
           \/ ReadKnown(x) \/ ListReturns(x) \/ DecideNothing(x) \/ DecideAppends(x)
           \/ DecideConflicts(x) \/ ApplyRow(x) \/ EnvCommandStep(x)
  <2>1. writer' = writer \/ writer' = [writer EXCEPT ![x] = Idle]
    BY <1>8 DEF BeginWorktreeCreate, BeginList, GitFails, GitRemove, GitList, ReadKnown, ListReturns,
       DecideNothing, DecideAppends, DecideConflicts, ApplyRow, Release, AppendEvents, AppendConflicts,
       EnvCommandStep, EnvBegin, EnvSkip, EnvRead, EnvWrite, EnvCompose, store
  <2> QED
    BY <1>3, <2>1
<1> QED
  BY <1>5, <1>6, <1>7, <1>8 DEF CommandStep

\* A worktree that is known stays known: its row changes only to say it is removed.
LEMMA KnownStays ==
  ASSUME SysInv, NEW x \in Writers, CommandStep(x) \/ EnvCommandStep(x), NEW d, Known(d)
  PROVE  Known(d)'
<1>1. PICK i \in Worktrees : /\ row[i] # None /\ row[i].project = d.project
                             /\ row[i].name = d.name \/ row[i].place = d.place
  BY DEF Known
<1>2. CASE row'[i] = row[i]
  BY <1>1, <1>2 DEF Known
<1>3. CASE row'[i] # row[i]
  <2> DEFINE e == table[i][Len(table[i])]
  <2>1. ApplyRow(x) /\ calls[x].agg = i
    <3>1. ApplyRow(x)
      BY <1>3, OnlyAppends
    <3>2. row' = [row EXCEPT ![calls[x].agg] = AppliedRow(calls[x].agg, table[calls[x].agg][HeadVersion(table[calls[x].agg])])]
      BY <3>1 DEF ApplyRow
    <3>3. i \in DOMAIN row
      BY KindsDiffer DEF SysInv, WorkInv, RowsInv
    <3> QED
      BY <1>3, <3>1, <3>2, <3>3
  <2>2. i \in AllAggregates /\ i \notin Projects /\ i \in DOMAIN row /\ table[i] \in Seq(Events)
    BY KindsDiffer DEF SysInv, WorkInv, RowsInv, LogsInv, LogOK
  <2>3. HeadVersion(table[i]) = Len(table[i])
    BY <2>2, HeadOfSeq
  <2>4. row'[i] = WorktreeRow(row[i], e)
    BY <2>1, <2>2, <2>3 DEF ApplyRow, AppliedRow
  <2>5. Pending(x, i)
    BY <2>1 DEF Pending, ApplyRow
  <2>6. calls[x].op = "worktree_remove" /\ e.kind \in Ends
    BY <1>1, <2>2, <2>5 DEF SysInv, WorkInv, RowsInv
  <2>7. row[i] \in WorktreeStates
    BY <1>1, ShownHasRow
  <2>8. row'[i] = [row[i] EXCEPT !.removed = TRUE]
    BY <1>1, <2>4, <2>6 DEF WorktreeRow, Ends
  <2>9. /\ row'[i].project = row[i].project /\ row'[i].name = row[i].name /\ row'[i].place = row[i].place
        /\ row'[i] \in WorktreeStates
    BY <2>7, <2>8 DEF WorktreeStates
  <2>10. row'[i] # None
    BY <2>9, WorkspaceAssumption DEF WorkspaceAssumption, WorktreeStates
  <2> QED
    BY <1>1, <2>9, <2>10 DEF Known
<1> QED
  BY <1>2, <1>3

\* What is taken stays taken, when the list gets no shorter, or what leaves it is under way.
LEMMA TakenStays ==
  ASSUME SysInv, NEW x \in Writers, CommandStep(x) \/ EnvCommandStep(x), NEW w \in Writers,
         calls'[w] = calls[w], Taken(calls[w])
  PROVE  Taken(calls[w])'
<1> SUFFICES ASSUME NEW d \in calls'[w].found, d.head
             PROVE  \/ Known(d)' \/ d \in calls'[w].todo
                    \/ calls'[w].at \in Deciding /\ calls'[w].val = WorktreeData(d.project, d.name, d.place)
  BY DEF Taken
<1> QED
  BY KnownStays DEF Taken

\* The steps of others leave an import as it is.
LEMMA OthersImport ==
  ASSUME SysInv, SysInv', ImportInv, NEW x \in Writers, CommandStep(x) \/ EnvCommandStep(x),
         NEW w \in Writers, w # x
  PROVE  Imports(w)'
<1> SUFFICES ASSUME calls'[w].op = "worktree_list"
             PROVE  /\ calls'[w].at \in {"import"} \cup Deciding => Taken(calls[w])'
                    /\ calls'[w].at = "decide" => Sole(w)'
                    /\ calls'[w].at = "apply" => Logged(calls[w])'
  BY DEF Imports
<1>1. calls'[w] = calls[w]
  BY OnlyOwn
<1>2. Imports(w)
  BY DEF ImportInv
<1>3. ASSUME calls[w].at \in Deciding
      PROVE  calls[w].agg \in Worktrees /\ calls[w].agg \in AllAggregates
  BY <1>1, <1>3, HeldFits, KindsDiffer DEF CallOK
<1>4. ASSUME calls'[w].at \in {"import"} \cup Deciding
      PROVE  Taken(calls[w])'
  BY <1>1, <1>2, <1>4, TakenStays DEF Imports
<1>5. ASSUME table'[calls[w].agg] # table[calls[w].agg]
      PROVE  /\ DecideAppends(x) /\ calls[x].agg = calls[w].agg
             /\ writer[x] # Idle /\ writer[x].agg = calls[x].agg /\ calls'[x].at = "apply"
             /\ calls'[x].agg = calls[x].agg
  <2>1. DecideAppends(x)
    BY <1>5, OnlyAppends
  <2>2. writer[x] # Idle /\ writer[x].agg = calls[x].agg
    BY <2>1, HeldFits DEF DecideAppends, Fits, Loaded
  <2>3. \E rows : table' = [table EXCEPT ![calls[x].agg] = rows]
    BY <2>1, <2>2 DEF DecideAppends, AppendEvents
  <2>4. calls'[x].at = "apply" /\ calls'[x].agg = calls[x].agg
    BY <2>1, HeldFits DEF DecideAppends, Move, Calls
  <2>5. calls[x].agg = calls[w].agg
    BY <1>5, <2>3
  <2> QED
    BY <2>1, <2>2, <2>4, <2>5
<1>6. ASSUME calls'[w].at = "decide"
      PROVE  Sole(w)'
  <2>1. Sole(w) /\ Fits(calls[w], writer[w]) /\ Loaded(calls[w])
    BY <1>1, <1>2, <1>6, HeldFits DEF Imports, Loaded
  <2>2. writer[w] # Idle /\ writer[w].agg = calls[w].agg
    BY <2>1 DEF Fits
  <2>3. table'[calls[w].agg] = NoRows
    BY <1>5, <2>1 DEF Sole
  <2>4. ASSUME NEW y \in Writers \ {w}, writer'[y] # Idle
        PROVE  writer'[y].agg # calls[w].agg
    <3>1. CASE writer'[y] = writer[y]
      BY <2>1, <2>4, <3>1 DEF Sole
    <3>2. CASE writer'[y] # writer[y]
      <4>1. Untaken(writer'[y].agg) \/ row[writer'[y].agg] # None
        BY <2>4, <3>2, TakesNewOrShown
      <4>2. row[calls[w].agg] = None
        BY <1>1, <1>3, <1>6, <2>1 DEF Sole, SysInv, WorkInv, RowsInv, Deciding
      <4> QED
        BY <2>2, <4>1, <4>2 DEF Untaken
    <3> QED
      BY <3>1, <3>2
  <2> QED
    BY <1>1, <2>3, <2>4 DEF Sole
<1>7. ASSUME calls'[w].at = "apply"
      PROVE  Logged(calls[w])'
  <2>1. Logged(calls[w])
    BY <1>1, <1>2, <1>7 DEF Imports
  <2>2. table'[calls[w].agg] = table[calls[w].agg]
    <3>1. SUFFICES ASSUME table'[calls[w].agg] # table[calls[w].agg]
                   PROVE  FALSE
      OBVIOUS
    <3>2. PICK a \in AllAggregates : a = calls[w].agg
      BY <1>1, <1>3, <1>7 DEF Deciding
    <3>3. Pending(x, a)' /\ Pending(w, a)'
      BY <1>1, <1>5, <1>7, <3>1, <3>2 DEF Pending
    <3>4. x = w
      BY <3>3 DEF SysInv, WorkInv, RowsInv
    <3> QED
      BY <3>4
  <2> QED
    BY <1>1, <2>1, <2>2 DEF Logged
<1> QED
  BY <1>4, <1>6, <1>7

\* The import goes on with a worktree, which gets an id nobody has.
LEMMA ImportNextImports ==
  ASSUME SysInv, ImportInv, NEW w \in Writers, ImportNext(w)
  PROVE  Imports(w)'
<1> DEFINE k == calls[w]
<1>1. /\ calls \in [Writers -> Calls] /\ writer \in [Writers -> Held \cup {Idle}] /\ k \in Calls
      /\ k.op = "worktree_list" /\ k.at = "import" /\ Taken(k) /\ UNCHANGED <<table, row>>
  BY HeldFits DEF ImportNext, At, ImportInv, Imports
<1>2. \A d : Known(d)' <=> Known(d)
  BY <1>1 DEF Known
<1>3. PICK d \in k.todo :
        LET c == [k EXCEPT !.todo = @ \ {d}] IN
        IF ~d.head THEN calls' = [calls EXCEPT ![w] = c] /\ UNCHANGED writer
        ELSE \E i \in Worktrees :
               /\ Minted(i) /\ Create(w, i)
               /\ calls' = [calls EXCEPT ![w] =
                      [c EXCEPT !.agg = i, !.at = "decide",
                                !.val = WorktreeData(d.project, d.name, d.place)]]
  BY DEF ImportNext
<1> DEFINE rest == k.todo \ {d}
           c == [k EXCEPT !.todo = rest]
<1>4. /\ c = [k EXCEPT !.todo = @ \ {d}] /\ c.todo = rest /\ c.found = k.found /\ c.op = k.op /\ c.at = k.at
      /\ DOMAIN c = DOMAIN k
  BY <1>1 DEF Calls
<1>5. CASE ~d.head
  <2>1. calls'[w] = c
    BY <1>1, <1>3, <1>4, <1>5
  <2> HIDE DEF c
  <2>2. \A f \in c.found : f.head => Known(f)' \/ f \in c.todo
    BY <1>1, <1>2, <1>4, <1>5 DEF Taken, Deciding
  <2>3. Taken(calls[w])'
    BY <2>1, <2>2 DEF Taken
  <2> QED
    BY <1>1, <1>4, <2>1, <2>3 DEF Imports
<1>6. CASE d.head
  <2> DEFINE v == WorktreeData(d.project, d.name, d.place)
  <2>1. PICK i \in Worktrees : /\ Minted(i) /\ Create(w, i)
                               /\ calls' = [calls EXCEPT ![w] = [c EXCEPT !.agg = i, !.at = "decide", !.val = v]]
    BY <1>3, <1>4, <1>6
  <2> DEFINE e == [c EXCEPT !.agg = i, !.at = "decide", !.val = v]
  <2>2. /\ e.op = "worktree_list" /\ e.at = "decide" /\ e.agg = i /\ e.val = v
        /\ e.todo = rest /\ e.found = k.found
    BY <1>1, <1>4 DEF Calls
  <2>3. calls'[w] = e
    BY <1>1, <2>1
  <2> HIDE DEF c, e, v
  <2>4. ASSUME NEW f \in e.found, f.head
        PROVE  Known(f)' \/ f \in e.todo \/ e.val = WorktreeData(f.project, f.name, f.place)
    BY <1>1, <1>2, <2>2, <2>4 DEF Taken, Deciding, v
  <2>5. Taken(calls[w])'
    BY <2>2, <2>3, <2>4 DEF Taken, Deciding
  <2>6. Sole(w)'
    <3>1. table[i] = NoRows /\ \A x \in Writers : writer[x] = Idle \/ writer[x].agg # i
      BY <2>1 DEF Minted, Unused
    <3>2. \A x \in Writers \ {w} : writer'[x] = writer[x]
      BY <1>1, <2>1 DEF Create
    <3> QED
      BY <1>1, <2>2, <2>3, <3>1, <3>2 DEF Sole
  <2> QED
    BY <2>2, <2>3, <2>5, <2>6 DEF Imports
<1> QED
  BY <1>5, <1>6

\* What the import decides on a new worktree: its creation, of a name that is no blank.
LEMMA ImportDecides ==
  ASSUME SysInv, ImportInv, NEW w \in Writers, calls[w].op = "worktree_list", calls[w].at = "decide"
  PROVE  /\ Decision(w).events = <<Event("WorktreeCreated", None, calls[w].val)>>
         /\ writer[w].seen = NoRows /\ writer[w].agg = calls[w].agg /\ table[calls[w].agg] = NoRows
         /\ calls[w].agg \in Worktrees
<1> DEFINE k == calls[w]
<1>1. /\ k.val \in NewTrees /\ k.agg \in Worktrees /\ Fits(k, writer[w])
      /\ table[k.agg] = NoRows
  BY HeldFits DEF CallOK, Deciding, ImportInv, Imports, Sole
<1>2. writer[w].seen = NoRows /\ writer[w].agg = k.agg
  BY <1>1 DEF Fits, Loaded, Creating
<1>3. Replay(k.agg, writer[w].seen) = None
  BY <1>2, ReplayEmpty DEF NoRows
<1>4. k.agg \notin Projects /\ k.val.name # Blank
  BY <1>1, KindsDiffer, WorkspaceAssumption DEF NewTrees, WorktreeStates, WorkspaceAssumption
<1>5. Decision(w) = DecideWorktree(None, k)
  BY <1>1, <1>3, <1>4 DEF Decision, Decide
<1>6. Decision(w) = Decided(<<Event("WorktreeCreated", None, k.val)>>)
  BY <1>4, <1>5 DEF DecideWorktree
<1> QED
  BY <1>1, <1>2, <1>6 DEF Decided

\* The call of an import decides, appends and writes the row of a worktree.
LEMMA ImportDecidesOn ==
  ASSUME SysInv, ImportInv, NEW w \in Writers, calls[w].op = "worktree_list",
         DecideNothing(w) \/ DecideConflicts(w) \/ DecideAppends(w) \/ ApplyRow(w)
  PROVE  Imports(w)'
<1> DEFINE k == calls[w]
<1>1. /\ calls \in [Writers -> Calls] /\ k \in Calls /\ CallOK(k) /\ Imports(w) /\ k.at \in Deciding
      /\ Taken(k) /\ IInv
  BY HeldFits DEF ImportInv, Imports, DecideNothing, DecideConflicts, DecideAppends, ApplyRow, Deciding, SysInv
<1>2. k.agg \in Worktrees /\ k.agg \in AllAggregates /\ k.agg \notin Projects /\ k.val \in NewTrees
  BY <1>1, KindsDiffer DEF CallOK
<1>3. ~DecideNothing(w)
  <2>1. <<Event("WorktreeCreated", None, k.val)>> # << >>
    OBVIOUS
  <2> QED
    BY <2>1, ImportDecides DEF DecideNothing
<1>4. ~DecideConflicts(w)
  <2>1. SUFFICES ASSUME DecideConflicts(w)
                 PROVE  FALSE
    OBVIOUS
  <2>2. table[k.agg] = << >> /\ writer[w].agg = k.agg
    BY <2>1, ImportDecides DEF DecideConflicts, NoRows
  <2>3. Versions(table[writer[w].agg]) = {}
    BY <2>2 DEF Versions
  <2> QED
    BY <2>1, <2>3 DEF DecideConflicts, AppendConflicts, Conflicts
<1>5. CASE DecideAppends(w)
  <2> DEFINE e == Event("WorktreeCreated", None, k.val)
             c == [k EXCEPT !.at = "apply"]
  <2>1. k.at = "decide" /\ calls' = [calls EXCEPT ![w] = c] /\ UNCHANGED row
        /\ AppendEvents(w, Decision(w).events, FALSE)
    BY <1>5 DEF DecideAppends, Move
  <2>2. /\ Decision(w).events = <<e>> /\ writer[w].seen = << >> /\ writer[w].agg = k.agg
        /\ table[k.agg] = << >>
    BY <2>1, ImportDecides DEF NoRows
  <2>3. writer[w] # Idle
    BY <2>1 DEF AppendEvents
  <2>4. writer[w].expected = 0
    <3>1. writer[w].expected = Len(writer[w].seen)
      BY <1>1, <2>3 DEF IInv, SeenIsPrefix
    <3> QED
      BY <2>2, <3>1
  <2>5. table'[k.agg] = Inserted(<< >>, 0, <<e>>)
    <3>1. table' = [table EXCEPT ![k.agg] = Inserted(table[k.agg], 0, <<e>>)]
      BY <2>1, <2>2, <2>4 DEF AppendEvents
    <3>2. k.agg \in DOMAIN table
      BY <1>1, <1>2, KindsDiffer DEF IInv, TypedRows
    <3> QED
      BY <2>2, <3>1, <3>2
  <2>6. table'[k.agg] = <<e>>
    <3>1. << >> \in Seq({e}) /\ Len(<< >>) = 0 /\ Append(<< >>, e) = <<e>>
      OBVIOUS
    <3>2. Inserted(<< >>, Len(<< >>), <<e>>) = Append(<< >>, e)
      BY <3>1, InsertedIsAppend
    <3> QED
      BY <2>5, <3>1, <3>2
  <2>7. /\ calls'[w] = c /\ c.op = "worktree_list" /\ c.at = "apply" /\ c.agg = k.agg /\ c.val = k.val
        /\ c.found = k.found /\ c.todo = k.todo
    BY <1>1, <2>1 DEF Calls
  <2> HIDE DEF c
  <2>8. HeadVersion(<<e>>) = 1
    <3>1. <<e>> \in Seq({e}) /\ Len(<<e>>) = 1
      OBVIOUS
    <3> QED
      BY <3>1, HeadOfSeq
  <2>9. e.kind = "WorktreeCreated" /\ e.val = k.val
    BY DEF Event
  <2> HIDE DEF e
  <2>10. Logged(calls[w])'
    BY <2>6, <2>7, <2>8, <2>9 DEF Logged
  <2>11. Taken(calls[w])'
    BY <1>1, <2>1, <2>7 DEF Taken, Known, Deciding
  <2> QED
    BY <2>7, <2>10, <2>11 DEF Imports
<1>6. CASE ApplyRow(w)
  <2> DEFINE c == [k EXCEPT !.at = "import"]
             e == table[k.agg][HeadVersion(table[k.agg])]
  <2>1. k.at = "apply" /\ calls' = [calls EXCEPT ![w] = c] /\ Logged(k)
        /\ row' = [row EXCEPT ![k.agg] = AppliedRow(k.agg, e)]
    BY <1>1, <1>6 DEF ApplyRow, Return, Imports
  <2>2. row'[k.agg] = k.val
    <3>1. k.agg \in DOMAIN row
      BY <1>2 DEF SysInv, WorkInv, RowsInv
    <3> QED
      BY <1>2, <2>1, <3>1 DEF AppliedRow, WorktreeRow, Logged
  <2>3. k.val # None
    BY <1>2, WorkspaceAssumption DEF WorkspaceAssumption, NewTrees, WorktreeStates
  <2>4. /\ calls'[w] = c /\ c.op = "worktree_list" /\ c.at = "import"
        /\ c.found = k.found /\ c.todo = k.todo
    BY <1>1, <2>1 DEF Calls
  <2> HIDE DEF c
  <2>5. ASSUME NEW d \in k.found, d.head
        PROVE  Known(d)' \/ d \in k.todo
    <3>1. CASE Known(d)
      BY <1>6, <3>1, KnownStays DEF CommandStep
    <3>2. CASE k.val = WorktreeData(d.project, d.name, d.place)
      <4>1. row'[k.agg].project = d.project /\ row'[k.agg].name = d.name
        BY <2>2, <3>2 DEF WorktreeData
      <4> QED
        BY <1>2, <2>2, <2>3, <4>1 DEF Known
    <3> QED
      BY <1>1, <2>5, <3>1, <3>2 DEF Taken
  <2>6. Taken(calls[w])'
    BY <2>4, <2>5 DEF Taken
  <2> QED
    BY <2>4, <2>6, <2>1 DEF Imports, Deciding
<1> QED
  BY <1>3, <1>4, <1>5, <1>6

\* What a call's own step makes of its import.
LEMMA OwnImport ==
  ASSUME SysInv, ImportInv, NEW w \in Writers, CommandStep(w) \/ EnvCommandStep(w)
  PROVE  Imports(w)'
<1> DEFINE k == calls[w]
<1>1. calls \in [Writers -> Calls] /\ k \in Calls /\ CallOK(k)
  BY HeldFits
<1>2. ASSUME NEW c, calls' = [calls EXCEPT ![w] = c], c.op # "worktree_list" \/ c.at \in {"git", "known"}
      PROVE  Imports(w)'
  BY <1>1, <1>2 DEF Imports, Deciding
<1>3. CASE \/ BeginProjectCreate(w) \/ BeginProject(w) \/ BeginActionUpsert(w) \/ BeginActionDelete(w)
           \/ BeginWorktreeCreate(w) \/ BeginList(w) \/ BeginRemove(w) \/ EnvBegin(w)
  <2>1. \E op, a, f, v, at : /\ calls' = [calls EXCEPT ![w] = Call(op, a, f, v, at)]
                             /\ op # "worktree_list" \/ at = "git"
    BY <1>3 DEF BeginProjectCreate, BeginProject, BeginActionUpsert, BeginActionDelete,
       BeginWorktreeCreate, BeginList, BeginRemove, EnvBegin, EnvOps, Begin
  <2>2. PICK op, a, f, v, at : /\ calls' = [calls EXCEPT ![w] = Call(op, a, f, v, at)]
                               /\ op # "worktree_list" \/ at = "git"
    BY <2>1
  <2>3. Call(op, a, f, v, at).op = op /\ Call(op, a, f, v, at).at = at
    BY CallStarts
  <2> QED
    BY <1>2, <2>2, <2>3
<1>4. NoCall.op # "worktree_list"
  BY DEF NoCall
<1>5. CASE GitFails(w) \/ ListReturns(w) \/ EnvCompose(w)
  BY <1>2, <1>4, <1>5 DEF GitFails, ListReturns, EnvCompose
<1>6. CASE GitCreate(w) \/ GitRemove(w) \/ EnvSkip(w) \/ EnvRead(w) \/ EnvWrite(w)
  <2>1. k.op # "worktree_list"
    BY <1>1, <1>6 DEF GitCreate, GitRemove, EnvSkip, EnvRead, EnvWrite, At, CallOK, Deciding
  <2>2. CASE GitCreate(w)
    <3>1. \/ calls' = [calls EXCEPT ![w] = NoCall]
          \/ \E i \in Worktrees : calls' = [calls EXCEPT ![w].agg = i, ![w].at = "decide"]
      BY <2>2 DEF GitCreate
    <3>2. ASSUME NEW i \in Worktrees
          PROVE  [k EXCEPT !.agg = i, !.at = "decide"].op = k.op
      BY <1>1 DEF Calls
    <3> QED
      BY <1>1, <1>2, <1>4, <2>1, <3>1, <3>2
  <2>3. ASSUME NEW at, Move(w, at)
        PROVE  Imports(w)'
    <3>1. calls' = [calls EXCEPT ![w] = [k EXCEPT !.at = at]] /\ [k EXCEPT !.at = at].op = k.op
      BY <1>1, <2>3 DEF Move, Calls
    <3> QED
      BY <1>2, <2>1, <3>1
  <2>4. CASE AfterRender(w)
    BY <1>2, <1>4, <2>3, <2>4 DEF AfterRender
  <2>5. CASE EnvRead(w)
    <3>1. PICK base \in BaseFiles, template \in Templates :
            calls' = [calls EXCEPT ![w].at = "write", ![w].todo = {<<base, template>>}]
      BY <2>5 DEF EnvRead
    <3> DEFINE S == {<<base, template>>}
    <3>2. calls' = [calls EXCEPT ![w] = [k EXCEPT !.at = "write", !.todo = S]]
      BY <3>1
    <3> HIDE DEF S
    <3>3. [k EXCEPT !.at = "write", !.todo = S].op = k.op
      BY <1>1 DEF Calls
    <3> QED
      BY <1>2, <2>1, <3>2, <3>3
  <2> QED
    BY <1>6, <2>2, <2>3, <2>4, <2>5 DEF GitRemove, EnvSkip, EnvWrite
<1>7. CASE GitList(w)
  <2>1. calls'[w].at = "known"
    BY <1>1, <1>7 DEF GitList, Calls
  <2> QED
    BY <2>1 DEF Imports, Deciding
<1>8. CASE ReadKnown(w)
  <2> DEFINE S == {d \in k.found : ~Known(d)}
             c == [k EXCEPT !.at = "import", !.todo = S]
  <2>1. calls'[w] = c /\ UNCHANGED row
    BY <1>1, <1>8 DEF ReadKnown
  <2>2. c.at = "import" /\ c.todo = S /\ c.found = k.found
    BY <1>1 DEF Calls
  <2> HIDE DEF c
  <2>3. Taken(calls[w])'
    BY <2>1, <2>2 DEF Taken, Known
  <2> QED
    BY <2>1, <2>2, <2>3 DEF Imports
<1>9. CASE ImportNext(w)
  BY <1>9, ImportNextImports
<1>10. CASE DecideNothing(w) \/ DecideConflicts(w) \/ DecideAppends(w) \/ ApplyRow(w)
  <2>1. CASE k.op = "worktree_list"
    BY <1>10, <2>1, ImportDecidesOn
  <2>2. CASE k.op # "worktree_list"
    <3>1. calls'[w].op = k.op \/ calls'[w] = NoCall
      BY <1>1, <1>10, <2>2 DEF DecideNothing, DecideConflicts, DecideAppends, ApplyRow, Return, Move, Calls
    <3> QED
      BY <1>4, <2>2, <3>1 DEF Imports
  <2> QED
    BY <2>1, <2>2
<1> QED
  BY <1>3, <1>5, <1>6, <1>7, <1>8, <1>9, <1>10 DEF CommandStep, EnvCommandStep

\* Every step keeps what is known of imports.
LEMMA ImportStep ==
  ASSUME SysInv, SysInv', ImportInv, [EnvNext]_envvars
  PROVE  ImportInv'
<1>1. SpentInv'
  BY SpentCounted DEF ImportInv
<1>2. ASSUME NEW w \in Writers
      PROVE  Imports(w)'
  <2>1. ASSUME NEW x \in Writers, CommandStep(x) \/ EnvCommandStep(x)
        PROVE  Imports(w)'
    BY <2>1, OthersImport, OwnImport
  <2>2. CASE Restart
    BY <2>2 DEF Restart, Imports, NoCall
  <2>3. CASE UNCHANGED <<table, writer, row, calls>>
    <3>1. Imports(w)
      BY DEF ImportInv
    <3> QED
      BY <2>3, <3>1 DEF Imports, Taken, Known, Sole, Logged
  <2> QED
    BY <2>1, <2>2, <2>3, StepsOf DEF ImportInv
<1> QED
  BY <1>1, <1>2 DEF ImportInv

\* So an import never forgets a worktree.
LEMMA ImportInvHolds == EnvSpec => [](SysInv /\ ImportInv)
<1>1. EnvInit => ImportInv
  BY DEF EnvInit, WInit, ImportInv, SpentInv, Imports, NoCall
<1>2. SysInv /\ ImportInv /\ [EnvNext]_envvars => (SysInv /\ ImportInv)'
  BY EnvStep, ImportStep
<1> QED
  BY <1>1, <1>2, InitSysInv, PTL DEF EnvSpec

\* When a list of worktrees returns, each one git has listed with a branch has a row in the
\* read model, whatever other commands and the user did meanwhile: an id that is new is in
\* nobody else's hands, so that no worktree of the import is refused or conflicts.
THEOREM ImportsMissNone == EnvSpec => ImportIsComplete
<1> DEFINE Complete == \A w \in Writers :
             At(w, "worktree_list", "import") /\ calls'[w] = NoCall /\ spent'.crashes = spent.crashes =>
                 \A d \in calls[w].found : d.head => Known(d)
<1>1. SysInv /\ ImportInv /\ [EnvNext]_envvars => Complete
  <2> SUFFICES ASSUME SysInv, ImportInv, [EnvNext]_envvars, NEW w \in Writers,
                      At(w, "worktree_list", "import"), calls'[w] = NoCall,
                      spent'.crashes = spent.crashes, NEW d \in calls[w].found, d.head
               PROVE  Known(d)
    OBVIOUS
  <2>1. /\ calls[w].op = "worktree_list" /\ calls[w].at = "import" /\ Taken(calls[w])
        /\ calls[w] \in Calls /\ calls \in [Writers -> Calls] /\ calls'[w] # calls[w]
        /\ calls'[w].op = "none"
    BY HeldFits DEF At, ImportInv, Imports, NoCall
  <2>2. ~Restart
    <3>1. spent.all \in Nat /\ spent.crashes \in Nat /\ DOMAIN spent = {"all", "outside", "crashes"}
      BY DEF ImportInv, SpentInv
    <3>2. Restart => spent'.crashes = spent.crashes + 1
      <4> DEFINE n == spent.all + 1
      <4>1. Restart => spent' = [spent EXCEPT !.all = n, !.crashes = spent.crashes + 1]
        BY DEF Restart
      <4> HIDE DEF n
      <4> QED
        BY <3>1, <4>1
    <3> QED
      BY <3>1, <3>2
  <2>3. PICK x \in Writers : CommandStep(x) \/ EnvCommandStep(x)
    BY <2>1, <2>2, StepsOf DEF ImportInv
  <2>4. CommandStep(w) \/ EnvCommandStep(w)
    BY <2>1, <2>3, OnlyOwn
  <2>5. ListReturns(w)
    <3>1. ReadKnown(w) \/ ImportNext(w) \/ ListReturns(w) \/ GitFails(w) \/ GitCreate(w) \/ GitRemove(w) \/ GitList(w)
      BY <2>1, <2>4, HeldFits DEF CommandStep, EnvCommandStep, BeginProjectCreate, BeginProject, BeginActionUpsert,
         BeginActionDelete, BeginWorktreeCreate, BeginList, BeginRemove, EnvBegin, Begin, NoCall,
         DecideNothing, DecideAppends, DecideConflicts, ApplyRow, EnvSkip, EnvRead, EnvWrite, EnvCompose
    <3>2. ReadKnown(w) \/ ImportNext(w) \/ ListReturns(w)
      BY <2>1, <3>1 DEF GitFails, GitCreate, GitRemove, GitList, At
    <3>3. ~ReadKnown(w)
      BY <2>1 DEF ReadKnown, At
    <3>4. ~ImportNext(w)
      <4>1. SUFFICES ASSUME ImportNext(w)
                     PROVE  calls'[w].op = "worktree_list"
        BY <2>1
      <4>2. PICK e \in calls[w].todo :
              LET c == [calls[w] EXCEPT !.todo = @ \ {e}] IN
              \/ calls' = [calls EXCEPT ![w] = c]
              \/ \E i \in Worktrees :
                   calls' = [calls EXCEPT ![w] = [c EXCEPT !.agg = i, !.at = "decide",
                                !.val = WorktreeData(e.project, e.name, e.place)]]
        BY <4>1 DEF ImportNext
      <4> DEFINE v == WorktreeData(e.project, e.name, e.place)
                 c == [calls[w] EXCEPT !.todo = @ \ {e}]
      <4>3. c.op = "worktree_list" /\ DOMAIN c = DOMAIN calls[w]
        BY <2>1 DEF Calls
      <4>4. ASSUME NEW i
            PROVE  [c EXCEPT !.agg = i, !.at = "decide", !.val = v].op = c.op
        <5> HIDE DEF c, v
        <5> QED
          BY <2>1, <4>3 DEF Calls
      <4>5. \/ calls' = [calls EXCEPT ![w] = c]
            \/ \E i \in Worktrees : calls' = [calls EXCEPT ![w] = [c EXCEPT !.agg = i, !.at = "decide", !.val = v]]
        BY <4>2
      <4> HIDE DEF c, v
      <4>6. calls'[w] = c \/ \E i \in Worktrees : calls'[w] = [c EXCEPT !.agg = i, !.at = "decide", !.val = v]
        BY <2>1, <4>5
      <4> QED
        BY <4>3, <4>4, <4>6
    <3> QED
      BY <3>2, <3>3, <3>4
  <2>6. calls[w].todo = {}
    BY <2>5 DEF ListReturns
  <2> QED
    BY <2>1, <2>6 DEF Taken, Deciding
<1>2. SysInv /\ ImportInv /\ [EnvNext]_envvars => [Complete]_wvars
  BY <1>1
<1> QED
  BY <1>2, ImportInvHolds, PTL DEF EnvSpec, ImportIsComplete
------------------------------------------------------------------------------
(* Merging .env and template. *)

\* The last line that assigns a key.
Final(lines, key, j) ==
  /\ j \in DOMAIN lines /\ lines[j].key = key
  /\ \A k \in DOMAIN lines : lines[k].key = key => k <= j

\* A reader gets what the last line that assigns the key says.
LEMMA EffectiveIsFinal ==
  ASSUME NEW n \in Nat, NEW lines, DOMAIN lines = 1..n, NEW key, NEW j, Final(lines, key, j)
  PROVE  Effective(lines, key) = lines[j].val
<1> DEFINE P(i) == lines[i].key = key /\ \A k \in DOMAIN lines : lines[k].key = key => k <= i
           c == CHOOSE i \in DOMAIN lines : P(i)
<1>1. j \in DOMAIN lines /\ P(j)
  BY DEF Final
<1>2. c \in DOMAIN lines /\ P(c)
  BY <1>1
<1>3. c = j
  <2>1. c <= j /\ j <= c
    BY <1>1, <1>2
  <2>2. c \in Int /\ j \in Int
    BY <1>1, <1>2
  <2> HIDE DEF c
  <2> QED
    BY <2>1, <2>2
<1>4. Effective(lines, key) = lines[c].val
  BY DEF Effective
<1> QED
  BY <1>3, <1>4

\* A key that is defined is assigned by a last line.
LEMMA FinalExists ==
  ASSUME NEW n \in Nat, NEW lines, DOMAIN lines = 1..n, NEW key, Defines(lines, key)
  PROVE  \E j \in 1..n : Final(lines, key, j)
<1> DEFINE I == {m \in 0..n : n - m \in 1..n /\ lines[n - m].key = key}
<1>1. PICK i \in 1..n : lines[i].key = key
  BY DEF Defines
<1>2. n - i \in 0..n /\ n - (n - i) = i
  OBVIOUS
<1>3. I \in SUBSET Nat /\ I # {}
  <2>1. n - i \in I
    BY <1>1, <1>2
  <2>2. I \subseteq 0..n
    OBVIOUS
  <2> HIDE DEF I
  <2> QED
    BY <2>1, <2>2
<1>4. PICK m \in I : \A k \in I : m <= k
  <2> HIDE DEF I
  <2> QED
    BY <1>3, LeastNatural
<1>5. n - m \in 1..n /\ lines[n - m].key = key /\ m \in 0..n
  BY <1>4
<1>6. ASSUME NEW k \in 1..n, lines[k].key = key
      PROVE  k <= n - m
  <2>1. n - k \in 0..n /\ n - (n - k) = k
    OBVIOUS
  <2>2. n - k \in I
    BY <1>6, <2>1
  <2>3. m <= n - k
    BY <1>4, <2>2
  <2> QED
    BY <1>5, <2>1, <2>3
<1> QED
  BY <1>5, <1>6 DEF Final

\* Replacing references leaves the keys, and so the last line of each.
LEMMA SubstitutedEffective ==
  ASSUME NEW n \in Nat, NEW lines, DOMAIN lines = 1..n, NEW vars_,
         NEW key, Defines(lines, key)
  PROVE  Effective(Substituted(lines, vars_), key) = Resolved(Effective(lines, key), vars_)
<1> DEFINE s == Substituted(lines, vars_)
<1>1. PICK j \in 1..n : Final(lines, key, j)
  BY FinalExists
<1>2. /\ DOMAIN s = 1..n
      /\ \A i \in 1..n : s[i].key = lines[i].key /\ s[i].val = Resolved(lines[i].val, vars_)
  BY DEF Substituted, Line
<1> HIDE DEF s
<1>3. Final(s, key, j)
  BY <1>1, <1>2 DEF Final
<1>4. Effective(s, key) = s[j].val /\ Effective(lines, key) = lines[j].val
  BY <1>1, <1>2, <1>3, EffectiveIsFinal
<1> QED
  BY <1>2, <1>4 DEF s

\* What has been copied of an overlay, up to its n-th line.
Copies(base, lines, n, f) ==
  f = [i \in 0..n |-> IF i = 0 THEN << >>
                      ELSE IF Defines(base, lines[i].key) THEN f[i - 1]
                      ELSE Append(f[i - 1], lines[i])]

\* What can be copied up to a line can be up to the next.
LEMMA CopiesGrow ==
  ASSUME NEW base, NEW lines, NEW n \in Nat, NEW f, Copies(base, lines, n, f)
  PROVE  \E g : Copies(base, lines, n + 1, g)
<1> DEFINE Step(s, i) == IF Defines(base, lines[i].key) THEN s ELSE Append(s, lines[i])
           last == Step(f[n], n + 1)
           g == [i \in 0..(n + 1) |-> IF i \in 0..n THEN f[i] ELSE last]
           step == [i \in 0..(n + 1) |-> IF i = 0 THEN << >> ELSE Step(g[i - 1], i)]
<1>1. f = [i \in 0..n |-> IF i = 0 THEN << >> ELSE Step(f[i - 1], i)]
  BY DEF Copies
<1>6. g = step => Copies(base, lines, n + 1, g)
  BY DEF Copies
<1> HIDE DEF last, Step
<1>2. \A i \in 0..(n + 1) : g[i] = IF i \in 0..n THEN f[i] ELSE last
  OBVIOUS
<1>3. \A i \in 0..n : f[i] = IF i = 0 THEN << >> ELSE Step(f[i - 1], i)
  BY <1>1
<1> HIDE DEF g
<1>4. ASSUME NEW i \in 0..(n + 1)
      PROVE  (IF i \in 0..n THEN f[i] ELSE last) = IF i = 0 THEN << >> ELSE Step(g[i - 1], i)
  <2>1. CASE i = 0
    BY <2>1, <1>3
  <2>2. CASE i \in 1..n
    <3>1. i - 1 \in 0..n /\ i - 1 \in 0..(n + 1) /\ i \in 0..n /\ i # 0
      BY <2>2
    <3>2. g[i - 1] = f[i - 1]
      BY <3>1, <1>2
    <3> QED
      BY <3>1, <3>2, <1>3
  <2>3. CASE i = n + 1
    <3>1. i - 1 = n /\ n \in 0..(n + 1) /\ n \in 0..n /\ i \notin 0..n /\ i # 0
      BY <2>3
    <3>2. g[i - 1] = f[n]
      BY <3>1, <1>2
    <3> QED
      BY <3>1, <3>2, <2>3 DEF last
  <2> QED
    BY <2>1, <2>2, <2>3
<1>5. g = step
  BY <1>4 DEF g
<1> HIDE DEF step
<1> QED
  BY <1>5, <1>6

\* Something can be copied up to every line.
LEMMA CopiesExist ==
  ASSUME NEW base, NEW lines, NEW n \in Nat
  PROVE  \E f : Copies(base, lines, n, f)
<1> DEFINE I == {m \in Nat : ~\E f : Copies(base, lines, m, f)}
<1>1. SUFFICES ASSUME I # {}
               PROVE  FALSE
  OBVIOUS
<1>2. I \in SUBSET Nat
  OBVIOUS
<1>3. PICK m \in I : \A v \in I : m <= v
  <2> HIDE DEF I
  <2> QED
    BY <1>1, <1>2, LeastNatural
<1>4. m # 0
  <2> DEFINE f == [i \in 0..0 |-> << >>]
  <2>1. f = [i \in 0..0 |-> IF i = 0 THEN << >>
                            ELSE IF Defines(base, lines[i].key) THEN f[i - 1]
                            ELSE Append(f[i - 1], lines[i])]
    OBVIOUS
  <2>2. Copies(base, lines, 0, f)
    BY <2>1 DEF Copies
  <2> QED
    BY <1>3, <2>2
<1>5. m - 1 \in Nat /\ ~(m <= m - 1) /\ (m - 1) + 1 = m
  BY <1>3, <1>4
<1>6. PICK f : Copies(base, lines, m - 1, f)
  BY <1>3, <1>5
<1>7. \E g : Copies(base, lines, (m - 1) + 1, g)
  BY <1>5, <1>6, CopiesGrow
<1> QED
  BY <1>3, <1>5, <1>7

\* A sequence and one element more.
LEMMA Appended ==
  ASSUME NEW E, NEW s \in Seq(E), NEW e \in E
  PROVE  /\ Append(s, e) \in Seq(E) /\ DOMAIN Append(s, e) = 1..(Len(s) + 1)
         /\ DOMAIN s = 1..Len(s) /\ Len(s) \in Nat
         /\ Append(s, e)[Len(s) + 1] = e
         /\ \A q \in 1..Len(s) : Append(s, e)[q] = s[q]
  OBVIOUS

\* What copying has told so far: lines of the overlay only, none whose key the base has,
\* and each other key's last line last.
Told(E, base, t, m, s) ==
  /\ s \in Seq(E)
  /\ \A q \in DOMAIN s : ~Defines(base, s[q].key)
  /\ \A j \in 1..m :
        ~Defines(base, t[j].key) /\ (\A k \in 1..m : t[k].key = t[j].key => k <= j) =>
          \E q : Final(s, t[j].key, q) /\ s[q] = t[j]

\* Copying one line more.
LEMMA CopyTells ==
  ASSUME NEW E, NEW base, NEW t \in Seq(E), NEW m \in 1..Len(t), NEW s,
         Told(E, base, t, m - 1, s)
  PROVE  Told(E, base, t, m, IF Defines(base, t[m].key) THEN s ELSE Append(s, t[m]))
<1>1. m - 1 \in Nat /\ t[m] \in E /\ 1..m = 1..(m - 1) \cup {m} /\ m \in Int
  OBVIOUS
<1>2. CASE Defines(base, t[m].key)
  <2>1. SUFFICES ASSUME NEW j \in 1..m, ~Defines(base, t[j].key),
                        \A k \in 1..m : t[k].key = t[j].key => k <= j
                 PROVE  \E q : Final(s, t[j].key, q) /\ s[q] = t[j]
    BY <1>2 DEF Told
  <2>2. j \in 1..(m - 1)
    BY <1>1, <1>2, <2>1
  <2>3. \A k \in 1..(m - 1) : t[k].key = t[j].key => k <= j
    BY <1>1, <2>1
  <2> QED
    BY <2>1, <2>2, <2>3 DEF Told
<1>3. CASE ~Defines(base, t[m].key)
  <2> DEFINE a == Append(s, t[m])
             n == Len(s)
  <2>1. s \in Seq(E) /\ \A q \in DOMAIN s : ~Defines(base, s[q].key)
    BY DEF Told
  <2>2. /\ a \in Seq(E) /\ DOMAIN a = 1..(n + 1) /\ DOMAIN s = 1..n /\ n \in Nat
        /\ a[n + 1] = t[m] /\ \A q \in 1..n : a[q] = s[q]
    BY <1>1, <2>1, Appended
  <2> HIDE DEF a, n
  <2>3. \A q \in DOMAIN a : ~Defines(base, a[q].key)
    <3>1. \A q \in 1..(n + 1) : q \in 1..n \/ q = n + 1
      BY <2>2
    <3> QED
      BY <1>3, <2>1, <2>2, <3>1
  <2>4. ASSUME NEW j \in 1..m, ~Defines(base, t[j].key),
               \A k \in 1..m : t[k].key = t[j].key => k <= j
        PROVE  \E q : Final(a, t[j].key, q) /\ a[q] = t[j]
    <3>1. CASE j = m
      <4>1. Final(a, t[j].key, n + 1)
        BY <2>2, <3>1 DEF Final
      <4> QED
        BY <2>2, <3>1, <4>1
    <3>2. CASE j # m
      <4>1. j \in 1..(m - 1) /\ j < m /\ m \in 1..m
        BY <3>2
      <4>2. t[m].key # t[j].key
        BY <2>4, <4>1
      <4>3. \A k \in 1..(m - 1) : t[k].key = t[j].key => k <= j
        BY <1>1, <2>4
      <4>4. PICK q : Final(s, t[j].key, q) /\ s[q] = t[j]
        BY <2>4, <4>1, <4>3 DEF Told
      <4>5. q \in 1..n /\ a[q] = s[q]
        BY <2>2, <4>4 DEF Final
      <4>6. ASSUME NEW k \in 1..(n + 1), a[k].key = t[j].key
            PROVE  k <= q
        <5>1. k # n + 1
          BY <2>2, <4>2, <4>6
        <5>2. k \in 1..n
          BY <2>2, <5>1
        <5> QED
          BY <2>2, <4>4, <4>6, <5>2 DEF Final
      <4>7. q \in 1..(n + 1)
        BY <2>2, <4>5
      <4> QED
        BY <2>2, <4>4, <4>5, <4>6, <4>7 DEF Final
    <3> QED
      BY <3>1, <3>2
  <2>5. Told(E, base, t, m, a)
    BY <2>2, <2>3, <2>4 DEF Told
  <2> QED
    BY <1>3, <2>5 DEF a
<1> QED
  BY <1>2, <1>3

\* What is copied of a whole overlay tells each of its keys the base does not have.
LEMMA AddedTells ==
  ASSUME NEW E, NEW base, NEW t \in Seq(E)
  PROVE  Told(E, base, t, Len(t), Added(base, t))
<1> DEFINE n == Len(t)
           c == CHOOSE f : Copies(base, t, n, f)
<1>1. n \in Nat
  OBVIOUS
<1>2. Added(base, t) = c[n]
  BY DEF Added, Copies
<1>3. Copies(base, t, n, c)
  <2>1. \E f : Copies(base, t, n, f)
    BY <1>1, CopiesExist
  <2> QED
    BY <2>1
<1> HIDE DEF c
<1>4. /\ c[0] = << >>
      /\ \A i \in 1..n : c[i] = IF Defines(base, t[i].key) THEN c[i - 1] ELSE Append(c[i - 1], t[i])
  <2> HIDE DEF n
  <2> DEFINE Step(i) == IF Defines(base, t[i].key) THEN c[i - 1] ELSE Append(c[i - 1], t[i])
  <2>1. c = [i \in 0..n |-> IF i = 0 THEN << >> ELSE Step(i)]
    BY <1>3 DEF Copies
  <2> HIDE DEF Step
  <2>2. c[0] = << >> /\ \A i \in 1..n : c[i] = Step(i)
    BY <1>1, <2>1
  <2> QED
    BY <2>2 DEF Step
<1> DEFINE I == {m \in 0..n : ~Told(E, base, t, m, c[m])}
<1>5. SUFFICES ASSUME I # {}
               PROVE  FALSE
  <2>1. n \in 0..n
    BY <1>1
  <2> QED
    BY <1>2, <2>1
<1>6. I \subseteq 0..n
  OBVIOUS
<1>7. PICK m \in I : \A v \in I : m <= v
  <2>1. I \in SUBSET Nat
    BY <1>1, <1>6
  <2> HIDE DEF I
  <2> QED
    BY <1>5, <2>1, LeastNatural
<1>8. m # 0
  <2>1. Told(E, base, t, 0, << >>)
    BY DEF Told
  <2> QED
    BY <1>4, <1>7, <2>1
<1>9. m \in 1..n /\ m - 1 \in 0..n /\ ~(m <= m - 1)
  BY <1>1, <1>6, <1>7, <1>8
<1>10. Told(E, base, t, m - 1, c[m - 1])
  BY <1>7, <1>9
<1>11. Told(E, base, t, m, c[m])
  BY <1>4, <1>9, <1>10, CopyTells
<1> QED
  BY <1>7, <1>11

\* Two sequences, one after the other.
LEMMA Concatenated ==
  ASSUME NEW E, NEW r \in Seq(E), NEW s \in Seq(E)
  PROVE  /\ DOMAIN (r \o s) = 1..(Len(r) + Len(s))
         /\ \A i \in 1..Len(r) : (r \o s)[i] = r[i]
         /\ \A i \in 1..Len(s) : (r \o s)[Len(r) + i] = s[i]
<1>1. r \o s \in Seq(E) /\ Len(r \o s) = Len(r) + Len(s)
  OBVIOUS
<1>2. Len(r) \in Nat /\ Len(s) \in Nat
  OBVIOUS
<1>3. ASSUME NEW i \in 1..Len(s)
      PROVE  (r \o s)[Len(r) + i] = s[i]
  <2>1. Len(r) + i \in 1..(Len(r) + Len(s)) /\ ~(Len(r) + i <= Len(r)) /\ (Len(r) + i) - Len(r) = i
    BY <1>2
  <2> QED
    BY <2>1
<1> QED
  BY <1>1, <1>2, <1>3

\* A key is read from the part of a concatenation that has it last.
LEMMA MergedTells ==
  ASSUME NEW E, NEW base \in Seq(E), NEW t \in Seq(E), NEW key
  PROVE  /\ Defines(t, key) /\ Once(base, key) => Effective(Merged(base, t), key) = Effective(t, key)
         /\ Defines(base, key) /\ ~Defines(t, key) =>
              Effective(Merged(base, t), key) = Effective(base, key)
         /\ Defines(base, key) \/ Defines(t, key) => Defines(Merged(base, t), key)
         /\ \E k \in Nat : DOMAIN Merged(base, t) = 1..k
<1> DEFINE P == [i \in DOMAIN base |->
                   IF IsFirst(base, i) /\ Defines(t, base[i].key)
                   THEN Line(base[i].key, Effective(t, base[i].key)) ELSE base[i]]
           a == Added(base, t)
           M == P \o a
           b == Len(base)
           n == Len(a)
<1>1. Merged(base, t) = M
  BY DEF Merged
<1>2. DOMAIN base = 1..b /\ b \in Nat /\ DOMAIN t = 1..Len(t) /\ Len(t) \in Nat
  OBVIOUS
<1>3. Told(E, base, t, Len(t), a)
  BY AddedTells
<1>4. a \in Seq(E) /\ DOMAIN a = 1..n /\ n \in Nat
  BY <1>3 DEF Told
<1>5. /\ DOMAIN P = 1..b /\ P = [i \in 1..b |-> P[i]]
      /\ \A i \in 1..b : P[i].key = base[i].key
      /\ \A i \in 1..b : P[i] = IF IsFirst(base, i) /\ Defines(t, base[i].key)
                                THEN Line(base[i].key, Effective(t, base[i].key)) ELSE base[i]
  BY <1>2 DEF Line
<1> HIDE DEF P, a, b, n
<1>6. /\ DOMAIN M = 1..(b + n)
      /\ \A i \in 1..b : M[i] = P[i]
      /\ \A i \in 1..n : M[b + i] = a[i]
  <2> DEFINE S == E \cup {P[i] : i \in 1..b}
  <2>1. P \in Seq(S) /\ Len(P) = b
    <3>1. P \in [1..b -> S] /\ b \in Nat
      BY <1>2, <1>5
    <3> HIDE DEF S
    <3> QED
      BY <3>1, SeqDef
  <2>2. a \in Seq(S) /\ Len(a) = n
    BY <1>4 DEF n
  <2> HIDE DEF S
  <2>3. \A r, s \in Seq(S) : /\ DOMAIN (r \o s) = 1..(Len(r) + Len(s))
                             /\ \A i \in 1..Len(r) : (r \o s)[i] = r[i]
                             /\ \A i \in 1..Len(s) : (r \o s)[Len(r) + i] = s[i]
    BY Concatenated
  <2>4. /\ DOMAIN M = 1..(Len(P) + Len(a))
        /\ \A i \in 1..Len(P) : M[i] = P[i]
        /\ \A i \in 1..Len(a) : M[Len(P) + i] = a[i]
    <3>1. PICK r \in Seq(S), s \in Seq(S) : r = P /\ s = a
      BY <2>1, <2>2
    <3>2. /\ DOMAIN (P \o a) = 1..(Len(P) + Len(a))
          /\ \A i \in 1..Len(P) : (P \o a)[i] = P[i]
          /\ \A i \in 1..Len(a) : (P \o a)[Len(P) + i] = a[i]
      <4>1. /\ DOMAIN (r \o s) = 1..(Len(r) + Len(s))
            /\ \A i \in 1..Len(r) : (r \o s)[i] = r[i]
            /\ \A i \in 1..Len(s) : (r \o s)[Len(r) + i] = s[i]
        BY <2>3
      <4> QED
        BY <3>1, <4>1, Zenon
    <3> QED
      BY <3>2
  <2> HIDE DEF M
  <2> QED
    BY <2>1, <2>2, <2>4
<1> HIDE DEF M
<1>7. b + n \in Nat
  BY <1>2, <1>4
<1>8. ASSUME NEW i \in 1..b, Final(base, key, i)
      PROVE  Final(M, key, i)
  <2>1. base[i].key = key /\ \A k \in 1..b : base[k].key = key => k <= i
    BY <1>2, <1>8 DEF Final
  <2>2. Defines(base, key)
    BY <1>2, <2>1 DEF Defines
  <2>3. \A k \in 1..n : a[k].key # key
    BY <1>3, <1>4, <2>2 DEF Told
  <2>4. \A k \in 1..(b + n) : k \in 1..b \/ (k - b \in 1..n /\ k = b + (k - b))
    BY <1>2, <1>4
  <2>5. \A k \in 1..(b + n) : M[k].key = key => k <= i
    BY <1>5, <1>6, <2>1, <2>3, <2>4
  <2>6. i \in 1..(b + n)
    BY <1>2, <1>4
  <2> QED
    BY <1>5, <1>6, <2>1, <2>5, <2>6 DEF Final
<1>9. ASSUME ~Defines(base, key), Defines(t, key)
      PROVE  Effective(M, key) = Effective(t, key) /\ Defines(M, key)
  <2>1. PICK j \in 1..Len(t) : Final(t, key, j)
    BY <1>2, <1>9, FinalExists
  <2>2. t[j].key = key /\ \A k \in 1..Len(t) : t[k].key = key => k <= j
    BY <1>2, <2>1 DEF Final
  <2>3. PICK q : Final(a, key, q) /\ a[q] = t[j]
    BY <1>3, <1>9, <2>2 DEF Told
  <2>4. q \in 1..n /\ \A k \in 1..n : a[k].key = key => k <= q
    BY <1>4, <2>3 DEF Final
  <2>5. \A k \in 1..b : base[k].key # key
    BY <1>2, <1>9 DEF Defines
  <2>6. ASSUME NEW k \in 1..(b + n), M[k].key = key
        PROVE  k <= b + q
    <3>1. CASE k \in 1..b
      BY <1>5, <1>6, <2>5, <2>6, <3>1
    <3>2. CASE k \notin 1..b
      <4>1. k - b \in 1..n /\ k = b + (k - b)
        BY <1>2, <1>4, <3>2
      <4>2. k - b <= q
        BY <1>6, <2>4, <2>6, <4>1
      <4> QED
        BY <1>2, <1>4, <2>4, <4>1, <4>2
    <3> QED
      BY <3>1, <3>2
  <2>7. b + q \in 1..(b + n)
    BY <1>2, <1>4, <2>4
  <2>8. M[b + q] = t[j]
    BY <1>6, <2>3, <2>4
  <2>9. Final(M, key, b + q)
    BY <1>6, <2>2, <2>6, <2>7, <2>8 DEF Final
  <2>10. Effective(M, key) = M[b + q].val
    BY <1>6, <1>7, <2>9, EffectiveIsFinal
  <2>11. Effective(t, key) = t[j].val
    BY <1>2, <2>1, EffectiveIsFinal
  <2> QED
    BY <2>8, <2>9, <2>10, <2>11 DEF Final, Defines
<1>10. ASSUME Defines(base, key)
       PROVE  /\ Defines(t, key) /\ Once(base, key) => Effective(M, key) = Effective(t, key)
              /\ ~Defines(t, key) => Effective(M, key) = Effective(base, key)
              /\ Defines(M, key)
  <2>1. PICK i \in 1..b : Final(base, key, i)
    BY <1>2, <1>10, FinalExists
  <2>2. base[i].key = key
    BY <2>1 DEF Final
  <2>3. Final(M, key, i)
    BY <1>8, <2>1
  <2>4. Effective(M, key) = M[i].val
    BY <1>6, <1>7, <2>3, EffectiveIsFinal
  <2>5. Effective(base, key) = base[i].val
    BY <1>2, <2>1, EffectiveIsFinal
  <2>6. M[i] = IF IsFirst(base, i) /\ Defines(t, key) THEN Line(key, Effective(t, key)) ELSE base[i]
    BY <1>5, <1>6, <2>2
  <2>7. Once(base, key) => IsFirst(base, i)
    <3> SUFFICES ASSUME Once(base, key), NEW j \in 1..(i - 1), base[j].key = base[i].key
                 PROVE  FALSE
      BY DEF IsFirst
    <3>1. j \in 1..b /\ j # i
      BY <1>2
    <3> QED
      BY <1>2, <2>2, <3>1 DEF Once
  <2>8. Defines(M, key)
    BY <2>3 DEF Final, Defines
  <2> QED
    BY <2>4, <2>5, <2>6, <2>7, <2>8 DEF Line
<1> QED
  BY <1>1, <1>6, <1>7, <1>9, <1>10

\* What is rendered: a key of the template that .env assigns once at most has the
\* template's value, the keys only .env has have their own.
LEMMA RenderedTells ==
  ASSUME NEW E, NEW base \in Seq(E), NEW t \in Seq(E), NEW i, NEW f, f = Rendered(i, base, t),
         NEW key
  PROVE  /\ Defines(f.template, key) /\ Once(f.base, key) =>
              Effective(f.lines, key) = Effective(f.template, key)
         /\ Defines(f.base, key) /\ ~Defines(f.template, key) =>
              Effective(f.lines, key) = Effective(f.base, key)
<1> DEFINE v == EnvVars(i)
           M == Merged(base, t)
<1>1. DOMAIN base = 1..Len(base) /\ Len(base) \in Nat /\ DOMAIN t = 1..Len(t) /\ Len(t) \in Nat
  OBVIOUS
<1>2. f.base = Substituted(base, v) /\ f.template = Substituted(t, v) /\ f.lines = Substituted(M, v)
  BY DEF Rendered
<1> HIDE DEF v, M
<1>3. ASSUME NEW lines
      PROVE  /\ DOMAIN Substituted(lines, v) = DOMAIN lines
             /\ \A k \in DOMAIN lines : Substituted(lines, v)[k].key = lines[k].key
             /\ Defines(Substituted(lines, v), key) <=> Defines(lines, key)
  BY DEF Substituted, Line, Defines
<1>4. Once(f.base, key) => Once(base, key)
  BY <1>2, <1>3 DEF Once
<1>5. /\ Defines(t, key) /\ Once(base, key) => Effective(M, key) = Effective(t, key)
      /\ Defines(base, key) /\ ~Defines(t, key) => Effective(M, key) = Effective(base, key)
      /\ Defines(base, key) \/ Defines(t, key) => Defines(M, key)
      /\ \E k \in Nat : DOMAIN M = 1..k
  BY MergedTells DEF M
<1>6. /\ Defines(t, key) => Effective(f.template, key) = Resolved(Effective(t, key), v)
      /\ Defines(base, key) => Effective(f.base, key) = Resolved(Effective(base, key), v)
      /\ Defines(M, key) => Effective(f.lines, key) = Resolved(Effective(M, key), v)
  BY <1>1, <1>2, <1>5, SubstitutedEffective
<1> QED
  BY <1>2, <1>3, <1>4, <1>5, <1>6

\* What .env.local is made of, and what a call is about to write.
FromFiles(f) ==
  \/ f \in {None, ByUser}
  \/ \E i : \E base \in BaseFiles, t \in Templates : f = Rendered(i, base, t)
DotInv ==
  /\ \A place \in Places : FromFiles(dot[place])
  /\ DOMAIN dot = Places
  /\ \A w \in Writers : calls[w].at = "write" => calls[w].todo \subseteq BaseFiles \X Templates

\* A call that is about to write was already, or has just read.
LEMMA OnlyReadsWrite ==
  ASSUME SysInv, SysInv', SpentInv, [EnvNext]_envvars, NEW w \in Writers, calls'[w].at = "write"
  PROVE  calls'[w] = calls[w] \/ EnvRead(w)
<1>1. SUFFICES ASSUME calls'[w] # calls[w]
               PROVE  EnvRead(w)
  OBVIOUS
<1>2. calls \in [Writers -> Calls] /\ CallOK(calls[w]) /\ CallOK(calls'[w]) /\ calls'[w] \in Calls
  <2>1. CallOK(calls[w])' /\ (calls[w] \in Calls)'
    BY DEF SysInv, WorkInv, CallsInv, Fits
  <2> QED
    BY <2>1, HeldFits
<1>3. calls'[w].op \in EnvOps
  BY <1>1, <1>2 DEF CallOK, Calls, Ops, SyncOps, Deciding
<1>4. ~Restart
  BY <1>1 DEF Restart, NoCall
<1>5. CommandStep(w) \/ EnvCommandStep(w)
  <2>1. PICK x \in Writers : CommandStep(x) \/ EnvCommandStep(x)
    BY <1>1, <1>4, StepsOf
  <2> QED
    BY <1>1, <2>1, OnlyOwn
<1>6. ASSUME NEW c, calls' = [calls EXCEPT ![w] = c], c.at # "write"
      PROVE  FALSE
  BY <1>2, <1>6
<1>7. NoCall.at # "write"
  BY DEF NoCall
<1>8. ASSUME NEW at, Move(w, at), at # "write"
      PROVE  FALSE
  BY <1>2, <1>8 DEF Move, Calls
<1>9. ASSUME NEW op, NEW a, NEW f, NEW v, NEW at, Begin(w, Call(op, a, f, v, at)), at # "write"
      PROVE  FALSE
  <2> DEFINE c == Call(op, a, f, v, at)
  <2>1. c.at # "write"
    BY <1>9, CallStarts
  <2>2. calls' = [calls EXCEPT ![w] = c]
    BY <1>9 DEF Begin
  <2> HIDE DEF c
  <2> QED
    BY <1>6, <2>1, <2>2
<1>10. ~CommandStep(w)
  <2>1. ~BeginProjectCreate(w)
    BY <1>9 DEF BeginProjectCreate
  <2>2. ~BeginProject(w)
    BY <1>9 DEF BeginProject
  <2>3. ~BeginActionUpsert(w) /\ ~BeginActionDelete(w)
    BY <1>9 DEF BeginActionUpsert, BeginActionDelete
  <2>4. ~BeginWorktreeCreate(w) /\ ~BeginList(w) /\ ~BeginRemove(w)
    BY <1>9 DEF BeginWorktreeCreate, BeginList, BeginRemove
  <2>5. ~GitFails(w) /\ ~ListReturns(w)
    BY <1>6, <1>7 DEF GitFails, ListReturns
  <2>6. ~GitCreate(w)
    BY <1>2, <1>6, <1>7 DEF GitCreate, Calls
  <2>7. ~GitRemove(w) /\ ~DecideAppends(w)
    BY <1>8 DEF GitRemove, DecideAppends
  <2>8. ~GitList(w) /\ ~ReadKnown(w)
    BY <1>2 DEF GitList, ReadKnown, Calls
  <2>9. ~ImportNext(w)
    <3>1. ImportNext(w) => calls[w].op = "worktree_list" /\ calls[w].at = "import"
      BY DEF ImportNext, At
    <3> QED
      BY <1>1, <1>2, <1>3, <3>1 DEF ImportNext, EnvOps, Calls
  <2>10. ASSUME Return(w)
        PROVE  FALSE
    <3>1. CASE calls[w].op = "worktree_list"
      BY <1>2, <1>6, <1>7, <2>10, <3>1 DEF Return, Calls
    <3>2. CASE calls[w].op # "worktree_list"
      BY <1>6, <1>7, <2>10, <3>2 DEF Return
    <3> QED
      BY <3>1, <3>2
  <2>11. ~DecideNothing(w) /\ ~DecideConflicts(w) /\ ~ApplyRow(w)
    BY <2>10 DEF DecideNothing, DecideConflicts, ApplyRow
  <2> QED
    BY <2>6, <2>1, <2>2, <2>3, <2>4, <2>5, <2>7, <2>9, <2>11, <2>8 DEF CommandStep
<1>11. ~EnvBegin(w)
  BY <1>9 DEF EnvBegin
<1>12. ~AfterRender(w)
  BY <1>6, <1>7, <1>8 DEF AfterRender
<1>13. ~EnvSkip(w) /\ ~EnvWrite(w) /\ ~EnvCompose(w)
  BY <1>6, <1>7, <1>12 DEF EnvSkip, EnvWrite, EnvCompose
<1> QED
  BY <1>5, <1>11, <1>13, <1>10 DEF EnvCommandStep

\* Every step keeps it.
LEMMA DotStep ==
  ASSUME SysInv, SysInv', SpentInv, DotInv, [EnvNext]_envvars
  PROVE  DotInv'
<1>1. ASSUME NEW w \in Writers, calls'[w].at = "write"
      PROVE  calls'[w].todo \subseteq BaseFiles \X Templates
  <2>1. CASE calls'[w] = calls[w]
    BY <1>1, <2>1 DEF DotInv
  <2>2. CASE EnvRead(w)
    <3>1. calls \in [Writers -> Calls]
      BY HeldFits
    <3>2. PICK base \in BaseFiles, template \in Templates :
            calls' = [calls EXCEPT ![w].at = "write", ![w].todo = {<<base, template>>}]
      BY <2>2 DEF EnvRead
    <3>3. calls'[w].todo = {<<base, template>>}
      BY <3>1, <3>2 DEF Calls
    <3> QED
      BY <3>3
  <2> QED
    BY <1>1, <2>1, <2>2, OnlyReadsWrite
<1>2. DOMAIN dot' = Places /\ \A place \in Places : FromFiles(dot'[place])
  <2>1. CASE dot' = dot
    BY <2>1 DEF DotInv
  <2>2. CASE WorkspaceStep
    BY <2>2 DEF WorkspaceStep, DotInv, FromFiles
  <2>3. CASE HandWritesDot
    BY <2>3 DEF HandWritesDot, DotInv, FromFiles
  <2>4. ASSUME NEW w \in Writers, EnvWrite(w)
        PROVE  DOMAIN dot' = Places /\ \A place \in Places : FromFiles(dot'[place])
    <3>1. PICK s \in calls[w].todo : dot' = [dot EXCEPT ![calls[w].val] = Rendered(calls[w].agg, s[1], s[2])]
      BY <2>4 DEF EnvWrite
    <3>2. calls[w].todo \subseteq BaseFiles \X Templates
      BY <2>4 DEF EnvWrite, DotInv
    <3>3. s[1] \in BaseFiles /\ s[2] \in Templates
      BY <3>2
    <3>4. FromFiles(Rendered(calls[w].agg, s[1], s[2]))
      BY <3>3 DEF FromFiles
    <3> QED
      BY <3>1, <3>4 DEF DotInv
  <2>5. CASE EnvRestart \/ PruneReads \/ PruneAsks \/ PruneNext \/ UNCHANGED envvars
    BY <2>1, <2>5 DEF EnvRestart, PruneReads, PruneAsks, PruneNext, envvars
  <2>6. ASSUME NEW w \in Writers, EnvBegin(w) \/ EnvSkip(w) \/ EnvRead(w) \/ EnvCompose(w)
        PROVE  dot' = dot
    BY <2>6 DEF EnvBegin, EnvSkip, EnvRead, EnvCompose
  <2> QED
    BY <2>1, <2>2, <2>3, <2>4, <2>5, <2>6 DEF EnvNext
<1> QED
  BY <1>1, <1>2 DEF DotInv, FromFiles

\* A generated file gives each key of the template the template's value ("template-wins
\* semantics", dotenv_render.rs) unless .env assigns that key twice, and each other key of
\* .env its own: of any two files, whatever is written over or removed meanwhile.
THEOREM TemplatesWin == EnvSpec => []RenderedTemplateWins
<1>1. EnvInit => DotInv
  BY DEF EnvInit, WInit, DotInv, FromFiles, NoCall
<1>2. SysInv /\ ImportInv /\ SysInv' /\ DotInv /\ [EnvNext]_envvars => DotInv'
  BY DotStep DEF ImportInv
<1>3. DotInv => RenderedTemplateWins
  <2> SUFFICES ASSUME DotInv, NEW place \in Places, dot[place] \notin {None, ByUser}
               PROVE  LET f == dot[place] IN
                      /\ \A k \in DOMAIN f.template : Once(f.base, f.template[k].key) =>
                           Effective(f.lines, f.template[k].key) = Effective(f.template, f.template[k].key)
                      /\ \A k \in DOMAIN f.base : ~Defines(f.template, f.base[k].key) =>
                           Effective(f.lines, f.base[k].key) = Effective(f.base, f.base[k].key)
    BY DEF RenderedTemplateWins
  <2> DEFINE f == dot[place]
  <2>1. PICK i : \E base \in BaseFiles, t \in Templates : f = Rendered(i, base, t)
    BY DEF DotInv, FromFiles
  <2>2. PICK base \in BaseFiles, t \in Templates : f = Rendered(i, base, t)
    BY <2>1
  <2> DEFINE E == {base[j] : j \in DOMAIN base} \cup {t[j] : j \in DOMAIN t}
  <2>3. base \in Seq(E) /\ t \in Seq(E)
    <3>1. ASSUME NEW S, NEW s \in Seq(S), S \subseteq E
          PROVE  s \in Seq(E)
      <4> HIDE DEF E
      <4> QED
        BY <3>1
    <3> QED
      BY EnvAssumption, <3>1 DEF EnvAssumption
  <2> HIDE DEF f, E
  <2>4. ASSUME NEW key
        PROVE  /\ Defines(f.template, key) /\ Once(f.base, key) =>
                    Effective(f.lines, key) = Effective(f.template, key)
               /\ Defines(f.base, key) /\ ~Defines(f.template, key) =>
                    Effective(f.lines, key) = Effective(f.base, key)
    BY <2>3, <2>2, RenderedTells
  <2>5. \A k \in DOMAIN f.template : Defines(f.template, f.template[k].key)
    BY DEF Defines
  <2>6. \A k \in DOMAIN f.base : Defines(f.base, f.base[k].key)
    BY DEF Defines
  <2> QED
    BY <2>4, <2>5, <2>6 DEF f
<1> QED
  BY <1>1, <1>2, <1>3, ImportInvHolds, PTL DEF EnvSpec
==============================================================================
