------------------------------ MODULE FilesProof ------------------------------
(***************************************************************************)
(* Proofs about the file operations, for any names, depths, texts, result   *)
(* limits and numbers of commands that interleave.                          *)
(***************************************************************************)
EXTENDS Files, SequenceTheorems, TLAPS

Path == Seq(Names)

------------------------------------------------------------------------------
(* Paths. *)

\* A path of the tree is a path that is not empty and not too long.
LEMMA TreePaths ==
  ASSUME NEW p
  PROVE  p \in Tree <=> p \in Path /\ Len(p) \in 1..MaxDepth
<1>1. ASSUME p \in Tree
      PROVE  p \in Path /\ Len(p) \in 1..MaxDepth
  <2>1. PICK n \in 1..MaxDepth : p \in [1..n -> Names]
    BY <1>1 DEF Tree
  <2>2. n \in Nat
    BY <2>1, FilesAssumption
  <2>3. p \in Path
    BY <2>1, <2>2, SeqDef DEF Path
  <2>4. Len(p) = n
    BY <2>1, <2>2, <2>3, LenProperties DEF Path
  <2> QED
    BY <2>1, <2>3, <2>4
<1>2. ASSUME p \in Path, Len(p) \in 1..MaxDepth
      PROVE  p \in Tree
  BY <1>2, LenProperties DEF Path, Tree
<1> QED
  BY <1>1, <1>2

\* The first n names of a path.
LEMMA Firsts ==
  ASSUME NEW p \in Path, NEW n \in 0..Len(p)
  PROVE  /\ SubSeq(p, 1, n) \in Path /\ Len(SubSeq(p, 1, n)) = n
         /\ \A i \in 1..n : SubSeq(p, 1, n)[i] = p[i]
<1>1. Len(p) \in Nat /\ \A i \in 1..n : p[i] \in Names
  BY LenProperties, ElementOfSeq DEF Path
<1>2. /\ SubSeq(p, 1, n) \in Seq(Names)
      /\ Len(SubSeq(p, 1, n)) = IF 1 <= n THEN n - 1 + 1 ELSE 0
      /\ \A i \in 1 .. n - 1 + 1 : SubSeq(p, 1, n)[i] = p[1 + i - 1]
  BY <1>1, SubSeqProperties
<1> QED
  BY <1>1, <1>2 DEF Path

\* Under, name by name.
LEMMA UnderNames ==
  ASSUME NEW p \in Path, NEW q \in Path
  PROVE  Under(p, q) <=> Len(p) <= Len(q) /\ \A i \in 1..Len(p) : p[i] = q[i]
<1>1. Len(p) \in Nat /\ Len(q) \in Nat
  BY LenProperties DEF Path
<1>2. ASSUME Len(p) <= Len(q)
      PROVE  SubSeq(q, 1, Len(p)) = p <=> \A i \in 1..Len(p) : p[i] = q[i]
  <2>1. /\ SubSeq(q, 1, Len(p)) \in Path /\ Len(SubSeq(q, 1, Len(p))) = Len(p)
        /\ \A i \in 1..Len(p) : SubSeq(q, 1, Len(p))[i] = q[i]
    BY <1>1, <1>2, Firsts
  <2>2. ASSUME \A i \in 1..Len(p) : p[i] = q[i]
        PROVE  SubSeq(q, 1, Len(p)) = p
    BY <2>1, <2>2, SeqEqual DEF Path
  <2> QED
    BY <2>1, <2>2
<1> QED
  BY <1>2 DEF Under

\* Paths of one length are equal when one is under the other.
LEMMA UnderEqual ==
  ASSUME NEW p \in Path, NEW q \in Path, Under(p, q), Len(q) <= Len(p)
  PROVE  p = q
<1>1. Len(p) \in Nat /\ Len(q) \in Nat
  BY LenProperties DEF Path
<1> QED
  BY <1>1, UnderNames, SeqEqual DEF Path

\* Under is a partial order, and the paths above a path are in line.
LEMMA UnderOrder ==
  ASSUME NEW p \in Path, NEW q \in Path, NEW s \in Path
  PROVE  /\ Under(p, p)
         /\ Under(p, q) /\ Under(q, s) => Under(p, s)
         /\ Under(p, q) /\ Under(q, p) => p = q
         /\ Under(p, s) /\ Under(q, s) => Under(p, q) \/ Under(q, p)
         /\ Under(p, s) /\ Under(q, s) /\ Len(p) <= Len(q) => Under(p, q)
<1>1. Len(p) \in Nat /\ Len(q) \in Nat /\ Len(s) \in Nat
  BY LenProperties DEF Path
<1>2. Under(p, q) /\ Under(q, p) => p = q
  BY <1>1, UnderNames, UnderEqual
<1> QED
  BY <1>1, <1>2, UnderNames

\* The parent of a path.
LEMMA Parents ==
  ASSUME NEW q \in Tree
  PROVE  /\ Parent(q) \in Path /\ Len(Parent(q)) = Len(q) - 1 /\ Under(Parent(q), q) /\ Parent(q) # q
         /\ Parent(q) = <<>> \/ Parent(q) \in Tree
         /\ \A a \in Tree : Under(a, q) /\ a # q =>
              Parent(q) \in Tree /\ (a = Parent(q) \/ (Under(a, Parent(q)) /\ a # Parent(q)))
<1>1. q \in Path /\ Len(q) \in 1..MaxDepth /\ MaxDepth \in Nat
  BY TreePaths, FilesAssumption
<1>2. /\ Parent(q) \in Path /\ Len(Parent(q)) = Len(q) - 1
      /\ \A i \in 1..Len(q) - 1 : Parent(q)[i] = q[i]
  <2>1. Len(q) - 1 \in 0..Len(q)
    BY <1>1
  <2> QED
    BY <1>1, <2>1, Firsts DEF Parent
<1>3. Under(Parent(q), q) /\ Parent(q) # q
  BY <1>1, <1>2, UnderNames
<1>4. Parent(q) = <<>> \/ Parent(q) \in Tree
  <2>1. CASE Len(Parent(q)) = 0
    BY <1>2, <2>1, EmptySeq DEF Path
  <2>2. CASE Len(Parent(q)) # 0
    BY <1>1, <1>2, <2>2, TreePaths
  <2> QED
    BY <2>1, <2>2
<1>5. ASSUME NEW a \in Tree, Under(a, q), a # q
      PROVE  Parent(q) \in Tree /\ Under(a, Parent(q))
  <2>1. a \in Path /\ Len(a) \in 1..MaxDepth
    BY TreePaths
  <2>2. Len(a) <= Len(q) - 1
    BY <1>1, <1>5, <2>1, UnderEqual DEF Under
  <2>3. Under(a, Parent(q))
    BY <1>1, <1>2, <1>3, <1>5, <2>1, <2>2, UnderOrder
  <2>4. Parent(q) \in Tree
    BY <1>1, <1>2, <2>1, <2>2, TreePaths
  <2> QED
    BY <2>3, <2>4
<1> QED
  BY <1>2, <1>3, <1>4, <1>5

\* The entry of a directory on the way to a path below it.
LEMMA Towards ==
  ASSUME NEW p \in Tree, NEW q \in Path, Under(p, q), p # q, Len(q) <= MaxDepth
  PROVE  \E e \in Tree : /\ Parent(e) = p /\ Under(e, q) /\ Under(p, e) /\ Len(e) = Len(p) + 1
                         /\ \A d \in Path : Len(d) = Len(p) + 1 /\ Under(d, q) => d = e
<1> DEFINE e == SubSeq(q, 1, Len(p) + 1)
<1>1. p \in Path /\ Len(p) \in 1..MaxDepth /\ MaxDepth \in Nat /\ Len(q) \in Nat
  BY TreePaths, FilesAssumption, LenProperties DEF Path
<1>2. Len(p) + 1 \in 1..Len(q)
  BY <1>1, UnderEqual DEF Under
<1>3. e \in Path /\ Len(e) = Len(p) + 1 /\ \A i \in 1..Len(p) + 1 : e[i] = q[i]
  BY <1>1, <1>2, Firsts
<1> HIDE DEF e
<1>4. e \in Tree
  BY <1>1, <1>2, <1>3, TreePaths
<1>5. Under(e, q)
  BY <1>1, <1>2, <1>3, UnderNames
<1>6. Under(p, e)
  BY <1>1, <1>3, <1>5, UnderOrder
<1>7. Parent(e) = p
  <2>1. Parent(e) \in Path /\ Len(Parent(e)) = Len(p) /\ Under(Parent(e), e)
    BY <1>1, <1>3, <1>4, Parents
  <2>2. Under(Parent(e), p)
    BY <1>1, <1>3, <1>6, <2>1, UnderOrder
  <2> QED
    BY <1>1, <2>1, <2>2, UnderEqual
<1>8. ASSUME NEW d \in Path, Len(d) = Len(p) + 1, Under(d, q)
      PROVE  d = e
  <2>1. Under(d, e)
    BY <1>1, <1>3, <1>5, <1>8, UnderOrder
  <2> QED
    BY <1>1, <1>3, <1>8, <2>1, UnderEqual
<1> QED
  BY <1>3, <1>4, <1>5, <1>6, <1>7, <1>8

\* Where a path at or below from goes when from goes to "to".
Dest(from, to, p) == to \o SubSeq(p, Len(from) + 1, Len(p))

\* d has the names of "to" and then those of p below from.
DestFacts(from, to, p, d) ==
  /\ d \in Path /\ Len(d) = Len(to) + Len(p) - Len(from)
  /\ \A i \in 1..Len(to) : d[i] = to[i]
  /\ \A i \in (Len(from) + 1)..Len(p) : d[Len(to) + i - Len(from)] = p[i]
  /\ Under(to, d)

\* So has what Dest returns.
LEMMA DestNames ==
  ASSUME NEW from \in Path, NEW to \in Path, NEW p \in Path, Under(from, p)
  PROVE  DestFacts(from, to, p, Dest(from, to, p))
<1> DEFINE rest == SubSeq(p, Len(from) + 1, Len(p))
<1>1. Len(p) \in Nat /\ Len(from) \in Nat /\ Len(to) \in Nat /\ Len(from) <= Len(p)
  BY LenProperties DEF Path, Under
<1>2. \A i \in (Len(from) + 1)..Len(p) : p[i] \in Names
  BY <1>1, ElementOfSeq DEF Path
<1>3. /\ rest \in Seq(Names)
      /\ Len(rest) = IF Len(from) + 1 <= Len(p) THEN Len(p) - (Len(from) + 1) + 1 ELSE 0
      /\ \A i \in 1 .. Len(p) - (Len(from) + 1) + 1 : rest[i] = p[Len(from) + 1 + i - 1]
  BY <1>1, <1>2, SubSeqProperties
<1> HIDE DEF rest
<1>4. Len(rest) = Len(p) - Len(from) /\ \A i \in 1..Len(p) - Len(from) : rest[i] = p[Len(from) + i]
  BY <1>1, <1>3
<1>5. /\ to \o rest \in Seq(Names) /\ Len(to \o rest) = Len(to) + Len(rest)
      /\ \A i \in 1 .. Len(to) + Len(rest) : (to \o rest)[i] = IF i <= Len(to) THEN to[i] ELSE rest[i - Len(to)]
  BY <1>3, ConcatProperties DEF Path
<1>6. Dest(from, to, p) = to \o rest
  BY DEF Dest, rest
<1>7. \A i \in 1..Len(to) : (to \o rest)[i] = to[i]
  BY <1>1, <1>4, <1>5
<1>8. ASSUME NEW i \in (Len(from) + 1)..Len(p)
      PROVE  (to \o rest)[Len(to) + i - Len(from)] = p[i]
  <2>1. i - Len(from) \in 1..Len(p) - Len(from) /\ Len(to) + i - Len(from) \in 1..Len(to) + Len(rest)
    BY <1>1, <1>4
  <2>2. (to \o rest)[Len(to) + i - Len(from)] = rest[i - Len(from)]
    BY <1>1, <1>5, <2>1
  <2>3. rest[i - Len(from)] = p[Len(from) + (i - Len(from))]
    BY <1>4, <2>1
  <2> QED
    BY <1>1, <2>2, <2>3
<1>9. Len(to \o rest) = Len(to) + Len(p) - Len(from)
  BY <1>1, <1>4, <1>5
<1>10. Under(to, to \o rest)
  <2>1. Len(to) <= Len(to \o rest) /\ to \o rest \in Path
    BY <1>1, <1>5, <1>9 DEF Path
  <2> QED
    BY <1>7, <2>1, UnderNames
<1> QED
  BY <1>5, <1>6, <1>7, <1>8, <1>9, <1>10 DEF Path, DestFacts

\* from itself goes to "to", and where a path goes tells the path.
LEMMA DestOnce ==
  ASSUME NEW from \in Path, NEW to \in Path
  PROVE  /\ Dest(from, to, from) = to
         /\ \A p, q \in Path : Under(from, p) /\ Under(from, q) /\ Dest(from, to, p) = Dest(from, to, q) => p = q
         /\ \A p \in Path : Under(from, p) => Dest(from, from, p) = p
<1>1. Len(from) \in Nat /\ Len(to) \in Nat /\ Under(from, from)
  BY UnderOrder, LenProperties DEF Path
<1>2. Dest(from, to, from) = to
  <2>0. DestFacts(from, to, from, Dest(from, to, from))
    BY <1>1, DestNames
  <2>1. Dest(from, to, from) \in Path /\ Len(Dest(from, to, from)) = Len(to) /\ Under(to, Dest(from, to, from))
    BY <1>1, <2>0 DEF DestFacts
  <2> QED
    BY <1>1, <2>1, UnderEqual
<1>3. ASSUME NEW p \in Path, NEW q \in Path, Under(from, p), Under(from, q), Dest(from, to, p) = Dest(from, to, q)
      PROVE  p = q
  <2>0. DestFacts(from, to, p, Dest(from, to, p)) /\ DestFacts(from, to, q, Dest(from, to, q))
    BY <1>3, DestNames
  <2>1. Len(p) \in Nat /\ Len(q) \in Nat
    BY LenProperties DEF Path
  <2>2. Len(p) = Len(q)
    BY <1>1, <1>3, <2>0, <2>1 DEF DestFacts
  <2>3. ASSUME NEW i \in 1..Len(p)
        PROVE  p[i] = q[i]
    <3>1. CASE i <= Len(from)
      BY <1>1, <1>3, <3>1, UnderNames
    <3>2. CASE i > Len(from)
      <4>1. i \in (Len(from) + 1)..Len(p) /\ i \in (Len(from) + 1)..Len(q)
        BY <1>1, <2>1, <2>2, <3>2
      <4> QED
        BY <1>3, <2>0, <4>1 DEF DestFacts
    <3> QED
      BY <1>1, <2>1, <3>1, <3>2
  <2> QED
    BY <2>2, <2>3, SeqEqual DEF Path
<1>4. ASSUME NEW p \in Path, Under(from, p)
      PROVE  Dest(from, from, p) = p
  <2>0. DestFacts(from, from, p, Dest(from, from, p))
    BY <1>4, DestNames
  <2>1. Len(p) \in Nat /\ Len(from) <= Len(p)
    BY <1>4, LenProperties DEF Path, Under
  <2>2. Dest(from, from, p) \in Path /\ Len(Dest(from, from, p)) = Len(p)
    BY <1>1, <2>0, <2>1 DEF DestFacts
  <2>3. ASSUME NEW i \in 1..Len(p)
        PROVE  Dest(from, from, p)[i] = p[i]
    <3>1. CASE i <= Len(from)
      <4>1. i \in 1..Len(from)
        BY <1>1, <2>1, <3>1
      <4> QED
        BY <1>4, <2>0, <4>1, UnderNames DEF DestFacts
    <3>2. CASE i > Len(from)
      <4>1. i \in (Len(from) + 1)..Len(p) /\ Len(from) + i - Len(from) = i
        BY <1>1, <2>1, <3>2
      <4>2. Dest(from, from, p)[Len(from) + i - Len(from)] = p[i]
        BY <2>0, <4>1 DEF DestFacts
      <4> QED
        BY <4>1, <4>2
    <3> QED
      BY <1>1, <2>1, <3>1, <3>2
  <2> QED
    BY <2>1, <2>2, <2>3, SeqEqual DEF Path
<1> QED
  BY <1>2, <1>3, <1>4

\* An entry of a directory goes below where the directory goes, under its own name.
LEMMA DestEntry ==
  ASSUME NEW from \in Path, NEW to \in Path, NEW p \in Tree, NEW q \in Tree, Under(from, p), Parent(q) = p
  PROVE  Under(from, q) /\ Append(Dest(from, to, p), q[Len(q)]) = Dest(from, to, q)
<1>1. /\ p \in Path /\ q \in Path /\ Len(q) \in Nat /\ Len(from) \in Nat /\ Len(to) \in Nat /\ Len(q) > 0
      /\ Len(p) = Len(q) - 1 /\ Len(from) <= Len(p)
  BY TreePaths, Parents, LenProperties DEF Path, Under
<1>2. Under(p, q) /\ Under(from, q)
  BY <1>1, Parents, UnderOrder
<1> DEFINE d == Dest(from, to, p)
           e == Dest(from, to, q)
<1>20. DestFacts(from, to, p, d) /\ DestFacts(from, to, q, e)
  BY <1>1, <1>2, DestNames
<1> HIDE DEF d, e
<1>3. /\ d \in Path /\ Len(d) = Len(to) + Len(p) - Len(from)
      /\ \A i \in 1..Len(to) : d[i] = to[i]
      /\ \A i \in (Len(from) + 1)..Len(p) : d[Len(to) + i - Len(from)] = p[i]
  BY <1>20 DEF DestFacts
<1>4. /\ e \in Path /\ Len(e) = Len(to) + Len(q) - Len(from)
      /\ \A i \in 1..Len(to) : e[i] = to[i]
      /\ \A i \in (Len(from) + 1)..Len(q) : e[Len(to) + i - Len(from)] = q[i]
  BY <1>20 DEF DestFacts
<1>5. q[Len(q)] \in Names
  BY <1>1, ElementOfSeq DEF Path
<1>6. /\ Append(d, q[Len(q)]) \in Seq(Names) /\ Len(Append(d, q[Len(q)])) = Len(d) + 1
      /\ \A i \in 1..Len(d) : Append(d, q[Len(q)])[i] = d[i]
      /\ Append(d, q[Len(q)])[Len(d) + 1] = q[Len(q)]
  BY <1>3, <1>5, AppendProperties DEF Path
<1>7. Len(e) = Len(d) + 1
  BY <1>1, <1>3, <1>4
<1>8. ASSUME NEW i \in 1..Len(e)
      PROVE  Append(d, q[Len(q)])[i] = e[i]
  <2>1. CASE i <= Len(to)
    <3>1. i \in 1..Len(to) /\ i \in 1..Len(d)
      BY <1>1, <1>3, <1>4, <2>1
    <3> QED
      BY <1>3, <1>4, <1>6, <3>1
  <2>2. CASE i > Len(to) /\ i < Len(e)
    <3> DEFINE j == i - Len(to) + Len(from)
    <3>1. j \in (Len(from) + 1)..Len(p) /\ j \in (Len(from) + 1)..Len(q) /\ j \in 1..Len(p) /\ i \in 1..Len(d)
          /\ Len(to) + j - Len(from) = i
      BY <1>1, <1>3, <1>4, <2>2
    <3> HIDE DEF j
    <3>2. d[Len(to) + j - Len(from)] = p[j] /\ e[Len(to) + j - Len(from)] = q[j]
      BY <1>3, <1>4, <3>1
    <3>3. p[j] = q[j]
      BY <1>1, <1>2, <3>1, UnderNames
    <3> QED
      BY <1>6, <3>1, <3>2, <3>3
  <2>3. CASE i = Len(e)
    <3>1. Len(q) \in (Len(from) + 1)..Len(q) /\ Len(to) + Len(q) - Len(from) = i
      BY <1>1, <1>4, <2>3
    <3>2. e[Len(to) + Len(q) - Len(from)] = q[Len(q)]
      BY <1>4, <3>1
    <3> QED
      BY <1>6, <1>7, <2>3, <3>1, <3>2
  <2>4. Len(e) \in Nat /\ Len(to) \in Nat
    BY <1>1, <1>4
  <2>5. i <= Len(to) \/ (i > Len(to) /\ i < Len(e)) \/ i = Len(e)
    BY <2>4
  <2> QED
    BY <2>1, <2>2, <2>3, <2>5
<1>9. Append(d, q[Len(q)]) = e
  BY <1>4, <1>6, <1>7, <1>8, SeqEqual DEF Path
<1> QED
  BY <1>2, <1>9 DEF d, e

------------------------------------------------------------------------------
(* Types. *)

AClient == [kind : Kinds \cup {"none"}, from : Tree \cup {<<>>}, to : Tree \cup {<<>>},
            text : Contents, step : {"none", "check", "parents", "act", "ok", "error"},
            work : SUBSET (Tree \cup (Seq(Names) \X Seq(Names))), alone : BOOLEAN,
            total : 0..Results, hits : SUBSET Tree, truncated : BOOLEAN]

\* The client's record of a command, in one step of its own.
LEMMA ClientTyped ==
  ASSUME TypeOK, NEW c \in Clients
  PROVE  client[c] \in AClient
BY DEF TypeOK, AClient

\* A client's record is replaced and the others stay as they are.
LEMMA Updates ==
  ASSUME TypeOK, NEW c \in Clients, NEW x \in AClient, client' = [client EXCEPT ![c] = x]
  PROVE  client' \in [Clients -> AClient] /\ client'[c] = x /\ \A d \in Clients : d # c => client'[d] = client[d]
<1>1. client \in [Clients -> AClient]
  BY DEF TypeOK, AClient
<1> QED
  BY <1>1

\* A command goes on to its next step, with work to do.
LEMMA GoesOn ==
  ASSUME TypeOK, NEW c \in Clients, NEW step \in {"check", "parents", "act"},
         NEW ps \in SUBSET (Tree \cup (Seq(Names) \X Seq(Names)))
  PROVE  /\ [client[c] EXCEPT !.step = step] \in AClient
         /\ [client[c] EXCEPT !.step = step, !.work = ps] \in AClient
<1>1. client[c] \in AClient
  BY ClientTyped
<1>2. [client[c] EXCEPT !.step = step] \in AClient
  BY <1>1 DEF AClient
<1>3. [client[c] EXCEPT !.step = step, !.work = ps] \in AClient
  BY <1>1 DEF AClient
<1> QED
  BY <1>2, <1>3

\* A client goes on, or answers, and the others stay as they are.
LEMMA Moves ==
  ASSUME TypeOK, NEW c \in Clients
  PROVE  /\ \A step \in {"none", "check", "parents", "act", "ok", "error"} :
              Goto(c, step) => /\ client' \in [Clients -> AClient]
                               /\ client'[c] = [client[c] EXCEPT !.step = step]
                               /\ \A d \in Clients : d # c => client'[d] = client[d]
         /\ \A outcome \in {"ok", "error"} :
              Answer(c, outcome) => /\ client' \in [Clients -> AClient]
                                    /\ client'[c].step = outcome
                                    /\ \A d \in Clients : d # c => client'[d] = client[d]
<1>1. ASSUME NEW step \in {"none", "check", "parents", "act", "ok", "error"}, Goto(c, step)
      PROVE  /\ client' \in [Clients -> AClient]
             /\ client'[c] = [client[c] EXCEPT !.step = step]
             /\ \A d \in Clients : d # c => client'[d] = client[d]
  <2>1. client' = [client EXCEPT ![c] = [client[c] EXCEPT !.step = step]]
    BY <1>1 DEF Goto, TypeOK
  <2>2. [client[c] EXCEPT !.step = step] \in AClient
    BY ClientTyped DEF AClient
  <2> QED
    BY <2>1, <2>2, Updates
<1>2. ASSUME NEW outcome \in {"ok", "error"}, Answer(c, outcome)
      PROVE  /\ client' \in [Clients -> AClient]
             /\ client'[c].step = outcome
             /\ \A d \in Clients : d # c => client'[d] = client[d]
  <2> DEFINE x == [Free EXCEPT !.step = outcome]
  <2>1. "plain" \in Contents /\ 0 \in 0..Results
    BY FilesAssumption DEF Contents, Lines
  <2>2. x \in AClient /\ x.step = outcome
    BY <2>1 DEF Free, AClient
  <2>3. client' = [client EXCEPT ![c] = x]
    BY <1>2 DEF Answer
  <2> HIDE DEF x
  <2> QED
    BY <2>2, <2>3, Updates
<1> QED
  BY <1>1, <1>2

\* What is left when the command of client c begins.
Begun(c, kind, from, to) ==
  /\ client'[c].kind = kind /\ client'[c].from = from /\ client'[c].to = to /\ client'[c].step = "check"
  /\ client'[c].work = {} /\ (client'[c].alone <=> \A d \in Clients : Idle(d))
  /\ \A d \in Clients : d # c => /\ client'[d].step = client[d].step /\ client'[d].work = client[d].work
                                /\ client'[d].kind = client[d].kind /\ client'[d].hits = client[d].hits
                                /\ client'[d].from = client[d].from /\ client'[d].to = client[d].to
                                /\ client'[d].truncated = client[d].truncated
                                /\ (client'[d].alone <=> client[d].alone /\ Idle(d))
  /\ from \in Tree /\ to \in Tree /\ UNCHANGED <<env, tree>> /\ Idle(c)
  /\ env = "Wsl" => \A d \in Clients : Idle(d)

\* A command begins.
LEMMA BeginTyped ==
  ASSUME TypeOK, NEW c \in Clients, NEW kind \in Kinds, NEW from, NEW to, NEW text \in Contents,
         Begin(c, kind, from, to, text)
  PROVE  TypeOK' /\ Begun(c, kind, from, to)
<1> DEFINE all == \A d2 \in Clients : Idle(d2)
           x == [Free EXCEPT !.kind = kind, !.from = from, !.to = to, !.text = text, !.step = "check", !.alone = all]
           y(d) == [client[d] EXCEPT !.alone = @ /\ Idle(d)]
<1>1. client' = [d \in Clients |-> IF d = c THEN x ELSE y(d)]
  BY Zenon DEF Begin
<1>2. from \in Tree /\ to \in Tree /\ UNCHANGED <<env, tree>> /\ ops' \in 0..MaxOps /\ Idle(c)
  <2>1. ops < MaxOps /\ ops' = ops + 1 /\ {from, to} \subseteq Tree /\ UNCHANGED <<env, tree>> /\ Idle(c)
    BY Zenon DEF Begin
  <2> QED
    BY <2>1, FilesAssumption DEF TypeOK
<1>20. env = "Wsl" => \A d \in Clients : Idle(d)
  BY Zenon DEF Begin
<1>3. 0 \in 0..Results /\ all \in BOOLEAN
  BY FilesAssumption
<1>4. /\ x \in AClient /\ x.kind = kind /\ x.from = from /\ x.to = to /\ x.step = "check" /\ x.alone = all
      /\ x.work = {}
  <2> HIDE DEF all
  <2> QED
    BY <1>2, <1>3 DEF Free, AClient
<1>5. ASSUME NEW d \in Clients
      PROVE  /\ y(d) \in AClient /\ y(d).step = client[d].step /\ y(d).kind = client[d].kind
             /\ y(d).from = client[d].from /\ y(d).to = client[d].to /\ y(d).work = client[d].work
             /\ y(d).hits = client[d].hits /\ y(d).truncated = client[d].truncated
             /\ y(d).alone = (client[d].alone /\ Idle(d))
  <2> DEFINE b == client[d].alone /\ Idle(d)
  <2>1. b \in BOOLEAN
    OBVIOUS
  <2>2. y(d) = [client[d] EXCEPT !.alone = b]
    OBVIOUS
  <2> HIDE DEF b, y
  <2>3. /\ y(d) \in AClient /\ y(d).step = client[d].step /\ y(d).kind = client[d].kind
        /\ y(d).from = client[d].from /\ y(d).to = client[d].to /\ y(d).alone = b
        /\ y(d).work = client[d].work /\ y(d).hits = client[d].hits /\ y(d).truncated = client[d].truncated
    BY <2>1, <2>2, ClientTyped DEF AClient
  <2> QED
    BY <2>3 DEF b
<1> HIDE DEF x, y
<1>6. client' \in [Clients -> AClient]
  BY <1>1, <1>4, <1>5
<1>7. TypeOK'
  BY <1>2, <1>6 DEF TypeOK, AClient
<1>8. client'[c] = x /\ \A d \in Clients : d # c => client'[d] = y(d)
  BY <1>1
<1>9. client'[c].alone <=> all
  <2> HIDE DEF all
  <2> QED
    BY <1>3, <1>4, <1>8
<1>10. ASSUME NEW d \in Clients, d # c
       PROVE  /\ client'[d].step = client[d].step /\ client'[d].work = client[d].work
              /\ client'[d].kind = client[d].kind /\ client'[d].hits = client[d].hits
              /\ client'[d].from = client[d].from /\ client'[d].to = client[d].to
              /\ client'[d].truncated = client[d].truncated
              /\ (client'[d].alone <=> client[d].alone /\ Idle(d))
  <2>1. client'[d] = y(d)
    BY <1>8, <1>10
  <2> QED
    BY <1>5, <2>1
<1>11. /\ client'[c].kind = kind /\ client'[c].from = from /\ client'[c].to = to /\ client'[c].step = "check"
       /\ client'[c].work = {}
  BY <1>4, <1>8
<1> QED
  BY <1>2, <1>20, <1>7, <1>9, <1>10, <1>11 DEF Begun

\* A command that runs has paths of the tree, two where it has use for two, and work of its
\* kind; where it counts that it is alone, the others are idle.
ClientInv ==
  \A c \in Clients : ~Idle(c) =>
    /\ client[c].from \in Tree /\ client[c].to \in Tree /\ client[c].kind # "none"
    /\ client[c].kind \notin {"rename", "copy"} => client[c].to = client[c].from
    /\ client[c].kind = "search" => client[c].work \subseteq Tree
    /\ client[c].kind = "copy" => client[c].work \subseteq Tree \X Path
    /\ client[c].alone \/ env = "Wsl" => \A d \in Clients : d # c => Idle(d)

\* What a move of client c leaves of the types.
Moved(c) ==
  /\ tree' \in [Tree -> {"none", "dir"} \cup Contents] /\ UNCHANGED <<env, ops>>
  /\ client' \in [Clients -> AClient] /\ ~Idle(c)
  /\ \A d \in Clients : d # c => client'[d] = client[d]

\* A command fails or answers.
LEMMA Answered ==
  ASSUME TypeOK, NEW c \in Clients, ~Idle(c)
  PROVE  /\ Fail(c) => Moved(c) /\ client'[c].step = "error" /\ tree' = tree
         /\ tree' \in [Tree -> {"none", "dir"} \cup Contents] /\ UNCHANGED <<env, ops>> =>
              \A outcome \in {"ok", "error"} : Answer(c, outcome) => Moved(c) /\ client'[c].step = outcome
<1>1. tree \in [Tree -> {"none", "dir"} \cup Contents]
  BY DEF TypeOK
<1> QED
  BY <1>1, Moves DEF Fail, Moved

\* The command looks.
LEMMA CheckMoves ==
  ASSUME TypeOK, NEW c \in Clients, Check(c)
  PROVE  /\ Moved(c) /\ tree' = tree
         /\ \/ client'[c].step = "error"
            \/ /\ client'[c] = [client[c] EXCEPT !.step = "parents"] /\ client[c].kind # "search"
            \/ /\ client'[c] = [client[c] EXCEPT !.step = "act", !.work = IF client[c].kind = "search" THEN {q \in Tree : IsFile(q)} \ Hidden ELSE {}]
               /\ client[c].kind \notin {"copy", "create", "rename", "write", "create_dir"}
<1>0. client[c] \in AClient /\ ~Idle(c) /\ tree \in [Tree -> {"none", "dir"} \cup Contents]
  BY ClientTyped DEF Check, Idle, TypeOK
<1>1. CASE Fail(c)
  BY <1>0, <1>1, Answered
<1>2. CASE ~Fail(c)
  <2>1. UNCHANGED <<env, tree, ops>>
    BY <1>2 DEF Check
  <2>2. CASE client[c].kind \in {"write", "create", "rename", "copy", "create_dir"}
    <3>1. Goto(c, "parents")
      BY <1>2, <2>2 DEF Check
    <3>2. Moved(c) /\ client'[c] = [client[c] EXCEPT !.step = "parents"]
      BY <1>0, <2>1, <3>1, Moves DEF Moved
    <3>3. client[c].kind # "search"
      BY <2>2
    <3> QED
      BY <2>1, <3>2, <3>3
  <2>3. CASE client[c].kind \notin {"write", "create", "rename", "copy", "create_dir"}
    <3> DEFINE ps == IF client[c].kind = "search" THEN {q \in Tree : IsFile(q)} \ Hidden ELSE {}
    <3>1. client' = [client EXCEPT ![c].step = "act", ![c].work = ps]
      BY <1>2, <2>3 DEF Check
    <3>2. ps \subseteq Tree
      OBVIOUS
    <3> HIDE DEF ps
    <3>3. client' \in [Clients -> AClient] /\ client'[c] = [client[c] EXCEPT !.step = "act", !.work = ps]
          /\ \A d \in Clients : d # c => client'[d] = client[d]
      <4>1. client' = [client EXCEPT ![c] = [client[c] EXCEPT !.step = "act", !.work = ps]]
        BY <3>1 DEF TypeOK
      <4> QED
        BY <3>2, <4>1, GoesOn, Updates
    <3> QED
      BY <1>0, <2>1, <2>3, <3>3 DEF Moved, ps
  <2> QED
    BY <2>2, <2>3
<1> QED
  BY <1>1, <1>2

\* The directories above the target are made.
LEMMA ParentsMoves ==
  ASSUME TypeOK, ClientInv, NEW c \in Clients, MakeParents(c)
  PROVE  /\ Moved(c)
         /\ \/ client'[c].step = "error" /\ tree' = tree
            \/ /\ \A q \in Tree : tree'[q] = IF q \in Ancestors(client[c].to) \/ (q = client[c].to /\ client[c].kind = "create_dir")
                                            THEN "dir" ELSE tree[q]
               /\ \A q \in Ancestors(client[c].to) : ~IsFile(q)
               /\ client[c].kind = "create_dir" => ~IsFile(client[c].to)
               /\ \/ client'[c].step = "ok"
                  \/ /\ client[c].kind # "create_dir"
                     /\ client'[c] = [client[c] EXCEPT !.step = "act", !.work = IF client[c].kind = "copy"
                                          THEN {<<client[c].from, client[c].to>>} ELSE {}]
<1> DEFINE dirs == Ancestors(client[c].to) \cup IF client[c].kind = "create_dir" THEN {client[c].to} ELSE {}
           ps == IF client[c].kind = "copy" THEN {<<client[c].from, client[c].to>>} ELSE {}
<1>0. client[c] \in AClient /\ ~Idle(c) /\ tree \in [Tree -> {"none", "dir"} \cup Contents]
  BY ClientTyped DEF MakeParents, Idle, TypeOK
<1>1. CASE Fail(c)
  BY <1>0, <1>1, Answered
<1>2. CASE ~Fail(c)
  <2>1. /\ tree' = [q \in Tree |-> IF q \in dirs THEN "dir" ELSE tree[q]] /\ UNCHANGED <<env, ops>>
        /\ \A q \in dirs : ~IsFile(q)
        /\ client[c].kind = "create_dir" => Answer(c, "ok")
        /\ client[c].kind # "create_dir" => client' = [client EXCEPT ![c].step = "act", ![c].work = ps]
    BY <1>2 DEF MakeParents
  <2>2. tree' \in [Tree -> {"none", "dir"} \cup Contents]
    <3> HIDE DEF dirs
    <3> QED
      BY <1>0, <2>1
  <2>3. \A q \in Tree : q \in dirs <=> q \in Ancestors(client[c].to) \/ (q = client[c].to /\ client[c].kind = "create_dir")
    OBVIOUS
  <2>4. /\ \A q \in Ancestors(client[c].to) : ~IsFile(q)
        /\ client[c].kind = "create_dir" => ~IsFile(client[c].to)
    BY <2>1
  <2>5. ps \subseteq Seq(Names) \X Seq(Names)
    BY <1>0, TreePaths DEF ClientInv, Path
  <2> HIDE DEF dirs, ps
  <2>6. CASE client[c].kind = "create_dir"
    BY <1>0, <2>1, <2>2, <2>3, <2>4, <2>6, Answered
  <2>7. CASE client[c].kind # "create_dir"
    <3>1. client' \in [Clients -> AClient] /\ client'[c] = [client[c] EXCEPT !.step = "act", !.work = ps]
          /\ \A d \in Clients : d # c => client'[d] = client[d]
      <4>1. client' = [client EXCEPT ![c] = [client[c] EXCEPT !.step = "act", !.work = ps]]
        BY <2>1, <2>7 DEF TypeOK
      <4> QED
        BY <2>5, <4>1, GoesOn, Updates
    <3>2. Moved(c)
      BY <1>0, <2>1, <2>2, <3>1 DEF Moved
    <3> QED
      BY <2>1, <2>3, <2>4, <2>7, <3>1, <3>2 DEF ps
  <2> QED
    BY <2>6, <2>7
<1> QED
  BY <1>1, <1>2

\* A text is written.
LEMMA WriteMoves ==
  ASSUME TypeOK, ClientInv, NEW c \in Clients, WriteOut(c)
  PROVE  /\ Moved(c)
         /\ \/ client'[c].step = "error" /\ tree' = tree
            \/ /\ client'[c].step = "ok" /\ CanPut(client[c].to)
               /\ tree' = [tree EXCEPT ![client[c].to] = client[c].text]
<1>0. client[c] \in AClient /\ ~Idle(c) /\ tree \in [Tree -> {"none", "dir"} \cup Contents]
  BY ClientTyped DEF WriteOut, At, Idle, TypeOK
<1>1. CASE Fail(c)
  BY <1>0, <1>1, Answered
<1>2. CASE ~Fail(c)
  <2>1. /\ CanPut(client[c].to) /\ tree' = [tree EXCEPT ![client[c].to] = client[c].text]
        /\ Answer(c, "ok") /\ UNCHANGED <<env, ops>>
    BY <1>2 DEF WriteOut, Put
  <2>2. client[c].text \in Contents
    BY <1>0 DEF AClient
  <2>3. tree' \in [Tree -> {"none", "dir"} \cup Contents]
    BY <1>0, <2>1, <2>2
  <2> QED
    BY <1>0, <2>1, <2>3, Answered
<1> QED
  BY <1>1, <1>2

\* What a rename of from to "to" leaves.
Renamed(from, to) ==
  LET Gone(q) == Under(from, q) /\ tree[q] # "none" IN
  /\ tree[from] # "none" /\ IsDir(Parent(to)) /\ (Under(from, to) => from = to)
  /\ ~(IsFile(from) /\ tree[to] = "dir") /\ (tree[from] = "dir" => from = to \/ Children(to) = {})
  /\ \A s \in Tree : Gone(s) => Dest(from, to, s) \in Tree /\ tree'[Dest(from, to, s)] = tree[s]
  /\ \A q \in Tree : (\A s \in Tree : Gone(s) => Dest(from, to, s) # q)
                     => tree'[q] = IF Gone(q) THEN "none" ELSE tree[q]

\* A file or a directory is moved with all that is in it.
LEMMA RenameMoves ==
  ASSUME TypeOK, ClientInv, NEW c \in Clients, Rename(c)
  PROVE  /\ Moved(c)
         /\ \/ client'[c].step = "error" /\ tree' = tree
            \/ client'[c].step = "ok" /\ Renamed(client[c].from, client[c].to)
<1> DEFINE from == client[c].from
           to == client[c].to
           moved == {q \in Tree : Under(from, q) /\ tree[q] # "none"}
<1>0. client[c] \in AClient /\ ~Idle(c) /\ tree \in [Tree -> {"none", "dir"} \cup Contents]
  BY ClientTyped DEF Rename, At, Idle, TypeOK
<1>1. CASE Fail(c)
  BY <1>0, <1>1, Answered
<1>2. CASE ~Fail(c)
  <2>1. /\ tree[from] # "none" /\ IsDir(Parent(to)) /\ (Under(from, to) => from = to)
        /\ ~(IsFile(from) /\ tree[to] = "dir") /\ (tree[from] = "dir" => from = to \/ Children(to) = {})
        /\ \A q \in moved : Dest(from, to, q) \in Tree
        /\ tree' = [q \in Tree |->
                   IF \E s \in moved : Dest(from, to, s) = q THEN tree[CHOOSE s \in moved : Dest(from, to, s) = q]
                   ELSE IF q \in moved THEN "none" ELSE tree[q]]
        /\ Answer(c, "ok") /\ UNCHANGED <<env, ops>>
    BY <1>2 DEF Rename, Dest
  <2>2. from \in Path /\ to \in Path
    BY <1>0, TreePaths DEF ClientInv
  <2>3. moved \subseteq Path
    BY TreePaths
  <2>4. ASSUME NEW s \in moved
        PROVE  tree'[Dest(from, to, s)] = tree[s]
    <3>1. (CHOOSE x \in moved : Dest(from, to, x) = Dest(from, to, s)) = s
      <4>1. \A x \in moved : Dest(from, to, x) = Dest(from, to, s) => x = s
        BY <2>2, <2>3, DestOnce
      <4> QED
        BY <4>1
    <3> QED
      BY <2>1, <3>1
  <2>5. tree' \in [Tree -> {"none", "dir"} \cup Contents]
    <3>1. ASSUME NEW q \in Tree
          PROVE  tree'[q] \in {"none", "dir"} \cup Contents
      <4>1. CASE \E s \in moved : Dest(from, to, s) = q
        BY <1>0, <2>4, <4>1
      <4>2. CASE ~\E s \in moved : Dest(from, to, s) = q
        BY <1>0, <2>1, <4>2
      <4> QED
        BY <4>1, <4>2
    <3> QED
      BY <2>1, <3>1
  <2>6. ASSUME NEW q \in Tree, \A s \in moved : Dest(from, to, s) # q
        PROVE  tree'[q] = IF q \in moved THEN "none" ELSE tree[q]
    BY <2>1, <2>6
  <2>7. Renamed(from, to)
    BY <2>1, <2>4, <2>6 DEF Renamed
  <2> HIDE DEF moved, from, to
  <2>8. Moved(c) /\ client'[c].step = "ok"
    BY <1>0, <2>1, <2>5, Answered
  <2> QED
    BY <2>7, <2>8 DEF from, to
<1> QED
  BY <1>1, <1>2

\* An entry of the copy: src is read as it is, and a directory is made with those above it and
\* adds what is in it.
Copied(c, w) ==
  LET src == w[1]  dst == w[2] IN
  /\ tree[src] # "none" /\ dst \in Tree /\ (IsFile(src) => CanPut(dst))
  /\ (tree[src] = "dir" => \A q \in Ancestors(dst) \cup {dst} : ~IsFile(q))
  /\ tree' = [q \in Tree |->
                 IF q = dst THEN IF src = dst /\ IsFile(src) THEN "plain" ELSE tree[src]
                 ELSE IF tree[src] = "dir" /\ q \in Ancestors(dst) THEN "dir" ELSE tree[q]]
  /\ client'[c] = [client[c] EXCEPT !.work =
        (client[c].work \ {w}) \cup IF tree[src] # "dir" THEN {}
                                   ELSE {<<q, Append(dst, q[Len(q)])>> :
                                           q \in {e \in Tree : Parent(e) = src /\ tree'[e] # "none"}}]

\* A copied entry changes nothing there is but its place.
LEMMA CopiedKeeps ==
  ASSUME TypeOK, NEW c \in Clients, NEW w, Copied(c, w), NEW q \in Tree, q # w[2], tree[q] # "none"
  PROVE  tree'[q] = tree[q]
<1>1. tree[q] \in {"none", "dir"} \cup Contents
  BY DEF TypeOK
<1>2. tree[w[1]] = "dir" /\ q \in Ancestors(w[2]) => tree[q] = "dir"
  BY <1>1 DEF Copied, IsFile
<1> QED
  BY <1>2 DEF Copied

\* What a directory adds are paths of the tree and where they go.
LEMMA EntriesTyped ==
  ASSUME TypeOK, ClientInv, NEW c \in Clients, ~Idle(c), client[c].kind = "copy", NEW w \in client[c].work, Copied(c, w)
  PROVE  client'[c].work \subseteq Tree \X Path /\ client'[c].work = (client[c].work \ {w}) \cup
           IF tree[w[1]] # "dir" THEN {}
           ELSE {<<q, Append(w[2], q[Len(q)])>> : q \in {e \in Tree : Parent(e) = w[1] /\ tree'[e] # "none"}}
<1> DEFINE new == IF tree[w[1]] # "dir" THEN {}
                  ELSE {<<q, Append(w[2], q[Len(q)])>> : q \in {e \in Tree : Parent(e) = w[1] /\ tree'[e] # "none"}}
<1>1. client[c].work \subseteq Tree \X Path
  BY DEF ClientInv
<1>2. new \subseteq Tree \X Path
  <2>1. ASSUME NEW q \in Tree
        PROVE  <<q, Append(w[2], q[Len(q)])>> \in Tree \X Path
    <3>1. q \in Seq(Names) /\ Len(q) \in 1..Len(q) /\ w[2] \in Seq(Names)
      BY TreePaths DEF Copied, Path
    <3>2. q[Len(q)] \in Names
      BY <3>1, ElementOfSeq
    <3> QED
      BY <3>1, <3>2, AppendProperties DEF Path
  <2> QED
    BY <2>1
<1>3. client'[c] = [client[c] EXCEPT !.work = (client[c].work \ {w}) \cup new]
  BY DEF Copied
<1>4. client[c] \in AClient
  BY ClientTyped
<1> HIDE DEF new
<1>5. client'[c].work = (client[c].work \ {w}) \cup new
  BY <1>3, <1>4 DEF AClient
<1> QED
  BY <1>1, <1>2, <1>5 DEF new

\* An entry is copied.
LEMMA EntryMoves ==
  ASSUME TypeOK, ClientInv, NEW c \in Clients, CopyEntry(c)
  PROVE  /\ Moved(c) /\ At(c, {"copy"}, "act")
         /\ \/ client'[c].step = "error" /\ tree' = tree
            \/ \E w \in client[c].work : Copied(c, w)
<1>0. client[c] \in AClient /\ ~Idle(c) /\ tree \in [Tree -> {"none", "dir"} \cup Contents] /\ At(c, {"copy"}, "act")
  BY ClientTyped DEF CopyEntry, At, Idle, TypeOK
<1>1. CASE Fail(c)
  BY <1>0, <1>1, Answered
<1>2. CASE ~Fail(c)
  <2>1. PICK w \in client[c].work :
          LET src == w[1]  dst == w[2]  rest == client[c].work \ {w} IN
          /\ ~(\/ tree[src] = "none" \/ dst \notin Tree \/ (IsFile(src) /\ ~CanPut(dst))
               \/ (tree[src] = "dir" /\ \E q \in Ancestors(dst) \cup {dst} : IsFile(q)))
          /\ tree' = [q \in Tree |->
                 IF q = dst THEN IF src = dst /\ IsFile(src) THEN "plain" ELSE tree[src]
                 ELSE IF tree[src] = "dir" /\ q \in Ancestors(dst) THEN "dir" ELSE tree[q]]
          /\ client' = [client EXCEPT ![c].work =
                     rest \cup IF tree[src] # "dir" THEN {}
                               ELSE {<<q, Append(dst, q[Len(q)])>> :
                                        q \in {e \in Tree : Parent(e) = src /\ tree'[e] # "none"}}]
          /\ UNCHANGED <<env, ops>>
    BY <1>2 DEF CopyEntry
  <2> DEFINE src == w[1]
             dst == w[2]
             new == (client[c].work \ {w}) \cup IF tree[src] # "dir" THEN {}
                      ELSE {<<q, Append(dst, q[Len(q)])>> : q \in {e \in Tree : Parent(e) = src /\ tree'[e] # "none"}}
  <2>2. client' = [client EXCEPT ![c] = [client[c] EXCEPT !.work = new]]
    BY <2>1 DEF TypeOK
  <2>3. client'[c] = [client[c] EXCEPT !.work = new] /\ \A d \in Clients : d # c => client'[d] = client[d]
    <3> HIDE DEF new
    <3> QED
      BY <2>2 DEF TypeOK
  <2>4. Copied(c, w)
    BY <2>1, <2>3 DEF Copied
  <2>5. w \in Tree \X Path /\ w[1] \in Tree
    BY <1>0 DEF ClientInv, At
  <2>6. tree' \in [Tree -> {"none", "dir"} \cup Contents]
    <3>1. (IF src = dst /\ IsFile(src) THEN "plain" ELSE tree[src]) \in {"none", "dir"} \cup Contents
      BY <1>0, <2>5 DEF Contents, Lines
    <3>2. \A q \in Tree : (IF q = dst THEN IF src = dst /\ IsFile(src) THEN "plain" ELSE tree[src]
             ELSE IF tree[src] = "dir" /\ q \in Ancestors(dst) THEN "dir" ELSE tree[q]) \in {"none", "dir"} \cup Contents
      <4> HIDE DEF src, dst
      <4> QED
        BY <1>0, <3>1
    <3> QED
      BY <2>1, <3>2
  <2>7. client'[c].work \subseteq Tree \X Path
    BY <1>0, <2>4, EntriesTyped DEF At
  <2>8. client'[c] \in AClient
    <3>1. new \subseteq Seq(Names) \X Seq(Names)
      <4>1. client'[c].work = new
        <5> HIDE DEF new
        <5> QED
          BY <1>0, <2>3 DEF AClient
      <4> HIDE DEF new
      <4>2. \A x \in Tree \X Path : x \in Seq(Names) \X Seq(Names)
        BY TreePaths DEF Path
      <4> QED
        BY <2>7, <4>1, <4>2
    <3> HIDE DEF new
    <3> QED
      BY <1>0, <2>3, <3>1 DEF AClient
  <2>9. client' \in [Clients -> AClient]
    <3> HIDE DEF new
    <3>1. client \in [Clients -> AClient]
      BY DEF TypeOK, AClient
    <3> QED
      BY <2>2, <2>3, <2>8, <3>1
  <2> HIDE DEF new, src, dst
  <2> QED
    BY <1>0, <2>1, <2>3, <2>4, <2>6, <2>9 DEF Moved
<1> QED
  BY <1>1, <1>2

\* A path is deleted with all that is in it.
LEMMA DeleteMoves ==
  ASSUME TypeOK, NEW c \in Clients, Delete(c)
  PROVE  /\ Moved(c)
         /\ \/ client'[c].step = "error" /\ tree' = tree
            \/ client'[c].step = "ok" /\ tree' = [q \in Tree |-> IF Under(client[c].from, q) THEN "none" ELSE tree[q]]
<1>0. ~Idle(c) /\ tree \in [Tree -> {"none", "dir"} \cup Contents]
  BY DEF Delete, At, Idle, TypeOK
<1>1. CASE Fail(c)
  BY <1>0, <1>1, Answered
<1>2. CASE ~Fail(c)
  <2>1. /\ tree' = [q \in Tree |-> IF Under(client[c].from, q) THEN "none" ELSE tree[q]]
        /\ Answer(c, "ok") /\ UNCHANGED <<env, ops>>
    BY <1>2 DEF Delete
  <2>2. tree' \in [Tree -> {"none", "dir"} \cup Contents]
    BY <1>0, <2>1
  <2> QED
    BY <1>0, <2>1, <2>2, Answered
<1> QED
  BY <1>1, <1>2

\* A file is searched: with more lines than there is room for the search is cut.
LEMMA SearchMoves ==
  ASSUME TypeOK, ClientInv, NEW c \in Clients, SearchFile(c)
  PROVE  /\ Moved(c) /\ tree' = tree /\ At(c, {"search"}, "act") /\ client'[c].step = "act"
         /\ client'[c].kind = "search" /\ client'[c].from = client[c].from /\ client'[c].to = client[c].to
         /\ client'[c].alone = client[c].alone /\ client'[c].work \subseteq client[c].work
         /\ \E p \in client[c].work :
              /\ client'[c].work = client[c].work \ {p} /\ client[c].hits \subseteq client'[c].hits
              /\ Matches(p) > 0 => p \in client'[c].hits \/ client'[c].truncated
              /\ ~client[c].truncated
<1>0. client[c] \in AClient /\ ~Idle(c) /\ tree \in [Tree -> {"none", "dir"} \cup Contents] /\ At(c, {"search"}, "act")
  BY ClientTyped DEF SearchFile, At, Idle, TypeOK
<1>1. PICK p \in client[c].work, line \in BOOLEAN :
         LET found == Matches(p)
             room == IF client[c].total >= Results THEN 0 ELSE Results - client[c].total
         IN
         /\ client' = [client EXCEPT ![c].work = @ \ {p},
                ![c].total = @ + IF found > room THEN room ELSE found,
                ![c].hits = IF found > 0 /\ room > 0 THEN @ \cup {p} ELSE @,
                ![c].truncated = found > room \/ line]
         /\ UNCHANGED <<env, tree, ops>>
  BY DEF SearchFile
<1>2. ~client[c].truncated
  BY DEF SearchFile
<1> DEFINE found == Matches(p)
           room == IF client[c].total >= Results THEN 0 ELSE Results - client[c].total
           more == IF found > room THEN room ELSE found
           cut == found > room \/ line
           hits == IF found > 0 /\ room > 0 THEN client[c].hits \cup {p} ELSE client[c].hits
           x == [client[c] EXCEPT !.work = client[c].work \ {p}, !.total = client[c].total + more, !.hits = hits,
                                  !.truncated = cut]
<1>3. client' = [client EXCEPT ![c] = x] /\ UNCHANGED <<env, tree, ops>>
  BY <1>1 DEF TypeOK
<1>4. p \in Tree
  BY <1>0 DEF ClientInv, At
<1>5. found \in Nat
  <2>1. Searched(p) => Lines[tree[p]] \in 0..2
    BY DEF Searched, IsFile, Contents, Lines
  <2> QED
    BY <2>1 DEF Matches
<1>6. client[c].total \in 0..Results /\ Results \in Nat /\ client[c].hits \subseteq Tree
      /\ client[c].work \subseteq Tree \cup (Seq(Names) \X Seq(Names))
  BY <1>0, FilesAssumption DEF AClient
<1>7. room \in Nat /\ room = Results - client[c].total
  BY <1>6
<1>8. client[c].total + more \in 0..Results /\ cut \in BOOLEAN
  <2> HIDE DEF found, room
  <2> QED
    BY <1>5, <1>6, <1>7
<1>9. hits \subseteq Tree /\ client[c].hits \subseteq hits
  <2> HIDE DEF found, room
  <2> QED
    BY <1>4, <1>6
<1>10. found > 0 => p \in hits \/ cut
  <2> HIDE DEF found, room
  <2> QED
    BY <1>5, <1>7
<1>11. Matches(p) > 0 => p \in hits \/ cut
  <2> HIDE DEF cut, hits
  <2> QED
    BY <1>10
<1> HIDE DEF found, room, more, cut, hits
<1>12. /\ x \in AClient /\ x.work = client[c].work \ {p} /\ x.hits = hits /\ x.truncated = cut
       /\ x.step = client[c].step /\ x.kind = client[c].kind /\ x.from = client[c].from /\ x.to = client[c].to
       /\ x.alone = client[c].alone
  <2>1. client[c].work \ {p} \subseteq Tree \cup (Seq(Names) \X Seq(Names))
    BY <1>6
  <2> QED
    BY <1>0, <1>8, <1>9, <2>1 DEF AClient
<1> HIDE DEF x
<1>13. client' \in [Clients -> AClient] /\ client'[c] = x /\ \A d \in Clients : d # c => client'[d] = client[d]
  BY <1>3, <1>12, Updates
<1>14. Moved(c)
  BY <1>0, <1>3, <1>13 DEF Moved
<1> QED
  BY <1>0, <1>2, <1>3, <1>9, <1>11, <1>12, <1>13, <1>14 DEF At

\* A command ends.
LEMMA EndMoves ==
  ASSUME TypeOK, NEW c \in Clients, CopyEnds(c) \/ SearchEnds(c)
  PROVE  Moved(c) /\ tree' = tree /\ client'[c].step = "ok"
<1>1. ~Idle(c) /\ tree \in [Tree -> {"none", "dir"} \cup Contents] /\ Answer(c, "ok") /\ UNCHANGED <<env, tree, ops>>
  BY DEF CopyEnds, SearchEnds, At, Idle, TypeOK
<1> QED
  BY <1>1, Answered

\* A step moves the client of the command and no other.
LEMMA StepMoves ==
  ASSUME TypeOK, ClientInv, NEW c \in Clients, Step(c)
  PROVE  Moved(c)
BY CheckMoves, ParentsMoves, WriteMoves, RenameMoves, EntryMoves, EndMoves, DeleteMoves, SearchMoves DEF Step

\* Every step keeps the types.
LEMMA NextTyped ==
  ASSUME TypeOK, ClientInv, [Next]_vars
  PROVE  TypeOK'
<1>1. CASE UNCHANGED vars
  BY <1>1 DEF vars, TypeOK
<1>2. ASSUME NEW c \in Clients, Step(c)
      PROVE  TypeOK'
  BY <1>2, StepMoves DEF Moved, TypeOK, AClient
<1>3. ASSUME NEW c \in Clients, NEW kind \in Kinds, NEW from, NEW to,
             NEW text \in (IF kind \in {"write", "create"} THEN Contents ELSE {"plain"}), Begin(c, kind, from, to, text)
      PROVE  TypeOK'
  <2>1. text \in Contents
    BY DEF Contents, Lines
  <2> QED
    BY <1>3, <2>1, BeginTyped
<1> QED
  BY <1>1, <1>2, <1>3 DEF Next

\* What the record of a command says of it while it moves.
LEMMA OwnMove ==
  ASSUME TypeOK, ClientInv, NEW c \in Clients, Step(c)
  PROVE  \/ client'[c].step \in {"ok", "error"}
         \/ /\ client'[c].kind = client[c].kind /\ client'[c].from = client[c].from /\ client'[c].to = client[c].to
            /\ client'[c].alone = client[c].alone
            /\ client[c].kind = "search" => client'[c].work \subseteq Tree
            /\ client[c].kind = "copy" => client'[c].work \subseteq Tree \X Path
<1>0. client[c] \in AClient
  BY ClientTyped
<1>1. CASE Check(c)
  <2>1. ASSUME client'[c] = [client[c] EXCEPT !.step = "parents"]
        PROVE  /\ client'[c].kind = client[c].kind /\ client'[c].from = client[c].from /\ client'[c].to = client[c].to
               /\ client'[c].alone = client[c].alone /\ client'[c].work = client[c].work
    BY <1>0, <2>1 DEF AClient
  <2>2. ASSUME NEW ps, client'[c] = [client[c] EXCEPT !.step = "act", !.work = ps]
        PROVE  /\ client'[c].kind = client[c].kind /\ client'[c].from = client[c].from /\ client'[c].to = client[c].to
               /\ client'[c].alone = client[c].alone /\ client'[c].work = ps
    BY <1>0, <2>2 DEF AClient
  <2>3. ~Idle(c)
    BY <1>1 DEF Check, Idle
  <2> DEFINE all == IF client[c].kind = "search" THEN {q \in Tree : IsFile(q)} \ Hidden ELSE {}
  <2>4. all \subseteq Tree
    OBVIOUS
  <2>5. \/ client'[c].step = "error" \/ client'[c] = [client[c] EXCEPT !.step = "parents"]
        \/ client'[c] = [client[c] EXCEPT !.step = "act", !.work = all] /\ client[c].kind # "copy"
    BY <1>1, CheckMoves
  <2> HIDE DEF all
  <2>6. CASE client'[c] = [client[c] EXCEPT !.step = "parents"]
    BY <2>1, <2>3, <2>6 DEF ClientInv
  <2>7. CASE client'[c] = [client[c] EXCEPT !.step = "act", !.work = all] /\ client[c].kind # "copy"
    BY <2>2, <2>4, <2>7
  <2> QED
    BY <2>5, <2>6, <2>7
<1>2. CASE MakeParents(c)
  <2>1. ~Idle(c)
    BY <1>2 DEF MakeParents, Idle
  <2>2. ASSUME NEW ps, client'[c] = [client[c] EXCEPT !.step = "act", !.work = ps]
        PROVE  /\ client'[c].kind = client[c].kind /\ client'[c].from = client[c].from /\ client'[c].to = client[c].to
               /\ client'[c].alone = client[c].alone /\ client'[c].work = ps
    BY <1>0, <2>2 DEF AClient
  <2> DEFINE one == IF client[c].kind = "copy" THEN {<<client[c].from, client[c].to>>} ELSE {}
  <2>3. (client[c].kind = "search" => one \subseteq Tree) /\ one \subseteq Tree \X Path
    BY <2>1, TreePaths DEF ClientInv
  <2>4. client'[c].step \in {"ok", "error"} \/ client'[c] = [client[c] EXCEPT !.step = "act", !.work = one]
    BY <1>2, ParentsMoves
  <2> HIDE DEF one
  <2> QED
    BY <2>2, <2>3, <2>4
<1>3. CASE WriteOut(c) \/ Rename(c) \/ Delete(c) \/ CopyEnds(c) \/ SearchEnds(c)
  BY <1>3, WriteMoves, RenameMoves, DeleteMoves, EndMoves
<1>4. CASE CopyEntry(c)
  <2>1. ASSUME NEW w \in client[c].work, Copied(c, w)
        PROVE  /\ client'[c].kind = client[c].kind /\ client'[c].from = client[c].from /\ client'[c].to = client[c].to
               /\ client'[c].alone = client[c].alone /\ client'[c].work \subseteq Tree \X Path /\ client[c].kind = "copy"
    <3>1. /\ client'[c].kind = client[c].kind /\ client'[c].from = client[c].from /\ client'[c].to = client[c].to
          /\ client'[c].alone = client[c].alone
      <4>1. \E ps : client'[c] = [client[c] EXCEPT !.work = ps]
        BY <2>1 DEF Copied
      <4> QED
        BY <1>0, <4>1 DEF AClient
    <3>2. ~Idle(c) /\ client[c].kind = "copy"
      BY <1>4 DEF CopyEntry, At, Idle
    <3> QED
      BY <2>1, <3>1, <3>2, EntriesTyped
  <2>2. client'[c].step = "error" \/ \E w \in client[c].work : Copied(c, w)
    BY <1>4, EntryMoves
  <2> QED
    BY <2>1, <2>2
<1>5. CASE SearchFile(c)
  <2>1. client[c].kind = "search" /\ client[c].work \subseteq Tree
    BY <1>5 DEF SearchFile, At, ClientInv, Idle
  <2> QED
    BY <1>5, <2>1, SearchMoves
<1> QED
  BY <1>1, <1>2, <1>3, <1>4, <1>5 DEF Step

\* Commands that run keep what they are, and those that count as alone are.
LEMMA ClientStep ==
  ASSUME TypeOK, ClientInv, [Next]_vars
  PROVE  ClientInv'
<1>1. CASE UNCHANGED vars
  BY <1>1 DEF vars, ClientInv, Idle
<1>2. ASSUME NEW c \in Clients, Step(c)
      PROVE  ClientInv'
  <2> SUFFICES ASSUME NEW x \in Clients, ~Idle(x)'
               PROVE  /\ client'[x].from \in Tree /\ client'[x].to \in Tree /\ client'[x].kind # "none"
                      /\ client'[x].kind \notin {"rename", "copy"} => client'[x].to = client'[x].from
                      /\ client'[x].kind = "search" => client'[x].work \subseteq Tree
                      /\ client'[x].kind = "copy" => client'[x].work \subseteq Tree \X Path
                      /\ client'[x].alone \/ env' = "Wsl" => \A d \in Clients : d # x => Idle(d)'
    BY DEF ClientInv
  <2>1. Moved(c)
    BY <1>2, StepMoves
  <2>2. CASE x = c
    <3>1. client'[c].step \notin {"ok", "error"}
      BY <2>2 DEF Idle
    <3>2. ~Idle(c) /\ UNCHANGED env
      BY <2>1 DEF Moved
    <3>3. \A d \in Clients : d # c => (Idle(d)' <=> Idle(d))
      BY <2>1 DEF Moved, Idle
    <3> QED
      BY <1>2, <2>2, <3>1, <3>2, <3>3, OwnMove DEF ClientInv
  <2>3. CASE x # c
    <3>1. client'[x] = client[x] /\ UNCHANGED env /\ ~Idle(c)
      BY <2>1, <2>3 DEF Moved
    <3>2. ~Idle(x)
      BY <3>1 DEF Idle
    <3> QED
      BY <2>3, <3>1, <3>2 DEF ClientInv
  <2> QED
    BY <2>2, <2>3
<1>3. ASSUME NEW c \in Clients, NEW kind \in Kinds, NEW from, NEW to \in (IF kind \in {"rename", "copy"} THEN Accepted ELSE {from}),
             NEW text \in (IF kind \in {"write", "create"} THEN Contents ELSE {"plain"}), Begin(c, kind, from, to, text)
      PROVE  ClientInv'
  <2>1. text \in Contents
    BY DEF Contents, Lines
  <2>2. Begun(c, kind, from, to)
    BY <1>3, <2>1, BeginTyped
  <2>5. kind # "none" /\ (kind \notin {"rename", "copy"} => to = from)
    BY DEF Kinds
  <2>6. \A d \in Clients : d # c => (Idle(d)' <=> Idle(d))
    BY <2>2 DEF Begun, Idle
  <2> SUFFICES ASSUME NEW x \in Clients, ~Idle(x)'
               PROVE  /\ client'[x].from \in Tree /\ client'[x].to \in Tree /\ client'[x].kind # "none"
                      /\ client'[x].kind \notin {"rename", "copy"} => client'[x].to = client'[x].from
                      /\ client'[x].kind = "search" => client'[x].work \subseteq Tree
                      /\ client'[x].kind = "copy" => client'[x].work \subseteq Tree \X Path
                      /\ client'[x].alone \/ env' = "Wsl" => \A d \in Clients : d # x => Idle(d)'
    BY DEF ClientInv
  <2>7. CASE x = c
    BY <2>2, <2>5, <2>6, <2>7 DEF Begun
  <2>8. CASE x # c
    <3>1. ~Idle(x)
      BY <2>6, <2>8
    <3> QED
      BY <2>2, <2>8, <3>1 DEF Begun, ClientInv
  <2> QED
    BY <2>7, <2>8
<1> QED
  BY <1>1, <1>2, <1>3 DEF Next
------------------------------------------------------------------------------
(* The tree stays a tree. *)

\* Whatever there is lies in directories, all the way up.
Closed == \A q \in Tree : tree[q] # "none" => \A a \in Ancestors(q) : tree[a] = "dir"

\* Whatever is above a directory is a directory.
LEMMA AboveDir ==
  ASSUME Closed, NEW q \in Tree, IsDir(Parent(q)), NEW a \in Tree, Under(a, q), a # q
  PROVE  tree[a] = "dir"
<1>1. Parent(q) \in Tree /\ (a = Parent(q) \/ (Under(a, Parent(q)) /\ a # Parent(q))) /\ Parent(q) # <<>>
  <2>1. Parent(q) \in Tree /\ (a = Parent(q) \/ (Under(a, Parent(q)) /\ a # Parent(q)))
    BY Parents
  <2>2. <<>> \notin Tree
    BY TreePaths, EmptySeq
  <2> QED
    BY <2>1, <2>2
<1>2. tree[Parent(q)] = "dir"
  BY <1>1 DEF IsDir
<1> QED
  BY <1>1, <1>2 DEF Closed, Ancestors

\* A path that is put where there is room for it keeps the tree a tree.
LEMMA PutClosed ==
  ASSUME TypeOK, Closed, NEW p \in Tree, NEW x \in {"none", "dir"} \cup Contents, IsDir(Parent(p)),
         tree[p] # "dir" \/ x = "dir", tree' = [tree EXCEPT ![p] = x]
  PROVE  Closed'
<1>1. tree \in [Tree -> {"none", "dir"} \cup Contents]
  BY DEF TypeOK
<1>2. tree'[p] = x /\ \A q \in Tree : q # p => tree'[q] = tree[q]
  BY <1>1
<1> SUFFICES ASSUME NEW q \in Tree, tree'[q] # "none", NEW a \in Tree, Under(a, q), a # q
             PROVE  tree'[a] = "dir"
  BY DEF Closed, Ancestors
<1>3. CASE q = p
  BY <1>2, <1>3, AboveDir
<1>4. CASE q # p
  <2>1. tree[a] = "dir"
    BY <1>2, <1>4 DEF Closed, Ancestors
  <2> QED
    BY <1>2, <2>1
<1> QED
  BY <1>3, <1>4

\* Below a path under from goes what is below it.
LEMMA DestUnder ==
  ASSUME NEW from \in Path, NEW to \in Path, NEW b \in Path, NEW p \in Path, Under(from, b), Under(b, p)
  PROVE  Under(from, p) /\ Under(Dest(from, to, b), Dest(from, to, p))
<1>1. Under(from, p)
  BY UnderOrder
<1> DEFINE d == Dest(from, to, b)
           e == Dest(from, to, p)
<1>2. DestFacts(from, to, b, d) /\ DestFacts(from, to, p, e)
  BY <1>1, DestNames
<1> HIDE DEF d, e
<1>3. /\ Len(from) \in Nat /\ Len(to) \in Nat /\ Len(b) \in Nat /\ Len(p) \in Nat
      /\ Len(from) <= Len(b) /\ Len(b) <= Len(p)
  BY LenProperties DEF Path, Under
<1>4. /\ d \in Path /\ Len(d) = Len(to) + Len(b) - Len(from) /\ \A i \in 1..Len(to) : d[i] = to[i]
      /\ \A i \in (Len(from) + 1)..Len(b) : d[Len(to) + i - Len(from)] = b[i]
      /\ e \in Path /\ Len(e) = Len(to) + Len(p) - Len(from) /\ \A i \in 1..Len(to) : e[i] = to[i]
      /\ \A i \in (Len(from) + 1)..Len(p) : e[Len(to) + i - Len(from)] = p[i]
  BY <1>2 DEF DestFacts
<1>5. ASSUME NEW i \in 1..Len(d)
      PROVE  d[i] = e[i]
  <2>1. CASE i <= Len(to)
    <3>1. i \in 1..Len(to)
      BY <1>3, <1>4, <2>1
    <3> QED
      BY <1>4, <3>1
  <2>2. CASE i > Len(to)
    <3> DEFINE j == i - Len(to) + Len(from)
    <3>1. j \in (Len(from) + 1)..Len(b) /\ j \in (Len(from) + 1)..Len(p) /\ j \in 1..Len(b) /\ Len(to) + j - Len(from) = i
      BY <1>3, <1>4, <2>2
    <3> HIDE DEF j
    <3>2. b[j] = p[j]
      BY <3>1, UnderNames
    <3>3. d[Len(to) + j - Len(from)] = b[j] /\ e[Len(to) + j - Len(from)] = p[j]
      BY <1>4, <3>1
    <3> QED
      BY <3>1, <3>2, <3>3
  <2> QED
    BY <1>3, <1>4, <2>1, <2>2
<1>6. Len(d) <= Len(e)
  BY <1>3, <1>4
<1>7. Under(d, e)
  BY <1>4, <1>5, <1>6, UnderNames
<1> QED
  BY <1>1, <1>7 DEF d, e

\* What is between "to" and where a path goes is where a path on the way to it goes.
LEMMA DestAbove ==
  ASSUME NEW from \in Path, NEW to \in Path, NEW p \in Path, Under(from, p),
         NEW a \in Path, Under(to, a), Under(a, Dest(from, to, p))
  PROVE  \E b \in Path : Under(from, b) /\ Under(b, p) /\ Dest(from, to, b) = a
<1> DEFINE n == Len(from) + Len(a) - Len(to)
           b == SubSeq(p, 1, n)
<1>1. DestFacts(from, to, p, Dest(from, to, p))
  BY DestNames
<1>2. Dest(from, to, p) \in Path /\ Len(Dest(from, to, p)) = Len(to) + Len(p) - Len(from)
  BY <1>1 DEF DestFacts
<1>3. /\ Len(from) \in Nat /\ Len(to) \in Nat /\ Len(a) \in Nat /\ Len(p) \in Nat
      /\ Len(from) <= Len(p) /\ Len(to) <= Len(a) /\ Len(a) <= Len(Dest(from, to, p))
  BY LenProperties DEF Path, Under
<1>4. n \in 0..Len(p) /\ Len(from) <= n /\ n <= Len(p)
  BY <1>2, <1>3
<1> HIDE DEF n
<1>5. b \in Path /\ Len(b) = n /\ \A i \in 1..n : b[i] = p[i]
  BY <1>4, Firsts
<1> HIDE DEF b
<1>6. Under(b, p)
  BY <1>3, <1>4, <1>5, UnderNames
<1>7. Under(from, b)
  BY <1>3, <1>4, <1>5, <1>6, UnderOrder
<1>8. Under(Dest(from, to, b), Dest(from, to, p))
  BY <1>5, <1>6, <1>7, DestUnder
<1>9. Dest(from, to, b) \in Path /\ Len(Dest(from, to, b)) = Len(a)
  <2>1. DestFacts(from, to, b, Dest(from, to, b))
    BY <1>5, <1>7, DestNames
  <2>2. Dest(from, to, b) \in Path /\ Len(Dest(from, to, b)) = Len(to) + Len(b) - Len(from)
    BY <2>1 DEF DestFacts
  <2> QED
    BY <1>3, <1>5, <2>2 DEF n
<1>10. Under(Dest(from, to, b), a)
  BY <1>2, <1>3, <1>8, <1>9, UnderOrder
<1>11. Dest(from, to, b) = a
  BY <1>3, <1>9, <1>10, UnderEqual
<1> QED
  BY <1>5, <1>6, <1>7, <1>11

\* The directories made above the target keep the tree a tree.
LEMMA ParentsClosed ==
  ASSUME TypeOK, ClientInv, Closed, NEW c \in Clients, MakeParents(c)
  PROVE  Closed'
<1>0. client[c].to \in Tree
  BY DEF MakeParents, ClientInv, Idle
<1>1. CASE tree' = tree
  BY <1>1 DEF Closed, Ancestors
<1>2. CASE \A q \in Tree : tree'[q] = IF q \in Ancestors(client[c].to) \/ (q = client[c].to /\ client[c].kind = "create_dir")
                                      THEN "dir" ELSE tree[q]
  <2> SUFFICES ASSUME NEW q \in Tree, tree'[q] # "none", NEW a \in Tree, Under(a, q), a # q
               PROVE  tree'[a] = "dir"
    BY DEF Closed, Ancestors
  <2>1. CASE q \in Ancestors(client[c].to) \/ q = client[c].to
    <3>1. Under(a, client[c].to) /\ a # client[c].to
      <4>1. a \in Path /\ q \in Path /\ client[c].to \in Path
        BY <1>0, TreePaths
      <4>2. Under(q, client[c].to)
        BY <2>1, <4>1, UnderOrder DEF Ancestors
      <4> QED
        BY <4>1, <4>2, UnderOrder
    <3> QED
      BY <1>2, <3>1 DEF Ancestors
  <2>2. CASE ~(q \in Ancestors(client[c].to) \/ q = client[c].to)
    <3>1. tree[a] = "dir"
      BY <1>2, <2>2 DEF Closed, Ancestors
    <3> QED
      BY <1>2, <3>1
  <2> QED
    BY <2>1, <2>2
<1> QED
  BY <1>1, <1>2, ParentsMoves

\* A rename keeps the tree a tree.
LEMMA RenameClosed ==
  ASSUME TypeOK, Closed, NEW from \in Tree, NEW to \in Tree, Renamed(from, to)
  PROVE  Closed'
<1> DEFINE Gone(q) == Under(from, q) /\ tree[q] # "none"
<1>1. /\ tree[from] # "none" /\ IsDir(Parent(to)) /\ (Under(from, to) => from = to)
      /\ ~(IsFile(from) /\ tree[to] = "dir") /\ (tree[from] = "dir" => from = to \/ Children(to) = {})
  BY DEF Renamed
<1>2. \A s \in Tree : Gone(s) => Dest(from, to, s) \in Tree /\ tree'[Dest(from, to, s)] = tree[s]
  BY DEF Renamed
<1>3. \A q \in Tree : (\A s \in Tree : Gone(s) => Dest(from, to, s) # q)
                      => tree'[q] = IF Gone(q) THEN "none" ELSE tree[q]
  BY DEF Renamed
<1>4. from \in Path /\ to \in Path /\ \A q \in Tree : q \in Path
  BY TreePaths
<1>5. \A q \in Tree : tree[q] \in {"none", "dir"} \cup Contents
  BY DEF TypeOK
<1> SUFFICES ASSUME NEW q \in Tree, tree'[q] # "none", NEW a \in Tree, Under(a, q), a # q
             PROVE  tree'[a] = "dir"
  BY DEF Closed, Ancestors
<1>6. CASE from = to
  <2>1. \A s \in Tree : tree'[s] = tree[s]
    <3> SUFFICES ASSUME NEW s \in Tree
                 PROVE  tree'[s] = tree[s]
      OBVIOUS
    <3>1. CASE Gone(s)
      BY <1>2, <1>4, <1>6, <3>1, DestOnce
    <3>2. CASE ~Gone(s)
      <4>1. \A r \in Tree : Gone(r) => Dest(from, to, r) # s
        BY <1>4, <1>6, <3>2, DestOnce
      <4> QED
        BY <1>3, <3>2, <4>1
    <3> QED
      BY <3>1, <3>2
  <2> QED
    BY <2>1 DEF Closed, Ancestors
<1>7. CASE from # to
  <2>1. ASSUME NEW b \in Tree, Under(b, to), b # to
        PROVE  tree'[b] = "dir"
    <3>1. tree[b] = "dir"
      BY <1>1, <2>1, AboveDir
    <3>2. ~Under(from, b)
      BY <1>1, <1>4, <1>7, <2>1, UnderOrder
    <3>3. ASSUME NEW s \in Tree, Gone(s), Dest(from, to, s) = b
          PROVE  FALSE
      <4>1. Under(to, b)
        BY <1>4, <3>3, DestNames DEF DestFacts
      <4> QED
        BY <1>4, <2>1, <4>1, UnderOrder
    <3> QED
      BY <1>3, <3>1, <3>2, <3>3
  <2>2. ASSUME NEW s \in Tree, Gone(s), q = Dest(from, to, s)
        PROVE  tree'[a] = "dir"
    <3>1. Under(to, q)
      BY <1>4, <2>2, DestNames DEF DestFacts
    <3>2. Under(a, to) \/ Under(to, a)
      BY <1>4, <3>1, UnderOrder
    <3>3. CASE Under(a, to) /\ a # to
      BY <2>1, <3>3
    <3>4. CASE Under(to, a)
      <4>1. PICK b \in Path : Under(from, b) /\ Under(b, s) /\ Dest(from, to, b) = a
        BY <1>4, <2>2, <3>4, DestAbove
      <4>2. b # s
        BY <2>2, <4>1
      <4>3. b \in Tree
        <5>1. Len(from) \in 1..MaxDepth /\ Len(s) \in 1..MaxDepth /\ Len(b) \in Nat /\ MaxDepth \in Nat
          BY TreePaths, LenProperties, FilesAssumption DEF Path
        <5>2. Len(from) <= Len(b) /\ Len(b) <= Len(s)
          BY <4>1 DEF Under
        <5> QED
          BY <5>1, <5>2, TreePaths
      <4>4. tree[b] = "dir"
        BY <2>2, <4>1, <4>2, <4>3 DEF Closed, Ancestors
      <4> QED
        BY <1>2, <4>1, <4>3, <4>4
    <3>5. a = to => Under(to, a)
      BY <1>4, UnderOrder
    <3> QED
      BY <3>2, <3>3, <3>4, <3>5
  <2>3. ASSUME \A s \in Tree : Gone(s) => Dest(from, to, s) # q
        PROVE  tree'[a] = "dir"
    <3>1. tree[q] # "none" /\ ~Under(from, q)
      BY <1>3, <2>3
    <3>2. tree[a] = "dir" /\ ~Under(from, a)
      BY <1>4, <3>1, UnderOrder DEF Closed, Ancestors
    <3>3. ASSUME NEW s \in Tree, Gone(s), Dest(from, to, s) = a
          PROVE  FALSE
      <4>1. Under(to, a)
        BY <1>4, <3>3, DestNames DEF DestFacts
      <4>2. Under(to, q) /\ to # q
        BY <1>4, <4>1, UnderOrder
      <4>3. tree[to] = "dir"
        BY <3>1, <4>2 DEF Closed, Ancestors
      <4>4. tree[from] = "dir"
        BY <1>1, <1>5, <4>3 DEF IsFile
      <4>5. PICK e \in Tree : Parent(e) = to /\ Under(e, q)
        <5>1. Len(q) <= MaxDepth
          BY TreePaths, FilesAssumption
        <5> QED
          BY <1>4, <4>2, <5>1, Towards
      <4>6. tree[e] # "none"
        BY <3>1, <4>5 DEF Closed, Ancestors
      <4> QED
        BY <1>1, <1>7, <4>4, <4>5, <4>6 DEF Children
    <3> QED
      BY <1>3, <3>2, <3>3
  <2> QED
    BY <2>2, <2>3
<1> QED
  BY <1>6, <1>7

\* A copied entry keeps the tree a tree.
LEMMA EntryClosed ==
  ASSUME TypeOK, Closed, NEW c \in Clients, NEW w \in Tree \X Path, Copied(c, w)
  PROVE  Closed'
<1> DEFINE dst == w[2]
<1>1. dst \in Tree /\ w[1] \in Tree /\ tree[w[1]] \in {"dir"} \cup Contents /\ "plain" \in Contents
  BY DEF Copied, TypeOK, Contents, Lines
<1>2. CASE tree[w[1]] = "dir"
  <2>1. \A q \in Tree : tree'[q] = IF q \in Ancestors(dst) \cup {dst} THEN "dir" ELSE tree[q]
    BY <1>1, <1>2 DEF Copied, IsFile, Contents, Lines
  <2> SUFFICES ASSUME NEW q \in Tree, tree'[q] # "none", NEW a \in Tree, Under(a, q), a # q
               PROVE  tree'[a] = "dir"
    BY DEF Closed, Ancestors
  <2>2. CASE q \in Ancestors(dst) \cup {dst}
    <3>1. a \in Path /\ q \in Path /\ dst \in Path
      BY <1>1, TreePaths
    <3>2. Under(q, dst)
      BY <2>2, <3>1, UnderOrder DEF Ancestors
    <3>3. Under(a, dst) /\ a # dst
      BY <3>1, <3>2, UnderOrder
    <3> QED
      BY <2>1, <3>3 DEF Ancestors
  <2>3. CASE q \notin Ancestors(dst) \cup {dst}
    <3>1. tree[a] = "dir"
      BY <2>1, <2>3 DEF Closed, Ancestors
    <3> QED
      BY <2>1, <3>1
  <2> QED
    BY <2>2, <2>3
<1>3. CASE tree[w[1]] # "dir"
  <2> DEFINE x == IF w[1] = dst /\ IsFile(w[1]) THEN "plain" ELSE tree[w[1]]
  <2>1. IsDir(Parent(dst)) /\ tree[dst] # "dir"
    BY <1>1, <1>3 DEF Copied, CanPut, IsFile
  <2>2. x \in {"none", "dir"} \cup Contents
    BY <1>1
  <2>3. tree' = [q \in Tree |-> IF q = dst THEN x ELSE tree[q]]
    BY <1>3 DEF Copied
  <2> HIDE DEF x
  <2>4. tree' = [tree EXCEPT ![dst] = x]
    BY <1>1, <2>3 DEF TypeOK
  <2> HIDE DEF dst
  <2> QED
    BY <1>1, <2>1, <2>2, <2>4, PutClosed
<1> QED
  BY <1>2, <1>3

\* A delete takes all that is below.
LEMMA DeleteClosed ==
  ASSUME TypeOK, Closed, NEW p \in Tree, tree' = [q \in Tree |-> IF Under(p, q) THEN "none" ELSE tree[q]]
  PROVE  Closed'
<1> SUFFICES ASSUME NEW q \in Tree, tree'[q] # "none", NEW a \in Tree, Under(a, q), a # q
             PROVE  tree'[a] = "dir"
  BY DEF Closed, Ancestors
<1>1. ~Under(p, q) /\ tree[q] # "none"
  OBVIOUS
<1>2. p \in Path /\ q \in Path /\ a \in Path
  BY TreePaths
<1>3. ~Under(p, a)
  BY <1>1, <1>2, UnderOrder
<1> QED
  BY <1>1, <1>3 DEF Closed, Ancestors

\* Every step keeps the tree a tree.
LEMMA NextClosed ==
  ASSUME TypeOK, ClientInv, Closed, [Next]_vars
  PROVE  Closed'
<1>1. ASSUME tree' = tree
      PROVE  Closed'
  BY <1>1 DEF Closed, Ancestors
<1>2. CASE UNCHANGED vars
  BY <1>1, <1>2 DEF vars
<1>3. ASSUME NEW c \in Clients, Step(c)
      PROVE  Closed'
  <2>0. ~Idle(c) /\ client[c].from \in Tree /\ client[c].to \in Tree /\ client[c].text \in Contents
    BY <1>3, StepMoves, ClientTyped DEF Moved, ClientInv, AClient
  <2>1. CASE Check(c) \/ CopyEnds(c) \/ SearchEnds(c)
    BY <1>1, <2>1, CheckMoves, EndMoves
  <2>2. CASE SearchFile(c)
    BY <1>1, <2>2, SearchMoves
  <2>3. CASE MakeParents(c)
    BY <2>3, ParentsClosed
  <2>4. CASE WriteOut(c)
    <3>1. CASE tree' = tree
      BY <1>1, <3>1
    <3>2. CASE CanPut(client[c].to) /\ tree' = [tree EXCEPT ![client[c].to] = client[c].text]
      BY <2>0, <3>2, PutClosed DEF CanPut
    <3> QED
      BY <2>4, <3>1, <3>2, WriteMoves
  <2>5. CASE Rename(c)
    BY <1>1, <2>0, <2>5, RenameMoves, RenameClosed
  <2>6. CASE CopyEntry(c)
    <3>1. client[c].work \subseteq Tree \X Path
      BY <2>0, <2>6 DEF CopyEntry, At, ClientInv
    <3> QED
      BY <1>1, <2>6, <3>1, EntryMoves, EntryClosed
  <2>7. CASE Delete(c)
    BY <1>1, <2>0, <2>7, DeleteMoves, DeleteClosed
  <2> QED
    BY <1>3, <2>1, <2>2, <2>3, <2>4, <2>5, <2>6, <2>7 DEF Step
<1>4. ASSUME NEW c \in Clients, NEW kind, NEW from, NEW to, NEW text, Begin(c, kind, from, to, text)
      PROVE  Closed'
  <2>1. tree' = tree
    BY <1>4, Zenon DEF Begin
  <2> QED
    BY <1>1, <2>1
<1> QED
  BY <1>2, <1>3, <1>4 DEF Next
------------------------------------------------------------------------------
(* Commands that nothing disturbs. *)

\* A command that runs alone, or in the agent, moves by its own steps only.
LEMMA Undisturbed ==
  ASSUME TypeOK, ClientInv, [Next]_vars, NEW c \in Clients, ~Idle(c)', client'[c].alone \/ env' = "Wsl"
  PROVE  \/ UNCHANGED vars
         \/ Step(c) /\ ~Idle(c) /\ UNCHANGED env
         \/ client'[c].step = "check"
<1>1. ASSUME NEW d \in Clients, Step(d), d # c
      PROVE  FALSE
  <2>1. client'[c] = client[c] /\ UNCHANGED env /\ ~Idle(d)
    BY <1>1, StepMoves DEF Moved
  <2>2. ~Idle(c)
    BY <2>1 DEF Idle
  <2> QED
    BY <1>1, <2>1, <2>2 DEF ClientInv
<1>2. ASSUME NEW d \in Clients, NEW kind \in Kinds, NEW from, NEW to,
             NEW text \in (IF kind \in {"write", "create"} THEN Contents ELSE {"plain"}), Begin(d, kind, from, to, text)
      PROVE  client'[c].step = "check"
  <2>1. text \in Contents
    BY DEF Contents, Lines
  <2>2. Begun(d, kind, from, to)
    BY <1>2, <2>1, BeginTyped
  <2>3. CASE c = d
    BY <2>2, <2>3 DEF Begun
  <2>4. CASE c # d
    <3>1. client'[c].step = client[c].step /\ (client'[c].alone => Idle(c)) /\ (env = "Wsl" => Idle(c)) /\ UNCHANGED env
      BY <2>2, <2>4 DEF Begun
    <3> QED
      BY <3>1 DEF Idle
  <2> QED
    BY <2>3, <2>4
<1>3. ASSUME NEW d \in Clients, Step(d)
      PROVE  Step(c) /\ ~Idle(c) /\ UNCHANGED env
  BY <1>1, <1>3, StepMoves DEF Moved
<1> QED
  BY <1>2, <1>3 DEF Next

\* A search makes no directories.
ParentsInv == \A c \in Clients : client[c].step = "parents" => client[c].kind # "search"

\* Only a look leads to the making of directories, and that of a search does not.
LEMMA ParentsStep ==
  ASSUME TypeOK, ClientInv, ParentsInv, [Next]_vars
  PROVE  ParentsInv'
<1> SUFFICES ASSUME NEW c \in Clients, client'[c].step = "parents"
             PROVE  client'[c].kind # "search"
  BY DEF ParentsInv
<1>1. CASE client'[c].step = client[c].step /\ client'[c].kind = client[c].kind
  BY <1>1 DEF ParentsInv
<1>2. CASE UNCHANGED vars
  BY <1>1, <1>2 DEF vars
<1>3. CASE Step(c)
  <2>0. client[c] \in AClient
    BY ClientTyped
  <2>1. CASE Check(c)
    <3>1. ASSUME client'[c] = [client[c] EXCEPT !.step = "parents"], client[c].kind # "search"
          PROVE  client'[c].kind # "search"
      BY <2>0, <3>1 DEF AClient
    <3>2. ASSUME NEW ps, client'[c] = [client[c] EXCEPT !.step = "act", !.work = ps]
          PROVE  FALSE
      BY <2>0, <3>2 DEF AClient
    <3> QED
      BY <2>1, <3>1, <3>2, CheckMoves
  <2>2. CASE MakeParents(c)
    <3>1. ASSUME NEW ps, client'[c] = [client[c] EXCEPT !.step = "act", !.work = ps]
          PROVE  FALSE
      BY <2>0, <3>1 DEF AClient
    <3> QED
      BY <2>2, <3>1, ParentsMoves
  <2>3. CASE WriteOut(c) \/ Rename(c) \/ Delete(c) \/ CopyEnds(c) \/ SearchEnds(c)
    BY <2>3, WriteMoves, RenameMoves, DeleteMoves, EndMoves
  <2>4. CASE CopyEntry(c)
    <3>1. ASSUME NEW w \in client[c].work, Copied(c, w)
          PROVE  client'[c].step = client[c].step
      <4>1. \E ps : client'[c] = [client[c] EXCEPT !.work = ps]
        BY <3>1 DEF Copied
      <4> QED
        BY <2>0, <4>1 DEF AClient
    <3> QED
      BY <2>4, <3>1, EntryMoves DEF At
  <2>5. CASE SearchFile(c)
    BY <2>5, SearchMoves
  <2> QED
    BY <1>3, <2>1, <2>2, <2>3, <2>4, <2>5 DEF Step
<1>4. ASSUME NEW d \in Clients, Step(d), d # c
      PROVE  client'[c].kind # "search"
  BY <1>1, <1>4, StepMoves DEF Moved
<1>5. ASSUME NEW d \in Clients, NEW kind \in Kinds, NEW from, NEW to,
             NEW text \in (IF kind \in {"write", "create"} THEN Contents ELSE {"plain"}), Begin(d, kind, from, to, text)
      PROVE  client'[c].kind # "search"
  <2>1. text \in Contents
    BY DEF Contents, Lines
  <2>2. Begun(d, kind, from, to)
    BY <1>5, <2>1, BeginTyped
  <2> QED
    BY <1>1, <2>2 DEF Begun
<1> QED
  BY <1>2, <1>3, <1>4, <1>5 DEF Next

\* A search that runs alone and has not been cut off has every file with a match among its hits
\* or before it.
SearchInv ==
  \A c \in Clients : At(c, {"search"}, "act") /\ client[c].alone /\ ~client[c].truncated
    => \A p \in Tree : Matches(p) > 0 => p \in client[c].hits \cup client[c].work

\* A search loses no file with a match.
LEMMA SearchStep ==
  ASSUME TypeOK, ClientInv, ParentsInv, SearchInv, [Next]_vars
  PROVE  SearchInv'
<1> SUFFICES ASSUME NEW c \in Clients, client'[c].kind = "search", client'[c].step = "act",
                    client'[c].alone, ~client'[c].truncated,
                    NEW p \in Tree, Matches(p)' > 0
             PROVE  p \in client'[c].hits \cup client'[c].work
  BY DEF SearchInv, At
<1>0. tree' = tree => Matches(p)' = Matches(p)
  BY DEF Matches, Searched, IsFile
<1>1. CASE UNCHANGED vars
  BY <1>0, <1>1 DEF vars, SearchInv, At
<1>2. CASE Step(c) /\ ~Idle(c) /\ UNCHANGED env
  <2>0. client[c] \in AClient
    BY ClientTyped
  <2>1. client'[c].kind = client[c].kind /\ client'[c].alone = client[c].alone
    BY <1>2, OwnMove
  <2>2. client[c].kind = "search" /\ client[c].alone
    BY <2>1
  <2>3. CASE Check(c)
    <3> DEFINE files == {q \in Tree : IsFile(q)} \ Hidden
    <3>1. tree' = tree
      BY <2>3, CheckMoves
    <3>2. client'[c] = [client[c] EXCEPT !.step = "act", !.work = files]
      <4>1. ASSUME client'[c] = [client[c] EXCEPT !.step = "parents"]
            PROVE  FALSE
        BY <2>0, <4>1 DEF AClient
      <4> QED
        BY <2>2, <2>3, <4>1, CheckMoves
    <3>3. p \in files
      BY <1>0, <3>1 DEF Matches, Searched
    <3> HIDE DEF files
    <3>4. client'[c].work = files
      BY <2>0, <3>2 DEF AClient
    <3> QED
      BY <3>3, <3>4
  <2>4. CASE MakeParents(c)
    BY <2>2, <2>4 DEF MakeParents, ParentsInv
  <2>40. CASE WriteOut(c) \/ Rename(c) \/ CopyEntry(c) \/ CopyEnds(c) \/ Delete(c)
    BY <2>2, <2>40 DEF WriteOut, Rename, CopyEntry, CopyEnds, Delete, At
  <2>5. CASE SearchFile(c)
    BY <1>0, <2>2, <2>5, SearchMoves DEF SearchInv, At
  <2>6. CASE SearchEnds(c)
    BY <2>6, EndMoves
  <2> QED
    BY <1>2, <2>3, <2>4, <2>40, <2>5, <2>6 DEF Step
<1>3. ~Idle(c)'
  BY DEF Idle
<1> QED
  BY <1>1, <1>2, <1>3, Undisturbed
------------------------------------------------------------------------------
(* Copies. *)

\* A copy to a path below its own source always has a path left that goes below itself.
Descends(c) ==
  Under(client[c].from, client[c].to) /\ client[c].from # client[c].to
    => \E w \in client[c].work : Under(w[1], w[2]) /\ w[1] # w[2]

\* A copy between paths that are not above one another takes each path to where it goes; what it
\* has not taken yet is at or below a path it has left.
Covers(c) ==
  ~Under(client[c].from, client[c].to) /\ ~Under(client[c].to, client[c].from) =>
    /\ \A w \in client[c].work : Under(client[c].from, w[1]) /\ w[2] = Dest(client[c].from, client[c].to, w[1])
    /\ \A p \in Tree : Under(client[c].from, p) /\ tree[p] # "none" =>
         \/ /\ Dest(client[c].from, client[c].to, p) \in Tree
            /\ tree[Dest(client[c].from, client[c].to, p)] = tree[p]
         \/ \E w \in client[c].work : Under(w[1], p)

CopyInv == \A c \in Clients : At(c, {"copy"}, "act") /\ client[c].alone => Descends(c) /\ Covers(c)

\* A copy below its own source meets the next directory on the way down.
LEMMA CopyDescends ==
  ASSUME TypeOK, ClientInv, Closed, NEW c \in Clients, ~Idle(c), client[c].kind = "copy",
         NEW w \in client[c].work, Copied(c, w), Descends(c)
  PROVE  Descends(c)'
<1>0. client[c] \in AClient /\ client[c].work \subseteq Tree \X Path
  BY ClientTyped DEF ClientInv
<1>1. client'[c].from = client[c].from /\ client'[c].to = client[c].to
  <2>1. \E ps : client'[c] = [client[c] EXCEPT !.work = ps]
    BY DEF Copied
  <2> QED
    BY <1>0, <2>1 DEF AClient
<1>2. client'[c].work = (client[c].work \ {w}) \cup
           IF tree[w[1]] # "dir" THEN {}
           ELSE {<<q, Append(w[2], q[Len(q)])>> : q \in {e \in Tree : Parent(e) = w[1] /\ tree'[e] # "none"}}
  BY EntriesTyped
<1> SUFFICES ASSUME NEW v \in client[c].work, Under(v[1], v[2]), v[1] # v[2]
             PROVE  \E u \in client'[c].work : Under(u[1], u[2]) /\ u[1] # u[2]
  BY <1>1 DEF Descends
<1>3. CASE v # w
  BY <1>2, <1>3
<1>4. CASE v = w
  <2> DEFINE src == w[1]
             dst == w[2]
  <2>1. /\ src \in Tree /\ src \in Path /\ dst \in Tree /\ dst \in Path
        /\ tree[src] # "none" /\ Under(src, dst) /\ src # dst
    BY <1>0, <1>4, TreePaths DEF Copied
  <2>2. tree[src] = "dir"
    <3>1. ~IsFile(src) => tree[src] = "dir"
      BY <2>1 DEF TypeOK, IsFile
    <3>2. IsFile(src) => IsDir(Parent(dst))
      BY DEF Copied, CanPut
    <3> QED
      BY <2>1, <3>1, <3>2, AboveDir
  <2>4. tree'[dst] = "dir" /\ \A q \in Ancestors(dst) : q # dst => tree'[q] = "dir"
    BY <2>1, <2>2 DEF Copied, Ancestors, IsFile, Contents, Lines
  <2>5. PICK e \in Tree : Parent(e) = src /\ Under(e, dst)
    <3>1. Len(dst) <= MaxDepth
      BY <2>1, TreePaths, FilesAssumption
    <3> QED
      BY <2>1, <3>1, Towards
  <2>6. tree'[e] # "none"
    <3>1. CASE e = dst
      BY <2>4, <3>1
    <3>2. CASE e # dst
      BY <2>4, <2>5, <3>2 DEF Ancestors
    <3> QED
      BY <3>1, <3>2
  <2> DEFINE d == Append(dst, e[Len(e)])
  <2>7. <<e, d>> \in client'[c].work
    BY <1>2, <2>2, <2>5, <2>6
  <2>8. Under(e, d) /\ e # d
    <3>1. /\ e \in Path /\ Len(e) \in Nat /\ Len(e) > 0 /\ Len(dst) \in Nat
      BY TreePaths, <2>1
    <3>2. e[Len(e)] \in Names
      BY <3>1, ElementOfSeq DEF Path
    <3>3. /\ d \in Path /\ Len(d) = Len(dst) + 1
          /\ \A i \in 1..Len(dst) : d[i] = dst[i]
      BY <2>1, <3>2, AppendProperties DEF Path
    <3> HIDE DEF d
    <3>4. Under(dst, d)
      BY <2>1, <3>1, <3>3, UnderNames
    <3>5. Under(e, d)
      BY <2>1, <2>5, <3>1, <3>3, <3>4, UnderOrder
    <3>6. Len(e) <= Len(dst)
      BY <2>5 DEF Under
    <3> QED
      BY <3>1, <3>3, <3>5, <3>6
  <2> HIDE DEF d
  <2> QED
    BY <2>7, <2>8
<1> QED
  BY <1>3, <1>4

\* A copied entry is at its place, and a directory leaves its entries.
LEMMA CopyCovers ==
  ASSUME TypeOK, ClientInv, Closed, NEW c \in Clients, ~Idle(c), client[c].kind = "copy",
         NEW w \in client[c].work, Copied(c, w), Covers(c)
  PROVE  Covers(c)'
<1> DEFINE from == client[c].from
           to == client[c].to
           src == w[1]
           dst == w[2]
<1>0. client[c] \in AClient /\ client[c].work \subseteq Tree \X Path /\ from \in Tree /\ to \in Tree
  BY ClientTyped DEF ClientInv
<1>1. client'[c].from = from /\ client'[c].to = to
  <2>1. \E ps : client'[c] = [client[c] EXCEPT !.work = ps]
    BY DEF Copied
  <2> QED
    BY <1>0, <2>1 DEF AClient
<1>2. client'[c].work = (client[c].work \ {w}) \cup
           IF tree[src] # "dir" THEN {}
           ELSE {<<q, Append(dst, q[Len(q)])>> : q \in {e \in Tree : Parent(e) = src /\ tree'[e] # "none"}}
  BY EntriesTyped
<1> SUFFICES ASSUME ~Under(from, to), ~Under(to, from)
             PROVE  /\ \A u \in client'[c].work : Under(from, u[1]) /\ u[2] = Dest(from, to, u[1])
                    /\ \A p \in Tree : Under(from, p) /\ tree'[p] # "none" =>
                         \/ Dest(from, to, p) \in Tree /\ tree'[Dest(from, to, p)] = tree'[p]
                         \/ \E u \in client'[c].work : Under(u[1], p)
  BY <1>1 DEF Covers
<1>3. /\ \A u \in client[c].work : Under(from, u[1]) /\ u[2] = Dest(from, to, u[1])
      /\ \A p \in Tree : Under(from, p) /\ tree[p] # "none" =>
           \/ Dest(from, to, p) \in Tree /\ tree[Dest(from, to, p)] = tree[p]
           \/ \E u \in client[c].work : Under(u[1], p)
  BY DEF Covers
<1>4. /\ src \in Tree /\ dst \in Tree /\ tree[src] # "none" /\ Under(from, src) /\ dst = Dest(from, to, src)
  BY <1>0, <1>3 DEF Copied
<1>5. from \in Path /\ to \in Path /\ \A p \in Tree : p \in Path
  BY <1>0, TreePaths
<1>6. \A p \in Path : Under(from, p) => ~Under(to, p)
  BY <1>5, UnderOrder
<1>7. Under(to, dst) /\ ~Under(from, dst)
  <2>1. Under(to, dst)
    BY <1>4, <1>5, DestNames DEF DestFacts
  <2> QED
    BY <1>4, <1>5, <1>6, <2>1
<1>8. /\ tree'[dst] = tree[src]
      /\ \A p \in Tree : p # dst /\ (tree[p] # "none" \/ Under(from, p)) => tree'[p] = tree[p]
  <2>1. src # dst
    BY <1>4, <1>7
  <2>2. \A p \in Tree : Under(from, p) => p \notin Ancestors(dst)
    BY <1>4, <1>5, <1>7, UnderOrder DEF Ancestors
  <2> QED
    BY <1>4, <2>1, <2>2, CopiedKeeps DEF Copied
<1>9. ASSUME NEW u \in client'[c].work
      PROVE  Under(from, u[1]) /\ u[2] = Dest(from, to, u[1])
  <2>1. CASE u \in client[c].work
    BY <1>3, <2>1
  <2>2. CASE u \notin client[c].work
    <3>1. PICK q \in Tree : Parent(q) = src /\ u = <<q, Append(dst, q[Len(q)])>>
      BY <1>2, <2>2
    <3> QED
      BY <1>4, <1>5, <3>1, DestEntry
  <2> QED
    BY <2>1, <2>2
<1>10. ASSUME NEW p \in Tree, Under(from, p), tree'[p] # "none"
       PROVE  \/ Dest(from, to, p) \in Tree /\ tree'[Dest(from, to, p)] = tree'[p]
              \/ \E u \in client'[c].work : Under(u[1], p)
  <2>1. tree'[p] = tree[p] /\ tree[p] # "none" /\ p # dst
    BY <1>7, <1>8, <1>10
  <2>2. CASE Dest(from, to, p) \in Tree /\ tree[Dest(from, to, p)] = tree[p]
    <3>1. CASE Dest(from, to, p) = dst
      <4>1. p = src
        BY <1>4, <1>5, <1>10, <3>1, DestOnce
      <4> QED
        BY <1>4, <1>8, <2>1, <4>1
    <3>2. CASE Dest(from, to, p) # dst
      BY <1>8, <2>1, <2>2, <3>2
    <3> QED
      BY <3>1, <3>2
  <2>3. ASSUME NEW u \in client[c].work, Under(u[1], p), u # w
        PROVE  \E v \in client'[c].work : Under(v[1], p)
    BY <1>2, <2>3
  <2>4. CASE p = src
    BY <1>4, <1>8, <2>1, <2>4
  <2>5. CASE Under(src, p) /\ p # src
    <3>1. tree[src] = "dir"
      BY <1>4, <2>1, <2>5 DEF Closed, Ancestors
    <3>2. PICK e \in Tree : Parent(e) = src /\ Under(e, p)
      <4>1. Len(p) <= MaxDepth
        BY TreePaths, FilesAssumption
      <4> QED
        BY <1>4, <1>5, <2>5, <4>1, Towards
    <3>3. tree[e] # "none"
      BY <2>1, <3>2 DEF Closed, Ancestors
    <3>4. Under(from, e)
      BY <1>4, <1>5, <3>2, DestEntry
    <3>5. tree'[e] # "none"
      BY <1>7, <1>8, <3>3, <3>4
    <3>6. <<e, Append(dst, e[Len(e)])>> \in client'[c].work
      BY <1>2, <3>1, <3>2, <3>5
    <3> QED
      BY <3>2, <3>6
  <2> QED
    BY <1>3, <1>10, <2>1, <2>2, <2>3, <2>4, <2>5
<1> QED
  BY <1>9, <1>10

\* A copy begins with its source and its target.
LEMMA CopyBegins ==
  ASSUME TypeOK, NEW c \in Clients, NEW from \in Tree, NEW to \in Tree,
         client'[c].from = from, client'[c].to = to, client'[c].work = {<<from, to>>}
  PROVE  Descends(c)' /\ Covers(c)'
<1>1. from \in Path /\ to \in Path
  BY TreePaths
<1>2. Descends(c)'
  BY DEF Descends
<1>3. Dest(from, to, from) = to /\ Under(from, from)
  BY <1>1, DestOnce, UnderOrder
<1>4. Covers(c)'
  BY <1>3 DEF Covers
<1> QED
  BY <1>2, <1>4

\* A copy that runs alone loses nothing.
LEMMA CopyStep ==
  ASSUME TypeOK, ClientInv, Closed, CopyInv, [Next]_vars
  PROVE  CopyInv'
<1> SUFFICES ASSUME NEW c \in Clients, client'[c].kind = "copy", client'[c].step = "act", client'[c].alone
             PROVE  Descends(c)' /\ Covers(c)'
  BY DEF CopyInv, At
<1>1. CASE UNCHANGED vars
  BY <1>1 DEF vars, CopyInv, At, Descends, Covers
<1>2. CASE Step(c) /\ ~Idle(c) /\ UNCHANGED env
  <2>0. client[c] \in AClient
    BY ClientTyped
  <2>1. client'[c].kind = client[c].kind /\ client'[c].alone = client[c].alone
        /\ client'[c].from = client[c].from /\ client'[c].to = client[c].to
    BY <1>2, OwnMove
  <2>2. client[c].kind = "copy" /\ client[c].alone /\ client[c].from \in Tree /\ client[c].to \in Tree
    BY <1>2, <2>1 DEF ClientInv
  <2>3. CASE Check(c)
    <3>1. ASSUME client'[c] = [client[c] EXCEPT !.step = "parents"]
          PROVE  FALSE
      BY <2>0, <3>1 DEF AClient
    <3> QED
      BY <2>2, <2>3, <3>1, CheckMoves
  <2>4. CASE MakeParents(c)
    <3> DEFINE one == IF client[c].kind = "copy" THEN {<<client[c].from, client[c].to>>} ELSE {}
    <3>1. client'[c] = [client[c] EXCEPT !.step = "act", !.work = one]
      BY <2>4, ParentsMoves
    <3>2. one = {<<client[c].from, client[c].to>>}
      BY <2>2
    <3> HIDE DEF one
    <3>3. client'[c].work = one
      BY <2>0, <3>1 DEF AClient
    <3> QED
      BY <2>1, <2>2, <3>2, <3>3, CopyBegins
  <2>5. CASE CopyEntry(c)
    <3>1. PICK w \in client[c].work : Copied(c, w)
      BY <2>5, EntryMoves
    <3>2. Descends(c) /\ Covers(c)
      BY <2>2, <2>5 DEF CopyEntry, CopyInv, At
    <3> QED
      BY <1>2, <2>2, <3>1, <3>2, CopyDescends, CopyCovers
  <2>6. CASE CopyEnds(c) \/ SearchEnds(c)
    BY <2>6, EndMoves
  <2>7. CASE WriteOut(c) \/ Rename(c) \/ Delete(c) \/ SearchFile(c)
    BY <2>2, <2>7 DEF WriteOut, Rename, Delete, SearchFile, At
  <2> QED
    BY <1>2, <2>3, <2>4, <2>5, <2>6, <2>7 DEF Step
<1>3. ~Idle(c)'
  BY DEF Idle
<1> QED
  BY <1>1, <1>2, <1>3, Undisturbed

------------------------------------------------------------------------------
(* The theorems. *)

FilesInv == TypeOK /\ ClientInv /\ Closed /\ ParentsInv /\ SearchInv /\ CopyInv

\* Nothing runs and there is nothing in the beginning.
LEMMA InitFiles == Init => FilesInv
<1> SUFFICES ASSUME Init
             PROVE  FilesInv
  OBVIOUS
<1>1. Free \in AClient
  BY FilesAssumption DEF Free, AClient, Contents, Lines
<1>2. TypeOK
  BY <1>1, FilesAssumption DEF Init, TypeOK, AClient
<1>3. \A c \in Clients : client[c].step = "none"
  BY DEF Init, Free
<1>4. ClientInv /\ ParentsInv /\ SearchInv /\ CopyInv
  BY <1>3 DEF ClientInv, ParentsInv, SearchInv, CopyInv, At, Idle
<1>5. Closed
  BY DEF Init, Closed
<1> QED
  BY <1>2, <1>4, <1>5 DEF FilesInv

\* Every step keeps the invariant.
LEMMA NextFiles == FilesInv /\ [Next]_vars => FilesInv'
BY NextTyped, ClientStep, NextClosed, ParentsStep, SearchStep, CopyStep DEF FilesInv

\* The invariant of the file operations: the types, what runs alone, the tree, and how far searches
\* and copies are.
THEOREM FilesInvariant == Spec => []FilesInv
BY InitFiles, NextFiles, PTL DEF Spec

\* The state of the file operations has its type, for any interleaving of commands.
THEOREM FilesTyped == Spec => []TypeOK
<1>1. FilesInv => TypeOK
  BY DEF FilesInv
<1> QED
  BY <1>1, FilesInvariant, PTL

\* Whatever the commands do between each other's system calls, everything there is lies in
\* directories, all the way up to the root.
THEOREM TreeStaysATree == Spec => []Closed
<1>1. FilesInv => Closed
  BY DEF FilesInv
<1> QED
  BY <1>1, FilesInvariant, PTL

\* A client answers by a step of its own, the last of its command.
LEMMA Answers ==
  ASSUME FilesInv, [Next]_vars, NEW c \in Clients, client[c].step = "act", client'[c].step = "ok"
  PROVE  Step(c)
<1>1. CASE UNCHANGED vars
  BY <1>1 DEF vars
<1>2. ASSUME NEW d \in Clients, Step(d), d # c
      PROVE  FALSE
  BY <1>2, StepMoves DEF Moved, FilesInv
<1>3. ASSUME NEW d \in Clients, NEW kind \in Kinds, NEW from, NEW to,
             NEW text \in (IF kind \in {"write", "create"} THEN Contents ELSE {"plain"}), Begin(d, kind, from, to, text)
      PROVE  FALSE
  <2>1. text \in Contents
    BY DEF Contents, Lines
  <2>2. Begun(d, kind, from, to)
    BY <1>3, <2>1, BeginTyped DEF FilesInv
  <2> QED
    BY <2>2 DEF Begun
<1> QED
  BY <1>1, <1>2, <1>3 DEF Next

\* A search that nothing disturbed and that does not say it was cut off lists every file with a
\* match that it looks into (search_content).
THEOREM SearchesAreComplete == Spec => UncutSearchIsComplete
<1>1. ASSUME FilesInv, [Next]_vars, NEW c \in Clients, At(c, {"search"}, "act"), client'[c].step = "ok",
             ~client[c].truncated, client[c].alone, NEW p \in Tree, Matches(p) > 0
      PROVE  p \in client[c].hits
  <2>1. Step(c)
    BY <1>1, Answers DEF At
  <2>2. client[c].work = {}
    <3>1. CASE SearchFile(c)
      BY <1>1, <3>1, SearchMoves DEF FilesInv
    <3>2. CASE SearchEnds(c)
      BY <1>1, <3>2 DEF SearchEnds
    <3>3. CASE Check(c) \/ MakeParents(c)
      BY <1>1, <3>3 DEF Check, MakeParents, At
    <3>4. CASE WriteOut(c) \/ Rename(c) \/ CopyEntry(c) \/ CopyEnds(c) \/ Delete(c)
      BY <1>1, <3>4 DEF WriteOut, Rename, CopyEntry, CopyEnds, Delete, At
    <3> QED
      BY <2>1, <3>1, <3>2, <3>3, <3>4 DEF Step
  <2> QED
    BY <1>1, <2>2 DEF FilesInv, SearchInv
<1>2. FilesInv /\ [Next]_vars =>
        [\A c \in Clients :
          At(c, {"search"}, "act") /\ client'[c].step = "ok" /\ ~client[c].truncated /\ client[c].alone
              => \A p \in Tree : Matches(p) > 0 => p \in client[c].hits]_vars
  BY <1>1
<1> QED
  BY <1>2, FilesInvariant, PTL DEF Spec, UncutSearchIsComplete

\* A copy that nothing disturbed and that says it succeeded has left, at its target, all there is at
\* or below its source (copy_dir_recursive).
THEOREM CopiesAreComplete == Spec => CopyIsComplete
<1>1. ASSUME FilesInv, [Next]_vars, NEW c \in Clients, At(c, {"copy"}, "act"), client'[c].step = "ok",
             client[c].alone, ~Under(client[c].to, client[c].from),
             NEW p \in Tree, Under(client[c].from, p), tree[p] # "none"
      PROVE  \E q \in Tree : /\ q = client[c].to \o SubSeq(p, Len(client[c].from) + 1, Len(p))
                             /\ tree[q] = tree[p]
  <2>1. Step(c)
    BY <1>1, Answers DEF At
  <2>2. client[c].work = {}
    <3>1. CASE CopyEntry(c)
      <4>1. ASSUME NEW w \in client[c].work, Copied(c, w)
            PROVE  FALSE
        <5>1. \E ps : client'[c] = [client[c] EXCEPT !.work = ps]
          BY <4>1 DEF Copied
        <5>2. client[c] \in AClient
          BY <1>1, ClientTyped DEF FilesInv
        <5>3. client'[c].step = client[c].step
          BY <5>1, <5>2 DEF AClient
        <5> QED
          BY <1>1, <5>3 DEF At
      <4> QED
        BY <1>1, <3>1, <4>1, EntryMoves DEF FilesInv
    <3>2. CASE CopyEnds(c)
      BY <3>2 DEF CopyEnds
    <3>3. CASE Check(c) \/ MakeParents(c)
      BY <1>1, <3>3 DEF Check, MakeParents, At
    <3>4. CASE WriteOut(c) \/ Rename(c) \/ SearchFile(c) \/ SearchEnds(c) \/ Delete(c)
      BY <1>1, <3>4 DEF WriteOut, Rename, SearchFile, SearchEnds, Delete, At
    <3> QED
      BY <2>1, <3>1, <3>2, <3>3, <3>4 DEF Step
  <2>3. Descends(c) /\ Covers(c)
    BY <1>1 DEF FilesInv, CopyInv
  <2>4. client[c].from \in Tree /\ client[c].to \in Tree
    BY <1>1 DEF FilesInv, ClientInv, At, Idle
  <2>5. Under(client[c].from, client[c].from)
    BY <2>4, TreePaths, UnderOrder
  <2>6. ~Under(client[c].from, client[c].to)
    BY <1>1, <2>2, <2>3, <2>5 DEF Descends
  <2> QED
    BY <1>1, <2>2, <2>3, <2>6 DEF Covers, Dest
<1>2. FilesInv /\ [Next]_vars =>
        [\A c \in Clients :
          At(c, {"copy"}, "act") /\ client'[c].step = "ok" /\ client[c].alone
              /\ ~Under(client[c].to, client[c].from)
          => \A p \in Tree : Under(client[c].from, p) /\ tree[p] # "none"
                => \E q \in Tree : /\ q = client[c].to \o SubSeq(p, Len(client[c].from) + 1, Len(p))
                                   /\ tree[q] = tree[p]]_vars
  BY <1>1
<1> QED
  BY <1>2, FilesInvariant, PTL DEF Spec, CopyIsComplete
=============================================================================
