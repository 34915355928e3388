--------------------------- MODULE SymbolIndexProof ---------------------------
(***************************************************************************)
(* Proofs about the symbol index and its watchers, for any worktrees, files, *)
(* contents, tasks and watchers.                                             *)
(***************************************************************************)
EXTENDS SymbolIndex, TLAPS

\* A watcher that lives has a root, a dropped one has nothing to tell, and "sub" is watched
\* while it exists.
WatchInv ==
  \A w \in Watchers :
    /\ watcher[w].live => watcher[w].root # None
    /\ ~watcher[w].live => watcher[w].pending = {}
    /\ watcher[w].live /\ "sub" \in watcher[w].os => watcher[w].root \in subdir

\* A task has a root while it runs and nothing when it does not; it stores under its root, is
\* at a step and passed only with a file in hand, and came after tasks that hold the same file.
TaskOK(t) ==
  /\ task[t].kind = None => task[t] = NoTask
  /\ task[t].kind # None => task[t].root # None
  /\ task[t].db = task[t].root
  /\ task[t].hand = None <=> task[t].step = "next"
  /\ task[t].hand = None => ~task[t].passed
  /\ \A u \in task[t].older : task[u].hand # None /\ task[u].hand = task[t].hand /\ task[u].root = task[t].root
TaskInv == \A t \in Tasks : TaskOK(t)

\* A handle has the index of its own root open, or none.
OpenInv == \A r \in Roots : open[Handle(r)] \in {None, r}

\* A change to p is still on its way: a watcher has it to tell, or a batch has it to do.
Pending(r, p) == \E w \in Watchers : watcher[w].live /\ watcher[w].root = r /\ p \in watcher[w].pending
Queued(r, p) == \E t \in Tasks : task[t].kind = "batch" /\ task[t].root = r /\ p \in task[t].todo
Excused(r, p) == Pending(r, p) \/ Queued(r, p) \/ fs[r][p].c = Huge \/ last[r][p].twice

\* No mtime, of the file, its row or what a task has read, is later than the file's last write.
TimeInv(r, p) ==
  /\ last[r][p].at <= now
  /\ fs[r][p].m <= last[r][p].at
  /\ db[r][p].m <= last[r][p].at
  /\ \A t \in Holders(r, p) : task[t].seen.m <= last[r][p].at

\* With one write in its second, a row or a reading with the mtime of the file has its content.
Sound(x, r, p) == x # Absent /\ fs[r][p] # Absent /\ x.m = fs[r][p].m /\ ~last[r][p].twice => x = fs[r][p]
SoundInv(r, p) ==
  /\ Sound(db[r][p], r, p)
  /\ \A t \in Holders(r, p) : task[t].step # "opened" => Sound(task[t].seen, r, p)

\* The tasks that hold a file came to it one after the other, ...
OrderInv(r, p) ==
  \A t \in Holders(r, p) :
    /\ task[t].older \subseteq Holders(r, p) \ {t}
    /\ \A u \in Holders(r, p) :
         /\ t = u \/ t \in task[u].older \/ u \in task[t].older
         /\ u \in task[t].older => /\ t \notin task[u].older
                                   /\ task[u].older \subseteq task[t].older
\* ... and who is passed is passed with all that came before.
PassedInv(r, p) ==
  \A t, u \in Holders(r, p) : u \in task[t].older /\ task[t].passed => task[u].passed

\* What a task has in hand is the file as it is now, as far as the task has looked.
Current(t, r, p) ==
  IF task[t].step = "opened" THEN fs[r][p] # Absent /\ task[t].seen.m = fs[r][p].m
                             ELSE task[t].seen = fs[r][p]
Newest(t, r, p) == Holders(r, p) \subseteq task[t].older \cup {t}

\* Once no word of its last change is on its way, the last task that came to the file has it in
\* hand as it is now, and once all that hold it are passed, its row is, unless one that was
\* passed has stored since.
WordInv(r, p) ==
  noticed[r][p] /\ ~Excused(r, p) =>
    /\ \A t \in Holders(r, p) : Newest(t, r, p) /\ ~task[t].passed => Current(t, r, p)
    /\ (\A t \in Holders(r, p) : task[t].passed) /\ ~overtaken[r][p] => db[r][p] = fs[r][p]

FileInv(r, p) == TimeInv(r, p) /\ SoundInv(r, p) /\ OrderInv(r, p) /\ PassedInv(r, p) /\ WordInv(r, p)

IndexInv ==
  TypeOK /\ WatchInv /\ TaskInv /\ OpenInv /\ \A r \in Roots, p \in Paths : FileInv(r, p)

\* Each root has a key of its own: a worktree's id, and not the one id the primary checkouts
\* of all projects share.
OwnKeys == \A r, s \in Roots : KeyOf[r] \in {KeyOf[s], s} => r = s

------------------------------------------------------------------------------
(* Types. *)

\* A file or a row, and a task.
AFile == [c : Contents \cup {Huge, None}, m : Nat]
ATask == [kind : {None, "batch", "rebuild"}, root : Roots \cup {None}, db : Roots \cup {None},
          todo : SUBSET Paths, hand : Paths \cup {None}, step : {"next", "opened", "read", "parsed"},
          seen : AFile, older : SUBSET Tasks, passed : BOOLEAN]

\* The notify callback tells of files and of "sub".
LEMMA NotifyTyped ==
  ASSUME TypeOK, NEW r, NEW told \in SUBSET (Paths \cup {"sub"}), NEW lost, Notify(r, told, lost)
  PROVE  watcher' \in [Watchers -> [live : BOOLEAN, root : Roots \cup {None}, watched : SUBSET Live,
                                    os : SUBSET Live, pending : SUBSET (Paths \cup {"sub"})]]
<1> SUFFICES ASSUME NEW w \in Watchers
             PROVE  watcher'[w] \in [live : BOOLEAN, root : Roots \cup {None}, watched : SUBSET Live,
                                     os : SUBSET Live, pending : SUBSET (Paths \cup {"sub"})]
  BY DEF Notify
<1>1. watcher[w] \in [live : BOOLEAN, root : Roots \cup {None}, watched : SUBSET Live,
                      os : SUBSET Live, pending : SUBSET (Paths \cup {"sub"})]
  BY DEF TypeOK, ATask, AFile
<1>2. CASE ~watcher[w].live \/ watcher[w].root # r
  BY <1>1, <1>2 DEF Notify
<1>3. CASE ~(~watcher[w].live \/ watcher[w].root # r)
  <2> DEFINE heard == {e \in told : (IF e = "sub" THEN "root" ELSE DirOf[e]) \in watcher[w].os}
  <2>1. watcher'[w] = [watcher[w] EXCEPT !.pending = watcher[w].pending \cup heard, !.os = watcher[w].os \ lost]
    BY <1>3 DEF Notify
  <2>2. heard \subseteq Paths \cup {"sub"}
    OBVIOUS
  <2> HIDE DEF heard
  <2> QED
    BY <1>1, <2>1, <2>2
<1> QED
  BY <1>2, <1>3

\* A change is known to some watcher or to none.
LEMMA ChangedTyped ==
  ASSUME TypeOK, NEW r \in Roots, NEW ps, Changed(r, ps)
  PROVE  noticed' \in [Roots -> [Paths -> BOOLEAN]]
BY DEF TypeOK, ATask, AFile, Changed

\* Edits of the files.
LEMMA EditsTyped ==
  ASSUME TypeOK, NEW r \in Roots,
         \/ \E p \in Paths : DeleteFile(r, p) \/ \E c \in Contents \cup {Huge} : WriteFile(r, p, c)
         \/ \E moved \in BOOLEAN : RemoveSub(r, moved)
  PROVE  TypeOK'
<1>0. /\ edits' \in Nat /\ UNCHANGED <<env, now, db, task, overtaken, answer>> /\ UNCHANGED services
  <2>1. Edit
    BY DEF DeleteFile, WriteFile, RemoveSub
  <2> QED
    BY <2>1 DEF Edit, TypeOK, ATask, AFile
<1>1. ASSUME NEW p \in Paths, NEW c \in Contents \cup {Huge}, WriteFile(r, p, c)
      PROVE  TypeOK'
  <2>1. fs' \in [Roots -> [Paths -> AFile]] /\ subdir' \subseteq Roots /\ last' \in [Roots -> [Paths -> [at : Nat, twice : BOOLEAN]]]
    BY <1>1 DEF WriteFile, TypeOK, ATask, AFile
  <2>2. \E told \in SUBSET (Paths \cup {"sub"}) : Notify(r, told, {})
    BY <1>1 DEF WriteFile
  <2>3. Changed(r, {p})
    BY <1>1 DEF WriteFile
  <2> QED
    BY <1>0, <2>1, <2>2, <2>3, NotifyTyped, ChangedTyped DEF TypeOK, ATask, AFile, services
<1>2. ASSUME NEW p \in Paths, DeleteFile(r, p)
      PROVE  TypeOK'
  <2>1. fs' \in [Roots -> [Paths -> AFile]] /\ subdir' \subseteq Roots /\ last' \in [Roots -> [Paths -> [at : Nat, twice : BOOLEAN]]]
    BY <1>2 DEF DeleteFile, TypeOK, ATask, AFile, Absent
  <2>2. \E told \in SUBSET (Paths \cup {"sub"}) : Notify(r, told, {})
    BY <1>2 DEF DeleteFile
  <2>3. Changed(r, {p})
    BY <1>2 DEF DeleteFile
  <2> QED
    BY <1>0, <2>1, <2>2, <2>3, NotifyTyped, ChangedTyped DEF TypeOK, ATask, AFile, services
<1>3. ASSUME NEW moved \in BOOLEAN, RemoveSub(r, moved)
      PROVE  TypeOK'
  <2> DEFINE gone == {p \in Paths : DirOf[p] = "sub" /\ fs[r][p] # Absent}
  <2>1. fs' \in [Roots -> [Paths -> AFile]] /\ subdir' \subseteq Roots /\ last' \in [Roots -> [Paths -> [at : Nat, twice : BOOLEAN]]]
    BY <1>3 DEF RemoveSub, TypeOK, ATask, AFile, Absent
  <2>2. {"sub"} \cup (IF moved THEN {} ELSE gone) \in SUBSET (Paths \cup {"sub"})
    OBVIOUS
  <2>3. Notify(r, {"sub"} \cup (IF moved THEN {} ELSE gone), {"sub"})
    BY <1>3 DEF RemoveSub
  <2>4. noticed' \in [Roots -> [Paths -> BOOLEAN]]
    <3>1. CASE moved
      <4> DEFINE f == [p \in Paths |-> noticed[r][p] /\ p \notin gone]
      <4>1. f \in [Paths -> BOOLEAN]
        OBVIOUS
      <4>2. noticed' = [noticed EXCEPT ![r] = f]
        BY <1>3, <3>1 DEF RemoveSub
      <4> HIDE DEF f
      <4> QED
        BY <4>1, <4>2 DEF TypeOK, ATask, AFile
    <3>2. CASE ~moved
      BY <1>3, <3>2, ChangedTyped DEF RemoveSub
    <3> QED
      BY <3>1, <3>2
  <2> QED
    BY <1>0, <2>1, <2>2, <2>3, <2>4, NotifyTyped DEF TypeOK, ATask, AFile, services
<1> QED
  BY <1>1, <1>2, <1>3

\* A task begins.
LEMMA BeginTyped ==
  ASSUME TypeOK, NEW t \in Tasks, NEW kind \in {"batch", "rebuild"}, NEW r \in Roots, NEW k \in Roots \cup {None},
         NEW ps \in SUBSET Paths, Begin(t, kind, r, k, ps)
  PROVE  task' \in [Tasks -> ATask]
<1> DEFINE x == [NoTask EXCEPT !.kind = kind, !.root = r, !.db = k, !.todo = ps]
<1>1. x \in ATask
  BY DEF NoTask, Absent, ATask, AFile
<1>2. task' = [task EXCEPT ![t] = x]
  BY DEF Begin
<1> HIDE DEF x
<1> QED
  BY <1>1, <1>2 DEF TypeOK, ATask, AFile

\* Watchers start and drain.
LEMMA WatchersTyped ==
  ASSUME TypeOK, WatchInv,
         \/ \E l \in Listings, r \in Roots : EnsureLook(l, r)
         \/ \E l \in Listings : EnsureInstall(l)
         \/ \E r \in Roots : StartWatch(r)
         \/ \E w \in Watchers : Drain(w)
  PROVE  TypeOK'
<1> DEFINE AWatcher == [live : BOOLEAN, root : Roots \cup {None}, watched : SUBSET Live,
                        os : SUBSET Live, pending : SUBSET (Paths \cup {"sub"})]
<1>0. \A w \in Watchers, r \in Roots : Start(w, r) \in AWatcher
  BY DEF Start, DirsOf, Live
<1>1. ASSUME NEW l \in Listings, NEW r \in Roots, EnsureLook(l, r)
      PROVE  TypeOK'
  BY <1>1 DEF EnsureLook, TypeOK, ATask, AFile, disk
<1>2. ASSUME NEW l \in Listings, EnsureInstall(l)
      PROVE  TypeOK'
  <2> DEFINE r == listing[l]
             old == {watchOf[KeyOf[r]]} \ {None}
  <2>1. r \in Roots
    BY <1>2 DEF EnsureInstall, TypeOK, ATask, AFile
  <2>2. PICK w \in Watchers : /\ watcher' = [x \in Watchers |-> IF x = w THEN Start(w, r)
                                               ELSE IF x \in old THEN [watcher[x] EXCEPT !.live = FALSE, !.pending = {}]
                                               ELSE watcher[x]]
                              /\ watchOf' = [watchOf EXCEPT ![KeyOf[r]] = w]
    BY <1>2 DEF EnsureInstall
  <2>3. /\ noticed' = Forgotten(old) /\ listing' = [listing EXCEPT ![l] = None]
        /\ UNCHANGED <<db, open, task, overtaken, answer, restarts, walks>> /\ UNCHANGED disk
    BY <1>2 DEF EnsureInstall
  <2> HIDE DEF r, old
  <2>4. watcher' \in [Watchers -> AWatcher]
    <3> SUFFICES ASSUME NEW x \in Watchers PROVE watcher'[x] \in AWatcher
      BY <2>2
    <3>1. watcher[x] \in AWatcher
      BY DEF TypeOK, ATask, AFile
    <3> QED
      BY <1>0, <2>1, <2>2, <3>1
  <2>5. noticed' \in [Roots -> [Paths -> BOOLEAN]]
    BY <2>3 DEF Forgotten, TypeOK, ATask, AFile
  <2> QED
    BY <2>2, <2>3, <2>4, <2>5 DEF TypeOK, ATask, AFile, disk
<1>3. ASSUME NEW r \in Roots, StartWatch(r)
      PROVE  TypeOK'
  <2>1. watcher' \in [Watchers -> AWatcher]
    BY <1>0, <1>3 DEF StartWatch, TypeOK, ATask, AFile
  <2>2. watchOf' \in [Keys -> Watchers \cup {None}]
    BY <1>3 DEF StartWatch, TypeOK, ATask, AFile
  <2> QED
    BY <1>3, <2>1, <2>2 DEF StartWatch, TypeOK, ATask, AFile, disk
<1>4. ASSUME NEW w \in Watchers, Drain(w)
      PROVE  TypeOK'
  <2> DEFINE r == watcher[w].root
             fresh == "sub" \in watcher[w].pending /\ r \in subdir /\ "sub" \notin watcher[w].watched
             emit == (watcher[w].pending \ {"sub"}) \cup IF fresh THEN InSub(r) ELSE {}
  <2>0. watcher[w] \in AWatcher
    BY DEF TypeOK, ATask, AFile
  <2>1. watcher' \in [Watchers -> AWatcher]
    <3> DEFINE more == IF fresh THEN {"sub"} ELSE {}
               x == [watcher[w] EXCEPT !.pending = {}, !.watched = @ \cup more, !.os = @ \cup more]
    <3>1. watcher' = [watcher EXCEPT ![w] = x]
      BY <1>4 DEF Drain
    <3>2. more \subseteq Live
      BY DEF Live
    <3>3. x \in AWatcher
      <4> HIDE DEF more
      <4> QED
        BY <2>0, <3>2
    <3> HIDE DEF x
    <3> QED
      BY <3>1, <3>3 DEF TypeOK, ATask, AFile
  <2>2. emit \subseteq Paths
    BY <2>0 DEF InSub
  <2>3. noticed' \in [Roots -> [Paths -> BOOLEAN]]
    <3> DEFINE f == [p \in Paths |-> noticed[r][p] /\ p \notin emit]
               g == [p \in Paths |-> noticed[r][p] \/ p \in emit]
    <3>1. f \in [Paths -> BOOLEAN] /\ g \in [Paths -> BOOLEAN]
      OBVIOUS
    <3>2. noticed' = [noticed EXCEPT ![r] = f] \/ noticed' = [noticed EXCEPT ![r] = g]
      BY <1>4 DEF Drain
    <3> HIDE DEF f, g
    <3> QED
      BY <3>1, <3>2 DEF TypeOK, ATask, AFile
  <2>4. Target(r) \in Roots \cup {None} /\ r \in Roots
    <3>1. r \in Roots
      BY <1>4, <2>0 DEF Drain, WatchInv
    <3>2. Handle(r) \in Keys \cup Roots
      BY <3>1 DEF Handle, Keys
    <3> QED
      BY <3>1, <3>2 DEF Target, TypeOK, ATask, AFile
  <2>5. UNCHANGED <<task, open>> \/ (/\ \E t \in Tasks : Idle(t) /\ Begin(t, "batch", r, Target(r), emit)
                                      /\ open' = [open EXCEPT ![Handle(r)] = Target(r)])
    BY <1>4 DEF Drain
  <2>6. UNCHANGED <<db, watchOf, listing, overtaken, answer, restarts, walks>> /\ UNCHANGED disk
    BY <1>4 DEF Drain
  <2> HIDE DEF r, emit
  <2>7. open' \in [Keys \cup Roots -> Roots \cup {None}]
    BY <2>4, <2>5 DEF TypeOK, ATask, AFile
  <2>8. task' \in [Tasks -> ATask]
    <3>1. CASE UNCHANGED task
      BY <3>1 DEF TypeOK, ATask, AFile
    <3>2. CASE \E t \in Tasks : Begin(t, "batch", r, Target(r), emit)
      BY <2>2, <2>4, <3>2, BeginTyped
    <3> QED
      BY <2>5, <3>1, <3>2
  <2> QED
    BY <2>1, <2>3, <2>6, <2>7, <2>8 DEF TypeOK, ATask, AFile, disk
<1> QED
  BY <1>1, <1>2, <1>3, <1>4

\* A file in hand, as far as the task knows it, and none.
LEMMA TookTyped ==
  ASSUME TypeOK, NEW t \in Tasks, NEW p \in Paths, NEW skip \in BOOLEAN, Took(t, p, skip),
         task[t].root \in Roots
  PROVE  TypeOK'
<1> DEFINE r == task[t].root
           n == noticed[r][p] \/ (~skip /\ task[t].kind = "rebuild")
           look == IF fs[r][p] = Absent THEN "read" ELSE "opened"
           known == [c |-> None, m |-> fs[r][p].m]
           taken == IF skip THEN task[t]
                    ELSE [task[t] EXCEPT !.hand = p, !.step = look, !.seen = known, !.older = Holders(r, p)]
           x == [taken EXCEPT !.todo = task[t].todo \ {p}]
<1>1. n \in BOOLEAN /\ look \in {"next", "opened", "read", "parsed"} /\ Holders(r, p) \subseteq Tasks
  BY DEF Holders
<1>2. known \in AFile
  BY DEF TypeOK, AFile
<1>3. x \in ATask
  <2> HIDE DEF look, known
  <2>1. task[t] \in ATask
    BY DEF TypeOK, ATask, AFile
  <2>2. taken \in ATask
    BY <1>1, <1>2, <2>1 DEF ATask
  <2> HIDE DEF taken
  <2> QED
    BY <2>1, <2>2 DEF ATask
<1>4. /\ task' = [task EXCEPT ![t] = x]
      /\ noticed' = [noticed EXCEPT ![r] = [noticed[r] EXCEPT ![p] = n]]
      /\ UNCHANGED <<db, watcher, overtaken, answer>> /\ UNCHANGED services /\ UNCHANGED disk
  <2>1. task' = [task EXCEPT ![t] = x]
    BY DEF Took
  <2>2. noticed' = [noticed EXCEPT ![r] = [noticed[r] EXCEPT ![p] = n]]
    BY DEF Took
  <2> QED
    BY <2>1, <2>2 DEF Took
<1> HIDE DEF r, n, x
<1>5. r \in Roots
  BY DEF r
<1>6. noticed' \in [Roots -> [Paths -> BOOLEAN]]
  BY <1>1, <1>4, <1>5 DEF TypeOK
<1>7. task' \in [Tasks -> ATask]
  BY <1>3, <1>4 DEF TypeOK, ATask, AFile
<1> QED
  BY <1>4, <1>6, <1>7 DEF TypeOK, ATask, AFile, services, disk

\* What a task that puts its file down leaves of itself and of the others.
LEMMA PutsDown ==
  ASSUME TypeOK, NEW t \in Tasks, NEW done \in BOOLEAN, PutDown(t, done)
  PROVE  /\ task' \in [Tasks -> ATask]
         /\ task'[t] = [NoTask EXCEPT !.kind = task[t].kind, !.root = task[t].root, !.db = task[t].db,
                                      !.todo = task[t].todo]
         /\ \A u \in Tasks \ {t} : task'[u] = [task[u] EXCEPT !.older = task[u].older \ {t},
                                                 !.passed = task[u].passed \/ (done /\ u \in task[t].older)]
<1> DEFINE none == [NoTask EXCEPT !.kind = task[t].kind, !.root = task[t].root, !.db = task[t].db, !.todo = task[t].todo]
           rest(u) == [task[u] EXCEPT !.older = task[u].older \ {t},
                                      !.passed = task[u].passed \/ (done /\ u \in task[t].older)]
<1>1. \A u \in Tasks : task[u] \in ATask
  BY DEF TypeOK, ATask, AFile
<1>2. none \in ATask
  BY <1>1 DEF ATask, AFile, NoTask, Absent
<1>3. ASSUME NEW u \in Tasks
      PROVE  rest(u) \in ATask
  <2> DEFINE b == task[u].passed \/ (done /\ u \in task[t].older)
             o == task[u].older \ {t}
  <2>1. b \in BOOLEAN /\ o \in SUBSET Tasks
    BY <1>1 DEF ATask
  <2> HIDE DEF b, o
  <2>2. [task[u] EXCEPT !.older = o, !.passed = b] \in ATask
    BY <1>1, <2>1 DEF ATask
  <2> QED
    BY <2>2 DEF b, o
<1>4. task' = [u \in Tasks |-> IF u = t THEN none ELSE rest(u)]
  BY DEF PutDown
<1> HIDE DEF none, rest
<1>5. task' \in [Tasks -> ATask] /\ task'[t] = none /\ \A u \in Tasks \ {t} : task'[u] = rest(u)
  BY <1>2, <1>3, <1>4
<1> QED
  BY <1>5 DEF none, rest

\* Those of it that later steps speak of.
LEMMA PutsDownFields ==
  ASSUME TypeOK, NEW t \in Tasks, NEW done \in BOOLEAN, PutDown(t, done)
  PROVE  /\ task'[t].kind = task[t].kind /\ task'[t].root = task[t].root /\ task'[t].db = task[t].db
         /\ task'[t].todo = task[t].todo /\ task'[t].hand = None /\ task'[t].step = "next"
         /\ task'[t].older = {} /\ ~task'[t].passed
         /\ \A u \in Tasks \ {t} :
              /\ task'[u].kind = task[u].kind /\ task'[u].root = task[u].root /\ task'[u].db = task[u].db
              /\ task'[u].todo = task[u].todo /\ task'[u].hand = task[u].hand
              /\ task'[u].step = task[u].step /\ task'[u].seen = task[u].seen
              /\ task'[u].older = task[u].older \ {t}
              /\ task'[u].passed <=> task[u].passed \/ (done /\ u \in task[t].older)
<1>1. task'[t].kind = task[t].kind /\ task'[t].root = task[t].root /\ task'[t].db = task[t].db
      /\ task'[t].todo = task[t].todo /\ task'[t].hand = None /\ task'[t].step = "next"
      /\ task'[t].older = {} /\ ~task'[t].passed
  <2>1. task'[t] = [NoTask EXCEPT !.kind = task[t].kind, !.root = task[t].root, !.db = task[t].db,
                                  !.todo = task[t].todo]
    BY PutsDown
  <2> QED
    BY <2>1 DEF NoTask
<1>2. ASSUME NEW u \in Tasks \ {t}
      PROVE  /\ task'[u].kind = task[u].kind /\ task'[u].root = task[u].root /\ task'[u].db = task[u].db
             /\ task'[u].todo = task[u].todo /\ task'[u].hand = task[u].hand
             /\ task'[u].step = task[u].step /\ task'[u].seen = task[u].seen
             /\ task'[u].older = task[u].older \ {t}
             /\ task'[u].passed <=> task[u].passed \/ (done /\ u \in task[t].older)
  <2>1. task[u] \in ATask
    BY DEF TypeOK, ATask, AFile
  <2>2. task'[u] = [task[u] EXCEPT !.older = task[u].older \ {t},
                                  !.passed = task[u].passed \/ (done /\ u \in task[t].older)]
    BY PutsDown
  <2> QED
    BY <2>1, <2>2 DEF ATask
<1> QED
  BY <1>1, <1>2

\* The steps of a task that take a file.
Takes(t, p, skip) ==
  /\ Took(t, p, skip) /\ task[t].root # None /\ task[t].kind \in {"batch", "rebuild"}
  /\ TooLarge(t, p) => skip
  /\ skip => TooLarge(t, p) \/ task[t].kind = "rebuild"

\* Every way to take a file skips those above the limit; a batch skips no other.
LEMMA TakesAll ==
  ASSUME NEW t \in Tasks, NEW p \in Paths,
         ProcessChange(t, p) \/ AgentProcessChange(t, p) \/ WalkFile(t, p) \/ AgentWalkFile(t, p)
  PROVE  \E skip \in BOOLEAN : Takes(t, p, skip)
<1>1. CASE ProcessChange(t, p)
  BY <1>1 DEF ProcessChange, Takes, InEnv, TooLarge
<1>2. CASE AgentProcessChange(t, p)
  BY <1>2 DEF AgentProcessChange, Takes, InEnv, TooLarge
<1>3. CASE WalkFile(t, p)
  BY <1>3 DEF WalkFile, Takes, InEnv
<1>4. CASE AgentWalkFile(t, p)
  BY <1>4 DEF AgentWalkFile, Takes, InEnv
<1> QED
  BY <1>1, <1>2, <1>3, <1>4

\* Who came before a task is a task.
LEMMA OlderTyped ==
  ASSUME TypeOK, NEW t \in Tasks
  PROVE  task[t].older \subseteq Tasks
BY DEF TypeOK

\* What a task knows of the file it takes.
LEMMA TakesTask ==
  ASSUME TypeOK, TaskInv, NEW t \in Tasks, NEW p \in Paths, NEW skip \in BOOLEAN, Takes(t, p, skip)
  PROVE  /\ task[t].root \in Roots /\ p \in task[t].todo /\ task[t].hand = None
         /\ \A u \in Tasks \ {t} : task'[u] = task[u]
         /\ task'[t].kind = task[t].kind /\ task'[t].root = task[t].root /\ task'[t].db = task[t].db
         /\ task'[t].todo = task[t].todo \ {p} /\ ~task'[t].passed
<1> DEFINE r == task[t].root
           look == IF fs[r][p] = Absent THEN "read" ELSE "opened"
           known == [c |-> None, m |-> fs[r][p].m]
           before == Holders(r, p)
           x == [task[t] EXCEPT !.hand = p, !.step = look, !.seen = known, !.older = before]
           taken == IF skip THEN task[t] ELSE x
           y == [taken EXCEPT !.todo = task[t].todo \ {p}]
<1>1. /\ r \in Roots /\ p \in task[t].todo /\ task[t].hand = None
      /\ task' = [task EXCEPT ![t] = y]
  <2>1. task' = [task EXCEPT ![t] = y]
    BY DEF Takes, Took
  <2> QED
    BY <2>1 DEF Takes, Took, TypeOK
<1>2. task[t].step = "next" /\ ~task[t].passed
  BY <1>1 DEF TaskInv, TaskOK
<1>3. task[t] \in ATask
  BY DEF TypeOK, ATask, AFile
<1>4. /\ y.kind = taken.kind /\ y.root = taken.root /\ y.db = taken.db /\ y.todo = task[t].todo \ {p}
      /\ y.passed = taken.passed /\ y.hand = taken.hand /\ y.step = taken.step /\ y.older = taken.older
      /\ y.seen = taken.seen /\ taken.kind = task[t].kind /\ taken.root = r /\ taken.db = task[t].db
      /\ taken.passed = task[t].passed
  <2>1. taken.kind = task[t].kind /\ taken.root = r /\ taken.db = task[t].db /\ taken.passed = task[t].passed
        /\ DOMAIN taken = DOMAIN task[t]
    <3> HIDE DEF look, known, before
    <3> QED
      BY <1>3 DEF ATask
  <2>2. DOMAIN task[t] = {"kind", "root", "db", "todo", "hand", "step", "seen", "older", "passed"}
    BY <1>3 DEF ATask
  <2> HIDE DEF taken
  <2> QED
    BY <2>1, <2>2
<1>5. x.hand = p /\ x.older = before /\ x.step = look /\ x.seen = known
  <2> HIDE DEF look, known, before
  <2> QED
    BY <1>3 DEF ATask
<1> HIDE DEF x, y
<1>6. task'[t] = y /\ \A u \in Tasks \ {t} : task'[u] = task[u]
  BY <1>1 DEF TypeOK
<1>7. CASE skip
  BY <1>1, <1>2, <1>4, <1>6, <1>7
<1>8. CASE ~skip
  BY <1>1, <1>2, <1>4, <1>5, <1>6, <1>8
<1> QED
  BY <1>7, <1>8

\* It skips the file, or has it in hand with the metadata it has now.
LEMMA TakesHand ==
  ASSUME TypeOK, TaskInv, NEW t \in Tasks, NEW p \in Paths, NEW skip \in BOOLEAN, Takes(t, p, skip)
  PROVE  \/ /\ skip
            /\ task'[t].hand = None /\ task'[t].step = "next" /\ task'[t].older = task[t].older
         \/ /\ ~skip
            /\ task'[t].hand = p /\ task'[t].older = Holders(task[t].root, p)
            /\ task'[t].step = (IF fs[task[t].root][p] = Absent THEN "read" ELSE "opened")
            /\ task'[t].seen = [c |-> None, m |-> fs[task[t].root][p].m]
<1> DEFINE r == task[t].root
           look == IF fs[r][p] = Absent THEN "read" ELSE "opened"
           known == [c |-> None, m |-> fs[r][p].m]
           before == Holders(r, p)
           x == [task[t] EXCEPT !.hand = p, !.step = look, !.seen = known, !.older = before]
           taken == IF skip THEN task[t] ELSE x
           y == [taken EXCEPT !.todo = task[t].todo \ {p}]
<1>1. /\ r \in Roots /\ p \in task[t].todo /\ task[t].hand = None
      /\ task' = [task EXCEPT ![t] = y]
  <2>1. task' = [task EXCEPT ![t] = y]
    BY DEF Takes, Took
  <2> QED
    BY <2>1 DEF Takes, Took, TypeOK
<1>2. task[t].step = "next" /\ ~task[t].passed
  BY <1>1 DEF TaskInv, TaskOK
<1>3. task[t] \in ATask
  BY DEF TypeOK, ATask, AFile
<1>4. /\ y.kind = taken.kind /\ y.root = taken.root /\ y.db = taken.db /\ y.todo = task[t].todo \ {p}
      /\ y.passed = taken.passed /\ y.hand = taken.hand /\ y.step = taken.step /\ y.older = taken.older
      /\ y.seen = taken.seen /\ taken.kind = task[t].kind /\ taken.root = r /\ taken.db = task[t].db
      /\ taken.passed = task[t].passed
  <2>1. taken.kind = task[t].kind /\ taken.root = r /\ taken.db = task[t].db /\ taken.passed = task[t].passed
        /\ DOMAIN taken = DOMAIN task[t]
    <3> HIDE DEF look, known, before
    <3> QED
      BY <1>3 DEF ATask
  <2>2. DOMAIN task[t] = {"kind", "root", "db", "todo", "hand", "step", "seen", "older", "passed"}
    BY <1>3 DEF ATask
  <2> HIDE DEF taken
  <2> QED
    BY <2>1, <2>2
<1>5. x.hand = p /\ x.older = before /\ x.step = look /\ x.seen = known
  <2> HIDE DEF look, known, before
  <2> QED
    BY <1>3 DEF ATask
<1> HIDE DEF x, y
<1>6. task'[t] = y /\ \A u \in Tasks \ {t} : task'[u] = task[u]
  BY <1>1 DEF TypeOK
<1>7. CASE skip
  BY <1>1, <1>2, <1>4, <1>6, <1>7
<1>8. CASE ~skip
  BY <1>1, <1>2, <1>4, <1>5, <1>6, <1>8
<1> QED
  BY <1>7, <1>8

\* Where a task works.
LEMMA AtWork ==
  ASSUME TypeOK, TaskInv, NEW t \in Tasks, task[t].step # "next"
  PROVE  /\ task[t].root \in Roots /\ task[t].db = task[t].root /\ task[t].hand \in Paths
         /\ task[t].kind # None /\ t \in Holders(task[t].root, task[t].hand)
<1>1. task[t].kind # None /\ task[t].hand # None
  BY DEF TaskInv, TaskOK, NoTask
<1> QED
  BY <1>1 DEF TaskInv, TaskOK, TypeOK, Holders

\* What a task does with the file in its hand.
Handles(t) == ReadContent(t) \/ Unchanged(t) \/ Parse(t) \/ Store(t)

\* A file is read, looked up, parsed and stored.
LEMMA TaskTyped ==
  ASSUME TypeOK, TaskInv, NEW t \in Tasks, TaskStep(t)
  PROVE  TypeOK'
<1>0. task[t] \in ATask /\ Absent \in AFile
  BY DEF TypeOK, ATask, AFile, Absent
<1>1. ASSUME NEW p \in Paths, NEW skip \in BOOLEAN, Takes(t, p, skip)
      PROVE  TypeOK'
  <2>1. task[t].root \in Roots
    BY <1>0, <1>1 DEF Takes, ATask
  <2> QED
    BY <1>1, <2>1, TookTyped DEF Takes
<1>2. CASE ReadContent(t)
  <2>1. task[t].root \in Roots /\ task[t].hand \in Paths
    BY <1>2, AtWork DEF ReadContent
  <2> DEFINE file == fs[task[t].root][task[t].hand]
             x == [task[t] EXCEPT !.seen.c = file.c, !.step = "read"]
  <2>2. file \in AFile
    BY <2>1 DEF TypeOK, AFile
  <2>3. x \in ATask
    <3> HIDE DEF file
    <3>1. [task[t].seen EXCEPT !.c = file.c] \in AFile
      BY <1>0, <2>2 DEF ATask, AFile
    <3> QED
      BY <1>0, <3>1 DEF ATask
  <2>4. PutDown(t, FALSE) \/ task' = [task EXCEPT ![t] = x]
    BY <1>2 DEF ReadContent, TypeOK
  <2> HIDE DEF x
  <2>5. task' \in [Tasks -> ATask]
    <3>1. CASE PutDown(t, FALSE)
      BY <3>1, PutsDown
    <3>2. CASE task' = [task EXCEPT ![t] = x]
      BY <2>3, <3>2 DEF TypeOK, ATask, AFile
    <3> QED
      BY <2>4, <3>1, <3>2
  <2> QED
    BY <1>2, <2>5 DEF ReadContent, TypeOK, ATask, AFile, services, disk
<1>3. ASSUME NEW b, overtaken' = [overtaken EXCEPT ![task[t].root][task[t].hand] = b], b \in BOOLEAN
      PROVE  overtaken' \in [Roots -> [Paths -> BOOLEAN]]
  BY <1>3 DEF TypeOK
<1>4. CASE Unchanged(t)
  <2>1. task' \in [Tasks -> ATask]
    BY <1>4, PutsDown DEF Unchanged
  <2> DEFINE b == overtaken[task[t].root][task[t].hand] /\ task[t].passed
  <2>2. overtaken' = [overtaken EXCEPT ![task[t].root][task[t].hand] = b]
    BY <1>4 DEF Unchanged, TypeOK
  <2>3. overtaken' \in [Roots -> [Paths -> BOOLEAN]]
    BY <1>3, <2>2
  <2> QED
    BY <1>4, <2>1, <2>3 DEF Unchanged, TypeOK, ATask, AFile, services, disk
<1>5. CASE Parse(t)
  <2> DEFINE x == [task[t] EXCEPT !.step = "parsed"]
  <2>1. x \in ATask
    BY <1>0 DEF ATask
  <2>2. task' = [task EXCEPT ![t] = x]
    BY <1>5 DEF Parse, TypeOK
  <2> HIDE DEF x
  <2>3. task' \in [Tasks -> ATask]
    BY <2>1, <2>2 DEF TypeOK, ATask, AFile
  <2> QED
    BY <1>5, <2>3 DEF Parse, TypeOK, ATask, AFile, services, disk
<1>6. CASE Store(t)
  <2>1. task' \in [Tasks -> ATask]
    BY <1>6, PutsDown DEF Store
  <2>2. task[t].root \in Roots /\ task[t].hand \in Paths /\ task[t].db = task[t].root
    BY <1>6, AtWork DEF Store
  <2>3. task[t].seen \in AFile /\ task[t].passed \in BOOLEAN
    BY <1>0 DEF ATask
  <2>4. db' \in [Roots -> [Paths -> AFile]]
    BY <1>6, <2>2, <2>3 DEF Store, TypeOK, AFile
  <2>5. overtaken' \in [Roots -> [Paths -> BOOLEAN]]
    BY <1>3, <1>6, <2>3 DEF Store
  <2> QED
    BY <1>6, <2>1, <2>4, <2>5 DEF Store, TypeOK, ATask, AFile, services, disk
<1>7. CASE TaskEnds(t)
  <2>1. NoTask \in ATask
    BY <1>0 DEF NoTask, ATask
  <2>2. task' \in [Tasks -> ATask]
    BY <1>7, <2>1 DEF TaskEnds, TypeOK, ATask, AFile
  <2> QED
    BY <1>7, <2>2 DEF TaskEnds, TypeOK, ATask, AFile, services, disk
<1> QED
  BY <1>1, <1>2, <1>4, <1>5, <1>6, <1>7, TakesAll DEF TaskStep

\* A handle is a key or a root, and the index it opens is a root's.
LEMMA OpenedTyped ==
  ASSUME TypeOK, NEW r \in Roots
  PROVE  Handle(r) \in Keys \cup Roots /\ Opened(r) \in Roots /\ Target(r) \in Roots \cup {None}
<1>1. Handle(r) \in Keys \cup Roots
  BY DEF Handle, Keys
<1> QED
  BY <1>1 DEF Opened, Target, TypeOK, ATask, AFile

\* The commands.
LEMMA CommandsTyped ==
  ASSUME TypeOK, NEW r \in Roots, Walk(r) \/ EnsureIndexed(r) \/ Query(r)
  PROVE  TypeOK'
<1>0. Opens(r) => open' \in [Keys \cup Roots -> Roots \cup {None}]
  BY OpenedTyped DEF Opens, TypeOK, ATask, AFile
<1>1. CASE Walk(r)
  <2>1. task' \in [Tasks -> ATask]
    BY <1>1, BeginTyped, OpenedTyped DEF Walk
  <2>2. /\ walks' \in Nat /\ Opens(r)
        /\ UNCHANGED <<db, watcher, watchOf, listing, noticed, overtaken, answer, restarts>> /\ UNCHANGED disk
    BY <1>1 DEF Walk, TypeOK, ATask, AFile
  <2> QED
    BY <1>0, <2>1, <2>2 DEF TypeOK, ATask, AFile, disk
<1>2. CASE Opens(r) /\ UNCHANGED <<db, watcher, watchOf, task, listing, noticed, overtaken, answer, restarts, walks>>
           /\ UNCHANGED disk
  BY <1>0, <1>2 DEF TypeOK, ATask, AFile, disk
<1>3. CASE Query(r)
  <2>1. answer' \in [asked : Roots \cup {None}, from : Roots \cup {None}]
    BY <1>3, OpenedTyped DEF Query
  <2>2. Opens(r) /\ UNCHANGED <<db, watcher, watchOf, task, listing, noticed, overtaken, restarts, walks>>
        /\ UNCHANGED disk
    BY <1>3 DEF Query
  <2> QED
    BY <1>0, <2>1, <2>2 DEF TypeOK, ATask, AFile, disk
<1> QED
  BY <1>1, <1>2, <1>3 DEF EnsureIndexed, Rebuild, RebuildLocal, RebuildWsl

\* The application, or an agent, restarts.
LEMMA RestartTyped ==
  ASSUME TypeOK, NEW e, NEW wipe \in BOOLEAN, Restart(e, wipe)
  PROVE  TypeOK'
<1> DEFINE rs == {r \in Roots : env[r] = e}
           ks == {KeyOf[r] : r \in rs}
           hs == {Handle(r) : r \in rs}
<1>1. /\ restarts' = restarts + 1
      /\ db' = [r \in Roots |-> IF r \in rs /\ wipe THEN [p \in Paths |-> Absent] ELSE db[r]]
      /\ open' = [k \in Keys \cup Roots |-> IF k \in hs THEN None ELSE open[k]]
      /\ watcher' = [w \in Watchers |-> IF watcher[w].root \in rs THEN NoWatcher ELSE watcher[w]]
      /\ watchOf' = [k \in Keys |-> IF k \in ks THEN None ELSE watchOf[k]]
      /\ task' = [t \in Tasks |-> IF task[t].root \in rs THEN NoTask ELSE task[t]]
      /\ listing' = [l \in Listings |-> IF listing[l] \in rs THEN None ELSE listing[l]]
      /\ noticed' = [r \in Roots |-> [p \in Paths |->
             noticed[r][p] /\ (r \notin rs \/ (~wipe /\ db[r][p] = fs[r][p]))]]
      /\ UNCHANGED <<overtaken, answer, walks>> /\ UNCHANGED disk
  BY DEF Restart
<1> HIDE DEF rs, ks, hs
<1>2. noticed' \in [Roots -> [Paths -> BOOLEAN]]
  BY <1>1
<1>3. db' \in [Roots -> [Paths -> AFile]]
  BY <1>1 DEF TypeOK, ATask, AFile, Absent
<1>4. open' \in [Keys \cup Roots -> Roots \cup {None}] /\ watchOf' \in [Keys -> Watchers \cup {None}]
      /\ listing' \in [Listings -> Roots \cup {None}]
  BY <1>1 DEF TypeOK, ATask, AFile
<1>5. watcher' \in [Watchers -> [live : BOOLEAN, root : Roots \cup {None}, watched : SUBSET Live,
                                 os : SUBSET Live, pending : SUBSET (Paths \cup {"sub"})]]
  BY <1>1 DEF TypeOK, ATask, AFile, NoWatcher
<1>6. task' \in [Tasks -> ATask]
  BY <1>1 DEF TypeOK, ATask, AFile, NoTask, Absent
<1> QED
  BY <1>1, <1>2, <1>3, <1>4, <1>5, <1>6 DEF TypeOK, ATask, AFile, disk

------------------------------------------------------------------------------
(* The steps, by what they do to files, rows, watchers and tasks. *)

files == <<env, fs, subdir, last, db, watcher, task, noticed, overtaken>>

Edits(r) == \/ \E p \in Paths : DeleteFile(r, p) \/ \E c \in Contents \cup {Huge} : WriteFile(r, p, c)
            \/ \E moved \in BOOLEAN : RemoveSub(r, moved)

\* What Next may do.
LEMMA NextCases ==
  ASSUME [Next]_vars
  PROVE  \/ UNCHANGED <<files, open>> /\ (UNCHANGED now \/ now' = now + 1)
         \/ \E r \in Roots : Edits(r) \/ StartWatch(r) \/ Walk(r) \/ (Opens(r) /\ UNCHANGED <<files, now>>)
         \/ \E l \in Listings : EnsureInstall(l)
         \/ \E w \in Watchers : Drain(w)
         \/ \E t \in Tasks : \/ \E p \in Paths, skip \in BOOLEAN : Takes(t, p, skip)
                            \/ Handles(t) \/ TaskEnds(t)
         \/ \E e \in {"Local", "Wsl"}, wipe \in BOOLEAN : Restart(e, wipe)
<1>1. CASE UNCHANGED vars
  BY <1>1 DEF vars, files
<1>2. CASE Tick
  BY <1>2 DEF Tick, services, files
<1>3. ASSUME NEW r \in Roots, Edits(r)
      PROVE  \E q \in Roots : Edits(q)
  BY <1>3
<1>4. ASSUME NEW l \in Listings, NEW r \in Roots, EnsureLook(l, r)
      PROVE  UNCHANGED <<files, open, now>>
  BY <1>4 DEF EnsureLook, disk, files
<1>5. ASSUME NEW r \in Roots, EnsureReady(r) \/ Rebuild(r) \/ Query(r)
      PROVE  StartWatch(r) \/ Walk(r) \/ (Opens(r) /\ UNCHANGED <<files, now>>)
  BY <1>5 DEF EnsureReady, EnsureIndexed, Rebuild, RebuildLocal, RebuildWsl, Query, disk, files
<1>6. ASSUME NEW t \in Tasks, TaskStep(t)
      PROVE  \/ \E p \in Paths, skip \in BOOLEAN : Takes(t, p, skip)
             \/ Handles(t) \/ TaskEnds(t)
  BY <1>6, TakesAll DEF TaskStep, Handles
<1>7. CASE Next
  BY <1>2, <1>3, <1>4, <1>5, <1>6, <1>7 DEF Next, Edits
<1> QED
  BY <1>1, <1>7

\* Every step keeps the types.
LEMMA NextTyped ==
  ASSUME TypeOK, WatchInv, TaskInv, [Next]_vars
  PROVE  TypeOK'
<1>1. CASE UNCHANGED vars
  BY <1>1 DEF vars, TypeOK, ATask, AFile
<1>2. CASE Tick
  BY <1>2 DEF Tick, services, TypeOK, ATask, AFile
<1>3. ASSUME NEW r \in Roots, EnsureReady(r) \/ Rebuild(r) \/ Query(r)
      PROVE  TypeOK'
  <2>1. CASE StartWatch(r)
    BY <2>1, WatchersTyped
  <2>2. CASE Walk(r) \/ EnsureIndexed(r) \/ Query(r)
    BY <2>2, CommandsTyped
  <2> QED
    BY <1>3, <2>1, <2>2 DEF EnsureReady, Rebuild, RebuildLocal, RebuildWsl
<1>4. CASE Next
  BY <1>2, <1>3, <1>4, EditsTyped, WatchersTyped, TaskTyped, RestartTyped DEF Next
<1> QED
  BY <1>1, <1>4

------------------------------------------------------------------------------
(* Watchers. *)

\* What the notify callback leaves of a watcher.
LEMMA Notified ==
  ASSUME TypeOK, NEW r, NEW told, NEW lost, Notify(r, told, lost), NEW w \in Watchers
  PROVE  /\ watcher'[w].live = watcher[w].live /\ watcher'[w].root = watcher[w].root
         /\ watcher[w].pending \subseteq watcher'[w].pending
         /\ watcher'[w].os \subseteq watcher[w].os
         /\ ~watcher[w].live \/ watcher[w].root # r => watcher'[w] = watcher[w]
         /\ watcher[w].live /\ watcher[w].root = r =>
              /\ watcher'[w].os = watcher[w].os \ lost
              /\ \A e \in told : (IF e = "sub" THEN "root" ELSE DirOf[e]) \in watcher[w].os => e \in watcher'[w].pending
<1>1. watcher[w] \in [live : BOOLEAN, root : Roots \cup {None}, watched : SUBSET Live,
                      os : SUBSET Live, pending : SUBSET (Paths \cup {"sub"})]
  BY DEF TypeOK
<1>2. CASE ~watcher[w].live \/ watcher[w].root # r
  BY <1>1, <1>2 DEF Notify
<1>3. CASE ~(~watcher[w].live \/ watcher[w].root # r)
  <2> DEFINE heard == {e \in told : (IF e = "sub" THEN "root" ELSE DirOf[e]) \in watcher[w].os}
  <2>1. watcher'[w] = [watcher[w] EXCEPT !.pending = watcher[w].pending \cup heard, !.os = watcher[w].os \ lost]
    BY <1>3 DEF Notify
  <2>2. \A e \in told : (IF e = "sub" THEN "root" ELSE DirOf[e]) \in watcher[w].os => e \in heard
    OBVIOUS
  <2> HIDE DEF heard
  <2>3. /\ watcher'[w].live = watcher[w].live /\ watcher'[w].root = watcher[w].root
        /\ watcher'[w].pending = watcher[w].pending \cup heard /\ watcher'[w].os = watcher[w].os \ lost
    BY <1>1, <2>1
  <2> QED
    BY <1>3, <2>2, <2>3
<1> QED
  BY <1>2, <1>3

\* Edits keep what a watcher is.
LEMMA EditsWatch ==
  ASSUME TypeOK, WatchInv, NEW r \in Roots, Edits(r)
  PROVE  WatchInv'
<1> SUFFICES ASSUME NEW w \in Watchers
             PROVE  /\ watcher'[w].live => watcher'[w].root # None
                    /\ ~watcher'[w].live => watcher'[w].pending = {}
                    /\ watcher'[w].live /\ "sub" \in watcher'[w].os => watcher'[w].root \in subdir'
  BY DEF WatchInv
<1>0. /\ watcher[w].live => watcher[w].root # None
      /\ ~watcher[w].live => watcher[w].pending = {}
      /\ watcher[w].live /\ "sub" \in watcher[w].os => watcher[w].root \in subdir
  BY DEF WatchInv
<1>1. CASE \E told : Notify(r, told, {}) /\ subdir \subseteq subdir'
  BY <1>0, <1>1, Notified
<1>2. CASE \E told : Notify(r, told, {"sub"}) /\ subdir' = subdir \ {r}
  BY <1>0, <1>2, Notified
<1> QED
  BY <1>1, <1>2 DEF Edits, DeleteFile, WriteFile, RemoveSub

\* Every step keeps what a watcher is.
LEMMA WatchStep ==
  ASSUME TypeOK, WatchInv, [Next]_vars
  PROVE  WatchInv'
<1>1. ASSUME UNCHANGED <<watcher, subdir>>
      PROVE  WatchInv'
  BY <1>1 DEF WatchInv
<1>2. ASSUME NEW r \in Roots, StartWatch(r)
      PROVE  WatchInv'
  <2>1. PICK w \in Watchers : watcher' = [watcher EXCEPT ![w] = Start(w, r)]
    BY <1>2 DEF StartWatch
  <2> QED
    BY <1>2, <2>1, IndexAssumption DEF StartWatch, Start, DirsOf, WatchInv, disk, TypeOK
<1>3. ASSUME NEW l \in Listings, EnsureInstall(l)
      PROVE  WatchInv'
  <2> DEFINE r == listing[l]
             old == {watchOf[KeyOf[r]]} \ {None}
  <2>1. r \in Roots /\ subdir' = subdir
    BY <1>3 DEF EnsureInstall, TypeOK, disk
  <2>2. PICK w \in Watchers :
            watcher' = [x \in Watchers |-> IF x = w THEN Start(w, r)
                                          ELSE IF x \in old THEN [watcher[x] EXCEPT !.live = FALSE, !.pending = {}]
                                          ELSE watcher[x]]
    BY <1>3 DEF EnsureInstall
  <2> HIDE DEF r, old
  <2> SUFFICES ASSUME NEW x \in Watchers
               PROVE  /\ watcher'[x].live => watcher'[x].root # None
                      /\ ~watcher'[x].live => watcher'[x].pending = {}
                      /\ watcher'[x].live /\ "sub" \in watcher'[x].os => watcher'[x].root \in subdir
    BY <2>1 DEF WatchInv
  <2>3. CASE x = w
    BY <2>1, <2>2, <2>3, IndexAssumption DEF Start, DirsOf
  <2>4. CASE x # w /\ x \in old
    <3>1. watcher[x] \in [live : BOOLEAN, root : Roots \cup {None}, watched : SUBSET Live,
                          os : SUBSET Live, pending : SUBSET (Paths \cup {"sub"})]
      BY DEF TypeOK
    <3> QED
      BY <2>2, <2>4, <3>1
  <2>5. CASE x # w /\ x \notin old
    BY <2>2, <2>5 DEF WatchInv
  <2> QED
    BY <2>3, <2>4, <2>5
<1>4. ASSUME NEW w \in Watchers, Drain(w)
      PROVE  WatchInv'
  <2> DEFINE fresh == "sub" \in watcher[w].pending /\ watcher[w].root \in subdir /\ "sub" \notin watcher[w].watched
             more == IF fresh THEN {"sub"} ELSE {}
             x == [watcher[w] EXCEPT !.pending = {}, !.watched = @ \cup more, !.os = @ \cup more]
  <2>1. watcher' = [watcher EXCEPT ![w] = x] /\ subdir' = subdir /\ watcher[w].live
    BY <1>4 DEF Drain, disk
  <2>2. x.live = watcher[w].live /\ x.root = watcher[w].root /\ x.pending = {}
        /\ ("sub" \in x.os => "sub" \in watcher[w].os \/ watcher[w].root \in subdir)
    <3>1. watcher[w] \in [live : BOOLEAN, root : Roots \cup {None}, watched : SUBSET Live,
                          os : SUBSET Live, pending : SUBSET (Paths \cup {"sub"})]
      BY DEF TypeOK
    <3>2. "sub" \in more => watcher[w].root \in subdir
      OBVIOUS
    <3> HIDE DEF more
    <3> QED
      BY <3>1, <3>2
  <2> HIDE DEF x
  <2> QED
    BY <2>1, <2>2 DEF WatchInv, TypeOK
<1>5. ASSUME NEW e, NEW wipe \in BOOLEAN, Restart(e, wipe)
      PROVE  WatchInv'
  BY <1>5 DEF Restart, WatchInv, NoWatcher, disk
<1>6. \/ UNCHANGED <<watcher, subdir>>
      \/ \E r \in Roots : Edits(r) \/ StartWatch(r)
      \/ \E l \in Listings : EnsureInstall(l)
      \/ \E w \in Watchers : Drain(w)
      \/ \E e \in {"Local", "Wsl"}, wipe \in BOOLEAN : Restart(e, wipe)
  <2>1. \A r \in Roots : Walk(r) => UNCHANGED <<watcher, subdir>>
    BY DEF Walk, disk
  <2>2. ASSUME NEW t \in Tasks, \/ \E p \in Paths, skip \in BOOLEAN : Takes(t, p, skip)
                               \/ Handles(t) \/ TaskEnds(t)
        PROVE  UNCHANGED <<watcher, subdir>>
    BY <2>2 DEF Takes, Took, Handles, ReadContent, Unchanged, Parse, Store, TaskEnds, disk
  <2>3. UNCHANGED files => UNCHANGED <<watcher, subdir>>
    BY DEF files
  <2> QED
    BY <2>1, <2>2, <2>3, NextCases
<1> QED
  BY <1>1, <1>2, <1>3, <1>4, <1>5, <1>6, EditsWatch

------------------------------------------------------------------------------
(* Tasks and handles. *)

\* Handles differ when roots do.
LEMMA HandlesDiffer ==
  ASSUME OwnKeys, NEW r \in Roots, NEW s \in Roots, Handle(r) = Handle(s)
  PROVE  r = s
BY DEF OwnKeys, Handle

\* What a handle opens is the index of its root.
LEMMA OpenedOwn ==
  ASSUME OpenInv, NEW r \in Roots
  PROVE  Opened(r) = r /\ Target(r) \in {None, r}
BY DEF OpenInv, Opened, Target

\* Opening an index keeps the handles with their roots.
LEMMA OpensOwn ==
  ASSUME OwnKeys, TypeOK, OpenInv, NEW r \in Roots, NEW k \in {None, r}, UNCHANGED env,
         open' = [open EXCEPT ![Handle(r)] = k]
  PROVE  OpenInv'
<1> SUFFICES ASSUME NEW s \in Roots PROVE open'[Handle(s)] \in {None, s}
  BY DEF OpenInv, Handle
<1>1. Handle(s) \in Keys \cup Roots
  BY OpenedTyped
<1> QED
  BY <1>1, HandlesDiffer DEF OpenInv, TypeOK

\* Every step keeps the handles with their roots.
LEMMA OpenStep ==
  ASSUME OwnKeys, TypeOK, WatchInv, OpenInv, [Next]_vars
  PROVE  OpenInv'
<1>1. ASSUME UNCHANGED <<env, open>>
      PROVE  OpenInv'
  BY <1>1 DEF OpenInv, Handle
<1>2. ASSUME NEW r \in Roots, Opens(r), UNCHANGED env
      PROVE  OpenInv'
  BY <1>2, OpenedOwn, OpensOwn DEF Opens
<1>3. ASSUME NEW w \in Watchers, Drain(w)
      PROVE  OpenInv'
  <2>1. watcher[w].root \in Roots
    BY <1>3 DEF Drain, WatchInv, TypeOK
  <2>2. UNCHANGED env /\ (UNCHANGED open \/ open' = [open EXCEPT ![Handle(watcher[w].root)] = Target(watcher[w].root)])
    BY <1>3 DEF Drain, disk
  <2> QED
    BY <1>1, <2>1, <2>2, OpenedOwn, OpensOwn
<1>4. ASSUME NEW e, NEW wipe \in BOOLEAN, Restart(e, wipe)
      PROVE  OpenInv'
  <2> SUFFICES ASSUME NEW s \in Roots PROVE open'[Handle(s)] \in {None, s}
    BY <1>4 DEF OpenInv, Handle, Restart, disk
  <2>1. Handle(s) \in Keys \cup Roots
    BY OpenedTyped
  <2> QED
    BY <1>4, <2>1 DEF Restart, OpenInv
<1>5. ASSUME NEW r \in Roots, Edits(r) \/ StartWatch(r)
      PROVE  UNCHANGED <<env, open>>
  BY <1>5 DEF Edits, DeleteFile, WriteFile, RemoveSub, Edit, StartWatch, services, disk
<1>6. ASSUME NEW l \in Listings, EnsureInstall(l)
      PROVE  UNCHANGED <<env, open>>
  BY <1>6 DEF EnsureInstall, disk
<1>7. ASSUME NEW t \in Tasks, \/ \E p \in Paths, skip \in BOOLEAN : Takes(t, p, skip)
                             \/ Handles(t) \/ TaskEnds(t)
      PROVE  UNCHANGED <<env, open>>
  BY <1>7 DEF Takes, Took, Handles, ReadContent, Unchanged, Parse, Store, TaskEnds, services, disk
<1>8. ASSUME NEW r \in Roots, Walk(r)
      PROVE  Opens(r) /\ UNCHANGED env
  BY <1>8 DEF Walk, disk
<1>9. UNCHANGED files => UNCHANGED env
  BY DEF files
<1> QED
  BY <1>1, <1>2, <1>3, <1>4, <1>5, <1>6, <1>7, <1>8, <1>9, NextCases

\* A task that begins stores under its root.
LEMMA BeginsOwn ==
  ASSUME TypeOK, TaskInv, NEW t \in Tasks, NEW kind \in {"batch", "rebuild"}, NEW r \in Roots, NEW ps,
         Idle(t), Begin(t, kind, r, r, ps)
  PROVE  TaskInv'
<1> DEFINE x == [NoTask EXCEPT !.kind = kind, !.root = r, !.db = r, !.todo = ps]
<1>2. task' = [task EXCEPT ![t] = x]
  BY DEF Begin
<1>3. /\ x.kind # None /\ x.root # None /\ x.db = x.root /\ x.hand = None /\ x.step = "next"
      /\ ~x.passed /\ x.older = {}
  BY IndexAssumption DEF NoTask
<1>4. task[t].hand = None
  BY DEF Idle, NoTask
<1> HIDE DEF x
<1>5. task'[t] = x /\ \A u \in Tasks \ {t} : task'[u] = task[u]
  BY <1>2 DEF TypeOK
<1> SUFFICES ASSUME NEW u \in Tasks PROVE TaskOK(u)'
  BY DEF TaskInv
<1>6. CASE u = t
  BY <1>3, <1>5, <1>6 DEF TaskOK
<1>7. CASE u # t
  BY <1>4, <1>5, <1>7, OlderTyped DEF TaskInv, TaskOK
<1> QED
  BY <1>6, <1>7

\* Every step keeps what a task is.
LEMMA TaskInvStep ==
  ASSUME TypeOK, WatchInv, TaskInv, OpenInv, [Next]_vars
  PROVE  TaskInv'
<1>1. ASSUME UNCHANGED task
      PROVE  TaskInv'
  BY <1>1 DEF TaskInv, TaskOK
<1>2. ASSUME NEW r \in Roots, Walk(r)
      PROVE  TaskInv'
  BY <1>2, OpenedOwn, BeginsOwn DEF Walk
<1>3. ASSUME NEW w \in Watchers, Drain(w)
      PROVE  TaskInv'
  <2> DEFINE r == watcher[w].root
             fresh == "sub" \in watcher[w].pending /\ r \in subdir /\ "sub" \notin watcher[w].watched
             emit == (watcher[w].pending \ {"sub"}) \cup IF fresh THEN InSub(r) ELSE {}
  <2>1. r \in Roots
    BY <1>3 DEF Drain, WatchInv, TypeOK
  <2>2. UNCHANGED task \/ \E t \in Tasks : Idle(t) /\ Begin(t, "batch", r, r, emit)
    BY <1>3, <2>1, OpenedOwn DEF Drain
  <2> HIDE DEF emit, r
  <2> QED
    BY <1>1, <2>1, <2>2, BeginsOwn
<1>4. ASSUME NEW t \in Tasks, NEW p \in Paths, NEW skip \in BOOLEAN, Takes(t, p, skip)
      PROVE  TaskInv'
  <2>1. task[t].kind # None /\ task[t].hand = None
    BY <1>4, IndexAssumption DEF Takes, Took
  <2> SUFFICES ASSUME NEW u \in Tasks PROVE TaskOK(u)'
    BY DEF TaskInv
  <2>2. /\ \A v \in Tasks \ {t} : task'[v] = task[v]
        /\ task'[t].kind = task[t].kind /\ task'[t].root = task[t].root /\ task'[t].db = task[t].db
        /\ ~task'[t].passed
        /\ skip => task'[t].hand = None /\ task'[t].step = "next" /\ task'[t].older = task[t].older
        /\ ~skip => task'[t].hand = p /\ task'[t].step \in {"read", "opened"} /\ task'[t].older = Holders(task[t].root, p)
    <3>1. \A v \in Tasks \ {t} : task'[v] = task[v]
      BY <1>4, TakesTask
    <3>2. task'[t].kind = task[t].kind /\ task'[t].root = task[t].root /\ task'[t].db = task[t].db /\ ~task'[t].passed
      BY <1>4, TakesTask
    <3>3. \/ /\ skip
             /\ task'[t].hand = None /\ task'[t].step = "next" /\ task'[t].older = task[t].older
          \/ /\ ~skip
             /\ task'[t].hand = p /\ task'[t].older = Holders(task[t].root, p)
             /\ task'[t].step = (IF fs[task[t].root][p] = Absent THEN "read" ELSE "opened")
             /\ task'[t].seen = [c |-> None, m |-> fs[task[t].root][p].m]
      BY <1>4, TakesHand
    <3> QED
      BY <3>1, <3>2, <3>3
  <2>4. CASE u # t
    <3>1. task'[u] = task[u] /\ TaskOK(u)
      BY <2>2, <2>4 DEF TaskInv
    <3>2. \A v \in task[u].older : v # t /\ task'[v] = task[v]
      BY <2>1, <2>2, <3>1, OlderTyped DEF TaskOK
    <3> QED
      BY <3>1, <3>2 DEF TaskOK
  <2>5. CASE u = t /\ skip
    <3>1. TaskOK(t)
      BY DEF TaskInv
    <3>2. \A v \in task[t].older : v # t /\ task'[v] = task[v]
      BY <2>1, <2>2, <3>1, OlderTyped DEF TaskOK
    <3> QED
      BY <2>1, <2>2, <2>5, <3>1, <3>2 DEF TaskOK
  <2>6. CASE u = t /\ ~skip
    <3>1. \A v \in Holders(task[t].root, p) : v \in Tasks \ {t} /\ task[v].hand = p /\ task[v].root = task[t].root
      BY <2>1, IndexAssumption DEF Holders
    <3>2. TaskOK(t) /\ p # None
      BY IndexAssumption DEF TaskInv
    <3> QED
      BY <2>1, <2>2, <2>6, <3>1, <3>2 DEF TaskOK
  <2> QED
    BY <2>4, <2>5, <2>6
<1>5. ASSUME NEW t \in Tasks, Handles(t)
      PROVE  TaskInv'
  <2>0. task[t].kind # None /\ task[t].hand # None /\ task[t].step # "next"
    <3>1. task[t].step # "next"
      BY <1>5 DEF Handles, ReadContent, Unchanged, Parse, Store
    <3> QED
      BY <3>1, AtWork, IndexAssumption
  <2>1. ASSUME NEW done \in BOOLEAN, PutDown(t, done)
        PROVE  TaskInv'
    <3> SUFFICES ASSUME NEW u \in Tasks PROVE TaskOK(u)'
      BY DEF TaskInv
    <3>1. CASE u = t
      BY <2>0, <2>1, <3>1, PutsDownFields DEF TaskInv, TaskOK
    <3>2. CASE u # t /\ task[u].kind # None
      BY <2>1, <3>2, PutsDownFields, OlderTyped DEF TaskInv, TaskOK
    <3>3. CASE u # t /\ task[u].kind = None
      <4>1. task[u] = NoTask
        BY <3>3 DEF TaskInv, TaskOK
      <4>0. task[u].hand = None
        BY <4>1 DEF NoTask
      <4>5. TaskOK(t)
        BY DEF TaskInv
      <4>2. u \notin task[t].older
        BY <4>0, <4>5 DEF TaskOK
      <4>3. task'[u] = [NoTask EXCEPT !.older = NoTask.older \ {t},
                                      !.passed = NoTask.passed \/ (done /\ u \in task[t].older)]
        BY <2>1, <3>3, <4>1, PutsDown
      <4>4. task'[u] = NoTask
        BY <4>2, <4>3 DEF NoTask
      <4> QED
        BY <4>1, <4>4 DEF TaskInv, TaskOK, NoTask
    <3> QED
      BY <3>1, <3>2, <3>3
  <2>2. ASSUME NEW x, task' = [task EXCEPT ![t] = x], x.kind = task[t].kind, x.root = task[t].root,
               x.db = task[t].db, x.hand = task[t].hand, x.step # "next", x.older = task[t].older
        PROVE  TaskInv'
    <3>1. task'[t] = x /\ \A u \in Tasks \ {t} : task'[u] = task[u]
      BY <2>2 DEF TypeOK
    <3> SUFFICES ASSUME NEW u \in Tasks PROVE TaskOK(u)'
      BY DEF TaskInv
    <3>2. CASE u = t
      BY <2>0, <2>2, <3>1, <3>2, OlderTyped DEF TaskInv, TaskOK
    <3>3. CASE u # t
      BY <2>2, <3>1, <3>3, OlderTyped DEF TaskInv, TaskOK
    <3> QED
      BY <3>2, <3>3
  <2>3. CASE Parse(t)
    <3> DEFINE x == [task[t] EXCEPT !.step = "parsed"]
    <3>1. task' = [task EXCEPT ![t] = x]
      BY <2>3 DEF Parse, TypeOK
    <3>2. x.kind = task[t].kind /\ x.root = task[t].root /\ x.db = task[t].db /\ x.hand = task[t].hand
          /\ x.step # "next" /\ x.older = task[t].older
      BY DEF TypeOK
    <3> HIDE DEF x
    <3> QED
      BY <2>2, <3>1, <3>2
  <2>4. CASE ReadContent(t) /\ ~PutDown(t, FALSE)
    <3> DEFINE x == [task[t] EXCEPT !.seen.c = fs[task[t].root][task[t].hand].c, !.step = "read"]
    <3>1. task' = [task EXCEPT ![t] = x]
      BY <2>4 DEF ReadContent, TypeOK
    <3>2. x.kind = task[t].kind /\ x.root = task[t].root /\ x.db = task[t].db /\ x.hand = task[t].hand
          /\ x.step # "next" /\ x.older = task[t].older
      BY DEF TypeOK
    <3> HIDE DEF x
    <3> QED
      BY <2>2, <3>1, <3>2
  <2> QED
    BY <1>5, <2>1, <2>3, <2>4 DEF Handles, Unchanged, Store
<1>6. ASSUME NEW t \in Tasks, TaskEnds(t)
      PROVE  TaskInv'
  <2>1. task[t].hand = None /\ task'[t] = NoTask /\ \A u \in Tasks \ {t} : task'[u] = task[u]
    BY <1>6 DEF TaskEnds, TypeOK
  <2> SUFFICES ASSUME NEW u \in Tasks PROVE TaskOK(u)'
    BY DEF TaskInv
  <2>2. CASE u = t
    BY <2>1, <2>2 DEF TaskOK, NoTask
  <2>3. CASE u # t
    BY <2>1, <2>3, OlderTyped DEF TaskInv, TaskOK
  <2> QED
    BY <2>2, <2>3
<1>7. ASSUME NEW e, NEW wipe \in BOOLEAN, Restart(e, wipe)
      PROVE  TaskInv'
  <2> DEFINE rs == {r \in Roots : env[r] = e}
  <2>1. task' = [t \in Tasks |-> IF task[t].root \in rs THEN NoTask ELSE task[t]]
    BY <1>7 DEF Restart
  <2> HIDE DEF rs
  <2> SUFFICES ASSUME NEW u \in Tasks PROVE TaskOK(u)'
    BY DEF TaskInv
  <2>2. CASE task[u].root \in rs
    BY <2>1, <2>2 DEF TaskOK, NoTask
  <2>3. CASE task[u].root \notin rs
    BY <2>1, <2>3, OlderTyped DEF TaskInv, TaskOK
  <2> QED
    BY <2>2, <2>3
<1>8. ASSUME NEW r \in Roots, Edits(r) \/ StartWatch(r)
      PROVE  UNCHANGED task
  BY <1>8 DEF Edits, DeleteFile, WriteFile, RemoveSub, Edit, StartWatch
<1>9. ASSUME NEW l \in Listings, EnsureInstall(l)
      PROVE  UNCHANGED task
  BY <1>9 DEF EnsureInstall
<1>10. UNCHANGED files => UNCHANGED task
  BY DEF files
<1> QED
  BY <1>1, <1>2, <1>3, <1>4, <1>5, <1>6, <1>7, <1>8, <1>9, <1>10, NextCases

------------------------------------------------------------------------------
(* Files and rows. *)


\* The tasks that hold a file are the same, and so is what they know.
SameHands(r, p) ==
  /\ Holders(r, p)' = Holders(r, p)
  /\ \A t \in Holders(r, p) :
       /\ task'[t].step = task[t].step /\ task'[t].seen = task[t].seen
       /\ task'[t].older = task[t].older /\ task'[t].passed = task[t].passed

\* Times and rows have the types to be compared.
LEMMA RowTyped ==
  ASSUME TypeOK, NEW r \in Roots, NEW p \in Paths
  PROVE  /\ now \in Nat /\ last[r][p].at \in Nat /\ last[r][p].twice \in BOOLEAN
         /\ fs[r][p] \in AFile /\ fs[r][p].m \in Nat /\ db[r][p] \in AFile /\ db[r][p].m \in Nat
         /\ \A t \in Holders(r, p) : t \in Tasks /\ task[t].seen \in AFile /\ task[t].seen.m \in Nat
BY DEF TypeOK, AFile, Holders

\* A file and its row left as they are, held as before, no word of the file lost.
LEMMA StillKeeps ==
  ASSUME TypeOK, TypeOK', NEW r \in Roots, NEW p \in Paths, FileInv(r, p), SameHands(r, p),
         fs'[r][p] = fs[r][p], db'[r][p] = db[r][p], last'[r][p] = last[r][p],
         overtaken'[r][p] = overtaken[r][p], now' = now \/ now' = now + 1,
         noticed'[r][p] => noticed[r][p] \/ Excused(r, p)',
         noticed'[r][p] /\ Excused(r, p) => Excused(r, p)'
  PROVE  FileInv(r, p)'
<1>1. TimeInv(r, p)'
  BY RowTyped DEF FileInv, TimeInv, SameHands
<1>2. SoundInv(r, p)'
  BY DEF FileInv, SoundInv, Sound, SameHands
<1>3. OrderInv(r, p)'
  BY DEF FileInv, OrderInv, SameHands
<1>4. \A t \in Holders(r, p) : (Newest(t, r, p) <=> Newest(t, r, p)') /\ (Current(t, r, p) <=> Current(t, r, p)')
  BY DEF Newest, Current, SameHands
<1>5. WordInv(r, p)'
  BY <1>4 DEF FileInv, WordInv, SameHands
<1>6. PassedInv(r, p)'
  BY DEF FileInv, PassedInv, SameHands
<1> QED
  BY <1>1, <1>2, <1>3, <1>5, <1>6 DEF FileInv

\* What an edit may do to a file and the note of its last write.
Alters(r, p) ==
  \/ fs'[r][p] = fs[r][p] /\ last'[r][p] = last[r][p]
  \/ fs'[r][p] = Absent /\ last'[r][p] = last[r][p]
  \/ /\ fs'[r][p].m = now
     /\ last'[r][p].at = now /\ (last'[r][p].twice <=> last[r][p].at = now)

\* A change that is known is on its way; one that is not known leaves nothing to keep.
LEMMA EditKeeps ==
  ASSUME TypeOK, TypeOK', NEW r \in Roots, NEW p \in Paths, FileInv(r, p), Alters(r, p),
         UNCHANGED <<now, db, task, overtaken>>,
         noticed'[r][p] => \/ Excused(r, p)'
                           \/ /\ noticed[r][p] /\ ~Excused(r, p)
                              /\ fs'[r][p] = fs[r][p] /\ last'[r][p] = last[r][p]
  PROVE  FileInv(r, p)'
<1>0. SameHands(r, p)
  BY DEF SameHands, Holders
<1>1. TimeInv(r, p)'
  BY <1>0, RowTyped DEF FileInv, TimeInv, SameHands, Alters, Absent
<1>2. SoundInv(r, p)'
  <2>1. ASSUME NEW x \in AFile, x.m \in Nat, x.m <= last[r][p].at, Sound(x, r, p)
        PROVE  x # Absent /\ fs'[r][p] # Absent /\ x.m = fs'[r][p].m /\ ~last'[r][p].twice => x = fs'[r][p]
    <3>1. CASE fs'[r][p] = fs[r][p] /\ last'[r][p] = last[r][p]
      BY <2>1, <3>1 DEF Sound
    <3>2. CASE fs'[r][p].m = now /\ last'[r][p].at = now /\ (last'[r][p].twice <=> last[r][p].at = now)
      <4>1. last[r][p].at <= now
        BY DEF FileInv, TimeInv
      <4>2. CASE last[r][p].at = now
        BY <3>2, <4>2
      <4>3. CASE last[r][p].at # now
        <5>1. last[r][p].at < now
          BY <4>1, <4>3, RowTyped
        <5>2. x.m < now
          BY <2>1, <5>1, RowTyped
        <5> QED
          BY <3>2, <5>2, RowTyped
      <4> QED
        BY <4>2, <4>3
    <3> QED
      BY <3>1, <3>2 DEF Alters
  <2>2. Sound(db[r][p], r, p)'
    BY <2>1, RowTyped DEF FileInv, TimeInv, SoundInv, Sound
  <2>3. ASSUME NEW t \in Holders(r, p), task[t].step # "opened"
        PROVE  Sound(task[t].seen, r, p)'
    BY <2>1, <2>3, RowTyped DEF FileInv, TimeInv, SoundInv, Sound
  <2> QED
    BY <1>0, <2>2, <2>3 DEF SoundInv, SameHands
<1>3. OrderInv(r, p)'
  BY <1>0 DEF FileInv, OrderInv, SameHands
<1>4. WordInv(r, p)'
  <2>1. CASE /\ noticed[r][p] /\ ~Excused(r, p)
             /\ fs'[r][p] = fs[r][p] /\ last'[r][p] = last[r][p]
    <3>1. \A t \in Holders(r, p) : (Newest(t, r, p) <=> Newest(t, r, p)') /\ (Current(t, r, p) <=> Current(t, r, p)')
      BY <1>0, <2>1 DEF Newest, Current, SameHands
    <3> QED
      BY <1>0, <2>1, <3>1 DEF FileInv, WordInv, SameHands
  <2> QED
    BY <2>1 DEF WordInv
<1>5. PassedInv(r, p)'
  BY <1>0 DEF FileInv, PassedInv, SameHands
<1> QED
  BY <1>1, <1>2, <1>3, <1>4, <1>5 DEF FileInv

\* A step that leaves the tasks leaves the holders and what is queued.
LEMMA SameTasks ==
  ASSUME UNCHANGED task, NEW r, NEW p
  PROVE  SameHands(r, p) /\ (Queued(r, p) <=> Queued(r, p)')
BY DEF SameHands, Holders, Queued

\* A task that begins holds nothing, and no work is lost.
LEMMA BeginHolds ==
  ASSUME TypeOK, NEW t \in Tasks, NEW kind \in {"batch", "rebuild"}, NEW s, NEW k, NEW ps,
         Idle(t), Begin(t, kind, s, k, ps), NEW r \in Roots, NEW p \in Paths
  PROVE  /\ SameHands(r, p)
         /\ Queued(r, p) => Queued(r, p)'
         /\ kind = "batch" /\ s = r /\ p \in ps => Queued(r, p)'
<1> DEFINE x == [NoTask EXCEPT !.kind = kind, !.root = s, !.db = k, !.todo = ps]
<1>1. task' = [task EXCEPT ![t] = x]
  BY DEF Begin
<1>2. x.kind = kind /\ x.root = s /\ x.todo = ps /\ x.hand = None
  BY DEF NoTask
<1>3. task[t].todo = {} /\ task[t].hand = None
  BY DEF Idle, NoTask
<1>4. None # p
  BY IndexAssumption
<1> HIDE DEF x
<1>5. \A u \in Tasks : u # t => task'[u] = task[u]
  BY <1>1 DEF TypeOK
<1>6. task'[t] = x
  BY <1>1 DEF TypeOK
<1>7. t \notin Holders(r, p) /\ t \notin Holders(r, p)'
  BY <1>2, <1>3, <1>4, <1>6 DEF Holders
<1>8. Holders(r, p)' = Holders(r, p)
  BY <1>5, <1>7 DEF Holders
<1>9. \A u \in Holders(r, p) : task'[u] = task[u]
  BY <1>5, <1>7 DEF Holders
<1> QED
  BY <1>2, <1>3, <1>5, <1>6, <1>8, <1>9 DEF SameHands, Queued

\* A change known to a watcher is pending in it.
LEMMA ChangeKept ==
  ASSUME TypeOK, TypeOK', WatchInv, NEW s \in Roots, NEW r \in Roots, NEW p \in Paths, FileInv(r, p),
         UNCHANGED <<env, now, db, task, overtaken>>, NEW told, NEW lost, Notify(s, told, lost), Alters(r, p),
         \/ noticed'[r][p] = noticed[r][p] /\ fs'[r][p] = fs[r][p] /\ last'[r][p] = last[r][p]
         \/ ~noticed'[r][p]
         \/ r = s /\ Watching(s, DirOf[p]) # {} /\ p \in told
  PROVE  FileInv(r, p)'
<1>1. Queued(r, p) => Queued(r, p)'
  BY SameTasks
<1>2. Pending(r, p) => Pending(r, p)'
  BY Notified DEF Pending
<1>3. CASE noticed'[r][p] = noticed[r][p] /\ fs'[r][p] = fs[r][p] /\ last'[r][p] = last[r][p]
  <2>1. Excused(r, p) => Excused(r, p)'
    BY <1>1, <1>2, <1>3 DEF Excused
  <2> QED
    BY <1>3, <2>1, EditKeeps
<1>4. CASE ~noticed'[r][p]
  BY <1>4, EditKeeps
<1>5. CASE r = s /\ Watching(s, DirOf[p]) # {} /\ p \in told
  <2>1. PICK w \in Watchers : watcher[w].live /\ watcher[w].root = r /\ DirOf[p] \in watcher[w].os
    BY <1>5 DEF Watching
  <2>2. p # "sub"
    BY IndexAssumption
  <2>3. Pending(r, p)'
    BY <1>5, <2>1, <2>2, Notified DEF Pending
  <2> QED
    BY <2>3, EditKeeps DEF Excused
<1> QED
  BY <1>3, <1>4, <1>5

\* Edits: the notify callback tells of every change that counts as known.
LEMMA EditsFile ==
  ASSUME TypeOK, TypeOK', WatchInv, NEW s \in Roots, Edits(s), NEW r \in Roots, NEW p \in Paths, FileInv(r, p)
  PROVE  FileInv(r, p)'
<1>0. UNCHANGED <<env, now, db, task, overtaken>>
  BY DEF Edits, DeleteFile, WriteFile, RemoveSub, Edit
<1>1. ASSUME NEW q \in Paths, DeleteFile(s, q)
      PROVE  FileInv(r, p)'
  <2>0. last' = last
    BY <1>1 DEF DeleteFile
  <2>3. \/ noticed'[r][p] = noticed[r][p] /\ fs'[r][p] = fs[r][p]
        \/ ~noticed'[r][p]
        \/ r = s /\ Watching(s, DirOf[p]) # {} /\ p \in {q}
    <3>0. /\ fs' = [fs EXCEPT ![s][q] = Absent]
          /\ noticed' = [noticed EXCEPT ![s] = [x \in Paths |-> IF x \in {q} THEN Watching(s, DirOf[x]) # {} ELSE noticed[s][x]]]
      BY <1>1 DEF DeleteFile, Changed, TypeOK
    <3>1. CASE r = s /\ p = q
      <4>1. noticed'[r][p] = (Watching(s, DirOf[q]) # {})
        BY <3>0, <3>1 DEF TypeOK
      <4> QED
        BY <3>1, <4>1
    <3>2. CASE ~(r = s /\ p = q)
      <4>1. noticed'[r][p] = noticed[r][p] /\ fs'[r][p] = fs[r][p]
        BY <3>0, <3>2 DEF TypeOK
      <4> QED
        BY <4>1
    <3> QED
      BY <3>1, <3>2
  <2>1. \/ noticed'[r][p] = noticed[r][p] /\ fs'[r][p] = fs[r][p] /\ last'[r][p] = last[r][p]
        \/ ~noticed'[r][p]
        \/ r = s /\ Watching(s, DirOf[p]) # {} /\ p \in {q}
    BY <2>0, <2>3
  <2>2. Notify(s, {q}, {}) /\ Alters(r, p)
    BY <1>1 DEF DeleteFile, TypeOK, Alters
  <2> QED
    BY <1>0, <2>1, <2>2, ChangeKept
<1>2. ASSUME NEW q \in Paths, NEW c \in Contents \cup {Huge}, WriteFile(s, q, c)
      PROVE  FileInv(r, p)'
  <2> DEFINE new == DirOf[q] = "sub" /\ s \notin subdir
             told == IF new THEN {"sub"} ELSE {q}
             note == [at |-> now, twice |-> last[s][q].at = now]
  <2>1. new => Watching(s, DirOf[q]) = {}
    BY DEF Watching, WatchInv
  <2>2. noticed' = [noticed EXCEPT ![s] = [x \in Paths |-> IF x \in {q} THEN Watching(s, DirOf[x]) # {} ELSE noticed[s][x]]]
    BY <1>2 DEF WriteFile, Changed, TypeOK
  <2>3. fs' = [fs EXCEPT ![s][q] = [c |-> c, m |-> now]] /\ last' = [last EXCEPT ![s][q] = note]
    BY <1>2 DEF WriteFile, TypeOK
  <2>4. note.at = now /\ (note.twice <=> last[s][q].at = now)
    OBVIOUS
  <2> HIDE DEF note
  <2>5. \/ noticed'[r][p] = noticed[r][p] /\ fs'[r][p] = fs[r][p] /\ last'[r][p] = last[r][p]
        \/ ~noticed'[r][p]
        \/ r = s /\ Watching(s, DirOf[p]) # {} /\ p \in told
    <3>1. CASE r = s /\ p = q
      <4>1. noticed'[r][p] = (Watching(s, DirOf[q]) # {})
        BY <2>2, <3>1 DEF TypeOK
      <4> QED
        BY <2>1, <3>1, <4>1
    <3>2. CASE ~(r = s /\ p = q)
      <4>1. noticed'[r][p] = noticed[r][p]
        BY <2>2, <3>2 DEF TypeOK
      <4>2. fs'[r][p] = fs[r][p] /\ last'[r][p] = last[r][p]
        BY <2>3, <3>2 DEF TypeOK
      <4> QED
        BY <4>1, <4>2
    <3> QED
      BY <3>1, <3>2
  <2>6. Notify(s, told, {})
    BY <1>2 DEF WriteFile
  <2>7. Alters(r, p)
    BY <2>3, <2>4 DEF Alters, TypeOK
  <2> QED
    BY <1>0, <2>5, <2>6, <2>7, ChangeKept
<1>3. ASSUME NEW moved \in BOOLEAN, RemoveSub(s, moved)
      PROVE  FileInv(r, p)'
  <2> DEFINE gone == {q \in Paths : DirOf[q] = "sub" /\ fs[s][q] # Absent}
             told == {"sub"} \cup (IF moved THEN {} ELSE gone)
  <2>1. fs' = [fs EXCEPT ![s] = [x \in Paths |-> IF x \in gone THEN Absent ELSE fs[s][x]]] /\ last' = last
    BY <1>3 DEF RemoveSub, TypeOK
  <2>2. Notify(s, told, {"sub"})
    BY <1>3 DEF RemoveSub
  <2>3. \/ noticed'[r][p] = noticed[r][p] /\ fs'[r][p] = fs[r][p] /\ last'[r][p] = last[r][p]
        \/ ~noticed'[r][p]
        \/ r = s /\ Watching(s, DirOf[p]) # {} /\ p \in told
    <3>2. CASE moved
      <4>1. noticed' = [noticed EXCEPT ![s] = [x \in Paths |-> noticed[s][x] /\ x \notin gone]]
        BY <1>3, <3>2 DEF RemoveSub, TypeOK
      <4> HIDE DEF gone
      <4> QED
        BY <2>1, <4>1 DEF TypeOK
    <3>3. CASE ~moved
      <4>1. noticed' = [noticed EXCEPT ![s] = [x \in Paths |-> IF x \in gone THEN Watching(s, DirOf[x]) # {} ELSE noticed[s][x]]]
        BY <1>3, <3>3 DEF RemoveSub, Changed, TypeOK
      <4>2. gone \subseteq told
        BY <3>3
      <4> HIDE DEF gone, told
      <4> QED
        BY <2>1, <4>1, <4>2 DEF TypeOK
    <3> QED
      BY <3>2, <3>3
  <2>4. Alters(r, p)
    <3> HIDE DEF gone
    <3> QED
      BY <2>1 DEF Alters, TypeOK
  <2> QED
    BY <1>0, <2>2, <2>3, <2>4, ChangeKept
<1> QED
  BY <1>1, <1>2, <1>3 DEF Edits

\* A watcher of the agent starts in an unused place: no other loses what it has to tell.
LEMMA StartFile ==
  ASSUME TypeOK, TypeOK', NEW s \in Roots, StartWatch(s), NEW r \in Roots, NEW p \in Paths, FileInv(r, p)
  PROVE  FileInv(r, p)'
<1>1. PICK w \in Watchers : watcher[w] = NoWatcher /\ watcher' = [watcher EXCEPT ![w] = Start(w, s)]
  BY DEF StartWatch
<1>2. UNCHANGED <<fs, db, task, noticed, overtaken, last, now>>
  BY DEF StartWatch, disk
<1>3. SameHands(r, p) /\ (Queued(r, p) => Queued(r, p)')
  BY <1>2, SameTasks
<1>4. Pending(r, p) => Pending(r, p)'
  BY <1>1 DEF Pending, NoWatcher, TypeOK
<1>5. Excused(r, p) => Excused(r, p)'
  BY <1>2, <1>3, <1>4 DEF Excused
<1> QED
  BY <1>2, <1>3, <1>5, StillKeeps

\* A watcher that is dropped takes what only it had to tell with it.
LEMMA InstallFile ==
  ASSUME TypeOK, TypeOK', WatchInv, NEW l \in Listings, EnsureInstall(l), NEW r \in Roots, NEW p \in Paths, FileInv(r, p)
  PROVE  FileInv(r, p)'
<1> DEFINE s == listing[l]
           old == {watchOf[KeyOf[s]]} \ {None}
<1>1. PICK w \in Watchers :
          /\ watcher[w] = NoWatcher
          /\ watcher' = [x \in Watchers |-> IF x = w THEN Start(w, s)
                                           ELSE IF x \in old THEN [watcher[x] EXCEPT !.live = FALSE, !.pending = {}]
                                           ELSE watcher[x]]
  BY DEF EnsureInstall
<1>2. UNCHANGED <<fs, db, task, overtaken, last, now>> /\ noticed' = Forgotten(old)
  BY DEF EnsureInstall, disk
<1> HIDE DEF s, old
<1>3. SameHands(r, p) /\ (Queued(r, p) => Queued(r, p)')
  BY <1>2, SameTasks
<1>4. noticed'[r][p] =>
        noticed[r][p] /\ \/ \A x \in old : watcher[x].root # r \/ p \notin watcher[x].pending
                         \/ \E x \in Watchers \ old : watcher[x].root = r /\ p \in watcher[x].pending
                         \/ Queued(r, p)
  BY <1>2 DEF Forgotten, Queued
<1>5. ASSUME NEW x \in Watchers \ old, watcher[x].root = r, p \in watcher[x].pending
      PROVE  Pending(r, p)'
  <2>1. watcher[x].live
    BY <1>5 DEF WatchInv
  <2>2. x # w
    <3>1. watcher[w] = NoWatcher
      BY <1>1
    <3> QED
      BY <1>5, <3>1 DEF NoWatcher
  <2>3. watcher'[x] = watcher[x]
    BY <1>1, <2>2
  <2> QED
    BY <1>5, <2>1, <2>3 DEF Pending
<1>6. ASSUME noticed'[r][p], Excused(r, p)
      PROVE  Excused(r, p)'
  <2>1. CASE Queued(r, p)
    BY <1>3, <2>1 DEF Excused
  <2>2. CASE fs[r][p].c = Huge \/ last[r][p].twice
    BY <1>2, <2>2 DEF Excused
  <2>3. CASE Pending(r, p) /\ ~Queued(r, p)
    <3>1. \E x \in Watchers \ old : watcher[x].root = r /\ p \in watcher[x].pending
      BY <1>4, <1>6, <2>3 DEF Pending
    <3> QED
      BY <1>5, <3>1 DEF Excused
  <2> QED
    BY <1>6, <2>1, <2>2, <2>3 DEF Excused
<1> QED
  BY <1>2, <1>3, <1>4, <1>6, StillKeeps

\* What a watcher tells becomes the work of a batch, or is lost with nothing known of it.
LEMMA DrainFile ==
  ASSUME TypeOK, TypeOK', WatchInv, NEW w \in Watchers, Drain(w), NEW r \in Roots, NEW p \in Paths, FileInv(r, p)
  PROVE  FileInv(r, p)'
<1> DEFINE s == watcher[w].root
           fresh == "sub" \in watcher[w].pending /\ s \in subdir /\ "sub" \notin watcher[w].watched
           emit == (watcher[w].pending \ {"sub"}) \cup IF fresh THEN InSub(s) ELSE {}
           more == IF fresh THEN {"sub"} ELSE {}
           x == [watcher[w] EXCEPT !.pending = {}, !.watched = @ \cup more, !.os = @ \cup more]
<1>1. UNCHANGED <<fs, db, overtaken, last, now>> /\ watcher' = [watcher EXCEPT ![w] = x]
  BY DEF Drain, disk
<1>2. p \in watcher[w].pending => p \in emit
  BY IndexAssumption
<1>3. s \in Roots
  BY DEF Drain, WatchInv, TypeOK
<1>4. \/ UNCHANGED task /\ noticed' = [noticed EXCEPT ![s] = [q \in Paths |-> noticed[s][q] /\ q \notin emit]]
      \/ /\ \E t \in Tasks : Idle(t) /\ Begin(t, "batch", s, Target(s), emit)
         /\ noticed' = [noticed EXCEPT ![s] = [q \in Paths |-> noticed[s][q] \/ q \in emit]]
  BY DEF Drain, TypeOK
<1> HIDE DEF emit, more, x
<1>5. Pending(r, p) => Pending(r, p)' \/ (s = r /\ p \in emit)
  BY <1>1, <1>2 DEF Pending, TypeOK
<1>6. CASE UNCHANGED task /\ noticed' = [noticed EXCEPT ![s] = [q \in Paths |-> noticed[s][q] /\ q \notin emit]]
  <2>1. SameHands(r, p) /\ (Queued(r, p) => Queued(r, p)')
    BY <1>6, SameTasks
  <2>2. noticed'[r][p] => noticed[r][p] /\ ~(s = r /\ p \in emit)
    BY <1>3, <1>6 DEF TypeOK
  <2>3. noticed'[r][p] /\ Excused(r, p) => Excused(r, p)'
    BY <1>1, <1>5, <2>1, <2>2 DEF Excused
  <2> QED
    BY <1>1, <1>6, <2>1, <2>2, <2>3, StillKeeps
<1>7. ASSUME NEW t \in Tasks, Idle(t), Begin(t, "batch", s, Target(s), emit),
             noticed' = [noticed EXCEPT ![s] = [q \in Paths |-> noticed[s][q] \/ q \in emit]]
      PROVE  FileInv(r, p)'
  <2>1. /\ SameHands(r, p)
        /\ Queued(r, p) => Queued(r, p)'
        /\ s = r /\ p \in emit => Queued(r, p)'
    BY <1>7, BeginHolds
  <2>2. noticed'[r][p] => noticed[r][p] \/ (s = r /\ p \in emit)
    BY <1>3, <1>7 DEF TypeOK
  <2>3. Excused(r, p) => Excused(r, p)'
    BY <1>1, <1>5, <2>1 DEF Excused
  <2>4. noticed'[r][p] => noticed[r][p] \/ Excused(r, p)'
    BY <2>1, <2>2 DEF Excused
  <2> QED
    BY <1>1, <2>1, <2>3, <2>4, StillKeeps
<1> QED
  BY <1>4, <1>6, <1>7

\* A walk begins.
LEMMA WalkFileInv ==
  ASSUME TypeOK, TypeOK', NEW s \in Roots, Walk(s), NEW r \in Roots, NEW p \in Paths, FileInv(r, p)
  PROVE  FileInv(r, p)'
<1>1. PICK t \in Tasks : Idle(t) /\ Begin(t, "rebuild", s, Opened(s), Paths)
  BY DEF Walk
<1>2. UNCHANGED <<fs, db, watcher, noticed, overtaken, last, now>>
  BY DEF Walk, disk
<1>3. /\ SameHands(r, p)
      /\ Queued(r, p) => Queued(r, p)'
  BY <1>1, BeginHolds
<1>4. Excused(r, p) => Excused(r, p)'
  BY <1>2, <1>3 DEF Excused, Pending
<1> QED
  BY <1>2, <1>3, <1>4, StillKeeps

\* The file a task takes, and all others.
LEMMA TakeOther ==
  ASSUME TypeOK, TypeOK', TaskInv, NEW t \in Tasks, NEW q \in Paths, NEW skip \in BOOLEAN, Takes(t, q, skip),
         NEW r \in Roots, NEW p \in Paths, FileInv(r, p), skip \/ ~(r = task[t].root /\ p = q)
  PROVE  FileInv(r, p)'
<1>1. /\ task[t].root \in Roots /\ task[t].hand = None
      /\ \A u \in Tasks \ {t} : task'[u] = task[u]
      /\ task'[t].kind = task[t].kind /\ task'[t].root = task[t].root /\ task'[t].todo = task[t].todo \ {q}
  BY TakesTask
<1>2. \/ /\ skip
         /\ task'[t].hand = None /\ task'[t].step = "next" /\ task'[t].older = task[t].older
      \/ /\ ~skip
         /\ task'[t].hand = q /\ task'[t].older = Holders(task[t].root, q)
         /\ task'[t].step = (IF fs[task[t].root][q] = Absent THEN "read" ELSE "opened")
         /\ task'[t].seen = [c |-> None, m |-> fs[task[t].root][q].m]
  BY TakesHand
<1>3. /\ noticed' = [noticed EXCEPT ![task[t].root] = [noticed[task[t].root] EXCEPT
                       ![q] = noticed[task[t].root][q] \/ (~skip /\ task[t].kind = "rebuild")]]
      /\ UNCHANGED <<db, watcher, fs, last, now, overtaken>>
  BY DEF Takes, Took, disk
<1>4. skip => TooLarge(t, q) \/ task[t].kind = "rebuild"
  BY DEF Takes
<1>5. None # p /\ None # q
  BY IndexAssumption
<1>6. t \notin Holders(r, p) /\ t \notin Holders(r, p)'
  BY <1>1, <1>2, <1>5 DEF Holders
<1>7. SameHands(r, p)
  <2>1. Holders(r, p)' = Holders(r, p)
    BY <1>1, <1>6 DEF Holders
  <2>2. \A u \in Holders(r, p) : task'[u] = task[u]
    BY <1>1, <1>6 DEF Holders
  <2> QED
    BY <2>1, <2>2 DEF SameHands
<1>8. noticed'[r][p] <=> noticed[r][p]
  <2>1. CASE r = task[t].root /\ p = q
    BY <1>3, <2>1 DEF TypeOK
  <2>2. CASE ~(r = task[t].root /\ p = q)
    BY <1>1, <1>3, <2>2 DEF TypeOK
  <2> QED
    BY <2>1, <2>2
<1>9. Excused(r, p) => Excused(r, p)'
  <2>1. CASE skip /\ r = task[t].root /\ p = q /\ TooLarge(t, q)
    BY <1>3, <2>1 DEF Excused, TooLarge
  <2>2. CASE task[t].kind = "rebuild" \/ ~(r = task[t].root /\ p = q)
    <3>1. Queued(r, p) => Queued(r, p)'
      BY <1>1, <2>2 DEF Queued
    <3> QED
      BY <1>3, <3>1 DEF Excused, Pending
  <2> QED
    BY <1>4, <2>1, <2>2
<1> QED
  BY <1>3, <1>7, <1>8, <1>9, StillKeeps

\* Who takes a file has it in hand as it is, after all that hold it.
LEMMA TakeFile ==
  ASSUME TypeOK, TypeOK', TaskInv, NEW t \in Tasks, NEW p \in Paths, Takes(t, p, FALSE),
         NEW r \in Roots, r = task[t].root, FileInv(r, p)
  PROVE  FileInv(r, p)'
<1>1. /\ task[t].hand = None
      /\ \A u \in Tasks \ {t} : task'[u] = task[u]
      /\ task'[t].root = task[t].root /\ ~task'[t].passed
  BY TakesTask
<1>2. /\ task'[t].hand = p /\ task'[t].older = Holders(r, p)
      /\ task'[t].step = (IF fs[r][p] = Absent THEN "read" ELSE "opened")
      /\ task'[t].seen = [c |-> None, m |-> fs[r][p].m]
  BY TakesHand
<1>3. UNCHANGED <<db, fs, last, now>>
  BY DEF Takes, Took, disk
<1>4. t \notin Holders(r, p) /\ Holders(r, p)' = Holders(r, p) \cup {t}
  <2>1. p # None
    BY IndexAssumption
  <2> QED
    BY <1>1, <1>2, <2>1 DEF Holders
<1>5. \A u \in Holders(r, p) : task'[u] = task[u]
  BY <1>1, <1>4 DEF Holders
<1>6. task'[t].seen.m = fs[r][p].m /\ (fs[r][p] = Absent => task'[t].seen = Absent)
  BY <1>2 DEF Absent
<1>7. TimeInv(r, p)'
  BY <1>3, <1>4, <1>5, <1>6 DEF FileInv, TimeInv
<1>8. SoundInv(r, p)'
  <2>1. task'[t].step # "opened" => Sound(task[t].seen, r, p)'
    BY <1>2, <1>3, <1>6 DEF Sound
  <2>2. \A u \in Holders(r, p) : task'[u].step # "opened" => Sound(task[u].seen, r, p)'
    BY <1>3, <1>5 DEF FileInv, SoundInv, Sound
  <2> QED
    BY <1>3, <1>4, <2>1, <2>2 DEF FileInv, SoundInv, Sound
<1>9. OrderInv(r, p)'
  BY <1>1, <1>2, <1>4, <1>5 DEF FileInv, OrderInv
<1>10. WordInv(r, p)'
  <2>1. Current(t, r, p)'
    BY <1>2, <1>3, <1>6 DEF Current
  <2>2. \A u \in Holders(r, p) : ~Newest(u, r, p)'
    BY <1>4, <1>5 DEF FileInv, OrderInv, Newest
  <2> QED
    BY <1>1, <1>4, <2>1, <2>2 DEF WordInv
<1>11. PassedInv(r, p)'
  BY <1>1, <1>4, <1>5 DEF FileInv, OrderInv, PassedInv
<1> QED
  BY <1>7, <1>8, <1>9, <1>10, <1>11 DEF FileInv

\* The file a task puts down, and all others.
LEMMA PutOther ==
  ASSUME TypeOK, TypeOK', TaskInv, NEW t \in Tasks, NEW done \in BOOLEAN, PutDown(t, done),
         task[t].step # "next", NEW r \in Roots, NEW p \in Paths, FileInv(r, p),
         ~(r = task[t].root /\ p = task[t].hand), fs'[r][p] = fs[r][p], db'[r][p] = db[r][p],
         overtaken'[r][p] = overtaken[r][p], UNCHANGED <<watcher, noticed, last, now>>
  PROVE  FileInv(r, p)'
<1>1. None # p
  BY IndexAssumption
<1>2. t \notin Holders(r, p) /\ t \notin Holders(r, p)'
  BY <1>1, PutsDownFields DEF Holders
<1>3. Holders(r, p)' = Holders(r, p)
  BY <1>2, PutsDownFields DEF Holders
<1>4. ASSUME NEW u \in Holders(r, p)
      PROVE  u \in Tasks \ {t} /\ u \notin task[t].older /\ t \notin task[u].older
  <2>1. u \in Tasks \ {t} /\ task[u].root = r /\ task[u].hand = p
    BY <1>2 DEF Holders
  <2>2. u \notin task[t].older
    <3>1. TaskOK(t)
      BY DEF TaskInv
    <3> QED
      BY <2>1, <3>1 DEF TaskOK
  <2>3. t \notin task[u].older
    BY <1>2 DEF FileInv, OrderInv
  <2> QED
    BY <2>1, <2>2, <2>3
<1>5. SameHands(r, p)
  <2> SUFFICES ASSUME NEW u \in Holders(r, p)
               PROVE  /\ task'[u].step = task[u].step /\ task'[u].seen = task[u].seen
                      /\ task'[u].older = task[u].older /\ task'[u].passed = task[u].passed
    BY <1>3 DEF SameHands
  <2>1. /\ task'[u].step = task[u].step /\ task'[u].seen = task[u].seen
        /\ task'[u].older = task[u].older \ {t}
        /\ task'[u].passed <=> task[u].passed \/ (done /\ u \in task[t].older)
    BY <1>4, PutsDownFields
  <2>2. task'[u].passed \in BOOLEAN /\ task[u].passed \in BOOLEAN
    BY <1>4 DEF TypeOK
  <2> QED
    BY <1>4, <2>1, <2>2
<1>6. Queued(r, p) => Queued(r, p)'
  BY PutsDownFields DEF Queued
<1>7. Excused(r, p) => Excused(r, p)'
  BY <1>6 DEF Excused, Pending
<1> QED
  BY <1>5, <1>7, StillKeeps

\* What is left at a file that a task has put down: the others, ...
LEMMA PutHands ==
  ASSUME TypeOK, TaskInv, NEW t \in Tasks, NEW done \in BOOLEAN, PutDown(t, done), task[t].step # "next",
         NEW r \in Roots, NEW p \in Paths, FileInv(r, p), r = task[t].root, p = task[t].hand
  PROVE  /\ t \in Holders(r, p) /\ Holders(r, p)' = Holders(r, p) \ {t}
         /\ Holders(r, p) \subseteq Tasks
         /\ \A u \in Holders(r, p) \ {t} : task'[u].older = task[u].older \ {t}
         /\ \A u \in Holders(r, p) \ {t} : task'[u].step = task[u].step /\ task'[u].seen = task[u].seen
<1>1. t \in Holders(r, p)
  BY DEF Holders
<1>2. None # p
  BY IndexAssumption
<1>3. Holders(r, p)' = Holders(r, p) \ {t}
  BY <1>2, PutsDownFields DEF Holders
<1>4. Holders(r, p) \subseteq Tasks
  BY DEF Holders
<1>5. \A u \in Holders(r, p) \ {t} : task'[u].older = task[u].older \ {t}
  BY <1>4, PutsDownFields
<1>6. \A u \in Holders(r, p) \ {t} : task'[u].step = task[u].step /\ task'[u].seen = task[u].seen
  BY <1>4, PutsDownFields
<1> QED
  BY <1>1, <1>3, <1>4, <1>5, <1>6

\* ... who are passed if they were or came before, ...
LEMMA PutPassed ==
  ASSUME TypeOK, TaskInv, NEW t \in Tasks, NEW done \in BOOLEAN, PutDown(t, done), task[t].step # "next",
         NEW r \in Roots, NEW p \in Paths, FileInv(r, p), r = task[t].root, p = task[t].hand
  PROVE  \A u \in Holders(r, p) \ {t} : task'[u].passed <=> task[u].passed \/ (done /\ u \in task[t].older)
<1>1. Holders(r, p) \subseteq Tasks
  BY DEF Holders
<1> QED
  BY <1>1, PutsDownFields

\* ... and in their order.
LEMMA PutOrder ==
  ASSUME TypeOK, TaskInv, NEW t \in Tasks, NEW done \in BOOLEAN, PutDown(t, done), task[t].step # "next",
         NEW r \in Roots, NEW p \in Paths, FileInv(r, p), r = task[t].root, p = task[t].hand
  PROVE  OrderInv(r, p)' /\ PassedInv(r, p)'
<1> DEFINE H == Holders(r, p)
<1>1. t \in H /\ Holders(r, p)' = H \ {t} /\ \A u \in H \ {t} : task'[u].older = task[u].older \ {t}
  BY PutHands
<1>2. OrderInv(r, p) /\ PassedInv(r, p)
  BY DEF FileInv
<1>3. \A u, v \in H : v \in task[u].older => task[v].older \subseteq task[u].older
  BY <1>2 DEF OrderInv
<1>4. OrderInv(r, p)'
  <2>1. \A u \in H \ {t} : task'[u].older \subseteq (H \ {t}) \ {u}
    BY <1>1, <1>2 DEF OrderInv
  <2>2. \A u, v \in H \ {t} : u = v \/ u \in task'[v].older \/ v \in task'[u].older
    BY <1>1, <1>2 DEF OrderInv
  <2>3. \A u, v \in H \ {t} : v \in task'[u].older => u \notin task'[v].older
    BY <1>1, <1>2 DEF OrderInv
  <2>4. \A u, v \in H \ {t} : v \in task'[u].older => task'[v].older \subseteq task'[u].older
    BY <1>1, <1>3
  <2> HIDE DEF H
  <2> QED
    BY <1>1, <2>1, <2>2, <2>3, <2>4 DEF OrderInv
<1>5. ASSUME NEW u \in H \ {t}, NEW v \in H \ {t}, v \in task'[u].older, task'[u].passed
      PROVE  task'[v].passed
  <2>1. v \in task[u].older
    BY <1>1, <1>5
  <2>2. task[u].passed \/ (done /\ u \in task[t].older)
    BY <1>5, PutPassed
  <2>3. CASE task[u].passed
    <3>1. task[v].passed
      BY <1>2, <2>1, <2>3 DEF PassedInv
    <3> QED
      BY <3>1, PutPassed
  <2>4. CASE done /\ u \in task[t].older
    <3>1. v \in task[t].older
      BY <1>1, <1>3, <2>1, <2>4
    <3> QED
      BY <2>4, <3>1, PutPassed
  <2> QED
    BY <2>2, <2>3, <2>4
<1>6. PassedInv(r, p)'
  BY <1>1, <1>5 DEF PassedInv
<1> QED
  BY <1>4, <1>6

\* A task that is not passed and not the last leaves one that is not passed.
LEMMA PutLeaves ==
  ASSUME TypeOK, TaskInv, NEW t \in Tasks, NEW done \in BOOLEAN, PutDown(t, done), task[t].step # "next",
         NEW r \in Roots, NEW p \in Paths, FileInv(r, p), r = task[t].root, p = task[t].hand,
         ~task[t].passed, ~Newest(t, r, p)
  PROVE  \E u \in Holders(r, p) \ {t} : u \notin task[t].older /\ t \in task[u].older /\ ~task'[u].passed
<1>1. PICK u \in Holders(r, p) \ {t} : u \notin task[t].older
  BY DEF Newest
<1>2. t \in Holders(r, p) /\ OrderInv(r, p) /\ PassedInv(r, p)
  BY PutHands DEF FileInv
<1>3. t \in task[u].older
  BY <1>1, <1>2 DEF OrderInv
<1>4. ~task[u].passed
  BY <1>1, <1>2, <1>3 DEF PassedInv
<1>5. ~task'[u].passed
  BY <1>1, <1>4, PutPassed
<1> QED
  BY <1>1, <1>3, <1>5

\* Who is now the last and not passed was it before, or came right before a task that was the
\* last and gave its file up.
LEMMA PutNewest ==
  ASSUME TypeOK, TaskInv, NEW t \in Tasks, NEW done \in BOOLEAN, PutDown(t, done), task[t].step # "next",
         NEW r \in Roots, NEW p \in Paths, FileInv(r, p), r = task[t].root, p = task[t].hand,
         NEW v \in Holders(r, p) \ {t}, Newest(v, r, p)', ~task'[v].passed
  PROVE  ~task[v].passed /\ (Newest(v, r, p) \/ (~done /\ ~task[t].passed /\ Newest(t, r, p)))
<1>1. /\ t \in Holders(r, p) /\ Holders(r, p)' = Holders(r, p) \ {t}
      /\ \A u \in Holders(r, p) \ {t} : task'[u].older = task[u].older \ {t}
  BY PutHands
<1>2. OrderInv(r, p) /\ PassedInv(r, p)
  BY DEF FileInv
<1>3. ~task[v].passed /\ ~(done /\ v \in task[t].older)
  BY PutPassed
<1>4. Holders(r, p) \ {t} \subseteq task[v].older \cup {v}
  BY <1>1 DEF Newest
<1>5. CASE t \in task[v].older
  BY <1>3, <1>4, <1>5 DEF Newest
<1>6. CASE t \notin task[v].older
  <2>1. v \in task[t].older
    BY <1>1, <1>2, <1>6 DEF OrderInv
  <2>2. ~task[t].passed
    BY <1>1, <1>2, <1>3, <2>1 DEF PassedInv
  <2>3. ASSUME ~Newest(t, r, p)
        PROVE  FALSE
    <3>1. PICK u \in Holders(r, p) \ {t} : u \notin task[t].older /\ t \in task[u].older
      BY <2>2, <2>3, PutLeaves
    <3>2. v \in task[u].older
      BY <1>1, <1>2, <2>1, <3>1 DEF OrderInv
    <3>3. u \in task[v].older
      BY <1>4, <2>1, <3>1
    <3> QED
      BY <1>2, <3>1, <3>2, <3>3 DEF OrderInv
  <2> QED
    BY <1>3, <2>1, <2>2, <2>3
<1> QED
  BY <1>5, <1>6

\* What is read of a file in hand is as good as what was known of it.
LEMMA HandStays ==
  ASSUME TypeOK, TypeOK', NEW t \in Tasks, NEW r \in Roots, NEW p \in Paths, FileInv(r, p),
         \A u \in Tasks \ {t} : task'[u] = task[u],
         task'[t].kind = task[t].kind, task'[t].root = task[t].root, task'[t].todo = task[t].todo,
         task'[t].hand = task[t].hand, task'[t].older = task[t].older, task'[t].passed = task[t].passed,
         task'[t].seen.m = task[t].seen.m,
         t \in Holders(r, p) => Sound(task'[t].seen, r, p) /\ (Current(t, r, p) => Current(t, r, p)'),
         UNCHANGED <<db, watcher, noticed, overtaken, fs, last, now>>
  PROVE  FileInv(r, p)'
<1>1. Holders(r, p)' = Holders(r, p)
  BY DEF Holders
<1>2. \A u \in Holders(r, p) : task'[u].older = task[u].older /\ task'[u].passed = task[u].passed
  BY DEF Holders
<1>3. \A u \in Holders(r, p) \ {t} : task'[u] = task[u]
  BY DEF Holders
<1>4. TimeInv(r, p)'
  BY <1>1, <1>3 DEF FileInv, TimeInv
<1>5. SoundInv(r, p)'
  BY <1>1, <1>3 DEF FileInv, SoundInv, Sound
<1>6. OrderInv(r, p)'
  BY <1>1, <1>2 DEF FileInv, OrderInv
<1>7. PassedInv(r, p)'
  BY <1>1, <1>2 DEF FileInv, PassedInv
<1>8. Excused(r, p) => Excused(r, p)'
  BY DEF Excused, Pending, Queued
<1>9. \A u \in Holders(r, p) : (Newest(u, r, p)' => Newest(u, r, p)) /\ (Current(u, r, p) => Current(u, r, p)')
  BY <1>1, <1>2, <1>3 DEF Newest, Current
<1>10. WordInv(r, p)'
  <2>1. WordInv(r, p)
    BY DEF FileInv
  <2> QED
    BY <1>1, <1>2, <1>8, <1>9, <2>1 DEF WordInv
<1> QED
  BY <1>4, <1>5, <1>6, <1>7, <1>10 DEF FileInv

\* A reading has the metadata of before and the content of now; a parse adds nothing.
LEMMA ReadFile ==
  ASSUME TypeOK, TypeOK', TaskInv, NEW t \in Tasks, Parse(t) \/ (ReadContent(t) /\ fs[task[t].root][task[t].hand] # Absent),
         NEW r \in Roots, NEW p \in Paths, FileInv(r, p)
  PROVE  FileInv(r, p)'
<1>1. task[t] \in ATask
  BY DEF TypeOK, ATask, AFile
<1>2. CASE Parse(t)
  <2> DEFINE x == [task[t] EXCEPT !.step = "parsed"]
  <2>1. /\ task' = [task EXCEPT ![t] = x] /\ task[t].step = "read"
        /\ UNCHANGED <<db, watcher, noticed, overtaken, fs, last, now>>
    BY <1>2 DEF Parse, TypeOK, disk
  <2>2. /\ x.kind = task[t].kind /\ x.root = task[t].root /\ x.todo = task[t].todo /\ x.hand = task[t].hand
        /\ x.older = task[t].older /\ x.passed = task[t].passed /\ x.seen = task[t].seen /\ x.step = "parsed"
    BY <1>1 DEF ATask
  <2> HIDE DEF x
  <2>3. task'[t] = x /\ \A u \in Tasks \ {t} : task'[u] = task[u]
    BY <2>1 DEF TypeOK
  <2>4. t \in Holders(r, p) => Sound(task'[t].seen, r, p) /\ (Current(t, r, p) => Current(t, r, p)')
    BY <2>1, <2>2, <2>3 DEF FileInv, SoundInv, Sound, Current
  <2> QED
    BY <2>1, <2>2, <2>3, <2>4, HandStays
<1>3. CASE ReadContent(t) /\ fs[task[t].root][task[t].hand] # Absent
  <2> DEFINE file == fs[task[t].root][task[t].hand]
             y == [task[t].seen EXCEPT !.c = file.c]
             x == [task[t] EXCEPT !.seen = y, !.step = "read"]
  <2>0. task[t].step = "opened" /\ task[t].root \in Roots /\ task[t].hand \in Paths
    BY <1>3, AtWork DEF ReadContent
  <2> DEFINE z == [task[t] EXCEPT !.seen.c = file.c, !.step = "read"]
  <2>1. task' = [task EXCEPT ![t] = z]
    BY <1>3 DEF ReadContent, TypeOK
  <2>2. z = x
    BY <1>1 DEF ATask
  <2> HIDE DEF z
  <2>3. UNCHANGED <<db, watcher, noticed, overtaken, fs, last, now>>
    BY <1>3 DEF ReadContent, disk
  <2>4. file \in AFile /\ y \in AFile /\ y.c = file.c /\ y.m = task[t].seen.m
    <3>1. file \in AFile
      BY <2>0 DEF TypeOK, AFile
    <3> HIDE DEF file
    <3> QED
      BY <1>1, <3>1 DEF ATask, AFile
  <2> HIDE DEF y
  <2>5. /\ x.kind = task[t].kind /\ x.root = task[t].root /\ x.todo = task[t].todo /\ x.hand = task[t].hand
        /\ x.older = task[t].older /\ x.passed = task[t].passed /\ x.seen = y /\ x.step = "read"
    BY <1>1 DEF ATask
  <2> HIDE DEF x
  <2>6. task'[t] = x /\ \A u \in Tasks \ {t} : task'[u] = task[u]
    BY <2>1, <2>2 DEF TypeOK
  <2>7. y.m = file.m => y = file
    BY <2>4 DEF AFile
  <2>8. t \in Holders(r, p) => file = fs[r][p]
    BY DEF Holders
  <2>9. t \in Holders(r, p) => Sound(task'[t].seen, r, p) /\ (Current(t, r, p) => Current(t, r, p)')
    <3>1. t \in Holders(r, p) => Sound(y, r, p)
      BY <2>7, <2>8 DEF Sound
    <3>2. t \in Holders(r, p) /\ Current(t, r, p) => y = fs[r][p]
      BY <2>0, <2>4, <2>7, <2>8 DEF Current
    <3> QED
      BY <2>3, <2>5, <2>6, <3>1, <3>2 DEF Current
  <2> QED
    BY <2>3, <2>4, <2>5, <2>6, <2>9, HandStays
<1> QED
  BY <1>2, <1>3

\* The times and rows of a file that is put down.
LEMMA PutRow ==
  ASSUME TypeOK, TaskInv, NEW t \in Tasks, NEW done \in BOOLEAN, PutDown(t, done), task[t].step # "next",
         NEW r \in Roots, NEW p \in Paths, FileInv(r, p), r = task[t].root, p = task[t].hand,
         UNCHANGED <<fs, last, now>>,
         db'[r][p] = db[r][p] \/ (db'[r][p] = task[t].seen /\ task[t].step # "opened")
  PROVE  TimeInv(r, p)' /\ SoundInv(r, p)'
<1>1. /\ t \in Holders(r, p) /\ Holders(r, p)' = Holders(r, p) \ {t}
      /\ \A u \in Holders(r, p) \ {t} : task'[u].step = task[u].step /\ task'[u].seen = task[u].seen
  BY PutHands
<1>2. TimeInv(r, p) /\ SoundInv(r, p)
  BY DEF FileInv
<1>3. TimeInv(r, p)'
  BY <1>1, <1>2 DEF TimeInv
<1>4. Sound(db'[r][p], r, p)
  BY <1>1, <1>2 DEF SoundInv
<1>5. SoundInv(r, p)'
  BY <1>1, <1>2, <1>4 DEF SoundInv, Sound
<1> QED
  BY <1>3, <1>5

\* Once all are passed but the one that puts the file down, either it was the last and not
\* passed, or it was passed and all were passed before.
LEMMA PutAll ==
  ASSUME TypeOK, TaskInv, NEW t \in Tasks, NEW done \in BOOLEAN, PutDown(t, done), task[t].step # "next",
         NEW r \in Roots, NEW p \in Paths, FileInv(r, p), r = task[t].root, p = task[t].hand,
         \A u \in Holders(r, p) \ {t} : task'[u].passed
  PROVE  \/ ~task[t].passed /\ Newest(t, r, p)
         \/ task[t].passed /\ \A u \in Holders(r, p) : task[u].passed
<1>1. CASE ~task[t].passed
  BY <1>1, PutLeaves
<1>2. CASE task[t].passed
  <2>1. t \in Holders(r, p) /\ PassedInv(r, p)
    BY PutHands DEF FileInv
  <2>2. ASSUME NEW u \in Holders(r, p) \ {t}
        PROVE  task[u].passed
    <3>1. task[u].passed \/ u \in task[t].older
      BY PutPassed
    <3> QED
      BY <1>2, <2>1, <3>1 DEF PassedInv
  <2> QED
    BY <1>2, <2>2
<1> QED
  BY <1>1, <1>2

\* A file is put down with its row as it should be.
LEMMA PutFile ==
  ASSUME TypeOK, TypeOK', TaskInv, NEW t \in Tasks, Handles(t), 
         ~Parse(t), ~(ReadContent(t) /\ fs[task[t].root][task[t].hand] # Absent),
         NEW r \in Roots, NEW p \in Paths, FileInv(r, p)
  PROVE  FileInv(r, p)'
<1> DEFINE gone == ReadContent(t) /\ PutDown(t, FALSE) /\ fs[task[t].root][task[t].hand] = Absent
<1>0. gone \/ Unchanged(t) \/ Store(t)
  BY DEF Handles, ReadContent
<1>1. /\ task[t].step # "next" /\ UNCHANGED <<watcher, noticed, fs, last, now>>
  BY <1>0 DEF ReadContent, Unchanged, Store, disk
<1>2. task[t].root \in Roots /\ task[t].hand \in Paths /\ task[t].db = task[t].root
  BY <1>1, AtWork
<1>3. PICK done \in BOOLEAN : PutDown(t, done) /\ (~done => gone)
  BY <1>0 DEF Unchanged, Store
<1>4. gone => UNCHANGED <<db, overtaken>>
  BY DEF ReadContent
<1>5. CASE ~(r = task[t].root /\ p = task[t].hand)
  <2>1. db'[r][p] = db[r][p]
    <3>1. db \in [Roots -> [Paths -> AFile]]
      BY DEF TypeOK, AFile
    <3>2. UNCHANGED db \/ db' = [db EXCEPT ![task[t].root][task[t].hand] = task[t].seen]
      BY <1>0, <1>2, <1>4 DEF Unchanged, Store
    <3>3. ASSUME NEW x
          PROVE  [db EXCEPT ![task[t].root][task[t].hand] = x][r][p] = db[r][p]
      BY <1>2, <1>5, <3>1
    <3>4. [db EXCEPT ![task[t].root][task[t].hand] = task[t].seen][r][p] = db[r][p]
      BY <3>3
    <3> QED
      BY <3>2, <3>4, Zenon
  <2>2. overtaken'[r][p] = overtaken[r][p]
    <3> DEFINE now1 == overtaken[task[t].root][task[t].hand] /\ task[t].passed
    <3>1. overtaken \in [Roots -> [Paths -> BOOLEAN]]
      BY DEF TypeOK
    <3>2. \/ UNCHANGED overtaken
          \/ overtaken' = [overtaken EXCEPT ![task[t].root][task[t].hand] = task[t].passed]
          \/ overtaken' = [overtaken EXCEPT ![task[t].root][task[t].hand] = now1]
      BY <1>0, <1>4 DEF Unchanged, Store
    <3>3. ASSUME NEW x
          PROVE  [overtaken EXCEPT ![task[t].root][task[t].hand] = x][r][p] = overtaken[r][p]
      BY <1>2, <1>5, <3>1
    <3>4. [overtaken EXCEPT ![task[t].root][task[t].hand] = task[t].passed][r][p] = overtaken[r][p]
      BY <3>3
    <3>5. [overtaken EXCEPT ![task[t].root][task[t].hand] = now1][r][p] = overtaken[r][p]
      BY <3>3
    <3> HIDE DEF now1
    <3> QED
      BY <3>2, <3>4, <3>5, Zenon
  <2> QED
    BY <1>1, <1>3, <1>5, <2>1, <2>2, PutOther
<1>6. CASE r = task[t].root /\ p = task[t].hand
  <2>1. Store(t) => /\ task[t].step = "parsed" /\ db'[r][p] = task[t].seen
                    /\ overtaken'[r][p] = task[t].passed
    BY <1>2, <1>6 DEF Store, TypeOK
  <2>2. Unchanged(t) => /\ task[t].step = "read" /\ db'[r][p] = db[r][p]
                        /\ overtaken'[r][p] = (overtaken[r][p] /\ task[t].passed)
    BY <1>2, <1>6 DEF Unchanged, TypeOK
  <2>3. gone => task[t].step = "opened" /\ db'[r][p] = db[r][p] /\ overtaken'[r][p] = overtaken[r][p]
    BY <1>4 DEF ReadContent
  <2>4. TimeInv(r, p)' /\ SoundInv(r, p)'
    BY <1>0, <1>1, <1>3, <1>6, <2>1, <2>2, <2>3, PutRow
  <2>5. OrderInv(r, p)' /\ PassedInv(r, p)'
    BY <1>1, <1>3, <1>6, PutOrder
  <2>6. /\ t \in Holders(r, p) /\ Holders(r, p)' = Holders(r, p) \ {t}
        /\ \A u \in Holders(r, p) \ {t} : task'[u].step = task[u].step /\ task'[u].seen = task[u].seen
    BY <1>1, <1>3, <1>6, PutHands
  <2>7. SoundInv(r, p) /\ WordInv(r, p)
    BY DEF FileInv
  <2>8. WordInv(r, p)'
    <3>1. Excused(r, p) => Excused(r, p)'
      BY <1>1, <1>3, PutsDownFields DEF Excused, Pending, Queued
    <3> SUFFICES ASSUME noticed[r][p], ~Excused(r, p)
                 PROVE  /\ \A v \in Holders(r, p)' : Newest(v, r, p)' /\ ~task'[v].passed => Current(v, r, p)'
                        /\ (\A v \in Holders(r, p)' : task'[v].passed) /\ ~overtaken'[r][p] => db'[r][p] = fs'[r][p]
      BY <1>1, <3>1 DEF WordInv
    <3>2. ~task[t].passed /\ Newest(t, r, p) => Current(t, r, p) /\ ~gone
      <4>1. ~task[t].passed /\ Newest(t, r, p) => Current(t, r, p)
        BY <2>6, <2>7 DEF WordInv
      <4>2. gone => ~Current(t, r, p)
        <5>1. gone => fs[r][p] = Absent
          BY <1>6
        <5> QED
          BY <2>3, <5>1 DEF Current
      <4> QED
        BY <4>1, <4>2
    <3>3. ASSUME NEW v \in Holders(r, p) \ {t}, Newest(v, r, p)', ~task'[v].passed
          PROVE  Current(v, r, p)'
      <4>1. ~task[v].passed /\ (Newest(v, r, p) \/ (~done /\ ~task[t].passed /\ Newest(t, r, p)))
        BY <1>1, <1>3, <1>6, <3>3, PutNewest
      <4>2. ~task[v].passed /\ Newest(v, r, p)
        BY <1>3, <3>2, <4>1
      <4>3. Current(v, r, p)
        BY <2>7, <4>2 DEF WordInv
      <4> QED
        BY <1>1, <2>6, <4>3 DEF Current
    <3>4. ASSUME \A v \in Holders(r, p) \ {t} : task'[v].passed, ~overtaken'[r][p]
          PROVE  db'[r][p] = fs[r][p]
      <4>1. \/ ~task[t].passed /\ Newest(t, r, p)
            \/ task[t].passed /\ \A u \in Holders(r, p) : task[u].passed
        BY <1>1, <1>3, <1>6, <3>4, PutAll
      <4>2. CASE task[t].passed /\ \A u \in Holders(r, p) : task[u].passed
        <5>1. ~Store(t)
          BY <2>1, <3>4, <4>2
        <5>2. db'[r][p] = db[r][p] /\ ~overtaken[r][p]
          BY <1>0, <2>2, <2>3, <3>4, <4>2, <5>1
        <5> QED
          BY <2>7, <4>2, <5>2 DEF WordInv
      <4>3. CASE ~task[t].passed /\ Newest(t, r, p)
        <5>1. Current(t, r, p) /\ ~gone
          BY <3>2, <4>3
        <5>2. CASE Store(t)
          BY <2>1, <5>1, <5>2 DEF Current
        <5>3. CASE Unchanged(t)
          <6>1. task[t].seen = fs[r][p]
            BY <2>2, <5>1, <5>3 DEF Current
          <6>2. task[t].seen # Absent /\ db[r][p] # Absent /\ db[r][p].m = task[t].seen.m
            BY <1>2, <1>6, <5>3 DEF Unchanged, SameMtime
          <6>3. ~last[r][p].twice
            BY DEF Excused
          <6>4. db[r][p] = fs[r][p]
            BY <2>7, <6>1, <6>2, <6>3 DEF SoundInv, Sound
          <6> QED
            BY <2>2, <5>3, <6>4
        <5> QED
          BY <1>0, <5>1, <5>2, <5>3
      <4> QED
        BY <4>1, <4>2, <4>3
    <3> QED
      BY <1>1, <2>6, <3>3, <3>4
  <2> QED
    BY <2>4, <2>5, <2>8 DEF FileInv
<1> QED
  BY <1>5, <1>6

\* A task ends with nothing to do and nothing in hand.
LEMMA EndFile ==
  ASSUME TypeOK, TypeOK', NEW t \in Tasks, TaskEnds(t), NEW r \in Roots, NEW p \in Paths, FileInv(r, p)
  PROVE  FileInv(r, p)'
<1>1. /\ task[t].todo = {} /\ task[t].hand = None /\ task' = [task EXCEPT ![t] = NoTask]
      /\ UNCHANGED <<db, watcher, noticed, overtaken, fs, last, now>>
  BY DEF TaskEnds, disk
<1>2. None # p
  BY IndexAssumption
<1>3. task'[t] = NoTask /\ \A u \in Tasks : u # t => task'[u] = task[u]
  BY <1>1 DEF TypeOK
<1>4. t \notin Holders(r, p) /\ t \notin Holders(r, p)'
  BY <1>1, <1>2, <1>3 DEF Holders, NoTask
<1>5. SameHands(r, p)
  BY <1>3, <1>4 DEF SameHands, Holders
<1>6. Queued(r, p) => Queued(r, p)'
  BY <1>1, <1>3 DEF Queued
<1>7. Excused(r, p) => Excused(r, p)'
  BY <1>1, <1>6 DEF Excused, Pending
<1> QED
  BY <1>1, <1>5, <1>7, StillKeeps

\* After a restart only a change its row already has is known.
LEMMA RestartFile ==
  ASSUME TypeOK, TypeOK', NEW e, NEW wipe \in BOOLEAN, Restart(e, wipe), NEW r \in Roots, NEW p \in Paths,
         FileInv(r, p)
  PROVE  FileInv(r, p)'
<1> DEFINE rs == {s \in Roots : env[s] = e}
<1>1. /\ db' = [s \in Roots |-> IF s \in rs /\ wipe THEN [q \in Paths |-> Absent] ELSE db[s]]
      /\ watcher' = [w \in Watchers |-> IF watcher[w].root \in rs THEN NoWatcher ELSE watcher[w]]
      /\ task' = [t \in Tasks |-> IF task[t].root \in rs THEN NoTask ELSE task[t]]
      /\ noticed' = [s \in Roots |-> [q \in Paths |->
             noticed[s][q] /\ (s \notin rs \/ (~wipe /\ db[s][q] = fs[s][q]))]]
      /\ UNCHANGED <<overtaken, fs, last, now>>
  BY DEF Restart, disk
<1> HIDE DEF rs
<1>2. None # p
  BY IndexAssumption
<1>3. CASE r \in rs
  <2>1. Holders(r, p)' = {}
    BY <1>1, <1>2, <1>3 DEF Holders, NoTask
  <2>2. noticed'[r][p] => db'[r][p] = fs'[r][p]
    BY <1>1, <1>3
  <2>3. db'[r][p] = db[r][p] \/ db'[r][p] = Absent
    BY <1>1, <1>3
  <2>4. TimeInv(r, p)'
    <3>1. db'[r][p].m <= last[r][p].at
      BY <2>3, RowTyped DEF Absent, FileInv, TimeInv
    <3> QED
      BY <1>1, <2>1, <3>1 DEF FileInv, TimeInv
  <2>5. SoundInv(r, p)'
    BY <1>1, <2>1, <2>3 DEF FileInv, SoundInv, Sound
  <2>6. OrderInv(r, p)' /\ PassedInv(r, p)'
    BY <2>1 DEF OrderInv, PassedInv
  <2>7. WordInv(r, p)'
    BY <2>1, <2>2 DEF WordInv
  <2> QED
    BY <2>4, <2>5, <2>6, <2>7 DEF FileInv
<1>4. CASE r \notin rs
  <2>1. \A t \in Tasks : task[t].root = r => task'[t] = task[t]
    BY <1>1, <1>4
  <2>2. \A t \in Tasks : task'[t].hand = p => task'[t] = task[t]
    BY <1>1, <1>2 DEF NoTask
  <2>3. SameHands(r, p)
    BY <2>1, <2>2 DEF SameHands, Holders
  <2>4. Queued(r, p) => Queued(r, p)'
    BY <2>1 DEF Queued
  <2>5. Pending(r, p) => Pending(r, p)'
    BY <1>1, <1>4 DEF Pending
  <2>6. Excused(r, p) => Excused(r, p)'
    BY <1>1, <2>4, <2>5 DEF Excused
  <2>7. db'[r][p] = db[r][p] /\ (noticed'[r][p] => noticed[r][p])
    BY <1>1, <1>4
  <2> QED
    BY <1>1, <2>3, <2>6, <2>7, StillKeeps
<1> QED
  BY <1>3, <1>4

------------------------------------------------------------------------------
(* The theorems. *)

\* Every step keeps the file, its row and its holders in step.
LEMMA FileStep ==
  ASSUME TypeOK, TypeOK', WatchInv, TaskInv, [Next]_vars, NEW r \in Roots, NEW p \in Paths, FileInv(r, p)
  PROVE  FileInv(r, p)'
<1>1. ASSUME UNCHANGED files, UNCHANGED now \/ now' = now + 1
      PROVE  FileInv(r, p)'
  <2>1. SameHands(r, p) /\ (Excused(r, p) <=> Excused(r, p)')
    BY <1>1 DEF files, SameHands, Holders, Excused, Pending, Queued
  <2>2. /\ fs'[r][p] = fs[r][p] /\ db'[r][p] = db[r][p] /\ last'[r][p] = last[r][p]
        /\ overtaken'[r][p] = overtaken[r][p] /\ noticed'[r][p] = noticed[r][p]
    BY <1>1 DEF files
  <2> QED
    BY <1>1, <2>1, <2>2, StillKeeps
<1>2. ASSUME NEW s \in Roots, Edits(s) \/ StartWatch(s) \/ Walk(s)
      PROVE  FileInv(r, p)'
  BY <1>2, EditsFile, StartFile, WalkFileInv
<1>3. ASSUME NEW l \in Listings, EnsureInstall(l)
      PROVE  FileInv(r, p)'
  BY <1>3, InstallFile
<1>4. ASSUME NEW w \in Watchers, Drain(w)
      PROVE  FileInv(r, p)'
  BY <1>4, DrainFile
<1>5. ASSUME NEW t \in Tasks, NEW q \in Paths, NEW skip \in BOOLEAN, Takes(t, q, skip)
      PROVE  FileInv(r, p)'
  <2>1. CASE skip \/ ~(r = task[t].root /\ p = q)
    BY <1>5, <2>1, TakeOther
  <2>2. CASE ~skip /\ r = task[t].root /\ p = q
    <3>1. Takes(t, p, FALSE)
      <4>1. skip = FALSE
        BY <2>2
      <4> QED
        BY <1>5, <2>2, <4>1
    <3> QED
      BY <2>2, <3>1, TakeFile
  <2> QED
    BY <2>1, <2>2
<1>6. ASSUME NEW t \in Tasks, Handles(t)
      PROVE  FileInv(r, p)'
  <2>1. CASE Parse(t) \/ (ReadContent(t) /\ fs[task[t].root][task[t].hand] # Absent)
    BY <2>1, ReadFile
  <2>2. CASE ~Parse(t) /\ ~(ReadContent(t) /\ fs[task[t].root][task[t].hand] # Absent)
    BY <1>6, <2>2, PutFile
  <2> QED
    BY <2>1, <2>2
<1>7. ASSUME NEW t \in Tasks, TaskEnds(t)
      PROVE  FileInv(r, p)'
  BY <1>7, EndFile
<1>8. ASSUME NEW e, NEW wipe \in BOOLEAN, Restart(e, wipe)
      PROVE  FileInv(r, p)'
  BY <1>8, RestartFile
<1> QED
  BY <1>1, <1>2, <1>3, <1>4, <1>5, <1>6, <1>7, <1>8, NextCases

\* Nothing runs and no row is written before the first step.
LEMMA InitIndex ==
  ASSUME Init
  PROVE  IndexInv
<1>1. TypeOK
  <2>1. /\ env \in [Roots -> {"Local", "Wsl"}]
        /\ db \in [Roots -> [Paths -> [c : Contents \cup {Huge, None}, m : Nat]]]
        /\ fs \in [Roots -> [Paths -> [c : Contents \cup {Huge, None}, m : Nat]]]
        /\ subdir \subseteq Roots
    BY DEF Init, Absent
  <2>2. {now, edits, restarts, walks} \subseteq Nat
    BY DEF Init
  <2>3. /\ open \in [Keys \cup Roots -> Roots \cup {None}] /\ watchOf \in [Keys -> Watchers \cup {None}]
        /\ listing \in [Listings -> Roots \cup {None}]
        /\ answer \in [asked : Roots \cup {None}, from : Roots \cup {None}]
    BY DEF Init
  <2>4. watcher \in [Watchers -> [live : BOOLEAN, root : Roots \cup {None}, watched : SUBSET Live,
                                  os : SUBSET Live, pending : SUBSET (Paths \cup {"sub"})]]
    BY DEF Init, NoWatcher
  <2>5. task \in [Tasks -> ATask]
    BY DEF Init, NoTask, Absent, ATask, AFile
  <2>6. /\ noticed \in [Roots -> [Paths -> BOOLEAN]] /\ overtaken \in [Roots -> [Paths -> BOOLEAN]]
        /\ last \in [Roots -> [Paths -> [at : Nat, twice : BOOLEAN]]]
    BY DEF Init
  <2> QED
    BY <2>1, <2>2, <2>3, <2>4, <2>5, <2>6 DEF TypeOK, ATask, AFile
<1>2. WatchInv /\ TaskInv
  BY DEF Init, WatchInv, TaskInv, TaskOK, NoWatcher, NoTask
<1>3. OpenInv
  BY OpenedTyped, <1>1 DEF Init, OpenInv
<1>4. ASSUME NEW r \in Roots, NEW p \in Paths
      PROVE  FileInv(r, p)
  <2>1. Holders(r, p) = {}
    BY IndexAssumption DEF Init, Holders, NoTask
  <2>2. /\ db[r][p] = Absent /\ fs[r][p].m = 0 /\ last[r][p] = [at |-> 0, twice |-> FALSE]
        /\ now = 1 /\ ~noticed[r][p]
    <3>1. fs[r][p] \in {Absent} \cup [c : Contents, m : {0}]
      BY DEF Init
    <3>2. fs[r][p].m = 0
      BY <3>1 DEF Absent
    <3> QED
      BY <3>2 DEF Init
  <2>3. TimeInv(r, p)
    BY <2>1, <2>2 DEF TimeInv, Absent
  <2>4. SoundInv(r, p) /\ OrderInv(r, p) /\ PassedInv(r, p) /\ WordInv(r, p)
    BY <2>1, <2>2 DEF SoundInv, Sound, OrderInv, PassedInv, WordInv
  <2> QED
    BY <2>3, <2>4 DEF FileInv
<1> QED
  BY <1>1, <1>2, <1>3, <1>4 DEF IndexInv, Init

\* The inductive invariant: the tasks that hold a file came to it one after the other; once no
\* word of its last change is on its way, the last that came has it as it is, or, when all are
\* passed, the row does; and no row or reading with the file's mtime has another content,
\* except after two writes within a second.
THEOREM IndexInvariant ==
  ASSUME OwnKeys
  PROVE  Spec => []IndexInv
<1>1. Init => IndexInv
  BY InitIndex
<1>2. IndexInv /\ [Next]_vars => IndexInv'
  BY NextTyped, WatchStep, TaskInvStep, OpenStep, FileStep DEF IndexInv
<1> QED
  BY <1>1, <1>2, PTL DEF Spec

\* Once nothing is left to do, the row of a file whose last change was reported says what the
\* file says, in the ways out that SettledIndexIsCurrent names and in no other.
THEOREM SettledIndex ==
  ASSUME OwnKeys
  PROVE  Spec => []SettledIndexIsCurrent
<1>1. IndexInv => SettledIndexIsCurrent
  <2> SUFFICES ASSUME IndexInv, NEW r \in Roots, NEW p \in Paths, Settled(r, p), ~overtaken[r][p]
               PROVE  db[r][p] = fs[r][p]
    BY DEF SettledIndexIsCurrent
  <2>1. ~Excused(r, p) /\ Holders(r, p) = {}
    BY DEF Settled, Quiet, Excused, Pending, Queued, Holders
  <2>2. noticed[r][p] /\ WordInv(r, p)
    BY DEF Settled, IndexInv, FileInv
  <2> QED
    BY <2>1, <2>2 DEF WordInv
<1> QED
  BY <1>1, IndexInvariant, PTL

------------------------------------------------------------------------------
(* One watcher for each key. *)

\* A watcher that lives is the one its key has, and what a key has lives and is of a root with
\* that key.
KeyInv ==
  /\ \A w \in Watchers : watcher[w].live => watcher[w].root \in Roots /\ watchOf[KeyOf[watcher[w].root]] = w
  /\ \A k \in Keys : watchOf[k] # None =>
       \E w \in Watchers : watchOf[k] = w /\ watcher[w].live /\ KeyOf[watcher[w].root] = k

\* A watcher that starts takes a key that has none, or whose own ends.
LEMMA StartKeys ==
  ASSUME TypeOK, KeyInv, NEW r \in Roots, NEW w \in Watchers, ~watcher[w].live,
         watcher'[w].live, watcher'[w].root = r, watchOf' = [watchOf EXCEPT ![KeyOf[r]] = w],
         \A x \in Watchers : x # w => /\ watcher'[x].live <=> watcher[x].live /\ x # watchOf[KeyOf[r]]
                                      /\ watcher'[x].root = watcher[x].root
  PROVE  KeyInv'
<1>1. KeyOf[r] \in Keys /\ watchOf \in [Keys -> Watchers \cup {None}] /\ None \notin Watchers
      /\ \A s \in Roots : KeyOf[s] \in Keys
  BY IndexAssumption DEF Keys, TypeOK
<1>2. watchOf'[KeyOf[r]] = w /\ \A k \in Keys : k # KeyOf[r] => watchOf'[k] = watchOf[k]
  BY <1>1
<1>3. ASSUME NEW x \in Watchers, watcher'[x].live
      PROVE  watcher'[x].root \in Roots /\ watchOf'[KeyOf[watcher'[x].root]] = x
  <2>1. CASE x = w
    BY <1>2, <2>1
  <2>2. CASE x # w
    <3>1. watcher[x].live /\ x # watchOf[KeyOf[r]] /\ watcher'[x].root = watcher[x].root
      BY <1>3, <2>2
    <3>2. watcher[x].root \in Roots /\ watchOf[KeyOf[watcher[x].root]] = x
      BY <3>1 DEF KeyInv
    <3> QED
      BY <1>1, <1>2, <3>1, <3>2
  <2> QED
    BY <2>1, <2>2
<1>4. ASSUME NEW k \in Keys, watchOf'[k] # None
      PROVE  \E x \in Watchers : watchOf'[k] = x /\ watcher'[x].live /\ KeyOf[watcher'[x].root] = k
  <2>1. CASE k = KeyOf[r]
    BY <1>2, <2>1
  <2>2. CASE k # KeyOf[r]
    <3>1. PICK x \in Watchers : watchOf[k] = x /\ watcher[x].live /\ KeyOf[watcher[x].root] = k
      BY <1>2, <1>4, <2>2 DEF KeyInv
    <3>2. x # w /\ x # watchOf[KeyOf[r]]
      <4>1. x # w
        BY <3>1
      <4>2. ASSUME x = watchOf[KeyOf[r]]
            PROVE  FALSE
        <5>1. PICK y \in Watchers : watchOf[KeyOf[r]] = y /\ KeyOf[watcher[y].root] = KeyOf[r]
          BY <1>1, <4>2 DEF KeyInv
        <5> QED
          BY <2>2, <3>1, <4>2, <5>1
      <4> QED
        BY <4>1, <4>2
    <3> QED
      BY <1>2, <2>2, <3>1, <3>2
  <2> QED
    BY <2>1, <2>2
<1> QED
  BY <1>3, <1>4 DEF KeyInv, Keys

\* What neither starts nor ends a watcher keeps the keys.
LEMMA SameKeys ==
  ASSUME KeyInv, UNCHANGED watchOf,
         \A w \in Watchers : watcher'[w].live = watcher[w].live /\ watcher'[w].root = watcher[w].root
  PROVE  KeyInv'
BY DEF KeyInv, Keys

\* Every step keeps one watcher for each key.
LEMMA KeyStep ==
  ASSUME OwnKeys, TypeOK, WatchInv, KeyInv, [Next]_vars
  PROVE  KeyInv'
<1>1. ASSUME UNCHANGED <<watcher, watchOf>>
      PROVE  KeyInv'
  BY <1>1, SameKeys
<1>2. ASSUME NEW r \in Roots, Edits(r)
      PROVE  KeyInv'
  <2>1. UNCHANGED watchOf
    BY <1>2 DEF Edits, DeleteFile, WriteFile, RemoveSub, Edit, services
  <2>2. \E told, lost : Notify(r, told, lost)
    BY <1>2 DEF Edits, DeleteFile, WriteFile, RemoveSub
  <2> QED
    BY <2>1, <2>2, Notified, SameKeys
<1>3. ASSUME NEW r \in Roots, StartWatch(r)
      PROVE  KeyInv'
  <2>1. PICK w \in Watchers : /\ watcher[w] = NoWatcher /\ watcher' = [watcher EXCEPT ![w] = Start(w, r)]
                              /\ watchOf' = [watchOf EXCEPT ![KeyOf[r]] = w]
    BY <1>3 DEF StartWatch
  <2>2. ~watcher[w].live /\ watcher'[w].live /\ watcher'[w].root = r
    BY <2>1 DEF NoWatcher, Start, TypeOK
  <2>3. watchOf[KeyOf[r]] = None /\ None \notin Watchers
    BY <1>3, IndexAssumption DEF StartWatch
  <2>4. ASSUME NEW x \in Watchers, x # w
        PROVE  watcher'[x] = watcher[x] /\ x # watchOf[KeyOf[r]]
    BY <2>1, <2>3, <2>4 DEF TypeOK
  <2> QED
    BY <2>1, <2>2, <2>4, StartKeys
<1>4. ASSUME NEW l \in Listings, EnsureInstall(l)
      PROVE  KeyInv'
  <2> DEFINE r == listing[l]
             old == {watchOf[KeyOf[r]]} \ {None}
  <2>1. r \in Roots
    BY <1>4 DEF EnsureInstall, TypeOK
  <2>2. PICK w \in Watchers :
            /\ watcher[w] = NoWatcher
            /\ watcher' = [x \in Watchers |-> IF x = w THEN Start(w, r)
                                             ELSE IF x \in old THEN [watcher[x] EXCEPT !.live = FALSE, !.pending = {}]
                                             ELSE watcher[x]]
            /\ watchOf' = [watchOf EXCEPT ![KeyOf[r]] = w]
    BY <1>4 DEF EnsureInstall
  <2>3. \A x \in Watchers : x \in old <=> x = watchOf[KeyOf[r]]
    <3>1. \A x \in Watchers : x # None
      BY IndexAssumption
    <3>2. \A x, y : x # None => (x \in {y} \ {None} <=> x = y)
      OBVIOUS
    <3> QED
      BY <3>1, <3>2
  <2> HIDE DEF r, old
  <2>4. ~watcher[w].live /\ watcher'[w].live /\ watcher'[w].root = r
    <3>1. watcher'[w] = Start(w, r)
      BY <2>2
    <3>2. Start(w, r).live /\ Start(w, r).root = r
      BY DEF Start
    <3>3. ~NoWatcher.live
      BY DEF NoWatcher
    <3> QED
      BY <2>2, <3>1, <3>2, <3>3
  <2>5. ASSUME NEW x \in Watchers, x # w
        PROVE  /\ watcher'[x].live <=> watcher[x].live /\ x # watchOf[KeyOf[r]]
               /\ watcher'[x].root = watcher[x].root
    <3>1. watcher[x] \in [live : BOOLEAN, root : Roots \cup {None}, watched : SUBSET Live,
                          os : SUBSET Live, pending : SUBSET (Paths \cup {"sub"})]
      BY DEF TypeOK
    <3>2. CASE x \in old
      <4>1. watcher'[x] = [watcher[x] EXCEPT !.live = FALSE, !.pending = {}]
        BY <2>2, <2>5, <3>2
      <4> QED
        BY <2>3, <3>1, <3>2, <4>1
    <3>3. CASE x \notin old
      BY <2>2, <2>3, <2>5, <3>3
    <3> QED
      BY <3>2, <3>3
  <2> QED
    BY <2>1, <2>2, <2>4, <2>5, StartKeys
<1>5. ASSUME NEW w \in Watchers, Drain(w)
      PROVE  KeyInv'
  <2> DEFINE fresh == "sub" \in watcher[w].pending /\ watcher[w].root \in subdir /\ "sub" \notin watcher[w].watched
             more == IF fresh THEN {"sub"} ELSE {}
             x == [watcher[w] EXCEPT !.pending = {}, !.watched = @ \cup more, !.os = @ \cup more]
  <2>1. watcher' = [watcher EXCEPT ![w] = x] /\ UNCHANGED watchOf
    BY <1>5 DEF Drain
  <2>2. x.live = watcher[w].live /\ x.root = watcher[w].root
    <3>1. watcher[w] \in [live : BOOLEAN, root : Roots \cup {None}, watched : SUBSET Live,
                          os : SUBSET Live, pending : SUBSET (Paths \cup {"sub"})]
      BY DEF TypeOK
    <3> HIDE DEF more
    <3> QED
      BY <3>1
  <2> HIDE DEF x
  <2>3. \A y \in Watchers : watcher'[y].live = watcher[y].live /\ watcher'[y].root = watcher[y].root
    BY <2>1, <2>2 DEF TypeOK
  <2> QED
    BY <2>1, <2>3, SameKeys
<1>6. ASSUME NEW e, NEW wipe \in BOOLEAN, Restart(e, wipe)
      PROVE  KeyInv'
  <2> DEFINE rs == {r \in Roots : env[r] = e}
             ks == {KeyOf[r] : r \in rs}
  <2>1. /\ watcher' = [w \in Watchers |-> IF watcher[w].root \in rs THEN NoWatcher ELSE watcher[w]]
        /\ watchOf' = [k \in Keys |-> IF k \in ks THEN None ELSE watchOf[k]]
    BY <1>6 DEF Restart
  <2>2. \A s \in Roots : KeyOf[s] \in ks <=> s \in rs
    BY DEF OwnKeys
  <2> HIDE DEF rs, ks
  <2>3. ASSUME NEW w \in Watchers, watcher'[w].live
        PROVE  watcher'[w].root \in Roots /\ watchOf'[KeyOf[watcher'[w].root]] = w
    <3>1. watcher[w].root \notin rs /\ watcher'[w] = watcher[w]
      BY <2>1, <2>3 DEF NoWatcher
    <3>2. watcher[w].root \in Roots /\ watchOf[KeyOf[watcher[w].root]] = w
      BY <2>3, <3>1 DEF KeyInv
    <3> QED
      BY <2>1, <2>2, <3>1, <3>2 DEF Keys
  <2>4. ASSUME NEW k \in Keys, watchOf'[k] # None
        PROVE  \E w \in Watchers : watchOf'[k] = w /\ watcher'[w].live /\ KeyOf[watcher'[w].root] = k
    <3>1. k \notin ks /\ watchOf'[k] = watchOf[k]
      BY <2>1, <2>4
    <3>2. PICK w \in Watchers : watchOf[k] = w /\ watcher[w].live /\ KeyOf[watcher[w].root] = k
      BY <2>4, <3>1 DEF KeyInv
    <3>3. watcher[w].root \in Roots
      BY <3>2 DEF KeyInv
    <3>4. watcher'[w] = watcher[w]
      BY <2>1, <2>2, <3>1, <3>2, <3>3
    <3> QED
      BY <3>1, <3>2, <3>4
  <2> QED
    BY <2>3, <2>4 DEF KeyInv, Keys
<1>7. ASSUME NEW t \in Tasks, TaskStep(t)
      PROVE  UNCHANGED <<watcher, watchOf>>
  <2>1. ASSUME NEW p \in Paths, NEW skip \in BOOLEAN, Takes(t, p, skip)
        PROVE  UNCHANGED <<watcher, watchOf>>
    BY <2>1 DEF Takes, Took, services
  <2>2. CASE Handles(t) \/ TaskEnds(t)
    BY <2>2 DEF Handles, ReadContent, Unchanged, Parse, Store, TaskEnds, services
  <2> QED
    BY <1>7, <2>1, <2>2, TakesAll DEF TaskStep, Handles
<1>8. ASSUME NEW r \in Roots, EnsureReady(r) \/ Rebuild(r) \/ Query(r)
      PROVE  StartWatch(r) \/ UNCHANGED <<watcher, watchOf>>
  BY <1>8 DEF EnsureReady, EnsureIndexed, Rebuild, RebuildLocal, RebuildWsl, Query, Walk
<1>9. ASSUME NEW l \in Listings, NEW r \in Roots, EnsureLook(l, r)
      PROVE  UNCHANGED <<watcher, watchOf>>
  BY <1>9 DEF EnsureLook
<1>10. CASE UNCHANGED vars \/ Tick
  BY <1>1, <1>10 DEF vars, Tick, services
<1>11. CASE Next
  BY <1>1, <1>2, <1>3, <1>4, <1>5, <1>6, <1>7, <1>8, <1>9, <1>10, <1>11 DEF Next, Edits
<1> QED
  BY <1>10, <1>11

\* However often a worktree is listed at once, and through restarts, a key has one watcher and no
\* watcher runs that no key has (FsWatchService::ensure).
THEOREM WatchersAreHeld ==
  ASSUME OwnKeys
  PROVE  Spec => []OneWatcherPerKey
<1>1. Init => KeyInv
  BY IndexAssumption DEF Init, KeyInv, NoWatcher
<1>2. IndexInv /\ KeyInv /\ [Next]_vars => KeyInv'
  BY KeyStep DEF IndexInv
<1>3. KeyInv => OneWatcherPerKey
  <2>1. None \notin Watchers
    BY IndexAssumption
  <2>2. \A r \in Roots : KeyOf[r] \in Keys
    BY DEF Keys
  <2>3. ASSUME KeyInv, NEW w \in Watchers, watcher[w].live
        PROVE  \E k \in Keys : watchOf[k] = w
    BY <2>2, <2>3 DEF KeyInv
  <2>4. ASSUME KeyInv, NEW w \in Watchers, NEW k \in Keys, watchOf[k] = w
        PROVE  watcher[w].live
    BY <2>1, <2>4 DEF KeyInv
  <2> QED
    BY <2>3, <2>4 DEF OneWatcherPerKey
<1> QED
  BY <1>1, <1>2, <1>3, IndexInvariant, PTL DEF Spec
=============================================================================
