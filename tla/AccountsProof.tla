----------------------------- MODULE AccountsProof -----------------------------
(***************************************************************************)
(* The accounts for any number of identities, slots, calls and anything the *)
(* surroundings do, with the poller beside them: an account never has two   *)
(* records, what a record names is whole, and a switch loses nobody's login.*)
(***************************************************************************)
EXTENDS ClaudeUsage, FiniteSetTheorems, TLAPS

Commands == {"save", "activate", "remove", "login"}
\* Where a command is before it has had the lock.
Before == {"lock", "slot", "console", "consoleWho"}
\* Where it has chosen the slot of the record it is about to write.
Chosen == {"keepCreds", "keepWho", "record", "adoptCreds", "adoptWho", "adoptRecord"}

\* The fields are there, and what waits for the lock is a command, which has read nothing.
Sound(t) == DOMAIN t = DOMAIN NewTask /\ (t.pc \in Before => t.kind \in Commands /\ t.lost = FALSE)
\* No record but the chosen one is of the account that was read, unless none is written back.
Fits(t) == t.lost \/ \A s \in Slots : registry[s] = t.keepWho => s = t.target

IInv ==
  /\ DOMAIN task = Tasks /\ \A c \in Tasks : Sound(task[c])
  /\ DOMAIN registry = Slots
  /\ \A s, t \in Slots : registry[s] = registry[t] /\ registry[s] # None => s = t
  /\ \A c \in Tasks : lock = c /\ task[c].pc \in Chosen => Fits(task[c])

\* A step of one call that leaves the registry alone.
LEMMA OneMoves ==
  ASSUME IInv, NEW c \in Tasks, NEW t, task' = [task EXCEPT ![c] = t], Sound(t),
         UNCHANGED registry, \A d \in Tasks : d # c /\ lock' = d => lock = d,
         lock' = c /\ t.pc \in Chosen => Fits(t)
  PROVE  IInv'
<1>1. task'[c] = t /\ DOMAIN task' = Tasks /\ \A d \in Tasks : d # c => task'[d] = task[d]
  BY DEF IInv
<1>2. \A d \in Tasks : Sound(task'[d])
  BY <1>1 DEF IInv
<1>3. \A d \in Tasks : lock' = d /\ task'[d].pc \in Chosen => Fits(task'[d])
  <2> SUFFICES ASSUME NEW d \in Tasks, lock' = d, task'[d].pc \in Chosen
               PROVE  Fits(task'[d])
    OBVIOUS
  <2>1. CASE d = c
    BY <2>1, <1>1
  <2>2. CASE d # c
    BY <2>2, <1>1 DEF IInv
  <2> QED
    BY <2>1, <2>2
<1> QED
  BY <1>1, <1>2, <1>3 DEF IInv, Sound, Fits

\* The call goes on to a step that is neither before the lock nor about to write a record.
LEMMA Goes ==
  ASSUME IInv, NEW c \in Tasks, NEW pc, Goto(c, pc), pc \notin Before \cup Chosen,
         UNCHANGED <<registry, lock>>
  PROVE  IInv'
<1> DEFINE t == [task[c] EXCEPT !.pc = pc]
<1>1. Sound(task[c])
  BY DEF IInv
<1>2. t.pc = pc /\ Sound(t)
  BY <1>1 DEF Sound, NewTask
<1>3. task' = [task EXCEPT ![c] = t]
  BY DEF Goto
<1> HIDE DEF t
<1> QED
  BY <1>2, <1>3, OneMoves

\* A holder that has chosen its record goes on to write it, with the same choice.
LEMMA StillChosen ==
  ASSUME IInv, NEW c \in Tasks, NEW pc \in Chosen, Goto(c, pc), task[c].pc \in Chosen, lock = c,
         UNCHANGED <<registry, lock>>
  PROVE  IInv'
<1> DEFINE t == [task[c] EXCEPT !.pc = pc]
<1>1. Sound(task[c]) /\ Fits(task[c])
  BY DEF IInv
<1>2. /\ t.pc = pc /\ t.keepWho = task[c].keepWho /\ t.target = task[c].target /\ t.lost = task[c].lost
      /\ DOMAIN t = DOMAIN NewTask
  BY <1>1 DEF Sound, NewTask
<1>3. task' = [task EXCEPT ![c] = t]
  BY DEF Goto
<1> HIDE DEF t
<1>4. Sound(t) /\ Fits(t)
  BY <1>1, <1>2 DEF Sound, Fits, Before, Chosen
<1> QED
  BY <1>3, <1>4, OneMoves

\* What answers a command also lets go of the lock.
LEMMA Answers ==
  ASSUME IInv, NEW c \in Tasks, NEW ok, Answer(c, ok), UNCHANGED registry
  PROVE  IInv'
<1> DEFINE t == IF task[c].kind = "login" THEN [task[c] EXCEPT !.ok = ok, !.pc = "cleanup"] ELSE Past(ok)
<1>1. Sound(task[c])
  BY DEF IInv
<1>2. t.pc \notin Before \cup Chosen /\ Sound(t)
  BY <1>1 DEF Sound, NewTask, Past, Before, Chosen
<1>3. task' = [task EXCEPT ![c] = t]
  BY DEF Answer
<1>4. \A d \in Tasks : lock' # d
  BY AccountsAssumption DEF Answer
<1> HIDE DEF t
<1> QED
  BY <1>2, <1>3, <1>4, OneMoves

\* A write under the running calls changes only whether they count as undisturbed.
LEMMA DisturbedKeeps ==
  ASSUME IInv, task' = Disturbed, UNCHANGED <<registry, lock>>
  PROVE  IInv'
<1>1. \A c \in Tasks : task'[c] = [task[c] EXCEPT !.calm = FALSE]
  BY DEF Disturbed
<1>2. \A c \in Tasks : Sound(task[c])
  BY DEF IInv
<1>3. \A c \in Tasks : /\ Sound(task'[c]) /\ task'[c].pc = task[c].pc /\ task'[c].lost = task[c].lost
                       /\ task'[c].keepWho = task[c].keepWho /\ task'[c].target = task[c].target
  BY <1>1, <1>2 DEF Sound, NewTask
<1>4. DOMAIN task' = Tasks
  BY DEF Disturbed
<1> QED
  BY <1>3, <1>4 DEF IInv, Sound, Fits

\* The holder of the lock writes the record it has chosen (SaveRecord, AdoptRecord), with the
\* others or without.
LEMMA Records ==
  ASSUME IInv, NEW c \in Tasks, lock = c, task[c].pc \in Chosen, WritesRecord(c),
         (Goto(c, "swap") /\ UNCHANGED lock) \/ Answer(c, TRUE)
  PROVE  IInv'
<1>1. Fits(task[c]) /\ Sound(task[c])
  BY DEF IInv
<1>2. /\ DOMAIN registry' = Slots
      /\ \A s \in Slots : registry'[s] = IF s = task[c].target THEN task[c].keepWho
                                          ELSE IF task[c].lost THEN None ELSE registry[s]
  BY DEF WritesRecord
<1>3. \A s, t \in Slots : registry'[s] = registry'[t] /\ registry'[s] # None => s = t
  <2> SUFFICES ASSUME NEW s \in Slots, NEW t \in Slots, registry'[s] = registry'[t], registry'[s] # None
               PROVE  s = t
    OBVIOUS
  <2>1. CASE s # task[c].target /\ t # task[c].target
    BY <1>2, <2>1 DEF IInv
  <2>2. CASE s = task[c].target \/ t = task[c].target
    BY <1>2, <2>2, <1>1 DEF IInv, Fits
  <2> QED
    BY <2>1, <2>2
<1>4. /\ DOMAIN task' = Tasks /\ \A d \in Tasks : Sound(task'[d])
      /\ \A d \in Tasks : lock' = d => task'[d].pc \notin Chosen
  <2>1. CASE Goto(c, "swap") /\ UNCHANGED lock
    <3>1. task'[c] = [task[c] EXCEPT !.pc = "swap"] /\ \A d \in Tasks : d # c => task'[d] = task[d]
      BY <2>1 DEF IInv, Goto
    <3>2. Sound(task'[c]) /\ task'[c].pc = "swap"
      BY <3>1, <1>1 DEF Sound, NewTask, Before
    <3> QED
      BY <2>1, <3>1, <3>2 DEF IInv, Goto, Chosen
  <2>2. CASE Answer(c, TRUE)
    <3>1. /\ task'[c] = IF task[c].kind = "login" THEN [task[c] EXCEPT !.ok = TRUE, !.pc = "cleanup"] ELSE Past(TRUE)
          /\ \A d \in Tasks : d # c => task'[d] = task[d]
      BY <2>2 DEF IInv, Answer
    <3>2. Sound(task'[c])
      BY <3>1, <1>1 DEF Sound, NewTask, Past, Before
    <3> QED
      BY <2>2, <3>1, <3>2, AccountsAssumption DEF IInv, Answer
  <2> QED
    BY <2>1, <2>2
<1> QED
  BY <1>2, <1>3, <1>4 DEF IInv, Sound

\* The record of a removal goes, and its command is over (Unregister).
LEMMA Unregisters ==
  ASSUME IInv, NEW c \in Tasks, registry' = [registry EXCEPT ![task[c].id] = None], Answer(c, TRUE)
  PROVE  IInv'
<1>1. /\ DOMAIN registry' = Slots
      /\ \A s, t \in Slots : registry'[s] = registry'[t] /\ registry'[s] # None => s = t
  BY DEF IInv
<1>2. /\ task'[c] = IF task[c].kind = "login" THEN [task[c] EXCEPT !.ok = TRUE, !.pc = "cleanup"] ELSE Past(TRUE)
      /\ DOMAIN task' = Tasks /\ \A d \in Tasks : d # c => task'[d] = task[d]
  BY DEF IInv, Answer
<1>3. Sound(task[c])
  BY DEF IInv
<1>4. Sound(task'[c])
  BY <1>2, <1>3 DEF Sound, NewTask, Past, Before
<1>5. \A d \in Tasks : lock' # d
  BY AccountsAssumption DEF Answer
<1> QED
  BY <1>1, <1>2, <1>4, <1>5 DEF IInv, Sound
-----------------------------------------------------------------------------
(* The steps, by the command they belong to *)

\* A command begins (SaveLive, Activate, RemoveAccount, LoginNew).
LEMMA BeginsKeeps ==
  ASSUME IInv, NEW c \in Tasks, Begins(c)
  PROVE  IInv'
<1> SUFFICES ASSUME NEW kind \in Commands, NEW s, Begin(c, kind, s)
             PROVE  IInv'
  BY DEF Begins, SaveLive, Activate, RemoveAccount, LoginNew, Commands
<1> DEFINE t == [NewTask EXCEPT !.kind = kind, !.id = s, !.pc = IF kind = "login" THEN "slot" ELSE "lock"]
<1>1. t.kind = kind /\ t.pc \in {"slot", "lock"} /\ Sound(t)
  BY DEF Sound, NewTask
<1>2. task' = [task EXCEPT ![c] = t] /\ UNCHANGED <<registry, lock>>
  BY DEF Begin
<1>3. t.pc \notin Chosen
  BY <1>1 DEF Chosen
<1> HIDE DEF t
<1> QED
  BY <1>1, <1>2, <1>3, OneMoves

\* TakeLock: what follows depends on the command, and none has chosen a record yet.
LEMMA TakeLockKeeps ==
  ASSUME IInv, NEW c \in Tasks, TakeLock(c)
  PROVE  IInv'
<1> DEFINE pc == CASE task[c].kind = "save" -> "saveCreds" [] task[c].kind = "login" -> "adopt"
                   [] OTHER -> task[c].kind
           found == {a \in Accounts : Found(a)}
           t == [task[c] EXCEPT !.pc = pc, !.calm = TRUE, !.found = found, !.had = left.failures]
<1>1. Sound(task[c]) /\ task[c].pc = "lock"
  BY DEF IInv, TakeLock, At
<1>2. task[c].kind \in Commands
  BY <1>1 DEF Sound, Before
<1>3. pc \notin Before \cup Chosen
  BY <1>2 DEF Commands, Before, Chosen
<1>4. task' = [task EXCEPT ![c] = t] /\ UNCHANGED registry /\ lock = None /\ lock' = c
  BY DEF TakeLock
<1> HIDE DEF pc, found
<1>5. t.pc = pc /\ Sound(t)
  BY <1>1, <1>3 DEF Sound, NewTask
<1> HIDE DEF t
<1> QED
  BY <1>3, <1>4, <1>5, OneMoves

\* A save (save_live_locked): the record of the identity it reads is the only one.
LEMMA SaveKeeps ==
  ASSUME IInv, NEW c \in Tasks,
         SaveReadCreds(c) \/ SaveReadWho(c) \/ KeepCreds(c) \/ KeepWho(c) \/ SaveRecord(c)
  PROVE  IInv'
<1>0. Sound(task[c])
  BY DEF IInv
<1>1. CASE SaveReadCreds(c)
  <2>1. CASE Answer(c, FALSE)
    BY <1>1, <2>1, Answers DEF SaveReadCreds
  <2>2. CASE ~Answer(c, FALSE)
    <3> DEFINE t == [task[c] EXCEPT !.keepCreds = dir["live"].creds, !.pc = "saveWho"]
    <3>1. task' = [task EXCEPT ![c] = t] /\ UNCHANGED <<registry, lock>>
      BY <1>1, <2>2 DEF SaveReadCreds
    <3>2. t.pc = "saveWho" /\ Sound(t)
      BY <1>0 DEF Sound, NewTask, Before
    <3> HIDE DEF t
    <3> QED
      BY <3>1, <3>2, OneMoves DEF Chosen
  <2> QED
    BY <2>1, <2>2
<1>2. CASE SaveReadWho(c)
  <2>1. CASE Answer(c, FALSE)
    BY <1>2, <2>1, Answers DEF SaveReadWho
  <2>2. CASE ~Answer(c, FALSE)
    <3> DEFINE who == dir["live"].who
    <3>1. who # None /\ UNCHANGED <<registry, lock>>
      BY <1>2, <2>2 DEF SaveReadWho
    <3>2. PICK lost, s :
             /\ lost \in BOOLEAN /\ s \in (IF Known(who, lost) # {} THEN Known(who, lost) ELSE {r \in Unused : r = NewId})
             /\ task' = [task EXCEPT ![c].keepWho = who, ![c].target = s, ![c].lost = lost, ![c].pc = "keepCreds"]
      BY <1>2, <2>2 DEF SaveReadWho
    <3>3. lost \/ \A r \in Slots : registry[r] = who => r = s
      BY <3>1, <3>2 DEF IInv, Record, Known
    <3> DEFINE t == [task[c] EXCEPT !.keepWho = who, !.target = s, !.lost = lost, !.pc = "keepCreds"]
    <3> HIDE DEF who
    <3>4. t.pc = "keepCreds" /\ t.keepWho = who /\ t.target = s /\ t.lost = lost /\ Sound(t)
      BY <1>0 DEF Sound, NewTask, Before
    <3>5. task' = [task EXCEPT ![c] = t]
      BY <3>2
    <3> HIDE DEF t
    <3>6. Fits(t)
      BY <3>3, <3>4 DEF Fits
    <3> QED
      BY <3>1, <3>4, <3>5, <3>6, OneMoves
  <2> QED
    BY <2>1, <2>2
<1>3. CASE KeepCreds(c) \/ KeepWho(c)
  <2> PICK pc \in Chosen : Goto(c, pc) /\ task[c].pc \in Chosen /\ UNCHANGED <<registry, lock>> /\ lock = c
    BY <1>3 DEF KeepCreds, KeepWho, Held, At, Chosen
  <2> QED
    BY StillChosen
<1>4. CASE SaveRecord(c)
  BY <1>4, Records DEF SaveRecord, Held, At, Chosen
<1> QED
  BY <1>1, <1>2, <1>3, <1>4

\* A switch (activate) writes no record itself.
LEMMA ActivateKeeps ==
  ASSUME IInv, NEW c \in Tasks,
         \/ ReadSlot(c) \/ ReadLiveCreds(c) \/ ReadLiveWho(c) \/ SwapCreds(c)
         \/ SwapWho(c) \/ Verify(c) \/ RestoreCreds(c) \/ RestoreWho(c)
  PROVE  IInv'
<1>0. Sound(task[c])
  BY DEF IInv
<1>1. CASE Answer(c, FALSE) \/ Answer(c, TRUE)
  <2>1. UNCHANGED registry
    BY DEF ReadSlot, ReadLiveCreds, ReadLiveWho, SwapCreds, SwapWho, Verify, RestoreCreds, RestoreWho
  <2> QED
    BY <1>1, <2>1, Answers
<1>2. CASE ~Answer(c, FALSE) /\ ~Answer(c, TRUE)
  <2>1. CASE ReadSlot(c)
    <3> DEFINE t == [task[c] EXCEPT !.wanted = registry[task[c].id], !.slotCreds = dir[task[c].id].creds,
                                    !.slotWho = dir[task[c].id].who, !.pc = "readCreds"]
    <3>1. task' = [task EXCEPT ![c] = t] /\ UNCHANGED <<registry, lock>>
      BY <1>2, <2>1 DEF ReadSlot
    <3>2. t.pc = "readCreds" /\ Sound(t)
      BY <1>0 DEF Sound, NewTask, Before
    <3> HIDE DEF t
    <3> QED
      BY <3>1, <3>2, OneMoves DEF Chosen
  <2>2. CASE ReadLiveCreds(c)
    <3> DEFINE t == [task[c] EXCEPT !.liveCreds = dir["live"].creds, !.pc = "readWho"]
    <3>1. task' = [task EXCEPT ![c] = t] /\ UNCHANGED <<registry, lock>>
      BY <2>2 DEF ReadLiveCreds
    <3>2. t.pc = "readWho" /\ Sound(t)
      BY <1>0 DEF Sound, NewTask, Before
    <3> HIDE DEF t
    <3> QED
      BY <3>1, <3>2, OneMoves DEF Chosen
  <2>3. CASE ReadLiveWho(c)
    <3>1. PICK pc \in {"saveCreds", "swap"} :
             task' = [task EXCEPT ![c].liveWho = dir["live"].who, ![c].pc = pc]
      BY <1>2, <2>3 DEF ReadLiveWho
    <3> DEFINE t == [task[c] EXCEPT !.liveWho = dir["live"].who, !.pc = pc]
    <3>2. task' = [task EXCEPT ![c] = t] /\ UNCHANGED <<registry, lock>>
      BY <1>2, <2>3, <3>1 DEF ReadLiveWho
    <3>3. t.pc \in {"saveCreds", "swap"} /\ Sound(t)
      BY <1>0 DEF Sound, NewTask, Before
    <3> HIDE DEF t
    <3> QED
      BY <3>2, <3>3, OneMoves DEF Chosen
  <2>4. CASE SwapCreds(c) \/ SwapWho(c) \/ Verify(c) \/ RestoreCreds(c) \/ RestoreWho(c)
    <3> PICK pc \in {"swapWho", "verify", "restoreCreds", "restoreBoth", "restoreWho"} :
           Goto(c, pc) /\ UNCHANGED <<registry, lock>>
      BY <1>2, <2>4 DEF SwapCreds, SwapWho, Verify, RestoreCreds, RestoreWho
    <3> QED
      BY Goes DEF Before, Chosen
  <2> QED
    BY <2>1, <2>2, <2>3, <2>4
<1> QED
  BY <1>1, <1>2

\* A removal: only its own record goes.
LEMMA RemoveKeeps ==
  ASSUME IInv, NEW c \in Tasks, DeleteSlot(c) \/ Unregister(c)
  PROVE  IInv'
<1>1. CASE DeleteSlot(c)
  <2>1. CASE Answer(c, FALSE)
    BY <1>1, <2>1, Answers DEF DeleteSlot
  <2>2. CASE ~Answer(c, FALSE)
    BY <1>1, <2>2, Goes DEF DeleteSlot, Before, Chosen
  <2> QED
    BY <2>1, <2>2
<1>2. CASE Unregister(c)
  BY <1>2, Unregisters DEF Unregister
<1> QED
  BY <1>1, <1>2

\* A new login: adopt_login_slot looks at the registry under the lock, and takes the
\* record of the account when there is one.
LEMMA LoginKeeps ==
  ASSUME IInv, NEW c \in Tasks,
         \/ MakeSlot(c) \/ ConsoleLogin(c) \/ ConsoleWho(c) \/ Cleanup(c)
         \/ Adopt(c) \/ AdoptCreds(c) \/ AdoptWho(c) \/ AdoptRecord(c)
  PROVE  IInv'
<1>0. Sound(task[c])
  BY DEF IInv
<1>1. CASE MakeSlot(c) \/ ConsoleLogin(c) \/ ConsoleWho(c)
  <2>1. task[c].kind \in Commands /\ task[c].lost = FALSE
    BY <1>0, <1>1 DEF Sound, Before, MakeSlot, ConsoleLogin, ConsoleWho, At
  <2>2. PICK t : /\ task' = [task EXCEPT ![c] = t] /\ UNCHANGED <<registry, lock>>
                 /\ t.pc \in {"console", "done", "lock", "consoleWho"} /\ t.kind = task[c].kind
                 /\ t.lost = task[c].lost /\ DOMAIN t = DOMAIN NewTask
    <3>1. CASE MakeSlot(c) \/ ConsoleWho(c) \/ (ConsoleLogin(c) /\ Goto(c, "lock"))
      <4> PICK pc \in {"console", "done", "lock"} : Goto(c, pc)
        BY <3>1 DEF MakeSlot, ConsoleWho
      <4> DEFINE t == [task[c] EXCEPT !.pc = pc]
      <4>1. task' = [task EXCEPT ![c] = t]
        BY DEF Goto
      <4>2. UNCHANGED <<registry, lock>>
        BY <1>1 DEF MakeSlot, ConsoleLogin, ConsoleWho
      <4>3. t.pc = pc /\ t.kind = task[c].kind /\ t.lost = task[c].lost /\ DOMAIN t = DOMAIN NewTask
        BY <1>0 DEF Sound, NewTask
      <4> HIDE DEF t
      <4> QED
        BY <4>1, <4>2, <4>3
    <3>2. CASE ConsoleLogin(c) /\ ~Goto(c, "lock")
      <4> PICK a \in Accounts : task' = [task EXCEPT ![c].slotWho = a, ![c].pc = "consoleWho"]
        BY <3>2 DEF ConsoleLogin
      <4> DEFINE t == [task[c] EXCEPT !.slotWho = a, !.pc = "consoleWho"]
      <4>1. task' = [task EXCEPT ![c] = t]
        OBVIOUS
      <4>2. UNCHANGED <<registry, lock>>
        BY <1>1 DEF MakeSlot, ConsoleLogin, ConsoleWho
      <4>3. t.pc = "consoleWho" /\ t.kind = task[c].kind /\ t.lost = task[c].lost /\ DOMAIN t = DOMAIN NewTask
        BY <1>0 DEF Sound, NewTask
      <4> HIDE DEF t
      <4> QED
        BY <4>1, <4>2, <4>3
    <3> QED
      BY <1>1, <3>1, <3>2
  <2>3. Sound(t) /\ t.pc \notin Chosen
    BY <2>1, <2>2 DEF Sound, Chosen
  <2> QED
    BY <2>2, <2>3, OneMoves
<1>2. CASE Cleanup(c)
  <2> DEFINE t == Past(task[c].ok)
  <2>1. task' = [task EXCEPT ![c] = t] /\ UNCHANGED <<registry, lock>>
    BY <1>2 DEF Cleanup
  <2>2. t.pc \notin Before \cup Chosen /\ Sound(t)
    BY DEF Past, Sound, NewTask, Before, Chosen
  <2> HIDE DEF t
  <2> QED
    BY <2>1, <2>2, OneMoves
<1>3. CASE Adopt(c)
  <2>1. CASE Answer(c, FALSE)
    BY <1>3, <2>1, Answers DEF Adopt
  <2>2. CASE ~Answer(c, FALSE)
    <3> DEFINE mine == dir[task[c].id]
    <3>1. mine.who # None /\ UNCHANGED <<registry, lock>>
      BY <1>3, <2>2 DEF Adopt, Parses
    <3>2. PICK lost, s, pc :
             /\ lost \in BOOLEAN /\ pc \in Chosen
             /\ s \in (IF Known(mine.who, lost) = {} THEN {task[c].id} ELSE Known(mine.who, lost))
             /\ task' = [task EXCEPT ![c].keepCreds = mine.creds, ![c].keepWho = mine.who, ![c].target = s,
                                     ![c].lost = lost, ![c].pc = pc]
      BY <1>3, <2>2 DEF Adopt, Chosen
    <3>3. lost \/ \A r \in Slots : registry[r] = mine.who => r = s
      BY <3>1, <3>2 DEF IInv, Record, Known
    <3> DEFINE t == [task[c] EXCEPT !.keepCreds = mine.creds, !.keepWho = mine.who, !.target = s, !.lost = lost,
                                    !.pc = pc]
    <3> HIDE DEF mine
    <3>7. pc \in Chosen
      BY <3>2
    <3>4. t.pc = pc /\ t.keepWho = mine.who /\ t.target = s /\ t.lost = lost /\ Sound(t)
      BY <1>0, <3>7 DEF Sound, NewTask, Before, Chosen
    <3>5. task' = [task EXCEPT ![c] = t]
      BY <3>2
    <3> HIDE DEF t
    <3>6. Fits(t)
      BY <3>3, <3>4 DEF Fits
    <3> QED
      BY <3>1, <3>4, <3>5, <3>6, OneMoves
  <2> QED
    BY <2>1, <2>2
<1>4. CASE AdoptCreds(c) \/ AdoptWho(c)
  <2> PICK pc \in Chosen : Goto(c, pc) /\ task[c].pc \in Chosen /\ UNCHANGED <<registry, lock>> /\ lock = c
    BY <1>4 DEF AdoptCreds, AdoptWho, Held, At, Chosen
  <2> QED
    BY StillChosen
<1>5. CASE AdoptRecord(c)
  BY <1>5, Records DEF AdoptRecord, Held, At, Chosen
<1> QED
  BY <1>1, <1>2, <1>3, <1>4, <1>5

\* A write that was done and counts as failed: the command is over, or the swap is torn.
LEMMA ReplyLostKeeps ==
  ASSUME IInv, NEW c \in Tasks, ReplyLost(c)
  PROVE  IInv'
<1>1. CASE Answer(c, FALSE)
  BY <1>1, Answers DEF ReplyLost
<1>2. CASE ~Answer(c, FALSE)
  <2>1. PICK pc \in {"torn", "restoreCreds"} :
           task' = [task EXCEPT ![c].torn = TRUE, ![c].pc = pc] /\ UNCHANGED <<registry, lock>>
    BY <1>2 DEF ReplyLost
  <2> DEFINE t == [task[c] EXCEPT !.torn = TRUE, !.pc = pc]
  <2>2. t.pc = pc /\ DOMAIN t = DOMAIN NewTask
    BY DEF IInv, Sound, NewTask
  <2>3. task' = [task EXCEPT ![c] = t]
    BY <2>1
  <2> HIDE DEF t
  <2> QED
    BY <2>1, <2>2, <2>3, OneMoves DEF Sound, Before, Chosen
<1> QED
  BY <1>1, <1>2

\* The surroundings, and the end of the application, which forgets every call.
LEMMA OutsideKeeps ==
  ASSUME IInv, Outside \/ ACrash
  PROVE  IInv'
<1>1. CASE SessionStarts \/ SessionEnds
  BY <1>1 DEF SessionStarts, SessionEnds, IInv, Fits
<1>2. CASE SessionRefreshes \/ OutsideIdentity \/ DistroTurns \/ \E a \in Accounts : OutsideToken(a)
  BY <1>2, DisturbedKeeps DEF SessionRefreshes, OutsideIdentity, DistroTurns, OutsideToken
<1>3. CASE ACrash
  <2>1. DOMAIN task' = Tasks /\ UNCHANGED registry /\ \A c \in Tasks : lock' # c
    BY <1>3, AccountsAssumption DEF ACrash
  <2>2. \A c \in Tasks : Sound(task'[c])
    BY <1>3 DEF ACrash, At, Sound, NewTask, Before
  <2> QED
    BY <2>1, <2>2 DEF IInv, Sound
<1> QED
  BY <1>1, <1>2, <1>3 DEF Outside

\* A step of the commands: whichever it is, one of the lemmas above.
LEMMA CommandsKeep ==
  ASSUME IInv, ANext
  PROVE  IInv'
<1>1. CASE Outside
  BY <1>1, OutsideKeeps
<1>2. CASE \E c \in Tasks : Begins(c) \/ Works(c)
  <2> PICK c \in Tasks : Begins(c) \/ Works(c)
    BY <1>2
  <2>1. CASE Begins(c)
    BY <2>1, BeginsKeeps
  <2>2. CASE TakeLock(c)
    BY <2>2, TakeLockKeeps
  <2>3. CASE Fails(c) \/ ReplyLost(c)
    BY <2>3, Answers, ReplyLostKeeps DEF Fails
  <2>4. CASE SaveReadCreds(c) \/ SaveReadWho(c) \/ KeepCreds(c) \/ KeepWho(c) \/ SaveRecord(c)
    BY <2>4, SaveKeeps
  <2>5. CASE \/ ReadSlot(c) \/ ReadLiveCreds(c) \/ ReadLiveWho(c) \/ SwapCreds(c)
             \/ SwapWho(c) \/ Verify(c) \/ RestoreCreds(c) \/ RestoreWho(c)
    BY <2>5, ActivateKeeps
  <2>6. CASE DeleteSlot(c) \/ Unregister(c)
    BY <2>6, RemoveKeeps
  <2>7. CASE \/ MakeSlot(c) \/ ConsoleLogin(c) \/ ConsoleWho(c) \/ Cleanup(c)
             \/ Adopt(c) \/ AdoptCreds(c) \/ AdoptWho(c) \/ AdoptRecord(c)
    BY <2>7, LoginKeeps
  <2> QED
    BY <2>1, <2>2, <2>3, <2>4, <2>5, <2>6, <2>7 DEF Works, Reaches
<1> QED
  BY <1>1, <1>2 DEF ANext

\* The poller reads the registry, takes no part in the lock, and of the calls changes
\* only where those stand that ask for a refresh or are disturbed by one.
LEMMA PollerKeeps ==
  ASSUME IInv,
         \/ Tick \/ IntervalPasses \/ CooldownPasses
         \/ \E c \in Tasks : ForceRefresh(c) \/ Invalidate(c) \/ GiveUp(c)
         \/ \E p \in Pollers : Cycles(p)
  PROVE  IInv'
<1>1. CASE UNCHANGED <<registry, lock, task>>
  BY <1>1 DEF IInv, Sound, Fits
<1>2. CASE \E c \in Tasks : ForceRefresh(c)
  <2> PICK c \in Tasks : ForceRefresh(c)
    BY <1>2
  <2> DEFINE t == [NewTask EXCEPT !.kind = "force", !.pc = "done"]
  <2>1. task' = [task EXCEPT ![c] = t] /\ UNCHANGED <<registry, lock>>
    BY DEF ForceRefresh, Fresh
  <2>2. t.pc = "done" /\ Sound(t)
    BY DEF Sound, NewTask, Before
  <2> HIDE DEF t
  <2> QED
    BY <2>1, <2>2, OneMoves DEF Chosen
<1>3. CASE \E c \in Tasks : Invalidate(c)
  BY <1>3, Goes DEF Invalidate, Before, Chosen
<1>4. CASE \E p \in Pollers : RefreshAsk(p) \/ RefreshKeep(p)
  BY <1>1, <1>4, DisturbedKeeps DEF RefreshAsk, RefreshKeep
<1>5. CASE \/ Tick \/ IntervalPasses \/ CooldownPasses
           \/ \E c \in Tasks : GiveUp(c)
           \/ \E p \in Pollers : Cycles(p) /\ ~RefreshAsk(p) /\ ~RefreshKeep(p)
  BY <1>1, <1>5 DEF avars, Tick, IntervalPasses, CooldownPasses, GiveUp, Cycles, StartCycle, OfflineSection,
     ReadLive, ReadRecords, NextCard, SectionBuilt, Stamp, EndCycle, ReadToken, Reread, FetchUsage
<1> QED
  BY <1>2, <1>3, <1>4, <1>5
-----------------------------------------------------------------------------
\* It holds at the start: one record at most, and no call is made.
LEMMA InitInv == Init => IInv
<1> SUFFICES ASSUME Init PROVE IInv
  OBVIOUS
<1>1. task = [c \in Tasks |-> NewTask] /\ lock = None
  BY DEF Init, AInit
<1> DEFINE saved == CHOOSE s \in Slots : TRUE
<1>2. PICK a \in Accounts \cup {None}, b \in IF left.saved > 0 THEN Accounts ELSE {None} :
         registry = [s \in Slots |-> IF s = saved THEN b ELSE None]
  BY DEF Init, AInit
<1> HIDE DEF saved
<1>3. Sound(NewTask)
  BY DEF Sound, NewTask, Before
<1> QED
  BY <1>1, <1>2, <1>3, AccountsAssumption DEF IInv

\* Every step keeps it.
LEMMA NextInv == IInv /\ [Next]_vars => IInv'
<1> SUFFICES ASSUME IInv, [Next]_vars PROVE IInv'
  OBVIOUS
<1>1. CASE ANext
  BY <1>1, CommandsKeep
<1>2. CASE Crash
  BY <1>2, OutsideKeeps DEF Crash
<1>3. CASE \/ Tick \/ IntervalPasses \/ CooldownPasses
           \/ \E c \in Tasks : ForceRefresh(c) \/ Invalidate(c) \/ GiveUp(c)
           \/ \E p \in Pollers : Cycles(p)
  BY <1>3, PollerKeeps
<1>4. CASE UNCHANGED vars
  BY <1>4 DEF vars, avars, IInv, Sound, Fits
<1> QED
  BY <1>1, <1>2, <1>3, <1>4 DEF Next

\* The registry is a function of the slots, what waits for the lock is a command, and
\* whoever holds the lock and has chosen a record has chosen the only one of its account.
THEOREM LoginsAreSound == Spec => []IInv
<1> QED
  BY InitInv, NextInv, PTL DEF Spec

\* An account has one record at most, however its logins arrived and whatever ended half
\* way: save_live_locked and adopt_login_slot look for the record under the lock, and the
\* choice still stands when the registry is written.
THEOREM OneRecord == Spec => []OneRecordPerAccount
<1>1. IInv => OneRecordPerAccount
  <2> SUFFICES ASSUME IInv, NEW a \in Accounts
               PROVE  Cardinality(Record(a)) <= 1
    BY DEF OneRecordPerAccount
  <2>1. \A s, t \in Record(a) : s = t
    BY AccountsAssumption DEF IInv, Record
  <2>2. CASE Record(a) = {}
    BY <2>2, FS_EmptySet
  <2>3. CASE Record(a) # {}
    <3> PICK s : s \in Record(a)
      BY <2>3
    <3>1. Record(a) = {s}
      BY <2>1
    <3>2. Cardinality(Record(a)) = 1
      BY <3>1, FS_Singleton, Zenon
    <3> QED
      BY <3>2
  <2> QED
    BY <2>2, <2>3
<1> QED
  BY <1>1, LoginsAreSound, PTL
-----------------------------------------------------------------------------
(* What the registry names is whole: the directory of a new login is its own    *)
(* until it is registered, and the holder of the lock registers a directory     *)
(* that has both documents.                                                     *)

\* Where a new login stands from its first step to the end of its cleanup.
Logging == {"slot", "console", "consoleWho", "adopt", "adoptCreds", "adoptWho", "adoptRecord", "cleanup"}
\* The call is a new login that still has its directory to itself.
Owns(t) == t.kind = "login" /\ t.pc \in Logging \cup {"lock"} /\ ~(t.pc = "cleanup" /\ t.ok /\ t.target = t.id)
Kinds(t) == (t.kind = "login" => t.pc \in Logging \cup {"lock", "done"}) /\ (t.pc \in Logging => t.kind = "login")
\* What is about to be stored, and what of it is in the chosen directory by now.
Ready(t) ==
  /\ t.pc \in Chosen \cup {"saveWho"} => t.keepCreds # None
  /\ t.pc \in Chosen => t.target \in Slots /\ t.keepWho # None /\ registry[t.target] \in {None, t.keepWho}
  /\ t.pc \in Chosen \ {"keepCreds", "adoptCreds"} => dir[t.target].creds # None
  /\ t.pc \in {"record", "adoptRecord"} => dir[t.target].who = t.keepWho
\* No other call's directory is the chosen one.
Clear(c, t) == t.pc \in Chosen => \A d \in Tasks : d # c /\ Owns(task[d]) => task[d].id # t.target

Typed ==
  /\ left \in [Budgets -> Nat] /\ valid \subseteq Tokens
  /\ DOMAIN dir = Dirs /\ \A d \in Dirs : DOMAIN dir[d] = DOMAIN NoDir
  /\ DOMAIN poll = Pollers /\ \A p \in Pollers : poll[p].pc = "keep" => poll[p].minted # None
Apart ==
  \A c \in Tasks : Owns(task[c]) =>
    /\ task[c].id \in Slots /\ registry[task[c].id] = None
    /\ \A d \in Tasks : d # c /\ Owns(task[d]) => task[d].id # task[c].id
WInv ==
  /\ \A c \in Tasks : Kinds(task[c])
  /\ Apart
  /\ \A c \in Tasks : lock = c => Ready(task[c]) /\ Clear(c, task[c])
  /\ RegisteredSlotIsWhole

\* A directory keeps its identity, and a token if it had one.
Kept(s) ==
  /\ dir'[s].who = dir[s].who /\ dir'[s].removed = dir[s].removed
  /\ dir[s].creds # None => dir'[s].creds # None

\* The calls stand where they stood, and whatever is written keeps the slots.
LEMMA Around ==
  ASSUME IInv, WInv, DOMAIN task' = Tasks, UNCHANGED registry, \A s \in Slots : Kept(s),
         \A c \in Tasks : lock' = c => lock = c,
         \A c \in Tasks : \A f \in {"kind", "pc", "id", "target", "keepCreds", "keepWho", "ok"} : task'[c][f] = task[c][f]
  PROVE  WInv'
<1>1. \A c \in Tasks : /\ task'[c].kind = task[c].kind /\ task'[c].pc = task[c].pc /\ task'[c].id = task[c].id
                       /\ task'[c].target = task[c].target /\ task'[c].keepCreds = task[c].keepCreds
                       /\ task'[c].keepWho = task[c].keepWho /\ task'[c].ok = task[c].ok
  OBVIOUS
<1>2. \A c \in Tasks : Kinds(task'[c]) /\ (Owns(task'[c]) <=> Owns(task[c]))
  BY <1>1 DEF WInv, Kinds, Owns
<1>3. Apart'
  BY <1>1, <1>2 DEF WInv, Apart
<1>4. ASSUME NEW c \in Tasks, lock' = c
      PROVE  Ready(task[c])' /\ Clear(c, task[c])'
  <2>1. Ready(task[c]) /\ Clear(c, task[c])
    BY <1>4 DEF WInv
  <2>2. Ready(task[c])'
    BY <1>1, <2>1 DEF Ready, Kept, Chosen
  <2>3. Clear(c, task[c])'
    BY <1>1, <1>2, <2>1 DEF Clear
  <2> QED
    BY <2>2, <2>3
<1>5. RegisteredSlotIsWhole'
  BY DEF WInv, RegisteredSlotIsWhole, Parses, Kept
<1> QED
  BY <1>2, <1>3, <1>4, <1>5 DEF WInv

\* What a step of the call c may do to a slot: keep it; change its own; as the holder of
\* the lock, write the one it has chosen whole, or remove one.
Touches(c, s) ==
  \/ Kept(s)
  \/ Owns(task[c]) /\ s = task[c].id
  \/ lock = c /\ task[c].pc \in Chosen /\ s = task[c].target
     /\ dir'[s].creds # None /\ (registry[s] # None => dir'[s].who = registry[s])
  \/ lock = c /\ registry[s] # None /\ dir'[s].removed

\* A step of one call that leaves the registry alone.
LEMMA Moves ==
  ASSUME IInv, WInv, NEW c \in Tasks, NEW t, task' = [task EXCEPT ![c] = t], UNCHANGED registry,
         \A d \in Tasks : d # c /\ lock' = d => lock = d, \A s \in Slots : Touches(c, s),
         Kinds(t), Owns(t) => Owns(task[c]) /\ t.id = task[c].id,
         lock' = c => Ready(t)' /\ Clear(c, t)
  PROVE  WInv'
<1>1. task'[c] = t /\ DOMAIN task' = Tasks /\ \A d \in Tasks : d # c => task'[d] = task[d]
  BY DEF IInv
<1>2. \A d \in Tasks : Kinds(task'[d])
  BY <1>1 DEF WInv
<1>3. \A d \in Tasks : Owns(task'[d]) => Owns(task[d]) /\ task'[d].id = task[d].id
  BY <1>1
<1>4. Apart'
  BY <1>3 DEF WInv, Apart
<1>5. ASSUME NEW d \in Tasks, lock' = d
      PROVE  Ready(task[d])' /\ Clear(d, task[d])'
  <2>1. Clear(d, task'[d]) => Clear(d, task[d])'
    BY <1>3 DEF Clear
  <2>2. CASE d = c
    <3>1. Ready(t)' => Ready(task[d])'
      BY <1>1, <2>2 DEF Ready
    <3> QED
      BY <1>1, <1>5, <2>1, <2>2, <3>1
  <2>3. CASE d # c
    <3>1. task'[d] = task[d] /\ lock = d /\ lock # c
      BY <1>1, <1>5, <2>3
    <3>2. Ready(task[d]) /\ Clear(d, task[d])
      BY <3>1 DEF WInv
    <3>3. task[d].pc \in Chosen => Kept(task[d].target)
      BY <2>3, <3>1, <3>2 DEF Ready, Clear, Touches
    <3>4. Ready(task[d])'
      BY <3>1, <3>2, <3>3 DEF Ready, Kept, Chosen
    <3> QED
      BY <2>1, <3>1, <3>2, <3>4
  <2> QED
    BY <2>2, <2>3
<1>6. RegisteredSlotIsWhole'
  <2> SUFFICES ASSUME NEW s \in Slots, registry[s] # None
               PROVE  dir'[s].removed \/ (dir'[s].creds # None /\ dir'[s].who # None /\ dir'[s].who = registry[s])
    BY DEF RegisteredSlotIsWhole, Parses
  <2>1. dir[s].removed \/ (dir[s].creds # None /\ dir[s].who # None /\ dir[s].who = registry[s])
    BY DEF WInv, RegisteredSlotIsWhole, Parses
  <2>2. ~(Owns(task[c]) /\ s = task[c].id)
    BY DEF WInv, Apart
  <2> QED
    BY <2>1, <2>2 DEF Touches, Kept
<1> QED
  BY <1>2, <1>4, <1>5, <1>6 DEF WInv

\* What a command does outside the slots, and a token that is stored in one.
LEMMA Keeping ==
  ASSUME Typed, NEW s \in Slots,
         \/ UNCHANGED dir
         \/ \E x : Write("live", x)
         \/ \E d, creds : SwapCredentials(d, creds) /\ creds # None
  PROVE  Kept(s)
<1>0. s \in Dirs /\ s # "live" /\ "live" \in Dirs /\ DOMAIN dir = Dirs
  BY AccountsAssumption DEF Dirs, Typed
<1>1. CASE UNCHANGED dir
  BY <1>1 DEF Kept
<1>2. CASE \E x : Write("live", x)
  BY <1>0, <1>2 DEF Kept, Write
<1>3. CASE \E d, creds : SwapCredentials(d, creds) /\ creds # None
  <2> PICK d, creds : SwapCredentials(d, creds) /\ creds # None
    BY <1>3
  <2>1. dir' = [dir EXCEPT ![d] = [dir[d] EXCEPT !.creds = creds]]
    BY DEF SwapCredentials, Write
  <2>2. CASE d = s
    <3>1. dir'[s] = [dir[s] EXCEPT !.creds = creds] /\ DOMAIN dir[s] = DOMAIN NoDir
      BY <1>0, <2>1, <2>2 DEF Typed
    <3> QED
      BY <3>1 DEF Kept, NoDir
  <2>3. CASE d # s
    BY <1>0, <2>1, <2>3 DEF Kept
  <2> QED
    BY <2>2, <2>3
<1> QED
  BY <1>1, <1>2, <1>3

\* Where a call answers, the lock is free.
LEMMA Frees ==
  ASSUME NEW c \in Tasks, Answer(c, TRUE) \/ Answer(c, FALSE)
  PROVE  lock' # c
BY AccountsAssumption DEF Answer

\* A command that has begun and is over; of a new login the cleanup is left.
LEMMA Replies ==
  ASSUME IInv, WInv, NEW c \in Tasks, NEW ok, Answer(c, ok), UNCHANGED registry,
         task[c].pc \notin {"cleanup", "done"}, \A s \in Slots : Touches(c, s)
  PROVE  WInv'
<1> DEFINE t == IF task[c].kind = "login" THEN [task[c] EXCEPT !.ok = ok, !.pc = "cleanup"] ELSE Past(ok)
<1>1. Sound(task[c]) /\ Kinds(task[c])
  BY DEF IInv, WInv
<1>2. Kinds(t) /\ (Owns(t) => Owns(task[c]) /\ t.id = task[c].id)
  <2>1. CASE task[c].kind = "login"
    BY <1>1, <2>1 DEF Sound, NewTask, Kinds, Owns, Logging
  <2>2. CASE task[c].kind # "login"
    BY <2>2, AccountsAssumption DEF Past, NewTask, Kinds, Owns, Logging, Budgets
  <2> QED
    BY <2>1, <2>2
<1>3. task' = [task EXCEPT ![c] = t]
  BY DEF Answer
<1>4. \A d \in Tasks : lock' # d
  BY AccountsAssumption DEF Answer
<1> HIDE DEF t
<1> QED
  BY <1>2, <1>3, <1>4, Moves

\* A call that is no new login goes on, to a step that has nothing to store.
LEMMA Walks ==
  ASSUME IInv, WInv, NEW c \in Tasks, NEW t, task' = [task EXCEPT ![c] = t], UNCHANGED <<registry, lock>>,
         \A s \in Slots : Touches(c, s), task[c].pc \notin Logging \cup {"lock", "done"}, t.kind = task[c].kind,
         t.pc \notin Logging \cup Chosen \cup {"saveWho"}
  PROVE  WInv'
<1>1. Kinds(task[c])
  BY DEF WInv
<1>2. Kinds(t) /\ ~Owns(t) /\ Clear(c, t)
  BY <1>1 DEF Kinds, Owns, Clear
<1>3. Ready(t)'
  BY DEF Ready, Chosen
<1> QED
  BY <1>2, <1>3, Moves

\* What the holder of the lock stores goes to the directory it has chosen: a token ...
LEMMA TokenTouches ==
  ASSUME WInv, Typed, NEW c \in Tasks, lock = c, task[c].pc \in Chosen, StoresCreds(c), NEW s \in Slots
  PROVE  Touches(c, s)
<1>1. task[c].keepCreds # None
  BY DEF WInv, Ready
<1> QED
  BY <1>1, Keeping DEF Touches, StoresCreds

\* ... or, once that is there, an identity.
LEMMA IdentityTouches ==
  ASSUME WInv, Typed, NEW c \in Tasks, lock = c, task[c].pc \in {"keepWho", "adoptWho"}, StoresWho(c), NEW s \in Slots
  PROVE  Touches(c, s)
<1>1. /\ Ready(task[c]) /\ task[c].target \in Dirs /\ dir[task[c].target].creds # None
      /\ DOMAIN dir = Dirs /\ DOMAIN dir[task[c].target] = DOMAIN NoDir
  BY DEF WInv, Ready, Chosen, Dirs, Typed
<1>2. dir'[task[c].target] = [dir[task[c].target] EXCEPT !.who = task[c].keepWho, !.removed = FALSE]
  BY <1>1 DEF StoresWho, Write
<1>3. dir'[task[c].target].creds # None /\ dir'[task[c].target].who = task[c].keepWho
  BY <1>1, <1>2 DEF NoDir
<1>4. CASE s = task[c].target
  BY <1>1, <1>3, <1>4 DEF Touches, Ready, Chosen
<1>5. CASE s # task[c].target
  BY <1>5 DEF Touches, Kept, StoresWho, Write, Typed, Dirs
<1> QED
  BY <1>4, <1>5

\* The token goes to the chosen directory (KeepCreds, AdoptCreds).
LEMMA StoresToken ==
  ASSUME IInv, WInv, Typed, NEW c \in Tasks, lock = c, UNCHANGED <<registry, lock>>,
         NEW from, NEW to, task[c].pc = from, <<from, to>> \in {<<"keepCreds", "keepWho">>, <<"adoptCreds", "adoptWho">>},
         Goto(c, to), StoresCreds(c)
  PROVE  WInv'
<1> SUFFICES ASSUME NEW t, t = [task[c] EXCEPT !.pc = to]
             PROVE  WInv'
  OBVIOUS
<1>1. /\ Sound(task[c]) /\ Kinds(task[c]) /\ Ready(task[c]) /\ Clear(c, task[c])
      /\ from \in {"keepCreds", "adoptCreds"} /\ to = IF from = "keepCreds" THEN "keepWho" ELSE "adoptWho"
  BY DEF IInv, WInv
<1>2. /\ t.pc = to /\ t.kind = task[c].kind /\ t.id = task[c].id /\ t.target = task[c].target /\ t.ok = task[c].ok
      /\ t.keepCreds = task[c].keepCreds /\ t.keepWho = task[c].keepWho
  BY <1>1 DEF Sound, NewTask
<1>3. task' = [task EXCEPT ![c] = t]
  BY DEF Goto
<1>4. \A s \in Slots : Touches(c, s)
  BY <1>1, TokenTouches DEF Chosen
<1>5. dir'[t.target].creds # None
  <2>1. t.target \in Dirs /\ t.keepCreds # None
    BY <1>1, <1>2 DEF Ready, Chosen, Dirs
  <2>2. DOMAIN dir = Dirs /\ DOMAIN dir[t.target] = DOMAIN NoDir
    BY <2>1 DEF Typed
  <2>3. dir'[t.target] = [dir[t.target] EXCEPT !.creds = t.keepCreds]
    BY <1>2, <2>1, <2>2 DEF StoresCreds, SwapCredentials, Write
  <2> QED
    BY <2>1, <2>2, <2>3 DEF NoDir
<1>6. Ready(t)' /\ Clear(c, t)
  BY <1>1, <1>2, <1>5 DEF Ready, Clear, Chosen
<1>7. Kinds(t) /\ (Owns(t) => Owns(task[c]))
  BY <1>1, <1>2 DEF Kinds, Owns, Logging
<1> QED
  BY <1>2, <1>3, <1>4, <1>6, <1>7, Moves

\* The identity follows (KeepWho, AdoptWho): the directory is whole.
LEMMA StoresIdentity ==
  ASSUME IInv, WInv, Typed, NEW c \in Tasks, lock = c, UNCHANGED <<registry, lock>>,
         NEW from, NEW to, task[c].pc = from, <<from, to>> \in {<<"keepWho", "record">>, <<"adoptWho", "adoptRecord">>},
         Goto(c, to), StoresWho(c)
  PROVE  WInv'
<1> SUFFICES ASSUME NEW t, t = [task[c] EXCEPT !.pc = to]
             PROVE  WInv'
  OBVIOUS
<1>1. /\ Sound(task[c]) /\ Kinds(task[c]) /\ Ready(task[c]) /\ Clear(c, task[c])
      /\ from \in {"keepWho", "adoptWho"} /\ to = IF from = "keepWho" THEN "record" ELSE "adoptRecord"
  BY DEF IInv, WInv
<1>2. /\ t.pc = to /\ t.kind = task[c].kind /\ t.id = task[c].id /\ t.target = task[c].target /\ t.ok = task[c].ok
      /\ t.keepCreds = task[c].keepCreds /\ t.keepWho = task[c].keepWho
  BY <1>1 DEF Sound, NewTask
<1>3. task' = [task EXCEPT ![c] = t]
  BY DEF Goto
<1>4. dir'[t.target].creds # None /\ dir'[t.target].who = t.keepWho
  <2>1. t.target \in Dirs /\ dir[t.target].creds # None
    BY <1>1, <1>2 DEF Ready, Chosen, Dirs
  <2>2. DOMAIN dir = Dirs /\ DOMAIN dir[t.target] = DOMAIN NoDir
    BY <2>1 DEF Typed
  <2>3. dir'[t.target] = [dir[t.target] EXCEPT !.who = t.keepWho, !.removed = FALSE]
    BY <1>2, <2>1, <2>2 DEF StoresWho, Write
  <2> QED
    BY <2>1, <2>2, <2>3 DEF NoDir
<1>5. \A s \in Slots : Touches(c, s)
  BY <1>1, IdentityTouches
<1>6. Ready(t)' /\ Clear(c, t)
  BY <1>1, <1>2, <1>4 DEF Ready, Clear, Chosen
<1>7. Kinds(t) /\ (Owns(t) => Owns(task[c]))
  BY <1>1, <1>2 DEF Kinds, Owns, Logging
<1> QED
  BY <1>2, <1>3, <1>5, <1>6, <1>7, Moves

\* The chosen record is written (SaveRecord, AdoptRecord): its directory is whole.
LEMMA RegistersWhole ==
  ASSUME IInv, WInv, NEW c \in Tasks, lock = c, task[c].pc \in {"record", "adoptRecord"}, UNCHANGED dir,
         WritesRecord(c),
         (Goto(c, "swap") /\ UNCHANGED lock /\ task[c].pc = "record") \/ Answer(c, TRUE)
  PROVE  WInv'
<1>1. Sound(task[c]) /\ Kinds(task[c]) /\ Ready(task[c]) /\ Clear(c, task[c])
  BY DEF IInv, WInv
<1>2. /\ task[c].target \in Slots /\ task[c].keepWho # None /\ dir[task[c].target].creds # None
      /\ dir[task[c].target].who = task[c].keepWho
      /\ \A d \in Tasks : d # c /\ Owns(task[d]) => task[d].id # task[c].target
  BY <1>1 DEF Ready, Clear, Chosen
<1>3. /\ registry'[task[c].target] = task[c].keepWho
      /\ \A s \in Slots : s # task[c].target => registry'[s] \in {registry[s], None}
  BY <1>2 DEF WritesRecord
<1>4. RegisteredSlotIsWhole'
  BY <1>2, <1>3 DEF WInv, RegisteredSlotIsWhole, Parses
<1>5. /\ \A d \in Tasks : d # c => task'[d] = task[d]
      /\ Kinds(task'[c]) /\ task'[c].pc \notin Chosen \cup {"saveWho"} /\ (lock' = c \/ lock' = None)
      /\ Owns(task'[c]) => Owns(task[c]) /\ task'[c].id = task[c].id /\ task[c].target # task[c].id
  <2>1. CASE Goto(c, "swap") /\ UNCHANGED lock /\ task[c].pc = "record"
    <3>1. task'[c] = [task[c] EXCEPT !.pc = "swap"] /\ \A d \in Tasks : d # c => task'[d] = task[d]
      BY <2>1 DEF IInv, Goto
    <3>2. task'[c].pc = "swap" /\ task'[c].kind = task[c].kind
      BY <3>1, <1>1 DEF Sound, NewTask
    <3> QED
      BY <1>1, <2>1, <3>1, <3>2 DEF Kinds, Owns, Logging, Chosen
  <2>2. CASE Answer(c, TRUE)
    <3>1. /\ task'[c] = IF task[c].kind = "login" THEN [task[c] EXCEPT !.ok = TRUE, !.pc = "cleanup"] ELSE Past(TRUE)
          /\ \A d \in Tasks : d # c => task'[d] = task[d]
      BY <2>2 DEF IInv, Answer
    <3>2. CASE task[c].kind = "login"
      <4>1. /\ task'[c].kind = "login" /\ task'[c].pc = "cleanup" /\ task'[c].ok = TRUE /\ task'[c].id = task[c].id
            /\ task'[c].target = task[c].target
        BY <1>1, <3>1, <3>2 DEF Sound, NewTask
      <4> QED
        BY <1>1, <2>2, <3>1, <3>2, <4>1 DEF Kinds, Owns, Logging, Chosen, Answer
    <3>3. CASE task[c].kind # "login"
      <4>1. task'[c].kind = None /\ task'[c].pc = "invalidate"
        BY <3>1, <3>3 DEF Past, NewTask
      <4> QED
        BY <2>2, <3>1, <4>1, AccountsAssumption DEF Kinds, Owns, Logging, Chosen, Answer, Budgets
    <3> QED
      BY <3>2, <3>3
  <2> QED
    BY <2>1, <2>2
<1>6. \A d \in Tasks : Kinds(task'[d])
  BY <1>5 DEF WInv
<1>7. Apart'
  <2>1. \A d \in Tasks : Owns(task'[d]) => Owns(task[d]) /\ task'[d].id = task[d].id /\ task[d].id # task[c].target
    BY <1>2, <1>5
  <2> QED
    BY <1>3, <2>1 DEF WInv, Apart
<1>8. ASSUME NEW d \in Tasks, lock' = d
      PROVE  Ready(task[d])' /\ Clear(d, task[d])'
  <2>1. d = c
    BY <1>5, <1>8, AccountsAssumption
  <2> QED
    BY <1>5, <2>1 DEF Ready, Clear, Chosen
<1> QED
  BY <1>4, <1>6, <1>7, <1>8 DEF WInv

\* A record goes with the end of its command (Unregister): nothing is asked of its slot.
LEMMA UnregistersWhole ==
  ASSUME IInv, WInv, NEW c \in Tasks, Unregister(c)
  PROVE  WInv'
<1>1. /\ lock = c /\ task[c].pc = "unregister" /\ registry' = [registry EXCEPT ![task[c].id] = None]
      /\ Answer(c, TRUE) /\ UNCHANGED dir
  BY DEF Unregister, Held, At
<1>2. Kinds(task[c])
  BY DEF WInv
<1>3. task[c].kind # "login"
  BY <1>1, <1>2 DEF Kinds, Logging
<1>4. task'[c] = Past(TRUE) /\ \A d \in Tasks : d # c => task'[d] = task[d]
  BY <1>1, <1>3 DEF IInv, Answer
<1>5. task'[c].kind = None /\ task'[c].pc = "invalidate"
  BY <1>4 DEF Past, NewTask
<1>6. Kinds(task'[c]) /\ ~Owns(task'[c])
  BY <1>5, AccountsAssumption DEF Kinds, Owns, Logging, Budgets
<1>7. \A s \in Slots : registry'[s] = registry[s] \/ registry'[s] = None
  BY <1>1 DEF IInv
<1>8. (\A d \in Tasks : Kinds(task'[d])) /\ Apart'
  BY <1>4, <1>6, <1>7 DEF WInv, Apart
<1>9. RegisteredSlotIsWhole'
  BY <1>1, <1>7 DEF WInv, RegisteredSlotIsWhole, Parses
<1>10. \A d \in Tasks : lock' # d
  BY <1>1, AccountsAssumption DEF Answer
<1> QED
  BY <1>8, <1>9, <1>10 DEF WInv
-----------------------------------------------------------------------------
\* A save (save_live_locked).
LEMMA SaveWhole ==
  ASSUME IInv, WInv, Typed, NEW c \in Tasks,
         SaveReadCreds(c) \/ SaveReadWho(c) \/ KeepCreds(c) \/ KeepWho(c) \/ SaveRecord(c)
  PROVE  WInv'
<1>0. Sound(task[c]) /\ Kinds(task[c]) /\ (lock = c => Ready(task[c]) /\ Clear(c, task[c]))
  BY DEF IInv, WInv
<1>1. CASE SaveReadCreds(c) \/ SaveReadWho(c)
  <2>1. /\ lock = c /\ task[c].pc \in {"saveCreds", "saveWho"} /\ UNCHANGED <<dir, registry>>
        /\ \A s \in Slots : Touches(c, s)
    BY <1>1, Keeping DEF SaveReadCreds, SaveReadWho, Held, At, Touches
  <2>2. CASE Answer(c, FALSE)
    BY <2>1, <2>2, Replies
  <2>3. CASE SaveReadCreds(c) /\ ~Answer(c, FALSE)
    <3> SUFFICES ASSUME NEW t, t = [task[c] EXCEPT !.keepCreds = dir["live"].creds, !.pc = "saveWho"]
                 PROVE  WInv'
      OBVIOUS
    <3>1. task' = [task EXCEPT ![c] = t] /\ UNCHANGED lock /\ dir["live"].creds # None /\ task[c].pc = "saveCreds"
      BY <2>3 DEF SaveReadCreds, Held, At
    <3>2. t.pc = "saveWho" /\ t.keepCreds # None /\ t.kind = task[c].kind
      BY <1>0, <3>1 DEF Sound, NewTask
    <3>3. Kinds(t) /\ ~Owns(t) /\ Ready(t)' /\ Clear(c, t)
      BY <1>0, <3>1, <3>2 DEF Kinds, Owns, Ready, Clear, Logging, Chosen
    <3> QED
      BY <2>1, <3>1, <3>3, Moves
  <2>4. CASE SaveReadWho(c) /\ ~Answer(c, FALSE)
    <3>1. PICK who, lost, s :
             /\ who # None /\ lost \in BOOLEAN
             /\ s \in (IF Known(who, lost) # {} THEN Known(who, lost) ELSE {r \in Unused : r = NewId})
             /\ task' = [task EXCEPT ![c].keepWho = who, ![c].target = s, ![c].lost = lost, ![c].pc = "keepCreds"]
      BY <2>4 DEF SaveReadWho
    <3>2. UNCHANGED lock /\ task[c].pc = "saveWho"
      BY <2>4 DEF SaveReadWho, Held, At
    <3> SUFFICES ASSUME NEW t, t = [task[c] EXCEPT !.keepWho = who, !.target = s, !.lost = lost, !.pc = "keepCreds"]
                 PROVE  WInv'
      OBVIOUS
    <3>3. task' = [task EXCEPT ![c] = t]
      BY <3>1
    <3>4. /\ t.pc = "keepCreds" /\ t.keepWho = who /\ t.target = s /\ t.kind = task[c].kind
          /\ t.keepCreds = task[c].keepCreds
      BY <1>0 DEF Sound, NewTask
    <3>5. /\ s \in Slots /\ registry[s] \in {None, who}
          /\ \A d \in Tasks : Owns(task[d]) => task[d].id # s
      BY <3>1 DEF Known, Record, Unused, WInv, Apart
    <3>6. task[c].keepCreds # None
      BY <1>0, <2>1, <3>2 DEF Ready
    <3>7. Ready(t)' /\ Clear(c, t)
      BY <2>1, <3>1, <3>4, <3>5, <3>6 DEF Ready, Clear, Chosen
    <3>8. Kinds(t) /\ ~Owns(t)
      BY <1>0, <3>2, <3>4 DEF Kinds, Owns, Logging
    <3> QED
      BY <2>1, <3>2, <3>3, <3>7, <3>8, Moves
  <2> QED
    BY <1>1, <2>2, <2>3, <2>4
<1>2. CASE KeepCreds(c)
  BY <1>2, StoresToken DEF KeepCreds, Held, At
<1>3. CASE KeepWho(c)
  BY <1>3, StoresIdentity DEF KeepWho, Held, At
<1>4. CASE SaveRecord(c)
  BY <1>4, RegistersWhole DEF SaveRecord, Held, At
<1> QED
  BY <1>1, <1>2, <1>3, <1>4

\* A switch (activate) writes the live documents only.
LEMMA ActivateWhole ==
  ASSUME IInv, WInv, Typed, NEW c \in Tasks,
         \/ ReadSlot(c) \/ ReadLiveCreds(c) \/ ReadLiveWho(c) \/ SwapCreds(c)
         \/ SwapWho(c) \/ Verify(c) \/ RestoreCreds(c) \/ RestoreWho(c)
  PROVE  WInv'
<1>0. Sound(task[c]) /\ Kinds(task[c])
  BY DEF IInv, WInv
<1>1. /\ lock = c /\ UNCHANGED registry
      /\ task[c].pc \notin Logging \cup {"lock", "done"}
  BY DEF ReadSlot, ReadLiveCreds, ReadLiveWho, SwapCreds, SwapWho, Verify, RestoreCreds, RestoreWho, Held, At, Logging
<1>2. UNCHANGED dir \/ \E x : Write("live", x)
  BY DEF ReadSlot, ReadLiveCreds, ReadLiveWho, SwapCreds, SwapWho, Verify, RestoreCreds, RestoreWho, Restoring,
     SwapCredentials, SwapAccount
<1>3. ASSUME NEW s \in Slots
      PROVE  Touches(c, s)
  <2>1. Kept(s)
    BY <1>2, Keeping
  <2> QED
    BY <2>1 DEF Touches
<1>4. CASE Answer(c, FALSE) \/ Answer(c, TRUE)
  BY <1>1, <1>3, <1>4, Replies DEF Logging
<1>5. CASE ~Answer(c, FALSE) /\ ~Answer(c, TRUE)
  <2>1. PICK t : /\ task' = [task EXCEPT ![c] = t] /\ t.kind = task[c].kind /\ UNCHANGED lock
                 /\ t.pc \in {"readCreds", "readWho", "saveCreds", "swap", "swapWho", "verify", "restoreCreds",
                              "restoreBoth", "restoreWho"}
    <3>1. CASE ReadSlot(c)
      <4> DEFINE t == [task[c] EXCEPT !.wanted = registry[task[c].id], !.slotCreds = dir[task[c].id].creds,
                                      !.slotWho = dir[task[c].id].who, !.pc = "readCreds"]
      <4>1. task' = [task EXCEPT ![c] = t] /\ UNCHANGED lock
        BY <1>5, <3>1 DEF ReadSlot
      <4>2. t.pc = "readCreds" /\ t.kind = task[c].kind
        BY <1>0 DEF Sound, NewTask
      <4> HIDE DEF t
      <4> QED
        BY <4>1, <4>2
    <3>2. CASE ReadLiveCreds(c)
      <4> DEFINE t == [task[c] EXCEPT !.liveCreds = dir["live"].creds, !.pc = "readWho"]
      <4>1. task' = [task EXCEPT ![c] = t] /\ UNCHANGED lock
        BY <3>2 DEF ReadLiveCreds
      <4>2. t.pc = "readWho" /\ t.kind = task[c].kind
        BY <1>0 DEF Sound, NewTask
      <4> HIDE DEF t
      <4> QED
        BY <4>1, <4>2
    <3>3. CASE ReadLiveWho(c)
      <4>1. PICK pc \in {"saveCreds", "swap"} :
               task' = [task EXCEPT ![c].liveWho = dir["live"].who, ![c].pc = pc]
        BY <1>5, <3>3 DEF ReadLiveWho
      <4> DEFINE t == [task[c] EXCEPT !.liveWho = dir["live"].who, !.pc = pc]
      <4>2. task' = [task EXCEPT ![c] = t] /\ UNCHANGED lock
        BY <1>5, <3>3, <4>1 DEF ReadLiveWho
      <4>3. t.pc \in {"saveCreds", "swap"} /\ t.kind = task[c].kind
        BY <1>0 DEF Sound, NewTask
      <4> HIDE DEF t
      <4> QED
        BY <4>2, <4>3
    <3>4. CASE SwapCreds(c) \/ SwapWho(c) \/ Verify(c) \/ RestoreCreds(c) \/ RestoreWho(c)
      <4> PICK pc \in {"swapWho", "verify", "restoreCreds", "restoreBoth", "restoreWho"} :
             Goto(c, pc) /\ UNCHANGED lock
        BY <1>5, <3>4 DEF SwapCreds, SwapWho, Verify, RestoreCreds, RestoreWho
      <4> DEFINE t == [task[c] EXCEPT !.pc = pc]
      <4>1. task' = [task EXCEPT ![c] = t]
        BY DEF Goto
      <4>2. t.pc = pc /\ t.kind = task[c].kind
        BY <1>0 DEF Sound, NewTask
      <4> HIDE DEF t
      <4> QED
        BY <4>1, <4>2
    <3> QED
      BY <3>1, <3>2, <3>3, <3>4
  <2>2. t.pc \notin Logging \cup Chosen \cup {"saveWho"}
    BY <2>1 DEF Logging, Chosen
  <2> QED
    BY <1>1, <1>3, <2>1, <2>2, Walks
<1> QED
  BY <1>4, <1>5

\* A removal: its own slot goes before its record.
LEMMA RemoveWhole ==
  ASSUME IInv, WInv, Typed, NEW c \in Tasks, DeleteSlot(c) \/ Unregister(c)
  PROVE  WInv'
<1>0. Sound(task[c]) /\ Kinds(task[c])
  BY DEF IInv, WInv
<1>1. CASE DeleteSlot(c)
  <2>1. lock = c /\ task[c].pc = "remove" /\ UNCHANGED registry
    BY <1>1 DEF DeleteSlot, Held, At
  <2>2. ASSUME NEW s \in Slots
        PROVE  Touches(c, s)
    <3>1. s \in Dirs /\ DOMAIN dir = Dirs
      BY DEF Dirs, Typed
    <3>2. CASE UNCHANGED dir \/ s # task[c].id
      BY <1>1, <3>1, <3>2, Keeping DEF DeleteSlot, Touches, Kept, Write
    <3>3. CASE ~UNCHANGED dir /\ s = task[c].id
      <4>1. dir' = [dir EXCEPT ![s] = [NoDir EXCEPT !.removed = TRUE]] /\ registry[s] # None
        BY <1>1, <3>3 DEF DeleteSlot, Write
      <4> QED
        BY <2>1, <3>1, <4>1 DEF Touches, NoDir
    <3> QED
      BY <3>2, <3>3
  <2>3. CASE Answer(c, FALSE)
    BY <2>1, <2>2, <2>3, Replies
  <2>4. CASE ~Answer(c, FALSE)
    <3> DEFINE t == [task[c] EXCEPT !.pc = "unregister"]
    <3>1. task' = [task EXCEPT ![c] = t] /\ UNCHANGED lock
      BY <1>1, <2>4 DEF DeleteSlot, Goto
    <3>2. t.pc = "unregister" /\ t.kind = task[c].kind
      BY <1>0 DEF Sound, NewTask
    <3> HIDE DEF t
    <3> QED
      BY <2>1, <2>2, <3>1, <3>2, Walks DEF Logging, Chosen
  <2> QED
    BY <2>3, <2>4
<1>2. CASE Unregister(c)
  BY <1>2, UnregistersWhole
<1> QED
  BY <1>1, <1>2
-----------------------------------------------------------------------------
\* A new login outside the lock, and its cleanup: only its own directory is written.
LEMMA ConsoleWhole ==
  ASSUME IInv, WInv, Typed, NEW c \in Tasks, MakeSlot(c) \/ ConsoleLogin(c) \/ ConsoleWho(c) \/ Cleanup(c)
  PROVE  WInv'
<1>0. Sound(task[c]) /\ Kinds(task[c])
  BY DEF IInv, WInv
<1>1. task[c].pc \in {"slot", "console", "consoleWho", "cleanup"} /\ UNCHANGED <<registry, lock>>
  BY DEF MakeSlot, ConsoleLogin, ConsoleWho, Cleanup, At
<1>2. UNCHANGED dir \/ (Owns(task[c]) /\ \E x : Write(task[c].id, x))
  BY <1>0, <1>1 DEF MakeSlot, ConsoleLogin, ConsoleWho, Cleanup, SwapCredentials, SwapAccount, Owns, Kinds, Logging, At
<1>3. ASSUME NEW s \in Slots
      PROVE  Touches(c, s)
  <2>1. CASE UNCHANGED dir
    BY <2>1, Keeping DEF Touches
  <2>2. CASE Owns(task[c]) /\ \E x : Write(task[c].id, x)
    BY <2>2 DEF Touches, Kept, Write, Typed, Dirs
  <2> QED
    BY <1>2, <2>1, <2>2
<1>4. PICK t : /\ task' = [task EXCEPT ![c] = t]
               /\ \/ /\ task[c].pc # "cleanup" /\ t.kind = task[c].kind /\ t.id = task[c].id
                     /\ t.pc \in {"console", "done", "lock", "consoleWho"}
                  \/ t.kind = None /\ t.pc \in {"invalidate", "done"}
  <2>1. CASE MakeSlot(c) \/ ConsoleWho(c) \/ (ConsoleLogin(c) /\ Goto(c, "lock"))
    <3> PICK pc \in {"console", "done", "lock"} : Goto(c, pc)
      BY <2>1 DEF MakeSlot, ConsoleWho
    <3> DEFINE t == [task[c] EXCEPT !.pc = pc]
    <3>1. task' = [task EXCEPT ![c] = t] /\ task[c].pc # "cleanup"
      BY <2>1 DEF Goto, MakeSlot, ConsoleWho, ConsoleLogin, At
    <3>2. t.pc = pc /\ t.kind = task[c].kind /\ t.id = task[c].id
      BY <1>0 DEF Sound, NewTask
    <3> HIDE DEF t
    <3> QED
      BY <3>1, <3>2
  <2>2. CASE ConsoleLogin(c) /\ ~Goto(c, "lock")
    <3>1. PICK a \in Accounts : task' = [task EXCEPT ![c].slotWho = a, ![c].pc = "consoleWho"]
      BY <2>2 DEF ConsoleLogin
    <3> DEFINE t == [task[c] EXCEPT !.slotWho = a, !.pc = "consoleWho"]
    <3>2. task' = [task EXCEPT ![c] = t] /\ task[c].pc # "cleanup"
      BY <2>2, <3>1 DEF ConsoleLogin, At
    <3>3. t.pc = "consoleWho" /\ t.kind = task[c].kind /\ t.id = task[c].id
      BY <1>0 DEF Sound, NewTask
    <3> HIDE DEF t
    <3> QED
      BY <3>2, <3>3
  <2>3. CASE Cleanup(c)
    <3> DEFINE t == Past(task[c].ok)
    <3>1. task' = [task EXCEPT ![c] = t]
      BY <2>3 DEF Cleanup
    <3>2. t.kind = None /\ t.pc \in {"invalidate", "done"}
      BY DEF Past, NewTask
    <3> HIDE DEF t
    <3> QED
      BY <3>1, <3>2
  <2> QED
    BY <2>1, <2>2, <2>3
<1>5. Kinds(t) /\ (Owns(t) => Owns(task[c]) /\ t.id = task[c].id)
  BY <1>0, <1>1, <1>4, AccountsAssumption DEF Kinds, Owns, Logging, Budgets
<1>6. Ready(t)' /\ Clear(c, t)
  BY <1>4 DEF Ready, Clear, Chosen
<1> QED
  BY <1>1, <1>3, <1>4, <1>5, <1>6, Moves

\* Under the lock (adopt_login_slot): its own directory, or the one of the account's record.
LEMMA AdoptWhole ==
  ASSUME IInv, WInv, Typed, NEW c \in Tasks, Adopt(c) \/ AdoptCreds(c) \/ AdoptWho(c) \/ AdoptRecord(c)
  PROVE  WInv'
<1>0. Sound(task[c]) /\ Kinds(task[c])
  BY DEF IInv, WInv
<1>1. CASE Adopt(c)
  <2>1. /\ lock = c /\ task[c].pc = "adopt" /\ UNCHANGED <<dir, registry>>
        /\ \A s \in Slots : Touches(c, s)
    BY <1>1, Keeping DEF Adopt, Held, At, Touches
  <2>2. CASE Answer(c, FALSE)
    BY <2>1, <2>2, Replies
  <2>3. CASE ~Answer(c, FALSE)
    <3> DEFINE mine == dir[task[c].id]
               pc(lost) == IF Known(mine.who, lost) = {} THEN "adoptRecord" ELSE "adoptCreds"
    <3>0. mine.creds # None /\ mine.who # None /\ UNCHANGED lock
      BY <1>1, <2>3 DEF Adopt, Parses
    <3>1. PICK lost, s :
             /\ s \in (IF Known(mine.who, lost) = {} THEN {task[c].id} ELSE Known(mine.who, lost))
             /\ task' = [task EXCEPT ![c].keepCreds = mine.creds, ![c].keepWho = mine.who, ![c].target = s,
                                     ![c].lost = lost, ![c].pc = pc(lost)]
      BY <1>1, <2>3 DEF Adopt
    <3> SUFFICES ASSUME NEW t, t = [task[c] EXCEPT !.keepCreds = mine.creds, !.keepWho = mine.who, !.target = s,
                                                   !.lost = lost, !.pc = pc(lost)]
                 PROVE  WInv'
      OBVIOUS
    <3>2. task' = [task EXCEPT ![c] = t]
      BY <3>1
    <3>3. /\ t.pc = pc(lost) /\ t.keepWho = mine.who /\ t.target = s /\ t.kind = task[c].kind /\ t.id = task[c].id
          /\ t.keepCreds = mine.creds
      BY <1>0 DEF Sound, NewTask
    <3>4. Owns(task[c])
      BY <1>0, <2>1 DEF Kinds, Owns, Logging
    <3>5. /\ s \in Slots /\ registry[s] \in {None, mine.who}
          /\ \A d \in Tasks : d # c /\ Owns(task[d]) => task[d].id # s
      <4> HIDE DEF mine
      <4>1. CASE Known(mine.who, lost) = {}
        <5>1. s = task[c].id
          BY <3>1, <4>1
        <5> QED
          BY <3>4, <5>1 DEF WInv, Apart
      <4>2. CASE Known(mine.who, lost) # {}
        <5>1. s \in Slots /\ registry[s] = mine.who
          BY <3>1, <4>2 DEF Known, Record
        <5> QED
          BY <3>0, <5>1 DEF WInv, Apart
      <4> QED
        BY <4>1, <4>2
    <3>6. Ready(t)' /\ Clear(c, t)
      BY <2>1, <3>0, <3>1, <3>3, <3>5 DEF Ready, Clear, Chosen
    <3>7. Kinds(t)
      BY <1>0, <2>1, <3>1, <3>3 DEF Kinds, Logging
    <3> QED
      BY <2>1, <3>0, <3>2, <3>3, <3>4, <3>6, <3>7, Moves
  <2> QED
    BY <2>2, <2>3
<1>2. CASE AdoptCreds(c)
  BY <1>2, StoresToken DEF AdoptCreds, Held, At
<1>3. CASE AdoptWho(c)
  BY <1>3, StoresIdentity DEF AdoptWho, Held, At
<1>4. CASE AdoptRecord(c)
  BY <1>4, RegistersWhole DEF AdoptRecord, Held, At
<1> QED
  BY <1>1, <1>2, <1>3, <1>4
-----------------------------------------------------------------------------
\* A command begins; the directory of a new login is one that nobody has chosen.
LEMMA BeginsWhole ==
  ASSUME IInv, WInv, Typed, NEW c \in Tasks, Begins(c)
  PROVE  WInv'
<1>1. PICK kind \in Commands : \E s : Begin(c, kind, s) /\ (kind = "login" => s \in Unused)
  <2>1. NewId \in Unused \/ Unused = {}
    BY DEF NewId
  <2> QED
    BY <2>1 DEF Begins, SaveLive, Activate, RemoveAccount, LoginNew, Commands
<1>2. PICK s : Begin(c, kind, s) /\ (kind = "login" => s \in Unused)
  BY <1>1
<1> DEFINE pc == IF kind = "login" THEN "slot" ELSE "lock"
<1> SUFFICES ASSUME NEW t, t = [NewTask EXCEPT !.kind = kind, !.id = s, !.pc = pc]
             PROVE  WInv'
  OBVIOUS
<1>3. task' = [task EXCEPT ![c] = t] /\ UNCHANGED <<dir, registry, lock>>
  BY <1>2 DEF Begin
<1>4. t.kind = kind /\ t.id = s /\ t.pc = pc
  BY DEF NewTask
<1>5. Kinds(t) /\ Ready(t)' /\ Clear(c, t)
  BY <1>4 DEF Kinds, Ready, Clear, Logging, Chosen
<1>6. CASE kind # "login"
  <2>1. ~Owns(t)
    BY <1>4, <1>6 DEF Owns
  <2>2. \A r \in Slots : Touches(c, r)
    BY <1>3, Keeping DEF Touches
  <2> QED
    BY <1>3, <1>5, <2>1, <2>2, Moves
<1>7. CASE kind = "login"
  <2>1. task'[c] = t /\ DOMAIN task' = Tasks /\ \A d \in Tasks : d # c => task'[d] = task[d]
    BY <1>3 DEF IInv
  <2>2. s \in Slots /\ registry[s] = None /\ \A d \in Tasks : s # task[d].id /\ s # task[d].target
    BY <1>2, <1>7 DEF Unused
  <2>3. Apart'
    <3> SUFFICES ASSUME NEW d \in Tasks, Owns(task'[d])
                 PROVE  /\ task'[d].id \in Slots /\ registry[task'[d].id] = None
                        /\ \A e \in Tasks : e # d /\ Owns(task'[e]) => task'[e].id # task'[d].id
      BY <1>3 DEF Apart
    <3>1. CASE d = c
      BY <1>4, <2>1, <2>2, <3>1
    <3>2. CASE d # c
      <4>1. task'[d] = task[d] /\ Owns(task[d]) /\ s # task[d].id
        BY <2>1, <2>2, <3>2
      <4>2. /\ task[d].id \in Slots /\ registry[task[d].id] = None
            /\ \A e \in Tasks : e # d /\ Owns(task[e]) => task[e].id # task[d].id
        BY <4>1 DEF WInv, Apart
      <4>3. \A e \in Tasks : e # d /\ Owns(task'[e]) => task'[e].id # task[d].id
        BY <1>4, <2>1, <4>1, <4>2
      <4> QED
        BY <4>1, <4>2, <4>3
    <3> QED
      BY <3>1, <3>2
  <2>4. ASSUME NEW d \in Tasks, lock' = d
        PROVE  Ready(task[d])' /\ Clear(d, task[d])'
    <3>1. CASE d = c
      BY <1>4, <1>7, <2>1, <3>1 DEF Ready, Clear, Chosen
    <3>2. CASE d # c
      <4>1. Ready(task[d]) /\ Clear(d, task[d]) /\ task'[d] = task[d]
        BY <1>3, <2>1, <2>4, <3>2 DEF WInv
      <4>2. Ready(task[d])'
        BY <1>3, <4>1 DEF Ready
      <4>3. \A e \in Tasks : e = c \/ task'[e] = task[e]
        BY <2>1
      <4>4. s # task[d].target /\ task'[c].id = s
        BY <1>4, <2>1, <2>2
      <4>5. Clear(d, task[d])'
        BY <4>1, <4>3, <4>4 DEF Clear
      <4> QED
        BY <4>2, <4>5
    <3> QED
      BY <3>1, <3>2
  <2>5. RegisteredSlotIsWhole' /\ \A d \in Tasks : Kinds(task'[d])
    BY <1>3, <1>5, <2>1 DEF WInv, RegisteredSlotIsWhole, Parses
  <2> QED
    BY <2>3, <2>4, <2>5 DEF WInv
<1> QED
  BY <1>6, <1>7

\* TakeLock: nothing is chosen yet.
LEMMA TakeLockWhole ==
  ASSUME IInv, WInv, Typed, NEW c \in Tasks, TakeLock(c)
  PROVE  WInv'
<1> DEFINE pc == CASE task[c].kind = "save" -> "saveCreds" [] task[c].kind = "login" -> "adopt"
                   [] OTHER -> task[c].kind
           found == {a \in Accounts : Found(a)}
<1> SUFFICES ASSUME NEW t, t = [task[c] EXCEPT !.pc = pc, !.calm = TRUE, !.found = found, !.had = left.failures]
             PROVE  WInv'
  OBVIOUS
<1>1. Sound(task[c]) /\ Kinds(task[c]) /\ task[c].pc = "lock" /\ task[c].kind \in Commands
  BY DEF IInv, WInv, TakeLock, At, Sound, Before
<1>2. pc \in {"saveCreds", "activate", "remove", "adopt"} /\ (pc = "adopt" <=> task[c].kind = "login")
  BY <1>1 DEF Commands
<1>3. task' = [task EXCEPT ![c] = t] /\ UNCHANGED <<dir, registry>> /\ lock = None /\ lock' = c
  BY DEF TakeLock
<1> HIDE DEF pc, found
<1>4. t.pc = pc /\ t.kind = task[c].kind /\ t.id = task[c].id
  BY <1>1 DEF Sound, NewTask
<1>5. Kinds(t) /\ Ready(t)' /\ Clear(c, t) /\ (Owns(t) => Owns(task[c]))
  BY <1>1, <1>2, <1>4 DEF Kinds, Ready, Clear, Owns, Logging, Chosen
<1>6. \A s \in Slots : Touches(c, s)
  BY <1>3, Keeping DEF Touches
<1> QED
  BY <1>3, <1>4, <1>5, <1>6, Moves

\* A step that fails (Fails): what was written stays, and is no record's unless it is whole.
LEMMA FailsWhole ==
  ASSUME IInv, WInv, Typed, NEW c \in Tasks, Fails(c)
  PROVE  WInv'
<1>1. task[c].pc \notin {"cleanup", "done"} /\ Answer(c, FALSE) /\ UNCHANGED <<dir, registry>>
  BY DEF Fails, Held, At, Working
<1>2. \A s \in Slots : Touches(c, s)
  BY <1>1, Keeping DEF Touches
<1> QED
  BY <1>1, <1>2, Replies

\* A write that was done and counts as failed: a whole slot stays whole, or is a removal's.
LEMMA ReplyLostWhole ==
  ASSUME IInv, WInv, Typed, NEW c \in Tasks, ReplyLost(c)
  PROVE  WInv'
<1>1. Sound(task[c]) /\ Kinds(task[c]) /\ lock = c /\ UNCHANGED registry
  BY DEF IInv, WInv, ReplyLost, Held
<1>2. CASE Answer(c, FALSE)
  <2>1. task[c].pc \notin {"cleanup", "done"}
    BY <1>2, Frees DEF ReplyLost, Held, At
  <2>2. ASSUME NEW s \in Slots
        PROVE  Touches(c, s)
    <3>1. CASE task[c].pc \in {"keepCreds", "adoptCreds"}
      BY <1>1, <1>2, <3>1, TokenTouches, Frees DEF ReplyLost, Held, At, Chosen
    <3>2. CASE task[c].pc \in {"keepWho", "adoptWho"}
      BY <1>1, <1>2, <3>2, IdentityTouches, Frees DEF ReplyLost, Held, At
    <3>3. CASE task[c].pc = "remove"
      <4>1. registry[task[c].id] # None /\ dir' = [dir EXCEPT ![task[c].id] = [NoDir EXCEPT !.removed = TRUE]]
        BY <1>2, <3>3, Frees DEF ReplyLost, Held, At, Write
      <4>2. s \in Dirs /\ DOMAIN dir = Dirs
        BY DEF Dirs, Typed
      <4>3. CASE s = task[c].id
        BY <1>1, <4>1, <4>2, <4>3 DEF Touches, NoDir
      <4>4. CASE s # task[c].id
        BY <4>1, <4>2, <4>4 DEF Touches, Kept
      <4> QED
        BY <4>3, <4>4
    <3> QED
      BY <1>1, <1>2, <3>1, <3>2, <3>3, Frees DEF ReplyLost, Held, At
  <2> QED
    BY <1>1, <1>2, <2>1, <2>2, Replies
<1>3. CASE ~Answer(c, FALSE)
  <2>1. PICK pc \in {"torn", "restoreCreds"} :
           task' = [task EXCEPT ![c].torn = TRUE, ![c].pc = pc] /\ UNCHANGED lock
    BY <1>3 DEF ReplyLost
  <2>2. task[c].pc \in {"swap", "swapWho"} /\ \E x : Write("live", x)
    BY <1>3 DEF ReplyLost, Held, At, SwapCredentials, SwapAccount
  <2>3. \A s \in Slots : Touches(c, s)
    BY <2>2, Keeping DEF Touches
  <2> DEFINE t == [task[c] EXCEPT !.torn = TRUE, !.pc = pc]
  <2>4. t.pc = pc /\ t.kind = task[c].kind
    BY <1>1 DEF Sound, NewTask
  <2>5. task' = [task EXCEPT ![c] = t]
    BY <2>1
  <2> HIDE DEF t
  <2> QED
    BY <1>1, <2>1, <2>2, <2>3, <2>4, <2>5, Walks DEF Logging, Chosen
<1> QED
  BY <1>2, <1>3

\* The marks of a disturbance are no part of what is kept.
LEMMA DisturbedStands ==
  ASSUME IInv, task' = Disturbed
  PROVE  /\ DOMAIN task' = Tasks
         /\ \A c \in Tasks : \A f \in {"kind", "pc", "id", "target", "keepCreds", "keepWho", "ok"} :
               task'[c][f] = task[c][f]
<1>1. \A c \in Tasks : task'[c] = [task[c] EXCEPT !.calm = FALSE] /\ Sound(task[c])
  BY DEF Disturbed, IInv
<1> QED
  BY <1>1 DEF Disturbed, Sound, NewTask

\* The surroundings write the live documents, and the end of the application forgets the
\* calls: what a call had half written is no record's.
LEMMA OutsideWhole ==
  ASSUME IInv, WInv, Typed, Outside \/ ACrash
  PROVE  WInv'
<1>1. CASE Outside
  <2>1. ASSUME NEW s \in Slots
        PROVE  Kept(s)
    <3>1. UNCHANGED dir \/ \E x : Write("live", x)
      BY <1>1 DEF Outside, SessionStarts, SessionRefreshes, SessionEnds, OutsideIdentity, DistroTurns, OutsideToken,
         SwapCredentials, SwapAccount
    <3> QED
      BY <3>1, Keeping
  <2>2. UNCHANGED <<registry, lock>> /\ (UNCHANGED task \/ task' = Disturbed)
    BY <1>1 DEF Outside, SessionStarts, SessionRefreshes, SessionEnds, OutsideIdentity, DistroTurns, OutsideToken
  <2>3. CASE UNCHANGED task
    BY <2>1, <2>2, <2>3, Around DEF IInv
  <2>4. CASE task' = Disturbed
    BY <2>1, <2>2, <2>4, DisturbedStands, Around
  <2> QED
    BY <2>2, <2>3, <2>4
<1>2. CASE ACrash
  <2>1. UNCHANGED <<dir, registry>> /\ \A c \in Tasks : lock' # c
    BY <1>2, AccountsAssumption DEF ACrash
  <2>2. \A c \in Tasks : task'[c].kind = None /\ task'[c].pc \in {"new", "crashed"}
    BY <1>2 DEF ACrash, At, NewTask
  <2>3. \A c \in Tasks : Kinds(task'[c]) /\ ~Owns(task'[c])
    BY <2>2, AccountsAssumption DEF Kinds, Owns, Logging, Budgets
  <2> QED
    BY <2>1, <2>3 DEF WInv, Apart, RegisteredSlotIsWhole, Parses
<1> QED
  BY <1>1, <1>2

\* A step of the commands: whichever it is, one of the lemmas above.
LEMMA CommandsWhole ==
  ASSUME IInv, WInv, Typed, ANext
  PROVE  WInv'
<1>1. CASE Outside
  BY <1>1, OutsideWhole
<1>2. CASE \E c \in Tasks : Begins(c) \/ Works(c)
  <2> PICK c \in Tasks : Begins(c) \/ Works(c)
    BY <1>2
  <2>1. CASE Begins(c)
    BY <2>1, BeginsWhole
  <2>2. CASE TakeLock(c)
    BY <2>2, TakeLockWhole
  <2>3. CASE Fails(c) \/ ReplyLost(c)
    BY <2>3, FailsWhole, ReplyLostWhole
  <2>4. CASE SaveReadCreds(c) \/ SaveReadWho(c) \/ KeepCreds(c) \/ KeepWho(c) \/ SaveRecord(c)
    BY <2>4, SaveWhole
  <2>5. CASE \/ ReadSlot(c) \/ ReadLiveCreds(c) \/ ReadLiveWho(c) \/ SwapCreds(c)
             \/ SwapWho(c) \/ Verify(c) \/ RestoreCreds(c) \/ RestoreWho(c)
    BY <2>5, ActivateWhole
  <2>6. CASE DeleteSlot(c) \/ Unregister(c)
    BY <2>6, RemoveWhole
  <2>7. CASE MakeSlot(c) \/ ConsoleLogin(c) \/ ConsoleWho(c) \/ Cleanup(c)
    BY <2>7, ConsoleWhole
  <2>8. CASE Adopt(c) \/ AdoptCreds(c) \/ AdoptWho(c) \/ AdoptRecord(c)
    BY <2>8, AdoptWhole
  <2> QED
    BY <2>1, <2>2, <2>3, <2>4, <2>5, <2>6, <2>7, <2>8 DEF Works, Reaches
<1> QED
  BY <1>1, <1>2 DEF ANext

\* The poller, outside the lock: the token that its CLI stores leaves a whole slot whole.
LEMMA PollerWhole ==
  ASSUME IInv, WInv, Typed,
         \/ Tick \/ IntervalPasses \/ CooldownPasses
         \/ \E c \in Tasks : ForceRefresh(c) \/ Invalidate(c) \/ GiveUp(c)
         \/ \E p \in Pollers : Cycles(p)
  PROVE  WInv'
<1>1. CASE UNCHANGED <<dir, registry, lock, task>>
  BY <1>1, Keeping, Around DEF IInv
<1>2. CASE \E c \in Tasks : ForceRefresh(c)
  <2> PICK c \in Tasks : ForceRefresh(c)
    BY <1>2
  <2> SUFFICES ASSUME NEW t, t = [NewTask EXCEPT !.kind = "force", !.pc = "done"]
               PROVE  WInv'
    OBVIOUS
  <2>1. task' = [task EXCEPT ![c] = t] /\ UNCHANGED <<dir, registry, lock>>
    BY DEF ForceRefresh, Fresh
  <2>2. t.pc = "done" /\ t.kind = "force"
    BY DEF NewTask
  <2>3. Kinds(t) /\ ~Owns(t) /\ Ready(t)' /\ Clear(c, t)
    BY <2>2 DEF Kinds, Owns, Ready, Clear, Logging, Chosen
  <2>4. \A s \in Slots : Touches(c, s)
    BY <2>1, Keeping DEF Touches
  <2> QED
    BY <2>1, <2>3, <2>4, Moves
<1>3. CASE \E c \in Tasks : Invalidate(c)
  <2> PICK c \in Tasks : Invalidate(c)
    BY <1>3
  <2> DEFINE t == [task[c] EXCEPT !.pc = "done"]
  <2>1. task' = [task EXCEPT ![c] = t] /\ UNCHANGED <<dir, registry, lock>> /\ task[c].pc = "invalidate"
    BY DEF Invalidate, Goto, At
  <2>2. Sound(task[c])
    BY DEF IInv
  <2>3. t.pc = "done" /\ t.kind = task[c].kind
    BY <2>2 DEF Sound, NewTask
  <2>4. \A s \in Slots : Touches(c, s)
    BY <2>1, Keeping DEF Touches
  <2> HIDE DEF t
  <2> QED
    BY <2>1, <2>3, <2>4, Walks DEF Logging, Chosen
<1>4. CASE \E p \in Pollers : RefreshAsk(p) \/ RefreshKeep(p)
  <2> PICK p \in Pollers : RefreshAsk(p) \/ RefreshKeep(p)
    BY <1>4
  <2>1. ASSUME NEW s \in Slots
        PROVE  Kept(s)
    <3>1. CASE UNCHANGED dir
      BY <3>1, Keeping
    <3>2. CASE ~UNCHANGED dir
      <4>1. SwapCredentials(poll[p].card.source, poll[p].minted) /\ poll[p].pc = "keep"
        BY <3>2 DEF RefreshAsk, RefreshKeep, SwapCredentials, On
      <4>2. poll[p].minted # None
        BY <4>1 DEF Typed
      <4> QED
        BY <4>1, <4>2, Keeping
    <3> QED
      BY <3>1, <3>2
  <2>2. UNCHANGED <<registry, lock>> /\ (UNCHANGED task \/ task' = Disturbed)
    BY DEF RefreshAsk, RefreshKeep
  <2>3. CASE UNCHANGED task
    BY <2>1, <2>2, <2>3, Around DEF IInv
  <2>4. CASE task' = Disturbed
    BY <2>1, <2>2, <2>4, DisturbedStands, Around
  <2> QED
    BY <2>2, <2>3, <2>4
<1>5. CASE \/ Tick \/ IntervalPasses \/ CooldownPasses
           \/ \E c \in Tasks : GiveUp(c)
           \/ \E p \in Pollers : Cycles(p) /\ ~RefreshAsk(p) /\ ~RefreshKeep(p)
  BY <1>1, <1>5 DEF avars, Tick, IntervalPasses, CooldownPasses, GiveUp, Cycles, StartCycle, OfflineSection,
     ReadLive, ReadRecords, NextCard, SectionBuilt, Stamp, EndCycle, ReadToken, Reread, FetchUsage
<1> QED
  BY <1>2, <1>3, <1>4, <1>5
-----------------------------------------------------------------------------
(* The types *)

\* A bound that is spent.
LEMMA Spending ==
  ASSUME left \in [Budgets -> Nat], UNCHANGED left \/ \E what \in Budgets : Spend(what)
  PROVE  left' \in [Budgets -> Nat]
  BY DEF Spend

\* A document that is written, or a directory that goes.
LEMMA Writing ==
  ASSUME Typed,
         \/ UNCHANGED dir
         \/ \E d, x : \/ SwapCredentials(d, x) \/ SwapAccount(d, x)
                      \/ Write(d, [dir[d] EXCEPT !.who = x, !.removed = FALSE])
                      \/ Write(d, NoDir) \/ Write(d, [NoDir EXCEPT !.removed = TRUE])
         \/ \E x, y : Write("live", [dir["live"] EXCEPT ![x] = y])
  PROVE  DOMAIN dir' = Dirs /\ \A d \in Dirs : DOMAIN dir'[d] = DOMAIN NoDir
<1>1. CASE UNCHANGED dir
  BY <1>1 DEF Typed
<1>2. CASE \E d, x : \/ SwapCredentials(d, x) \/ SwapAccount(d, x)
                     \/ Write(d, [dir[d] EXCEPT !.who = x, !.removed = FALSE])
                     \/ Write(d, NoDir) \/ Write(d, [NoDir EXCEPT !.removed = TRUE])
  BY <1>2 DEF Typed, SwapCredentials, SwapAccount, Write, NoDir
<1>3. CASE \E x, y : Write("live", [dir["live"] EXCEPT ![x] = y])
  BY <1>3 DEF Typed, Write
<1> QED
  BY <1>1, <1>2, <1>3

\* Tokens come from the server: a login, or the next one of a family.
LEMMA Minting ==
  ASSUME Typed, \/ UNCHANGED valid
                \/ \E a \in Accounts : valid' = valid \cup {Login(a)}
                \/ \E t \in valid : Rotate(t)
  PROVE  valid' \subseteq Tokens
<1>1. ASSUME NEW a \in Accounts
      PROVE  Login(a) \in Tokens
  <2>1. left.logins \in Nat
    BY DEF Typed, Budgets
  <2> QED
    BY <2>1 DEF Login, Tokens
<1>2. ASSUME NEW t \in valid
      PROVE  Rotated(t) \in Tokens
  <2>1. t \in Tokens
    BY DEF Typed
  <2> QED
    BY <2>1 DEF Rotated, Tokens
<1> QED
  BY <1>1, <1>2 DEF Typed, Rotate

\* What the server gave the CLI is there for as long as it is to be stored.
LEMMA Stepping ==
  ASSUME Typed, NEW p \in Pollers, NEW r, Step(p, r),
         IF "pc" \in DOMAIN r THEN r.pc = "keep" => "minted" \in DOMAIN r /\ r.minted # None ELSE poll[p].pc # "keep"
  PROVE  DOMAIN poll' = Pollers /\ \A q \in Pollers : poll'[q].pc = "keep" => poll'[q].minted # None
<1> DEFINE x == [f \in DOMAIN NewPoll |-> IF f \in DOMAIN r THEN r[f] ELSE poll[p][f]]
<1>1. DOMAIN poll' = Pollers /\ poll'[p] = x /\ \A q \in Pollers : q # p => poll'[q] = poll[q]
  BY DEF Step, Typed
<1>2. x.pc = (IF "pc" \in DOMAIN r THEN r.pc ELSE poll[p].pc) /\ ("minted" \in DOMAIN r => x.minted = r.minted)
  BY DEF NewPoll
<1> HIDE DEF x
<1>3. x.pc = "keep" => x.minted # None
  BY <1>2
<1> QED
  BY <1>1, <1>3 DEF Typed

\* What the commands, the consoles and the distro's turns write is typed.
LEMMA CommandsTyped ==
  ASSUME Typed, ANext, UNCHANGED uvars
  PROVE  Typed'
<1>1. CASE Outside
  <2>1. left' \in [Budgets -> Nat]
    <3>1. UNCHANGED left \/ \E what \in Budgets : Spend(what)
      BY <1>1 DEF Outside, SessionStarts, SessionRefreshes, SessionEnds, OutsideIdentity, DistroTurns, OutsideToken, Budgets
    <3> QED
      BY <3>1, Spending DEF Typed
  <2>2. valid' \subseteq Tokens
    <3>1. UNCHANGED valid \/ (\E a \in Accounts : valid' = valid \cup {Login(a)}) \/ \E t \in valid : Rotate(t)
      BY <1>1 DEF Outside, SessionStarts, SessionRefreshes, SessionEnds, OutsideIdentity, DistroTurns, OutsideToken
    <3> QED
      BY <3>1, Minting
  <2>3. DOMAIN dir' = Dirs /\ \A d \in Dirs : DOMAIN dir'[d] = DOMAIN NoDir
    <3>1. UNCHANGED dir \/ \E x : SwapCredentials("live", x) \/ SwapAccount("live", x)
      BY <1>1 DEF Outside, SessionStarts, SessionRefreshes, SessionEnds, OutsideIdentity, DistroTurns, OutsideToken
    <3> QED
      BY <3>1, Writing
  <2> QED
    BY <2>1, <2>2, <2>3 DEF Typed, uvars
<1>2. CASE \E c \in Tasks : Begins(c)
  <2> PICK c \in Tasks, kind \in Commands : \E s : Begin(c, kind, s)
    BY <1>2 DEF Begins, SaveLive, Activate, RemoveAccount, LoginNew, Commands
  <2> PICK s : Begin(c, kind, s)
    OBVIOUS
  <2>1. left' \in [Budgets -> Nat]
    BY Spending DEF Begin, Commands, Budgets, Typed
  <2> QED
    BY <2>1 DEF Begin, Typed, uvars
<1>3. CASE \E c \in Tasks : Works(c)
  <2> PICK c \in Tasks : Works(c)
    BY <1>3
  <2>1. left' \in [Budgets -> Nat]
    <3>1. UNCHANGED left \/ \E what \in Budgets : Spend(what)
      BY DEF Works, Reaches, TakeLock, SaveRecord, Unregister, AdoptRecord, Fails, SwapWho, Verify, RestoreCreds, RestoreWho,
         MakeSlot, ConsoleLogin, ConsoleWho, Cleanup, SaveReadCreds, SaveReadWho, KeepCreds, KeepWho, ReadSlot,
         ReadLiveCreds, ReadLiveWho, SwapCreds, DeleteSlot, Adopt, AdoptCreds, AdoptWho, Failing, Restoring, ReplyLost,
         ReadsRegistry, Budgets
    <3> QED
      BY <3>1, Spending DEF Typed
  <2>2. valid' \subseteq Tokens
    <3>1. UNCHANGED valid \/ \E a \in Accounts : valid' = valid \cup {Login(a)}
      BY DEF Works, Reaches, TakeLock, SaveRecord, Unregister, AdoptRecord, Fails, SwapWho, Verify, RestoreCreds, RestoreWho,
         MakeSlot, ConsoleLogin, ConsoleWho, Cleanup, SaveReadCreds, SaveReadWho, KeepCreds, KeepWho, ReadSlot,
         ReadLiveCreds, ReadLiveWho, SwapCreds, DeleteSlot, Adopt, AdoptCreds, AdoptWho, ReplyLost, Quiet
    <3> QED
      BY <3>1, Minting
  <2>3. DOMAIN dir' = Dirs /\ \A d \in Dirs : DOMAIN dir'[d] = DOMAIN NoDir
    <3>1. CASE KeepWho(c) \/ AdoptWho(c)
      BY <3>1, Writing DEF KeepWho, AdoptWho, StoresWho
    <3>2. CASE RestoreCreds(c) \/ RestoreWho(c)
      BY <3>2, Writing DEF RestoreCreds, RestoreWho, Restoring
    <3>3. CASE DeleteSlot(c) \/ Cleanup(c)
      BY <3>3, Writing DEF DeleteSlot, Cleanup
    <3>4. CASE ConsoleLogin(c) \/ ConsoleWho(c) \/ KeepCreds(c) \/ AdoptCreds(c) \/ SwapCreds(c) \/ SwapWho(c)
      BY <3>4, Writing DEF ConsoleLogin, ConsoleWho, KeepCreds, AdoptCreds, SwapCreds, SwapWho, StoresCreds
    <3>5. CASE \/ TakeLock(c) \/ SaveRecord(c) \/ Unregister(c) \/ AdoptRecord(c) \/ Fails(c) \/ Verify(c) \/ MakeSlot(c)
               \/ SaveReadCreds(c) \/ SaveReadWho(c) \/ ReadSlot(c) \/ ReadLiveCreds(c) \/ ReadLiveWho(c) \/ Adopt(c)
      BY <3>5, Writing DEF TakeLock, SaveRecord, Unregister, AdoptRecord, Fails, Verify, MakeSlot, SaveReadCreds,
         SaveReadWho, ReadSlot, ReadLiveCreds, ReadLiveWho, Adopt
    <3>6. CASE ReplyLost(c)
      BY <3>6, Writing DEF ReplyLost, StoresCreds, StoresWho
    <3> QED
      BY <3>1, <3>2, <3>3, <3>4, <3>5, <3>6 DEF Works, Reaches
  <2> QED
    BY <2>1, <2>2, <2>3 DEF Typed, uvars
<1> QED
  BY <1>1, <1>2, <1>3 DEF ANext

\* So is what the poller, its requests and the clocks write.
LEMMA PollerTyped ==
  ASSUME Typed,
         \/ Tick \/ IntervalPasses \/ CooldownPasses
         \/ \E c \in Tasks : ForceRefresh(c) \/ Invalidate(c) \/ GiveUp(c)
         \/ \E p \in Pollers : Cycles(p)
  PROVE  Typed'
<1>1. ASSUME NEW p \in Pollers, NEW force, NEW waited, Asks(p, force, waited)
      PROVE  DOMAIN poll' = Pollers /\ \A q \in Pollers : poll'[q].pc = "keep" => poll'[q].minted # None
  BY <1>1 DEF Asks, NewPoll, Typed
<1>2. CASE Tick \/ IntervalPasses \/ CooldownPasses
  BY <1>1, <1>2 DEF Tick, IntervalPasses, CooldownPasses, Typed, avars, Pollers
<1>3. CASE \E c \in Tasks : ForceRefresh(c) \/ Invalidate(c)
  <2> PICK c \in Tasks : ForceRefresh(c) \/ Invalidate(c)
    BY <1>3
  <2>1. left' \in [Budgets -> Nat]
    BY Spending DEF ForceRefresh, Invalidate, Budgets, Typed
  <2> QED
    BY <1>1, <2>1 DEF ForceRefresh, Invalidate, Typed, Pollers
<1>4. CASE \E c \in Tasks : GiveUp(c)
  <2> PICK c \in Tasks : GiveUp(c)
    BY <1>4
  <2>1. DOMAIN poll' = Pollers /\ \A q \in Pollers : poll'[q].pc = "keep" => poll'[q].minted # None
    BY Stepping DEF GiveUp, NewPoll, Pollers
  <2> QED
    BY <2>1 DEF GiveUp, Typed, avars
<1>5. CASE \E p \in Pollers : Cycles(p)
  <2> PICK p \in Pollers : Cycles(p)
    BY <1>5
  <2>1. left' \in [Budgets -> Nat]
    <3>1. UNCHANGED left \/ \E what \in Budgets : Spend(what)
      BY DEF Cycles, StartCycle, OfflineSection, ReadLive, ReadRecords, NextCard, SectionBuilt, Stamp, EndCycle, ReadToken, RefreshAsk,
         RefreshKeep, Reread, FetchUsage, avars, Failing, Budgets
    <3> QED
      BY <3>1, Spending DEF Typed
  <2>2. valid' \subseteq Tokens
    <3>1. UNCHANGED valid \/ \E t \in valid : Rotate(t)
      BY DEF Cycles, StartCycle, OfflineSection, ReadLive, ReadRecords, NextCard, SectionBuilt, Stamp, EndCycle, ReadToken, RefreshAsk,
         RefreshKeep, Reread, FetchUsage, avars
    <3> QED
      BY <3>1, Minting
  <2>3. DOMAIN dir' = Dirs /\ \A d \in Dirs : DOMAIN dir'[d] = DOMAIN NoDir
    <3>1. UNCHANGED dir \/ SwapCredentials(poll[p].card.source, poll[p].minted)
      BY DEF Cycles, StartCycle, OfflineSection, ReadLive, ReadRecords, NextCard, SectionBuilt, Stamp, EndCycle, ReadToken, RefreshAsk,
         RefreshKeep, Reread, FetchUsage, avars, SwapCredentials
    <3> QED
      BY <3>1, Writing
  <2>4. DOMAIN poll' = Pollers /\ \A q \in Pollers : poll'[q].pc = "keep" => poll'[q].minted # None
    <3>1. ASSUME NEW e, Noted(p, e)
          PROVE  DOMAIN poll' = Pollers /\ \A q \in Pollers : poll'[q].pc = "keep" => poll'[q].minted # None
      BY <3>1, Stepping DEF Noted
    <3>2. ASSUME Ended(p)
          PROVE  DOMAIN poll' = Pollers /\ \A q \in Pollers : poll'[q].pc = "keep" => poll'[q].minted # None
      BY <3>2, Stepping DEF Ended, NewPoll
    <3>3. CASE StartCycle(p) \/ OfflineSection(p) \/ SectionBuilt(p) \/ Stamp(p) \/ EndCycle(p)
      BY <3>2, <3>3, Stepping DEF StartCycle, OfflineSection, SectionBuilt, Stamp, EndCycle, NewPoll, Pc
    <3>4. CASE ReadLive(p) \/ ReadRecords(p)
      BY <3>4, Stepping DEF ReadLive, ReadRecords
    <3>5. CASE NextCard(p)
      BY <3>5, Stepping DEF NextCard, On
    <3>6. CASE ReadToken(p)
      BY <3>1, <3>6, Stepping DEF ReadToken
    <3>7. CASE RefreshAsk(p)
      <4>1. CASE \E e : Noted(p, e)
        BY <3>1, <4>1
      <4>2. CASE Step(p, Pc("fetch"))
        BY <4>2, Stepping DEF Pc
      <4>3. CASE Step(p, [pc |-> "keep", minted |-> Rotated(Here(p))]) /\ Here(p) \in valid
        <5>1. Here(p) \in Tokens
          BY <4>3 DEF Typed
        <5>2. Rotated(Here(p)) \in Tokens
          BY <5>1 DEF Rotated, Tokens
        <5>3. Rotated(Here(p)) # None
          BY <5>2, AccountsAssumption
        <5> QED
          BY <4>3, <5>3, Stepping
      <4> QED
        BY <3>7, <4>1, <4>2, <4>3 DEF RefreshAsk
    <3>8. CASE RefreshKeep(p) \/ Reread(p)
      BY <3>8, Stepping DEF RefreshKeep, Reread, Pc
    <3>9. CASE FetchUsage(p)
      BY <3>1, <3>9, Stepping DEF FetchUsage
    <3> QED
      BY <3>3, <3>4, <3>5, <3>6, <3>7, <3>8, <3>9 DEF Cycles
  <2> QED
    BY <2>1, <2>2, <2>3, <2>4 DEF Typed
<1> QED
  BY <1>2, <1>3, <1>4, <1>5
-----------------------------------------------------------------------------
\* At the start one slot at most is registered, with a login of its account.
LEMMA InitWhole == Init => Typed /\ WInv
<1> SUFFICES ASSUME Init PROVE Typed /\ WInv
  OBVIOUS
<1>1. left \in Loads /\ task = [c \in Tasks |-> NewTask] /\ lock = None /\ poll = [p \in Pollers |-> NewPoll]
  BY DEF Init, AInit, UInit
<1> DEFINE saved == CHOOSE s \in Slots : TRUE
<1>2. PICK a \in Accounts \cup {None}, b \in IF left.saved > 0 THEN Accounts ELSE {None} :
         /\ dir = [d \in Dirs |-> First(IF d = "live" THEN a ELSE IF d = saved THEN b ELSE None)]
         /\ registry = [s \in Slots |-> IF s = saved THEN b ELSE None]
         /\ valid = {First(a).creds, First(b).creds} \ {None}
  BY DEF Init, AInit
<1> HIDE DEF saved
<1>3. ASSUME NEW x \in Accounts \cup {None}
      PROVE  /\ DOMAIN First(x) = DOMAIN NoDir /\ First(x).creds \in Tokens \cup {None}
             /\ x # None => First(x).creds # None /\ First(x).who = x
  <2>1. CASE x = None
    BY <2>1 DEF First, NoDir
  <2>2. CASE x # None
    <3> DEFINE token == [account |-> x, login |-> 0, gen |-> 0]
    <3>1. token \in Tokens /\ token # None
      BY <2>2, AccountsAssumption DEF Tokens
    <3>2. First(x) = [NoDir EXCEPT !.creds = token, !.who = x]
      BY <2>2 DEF First
    <3> HIDE DEF token
    <3> QED
      BY <3>1, <3>2 DEF NoDir
  <2> QED
    BY <2>1, <2>2
<1>4. Typed
  <2>1. DOMAIN dir = Dirs /\ \A d \in Dirs : DOMAIN dir[d] = DOMAIN NoDir
    BY <1>2, <1>3
  <2>2. valid \subseteq Tokens
    BY <1>2, <1>3
  <2> QED
    BY <1>1, <2>1, <2>2, AccountsAssumption DEF Typed, NewPoll
<1>5. \A c \in Tasks : Kinds(task[c]) /\ ~Owns(task[c])
  BY <1>1, AccountsAssumption DEF Kinds, Owns, NewTask, Logging, Budgets
<1>6. RegisteredSlotIsWhole
  BY <1>2, <1>3, AccountsAssumption DEF RegisteredSlotIsWhole, Parses, Dirs
<1>7. WInv
  BY <1>1, <1>5, <1>6, AccountsAssumption DEF WInv, Apart
<1> QED
  BY <1>4, <1>7

\* Every step keeps the slots whole: commands by the case above, the poller since its CLI
\* stores only tokens it was given, a crash since it ends commands and stores nothing.
LEMMA NextWhole == IInv /\ Typed /\ WInv /\ [Next]_vars => Typed' /\ WInv'
<1> SUFFICES ASSUME IInv, Typed, WInv, [Next]_vars PROVE Typed' /\ WInv'
  OBVIOUS
<1>1. CASE ANext /\ UNCHANGED uvars
  BY <1>1, CommandsTyped, CommandsWhole
<1>2. CASE Crash
  <2>1. left' \in [Budgets -> Nat] /\ UNCHANGED <<dir, valid>>
    BY <1>2, Spending DEF Crash, ACrash, Typed, Budgets
  <2>2. poll' = [p \in Pollers |-> NewPoll]
    BY <1>2 DEF Crash
  <2> QED
    BY <1>2, <2>1, <2>2, OutsideWhole DEF Crash, Typed, NewPoll
<1>3. CASE \/ Tick \/ IntervalPasses \/ CooldownPasses
           \/ \E c \in Tasks : ForceRefresh(c) \/ Invalidate(c) \/ GiveUp(c)
           \/ \E p \in Pollers : Cycles(p)
  BY <1>3, PollerTyped, PollerWhole
<1>4. CASE UNCHANGED vars
  <2>1. UNCHANGED <<dir, registry, lock, task, left, valid, poll>>
    BY <1>4 DEF vars, avars, uvars
  <2>2. Typed'
    BY <2>1 DEF Typed
  <2>3. WInv'
    BY <2>1, Keeping, Around DEF IInv
  <2> QED
    BY <2>2, <2>3
<1> QED
  BY <1>1, <1>2, <1>3, <1>4 DEF Next

\* What the registry names can be switched to, whatever failed or ended half way and however
\* the calls, the poller and the CLI took turns: a registered slot holds a token and its
\* account's identity, unless a removal of the record itself has stopped half way.
THEOREM RegisteredIsWhole == Spec => []RegisteredSlotIsWhole
<1>1. Init => IInv /\ Typed /\ WInv
  BY InitInv, InitWhole
<1>2. (IInv /\ Typed /\ WInv) /\ [Next]_vars => (IInv /\ Typed /\ WInv)'
  BY NextInv, NextWhole
<1>3. WInv => RegisteredSlotIsWhole
  BY DEF WInv
<1> QED
  BY <1>1, <1>2, <1>3, PTL DEF Spec
-----------------------------------------------------------------------------
(* A switch loses nobody's login: until it writes the live directory everything *)
(* is found where it was, and from then on everything is stored, the outgoing   *)
(* login by the save and in the hands of the call.  When the registry could not  *)
(* be read, that is true of the two accounts of the switch.                      *)

\* Where a switch stands: while it saves the outgoing login; once that has its record's
\* slot; while it undoes; once it has written the live directory.
Saving == {"saveCreds", "saveWho", "keepCreds", "keepWho", "record"}
Storing == {"keepCreds", "keepWho", "record"}
Undoing == {"restoreCreds", "restoreBoth", "restoreWho"}
Swapped == {"swapWho", "verify"} \cup Undoing
Switching == {"activate", "readCreds", "readWho", "swap", "torn"} \cup Saving \cup Swapped

\* A token an account can be used with, and an account with one in its slot.
Usable(x, a) == x # None /\ x.account = a /\ x \in valid
Stored(a) == \E s \in Record(a) : Usable(dir[s].creds, a)

\* The registry is written back, or the live directory is written.
Late(t) == t.pc \in Swapped \/ (t.lost /\ t.pc = "swap")
\* What a switch has read is what is there.
Current(t) ==
  /\ t.pc # "activate" => online /\ t.wanted # None /\ t.slotWho = t.wanted
  /\ t.pc \in {"readCreds", "readWho"} \cup Saving => registry[t.id] = t.wanted /\ t.slotCreds = dir[t.id].creds
  /\ t.pc \in {"readWho", "swap"} \cup Saving => t.liveCreds = dir["live"].creds
  /\ t.pc \in {"swap"} \cup Saving => t.liveWho = dir["live"].who
  /\ t.pc \in {"swap"} \cup Saving \cup Swapped => t.liveWho # t.wanted
  /\ t.pc \in Saving => t.liveWho # None /\ t.liveCreds # None
  /\ t.pc \in Saving \ {"saveCreds"} => t.keepCreds = t.liveCreds
  /\ t.pc \in Storing => t.keepWho = t.liveWho
  /\ t.pc \in Storing \ {"keepCreds"} => dir[t.target].creds = t.keepCreds
  /\ t.pc = "swap" /\ t.liveWho # None /\ t.liveCreds # None =>
       \E s \in Record(t.liveWho) : dir[s].creds = t.liveCreds
  /\ t.lost => t.pc \in Storing \cup {"swap"} \cup Swapped
\* Nothing is lost, and what was read of the slot is what its account has.
Secured(t) ==
  /\ ~Late(t) => \A a \in t.found : Found(a)
  /\ Late(t) => \A a \in t.found : /\ (~t.lost \/ a = t.liveWho) => Stored(a)
                                   /\ (a = t.liveWho) => Usable(t.liveCreds, a)
  /\ t.pc \in {"swap"} \cup Saving \cup Swapped /\ t.wanted \in t.found => Usable(t.slotCreds, t.wanted)
\* What the live directory holds from the first write of the swap on; an undo has a failure
\* behind it, and so has a registry that was not read.
Between(t) ==
  LET live == dir["live"] IN
  /\ t.pc \in {"swapWho", "restoreCreds", "verify", "restoreBoth"} => live.creds = t.slotCreds
  /\ t.pc \in {"swapWho", "restoreCreds"} => live.who = t.liveWho
  /\ t.pc \in {"verify", "restoreBoth", "restoreWho"} => live.who = t.slotWho
  /\ t.pc = "restoreWho" /\ t.had <= left.failures + 1 => live.creds = t.liveCreds
  /\ t.pc \in Undoing \/ t.lost => left.failures < t.had
  /\ t.pc \in Undoing /\ t.lost => left.failures + 1 < t.had
Safe(t) ==
  /\ t.had \in Nat /\ left.failures <= t.had /\ t.found \subseteq Accounts
  /\ Current(t) /\ Secured(t) /\ Between(t)

\* A record whose slot says an identity says that of the record.
WhoFits == \A s \in Slots : registry[s] # None /\ dir[s].who # None => dir[s].who = registry[s]
Switches(c) == lock = c /\ task[c].kind = "activate"
SwitchInv ==
  /\ \A c \in Tasks : task[c].kind = "activate" => task[c].id \in Slots
  /\ \A c \in Tasks : lock = c => task[c].pc # "new"
  /\ \A c \in Tasks : Switches(c) => task[c].pc \in Switching /\ (task[c].pc = "torn" => task[c].torn)
  /\ \A c \in Tasks : Switches(c) /\ task[c].calm /\ ~task[c].torn => Safe(task[c])
LInv == IInv /\ Typed /\ WInv /\ WhoFits /\ SwitchInv

\* What is found or stored stays so while the registered slots, the live login and the
\* usable tokens do.
LEMMA StaysFound ==
  ASSUME NEW a \in Accounts, UNCHANGED registry, valid \subseteq valid',
         \A s \in Slots : registry[s] # None => dir'[s] = dir[s]
  PROVE  /\ Record(a)' = Record(a) /\ (Stored(a) => Stored(a)')
         /\ dir'["live"] = dir["live"] /\ Found(a) => Found(a)'
<1>1. a # None
  BY AccountsAssumption
<1>2. Record(a)' = Record(a) /\ \A s \in Record(a) : dir'[s] = dir[s]
  BY <1>1 DEF Record
<1>3. Stored(a) => Stored(a)'
  BY <1>2 DEF Stored, Usable
<1>4. ASSUME dir'["live"] = dir["live"], Found(a)
      PROVE  Found(a)'
  BY <1>2, <1>4 DEF Found, Home
<1> QED
  BY <1>2, <1>3, <1>4

\* A save writes only what is the live account's, which is looked for in the live directory.
LEMMA BesideFound ==
  ASSUME NEW a \in Accounts, Found(a), UNCHANGED valid, dir'["live"] = dir["live"],
         \A s \in Slots : a \in {registry[s], registry'[s]} =>
            a = dir["live"].who \/ (registry'[s] = registry[s] /\ dir'[s] = dir[s])
  PROVE  Found(a)'
<1>1. CASE a = dir["live"].who
  BY <1>1 DEF Found, Home
<1>2. CASE a # dir["live"].who
  <2>1. Record(a)' = Record(a) /\ \A s \in Record(a) : dir'[s] = dir[s]
    BY <1>2 DEF Record
  <2> QED
    BY <1>2, <2>1 DEF Found, Home
<1> QED
  BY <1>1, <1>2

\* A switch stays safe through whatever leaves alone the registry, the live login, the
\* registered slots and the one the switch has chosen.
LEMMA Undisturbed ==
  ASSUME LInv, Typed', NEW c \in Tasks, Switches(c), task[c].calm, ~task[c].torn, task'[c] = task[c],
         UNCHANGED <<registry, online>>, dir'["live"] = dir["live"], valid \subseteq valid',
         \A s \in Slots : registry[s] # None => dir'[s] = dir[s],
         task[c].pc \in Chosen => dir'[task[c].target] = dir[task[c].target],
         left'.failures <= left.failures
  PROVE  Safe(task[c])'
<1> DEFINE t == task[c]
<1>1. Safe(t) /\ t.id \in Slots /\ t.pc \in Switching
  BY DEF LInv, SwitchInv, Switches
<1>2. left.failures \in Nat /\ left'.failures \in Nat
  BY DEF LInv, Typed, Budgets
<1>3. \A a \in t.found : /\ Stored(a) => Stored(a)'
                         /\ Found(a) => Found(a)'
  BY <1>1, AccountsAssumption, StaysFound DEF Safe
<1>4. Record(t.liveWho)' = Record(t.liveWho) /\ (t.liveWho # None => \A s \in Record(t.liveWho) : dir'[s] = dir[s])
  BY DEF Record
<1>5. t.pc \in {"readCreds", "readWho"} \cup Saving => dir'[t.id] = dir[t.id]
  BY <1>1 DEF Safe, Current, Saving
<1>6. t.pc \in Storing => dir'[t.target] = dir[t.target]
  BY DEF Storing, Chosen
<1> HIDE DEF t
<1>7. Current(t)'
  BY <1>1, <1>4, <1>5, <1>6 DEF Safe, Current, t
<1>8. Secured(t)'
  BY <1>1, <1>3 DEF Safe, Secured, Late, Usable, t
<1>9. Between(t)'
  BY <1>1, <1>2 DEF Safe, Between, t
<1> QED
  BY <1>1, <1>2, <1>7, <1>8, <1>9 DEF Safe, t

\* A step that leaves the registry and the identities in the slots.
LEMMA WhoStays ==
  ASSUME Typed, WhoFits, UNCHANGED registry,
         UNCHANGED dir \/ (\E d, x : SwapCredentials(d, x)) \/ (\E x : Write("live", x))
  PROVE  WhoFits'
<1>1. \A s \in Slots : dir'[s].who = dir[s].who
  <2>1. CASE UNCHANGED dir
    BY <2>1
  <2>2. CASE \E d, x : SwapCredentials(d, x)
    BY <2>2 DEF SwapCredentials, Write, Typed, Dirs, NoDir
  <2>3. CASE \E x : Write("live", x)
    BY <2>3, AccountsAssumption DEF Write
  <2> QED
    BY <2>1, <2>2, <2>3
<1> QED
  BY <1>1 DEF WhoFits

\* What a slot says and what its record says agree: who writes one of them as the holder of
\* the lock has the other there already, and a new login has no record.
LEMMA NextWhoFits ==
  ASSUME IInv, Typed, WInv, WhoFits, [Next]_vars
  PROVE  WhoFits'
<1>1. CASE \/ UNCHANGED vars \/ Outside \/ Crash \/ Tick \/ IntervalPasses \/ CooldownPasses
           \/ (\E c \in Tasks : ForceRefresh(c) \/ Invalidate(c) \/ GiveUp(c) \/ Begins(c))
           \/ \E p \in Pollers : Cycles(p)
  <2>1. UNCHANGED registry
    BY <1>1 DEF vars, avars, Outside, SessionStarts, SessionRefreshes, SessionEnds, OutsideIdentity, DistroTurns,
       OutsideToken, Crash, ACrash, Tick, IntervalPasses, CooldownPasses, ForceRefresh, Invalidate, GiveUp, Begins, Begin,
       SaveLive, Activate, RemoveAccount, LoginNew, Cycles, StartCycle, OfflineSection, ReadLive, ReadRecords, NextCard,
       SectionBuilt, Stamp, EndCycle, ReadToken, RefreshAsk, RefreshKeep, Reread, FetchUsage
  <2>2. UNCHANGED dir \/ (\E d, x : SwapCredentials(d, x)) \/ (\E x : Write("live", x))
    BY <1>1 DEF vars, avars, Outside, SessionStarts, SessionRefreshes, SessionEnds, OutsideIdentity, DistroTurns,
       OutsideToken, Crash, ACrash, Tick, IntervalPasses, CooldownPasses, ForceRefresh, Invalidate, GiveUp, Begins, Begin,
       SaveLive, Activate, RemoveAccount, LoginNew, Cycles, StartCycle, OfflineSection, ReadLive, ReadRecords, NextCard,
       SectionBuilt, Stamp, EndCycle, ReadToken, RefreshAsk, RefreshKeep, Reread, FetchUsage, SwapCredentials, SwapAccount
  <2> QED
    BY <2>1, <2>2, WhoStays
<1>2. CASE \E c \in Tasks : Works(c)
  <2> PICK c \in Tasks : Works(c)
    BY <1>2
  <2>1. CASE KeepWho(c) \/ AdoptWho(c)
    <3>1. /\ UNCHANGED registry /\ task[c].keepWho # None /\ registry[task[c].target] \in {None, task[c].keepWho}
          /\ task[c].target \in Slots
          /\ StoresWho(c)
      BY <2>1 DEF KeepWho, AdoptWho, WInv, Ready, Held, At, Chosen
    <3>2. \A s \in Slots : dir'[s].who = IF s = task[c].target THEN task[c].keepWho ELSE dir[s].who
      BY <3>1 DEF StoresWho, Write, Typed, Dirs, NoDir
    <3> QED
      BY <3>1, <3>2 DEF WhoFits
  <2>2. CASE SaveRecord(c) \/ AdoptRecord(c)
    <3>1. /\ UNCHANGED dir /\ dir[task[c].target].who = task[c].keepWho
          /\ WritesRecord(c)
      BY <2>2 DEF SaveRecord, AdoptRecord, WInv, Ready, Held, At
    <3> QED
      BY <3>1 DEF WritesRecord, WhoFits
  <2>3. CASE Unregister(c)
    BY <2>3 DEF Unregister, WhoFits
  <2>4. CASE DeleteSlot(c) \/ Cleanup(c)
    <3>1. /\ UNCHANGED registry
          /\ (UNCHANGED dir \/ Write(task[c].id, NoDir) \/ Write(task[c].id, [NoDir EXCEPT !.removed = TRUE]))
      BY <2>4 DEF DeleteSlot, Cleanup
    <3>2. \A s \in Slots : dir'[s].who \in {None, dir[s].who}
      BY <3>1 DEF Write, NoDir, Typed, Dirs
    <3> QED
      BY <3>1, <3>2 DEF WhoFits
  <2>5. CASE ConsoleWho(c)
    <3>1. UNCHANGED registry /\ Owns(task[c]) /\ (UNCHANGED dir \/ SwapAccount(task[c].id, task[c].slotWho))
      BY <2>5 DEF ConsoleWho, WInv, Kinds, Owns, At, Logging
    <3>2. registry[task[c].id] = None
      BY <3>1 DEF WInv, Apart
    <3>3. \A s \in Slots : s # task[c].id => dir'[s] = dir[s]
      BY <3>1 DEF SwapAccount, Write, Typed, Dirs
    <3> QED
      BY <3>1, <3>2, <3>3 DEF WhoFits
  <2>7. CASE ReplyLost(c)
    <3>1. UNCHANGED registry
      BY <2>7 DEF ReplyLost
    <3>2. CASE StoresWho(c) /\ (Held(c, "keepWho") \/ Held(c, "adoptWho"))
      <4>1. /\ task[c].keepWho # None /\ registry[task[c].target] \in {None, task[c].keepWho}
            /\ task[c].target \in Slots
        BY <3>2 DEF WInv, Ready, Held, At, Chosen
      <4>2. \A s \in Slots : dir'[s].who = IF s = task[c].target THEN task[c].keepWho ELSE dir[s].who
        BY <3>2, <4>1 DEF StoresWho, Write, Typed, Dirs, NoDir
      <4> QED
        BY <3>1, <4>1, <4>2 DEF WhoFits
    <3>3. CASE Write(task[c].id, [NoDir EXCEPT !.removed = TRUE])
      <4>1. \A s \in Slots : dir'[s].who \in {None, dir[s].who}
        BY <3>3 DEF Write, NoDir, Typed, Dirs
      <4> QED
        BY <3>1, <4>1 DEF WhoFits
    <3>4. CASE StoresCreds(c) \/ SwapCredentials("live", task[c].slotCreds) \/ SwapAccount("live", task[c].slotWho)
      BY <3>1, <3>4, WhoStays DEF StoresCreds, SwapAccount
    <3> QED
      BY <2>7, <3>2, <3>3, <3>4 DEF ReplyLost
  <2>6. CASE /\ ~KeepWho(c) /\ ~AdoptWho(c) /\ ~SaveRecord(c) /\ ~AdoptRecord(c) /\ ~Unregister(c) /\ ~DeleteSlot(c)
             /\ ~Cleanup(c) /\ ~ConsoleWho(c) /\ ~ReplyLost(c)
    <3>1. UNCHANGED registry
      BY <2>6 DEF Works, Reaches, TakeLock, Fails, SwapWho, Verify, RestoreCreds, RestoreWho, MakeSlot, ConsoleLogin,
         SaveReadCreds, SaveReadWho, KeepCreds, ReadSlot, ReadLiveCreds, ReadLiveWho, SwapCreds, Adopt, AdoptCreds
    <3>2. UNCHANGED dir \/ (\E d, x : SwapCredentials(d, x)) \/ (\E x : Write("live", x))
      BY <2>6 DEF Works, Reaches, TakeLock, Fails, SwapWho, Verify, RestoreCreds, RestoreWho, MakeSlot, ConsoleLogin,
         SaveReadCreds, SaveReadWho, KeepCreds, ReadSlot, ReadLiveCreds, ReadLiveWho, SwapCreds, Adopt, AdoptCreds,
         StoresCreds, SwapAccount, Restoring
    <3> QED
      BY <3>1, <3>2, WhoStays
  <2> QED
    BY <2>1, <2>2, <2>3, <2>4, <2>5, <2>6, <2>7
<1> QED
  BY <1>1, <1>2 DEF Next, ANext

\* What the calls do to each other, the poller and the CLI to them: a step leaves the lock and
\* what a switch reads alone, or disturbs it.
Aside(c) ==
  /\ task'[c] = task[c] /\ lock' = lock
  /\ UNCHANGED <<registry, online>> /\ dir'["live"] = dir["live"] /\ valid \subseteq valid'
  /\ \A s \in Slots : registry[s] # None => dir'[s] = dir[s]
  /\ task[c].pc \in Chosen => dir'[task[c].target] = dir[task[c].target]
  /\ left'.failures <= left.failures

\* Spending lowers what is left.
LEMMA FailuresFall ==
  ASSUME Typed, UNCHANGED left \/ \E what \in Budgets : Spend(what)
  PROVE  left.failures \in Nat /\ left'.failures \in Nat /\ left'.failures <= left.failures
<1>1. left.failures \in Nat /\ DOMAIN left = Budgets /\ "failures" \in Budgets
  BY DEF Typed, Budgets
<1>2. ASSUME NEW what \in Budgets, Spend(what)
      PROVE  left'.failures \in Nat /\ left'.failures <= left.failures
  BY <1>1, <1>2 DEF Spend
<1> QED
  BY <1>1, <1>2

\* Another call beside a switch: it has to wait for the lock, and until then a new login
\* writes its own directory, which no record names and no holder of the lock has chosen.
LEMMA OthersAside ==
  ASSUME LInv, NEW c \in Tasks, Switches(c), NEW d \in Tasks, d # c, Begins(d) \/ Works(d)
  PROVE  Aside(c)
<1>1. lock = c /\ lock # None /\ lock # d /\ task[c].pc \in Switching
  BY AccountsAssumption DEF Switches, LInv, SwitchInv
<1>2. CASE Begins(d)
  <2>1. PICK kind \in Commands : \E s : Begin(d, kind, s)
    BY <1>2 DEF Begins, SaveLive, Activate, RemoveAccount, LoginNew, Commands
  <2>2. left'.failures <= left.failures
    BY <2>1, FailuresFall DEF Begin, Commands, Budgets, LInv
  <2> QED
    BY <2>1, <2>2 DEF Begin, Aside
<1>3. CASE Works(d)
  <2>1. MakeSlot(d) \/ ConsoleLogin(d) \/ ConsoleWho(d) \/ Cleanup(d)
    BY <1>1, <1>3 DEF Works, Reaches, TakeLock, SaveRecord, Unregister, AdoptRecord, Fails, SwapWho, Verify, RestoreCreds,
       RestoreWho, SaveReadCreds, SaveReadWho, KeepCreds, KeepWho, ReadSlot, ReadLiveCreds, ReadLiveWho, SwapCreds,
       DeleteSlot, Adopt, AdoptCreds, AdoptWho, ReplyLost, Held
  <2>2. UNCHANGED <<registry, online, lock>> /\ task'[c] = task[c]
    BY <2>1 DEF MakeSlot, ConsoleLogin, ConsoleWho, Cleanup, Quiet, Goto, LInv, IInv
  <2>3. left'.failures <= left.failures
    <3>1. UNCHANGED left \/ \E what \in Budgets : Spend(what)
      BY <2>1 DEF MakeSlot, ConsoleLogin, ConsoleWho, Cleanup, Failing, Budgets
    <3> QED
      BY <3>1, FailuresFall DEF LInv
  <2>4. valid \subseteq valid'
    BY <2>1 DEF MakeSlot, ConsoleLogin, ConsoleWho, Cleanup, Quiet
  <2>5. UNCHANGED dir \/ (Owns(task[d]) /\ \E x : Write(task[d].id, x))
    BY <2>1 DEF MakeSlot, ConsoleLogin, ConsoleWho, Cleanup, At, LInv, WInv, Kinds, Owns, Logging,
       SwapCredentials, SwapAccount
  <2>6. CASE Owns(task[d]) /\ \E x : Write(task[d].id, x)
    <3>1. task[d].id \in Slots /\ registry[task[d].id] = None
      BY <2>6 DEF LInv, WInv, Apart
    <3>2. task[c].pc \in Chosen => task[d].id # task[c].target
      BY <1>1, <2>6 DEF LInv, WInv, Clear
    <3>3. task[c].pc \in Chosen => task[c].target \in Slots
      BY <1>1 DEF LInv, WInv, Ready
    <3>4. \A x \in Dirs : x # task[d].id => dir'[x] = dir[x]
      BY <2>6 DEF Write, LInv, Typed
    <3> QED
      BY <2>2, <2>3, <2>4, <3>1, <3>2, <3>3, <3>4, AccountsAssumption DEF Aside, Dirs
  <2> QED
    BY <2>2, <2>3, <2>4, <2>5, <2>6 DEF Aside
<1> QED
  BY <1>2, <1>3

\* The CLI, the poller and the clocks beside a switch.
LEMMA WorldAside ==
  ASSUME LInv, NEW c \in Tasks, Switches(c),
         \/ Outside \/ Tick \/ IntervalPasses \/ CooldownPasses
         \/ \E d \in Tasks : ForceRefresh(d) \/ Invalidate(d) \/ GiveUp(d)
         \/ \E p \in Pollers : Cycles(p)
  PROVE  Aside(c) \/ (task' = Disturbed /\ UNCHANGED lock)
<1>1. task[c].pc \in Switching
  BY DEF LInv, SwitchInv
<1>2. UNCHANGED left \/ \E what \in Budgets : Spend(what)
  BY DEF Outside, SessionStarts, SessionRefreshes, SessionEnds, OutsideIdentity, DistroTurns,
     OutsideToken, Tick, IntervalPasses, CooldownPasses, ForceRefresh, Invalidate, GiveUp,
     Cycles, StartCycle, OfflineSection, ReadLive, ReadRecords, NextCard,
     SectionBuilt, Stamp, EndCycle, ReadToken, RefreshAsk, RefreshKeep, Reread, FetchUsage, avars, Failing, Budgets
<1>3. left'.failures <= left.failures
  BY <1>2, FailuresFall DEF LInv
<1>4. CASE \E d \in Tasks : ForceRefresh(d) \/ Invalidate(d)
  <2> PICK d \in Tasks : ForceRefresh(d) \/ Invalidate(d)
    BY <1>4
  <2>1. task[d].pc \in {"new", "invalidate"}
    <3>1. task[d] = NewTask \/ task[d].pc = "invalidate"
      BY DEF ForceRefresh, Invalidate, Fresh, At
    <3>2. NewTask.pc = "new"
      BY DEF NewTask
    <3> QED
      BY <3>1, <3>2
  <2>2. d # c
    BY <1>1, <2>1 DEF Switching, Saving, Swapped, Undoing
  <2>3. UNCHANGED <<dir, registry, lock, valid, online>> /\ task'[c] = task[c]
    BY <2>2 DEF ForceRefresh, Invalidate, Goto, LInv, IInv
  <2> QED
    BY <1>3, <2>3 DEF Aside
<1>5. CASE Outside
  <2>1. UNCHANGED lock /\ (task' = Disturbed \/ UNCHANGED <<dir, registry, task, valid, online>>)
    BY <1>5 DEF Outside, SessionStarts, SessionRefreshes, SessionEnds, OutsideIdentity, DistroTurns, OutsideToken
  <2> QED
    BY <1>3, <2>1 DEF Aside
<1>6. CASE \E p \in Pollers : Cycles(p)
  <2>1. UNCHANGED lock /\ (task' = Disturbed \/ UNCHANGED <<dir, registry, task, valid, online>>)
    BY <1>6 DEF Cycles, StartCycle, OfflineSection, ReadLive, ReadRecords, NextCard,
       SectionBuilt, Stamp, EndCycle, ReadToken, RefreshAsk, RefreshKeep, Reread, FetchUsage, avars
  <2> QED
    BY <1>3, <2>1 DEF Aside
<1>7. CASE Tick \/ IntervalPasses \/ CooldownPasses \/ \E d \in Tasks : GiveUp(d)
  <2>1. UNCHANGED <<dir, registry, lock, task, valid, online>>
    BY <1>7 DEF Tick, IntervalPasses, CooldownPasses, GiveUp, avars
  <2> QED
    BY <1>3, <2>1 DEF Aside
<1> QED
  BY <1>4, <1>5, <1>6, <1>7

\* The steps of a switch itself: it reads, saves the outgoing login, swaps, or fails.
Reading(c) == ReadSlot(c) \/ ReadLiveCreds(c) \/ ReadLiveWho(c)
Saves(c) == SaveReadCreds(c) \/ SaveReadWho(c) \/ KeepCreds(c) \/ KeepWho(c) \/ SaveRecord(c)
Swapping(c) == SwapCreds(c) \/ SwapWho(c) \/ Verify(c) \/ RestoreCreds(c) \/ RestoreWho(c)
LEMMA OwnSteps ==
  ASSUME LInv, NEW c \in Tasks, Switches(c), Begins(c) \/ Works(c)
  PROVE  (online /\ Reading(c)) \/ Saves(c) \/ Swapping(c) \/ Fails(c) \/ ReplyLost(c)
<1>1. /\ task[c].pc \in Switching /\ lock = c /\ lock # None /\ Sound(task[c])
      /\ task[c].pc \notin {"new", "lock", "unregister", "remove", "adopt", "slot", "console", "consoleWho", "cleanup",
                            "adoptCreds", "adoptWho", "adoptRecord"}
  BY AccountsAssumption DEF LInv, SwitchInv, Switches, Switching, Saving, Swapped, Undoing, IInv
<1>2. NewTask.pc = "new"
  BY DEF NewTask
<1>3. Works(c)
  BY <1>1, <1>2 DEF Begins, SaveLive, Activate, RemoveAccount, LoginNew, Begin, Fresh
<1>4. /\ ~TakeLock(c) /\ ~Unregister(c) /\ ~AdoptRecord(c) /\ ~MakeSlot(c) /\ ~ConsoleLogin(c) /\ ~ConsoleWho(c)
      /\ ~Cleanup(c) /\ ~DeleteSlot(c) /\ ~Adopt(c) /\ ~AdoptCreds(c) /\ ~AdoptWho(c)
  BY <1>1 DEF TakeLock, Unregister, AdoptRecord, MakeSlot, ConsoleLogin, ConsoleWho, Cleanup, DeleteSlot, Adopt, AdoptCreds,
     AdoptWho, Held, At
<1> QED
  BY <1>3, <1>4 DEF Works, Reaches, Reading, Saves, Swapping

\* The call lets go of the lock, and what was found still is as long as one read or write of
\* it failed at most; the two accounts of the switch, when that was the read of the registry.
Leaves(c) ==
  task[c].had <= left'.failures + 1 =>
    \A a \in task[c].found : Found(a)' \/ (task[c].lost /\ a \notin {task[c].liveWho, task[c].slotWho})

\* Until the live directory is written, or a registry that was not read, a call that lets go
\* leaves everything where it was.
LEMMA LeavesEarly ==
  ASSUME LInv, NEW c \in Tasks, Switches(c), task[c].calm, ~task[c].torn, ~Late(task[c]),
         UNCHANGED <<dir, registry, valid>>
  PROVE  Leaves(c)
<1>1. Safe(task[c])
  BY DEF LInv, SwitchInv
<1>2. \A a \in task[c].found : Found(a) /\ a \in Accounts
  BY <1>1 DEF Safe, Secured
<1> QED
  BY <1>2, StaysFound DEF Leaves

\* A failed read or write: after the registry it is the second.
LEMMA FailsSafe ==
  ASSUME LInv, NEW c \in Tasks, Switches(c), task[c].calm, ~task[c].torn, Fails(c)
  PROVE  Leaves(c)
<1>1. task[c].pc \notin Swapped /\ task[c].pc # "torn"
  BY DEF Fails, Held, At, Working, Swapped, Undoing, LInv, SwitchInv
<1>2. UNCHANGED <<dir, registry, valid>>
  BY DEF Fails, Quiet
<1>3. CASE ~Late(task[c])
  BY <1>2, <1>3, LeavesEarly
<1>4. CASE Late(task[c])
  <2>1. task[c].pc = "swap" /\ task[c].lost
    BY <1>1, <1>4 DEF Late
  <2>2. online /\ left.failures < task[c].had /\ task[c].had \in Nat /\ left.failures \in Nat
    BY <2>1 DEF LInv, SwitchInv, Safe, Current, Between, Typed, Budgets
  <2>3. Spend("failures")
    BY <2>1, <2>2 DEF Fails, Held, At, Registering, Failing
  <2>4. left'.failures = left.failures - 1
    BY <2>3 DEF Spend, LInv, Typed, Budgets
  <2> QED
    BY <2>2, <2>4 DEF Leaves
<1> QED
  BY <1>3, <1>4

\* A write that was done and counts as failed: of the save, or the switch is torn.
LEMMA ReplyLostSafe ==
  ASSUME LInv, NEW c \in Tasks, Switches(c), ReplyLost(c)
  PROVE  /\ lock' = c => task'[c].pc \in Switching /\ task'[c].torn
         /\ lock' # c /\ task[c].calm /\ ~task[c].torn => Leaves(c)
<1>1. DOMAIN task = Tasks /\ DOMAIN task[c] = DOMAIN NewTask /\ task[c].pc \in Switching /\ lock = c
  BY DEF LInv, IInv, Sound, Switches, SwitchInv
<1>2. ASSUME lock' = c
      PROVE  task'[c].pc \in Switching /\ task'[c].torn
  <2>1. PICK pc \in {"torn", "restoreCreds"} : task' = [task EXCEPT ![c].torn = TRUE, ![c].pc = pc]
    BY <1>2, Frees DEF ReplyLost
  <2>2. task'[c] = [task[c] EXCEPT !.torn = TRUE, !.pc = pc]
    BY <1>1, <2>1
  <2> QED
    BY <1>1, <2>2 DEF NewTask, Switching, Swapped, Undoing
<1>3. ASSUME lock' # c, task[c].calm, ~task[c].torn
      PROVE  Leaves(c)
  <2>1. task[c].pc \in {"keepCreds", "keepWho"} /\ (StoresCreds(c) \/ StoresWho(c)) /\ UNCHANGED <<registry, valid>>
    BY <1>1, <1>3 DEF ReplyLost, Held, At, Switching, Saving, Swapped, Undoing, Quiet
  <2>2. /\ task[c].target \in Slots /\ registry[task[c].target] \in {None, task[c].keepWho}
        /\ task[c].keepWho = dir["live"].who
    BY <1>1, <1>3, <2>1 DEF LInv, WInv, Ready, Chosen, SwitchInv, Safe, Current, Saving, Storing
  <2>3. \A d \in Dirs : d # task[c].target => dir'[d] = dir[d]
    BY <2>1 DEF StoresCreds, StoresWho, SwapCredentials, Write, LInv, Typed
  <2>4. dir'["live"] = dir["live"] /\ \A s \in Slots : s # task[c].target => dir'[s] = dir[s]
    BY <2>2, <2>3, AccountsAssumption DEF Dirs
  <2>5. ~Late(task[c])
    BY <2>1 DEF Late, Swapped, Undoing
  <2>6. ASSUME NEW a \in task[c].found
        PROVE  Found(a)'
    <3>1. Found(a) /\ a \in Accounts /\ a # None
      BY <1>3, <2>5, AccountsAssumption DEF LInv, SwitchInv, Safe, Secured
    <3> QED
      BY <2>1, <2>2, <2>4, <3>1, BesideFound
  <2> QED
    BY <2>6 DEF Leaves
<1> QED
  BY <1>2, <1>3

\* What a switch reads is there.
LEMMA ReadingSafe ==
  ASSUME LInv, Typed', NEW c \in Tasks, Switches(c), task[c].calm, ~task[c].torn, Reading(c), online
  PROVE  IF lock' = c THEN Safe(task[c])' ELSE Leaves(c)
<1>1. Safe(task[c]) /\ Sound(task[c]) /\ task[c].id \in Slots
  BY DEF LInv, SwitchInv, IInv, Switches
<1>2. UNCHANGED <<dir, registry, valid, online, left>> /\ task[c].pc \in {"activate", "readCreds", "readWho"}
  BY DEF Reading, ReadSlot, ReadLiveCreds, ReadLiveWho, Quiet, Held, At
<1>3. ~Late(task[c]) /\ ~task[c].lost
  BY <1>1, <1>2 DEF Late, Swapped, Undoing, Safe, Current, Storing
<1>4. CASE lock' # c
  BY <1>2, <1>3, <1>4, LeavesEarly
<1>5. CASE lock' = c
  <2>1. \A a \in task[c].found : Found(a) /\ Found(a)' /\ a \in Accounts
    BY <1>1, <1>2, <1>3, StaysFound DEF Safe, Secured
  <2> SUFFICES ASSUME NEW t, t = task'[c]
               PROVE  Safe(t)'
    BY <1>5
  <2>2. /\ t.had = task[c].had /\ t.found = task[c].found /\ t.id = task[c].id /\ ~t.lost
        /\ \/ /\ t.pc = "readCreds" /\ t.slotCreds = dir[t.id].creds /\ t.slotWho = dir[t.id].who
              /\ t.wanted = registry[t.id] /\ t.wanted # None /\ dir[t.id].who # None
           \/ /\ t.wanted = task[c].wanted /\ t.slotCreds = task[c].slotCreds /\ t.slotWho = task[c].slotWho
              /\ t.liveCreds = dir["live"].creds /\ task[c].pc = "readCreds" /\ t.pc = "readWho"
           \/ /\ t.wanted = task[c].wanted /\ t.slotCreds = task[c].slotCreds /\ t.slotWho = task[c].slotWho
              /\ t.liveCreds = dir["live"].creds /\ task[c].pc = "readWho"
              /\ t.liveWho = dir["live"].who /\ t.liveWho # t.wanted
              /\ t.pc = IF t.liveWho # None /\ t.liveCreds # None THEN "saveCreds" ELSE "swap"
    <3>0. DOMAIN task = Tasks /\ DOMAIN task[c] = DOMAIN NewTask
      BY <1>1 DEF Sound, LInv, IInv
    <3>1. CASE ReadSlot(c)
      <4>1. task'[c] = [task[c] EXCEPT !.wanted = registry[task[c].id], !.slotCreds = dir[task[c].id].creds,
                                       !.slotWho = dir[task[c].id].who, !.pc = "readCreds"]
            /\ registry[task[c].id] # None /\ Parses(task[c].id)
        BY <1>5, <3>0, <3>1, Frees DEF ReadSlot
      <4> QED
        BY <1>3, <3>0, <3>1, <4>1 DEF NewTask, Parses
    <3>2. CASE ReadLiveCreds(c)
      <4>1. task'[c] = [task[c] EXCEPT !.liveCreds = dir["live"].creds, !.pc = "readWho"] /\ task[c].pc = "readCreds"
        BY <3>0, <3>2 DEF ReadLiveCreds, Held, At
      <4> QED
        BY <1>3, <3>0, <4>1 DEF NewTask
    <3>3. CASE ReadLiveWho(c)
      <4> DEFINE who == dir["live"].who
                 keep == who # None /\ task[c].liveCreds # None
      <4>1. task'[c] = [task[c] EXCEPT !.liveWho = who, !.pc = IF keep THEN "saveCreds" ELSE "swap"]
            /\ who # task[c].wanted /\ task[c].pc = "readWho"
        BY <1>5, <3>0, <3>3, Frees DEF ReadLiveWho, Held, At
      <4>2. task[c].liveCreds = dir["live"].creds
        BY <1>1, <4>1 DEF Safe, Current
      <4> QED
        BY <1>3, <3>0, <4>1, <4>2 DEF NewTask
    <3> QED
      BY <3>1, <3>2, <3>3 DEF Reading
  <2>3. t.pc \in {"readCreds", "readWho", "saveCreds", "swap"}
    BY <2>2
  <2>4. Current(t)'
    <3>1. CASE t.pc = "readCreds"
      BY <1>1, <1>2, <2>2, <3>1 DEF Current, LInv, WhoFits, Saving, Storing, Swapped, Undoing
    <3>2. CASE t.pc # "readCreds"
      BY <1>1, <1>2, <2>2, <2>3, <3>2 DEF Safe, Current, Saving, Storing, Swapped, Undoing
    <3> QED
      BY <3>1, <3>2
  <2>5. ASSUME t.pc \in {"saveCreds", "swap"}, t.wanted \in t.found
        PROVE  Usable(t.slotCreds, t.wanted)'
    <3>1. /\ task[c].pc = "readWho" /\ t.wanted = task[c].wanted /\ t.slotCreds = task[c].slotCreds
          /\ t.wanted # dir["live"].who
      BY <2>2, <2>5
    <3>2. registry[t.id] = t.wanted /\ t.slotCreds = dir[t.id].creds /\ t.wanted # None
      BY <1>1, <2>2, <3>1 DEF Safe, Current
    <3>3. PICK d \in Record(t.wanted) : Usable(dir[d].creds, t.wanted)
      BY <2>1, <2>2, <2>5, <3>1 DEF Found, Home, Usable
    <3>4. d = t.id
      BY <1>1, <2>2, <3>2, <3>3 DEF Record, LInv, IInv
    <3> QED
      BY <1>2, <3>2, <3>3, <3>4 DEF Usable
  <2>6. Secured(t)' /\ Between(t)'
    BY <2>1, <2>2, <2>3, <2>5 DEF Secured, Late, Between, Saving, Swapped, Undoing
  <2> QED
    BY <1>1, <1>2, <2>2, <2>4, <2>6 DEF Safe
<1> QED
  BY <1>4, <1>5

\* The save writes a slot of no account but the outgoing one, which is looked for in the live
\* directory until the swap.  It writes the other records away when it could not read them.
LEMMA SavesSafe ==
  ASSUME LInv, Typed', NEW c \in Tasks, Switches(c), task[c].calm, ~task[c].torn, Saves(c)
  PROVE  IF lock' = c THEN Safe(task[c])' ELSE Leaves(c)
<1>1. /\ Safe(task[c]) /\ Sound(task[c]) /\ task[c].id \in Slots /\ lock = c /\ task[c].kind = "activate"
      /\ DOMAIN task = Tasks /\ DOMAIN task[c] = DOMAIN NewTask
  BY DEF LInv, SwitchInv, IInv, Switches, Sound
<1>2. UNCHANGED <<valid, online>> /\ task[c].pc \in Saving
  BY DEF Saves, SaveReadCreds, SaveReadWho, KeepCreds, KeepWho, SaveRecord, Quiet, Held, At, Saving
<1>3. /\ task[c].slotCreds = dir[task[c].id].creds /\ task[c].wanted = registry[task[c].id] /\ task[c].wanted # None
      /\ task[c].slotWho = task[c].wanted
      /\ task[c].liveCreds = dir["live"].creds /\ task[c].liveWho = dir["live"].who
      /\ task[c].liveWho # task[c].wanted /\ task[c].liveWho # None /\ task[c].liveCreds # None /\ online
  BY <1>1, <1>2 DEF Safe, Current, Saving
<1>4. task[c].pc \in Storing => /\ task[c].target \in Slots /\ task[c].target # task[c].id
                                /\ task[c].keepWho = task[c].liveWho /\ task[c].keepCreds = task[c].liveCreds
                                /\ registry[task[c].target] \in {None, task[c].liveWho}
  BY <1>1, <1>3 DEF LInv, WInv, Ready, Storing, Saving, Chosen, Safe, Current
<1>5. ~Late(task[c])
  BY <1>2 DEF Late, Saving, Swapped, Undoing
<1>6. \A a \in task[c].found : Found(a) /\ a \in Accounts /\ a # None
  BY <1>1, <1>5, AccountsAssumption DEF Safe, Secured
<1>7. CASE lock' # c
  <2>1. UNCHANGED <<dir, registry>>
    <3>1. SaveReadCreds(c) \/ SaveReadWho(c)
      BY <1>1, <1>7 DEF Saves, KeepCreds, KeepWho, SaveRecord
    <3> QED
      BY <3>1 DEF SaveReadCreds, SaveReadWho
  <2> QED
    BY <1>2, <1>5, <1>7, <2>1, LeavesEarly
<1>8. CASE lock' = c
  <2> SUFFICES ASSUME NEW t, t = task'[c]
               PROVE  Safe(t)'
    BY <1>8
  <2>1. /\ t.had = task[c].had /\ t.found = task[c].found /\ t.id = task[c].id /\ t.slotCreds = task[c].slotCreds
        /\ t.slotWho = task[c].slotWho /\ t.liveCreds = task[c].liveCreds /\ t.liveWho = task[c].liveWho
        /\ t.wanted = task[c].wanted
        /\ \/ /\ t.pc = "saveWho" /\ t.keepCreds = dir["live"].creds /\ UNCHANGED <<dir, registry, left>>
              /\ t.lost = task[c].lost /\ task[c].pc = "saveCreds"
           \/ /\ t.pc = "keepCreds" /\ t.keepCreds = task[c].keepCreds /\ t.keepWho = dir["live"].who
              /\ task[c].pc = "saveWho" /\ UNCHANGED <<dir, registry>>
              /\ (t.lost = FALSE /\ UNCHANGED left) \/ (t.lost = TRUE /\ Spend("failures"))
           \/ /\ task[c].pc \in Storing /\ t.target = task[c].target /\ t.keepCreds = task[c].keepCreds
              /\ t.keepWho = task[c].keepWho /\ t.lost = task[c].lost /\ UNCHANGED left
              /\ \/ task[c].pc = "keepCreds" /\ KeepCreds(c) /\ t.pc = "keepWho"
                 \/ task[c].pc = "keepWho" /\ KeepWho(c) /\ t.pc = "record"
                 \/ task[c].pc = "record" /\ SaveRecord(c) /\ t.pc = "swap"
    <3>1. CASE SaveReadCreds(c)
      <4>1. task'[c] = [task[c] EXCEPT !.keepCreds = dir["live"].creds, !.pc = "saveWho"]
        BY <1>1, <1>8, <3>1, Frees DEF SaveReadCreds
      <4>2. UNCHANGED <<dir, registry, left>> /\ task[c].pc = "saveCreds"
        BY <3>1 DEF SaveReadCreds, Held, At
      <4> QED
        BY <1>1, <4>1, <4>2 DEF NewTask
    <3>2. CASE SaveReadWho(c)
      <4>0. PICK lost \in BOOLEAN :
            \E s \in IF Known(dir["live"].who, lost) # {} THEN Known(dir["live"].who, lost) ELSE {x \in Unused : x = NewId} :
               /\ task' = [task EXCEPT ![c].keepWho = dir["live"].who, ![c].target = s, ![c].lost = lost, ![c].pc = "keepCreds"]
               /\ ReadsRegistry(lost)
        BY <1>1, <1>8, <3>2, Frees DEF SaveReadWho
      <4>1. PICK s : task'[c] = [task[c] EXCEPT !.keepWho = dir["live"].who, !.target = s, !.lost = lost, !.pc = "keepCreds"]
        BY <1>1, <4>0
      <4>2. UNCHANGED <<dir, registry>> /\ task[c].pc = "saveWho"
        BY <3>2 DEF SaveReadWho, Held, At
      <4>3. (lost = FALSE /\ UNCHANGED left) \/ (lost = TRUE /\ Spend("failures"))
        BY <4>0 DEF ReadsRegistry
      <4> QED
        BY <1>1, <4>1, <4>2, <4>3 DEF NewTask
    <3>3. CASE KeepCreds(c)
      <4>1. task'[c] = [task[c] EXCEPT !.pc = "keepWho"] /\ task[c].pc = "keepCreds" /\ UNCHANGED left
        BY <1>1, <3>3 DEF KeepCreds, Goto, Held, At
      <4> QED
        BY <1>1, <3>3, <4>1 DEF NewTask, Storing
    <3>4. CASE KeepWho(c)
      <4>1. task'[c] = [task[c] EXCEPT !.pc = "record"] /\ task[c].pc = "keepWho" /\ UNCHANGED left
        BY <1>1, <3>4 DEF KeepWho, Goto, Held, At
      <4> QED
        BY <1>1, <3>4, <4>1 DEF NewTask, Storing
    <3>5. CASE SaveRecord(c)
      <4>1. task'[c] = [task[c] EXCEPT !.pc = "swap"] /\ task[c].pc = "record" /\ UNCHANGED left
        BY <1>1, <3>5 DEF SaveRecord, Goto, Held, At
      <4> QED
        BY <1>1, <3>5, <4>1 DEF NewTask, Storing
    <3> QED
      BY <3>1, <3>2, <3>3, <3>4, <3>5 DEF Saves
  <2>2. /\ dir'["live"] = dir["live"]
        /\ \A s \in Slots : dir'[s] = dir[s] \/ (task[c].pc \in Storing /\ s = task[c].target)
        /\ \A s \in Slots : \/ registry'[s] = registry[s]
                            \/ task[c].pc \in Storing /\ s = task[c].target /\ registry'[s] = task[c].liveWho
                            \/ task[c].lost /\ t.pc = "swap"
    <3>1. CASE UNCHANGED <<dir, registry>>
      BY <3>1
    <3>2. CASE task[c].pc \in Storing /\ (KeepCreds(c) \/ KeepWho(c))
      <4>1. UNCHANGED registry /\ \E x : dir' = [dir EXCEPT ![task[c].target] = x]
        BY <3>2 DEF KeepCreds, KeepWho, StoresCreds, StoresWho, SwapCredentials, Write
      <4> QED
        BY <1>4, <3>2, <4>1, AccountsAssumption DEF LInv, Typed, Dirs
    <3>3. CASE task[c].pc \in Storing /\ SaveRecord(c) /\ t.pc = "swap"
      BY <1>4, <3>3 DEF SaveRecord, WritesRecord
    <3> QED
      BY <2>1, <3>1, <3>2, <3>3
  <2>3. t.pc \in {"saveWho", "keepCreds", "keepWho", "record", "swap"}
    BY <2>1
  <2>4. /\ t.lost => t.pc \in Storing \cup {"swap"}
        /\ t.lost => left'.failures < t.had
        /\ left'.failures <= t.had /\ t.had \in Nat /\ t.found \subseteq Accounts
    <3>1. /\ left.failures \in Nat /\ (task[c].lost => task[c].pc \in Storing /\ left.failures < task[c].had)
          /\ left.failures <= task[c].had /\ task[c].had \in Nat /\ task[c].found \subseteq Accounts
      BY <1>1, <1>2 DEF LInv, Typed, Budgets, Safe, Current, Between, Saving, Swapped, Undoing
    <3>2. Spend("failures") => left'.failures = left.failures - 1
      BY DEF Spend, LInv, Typed, Budgets
    <3>3. t.pc \in Storing \cup {"swap"} \/ (t.pc = "saveWho" /\ t.lost = task[c].lost /\ task[c].pc = "saveCreds")
      BY <2>1 DEF Storing
    <3>4. (t.lost = task[c].lost /\ UNCHANGED left) \/ (t.lost = FALSE /\ UNCHANGED left) \/ Spend("failures")
      BY <2>1
    <3>5. "saveCreds" \notin Storing
      BY DEF Storing
    <3> QED
      BY <2>1, <3>1, <3>2, <3>3, <3>4, <3>5
  <2>5. ASSUME NEW a \in task[c].found, ~Late(t)
        PROVE  Found(a)'
    <3>1. ~(task[c].lost /\ t.pc = "swap")
      <4>1. CASE t.pc = "swap"
        BY <2>1, <2>5, <4>1 DEF Late
      <4> QED
        BY <4>1
    <3> QED
      BY <1>2, <1>3, <1>4, <1>6, <2>2, <3>1, BesideFound
  <2>6. t.pc # "swap" => dir'[t.id] = dir[t.id] /\ registry'[t.id] = registry[t.id]
    BY <1>1, <1>4, <2>1, <2>2
  <2>7. t.pc = "record" => dir'[t.target].creds = t.keepCreds
    <3>1. ASSUME t.pc = "record"
          PROVE  dir'[t.target].creds = t.keepCreds
      <4>1. /\ task[c].pc = "keepWho" /\ KeepWho(c) /\ t.target = task[c].target /\ t.target \in Slots
            /\ t.keepCreds = task[c].keepCreds
        BY <1>4, <2>1, <3>1 DEF Storing
      <4>2. dir[t.target].creds = t.keepCreds
        BY <1>1, <4>1 DEF Safe, Current, Storing
      <4> QED
        BY <4>1, <4>2 DEF KeepWho, StoresWho, Write, LInv, Typed, Dirs, NoDir
    <3> QED
      BY <3>1
  <2>8. t.pc = "keepWho" => dir'[t.target].creds = t.keepCreds
    BY <1>4, <2>1 DEF KeepCreds, StoresCreds, SwapCredentials, Write, LInv, Typed, Dirs, NoDir, Storing
  <2>9. t.pc = "swap" => \E s \in Record(t.liveWho)' : dir'[s].creds = t.liveCreds
    <3>1. ASSUME t.pc = "swap"
          PROVE  task[c].target \in Record(t.liveWho)' /\ dir'[task[c].target].creds = t.liveCreds
      <4>1. task[c].pc = "record" /\ SaveRecord(c) /\ task[c].target \in Slots
        BY <1>4, <2>1, <3>1 DEF Storing
      <4>2. dir[task[c].target].creds = task[c].keepCreds
        BY <1>1, <4>1 DEF Safe, Current, Storing
      <4>3. registry'[task[c].target] = task[c].keepWho /\ UNCHANGED dir
        BY <4>1 DEF SaveRecord, WritesRecord
      <4> QED
        BY <1>4, <2>1, <4>1, <4>2, <4>3 DEF Record, Storing
    <3> QED
      BY <3>1
  <2>10. t.pc \in Saving => t.keepCreds = t.liveCreds
    BY <1>1, <1>3, <1>4, <2>1 DEF Safe, Current, Saving, Storing
  <2>11. Current(t)'
    BY <1>2, <1>3, <1>4, <2>1, <2>2, <2>3, <2>4, <2>6, <2>7, <2>8, <2>9, <2>10
       DEF Current, Saving, Storing, Swapped, Undoing
  <2>12. Usable(t.liveCreds, t.liveWho)' \/ t.liveWho \notin t.found
    BY <1>2, <1>3, <1>6, <2>1 DEF Found, Home, Usable
  <2>13. Late(t) => t.pc = "swap" /\ t.lost
    BY <2>3 DEF Late, Swapped, Undoing
  <2>14. t.wanted \in t.found => Usable(t.slotCreds, t.wanted)'
    BY <1>1, <1>2, <2>1 DEF Safe, Secured, Usable
  <2>15. Secured(t)'
    BY <2>1, <2>5, <2>9, <2>12, <2>13, <2>14 DEF Secured, Stored, Usable, Late
  <2>16. Between(t)'
    BY <2>3, <2>4 DEF Between, Swapped, Undoing
  <2> QED
    BY <2>4, <2>11, <2>15, <2>16 DEF Safe
<1> QED
  BY <1>7, <1>8

\* When the swap lets go, an account is found live or stored: the incoming one with what its
\* slot held, the outgoing one with what the save stored, or live again after an undo.
LEMMA FoundAfter ==
  ASSUME LInv, NEW c \in Tasks, Switches(c), task[c].calm, ~task[c].torn, task[c].pc \in Swapped,
         UNCHANGED <<registry, valid>>, \A s \in Slots : dir'[s] = dir[s],
         \/ dir'["live"].creds = task[c].slotCreds /\ dir'["live"].who = task[c].slotWho
         \/ ~task[c].lost /\ dir'["live"].creds = task[c].liveCreds /\ dir'["live"].who = task[c].liveWho,
         NEW a \in task[c].found, task[c].lost => a \in {task[c].liveWho, task[c].slotWho}
  PROVE  Found(a)'
<1>1. /\ a \in Accounts /\ a # None /\ task[c].slotWho = task[c].wanted
      /\ (~task[c].lost \/ a = task[c].liveWho) => Stored(a)
      /\ (a = task[c].liveWho) => Usable(task[c].liveCreds, a)
      /\ (a = task[c].wanted) => Usable(task[c].slotCreds, a)
  BY AccountsAssumption DEF LInv, SwitchInv, Switches, Safe, Secured, Late, Current, Swapped, Undoing
<1>2. CASE dir'["live"].who # a
  <2>1. PICK s \in Record(a) : Usable(dir[s].creds, a)
    BY <1>1, <1>2 DEF Stored
  <2> QED
    BY <1>2, <2>1 DEF Found, Home, Record, Usable
<1>3. CASE dir'["live"].who = a /\ dir'["live"].who = task[c].liveWho /\ dir'["live"].creds = task[c].liveCreds
  BY <1>1, <1>3 DEF Found, Home, Usable
<1>4. CASE dir'["live"].who = a /\ dir'["live"].who = task[c].slotWho /\ dir'["live"].creds = task[c].slotCreds
  BY <1>1, <1>4 DEF Found, Home, Usable
<1> QED
  BY <1>2, <1>3, <1>4

\* The two writes of the swap, its check and the undo.
LEMMA SwappingSafe ==
  ASSUME LInv, Typed', NEW c \in Tasks, Switches(c), task[c].calm, ~task[c].torn, Swapping(c)
  PROVE  IF lock' = c THEN Safe(task[c])' ELSE Leaves(c)
<1>1. /\ Safe(task[c]) /\ task[c].id \in Slots /\ lock = c
      /\ DOMAIN task = Tasks /\ DOMAIN task[c] = DOMAIN NewTask
  BY DEF LInv, SwitchInv, IInv, Switches, Sound
<1>2. /\ UNCHANGED <<registry, valid, online>> /\ task[c].pc \in {"swap"} \cup Swapped
      /\ UNCHANGED dir \/ \E x : Write("live", x)
  BY DEF Swapping, SwapCreds, SwapWho, Verify, RestoreCreds, RestoreWho, Quiet, Held, At, Swapped, Undoing, Restoring,
     SwapCredentials, SwapAccount
<1>3. \A s \in Slots : dir'[s] = dir[s]
  BY <1>2, AccountsAssumption DEF Write, LInv, Typed, Dirs
<1>4. task[c].wanted # None /\ task[c].slotWho = task[c].wanted /\ task[c].liveWho # task[c].wanted /\ online
  BY <1>1, <1>2 DEF Safe, Current, Swapped, Undoing
<1>5. /\ left.failures \in Nat /\ left'.failures \in Nat /\ left'.failures <= left.failures
      /\ UNCHANGED left \/ left'.failures = left.failures - 1
  <2>1. UNCHANGED left \/ Spend("failures")
    BY <1>4 DEF Swapping, SwapCreds, SwapWho, Verify, RestoreCreds, RestoreWho, Restoring, Failing
  <2> QED
    BY <2>1 DEF Spend, LInv, Typed, Budgets
<1>6. \A x : dir' = [dir EXCEPT !["live"] = x] => dir'["live"] = x
  BY DEF LInv, Typed, Dirs
<1>7. DOMAIN dir["live"] = {"creds", "who", "removed"}
  BY DEF LInv, Typed, Dirs, NoDir
<1>8. CASE SwapCreds(c)
  <2> SUFFICES ASSUME NEW t, t = task'[c]
               PROVE  Safe(t)'
    BY <1>1, <1>8 DEF SwapCreds
  <2>1. t = [task[c] EXCEPT !.pc = "swapWho"] /\ task[c].pc = "swap" /\ UNCHANGED left
    BY <1>1, <1>8 DEF SwapCreds, Goto, Held, At
  <2>2. /\ t.had = task[c].had /\ t.found = task[c].found /\ t.id = task[c].id /\ t.slotCreds = task[c].slotCreds
        /\ t.slotWho = task[c].slotWho /\ t.liveCreds = task[c].liveCreds /\ t.liveWho = task[c].liveWho /\ t.pc = "swapWho"
        /\ t.wanted = task[c].wanted /\ t.lost = task[c].lost
    BY <1>1, <2>1 DEF NewTask
  <2>3. dir'["live"] = [dir["live"] EXCEPT !.creds = task[c].slotCreds]
    BY <1>6, <1>8 DEF SwapCreds, SwapCredentials, Write
  <2>4. dir'["live"].creds = t.slotCreds /\ dir'["live"].who = dir["live"].who
    BY <1>7, <2>2, <2>3
  <2>5. dir["live"].who = t.liveWho /\ dir["live"].creds = t.liveCreds
    BY <1>1, <2>1, <2>2 DEF Safe, Current
  <2>6. ASSUME NEW a \in t.found
        PROVE  /\ (~t.lost \/ a = t.liveWho) => Stored(a)'
               /\ (a = t.liveWho) => Usable(t.liveCreds, a)'
    <3>1. a \in Accounts /\ a # None
      BY <1>1, <2>2, AccountsAssumption DEF Safe
    <3>2. CASE t.lost
      <4>1. (a = t.liveWho) => Stored(a) /\ Usable(t.liveCreds, a)
        BY <1>1, <2>1, <2>2, <3>2 DEF Safe, Secured, Late
      <4> QED
        BY <1>2, <1>3, <3>1, <3>2, <4>1 DEF Stored, Usable, Record
    <3>3. CASE ~t.lost /\ a = t.liveWho
      <4>1. Found(a)
        BY <1>1, <2>1, <2>2, <3>3 DEF Safe, Secured, Late, Swapped, Undoing
      <4>2. Usable(t.liveCreds, a)
        BY <2>5, <3>3, <4>1 DEF Found, Home, Usable
      <4>3. \E s \in Record(a) : dir[s].creds = t.liveCreds
        BY <1>1, <2>1, <2>2, <3>1, <3>3, <4>2 DEF Safe, Current, Usable
      <4> QED
        BY <1>2, <1>3, <3>1, <4>2, <4>3 DEF Stored, Usable, Record
    <3>4. CASE ~t.lost /\ a # t.liveWho
      <4>1. Found(a)
        BY <1>1, <2>1, <2>2, <3>4 DEF Safe, Secured, Late, Swapped, Undoing
      <4>2. Stored(a)
        BY <2>5, <3>4, <4>1 DEF Found, Home, Stored, Usable
      <4> QED
        BY <1>2, <1>3, <3>1, <3>4, <4>2 DEF Stored, Usable, Record
    <3> QED
      BY <3>2, <3>3, <3>4
  <2>7. t.wanted \in t.found => Usable(t.slotCreds, t.wanted)'
    BY <1>1, <1>2, <2>1, <2>2 DEF Safe, Secured, Usable
  <2>9. Secured(t)'
    BY <2>2, <2>6, <2>7 DEF Secured, Late, Swapped, Undoing
  <2>10. Between(t)'
    BY <1>1, <2>1, <2>2, <2>4, <2>5 DEF Safe, Between, Swapped, Undoing
  <2>8. Current(t)'
    BY <1>2, <1>4, <2>2 DEF Current, Saving, Storing, Swapped, Undoing
  <2> QED
    BY <1>1, <2>1, <2>2, <2>8, <2>9, <2>10 DEF Safe
<1>9. CASE ~SwapCreds(c)
  <2>1. task[c].pc \in Swapped /\ (SwapWho(c) \/ Verify(c) \/ RestoreCreds(c) \/ RestoreWho(c))
    BY <1>9 DEF Swapping, SwapWho, Verify, RestoreCreds, RestoreWho, Held, At, Swapped, Undoing
  <2>2. CASE lock' # c
    <3> SUFFICES ASSUME task[c].had <= left'.failures + 1
                 PROVE  \/ dir'["live"].creds = task[c].slotCreds /\ dir'["live"].who = task[c].slotWho
                        \/ /\ ~task[c].lost
                           /\ dir'["live"].creds = task[c].liveCreds /\ dir'["live"].who = task[c].liveWho
      BY <1>2, <1>3, <2>1, <2>2, FoundAfter DEF Leaves
    <3>1. CASE Verify(c)
      BY <1>1, <2>1, <2>2, <3>1 DEF Verify, Safe, Between, Held, At
    <3>2. CASE RestoreCreds(c)
      <4>1. task[c].pc = "restoreCreds"
        BY <1>1, <2>2, <3>2 DEF RestoreCreds, Held, At
      <4>2. UNCHANGED left /\ ~task[c].lost
        BY <1>1, <1>5, <4>1 DEF Safe, Between, Undoing
      <4>3. Write("live", [dir["live"] EXCEPT !.creds = task[c].liveCreds])
        BY <1>4, <1>5, <3>2, <4>2 DEF RestoreCreds, Restoring, Failing, Spend, LInv, Typed, Budgets
      <4>4. dir'["live"] = [dir["live"] EXCEPT !.creds = task[c].liveCreds]
        BY <1>6, <4>3 DEF Write
      <4>5. dir'["live"].creds = task[c].liveCreds /\ dir'["live"].who = dir["live"].who
        BY <1>7, <4>4
      <4> QED
        BY <1>1, <4>1, <4>2, <4>5 DEF Safe, Between
    <3>3. CASE RestoreWho(c)
      <4>1. task[c].pc = "restoreWho"
        BY <3>3 DEF RestoreWho, Held, At
      <4>2. UNCHANGED left /\ ~task[c].lost
        BY <1>1, <1>5, <4>1 DEF Safe, Between, Undoing
      <4>3. Write("live", [dir["live"] EXCEPT !.who = task[c].liveWho])
        BY <1>4, <1>5, <3>3, <4>2 DEF RestoreWho, Restoring, Failing, Spend, LInv, Typed, Budgets
      <4>4. dir'["live"] = [dir["live"] EXCEPT !.who = task[c].liveWho]
        BY <1>6, <4>3 DEF Write
      <4>5. dir'["live"].who = task[c].liveWho /\ dir'["live"].creds = dir["live"].creds
        BY <1>7, <4>4
      <4> QED
        BY <1>1, <4>1, <4>2, <4>5 DEF Safe, Between
    <3>4. CASE SwapWho(c)
      BY <1>1, <2>2, <3>4 DEF SwapWho
    <3> QED
      BY <2>1, <3>1, <3>2, <3>3, <3>4
  <2>3. CASE lock' = c
    <3> SUFFICES ASSUME NEW t, t = task'[c]
                 PROVE  Safe(t)'
      BY <2>3
    <3>1. /\ t.had = task[c].had /\ t.found = task[c].found /\ t.id = task[c].id /\ t.slotCreds = task[c].slotCreds
          /\ t.slotWho = task[c].slotWho /\ t.liveCreds = task[c].liveCreds /\ t.liveWho = task[c].liveWho
          /\ t.wanted = task[c].wanted /\ t.lost = task[c].lost
          /\ \/ /\ task[c].pc = "swapWho" /\ t.pc = "verify"
                /\ dir'["live"].creds = dir["live"].creds /\ dir'["live"].who = task[c].slotWho
             \/ task[c].pc = "swapWho" /\ t.pc = "restoreCreds" /\ UNCHANGED dir /\ left'.failures < left.failures
             \/ task[c].pc = "verify" /\ t.pc = "restoreBoth" /\ UNCHANGED dir /\ left'.failures < left.failures
             \/ /\ task[c].pc = "restoreBoth" /\ t.pc = "restoreWho" /\ dir'["live"].who = dir["live"].who
                /\ dir'["live"].creds = task[c].liveCreds \/ left'.failures < left.failures
      <4>1. CASE SwapWho(c)
        <5>1. \/ t = [task[c] EXCEPT !.pc = "verify"] /\ Write("live", [dir["live"] EXCEPT !.who = task[c].slotWho])
              \/ t = [task[c] EXCEPT !.pc = "restoreCreds"] /\ UNCHANGED dir /\ Spend("failures")
          BY <1>1, <1>4, <4>1 DEF SwapWho, Goto, SwapAccount, Failing
        <5>2. task[c].pc = "swapWho"
          BY <4>1 DEF SwapWho, Held, At
        <5>3. CASE t = [task[c] EXCEPT !.pc = "verify"] /\ Write("live", [dir["live"] EXCEPT !.who = task[c].slotWho])
          <6>2. dir'["live"] = [dir["live"] EXCEPT !.who = task[c].slotWho]
            BY <1>6, <5>3 DEF Write
          <6>1. dir'["live"].creds = dir["live"].creds /\ dir'["live"].who = task[c].slotWho
            BY <1>7, <6>2
          <6> QED
            BY <1>1, <5>2, <5>3, <6>1 DEF NewTask
        <5>4. CASE t = [task[c] EXCEPT !.pc = "restoreCreds"] /\ UNCHANGED dir /\ Spend("failures")
          <6>1. left'.failures < left.failures
            BY <1>5, <5>4 DEF Spend, LInv, Typed, Budgets
          <6> QED
            BY <1>1, <5>2, <5>4, <6>1 DEF NewTask
        <5> QED
          BY <5>1, <5>3, <5>4
      <4>2. CASE Verify(c)
        <5>1. task[c].pc = "verify" /\ dir["live"].who = task[c].wanted
          BY <1>1, <1>4, <4>2 DEF Verify, Held, At, Safe, Between
        <5>2. t = [task[c] EXCEPT !.pc = "restoreBoth"] /\ UNCHANGED dir /\ Spend("failures")
          BY <1>1, <1>4, <2>3, <4>2, <5>1, Frees DEF Verify, Goto, Failing
        <5>3. left'.failures < left.failures
          BY <1>5, <5>2 DEF Spend, LInv, Typed, Budgets
        <5> QED
          BY <1>1, <5>1, <5>2, <5>3 DEF NewTask
      <4>3. CASE RestoreCreds(c)
        <5>1. task[c].pc = "restoreBoth" /\ t = [task[c] EXCEPT !.pc = "restoreWho"]
          BY <1>1, <2>3, <4>3, Frees DEF RestoreCreds, Goto, Held, At
        <5>2. CASE Write("live", [dir["live"] EXCEPT !.creds = task[c].liveCreds])
          <6>2. dir'["live"] = [dir["live"] EXCEPT !.creds = task[c].liveCreds]
            BY <1>6, <5>2 DEF Write
          <6>1. dir'["live"].creds = task[c].liveCreds /\ dir'["live"].who = dir["live"].who
            BY <1>7, <6>2
          <6> QED
            BY <1>1, <5>1, <6>1 DEF NewTask
        <5>3. CASE Spend("failures") /\ UNCHANGED dir
          <6>1. left'.failures < left.failures
            BY <1>5, <5>3 DEF Spend, LInv, Typed, Budgets
          <6> QED
            BY <1>1, <5>1, <5>3, <6>1 DEF NewTask
        <5> QED
          BY <1>4, <4>3, <5>2, <5>3 DEF RestoreCreds, Restoring, Failing
      <4>4. CASE RestoreWho(c)
        BY <2>3, <4>4, Frees DEF RestoreWho
      <4> QED
        BY <2>1, <4>1, <4>2, <4>3, <4>4
    <3>2. t.pc \in Swapped
      BY <3>1 DEF Swapped, Undoing
    <3>3. ASSUME NEW a \in t.found
          PROVE  /\ (~t.lost \/ a = t.liveWho) => Stored(a)'
                 /\ (a = t.liveWho) => Usable(t.liveCreds, a)'
      <4>1. /\ (~t.lost \/ a = t.liveWho) => Stored(a)
            /\ (a = t.liveWho) => Usable(t.liveCreds, a)
        BY <1>1, <2>1, <3>1 DEF Safe, Secured, Late
      <4> QED
        BY <1>2, <1>3, <4>1 DEF Stored, Usable, Record
    <3>4. Current(t)'
      BY <1>2, <1>4, <3>1, <3>2 DEF Current, Saving, Storing, Swapped, Undoing
    <3>7. t.wanted \in t.found => Usable(t.slotCreds, t.wanted)'
      BY <1>1, <1>2, <2>1, <3>1 DEF Safe, Secured, Usable
    <3>5. Secured(t)'
      BY <3>2, <3>3, <3>7 DEF Secured, Late
    <3>6. Between(t)'
      BY <1>1, <1>5, <3>1 DEF Safe, Between, Undoing
    <3> QED
      BY <1>1, <1>5, <3>1, <3>4, <3>5, <3>6 DEF Safe
  <2> QED
    BY <2>2, <2>3
<1> QED
  BY <1>8, <1>9

\* A switch that keeps the lock goes on to another step of it, disturbed or not, and stays torn.
LEMMA OwnWalk ==
  ASSUME LInv, NEW c \in Tasks, Switches(c), lock' = c,
         Reading(c) \/ Saves(c) \/ Swapping(c) \/ Fails(c)
  PROVE  /\ task'[c].pc \in Switching \ {"torn"}
         /\ task'[c].calm = task[c].calm /\ task'[c].torn = task[c].torn
<1>1. DOMAIN task = Tasks /\ DOMAIN task[c] = DOMAIN NewTask /\ task[c].kind = "activate"
  BY DEF LInv, IInv, Sound, Switches
<1>2. \A ok \in BOOLEAN : ~Answer(c, ok)
  BY Frees
<1>3. CASE \E pc \in Switching \ {"torn"} : Goto(c, pc)
  <2> PICK pc \in Switching \ {"torn"} : task'[c] = [task[c] EXCEPT !.pc = pc]
    BY <1>1, <1>3 DEF Goto
  <2> QED
    BY <1>1 DEF NewTask
<1>4. CASE ReadSlot(c)
  <2>1. task'[c] = [task[c] EXCEPT !.wanted = registry[task[c].id], !.slotCreds = dir[task[c].id].creds,
                                   !.slotWho = dir[task[c].id].who, !.pc = "readCreds"]
    BY <1>1, <1>2, <1>4 DEF ReadSlot
  <2> QED
    BY <1>1, <2>1 DEF NewTask, Switching
<1>5. CASE ReadLiveCreds(c)
  <2>1. task'[c] = [task[c] EXCEPT !.liveCreds = dir["live"].creds, !.pc = "readWho"]
    BY <1>1, <1>5 DEF ReadLiveCreds
  <2> QED
    BY <1>1, <2>1 DEF NewTask, Switching
<1>6. CASE ReadLiveWho(c)
  <2>1. \E pc \in {"saveCreds", "swap"} : task'[c] = [task[c] EXCEPT !.liveWho = dir["live"].who, !.pc = pc]
    BY <1>1, <1>2, <1>6 DEF ReadLiveWho
  <2> QED
    BY <1>1, <2>1 DEF NewTask, Switching, Saving
<1>7. CASE SaveReadCreds(c)
  <2>1. task'[c] = [task[c] EXCEPT !.keepCreds = dir["live"].creds, !.pc = "saveWho"]
    BY <1>1, <1>2, <1>7 DEF SaveReadCreds
  <2> QED
    BY <1>1, <2>1 DEF NewTask, Switching, Saving
<1>8. CASE SaveReadWho(c)
  <2>0. PICK lost \in BOOLEAN :
        \E s \in IF Known(dir["live"].who, lost) # {} THEN Known(dir["live"].who, lost) ELSE {x \in Unused : x = NewId} :
           /\ task' = [task EXCEPT ![c].keepWho = dir["live"].who, ![c].target = s, ![c].lost = lost, ![c].pc = "keepCreds"]
           /\ ReadsRegistry(lost)
    BY <1>2, <1>8 DEF SaveReadWho
  <2>1. \E s : task'[c] = [task[c] EXCEPT !.keepWho = dir["live"].who, !.target = s, !.lost = lost, !.pc = "keepCreds"]
    BY <1>1, <2>0
  <2> QED
    BY <1>1, <2>1 DEF NewTask, Switching, Saving
<1>9. CASE KeepCreds(c) \/ KeepWho(c) \/ SaveRecord(c) \/ Swapping(c)
  <2>1. \E pc \in Switching \ {"torn"} : Goto(c, pc)
    BY <1>1, <1>2, <1>9 DEF KeepCreds, KeepWho, SaveRecord, Swapping, SwapCreds, SwapWho, Verify, RestoreCreds, RestoreWho,
       Switching, Saving, Swapped, Undoing
  <2> QED
    BY <1>3, <2>1
<1>10. ~Fails(c)
  BY <1>2 DEF Fails
<1> QED
  BY <1>4, <1>5, <1>6, <1>7, <1>8, <1>9, <1>10 DEF Reading, Saves

\* A call keeps its kind and the record it is about until it is over.
LEMMA Names ==
  ASSUME IInv, NEW c \in Tasks, Works(c)
  PROVE  /\ \A d \in Tasks : d # c => task'[d] = task[d]
         /\ task'[c].pc # "new"
         /\ (task'[c].kind = task[c].kind /\ task'[c].id = task[c].id) \/ task'[c].kind = None
<1>1. DOMAIN task = Tasks /\ DOMAIN task[c] = DOMAIN NewTask
  BY DEF IInv, Sound
<1>2. CASE \E ok : Answer(c, ok)
  <2> PICK ok : Answer(c, ok)
    BY <1>2
  <2>1. task' = [task EXCEPT ![c] = IF task[c].kind = "login" THEN [task[c] EXCEPT !.ok = ok, !.pc = "cleanup"]
                                   ELSE Past(ok)]
    BY DEF Answer
  <2> QED
    BY <1>1, <2>1 DEF NewTask, Past
<1>3. CASE \E pc : pc # "new" /\ Goto(c, pc)
  <2> PICK pc : pc # "new" /\ Goto(c, pc)
    BY <1>3
  <2>1. task' = [task EXCEPT ![c] = [task[c] EXCEPT !.pc = pc]]
    BY DEF Goto
  <2> QED
    BY <1>1, <2>1 DEF NewTask
<1>4. CASE TakeLock(c)
  <2>1. task[c].kind \in Commands
    BY <1>4 DEF IInv, Sound, TakeLock, At, Before
  <2> DEFINE pc == CASE task[c].kind = "save" -> "saveCreds" [] task[c].kind = "login" -> "adopt" [] OTHER -> task[c].kind
             found == {a \in Accounts : Found(a)}
  <2>2. pc # "new"
    BY <2>1 DEF Commands
  <2>3. /\ task'[c] = [task[c] EXCEPT !.pc = pc, !.calm = TRUE, !.found = found, !.had = left.failures]
        /\ \A d \in Tasks : d # c => task'[d] = task[d]
    BY <1>1, <1>4 DEF TakeLock
  <2> HIDE DEF pc, found
  <2> QED
    BY <1>1, <2>2, <2>3 DEF NewTask
<1>5. CASE ReadSlot(c) \/ ReadLiveCreds(c) \/ ReadLiveWho(c)
  <2>1. CASE \A ok \in BOOLEAN : ~Answer(c, ok)
    <3>1. CASE ReadSlot(c)
      <4>1. /\ task'[c] = [task[c] EXCEPT !.wanted = registry[task[c].id], !.slotCreds = dir[task[c].id].creds,
                                           !.slotWho = dir[task[c].id].who, !.pc = "readCreds"]
            /\ \A d \in Tasks : d # c => task'[d] = task[d]
        BY <1>1, <2>1, <3>1 DEF ReadSlot
      <4> QED
        BY <1>1, <4>1 DEF NewTask
    <3>2. CASE ReadLiveCreds(c)
      <4>1. /\ task'[c] = [task[c] EXCEPT !.liveCreds = dir["live"].creds, !.pc = "readWho"]
            /\ \A d \in Tasks : d # c => task'[d] = task[d]
        BY <1>1, <3>2 DEF ReadLiveCreds
      <4> QED
        BY <1>1, <4>1 DEF NewTask
    <3>3. CASE ReadLiveWho(c)
      <4>1. /\ \E pc \in {"saveCreds", "swap"} : task'[c] = [task[c] EXCEPT !.liveWho = dir["live"].who, !.pc = pc]
            /\ \A d \in Tasks : d # c => task'[d] = task[d]
        BY <1>1, <2>1, <3>3 DEF ReadLiveWho
      <4> QED
        BY <1>1, <4>1 DEF NewTask
    <3> QED
      BY <1>5, <3>1, <3>2, <3>3
  <2> QED
    BY <1>2, <2>1
<1>6. CASE SaveReadCreds(c) \/ SaveReadWho(c) \/ Adopt(c) \/ ConsoleLogin(c)
  <2>1. CASE \A ok \in BOOLEAN : ~Answer(c, ok)
    <3>1. CASE SaveReadCreds(c)
      <4>1. /\ task'[c] = [task[c] EXCEPT !.keepCreds = dir["live"].creds, !.pc = "saveWho"]
            /\ \A d \in Tasks : d # c => task'[d] = task[d]
        BY <1>1, <2>1, <3>1 DEF SaveReadCreds
      <4> QED
        BY <1>1, <4>1 DEF NewTask
    <3>2. CASE SaveReadWho(c)
      <4>0. PICK lost \in BOOLEAN :
            \E s \in IF Known(dir["live"].who, lost) # {} THEN Known(dir["live"].who, lost) ELSE {x \in Unused : x = NewId} :
               /\ task' = [task EXCEPT ![c].keepWho = dir["live"].who, ![c].target = s, ![c].lost = lost, ![c].pc = "keepCreds"]
               /\ ReadsRegistry(lost)
        BY <2>1, <3>2 DEF SaveReadWho
      <4>1. /\ \E s : task'[c] = [task[c] EXCEPT !.keepWho = dir["live"].who, !.target = s, !.lost = lost, !.pc = "keepCreds"]
            /\ \A d \in Tasks : d # c => task'[d] = task[d]
        BY <1>1, <4>0
      <4> QED
        BY <1>1, <4>1 DEF NewTask
    <3>3. CASE Adopt(c)
      <4> DEFINE mine == dir[task[c].id]
      <4>1. \E lost, s, pc :
               /\ pc \in {"adoptRecord", "adoptCreds"}
               /\ task' = [task EXCEPT ![c].keepCreds = mine.creds, ![c].keepWho = mine.who, ![c].target = s,
                                       ![c].lost = lost, ![c].pc = pc]
        BY <2>1, <3>3 DEF Adopt
      <4> HIDE DEF mine
      <4>2. PICK lost, s, pc :
               /\ pc \in {"adoptRecord", "adoptCreds"}
               /\ task' = [task EXCEPT ![c].keepCreds = mine.creds, ![c].keepWho = mine.who, ![c].target = s,
                                       ![c].lost = lost, ![c].pc = pc]
        BY <4>1
      <4>3. /\ task'[c] = [task[c] EXCEPT !.keepCreds = mine.creds, !.keepWho = mine.who, !.target = s,
                                          !.lost = lost, !.pc = pc]
            /\ \A d \in Tasks : d # c => task'[d] = task[d]
        BY <1>1, <4>2
      <4> QED
        BY <1>1, <4>2, <4>3 DEF NewTask
    <3>4. CASE ConsoleLogin(c)
      <4>1. CASE Goto(c, "lock")
        BY <1>3, <4>1
      <4>2. CASE \E a \in Accounts : task' = [task EXCEPT ![c].slotWho = a, ![c].pc = "consoleWho"]
        <5> PICK a \in Accounts : task' = [task EXCEPT ![c].slotWho = a, ![c].pc = "consoleWho"]
          BY <4>2
        <5>1. /\ task'[c] = [task[c] EXCEPT !.slotWho = a, !.pc = "consoleWho"]
              /\ \A d \in Tasks : d # c => task'[d] = task[d]
          BY <1>1
        <5> QED
          BY <1>1, <5>1 DEF NewTask
      <4> QED
        BY <3>4, <4>1, <4>2 DEF ConsoleLogin
    <3> QED
      BY <1>6, <3>1, <3>2, <3>3, <3>4
  <2> QED
    BY <1>2, <2>1
<1>7. CASE Cleanup(c)
  BY <1>1, <1>7 DEF Cleanup, Past, NewTask
<1>8. CASE \/ SaveRecord(c) \/ Unregister(c) \/ AdoptRecord(c) \/ Fails(c) \/ SwapWho(c) \/ Verify(c) \/ RestoreCreds(c)
           \/ RestoreWho(c) \/ MakeSlot(c) \/ ConsoleWho(c) \/ KeepCreds(c) \/ KeepWho(c) \/ SwapCreds(c) \/ DeleteSlot(c)
           \/ AdoptCreds(c) \/ AdoptWho(c)
  <2>1. (\E ok : Answer(c, ok)) \/ (\E pc : pc # "new" /\ Goto(c, pc))
    BY <1>8 DEF SaveRecord, Unregister, AdoptRecord, Fails, SwapWho, Verify, RestoreCreds, RestoreWho, MakeSlot, ConsoleWho,
       KeepCreds, KeepWho, SwapCreds, DeleteSlot, AdoptCreds, AdoptWho
  <2> QED
    BY <1>2, <1>3, <2>1
<1>9. CASE ReplyLost(c)
  <2>1. CASE Answer(c, FALSE)
    BY <1>2, <2>1
  <2>2. CASE \E pc \in {"torn", "restoreCreds"} : task' = [task EXCEPT ![c].torn = TRUE, ![c].pc = pc]
    <3> PICK pc \in {"torn", "restoreCreds"} : task' = [task EXCEPT ![c].torn = TRUE, ![c].pc = pc]
      BY <2>2
    <3>1. task'[c] = [task[c] EXCEPT !.torn = TRUE, !.pc = pc] /\ \A d \in Tasks : d # c => task'[d] = task[d]
      BY <1>1
    <3> QED
      BY <1>1, <3>1 DEF NewTask
  <2> QED
    BY <1>9, <2>1, <2>2 DEF ReplyLost
<1> QED
  BY <1>4, <1>5, <1>6, <1>7, <1>8, <1>9 DEF Works, Reaches

\* Nobody gets the lock but by taking it.
LEMMA Holds ==
  ASSUME LInv, [Next]_vars, NEW c \in Tasks, lock' = c, lock # c
  PROVE  TakeLock(c)
<1>1. lock' # None /\ lock' # lock
  BY AccountsAssumption
<1>2. PICK d \in Tasks : Works(d)
  BY <1>1 DEF Next, vars, avars, ANext, Outside, SessionStarts, SessionRefreshes, SessionEnds, OutsideIdentity, DistroTurns,
     OutsideToken, Crash, ACrash, Tick, IntervalPasses, CooldownPasses, ForceRefresh, Invalidate, GiveUp, Begins, Begin,
     SaveLive, Activate, RemoveAccount, LoginNew, Cycles, StartCycle, OfflineSection, ReadLive, ReadRecords, NextCard,
     SectionBuilt, Stamp, EndCycle, ReadToken, RefreshAsk, RefreshKeep, Reread, FetchUsage
<1>3. TakeLock(d)
  BY <1>1, <1>2 DEF Works, Reaches, SaveRecord, Unregister, AdoptRecord, Fails, SwapWho, Verify, RestoreCreds,
     RestoreWho, SaveReadCreds, SaveReadWho, KeepCreds, KeepWho, ReadSlot, ReadLiveCreds, ReadLiveWho, SwapCreds,
     DeleteSlot, Adopt, AdoptCreds, AdoptWho, Answer, MakeSlot, ConsoleLogin, ConsoleWho, Cleanup, ReplyLost
<1> QED
  BY <1>3 DEF TakeLock

\* A switch begins calm, with everything where it is found.
LEMMA TakesSafely ==
  ASSUME LInv, NEW c \in Tasks, TakeLock(c), task[c].kind = "activate"
  PROVE  task'[c].pc \in Switching \ {"torn"} /\ Safe(task[c])'
<1> DEFINE found == {a \in Accounts : Found(a)}
<1>1. DOMAIN task = Tasks /\ DOMAIN task[c] = DOMAIN NewTask /\ left.failures \in Nat /\ task[c].lost = FALSE
  BY DEF LInv, IInv, Sound, Typed, Budgets, TakeLock, At, Before
<1>2. task'[c] = [task[c] EXCEPT !.pc = "activate", !.calm = TRUE, !.found = found, !.had = left.failures]
  BY <1>1 DEF TakeLock
<1>3. UNCHANGED <<dir, registry, valid, left>>
  BY DEF TakeLock
<1> SUFFICES ASSUME NEW t, t = task'[c]
             PROVE  t.pc \in Switching \ {"torn"} /\ Safe(t)'
  OBVIOUS
<1>4. found \subseteq Accounts /\ \A a \in found : Found(a)
  OBVIOUS
<1> HIDE DEF found
<1>5. t.pc = "activate" /\ t.found = found /\ t.had = left.failures /\ t.lost = FALSE
  BY <1>1, <1>2 DEF NewTask
<1>6. \A a \in found : Found(a)'
  BY <1>3, <1>4 DEF Found, Home, Record
<1> QED
  BY <1>1, <1>3, <1>4, <1>5, <1>6 DEF Switching, Safe, Current, Secured, Between, Late, Swapped, Undoing, Saving, Storing

\* Which call a command, or a step beside it, makes a switch.
LEMMA NextNames ==
  ASSUME LInv, [Next]_vars, NEW c \in Tasks
  PROVE  /\ task'[c].kind = "activate" => task'[c].id \in Slots
         /\ lock' = c => task'[c].pc # "new"
         /\ lock' = c /\ lock = c /\ task'[c].kind = "activate" => task[c].kind = "activate"
<1>1. /\ task[c].kind = "activate" => task[c].id \in Slots
      /\ lock = c => task[c].pc # "new"
      /\ DOMAIN task = Tasks /\ \A d \in Tasks : DOMAIN task[d] = DOMAIN NewTask
  BY DEF LInv, SwitchInv, IInv, Sound
<1>2. NewTask.pc = "new" /\ NewTask.kind = None /\ None # "activate"
  BY AccountsAssumption DEF NewTask, Budgets
<1>3. CASE \E d \in Tasks : Works(d)
  <2> PICK d \in Tasks : Works(d)
    BY <1>3
  <2>1. IInv
    BY DEF LInv
  <2>2. CASE Works(c)
    BY <1>1, <1>2, <2>1, <2>2, Names
  <2>3. CASE ~Works(c)
    <3>1. task'[c] = task[c]
      BY <2>1, <2>3, Names
    <3>2. lock' = c => lock = c
      BY <2>3, Holds DEF Works
    <3> QED
      BY <1>1, <3>1, <3>2
  <2> QED
    BY <2>2, <2>3
<1>4. CASE \E d \in Tasks : Begins(d)
  <2> PICK d \in Tasks : Begins(d)
    BY <1>4
  <2>1. PICK kind \in Commands : \E s : Begin(d, kind, s) /\ (kind = "activate" => s \in Slots)
    BY DEF Begins, SaveLive, Activate, RemoveAccount, LoginNew, Commands
  <2> PICK s : Begin(d, kind, s) /\ (kind = "activate" => s \in Slots)
    BY <2>1
  <2>2. CASE c = d
    <3>1. task[c].pc = "new" /\ UNCHANGED lock
      BY <1>2, <2>2 DEF Begin, Fresh
    <3>2. task'[c] = [NewTask EXCEPT !.kind = kind, !.id = s, !.pc = IF kind = "login" THEN "slot" ELSE "lock"]
      BY <1>1, <2>2 DEF Begin
    <3>3. task'[c].kind = kind /\ task'[c].id = s
      BY <3>2 DEF NewTask
    <3> QED
      BY <1>1, <2>1, <3>1, <3>3
  <2>3. CASE c # d
    BY <1>1, <2>3 DEF Begin
  <2> QED
    BY <2>2, <2>3
<1>5. CASE UNCHANGED <<task, lock>>
  BY <1>1, <1>5
<1>6. CASE task' = Disturbed /\ UNCHANGED lock
  <2>1. task'[c] = [task[c] EXCEPT !.calm = FALSE]
    BY <1>6 DEF Disturbed
  <2>2. task'[c].kind = task[c].kind /\ task'[c].id = task[c].id /\ task'[c].pc = task[c].pc
    BY <1>1, <2>1 DEF NewTask
  <2> QED
    BY <1>1, <1>6, <2>2
<1>7. CASE Crash
  <2>1. lock' # c
    BY <1>7, AccountsAssumption DEF Crash, ACrash
  <2>2. task'[c].kind = None
    BY <1>7, <1>2 DEF Crash, ACrash, NewTask
  <2> QED
    BY <1>2, <2>1, <2>2
<1>8. CASE \E d \in Tasks : ForceRefresh(d) \/ Invalidate(d)
  <2> PICK d \in Tasks : ForceRefresh(d) \/ Invalidate(d)
    BY <1>8
  <2>1. UNCHANGED lock
    BY DEF ForceRefresh, Invalidate
  <2>2. CASE c # d
    BY <1>1, <2>1, <2>2 DEF ForceRefresh, Invalidate, Goto
  <2>3. CASE c = d /\ ForceRefresh(d)
    <3>1. task'[c] = [task[c] EXCEPT !.kind = "force", !.pc = "done"]
      BY <1>1, <2>3 DEF ForceRefresh
    <3>2. task'[c].kind = "force" /\ task'[c].pc = "done"
      BY <1>1, <3>1 DEF NewTask
    <3> QED
      BY <3>2
  <2>4. CASE c = d /\ Invalidate(d)
    <3>1. task'[c] = [task[c] EXCEPT !.pc = "done"]
      BY <1>1, <2>4 DEF Invalidate, Goto
    <3>2. task'[c].kind = task[c].kind /\ task'[c].id = task[c].id /\ task'[c].pc = "done"
      BY <1>1, <3>1 DEF NewTask
    <3> QED
      BY <1>1, <3>2
  <2> QED
    BY <2>2, <2>3, <2>4
<1>9. CASE Outside \/ \E p \in Pollers : Cycles(p)
  <2>1. UNCHANGED lock /\ (task' = Disturbed \/ UNCHANGED task)
    BY <1>9 DEF Outside, SessionStarts, SessionRefreshes, SessionEnds, OutsideIdentity, DistroTurns, OutsideToken,
       Cycles, StartCycle, OfflineSection, ReadLive, ReadRecords, NextCard,
       SectionBuilt, Stamp, EndCycle, ReadToken, RefreshAsk, RefreshKeep, Reread, FetchUsage, avars
  <2> QED
    BY <1>5, <1>6, <2>1
<1>10. CASE Tick \/ IntervalPasses \/ CooldownPasses \/ (\E d \in Tasks : GiveUp(d)) \/ UNCHANGED vars
  <2>1. UNCHANGED <<task, lock>>
    BY <1>10 DEF Tick, IntervalPasses, CooldownPasses, GiveUp, avars, vars
  <2> QED
    BY <1>5, <2>1
<1> QED
  BY <1>3, <1>4, <1>7, <1>8, <1>9, <1>10 DEF Next, ANext

\* A step keeps a switch safe, as long as nobody disturbs it and one read or write of it fails
\* at most.
LEMMA NextSwitchInv ==
  ASSUME LInv, Typed', [Next]_vars
  PROVE  SwitchInv'
<1>1. ASSUME NEW c \in Tasks, Switches(c)'
      PROVE  /\ task'[c].pc \in Switching /\ (task'[c].pc = "torn" => task'[c].torn)
             /\ task'[c].calm /\ ~task'[c].torn => Safe(task[c])'
  <2>1. CASE lock # c
    <3>1. TakeLock(c) /\ lock' = c
      BY <1>1, <2>1, Holds DEF Switches
    <3>2. task[c].kind = "activate"
      <4>1. task'[c].kind = "activate" /\ None # "activate"
        BY <1>1, AccountsAssumption DEF Switches, Budgets
      <4> QED
        BY <3>1, <4>1, Names DEF LInv, Works
    <3> QED
      BY <3>1, <3>2, TakesSafely
  <2>2. CASE lock = c
    <3>1. /\ Switches(c) /\ lock' = c /\ task[c].pc \in Switching /\ (task[c].pc = "torn" => task[c].torn)
          /\ task[c].calm /\ ~task[c].torn => Safe(task[c])
      BY <1>1, <2>2, NextNames DEF Switches, LInv, SwitchInv
    <3>2. CASE Aside(c)
      BY <3>1, <3>2, Undisturbed DEF Aside
    <3>3. CASE task' = Disturbed
      <4>1. task'[c] = [task[c] EXCEPT !.calm = FALSE] /\ DOMAIN task[c] = DOMAIN NewTask
        BY <3>3 DEF Disturbed, LInv, IInv, Sound
      <4>2. task'[c].calm = FALSE /\ task'[c].pc = task[c].pc /\ task'[c].torn = task[c].torn
        BY <4>1 DEF NewTask
      <4> QED
        BY <3>1, <4>2
    <3>4. CASE Begins(c) \/ Works(c)
      <4>1. CASE ReplyLost(c)
        BY <3>1, <4>1, ReplyLostSafe
      <4>2. CASE (online /\ Reading(c)) \/ Saves(c) \/ Swapping(c) \/ Fails(c)
        <5>1. task'[c].pc \in Switching \ {"torn"} /\ task'[c].calm = task[c].calm /\ task'[c].torn = task[c].torn
          BY <3>1, <4>2, OwnWalk
        <5>2. ~Fails(c)
          BY <3>1, Frees DEF Fails
        <5>3. task[c].calm /\ ~task[c].torn => Safe(task[c])'
          BY <3>1, <4>2, <5>2, ReadingSafe, SavesSafe, SwappingSafe
        <5> QED
          BY <5>1, <5>3
      <4> QED
        BY <3>1, <3>4, <4>1, <4>2, OwnSteps
    <3>5. CASE UNCHANGED vars
      <4>1. UNCHANGED <<dir, registry, lock, task, valid, online, left>>
        BY <3>5 DEF vars, avars
      <4>2. left.failures \in Nat
        BY DEF LInv, Typed, Budgets
      <4>3. Aside(c)
        BY <4>1, <4>2 DEF Aside
      <4> QED
        BY <3>2, <4>3
    <3>6. ~Crash
      BY <3>1, AccountsAssumption DEF Crash, ACrash
    <3>7. CASE \E d \in Tasks : d # c /\ (Begins(d) \/ Works(d))
      BY <3>1, <3>2, <3>7, OthersAside
    <3>8. CASE \/ Outside \/ Tick \/ IntervalPasses \/ CooldownPasses
               \/ \E d \in Tasks : ForceRefresh(d) \/ Invalidate(d) \/ GiveUp(d)
               \/ \E p \in Pollers : Cycles(p)
      BY <3>1, <3>2, <3>3, <3>8, WorldAside
    <3> QED
      BY <3>4, <3>5, <3>6, <3>7, <3>8 DEF Next, ANext
  <2> QED
    BY <2>1, <2>2
<1> QED
  BY <1>1, NextNames DEF SwitchInv, Switches

\* In the beginning a slot is its record's, and nobody calls.
LEMMA InitSwitch == Init => WhoFits /\ SwitchInv
<1> SUFFICES ASSUME Init PROVE WhoFits /\ SwitchInv
  OBVIOUS
<1>1. task = [c \in Tasks |-> NewTask] /\ lock = None
  BY DEF Init, AInit
<1>2. NewTask.kind = None /\ None # "activate" /\ None \notin Tasks
  BY AccountsAssumption DEF NewTask, Budgets
<1> DEFINE saved == CHOOSE s \in Slots : TRUE
<1>3. PICK a \in Accounts \cup {None}, b \in IF left.saved > 0 THEN Accounts ELSE {None} :
         /\ dir = [d \in Dirs |-> First(IF d = "live" THEN a ELSE IF d = saved THEN b ELSE None)]
         /\ registry = [s \in Slots |-> IF s = saved THEN b ELSE None]
  BY DEF Init, AInit
<1> HIDE DEF saved
<1>4. \A x : First(x).who = x
  BY DEF First, NoDir
<1>5. \A s \in Slots : registry[s] # None => dir[s].who = registry[s]
  BY <1>3, <1>4, AccountsAssumption DEF Dirs
<1> QED
  BY <1>1, <1>2, <1>5 DEF WhoFits, SwitchInv, Switches

\* What a switch does when it lets go of the lock.
LEMMA LosesNothing ==
  ASSUME LInv, Typed', [Next]_vars, NEW c \in Tasks
  PROVE  LosesNone(c)
<1> SUFFICES ASSUME Switches(c), lock' # c, task'[c].pc # "crashed", task[c].calm, ~task[c].torn
             PROVE  Leaves(c)
  BY DEF LosesNone, Leaves, Switches, InSwitch
<1>1. task[c].pc \in Switching /\ lock = c
  BY DEF LInv, SwitchInv, Switches
<1>2. ~Aside(c) /\ ~UNCHANGED lock
  BY <1>1 DEF Aside
<1>3. CASE Begins(c) \/ Works(c)
  <2>1. (online /\ Reading(c)) \/ Saves(c) \/ Swapping(c) \/ Fails(c) \/ ReplyLost(c)
    BY <1>3, OwnSteps
  <2> QED
    BY <2>1, ReadingSafe, SavesSafe, SwappingSafe, FailsSafe, ReplyLostSafe
<1>4. ~Crash
  <2>1. task[c].pc # "new"
    BY <1>1 DEF Switching, Saving, Swapped, Undoing
  <2>2. NewTask.pc = "new"
    BY DEF NewTask
  <2>3. Crash => task'[c] = [NewTask EXCEPT !.pc = "crashed"]
    BY <2>1, <2>2 DEF Crash, ACrash, At
  <2> QED
    BY <2>3 DEF NewTask
<1>5. ~UNCHANGED vars
  BY <1>2 DEF vars, avars
<1>6. \A d \in Tasks : d # c => ~Begins(d) /\ ~Works(d)
  BY <1>2, OthersAside
<1>7. ~(\/ Outside \/ Tick \/ IntervalPasses \/ CooldownPasses
        \/ \E d \in Tasks : ForceRefresh(d) \/ Invalidate(d) \/ GiveUp(d)
        \/ \E p \in Pollers : Cycles(p))
  BY <1>2, WorldAside
<1> QED
  BY <1>3, <1>4, <1>5, <1>6, <1>7 DEF Next, ANext

\* Switching loses nobody's login, whatever else runs and whoever holds what: an account with
\* a usable token where it is looked for when an undisturbed switch got the lock has one when
\* the switch lets go of it, as long as one read or write of the call failed at most.  When
\* that was the read of the registry, only the two accounts of the switch are promised theirs;
\* when it was a write of the live login that was done all the same, nobody is.
THEOREM SwitchesKeepTokens == Spec => SwitchKeepsTokens
<1>1. Init => LInv
  BY InitInv, InitWhole, InitSwitch DEF LInv
<1>2. LInv /\ [Next]_vars => LInv' /\ Typed'
  <2> SUFFICES ASSUME LInv, [Next]_vars
               PROVE  LInv' /\ Typed'
    OBVIOUS
  <2>1. IInv' /\ Typed' /\ WInv'
    BY NextInv, NextWhole DEF LInv
  <2>2. WhoFits'
    BY NextWhoFits DEF LInv
  <2>3. SwitchInv'
    BY <2>1, NextSwitchInv
  <2> QED
    BY <2>1, <2>2, <2>3 DEF LInv
<1>3. LInv /\ [Next]_vars => [\A c \in Tasks : LosesNone(c)]_avars
  BY <1>2, LosesNothing
<1> QED
  BY <1>1, <1>2, <1>3, PTL DEF Spec, SwitchKeepsTokens
=============================================================================
