----------------------------- MODULE SessionLaws -----------------------------
(***************************************************************************)
(* What the history of a session may look like, stated on the list of events*)
(* alone.  The decisions of Session.tla are taken one at a time against the *)
(* state at that moment; these laws are the reference they must add up to,  *)
(* whoever wrote the events and in whatever order the writers raced.        *)
(***************************************************************************)
EXTENDS Session

OfType(log, types) == {i \in DOMAIN log : log[i].type \in types}

TurnEnds   == {"TurnCompleted", "TurnFailed", "TurnInterrupted"}
TurnEvents == TurnEnds \cup {"TurnAssistantBlockAppended"}

\* A session starts once, with its first event.
StartsOnce(log) == OfType(log, {"SessionStarted"}) = IF log = <<>> THEN {} ELSE {1}

\* Nothing follows its deletion.
DeletionIsLast(log) == OfType(log, {"SessionDeleted"}) \subseteq {Len(log)}

\* Between two stops there is a resume, and before every resume there is a stop
\* that no earlier resume has answered.
StopsAlternate(log) ==
    LET stops   == OfType(log, {"SessionStopped"})
        resumes == OfType(log, {"SessionResumed"})
    IN /\ \A i, j \in stops : i < j => \E k \in resumes : i < k /\ k < j
       /\ \A j \in resumes : \E i \in stops :
              i < j /\ \A k \in resumes : k < j => k < i

\* A session is resumed only once its provider has told its id.
ResumesHaveProvider(log) ==
    \A j \in OfType(log, {"SessionResumed"}) :
        \E i \in OfType(log, {"ProviderSessionAttached"}) : i < j

\* Turns have distinct ids, and none starts while the session is stopped.
TurnsStartOnce(log) ==
    LET starts == OfType(log, {"TurnStarted"})
    IN \A i, j \in starts : log[i].turn = log[j].turn => i = j

NoTurnWhileStopped(log) ==
    \A j \in OfType(log, {"TurnStarted"}), i \in OfType(log, {"SessionStopped"}) :
        i < j => \E k \in OfType(log, {"SessionResumed"}) : i < k /\ k < j

\* What happens to a turn follows its start, and neither text nor completion
\* follows its end.
TurnsAreAnswered(log) ==
    \A j \in OfType(log, TurnEvents) :
        /\ \E i \in OfType(log, {"TurnStarted"}) : i < j /\ log[i].turn = log[j].turn
        /\ log[j].type \in {"TurnAssistantBlockAppended", "TurnCompleted"} =>
               \A i \in OfType(log, TurnEnds) : log[i].turn = log[j].turn => i >= j

Lawful(log) ==
    /\ StartsOnce(log)
    /\ DeletionIsLast(log)
    /\ StopsAlternate(log)
    /\ ResumesHaveProvider(log)
    /\ TurnsStartOnce(log)
    /\ NoTurnWhileStopped(log)
    /\ TurnsAreAnswered(log)

\* The first n numbers of a list, added up.
Total(n, numbers) ==
    LET total[i \in 0..n] == IF i = 0 THEN 0 ELSE total[i - 1] + numbers[i] IN total[n]

\* How much the blocks of a turn hold, and how much was appended to it.
Held(blocks) == Total(Len(blocks), [k \in DOMAIN blocks |-> blocks[k].size])
SizeFor(t, e) ==
    IF e.type = "TurnAssistantBlockAppended" /\ e.turn = t THEN e.block.size ELSE 0
AppendedTo(log, t) == Total(Len(log), [j \in DOMAIN log |-> SizeFor(t, log[j])])
\* No text block follows another.
Glued(blocks) ==
    \A k \in 2..Len(blocks) : ~(blocks[k].kind = "text" /\ blocks[k - 1].kind = "text")

\* merge_block loses nothing and glues what it should: the blocks of a turn hold as
\* much as was appended to it, and no text block follows another.
Coalesced(log, s) ==
    s # Absent => \A i \in DOMAIN s.turns :
        Held(s.turns[i].blocks) = AppendedTo(log, s.turns[i].id) /\ Glued(s.turns[i].blocks)
==============================================================================
