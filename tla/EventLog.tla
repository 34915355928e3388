------------------------------ MODULE EventLog ------------------------------
(***************************************************************************)
(* What the event store promises to the aggregates: one log per aggregate,  *)
(* which starts empty and to whose end batches are added.  A batch goes to  *)
(* one aggregate and becomes visible as a whole; nothing that was logged    *)
(* changes or moves.                                                        *)
(***************************************************************************)
EXTENDS Naturals, Sequences

CONSTANT Aggregates

VARIABLE log      \* log[a]: the events of aggregate a, by version

Init == log = [a \in Aggregates |-> <<>>]

Extends(longer, shorter) ==
    /\ Len(longer) > Len(shorter)
    /\ \A i \in 1..Len(shorter) : longer[i] = shorter[i]

AppendBatch(a) ==
    /\ Extends(log'[a], log[a])
    /\ \A b \in Aggregates \ {a} : log'[b] = log[b]

Next == \E a \in Aggregates : AppendBatch(a)

Spec == Init /\ [][Next]_log
==============================================================================
