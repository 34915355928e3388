------------------------------- MODULE Dotenv -------------------------------
(***************************************************************************)
(* Merging dotenv files (crates/oxyris-git/src/dotenv.rs).  A file is the   *)
(* sequence of its assignments, its comments and blank lines left out.  The *)
(* value of an assignment is a literal, or a reference to a variable with   *)
(* or without a fallback.                                                   *)
(***************************************************************************)
EXTENDS Naturals, Sequences, TLC

CONSTANT Unset      \* no variable, no fallback, no text

Line(key, val) == [key |-> key, val |-> val]
Literal(text) == [text |-> text, var |-> Unset, fallback |-> Unset]
Reference(var, fallback) == [text |-> Unset, var |-> var, fallback |-> fallback]

Defines(lines, key) == \E i \in DOMAIN lines : lines[i].key = key
IsFirst(lines, i) == \A j \in 1..(i - 1) : lines[j].key # lines[i].key
Once(lines, key) ==
    \A i, j \in DOMAIN lines : lines[i].key = key /\ lines[j].key = key => i = j
\* What a program that reads the file gets: the last assignment counts.
Effective(lines, key) ==
    LET i == CHOOSE j \in DOMAIN lines :
                 /\ lines[j].key = key
                 /\ \A k \in DOMAIN lines : lines[k].key = key => k <= j
    IN lines[i].val

\* The lines of the overlay whose key the base does not have, in their order.
Added(base, overlay) ==
    LET copied[i \in 0..Len(overlay)] ==
            IF i = 0 THEN <<>>
            ELSE IF Defines(base, overlay[i].key) THEN copied[i - 1]
            ELSE Append(copied[i - 1], overlay[i])
    IN copied[Len(overlay)]

\* Mutant of Merged: a key that is there keeps its value.
MergedKeeping(base, overlay) == base \o Added(base, overlay)

\* merge: `set` overwrites the first assignment of a key that is there, once for
\* every assignment of the overlay; the keys only the overlay has follow.
Merged(base, overlay) ==
    [i \in DOMAIN base |->
        IF IsFirst(base, i) /\ Defines(overlay, base[i].key)
        THEN Line(base[i].key, Effective(overlay, base[i].key))
        ELSE base[i]]
    \o Added(base, overlay)

\* resolve_token: a fallback also stands in for an empty value; an unknown variable
\* without one stays as it is written.
Resolved(val, vars) ==
    IF val.var = Unset THEN val
    ELSE IF val.var \in DOMAIN vars /\ (vars[val.var] # "" \/ val.fallback = Unset)
         THEN Literal(vars[val.var])
    ELSE IF val.fallback # Unset THEN Literal(val.fallback)
    ELSE val

Substituted(lines, vars) ==
    [i \in DOMAIN lines |-> Line(lines[i].key, Resolved(lines[i].val, vars))]
==============================================================================
