----------------------------- MODULE EventStore -----------------------------
(***************************************************************************)
(* The event store (apps/desktop/src/infra/event_store.rs): the `events`    *)
(* table with its key (aggregate, aggregate_id, version), and the writers   *)
(* that share it.                                                           *)
(*                                                                         *)
(* The rows of one aggregate are a function from versions to events: the    *)
(* UNIQUE key allows one event per version, and nothing in the table keeps  *)
(* versions contiguous.  That every log is gap free, and that no writer     *)
(* overwrites what it has not seen, rests on the writers: each expects the  *)
(* version it loaded, or the one its own last append returned.              *)
(*                                                                         *)
(* A writer is a command handler (load, append once) or an event pump (load,*)
(* then append again and again at the version it holds, until a conflict).  *)
(* The connection is behind a mutex and append is one transaction, so each  *)
(* call is one step; a crash inside one rolls it back.                      *)
(***************************************************************************)
EXTENDS Integers, Sequences

CONSTANTS
    Aggregates,     \* aggregate instances, of any kind
    Events,         \* event payloads
    Writers,        \* tasks that load and append
    MaxVersion      \* bound on the versions TLC explores

ASSUME EventStoreAssumption == MaxVersion \in Nat

VARIABLES
    table,          \* table[a]: the rows of aggregate a, version -> event
    writer          \* what each writer holds: an aggregate, the rows it has
                    \* seen, and the version it will expect; or nothing

vars == <<table, writer>>

NoRows == <<>>
Idle   == [pc |-> "idle"]

\* `SELECT ... ORDER BY version` and the version of the last row, 0 without rows.
Versions(rows) == DOMAIN rows
HeadVersion(rows) ==
    IF Versions(rows) = {} THEN 0
    ELSE CHOOSE v \in Versions(rows) : \A u \in Versions(rows) : u <= v

\* The versions a batch of n events takes, and the rows with the batch in them.
BatchVersions(expected, n) == (expected + 1)..(expected + n)
Inserted(rows, expected, batch) ==
    [v \in Versions(rows) \cup BatchVersions(expected, Len(batch)) |->
        IF v \in Versions(rows) THEN rows[v] ELSE batch[v - expected]]
\* Mutant of Conflicts: only the last version of the batch is looked up.
ConflictsAtEnd(rows, expected, batch) == expected + Len(batch) \in Versions(rows)

Conflicts(rows, expected, batch) ==
    BatchVersions(expected, Len(batch)) \cap Versions(rows) # {}

Init ==
    /\ table = [a \in Aggregates |-> NoRows]
    /\ writer = [w \in Writers |-> Idle]

\* load: the rows of an aggregate, as they are now.
Load(w, a) ==
    /\ writer[w] = Idle
    /\ writer' = [writer EXCEPT ![w] =
           [pc |-> "loaded", agg |-> a, seen |-> table[a],
            expected |-> HeadVersion(table[a])]]
    /\ UNCHANGED table

\* start_session and its like do not load: a new aggregate has no rows.
Create(w, a) ==
    /\ writer[w] = Idle
    /\ writer' = [writer EXCEPT ![w] =
           [pc |-> "loaded", agg |-> a, seen |-> NoRows, expected |-> 0]]
    /\ UNCHANGED table

\* Mutant of AppendEvents: INSERT OR REPLACE, which never conflicts.
AppendReplaces(w, batch, keeps) ==
    LET r == writer[w]
        replaced == [v \in Versions(table[r.agg]) \cup BatchVersions(r.expected, Len(batch)) |->
                        IF v > r.expected /\ v <= r.expected + Len(batch)
                        THEN batch[v - r.expected] ELSE table[r.agg][v]]
    IN /\ r # Idle /\ batch # <<>>
       /\ r.expected + Len(batch) <= MaxVersion
       /\ table' = [table EXCEPT ![r.agg] = replaced]
       /\ writer' = [writer EXCEPT ![w] = Idle]

\* append without a conflict.  The writer keeps what it now knows the aggregate
\* to hold (a pump), or returns (a handler).
AppendEvents(w, batch, keeps) ==
    LET r == writer[w]
    IN /\ r # Idle /\ batch # <<>>
       /\ r.expected + Len(batch) <= MaxVersion
       /\ ~Conflicts(table[r.agg], r.expected, batch)
       /\ table' = [table EXCEPT ![r.agg] = Inserted(@, r.expected, batch)]
       /\ writer' = [writer EXCEPT ![w] =
              IF keeps
              THEN [r EXCEPT !.seen = Inserted(@, r.expected, batch),
                             !.expected = @ + Len(batch)]
              ELSE Idle]

\* append with a conflict: the whole batch is rolled back, the error returned,
\* and what the writer held is dropped.
AppendConflicts(w, batch) ==
    LET r == writer[w]
    IN /\ r # Idle /\ batch # <<>>
       /\ Conflicts(table[r.agg], r.expected, batch)
       /\ writer' = [writer EXCEPT ![w] = Idle]
       /\ UNCHANGED table

\* A writer is done: a handler decided nothing, a pump's stream ended, or the
\* application crashed under it.
Release(w) ==
    /\ writer[w] # Idle
    /\ writer' = [writer EXCEPT ![w] = Idle]
    /\ UNCHANGED table

Batches == {<<e>> : e \in Events} \cup {<<e, f>> : e, f \in Events}

Next ==
    \E w \in Writers :
        \/ \E a \in Aggregates : Load(w, a) \/ Create(w, a)
        \/ \E batch \in Batches, keeps \in BOOLEAN : AppendEvents(w, batch, keeps)
        \/ \E batch \in Batches : AppendConflicts(w, batch)
        \/ Release(w)

Spec == Init /\ [][Next]_vars

------------------------------------------------------------------------------
(* Properties. *)

\* What a writer holds.
Held == [pc : {"loaded"}, agg : Aggregates, seen : Seq(Events), expected : Nat]

\* Type invariant; a log that is a sequence has versions 1, 2, ... without gaps.
TypeOK ==
    /\ DOMAIN table = Aggregates
    /\ \A a \in Aggregates : Versions(table[a]) = 1..HeadVersion(table[a])
    /\ table \in [Aggregates -> Seq(Events)]
    /\ writer \in [Writers -> Held \cup {Idle}]

\* The version a writer expects is never ahead of the table, and what it has seen
\* is what the table held up to that version: a batch that does not conflict goes
\* right after the last row, and a batch decided on old rows conflicts.
SeenIsPrefix ==
    \A w \in Writers : writer[w] # Idle =>
        LET r == writer[w]
        IN /\ r.expected = Len(r.seen)
           /\ r.expected <= Len(table[r.agg])
           /\ \A v \in 1..r.expected : r.seen[v] = table[r.agg][v]

\* No lost update: an aggregate only changes by a writer that has seen all of it.
AppendSeesAll ==
    [][\A a \in Aggregates : table'[a] # table[a] =>
           \E w \in Writers : /\ writer[w] # Idle /\ writer[w].agg = a
                              /\ writer[w].seen = table[a]
                              /\ writer'[w] # writer[w]]_vars

\* The table implements the abstract log.
Log == INSTANCE EventLog WITH log <- table
ImplementsLog == Log!Spec
==============================================================================
