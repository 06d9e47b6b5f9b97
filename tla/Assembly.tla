------------------------------ MODULE Assembly ------------------------------
(***************************************************************************)
(* The COMBINE operator: one logical record per ID is assembled from an    *)
(* anchor source, required contributors, optional contributors and at most *)
(* one vector store (execution/operators/combine.py and scan.py).          *)
(*                                                                         *)
(* Every source is a live database that other programs keep writing to.    *)
(* One SQL statement sees one state of one source; nothing makes two       *)
(* statements see the same moment.  db is the current content of the       *)
(* sources (the rows that pass each source's pushed filter) and was keeps  *)
(* every row a source has held under an ID since the assembly began, so    *)
(* that the answer can be compared with what the sources really held.      *)
(*                                                                         *)
(* The read order and the restrict flags belong to the plan; here each     *)
(* step picks the next source, so that one model covers every schedule the *)
(* fixed rule, the optimizer and the tests hand to the executor.           *)
(***************************************************************************)
EXTENDS Integers, FiniteSets

CONSTANTS
    Ids,            \* logical IDs
    Vals,           \* row contents
    Bare,           \*   those of a searched row that has no embedding
    Absent,         \* "this source has no row for the ID"
    Anchor,         \* the identity source
    Required,       \* contributors with a pushed filter
    Optional,       \* contributors that only enrich
    Store,          \* the vector store: {} or one source
    Ranked,         \* TRUE when the anchor read itself is the vector search
    Distance,       \* distance of an ID to the query vector
    K,              \* size of the vector shortlist
    Keyed,          \* the sources that accept a key restriction
    Bound,          \* largest ID set one restricted read of a source carries
    MaxBatches,     \* maximum_key_batches
    MaxRows,        \* the row guard of an unranked read, by source
    MaxWrites,      \* bound on the writes of other programs
    NoSource,       \* "no batched read in progress"
    NoRecord        \* "the answer holds no record for the ID"

Sources   == {Anchor} \cup Required \cup Optional \cup Store
Narrowing == {Anchor} \cup Required \cup Store
Fields    == {Anchor} \cup Required \cup Optional
Rows      == Vals \cup {Absent}

\* Only the source that may be searched has a vector column.
Vectored  == Store \cup (IF Ranked THEN {Anchor} ELSE {})
RowsIn(s) == IF s \in Vectored THEN Rows ELSE Rows \ Bare

ASSUME SourcesAssumption ==
    /\ Anchor \notin Required \cup Optional \cup Store
    /\ Required \cap Optional = {}
    /\ Store \cap (Required \cup Optional) = {}
    /\ NoSource \notin Sources
    /\ Keyed \subseteq Sources
    /\ IsFiniteSet(Sources)

ASSUME DataAssumption ==
    /\ Absent \notin Vals
    /\ Bare \subseteq Vals
    /\ NoRecord \notin [Fields -> Rows]
    /\ IsFiniteSet(Ids)

\* (A query has at most one vector search: of its anchor, or of a store.)
ASSUME BoundsAssumption ==
    /\ Ranked \in BOOLEAN
    /\ Ranked => Store = {}
    /\ Distance \in [Ids -> Nat]
    /\ \A i, j \in Ids : Distance[i] = Distance[j] => i = j
    /\ K \in Nat \ {0}
    /\ Bound \in [Sources -> Nat]
    /\ MaxBatches \in Nat \ {0}
    /\ MaxRows \in [Sources -> Nat]
    /\ MaxWrites \in Nat

VARIABLES
    db,         \* db[s][i]: the row source s holds for ID i now, if any
    was,        \* was[s][i]: every row s has held for i since the start
    writes,     \* how many writes happened
    done,       \* the sources whose step is over
    cur,        \* the source whose batched read is in progress
    pending,    \* the IDs that read has still to send
    learned,    \* some narrowing source has been read (keys is not None)
    keys,       \* the IDs every narrowing source read so far has returned
    got,        \* got[s][i]: the row the executor received from s for i
    fell_back,  \* a ranked anchor read was replaced by a plain one
    actuals,    \* scan_actuals: what unrestricted reads teach the statistics
    outcome,    \* "running", "answered" or "failed"
    answer      \* answer[i]: the record returned for i, or NoRecord

vars == <<db, was, writes, done, cur, pending, learned, keys, got, fell_back,
          actuals, outcome, answer>>

-----------------------------------------------------------------------------
(* What one statement returns.                                             *)

\* The rows of source s that pass its filter, by ID.
Held(s) == {i \in Ids : db[s][i] # Absent}

\* (mutant: the ranking is sorted the wrong way round)
Farthest(n, S) == {i \in S : Cardinality({j \in S : Distance[j] > Distance[i]}) < n}

\* The n nearest IDs of a set (ORDER BY distance LIMIT n).
Nearest(n, S) == {i \in S : Cardinality({j \in S : Distance[j] < Distance[i]}) < n}

RowIds(s) == {i \in Ids : got[s][i] # Absent}

\* _can_restrict: an ID set this small fits one restricted read of s.
Fits(s) == /\ learned
           /\ s \in Keyed
           /\ Cardinality(keys) <= Bound[s]

\* A larger set that can still be sent in at most MaxBatches reads.
FitsInBatches(s) == /\ learned
                    /\ s \in Keyed
                    /\ Bound[s] > 0
                    /\ Cardinality(keys) > Bound[s]
                    /\ Cardinality(keys) <= Bound[s] * MaxBatches

\* (mutant: the required contributors still to come are forgotten)
SafeTooEarly(restrict) == done \cap Required = {} \/ (restrict /\ Fits(Anchor))

\* A ranked anchor read is safe once every required contributor narrowed it.
Safe(restrict) == /\ Required \subseteq done
                  /\ Required = {} \/ (restrict /\ Fits(Anchor))

\* The scan of s carries a vector search when it runs.
Searches(s, restrict) == \/ s \in Store
                         \/ s = Anchor /\ Ranked /\ Safe(restrict)

\* The rows of source s that have an embedding.
Embedded(s) == {i \in Ids : db[s][i] \notin Bare}

\* What a statement over the IDs in found returns: a search ranks those with an
\* embedding and keeps the nearest.
Taken(s, search, found) ==
    IF search THEN Nearest(K, found \cap Embedded(s)) ELSE found

\* The rows exceed the guard of an unranked read of s.
Overflows(s, r) == Cardinality({i \in Ids : r[i] # Absent}) > MaxRows[s]

\* (mutant: each batch is guarded for itself)
EachWithinGuard(s, batch, r) ==
    ~Overflows(s, [i \in Ids |-> IF i \in batch THEN r[i] ELSE Absent])

\* The rows of all batches so far, r, are within the guard.
AllWithinGuard(s, batch, r) == ~Overflows(s, r)

\* (mutant: a read restricted by keys is taken for a full one)
TeachesRestricted(search, within) == ~search

\* A read that is neither limited, ranked nor restricted teaches the statistics.
Teaches(search, within) == ~search /\ ~within

\* The order the planner gives: the vector store is read after every required
\* contributor and before the anchor.  Everything else may come in any order.
Scheduled(s) == /\ s \notin done
                /\ s \in Store => Required \subseteq done
                /\ s = Anchor => Store \subseteq done

-----------------------------------------------------------------------------
(* The executor.                                                           *)

\* (mutant: an ID its required contributors did not return is kept)
LeftRecord(g, i) == IF g[Anchor][i] # Absent THEN [s \in Fields |-> g[s][i]] ELSE NoRecord

\* The record of ID i: the anchor's row enriched with the contributors' rows,
\* kept only when every required contributor and the shortlist returned it.
Record(g, i) == IF \A s \in Narrowing : g[s][i] # Absent
                THEN [s \in Fields |-> g[s][i]]
                ELSE NoRecord

NoAnswer == [i \in Ids |-> NoRecord]

\* (mutant: an enricher narrows the learned IDs too)
EndStepAlwaysNarrows(s, r) ==
    LET ids == {i \in Ids : r[i] # Absent}
    IN  /\ got' = [got EXCEPT ![s] = r]
        /\ done' = done \cup {s}
        /\ cur' = NoSource
        /\ pending' = {}
        /\ learned' = TRUE
        /\ keys' = IF learned THEN keys \cap ids ELSE ids
        /\ outcome' = IF keys' = {} THEN "answered" ELSE outcome
        /\ UNCHANGED answer

\* What follows the read of source s, whose rows are now r.
EndStep(s, r) ==
    LET ids == {i \in Ids : r[i] # Absent}
    IN  /\ got' = [got EXCEPT ![s] = r]
        /\ done' = done \cup {s}
        /\ cur' = NoSource
        /\ pending' = {}
        /\ IF s \in Narrowing
           THEN /\ learned' = TRUE
                /\ keys' = IF learned THEN keys \cap ids ELSE ids
           ELSE UNCHANGED <<learned, keys>>
        /\ outcome' = IF s \in Narrowing /\ keys' = {} THEN "answered" ELSE outcome
        /\ UNCHANGED answer

\* (mutant: a failed query hands over the records put together so far)
FailWithParts == /\ outcome' = "failed"
                 /\ answer' = [i \in Ids |-> Record(got, i)]
                 /\ UNCHANGED <<done, cur, pending, learned, keys, got>>

\* The query ends without an answer.
FailWith == /\ outcome' = "failed"
            /\ UNCHANGED <<done, cur, pending, learned, keys, got, answer>>

\* One statement of source s returns the rows of the IDs in S.
RowsOf(s, S) == [i \in Ids |-> IF i \in S THEN db[s][i] ELSE Absent]

\* A step that takes one statement: restricted by the learned IDs when they
\* fit, else over the whole source.  A search returns its K nearest rows; any
\* other read has a row guard, and teaches the statistics when unrestricted.
ReadOnce(s, restrict) ==
    LET search == Searches(s, restrict)
        within == restrict /\ Fits(s)
        found  == IF within THEN Held(s) \cap keys ELSE Held(s)
        r      == RowsOf(s, Taken(s, search, found))
    IN  /\ outcome = "running" /\ cur = NoSource
        /\ Scheduled(s)
        /\ restrict /\ FitsInBatches(s) => search
        /\ fell_back' = (fell_back \/ (s = Anchor /\ Ranked /\ ~search))
        /\ IF ~search /\ Overflows(s, r)
           THEN FailWith /\ UNCHANGED actuals
           ELSE /\ EndStep(s, r)
                /\ actuals' = IF Teaches(search, within)
                              THEN actuals \cup {<<s, Cardinality({i \in Ids : r[i] # Absent})>>}
                              ELSE actuals
        /\ UNCHANGED <<db, was, writes>>

\* A plain read whose IDs are sent in several disjoint batches.
StartBatches(s) ==
    /\ outcome = "running" /\ cur = NoSource
    /\ Scheduled(s)
    /\ FitsInBatches(s) /\ ~Searches(s, TRUE)
    /\ cur' = s
    /\ pending' = keys
    /\ fell_back' = (fell_back \/ (s = Anchor /\ Ranked))
    /\ UNCHANGED <<db, was, writes, done, learned, keys, got, actuals, outcome, answer>>

\* The next batch: as many of the pending IDs as one read carries.  The rows
\* are added to those of the earlier batches and guarded together.
ReadBatch(batch) ==
    LET r == [i \in Ids |-> IF i \in batch THEN db[cur][i] ELSE got[cur][i]]
    IN  /\ outcome = "running" /\ cur # NoSource
        /\ batch \subseteq pending
        /\ \/ Cardinality(batch) = Bound[cur]
           \/ batch = pending /\ Cardinality(batch) <= Bound[cur]
        /\ IF ~AllWithinGuard(cur, batch, r)
           THEN FailWith
           ELSE IF pending = batch
                THEN EndStep(cur, r)
                ELSE /\ got' = [got EXCEPT ![cur] = r]
                     /\ pending' = pending \ batch
                     /\ UNCHANGED <<done, cur, learned, keys, outcome, answer>>
        /\ UNCHANGED <<db, was, writes, fell_back, actuals>>

\* A read fails: the driver, the pool, the time limit, a missing or a
\* duplicated ID.  The query ends without an answer.
ReadFails ==
    /\ outcome = "running"
    /\ cur # NoSource \/ done # Sources
    /\ FailWith
    /\ UNCHANGED <<db, was, writes, fell_back, actuals>>

\* Every source has been read: put the records together.
Assemble ==
    /\ outcome = "running" /\ cur = NoSource /\ done = Sources
    /\ answer' = [i \in Ids |-> Record(got, i)]
    /\ outcome' = "answered"
    /\ UNCHANGED <<db, was, writes, done, cur, pending, learned, keys, got,
                   fell_back, actuals>>

\* Another program changes, adds or removes the row of an ID.
Write(s, i, v) ==
    /\ outcome = "running" /\ writes < MaxWrites
    /\ v \in RowsIn(s) \ {db[s][i]}
    /\ db' = [db EXCEPT ![s][i] = v]
    /\ was' = [was EXCEPT ![s][i] = @ \cup {v}]
    /\ writes' = writes + 1
    /\ UNCHANGED <<done, cur, pending, learned, keys, got, fell_back,
                   actuals, outcome, answer>>

Init ==
    /\ db \in {d \in [Sources -> [Ids -> Rows]] : \A s \in Sources : d[s] \in [Ids -> RowsIn(s)]}
    /\ was = [s \in Sources |-> [i \in Ids |-> {db[s][i]}]]
    /\ writes = 0
    /\ done = {} /\ cur = NoSource /\ pending = {}
    /\ learned = FALSE /\ keys = {}
    /\ got = [s \in Sources |-> [i \in Ids |-> Absent]]
    /\ fell_back = FALSE
    /\ actuals = {}
    /\ outcome = "running"
    /\ answer = NoAnswer

Step == \/ \E s \in Sources, restrict \in BOOLEAN : ReadOnce(s, restrict)
        \/ \E s \in Sources : StartBatches(s)
        \/ \E batch \in SUBSET pending : ReadBatch(batch)
        \/ Assemble

Next == \/ Step
        \/ ReadFails
        \/ \E s \in Sources, i \in Ids, v \in Rows : Write(s, i, v)

Spec == Init /\ [][Next]_vars

-----------------------------------------------------------------------------
(* Properties.                                                             *)

TypeOK ==
    /\ db \in [Sources -> [Ids -> Rows]]
    /\ was \in [Sources -> [Ids -> SUBSET Rows]]
    /\ writes \in Nat
    /\ done \in SUBSET Sources
    /\ cur \in Sources \cup {NoSource}
    /\ pending \in SUBSET Ids
    /\ learned \in BOOLEAN
    /\ keys \in SUBSET Ids
    /\ got \in [Sources -> [Ids -> Rows]]
    /\ fell_back \in BOOLEAN
    /\ actuals \in SUBSET (Sources \X Nat)
    /\ outcome \in {"running", "answered", "failed"}
    /\ answer \in [Ids -> [Fields -> Rows] \cup {NoRecord}]

Returned == {i \in Ids : answer[i] # NoRecord}

\* The sources held a row for i at every moment since the start.
AlwaysHeld(S, i) == \A s \in S : Absent \notin was[s][i]

\* Nothing is invented: each part of a returned record is a row its source
\* held under that ID while the query ran, and the ID passed every narrowing
\* source.  An enricher may only be missing if it really held no row.
AnswerIsSound ==
    outcome = "answered" => \A i \in Returned :
        /\ \A s \in Fields : answer[i][s] \in was[s][i]
        /\ \A s \in Narrowing : was[s][i] # {Absent}
        /\ \A s \in Fields \cap Narrowing : answer[i][s] # Absent

\* Nothing is lost: without a shortlist, whatever is written meanwhile, however
\* the keys travel (whole, in batches, not at all) and in whatever order the
\* sources are read, a record that every narrowing source held throughout is
\* returned.
AnswerIsComplete ==
    outcome = "answered" /\ Store = {} /\ (Ranked => fell_back) =>
        \A i \in Ids : AlwaysHeld(Narrowing, i) => i \in Returned

\* ID i matches and can be ranked: no narrowing source was without it, and the
\* searched one never without its embedding (SQL ranks no row that has none).
Matches(i) == /\ AlwaysHeld(Narrowing, i)
              /\ \A s \in Vectored : was[s][i] \cap Bare = {}

\* A ranked anchor read that was not replaced returns exactly the K nearest of
\* the matching records that have an embedding: the shortlist is never cut before
\* a required match, and a record that cannot be ranked takes nobody's place.
\* (Over sources nobody writes to: otherwise "the matching records" changes.)
ShortlistIsExact ==
    outcome = "answered" /\ Ranked /\ ~fell_back /\ writes = 0 =>
        Returned = Nearest(K, {i \in Ids : Matches(i)})

\* With a shortlist of either kind, no matching record that can be ranked is
\* dropped in favour of a farther one.
NoNearerRecordIsLost ==
    outcome = "answered" /\ (Store # {} \/ Ranked) /\ ~fell_back /\ writes = 0 =>
        \A i \in Returned, j \in Ids :
            Matches(j) /\ Distance[j] < Distance[i] => j \in Returned

\* What the coordinator holds of an unranked source never exceeds its guard: the
\* rows of several batches count together, though each batch is within it.
RowsAreGuarded ==
    \A s \in Sources \ Store : (Ranked /\ s = Anchor => fell_back) =>
        Cardinality(RowIds(s)) <= MaxRows[s]

\* A read teaches the statistics a row count only if that is the number of
\* rows the source's filter passes at that moment: never the size of a
\* restricted, ranked or batched result.
OnlyFullReadsTeach ==
    [][\A a \in actuals' \ actuals : a[2] = Cardinality(Held(a[1]))]_vars

\* Every schedule, with every way the keys travel and every early end, does no
\* more than the abstract assembly: the rows are collected over many statements,
\* but the answer appears in one step, as a whole, never changes and is never
\* given after a failure.
Few == {S \in SUBSET Ids : (Ranked \/ Store # {}) /\ Cardinality(S) <= K}
Promise == INSTANCE Answer WITH
               Ids <- Ids, Rows <- Rows, Absent <- Absent, Sources <- Sources,
               Narrowing <- Narrowing, Fields <- Fields, Few <- Few, NoRecord <- NoRecord,
               db <- db, was <- was, outcome <- outcome, answer <- answer
ImplementsAnswer == Promise!Spec
=============================================================================
