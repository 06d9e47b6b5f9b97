-------------------------------- MODULE Join --------------------------------
(***************************************************************************)
(* The JOIN operator (execution/operators/join.py): the driving side is    *)
(* read once; its distinct join keys are sent to the probing side in       *)
(* batches, each planned for its keys and for the rows still allowed; a    *)
(* batch that overflows a read guard is split in two and each half read on *)
(* its own; the rows are matched, bounded, ordered and paged in memory.    *)
(*                                                                         *)
(* A row is its ID and its join key.  Both datasets may be written to      *)
(* while the join runs; past keeps what the probing rows have held.        *)
(***************************************************************************)
EXTENDS Integers, Sequences, FiniteSets

CONSTANTS
    DriverIds,      \* IDs of the driving dataset (numbers: they are ordered)
    ProbeIds,       \* IDs of the probing dataset
    Keys,           \* values of the join field
    Null,           \* a join field that is NULL
    Absent,         \* the dataset has no such row
    NoMatch,        \* the right side of a root row without a match
    First,          \* rows of the page
    BatchSize,      \* JoinPolicy.batch_size
    MaxDriver,      \* JoinPolicy.maximum_driver_rows
    MaxProbe,       \* JoinPolicy.maximum_probe_rows
    MaxJoined,      \* JoinPolicy.maximum_joined_rows
    DriverGuard,    \* the row guard of the reads inside the driving side
    ProbeGuard,     \* the row guard of the reads inside the probing side
    MaxWrites       \* bound on the writes of other programs

ASSUME JoinAssumption ==
    /\ DriverIds \subseteq Nat /\ ProbeIds \subseteq Nat
    /\ IsFiniteSet(DriverIds) /\ IsFiniteSet(ProbeIds) /\ IsFiniteSet(Keys)
    /\ Null \notin Keys /\ Absent \notin Keys \cup {Null}
    /\ NoMatch = -1
    /\ {First, BatchSize, MaxDriver, MaxProbe, MaxJoined} \subseteq Nat \ {0}
    /\ {DriverGuard, ProbeGuard, MaxWrites} \subseteq Nat

VARIABLES
    driver_side,    \* the side that drives: "left" (the root) or "right"
    optional,       \* a left join: a root row without a match is kept
    driver_key,     \* driver_key[d]: join field of driving row d now
    probe_key,      \* probe_key[p]: join field of probing row p now
    past,           \* past[p]: every join field row p has had
    writes,         \* how many writes happened
    driver_rows,    \* the driving rows as they were read
    unsent,         \* join keys not yet in a batch
    work,           \* the batches under way: the first is probed next
    probe_rows,     \* the probing rows collected: pairs of an ID and its key
    outcome,        \* "driving", "probing", "answered", or why there is no answer
    page            \* the rows returned: pairs of a left and a right ID

shape_vars == <<driver_side, optional>>
data_vars  == <<shape_vars, driver_key, probe_key, past, writes>>
vars       == <<data_vars, driver_rows, unsent, work, probe_rows, outcome, page>>

Ended == {"answered", "row_limit", "coordinator_limit", "failed"}

-----------------------------------------------------------------------------
(* Matching and paging.                                                    *)

RowsRead(rows) == {d \in DriverIds : rows[d] # Absent}

\* dict.fromkeys over the join fields that are not NULL.
KeysOf(rows) == {rows[d] : d \in DriverIds} \cap Keys

Pair(d, p) == IF driver_side = "left" THEN <<d, p>> ELSE <<p, d>>

\* (mutant: rows whose join field is NULL match each other)
MatchedNulls(rows, found) ==
    {Pair(x[1], x[2][1]) : x \in {y \in RowsRead(rows) \X found :
                                       rows[y[1]] = y[2][2] \/ rows[y[1]] = Null}}
        \cup {Pair(d, NoMatch) : d \in {e \in RowsRead(rows) :
                                    optional /\ \A m \in found : m[2] # rows[e]}}

\* Every driving row with every collected row of its key, and, in a left join,
\* the driving rows that matched nothing (a NULL key matches nothing).
Matched(rows, found) ==
    {Pair(x[1], x[2][1]) : x \in {y \in RowsRead(rows) \X found : rows[y[1]] = y[2][2]}}
        \cup {Pair(d, NoMatch) : d \in {e \in RowsRead(rows) :
                                    optional /\ \A m \in found : m[2] # rows[e]}}

\* compare_rows over the ID of the left and then of the right side.
Before(a, b) == a[1] < b[1] \/ (a[1] = b[1] /\ a[2] < b[2])

\* (mutant: the page is cut one row short)
PageShort(joined) == {a \in joined : Cardinality({b \in joined : Before(b, a)}) < First - 1}

\* The first rows in that order.
Page(joined) == {a \in joined : Cardinality({b \in joined : Before(b, a)}) < First}

-----------------------------------------------------------------------------
(* The operator.                                                           *)

End(how) == /\ outcome' = how
            /\ UNCHANGED <<data_vars, driver_rows, unsent, work, probe_rows, page>>

\* The driving side is read once.  It may return one row more than allowed,
\* which is how too many are noticed.
ReadDriver ==
    LET n == Cardinality(RowsRead(driver_key))
    IN  /\ outcome = "driving"
        /\ IF n > DriverGuard \/ n > MaxDriver
           THEN End("row_limit")
           ELSE /\ driver_rows' = driver_key
                /\ unsent' = KeysOf(driver_key)
                /\ outcome' = "probing"
                /\ UNCHANGED <<data_vars, work, probe_rows, page>>

\* The next batch of keys.
TakeBatch(batch) ==
    /\ outcome = "probing" /\ work = <<>>
    /\ batch \subseteq unsent /\ batch # {}
    /\ Cardinality(batch) = BatchSize \/ (batch = unsent /\ Cardinality(batch) <= BatchSize)
    /\ work' = <<batch>>
    /\ unsent' = unsent \ batch
    /\ UNCHANGED <<data_vars, driver_rows, probe_rows, outcome, page>>

Found(batch) == {<<p, probe_key[p]>> : p \in {q \in ProbeIds : probe_key[q] \in batch}}


\* What the batches so far have left of maximum_probe_rows.
ProbeBudget == MaxProbe - Cardinality(probe_rows)

\* (mutant: the last row allowed is refused)
OverByOne(found) == Cardinality(found) >= ProbeGuard

\* The reads inside the probing side overflow their row guard.
Overflows(found) == Cardinality(found) > ProbeGuard

\* (mutant: the second half of a split batch is forgotten)
HalfOnly(batch, half, rest) == <<half>> \o rest

\* The two halves of a batch come before what is still to do.
Halves(batch, half, rest) == <<half, batch \ half>> \o rest

\* (mutant: a batch of one key is split again)
AlwaysSplits(batch) == TRUE

Splits(batch) == Cardinality(batch) > 1

\* A probe returns the matching rows, cut one row past the budget.
Probe ==
    /\ outcome = "probing" /\ work # <<>>
    /\ LET batch == Head(work)
           found == Found(batch)
       IN  /\ ~Overflows(found)
           /\ \E rows \in SUBSET found :
                 /\ rows = found \/ Cardinality(rows) = ProbeBudget + 1
                 /\ Cardinality(rows) <= ProbeBudget + 1
                 /\ probe_rows' = probe_rows \cup rows
           /\ outcome' = IF Cardinality(probe_rows') > MaxProbe
                         THEN "coordinator_limit" ELSE outcome
    /\ work' = Tail(work)
    /\ UNCHANGED <<data_vars, driver_rows, unsent, page>>

\* A batch that overflows is split, unless it is a single key.
Split ==
    /\ outcome = "probing" /\ work # <<>>
    /\ LET batch == Head(work)
       IN  /\ Overflows(Found(batch))
           /\ Splits(batch)
           /\ \E half \in SUBSET batch :
                 /\ Cardinality(half) = Cardinality(batch) \div 2
                 /\ work' = Halves(batch, half, Tail(work))
    /\ UNCHANGED <<data_vars, driver_rows, unsent, probe_rows, outcome, page>>

Refuse ==
    /\ outcome = "probing" /\ work # <<>>
    /\ Overflows(Found(Head(work)))
    /\ ~Splits(Head(work))
    /\ End("row_limit")

TooMany(joined) == Cardinality(joined) > MaxJoined

\* Every key was probed: match, bound, order and page.
Match ==
    LET joined == Matched(driver_rows, probe_rows)
    IN  /\ outcome = "probing" /\ work = <<>> /\ unsent = {}
        /\ IF TooMany(joined)
           THEN End("coordinator_limit")
           ELSE /\ page' = Page(joined)
                /\ outcome' = "answered"
                /\ UNCHANGED <<data_vars, driver_rows, unsent, work, probe_rows>>

\* A read fails, or the time of the query is over: no answer.
ReadFails == outcome \in {"driving", "probing"} /\ End("failed")

\* Another program changes a row of either dataset.
WriteDriver(d, k) ==
    /\ outcome = "driving" /\ writes < MaxWrites
    /\ k # driver_key[d]
    /\ driver_key' = [driver_key EXCEPT ![d] = k]
    /\ writes' = writes + 1
    /\ UNCHANGED <<shape_vars, probe_key, past, driver_rows, unsent, work, probe_rows, outcome, page>>

WriteProbe(p, k) ==
    /\ outcome = "probing" /\ writes < MaxWrites
    /\ k # probe_key[p]
    /\ probe_key' = [probe_key EXCEPT ![p] = k]
    /\ past' = [past EXCEPT ![p] = @ \cup {k}]
    /\ writes' = writes + 1
    /\ UNCHANGED <<shape_vars, driver_key, driver_rows, unsent, work, probe_rows, outcome, page>>

\* An inner join may be driven from either side, a left join from its root.
Init ==
    /\ optional \in BOOLEAN
    /\ driver_side \in IF optional THEN {"left"} ELSE {"left", "right"}
    /\ driver_key \in [DriverIds -> Keys \cup {Null, Absent}]
    /\ probe_key \in [ProbeIds -> Keys \cup {Null}]
    /\ past = [p \in ProbeIds |-> {probe_key[p]}]
    /\ writes = 0
    /\ driver_rows = [d \in DriverIds |-> Absent]
    /\ unsent = {} /\ work = <<>> /\ probe_rows = {}
    /\ outcome = "driving"
    /\ page = {}

Advance == \/ ReadDriver
           \/ \E batch \in SUBSET unsent : TakeBatch(batch)
           \/ Probe \/ Split \/ Refuse \/ Match

Next == \/ Advance \/ ReadFails
        \/ \E d \in DriverIds, k \in Keys \cup {Null, Absent} : WriteDriver(d, k)
        \/ \E p \in ProbeIds, k \in Keys \cup {Null} : WriteProbe(p, k)

Spec     == Init /\ [][Next]_vars

\* The thread of the query keeps running; it never has to fail.
FairSpec == Spec /\ WF_vars(Advance)

-----------------------------------------------------------------------------
(* Properties.                                                             *)

AllFound == {<<p, probe_key[p]>> : p \in {q \in ProbeIds : probe_key[q] \in Keys}}
Reference == Matched(driver_rows, AllFound)

\* Over data nobody writes to, the answer is the page of the reference join:
\* batching, splitting and the shared budget lose and repeat nothing.
JoinIsExact ==
    outcome = "answered" /\ writes = 0 => page = Page(Reference)

\* While the probing dataset changes, each matched row had the key of its
\* driving row at some moment; and a probing row that kept its key is joined
\* with every driving row of that key, unless the page is full before it.
JoinBearsWrites ==
    outcome = "answered" =>
        \A d \in DriverIds, p \in ProbeIds :
            /\ Pair(d, p) \in page => driver_rows[d] \in past[p]
            /\ past[p] = {driver_rows[d]} /\ driver_rows[d] \in Keys =>
                  \/ Pair(d, p) \in page
                  \/ Cardinality(page) = First /\ \A a \in page : Before(a, Pair(d, p))

\* A join is refused only for a bound it really exceeds: a single key with more
\* matches than a read may return, more matching rows or joined rows than
\* allowed.  Never because of how the keys fell into batches.
RefusalIsJustified ==
    writes = 0 =>
        /\ outcome = "row_limit" =>
              \/ Cardinality(RowsRead(driver_key)) > MaxDriver
              \/ Cardinality(RowsRead(driver_key)) > DriverGuard
              \/ \E k \in KeysOf(driver_key) : Cardinality(Found({k})) > ProbeGuard
        /\ outcome = "coordinator_limit" =>
              \/ Cardinality(Found(KeysOf(driver_key))) > MaxProbe
              \/ Cardinality(Reference) > MaxJoined

\* Splitting comes to an end, and so does the join.
JoinEnds == <>(outcome \in Ended)
=============================================================================
