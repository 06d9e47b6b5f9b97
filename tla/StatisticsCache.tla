--------------------------- MODULE StatisticsCache ---------------------------
(***************************************************************************)
(* The table statistics of PostgreSQL as the planner sees them             *)
(* (planning/postgres_statistics.py).  Every thread that plans a query     *)
(* looks up the tables it scans.  A lookup reads the clock, looks into the *)
(* cache under the lock, reads the source without it in two statements,    *)
(* and stores what it got under the lock: lookups of one table overlap,    *)
(* ANALYZE runs between the statements, and invalidate() between a read    *)
(* and its store.                                                          *)
(*                                                                         *)
(* What ANALYZE last collected of a table is a version; history keeps      *)
(* which version a table had at which tick, so that an answer can be       *)
(* compared with what the database could have said.                        *)
(***************************************************************************)
EXTENDS Integers

CONSTANTS
    Planners,           \* threads that look statistics up
    Tables,             \* what a lookup is cached under: reference and resource
    Columns,            \* the physical columns of each table
    View,               \* View[t]: the columns the queries of thread t use
    Ttl,                \* ttl_seconds
    Never,              \* the version of a table that was never analyzed
    Unknown,            \* no statistics
    Missing,            \* "no entry", "no answer yet"
    MaxTime,            \* bound on the clock
    MaxAnalyses         \* bound on the ANALYZE runs of each table

Versions     == Nat \cup {Never}
Told(S)      == [rows : Versions, columns : [S -> Versions]]
Facts        == Told(Columns)
Entries      == [expires : Nat, facts : Facts \cup {Unknown}]

ASSUME CacheAssumption ==
    /\ View \in [Planners -> SUBSET Columns]
    /\ {Ttl, MaxTime, MaxAnalyses} \subseteq Nat
    /\ Never \notin Nat
    /\ \A S \in {View[t] : t \in Planners} \cup {Columns} : {Unknown, Missing} \cap Told(S) = {}
    /\ Missing \notin Entries /\ Missing # Unknown

VARIABLES
    clock,          \* time.monotonic()
    analyzed,       \* analyzed[k]: the version ANALYZE last left of table k
    history,        \* history[k]: <<version, tick>> for each tick it had it
    failed,         \* failed[k]: the tick after the latest failed read of k, or 0
    cache,          \* cache[k]: the entry of table k
    last_error,     \* some read has failed
    step,           \* step[t]: where thread t is in statistics()
    table,          \* table[t]: the table it asks about
    asked,          \* asked[t]: now, read before anything else
    facts,          \* facts[t]: what it has read so far
    told            \* told[t]: what its lookup returned

lookup_vars == <<step, table, asked, facts, told>>
cache_vars  == <<clock, analyzed, history, failed, cache, last_error, lookup_vars>>

-----------------------------------------------------------------------------
\* _for: the columns of the query, of what was read of the whole table.
For(columns, f) ==
    IF f = Unknown THEN Unknown
    ELSE [rows |-> f.rows, columns |-> [c \in columns |-> f.columns[c]]]

Return(t, f) ==
    /\ step' = [step EXCEPT ![t] = "told"]
    /\ facts' = [facts EXCEPT ![t] = Unknown]
    /\ told' = [told EXCEPT ![t] = For(View[t], f)]

\* statistics(source) is called; the clock is read before the lock is taken.
Ask(t, k) ==
    /\ step[t] = "idle"
    /\ step' = [step EXCEPT ![t] = "asked"]
    /\ table' = [table EXCEPT ![t] = k]
    /\ asked' = [asked EXCEPT ![t] = clock]
    /\ UNCHANGED <<clock, analyzed, history, failed, cache, last_error, facts, told>>

\* The entry of its table serves thread t.
Serves(t) == cache[table[t]] # Missing /\ cache[table[t]].expires > asked[t]

\* Under the lock: the entry is returned, or the source has to be read.
LookUp(t) ==
    /\ step[t] = "asked"
    /\ IF Serves(t)
       THEN Return(t, cache[table[t]].facts)
       ELSE step' = [step EXCEPT ![t] = "reading"] /\ UNCHANGED <<facts, told>>
    /\ UNCHANGED <<clock, analyzed, history, failed, cache, last_error, table, asked>>

\* The first statement: the row count.  A table that was never analyzed, or
\* does not exist, is unknown.
ReadRows(t) ==
    LET version == analyzed[table[t]]
    IN  /\ step[t] = "reading"
        /\ IF version = Never
           THEN /\ facts' = [facts EXCEPT ![t] = Unknown]
                /\ step' = [step EXCEPT ![t] = "read"]
           ELSE /\ facts' = [facts EXCEPT ![t] = [rows |-> version, columns |-> [c \in Columns |-> Never]]]
                /\ step' = [step EXCEPT ![t] = "counted"]
        /\ UNCHANGED <<clock, analyzed, history, failed, cache, last_error,
                       table, asked, told>>

\* The second statement: every column of the table, not only the query's.
ReadColumns(t) ==
    /\ step[t] = "counted"
    /\ facts' = [facts EXCEPT ![t].columns = [c \in Columns |-> analyzed[table[t]]]]
    /\ step' = [step EXCEPT ![t] = "read"]
    /\ UNCHANGED <<clock, analyzed, history, failed, cache, last_error,
                   table, asked, told>>

\* No connection in time, or a statement fails: unknown, never an error.
ReadFails(t) ==
    /\ step[t] \in {"reading", "counted"}
    /\ facts' = [facts EXCEPT ![t] = Unknown]
    /\ last_error' = TRUE
    /\ failed' = [failed EXCEPT ![table[t]] = clock + 1]
    /\ step' = [step EXCEPT ![t] = "read"]
    /\ UNCHANGED <<clock, analyzed, history, cache, table, asked, told>>

\* (mutant: the entry lives from when it is stored, not from before the read)
ExpiryFromNow(t) == clock + Ttl

\* An entry lives from the moment its lookup began.
Expiry(t) == asked[t] + Ttl

\* Under the lock: what was read (also nothing) takes the place of whatever
\* another thread stored meanwhile, and is returned.
StoreEntry(t) ==
    /\ step[t] = "read"
    /\ cache' = [cache EXCEPT ![table[t]] =
                     [expires |-> Expiry(t), facts |-> facts[t]]]
    /\ Return(t, facts[t])
    /\ UNCHANGED <<clock, analyzed, history, failed, last_error, table, asked>>

\* The planner goes on with the answer; nothing of the lookup remains.
GoOn(t) ==
    /\ step[t] = "told"
    /\ step' = [step EXCEPT ![t] = "idle"]
    /\ asked' = [asked EXCEPT ![t] = 0]
    /\ told' = [told EXCEPT ![t] = Missing]
    /\ UNCHANGED <<clock, analyzed, history, failed, cache, last_error, table, facts>>

\* invalidate(), at any moment: a read that is under way still stores.
Invalidate ==
    /\ cache' = [k \in Tables |-> Missing]
    /\ UNCHANGED <<clock, analyzed, history, failed, last_error, lookup_vars>>

\* The database analyzes a table, for the first time or again.
Analyze(k) ==
    /\ analyzed[k] # MaxAnalyses
    /\ analyzed' = [analyzed EXCEPT ![k] = IF @ = Never THEN 0 ELSE @ + 1]
    /\ history' = [history EXCEPT ![k] = @ \cup {<<analyzed'[k], clock>>}]
    /\ UNCHANGED <<clock, failed, cache, last_error, lookup_vars>>

ClockTick ==
    /\ clock < MaxTime
    /\ clock' = clock + 1
    /\ history' = [k \in Tables |-> history[k] \cup {<<analyzed[k], clock'>>}]
    /\ UNCHANGED <<analyzed, failed, cache, last_error, lookup_vars>>

CacheInit ==
    /\ clock = 0
    /\ analyzed \in [Tables -> {0, Never}]
    /\ history = [k \in Tables |-> {<<analyzed[k], 0>>}]
    /\ failed = [k \in Tables |-> 0]
    /\ cache = [k \in Tables |-> Missing]
    /\ last_error = FALSE
    /\ step = [t \in Planners |-> "idle"]
    /\ table \in [Planners -> Tables]
    /\ asked = [t \in Planners |-> 0]
    /\ facts = [t \in Planners |-> Unknown]
    /\ told = [t \in Planners |-> Missing]

CacheNext ==
    \/ \E t \in Planners :
          \/ \E k \in Tables : Ask(t, k)
          \/ LookUp(t) \/ ReadRows(t) \/ ReadColumns(t) \/ ReadFails(t) \/ StoreEntry(t) \/ GoOn(t)
    \/ Invalidate
    \/ \E k \in Tables : Analyze(k)
    \/ ClockTick

CacheSpec == CacheInit /\ [][CacheNext]_cache_vars

-----------------------------------------------------------------------------
(* Properties.                                                             *)

CacheTypeOK ==
    /\ clock \in Nat
    /\ analyzed \in [Tables -> Versions]
    /\ history \in [Tables -> SUBSET (Versions \X Nat)]
    /\ failed \in [Tables -> Nat]
    /\ cache \in [Tables -> Entries \cup {Missing}]
    /\ last_error \in BOOLEAN
    /\ step \in [Planners -> {"idle", "asked", "reading", "counted", "read", "told"}]
    /\ table \in [Planners -> Tables]
    /\ asked \in [Planners -> Nat]
    /\ facts \in [Planners -> Facts \cup {Unknown}]

\* A tick that a lookup begun at tick n may still be told about.
Recent(at, n) == at >= n \/ at > n - Ttl

\* The version was table k's at a recent tick.
Was(k, version, n) == \E at \in 0 .. clock : Recent(at, n) /\ <<version, at>> \in history[k]

\* Nothing could be known of k at a recent tick.
WasUnknown(k, n) == Was(k, Never, n) \/ (failed[k] > 0 /\ Recent(failed[k] - 1, n))

\* Whatever lookups overlap and overwrite each other: a thread is told of its
\* own columns, all of them, and of the row count, what the database said at
\* some moment not longer than the time to live before it asked; and that
\* nothing is known only if a read failed or the table had not been analyzed
\* in that time.
ServedStatisticsAreFresh ==
    \A t \in Planners : step[t] = "told" =>
        IF told[t] = Unknown
        THEN WasUnknown(table[t], asked[t])
        ELSE /\ Was(table[t], told[t].rows, asked[t])
             /\ DOMAIN told[t].columns = View[t]
             /\ \A c \in View[t] : Was(table[t], told[t].columns[c], asked[t])
=============================================================================
