--------------------------- MODULE CatalogRuntime ---------------------------
(***************************************************************************)
(* The in-memory catalog runtime (runtime/service.py) and the queries that *)
(* are served from it (execution/engine.py, joins/planner.py).             *)
(*                                                                         *)
(* refresh() reads the three catalog files, inspects every source, and     *)
(* activates the candidate if all of it validates.  It takes no lock: any  *)
(* thread may call it, while others do and while queries run.  A catalog   *)
(* is what was read of each file; files and sources are changed by others  *)
(* at any moment, so nothing is known of a source but what was seen when   *)
(* it was inspected.                                                       *)
(***************************************************************************)
EXTENDS Integers, FiniteSets

CONSTANTS
    Refreshers,     \* threads that call refresh
    Queries,        \* threads that run a query
    Files,          \* the catalog files
    Sources,        \* the sources of the catalog
    None,           \* no catalog, no result
    MaxEdits,       \* bound on the edits of each file
    MaxRefreshes,   \* bound on the refreshes of each thread
    MaxBatches      \* bound on the probing batches of a query

ASSUME RuntimeAssumption ==
    /\ IsFiniteSet(Sources) /\ IsFiniteSet(Files) /\ Files # {}
    /\ {MaxEdits, MaxRefreshes, MaxBatches} \subseteq Nat

Statuses   == {"valid", "invalid", "inspection_failed"}
Version    == 0 .. MaxEdits
Contents   == [Files -> Version]
Evaluation == [files : Contents, sources : [Sources -> Statuses], since : Contents]
Nothing    == [x \in {} |-> None]
Results    == [status : {"activated", "rejected", "load_failed"}, active : Evaluation \cup {None}]

VARIABLES
    disk,           \* disk[f]: the content of catalog file f, by its version
    pc,             \* pc[r]: where thread r is in refresh
    begun,          \* begun[r]: the files as they were when the refresh began
    loaded,         \* loaded[r]: the files read so far
    states,         \* states[r]: the sources inspected so far
    result,         \* result[r]: the result about to be recorded
    refreshes,      \* refreshes[r]: refreshes r has begun
    active,         \* the active snapshot
    last_attempt,   \* the latest refresh diagnostics
    snapshot,       \* snapshot[q]: the catalog query q was bound to
    used,           \* used[q]: the catalogs its plans were made from
    batches         \* batches[q]: probing batches it has planned

refresh_vars == <<pc, begun, loaded, states, result, refreshes>>
query_vars   == <<snapshot, used, batches>>
vars == <<disk, refresh_vars, active, last_attempt, query_vars>>

-----------------------------------------------------------------------------
(* refresh.                                                                *)

\* (mutant: the active catalog is dropped before there is another)
BeginUnserved(r) ==
    /\ pc[r] = "idle" /\ refreshes[r] < MaxRefreshes
    /\ pc' = [pc EXCEPT ![r] = "loading"]
    /\ begun' = [begun EXCEPT ![r] = disk]
    /\ loaded' = [loaded EXCEPT ![r] = Nothing]
    /\ states' = [states EXCEPT ![r] = Nothing]
    /\ refreshes' = [refreshes EXCEPT ![r] = @ + 1]
    /\ active' = None
    /\ UNCHANGED <<disk, result, last_attempt, query_vars>>

Begin(r) ==
    /\ pc[r] = "idle" /\ refreshes[r] < MaxRefreshes
    /\ pc' = [pc EXCEPT ![r] = "loading"]
    /\ begun' = [begun EXCEPT ![r] = disk]
    /\ loaded' = [loaded EXCEPT ![r] = Nothing]
    /\ states' = [states EXCEPT ![r] = Nothing]
    /\ refreshes' = [refreshes EXCEPT ![r] = @ + 1]
    /\ UNCHANGED <<disk, result, active, last_attempt, query_vars>>

\* f maps one more element.
Extended(f, x, y) == [z \in DOMAIN f \cup {x} |-> IF z = x THEN y ELSE f[z]]

\* The files are read one after the other.
ReadFile(r, f) ==
    /\ pc[r] = "loading" /\ f \in Files \ DOMAIN loaded[r]
    /\ loaded' = [loaded EXCEPT ![r] = Extended(@, f, disk[f])]
    /\ UNCHANGED <<disk, pc, begun, states, result, refreshes, active, last_attempt, query_vars>>

\* A file is missing or malformed, or the files do not fit together.
LoadFails(r) ==
    /\ pc[r] = "loading" /\ states[r] = Nothing
    /\ result' = [result EXCEPT ![r] = [status |-> "load_failed", active |-> active]]
    /\ pc' = [pc EXCEPT ![r] = "recording"]
    /\ UNCHANGED <<disk, begun, loaded, states, refreshes, active, last_attempt, query_vars>>

\* Every file was read: each source is inspected and compared with the catalog.
Inspect(r, s, status) ==
    /\ pc[r] = "loading" /\ DOMAIN loaded[r] = Files
    /\ s \in Sources \ DOMAIN states[r]
    /\ states' = [states EXCEPT ![r] = Extended(@, s, status)]
    /\ UNCHANGED <<disk, pc, begun, loaded, result, refreshes, active, last_attempt, query_vars>>

\* Reading a file or parsing it raises something refresh does not catch: it
\* leaves refresh, and no result is recorded.
LoadRaises(r) ==
    /\ pc[r] = "loading" /\ DOMAIN loaded[r] # Files
    /\ pc' = [pc EXCEPT ![r] = "idle"]
    /\ UNCHANGED <<disk, begun, loaded, states, result, refreshes, active, last_attempt, query_vars>>

\* contains_every_configured_source
Complete(candidate) == DOMAIN candidate.sources = Sources

\* (mutant: a source that could not be inspected does not stop the activation)
NoneIsInvalid(candidate) == \A s \in DOMAIN candidate.sources : candidate.sources[s] # "invalid"

IsActivatable(candidate) == \A s \in DOMAIN candidate.sources : candidate.sources[s] = "valid"

Candidate(r) == [files |-> loaded[r], sources |-> states[r], since |-> begun[r]]

\* (mutant: the candidate is activated although the refresh is rejected)
SwapsAnyway(candidate) == TRUE

\* The swap of the active snapshot depends on nothing but the candidate.
Swaps(candidate) == IsActivatable(candidate)

\* (mutant: a rejected candidate is reported as the active catalog)
ReportsCandidate(candidate) == candidate

\* What a rejected refresh reports as active: whatever is active then.
Retained(candidate) == active

\* The candidate is complete: it becomes active, or the result says why not.
\* The result is recorded in a step of its own.
Conclude(r) ==
    LET candidate == Candidate(r)
    IN  /\ pc[r] = "loading" /\ DOMAIN loaded[r] = Files /\ Complete(candidate)
        /\ active' = IF Swaps(candidate) THEN candidate ELSE active
        /\ result' = [result EXCEPT ![r] =
                         IF IsActivatable(candidate)
                         THEN [status |-> "activated", active |-> candidate]
                         ELSE [status |-> "rejected", active |-> Retained(candidate)]]
        /\ pc' = [pc EXCEPT ![r] = "recording"]
        /\ UNCHANGED <<disk, begun, loaded, states, refreshes, last_attempt, query_vars>>

\* _record, and the return of refresh.
Record(r) ==
    /\ pc[r] = "recording"
    /\ last_attempt' = result[r]
    /\ pc' = [pc EXCEPT ![r] = "idle"]
    /\ UNCHANGED <<disk, begun, loaded, states, result, refreshes, active, query_vars>>

-----------------------------------------------------------------------------
(* A query.                                                                *)

\* require_active: the snapshot is taken once.  Binding, resolving and planning
\* use it; without one the query fails at once.
Bind(q) ==
    /\ snapshot[q] = None /\ active # None
    /\ snapshot' = [snapshot EXCEPT ![q] = active]
    /\ used' = [used EXCEPT ![q] = {active}]
    /\ UNCHANGED <<disk, refresh_vars, active, last_attempt, batches>>

\* (mutant: a probing batch is planned against whatever is active by then)
ActiveCatalog(q) == active

\* The catalog probe_for plans a batch with: the one its closure captured.
BatchCatalog(q) == snapshot[q]

\* A join runs its driving side first; each batch of its keys is planned when
\* it is about to be read.
ProbeFor(q) ==
    /\ snapshot[q] # None /\ batches[q] < MaxBatches
    /\ used' = [used EXCEPT ![q] = @ \cup {BatchCatalog(q)}]
    /\ batches' = [batches EXCEPT ![q] = @ + 1]
    /\ UNCHANGED <<disk, refresh_vars, active, last_attempt, snapshot>>

\* Somebody saves a catalog file.
Edit(f) ==
    /\ disk[f] < MaxEdits
    /\ disk' = [disk EXCEPT ![f] = @ + 1]
    /\ UNCHANGED <<refresh_vars, active, last_attempt, query_vars>>

Init ==
    /\ disk = [f \in Files |-> 0]
    /\ pc = [r \in Refreshers |-> "idle"]
    /\ begun = [r \in Refreshers |-> disk]
    /\ loaded = [r \in Refreshers |-> Nothing]
    /\ states = [r \in Refreshers |-> Nothing]
    /\ result = [r \in Refreshers |-> None]
    /\ refreshes = [r \in Refreshers |-> 0]
    /\ active = None /\ last_attempt = None
    /\ snapshot = [q \in Queries |-> None]
    /\ used = [q \in Queries |-> {}]
    /\ batches = [q \in Queries |-> 0]

Advance(r) == \/ \E f \in Files : ReadFile(r, f)
              \/ LoadFails(r) \/ LoadRaises(r)
              \/ \E s \in Sources, status \in Statuses : Inspect(r, s, status)
              \/ Conclude(r)
              \/ Record(r)

Next == \/ \E r \in Refreshers : Begin(r) \/ Advance(r)
        \/ \E q \in Queries : Bind(q) \/ ProbeFor(q)
        \/ \E f \in Files : Edit(f)

Spec == Init /\ [][Next]_vars

-----------------------------------------------------------------------------
(* Properties.                                                             *)

Partial(S, T) == UNION {[D -> T] : D \in SUBSET S}

TypeOK ==
    /\ disk \in Contents
    /\ pc \in [Refreshers -> {"idle", "loading", "recording"}]
    /\ begun \in [Refreshers -> Contents]
    /\ loaded \in [Refreshers -> Partial(Files, Version)]
    /\ states \in [Refreshers -> Partial(Sources, Statuses)]
    /\ result \in [Refreshers -> Results \cup {None}]
    /\ refreshes \in [Refreshers -> Nat]
    /\ active \in Evaluation \cup {None}
    /\ last_attempt \in Results \cup {None}
    /\ snapshot \in [Queries -> Evaluation \cup {None}]
    /\ used \in [Queries -> SUBSET Evaluation]
    /\ batches \in [Queries -> Nat]

\* Whatever refreshes overlap, fail or are overtaken: the catalog a query is
\* bound to had every source validated, and each of its files was on disk after
\* that refresh began (the files together need never have been).
ServedCatalogIsValidated ==
    \A c \in ({active} \cup {snapshot[q] : q \in Queries}) \ {None} :
        /\ \A s \in Sources : c.sources[s] = "valid"
        /\ \A f \in Files : c.since[f] <= c.files[f] /\ c.files[f] <= disk[f]

\* A query answers from one catalog, however often the catalog is replaced
\* between the batches of its join.
QueryUsesOneSnapshot == \A q \in Queries : used[q] \subseteq {snapshot[q]}

\* A catalog once active is only ever replaced by a validated one: a refresh
\* that fails at any point leaves queries served as before.
FailedRefreshKeepsActive ==
    [][active' # active => \E r \in Refreshers : /\ pc[r] = "loading" /\ pc'[r] = "recording"
                                                 /\ result'[r].status = "activated"
                                                 /\ result'[r].active = active']_vars

Resting(r) == pc[r] = "idle"
OneAtATime == \A r, s \in Refreshers : r # s => Resting(r) \/ Resting(s)

\* While refreshes do not overlap, the two steps in which a catalog is swapped and
\* its result recorded do no harm: between refreshes, the latest recorded result
\* names the catalog that queries are served from, after whatever was activated,
\* rejected, or raised.  (With two at a time it need not: the code takes no lock.)
ReportMatchesActive ==
    []OneAtATime =>
        []((\A r \in Refreshers : Resting(r)) /\ last_attempt # None => last_attempt.active = active)
=============================================================================
