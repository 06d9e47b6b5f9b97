# YoDb in TLA+

YoDb answers one query over several PostgreSQL databases: a YAML catalog says
which source owns which field of a logical dataset, and the engine reads every
source it needs, puts records together by logical ID, joins, filters, judges
(with a language model), orders and pages them. These modules model that
engine, check it with TLC on small instances, and prove part of it with TLAPS
for every instance. Paths below are relative to `src/src/yodb/`.

## 1. Inventory

| component | state it keeps | operations | what is hard, and what makes it correct |
|---|---|---|---|
| catalog (`catalog.py`) | none | `load_catalog`, static validation | three files read one after the other while somebody edits them; what passes must be enough for every later step |
| inspection (`inspection/`) | none | inspect a source, compare it with the catalog | a source may be invalid or unreachable; nothing may be activated then |
| runtime (`runtime/`) | active snapshot, last attempt | `refresh`, `require_active` | no lock, several threads: only validated catalogs are served, a failed refresh changes nothing |
| query language (`query/`) | none | parse, bind, resolve to sources | sequential; field ownership decides everything later, and rests on checks made at loading and inspection |
| join planning (`joins/planner.py`) | none | find the relationship, plan both sides, choose the driver, plan each batch | internal queries held to rules made for callers; keys that pass through JSON |
| planner (`planning/`, `planning/operators/`) | none | pushdown, guards, schedules, variants | moving a condition, an order or a limit into a source must never change the answer |
| optimizer (`planning/optimizer.py`) | none | choose a read order and variant | a dynamic programme over sets must find what trying everything would, and keep the fixed rules on a tie |
| statistics (`planning/statistics.py`, `postgres_statistics.py`) | learned row counts, table statistics with a time to live | observe, look up, invalidate, estimate a filter | bounded, shared by threads that overtake each other; a wrong lesson or a share of the wrong whole misleads every later plan |
| engine and executor (`execution/`) | one `Run` per query: deadline, trace, actuals | execute a plan tree | live sources, time budget, row guards, partial failure |
| COMBINE (`execution/operators/combine.py`) | IDs learned, rows received | read sources in a schedule, restricted to learned IDs or not, in batches or not | writes between the reads; key transfer must neither lose nor invent a record; a shortlist must not be cut too early |
| JOIN (`execution/operators/join.py`) | keys, rows of both sides | drive, probe in batches, split a batch that overflows, match, page | shared budget of all batches, rows moving between batches |
| SEMANTIC_FILTER (`semantic/`) | judged records, usage, report | judge batches until the page is full | early stop, cost and latency budgets, reports merged over batches |
| connections (`connections/`) | pools, recent failures, closed flag | `acquire`, probe, `close` | threads meeting in two locked sections with a probe between them |
| compilation (`compilation/`) | none | a scan to a SQL statement | keys, filter, ranking and limit in one statement |
| client, CLI, MCP server | runtime, adapter | wiring, input and output, description of the catalog | no state of their own; the description an agent plans by is worked out apart from the rules it is to describe |

How they interact: the client builds one runtime, one connection adapter and
one engine, all shared by every thread. A query takes the active snapshot once,
is bound, resolved and planned against it, and the plan tree is executed node
by node in the calling thread: COMBINE and JOIN call SCAN, SCAN compiles a
statement and borrows a connection. A join plans its probing batches while it
runs, through a callback that captured the snapshot. Row counts learned by
scans go to the statistics after the answer. Nothing is persisted, so there is
no crash recovery; nothing is retried except that a batch of join keys is
split. Concurrency is between threads of one process (runtime, pool, caches)
and between a query and everybody who writes to its sources.

`PROJECT.json` lists every component, and under `hazards` every place where
this code can go wrong in a way a test would hardly reach.

## 2. Modules

| module | models | composed of |
|---|---|---|
| `Assembly` | COMBINE, SCAN and key transfer over live sources | scans and assembly of `execution/operators`, schedules of `planning`, searches of `semantic/planning.py`, statements of `compilation` |
| `Answer` | what is promised of an assembly, without its reads | the abstract specification `Assembly` implements |
| `Join` | JOIN over live datasets | the operator, and what `joins/planner.py` gives each side |
| `SemanticVerify` | SEMANTIC_FILTER, its report, and the engine's restriction of it | plain queries and the passes of a join |
| `Pushdown` | resolution, pushdown, guards, three-valued logic, order and page | `query/resolution.py`, `planning`, `execution/operators` |
| `Optimizer` | the cost model, the search for the cheapest read order and strategy, the fixed rule for semantic conditions | `planning/optimizer.py`, `planning/operators/combine.py`, `semantic/planning.py` |
| `Catalog` | what loading, inspection, binding and resolution let through | `catalog.py`, `inspection/postgres.py`, `query` |
| `Traversal` | the planning of a join on top of `Catalog` | `joins/planner.py`, the look-up of keys in `execution/operators/join.py` |
| `Discovery` | what an agent is told it may name, on top of `Traversal` | `mcp_server.py` |
| `StatisticsCache` | the cache of table statistics, under threads, failures and ANALYZE | `planning/postgres_statistics.py` |
| `ObservationStore` | the row counts that scans taught | `planning/statistics.py` |
| `Selectivity` | the estimate of every kind of filter, from the statistics PostgreSQL keeps | `planning/statistics.py`, `planning/postgres_statistics.py` |
| `QueryDeadline` | one time budget spent by probes, waits and statements | `execution`, `connections` |
| `ConnectionPool` | the adapter, its pools, `acquire` and `close` by threads | `connections/postgres.py` |
| `CatalogRuntime` | `refresh` by threads, edits, queries served meanwhile | `runtime`, `catalog.py`, `execution/engine.py`, `joins/planner.py` |

Each `MC…` module gives constants their values (`MCPlanning` sets four
components that share no state side by side, see Runs); each `…Proofs` module holds the
theorems of its component. Mutated forms of a definition stand before it with
a comment `(mutant: …)`; each says what a plausible slip in the code would be,
and the property named with it in `PROJECT.json` fails under it.

### Assembly

`db[s][i]` is the row source `s` holds for ID `i` and that passes its pushed
filter; `Write` is any other program changing it between two statements; `was`
remembers everything held since the query began. One statement sees one state
of one source. `ReadOnce` is a step of `combine.execute` with one SELECT
(restricted to the learned IDs or not, ranked or not), `StartBatches` and
`ReadBatch` the batched read, `EndStep` what the executor does with the rows
(intersect the learned IDs, end early when none is left), `Assemble` the final
merge, `ReadFails` any failure. Every step picks the next source, limited by
`Scheduled` only where every schedule is: so one model covers the fixed rule,
the optimizer's orders, and those of the tests. `Ranked` is a vector search on
the anchor itself, `Store` a separate vector store. A value of `Bare` is a row whose
embedding is NULL: the statement of a ranked read leaves it out before it ranks, so the
source that is searched (`Vectored`) has nothing to hand over for it (`Embedded`), while any
other read finds it. A record without an embedding is therefore missing from every
shortlist, and the properties about shortlists speak of the records that can be ranked
(`Matches`).

### Answer

The promise behind an assembly, in four variables of it: sources change
(`Write`), and at some moment there is an answer, whole and for good (`Give`),
or none (`Refuse`). `Truthful` is what may be returned under an ID, `Held` what
must not be missing, and `Few` the answers that a shortlist may leave.
`Promise` in `Assembly` is the refinement mapping: the variables are mapped to
themselves, reads, batches and learned IDs to nothing. `ImplementsAnswer`
says more than the invariants of `Assembly` do together: an answer comes in one
step, is final, and a query that failed or answered does nothing more.

### Join

`ReadDriver`, `TakeBatch`, `Probe`, `Split`, `Refuse`, `Match` are the parts
of `join.execute` and `_probe`; `work` is the recursion of `_probe` as a
stack. Whether the join is a left join and which side drives is chosen in
`Init`. A probe may return any `ProbeBudget + 1` of its rows when there are
more, as the planned page does. `WriteDriver` and `WriteProbe` are other programs.

### SemanticVerify

A query is a record: the sides its passes judge, its page, its budgets.
`StartPass` takes any set of candidates; `Verify` judges the next batch at any
cost and in any time up to a bound; verdicts are chosen in `Init`. `EndPass`
merges the pass into the report (`combined_with`); `Answer` and `AnswerJoin`
are the engine cutting the report down to the returned rows.

### Pushdown

Filters are trees of conditions: `Filters` holds every filter in play with its parts, and
`Depth` says how deep each is nested, which the parser limits (`MaxDepth`). Functions of a
filter (`Leaves`, `TopLevelConjuncts`, `Sql`, `Truth`, `OnNulls`) are recursive functions on
`Filters`, so that they can be proved about. The planner's functions (`Local`, `Accepts`,
`AcceptsOrder`, `AcceptsLimit`, `NeedsGuard`, `FullyPushed`) are operators;
`PlanQuery`, `ReadSource`, `Combine`, `Filter` and `OrderPage` run the plan.
SQL's logic and order (`Sql`, `SqlTerm`) and YoDb's (`Truth`, `CompareTerm`,
`OnNulls`) are written separately, each as its owner defines it: SQL's as
least and greatest of three numbers with NULL above every value, YoDb's as the
cases of `rows.py` and `expressions.py`. `Reference` is SQL over the assembled
dataset. The values of a field that a query binds (`query/validation.py`: a uuid as
text, a number as int or float, an instant as datetime) and those the driver returns (UUID,
Decimal, date) may differ in Python type, and Python compares them with `==`, `>`, `<` of
their own: `python` says, per field, which pairs of values are equal or in order for
Python, and may be any relation of `Readings`. `HoldsInPython` is the comparison YoDb
makes, `Satisfies` the one PostgreSQL makes, and `Misread` says that the two differ on a
condition that YoDb evaluates. Extension terms and text collations are left out: YoDb
orders text by code point and says so in its plan notes.

### Optimizer

`problem` is what the planner knows: per source its rows, filtered rows, call
cost, key limit and guard; the strategies the semantic condition allows; the
caller's limits. It is the `p` of the operators, which are the methods of class `Problem`. `Extend` is one layer of the dynamic programme (all sets of
one source more), `Consider` and `Choose` its last part, `Decline` the cases
in which the fixed rules stand. The cost functions are those of `Problem`
(`Latency`, `Restricts`, `RankedRead`, `StoreRead`, `PlanOf`) and of `_estimate`
(`CanVerify`, `OwnLatency`, `OwnMoney`); `Eligible`, `RulePlan`, `Cap`, `Ladder`
are the fixed rule and the sizes it may offer. `Feasible` is `brute_force`, the
oracle of the repository's own tests, over every order and flag. Numbers are
exact: everything is counted in parts of 1/`Scale`, and `Scale` (4 to the 5th
power over an anchor of 4 rows) is a multiple of every denominator that the at
most five fractions multiplied in one plan can give, so that no division
rounds. The code's tolerance of 1e-9 therefore has no counterpart. Required
recall is given as the share of the pool a shortlist must cover, the power law
solved for it.

### Catalog and Traversal

These two have hardly any behaviour over time: a catalog is loaded (`Load`),
compared with its databases (`Activate`), and one query is bound (`Bind`) and
resolved (`Resolve`, `ResolveFails`), or one traverse step is planned
(`RefuseTraversal`, `PlanSides`, `PlanProbe`) and a key looked up (`Probe`).
What they are about is whether each gate may rely on the one before. `Loads`,
`SourceIsValid`, `BindError` and `ResolveErrors` are the gates; an error is the
first the code meets, in its order. A filter is the list of its conditions, in
the order of the document, with its depth and its number of nodes, which is
all that binding, resolution and the parser's budget ask of it. A value is its
JSON type (with the texts that are UUIDs, instants or blank told apart), a key
the Python type a database driver returns for a column: `Returns` is what
comes out of a column, `Wire` what goes into the filter, `Takes` what binding
accepts, `Unwritable` what no filter can be written with (NaN, infinity, a blank ID),
`Class` which values can be equal in a dictionary. `KeyError` stands
for the exception `_SAMPLE` raises for a field of JSON or bytes.

Left out: that names are identifiers and not blank; that a resource is a table
or a view; the numbers that describe an embedding (nothing compares them with
the database); the length of a proposition; `maximum_results`; the alias and
the shape of a traverse step; the wording and location of errors; refusals of
the planner that follows resolution, which `Pushdown` and `Optimizer` model.

### Discovery

`describe_catalog` is a function of the active catalog, so it takes no step:
`Listed`, `MarkedSemantic`, `IsTraversable` and `IsReversible` are what it says,
translated from its own code and not from the binder's. `DescriptionIsTrue`
compares it with every query bound or refused by `Catalog` and every join
planned or refused by `Traversal`, as far as names go: a relationship over JSON or
bytes keys is described as traversable and ends in a KeyError (see Findings). It
claims nothing of a name that two relationships answer to (one by an alias), because the
description lists both and a join follows the first, nor of a field marked "semantic" that
is not text, which the loader lets through and a condition is refused on.

### StatisticsCache, ObservationStore, Selectivity

`Ask` to `StoreEntry` are one call of `statistics()`: the clock, the look-up
under the lock, the two statements outside it, the store. What ANALYZE collected
is a version, and `history` says which version a table had when; a served
answer is compared with it. `Analyze`, `ReadFails` and `Invalidate` come at any
moment. A thread is told the columns of its own query, out of an entry that may
have been read for another's.

`RecordRows` and `Find` are the two operations of the observation store, each
one locked section; `order` is the `OrderedDict`. `last_use` and `streak` only
say what happened, so that what is kept can be compared with it.

`Describe` is ANALYZE on a column and what the provider makes of it, `Bound` what
another provider may know; the former has common
values with their frequencies, a histogram of the rest, the fraction of NULLs,
the number of distinct values. `PredicateSelectivity` and its helpers are
`estimate_selectivity` case by case, `ScanEstimate` the choice between an
observation and an estimate. The content of the table is known, so that
estimates are compared with the truth. Fractions are exact; the code's are
floating point, and nothing is said of rounding.

### QueryDeadline

Time in ticks. A read is a probe, a wait for a pooled connection, and a
statement; each has the limit the code gives it, and `CutOff` is the driver,
the pool or the database enforcing it. The coordinator's own work is bounded
by nothing in the code; `MaxWork` bounds it here.

### ConnectionPool

`LookUp` and `Obtain` are the two sections of `_pool_for` under the lock,
`RecordFailure` the one that remembers a refused probe, `Close` the locked
part of `close()`; probes, waits, leases and the closing of pools interleave
freely. psycopg's pool is modelled by what the adapter relies on: it hands out
a free connection, times out, and raises when closed. In `Obtain` the remembered
failure is dropped first; then the pool is found, created, or the factory raises.
`began` only says when a thread's probe began.

### CatalogRuntime

A catalog is the version read of each file and the status found for each
source. `Begin`, `ReadFile`, `Inspect`, `Conclude`, `Record` are the steps of
`refresh`; `LoadFails` is a load that is recorded, `LoadRaises` an error it
does not catch. `Bind` and `ProbeFor` are a query taking its snapshot and
planning a probing batch; `Edit` is somebody saving a file.

## 3. Runs

| run | states | asks |
|---|---|---|
| `assembly` | 3.6 million | three sources, three IDs, two writes, a ranked anchor (or its fallback) with and without embeddings: soundness, completeness, exact shortlist, guards over all batches of a read, honest teaching, and every step a step of the abstract `Answer` |
| `assembly_store` | 1.7 million | a separate vector store: no nearer record that can be ranked is lost |
| `join` | 2.8 million | every pair of three-row datasets, inner and left, either driver, one write: the page is the reference join's |
| `semantic` | 0.6 million | every verdict of four records (plain) or three (two passes of a join): exact page, no needless call, budgets, honest report |
| `pushdown` | 2.4 million | some ninety filters, two orders, three kinds of source, every content of two records, values that Python compares as SQL does or not: the answer is SQL's, unless YoDb evaluates a comparison that Python reads differently |
| `optimizer` | 0.18 million | 44 thousand problems: the choice is the exhaustive search's, its estimate is of the schedule chosen, ties keep the fixed rules, and the rule's strategy exists |
| `catalog_rules` | 0.26 million | 380 catalogs (every two of 28 edits, seven types of key) over 28 databases (every pair of key columns, or a fault): what is active resolves, reads are sound, joins and their batches are refused for known reasons only, equal keys meet, and an agent is told what it may name |
| `pool` | 0.19 million | three threads, two closers: nothing lost, doubled or leaked, leases within one pool, and a failure heard by all |
| `planning` | 1.1 million | what a plan is made from and how long it may run: up to three reads under budgets shorter and longer than the adapter's limits; two planners and one table analyzed, invalidated and failing; a store of two for three keys; every small column under ANALYZE with up to three buckets |
| `catalog_refresh` | 0.25 million | two refreshers, two files, two sources, a query: only validated catalogs are served, a query keeps one, and without overlap the last result names what is served |
| `deadline_docs` | violation | see Findings |
| `semantic_join_reasons` | violation | see Findings |

Why the bounds are enough. `Assembly`: three IDs are two matching records and
one that is not, or a learned set that needs two batches; two writes can change
a record both before and after it was read; three sources are an anchor, one
that narrows and one that does not (with the store in another run); with a shortlist of
one and two rows a source may be cut; the anchor hands over two rows at most, so that
three rows in two batches exceed its guard though no batch does; and rows without an
embedding are explored with one write, all others with two (`BareOnceWritten`), for a
record can be bare from the start or become so once. `Join`:
three keys in batches of two are a full batch and a rest, three rows overflow a
guard of two, and one write moves a row across batches. `Pushdown`: two records
are the fewest that an order or a limit can confuse; Python agrees with PostgreSQL on both
fields, or finds values of one never equal or in order (uuid against text) and of the
other equal and in order for some pairs only (Decimal against float). `Optimizer`: two required
sources and the anchor are the fewest for which a set is reached in several
ways and a later read still follows; keys in two batches, rows on both sides of
a guard and limits that some strategies meet and others do not are all in. `Catalog`: an edit breaks one rule, and two edits
the rules that need both sides of a reference; two datasets, two owners and a
vector store are the fewest that have every kind of source and reference.
Depth, nodes, page and lists are bounded so low (3, 4, 2, 2) that a filter or a
page at its bound is among the requests, with the bounds of a join (3 and 4
rows, 3 keys) above those of a caller as in the code. `QueryDeadline`: three reads
under a budget of four ticks are a read that has time, one cut off, and one that
must not start. `StatisticsCache`: two threads miss together, and the clock passes
the time to live between a read and its store. `ObservationStore`: three keys for
two places are the fewest with something to evict and something to keep; six uses
are enough for three observations of one of them between uses of the others. `Selectivity`: three values are a
common one, a bound and one in between, and two columns the fewest to combine.
These four share no variable, so a state of all is a state of each and a step is a
step of one: `MCPlanning` lets one of them run at a time (`part`), which visits
every state of each and checks the invariants of all in it. `ConnectionPool`: two
threads race for a pool while a third arrives late; two closers are the one that
closes and the one that returns at once. `CatalogRuntime`: two files can be read
on either side of an edit, two refreshers can overtake each other. Runs that do
not check deadlock are those in which the system rightly stops: a query ends
with an answer or an error.

Fairness. Only `JoinEnds` is a liveness property: the recursion that splits a batch must
end, whatever overflows and whoever writes. It assumes that the thread that runs the join
keeps running (`WF_vars(Advance)` in `Join`), which the operating system gives, together
with the time limits of the statements it waits for; no write is assumed to happen, and
none not to. That an assembly, a call of `acquire` or a refresh ends is not asked: the code
goes through a fixed list of steps, and what it waits for in between (a statement, a free
connection) ends or not by what drivers and databases do, not this code. In
`QueryDeadline` a tick cannot pass a limit that is due (the driver, the pool or the
database enforces it); no fairness is needed there, for what is checked is where a read
may be, not that it ends.

## 4. What is proved

For every value of the constants that satisfies the modules' assumptions
(finite sets of IDs or threads, distinct marker values, positive bounds):

* `AssemblyProofs`: `TypeCorrect`, `Soundness`, `Completeness`, `GuardedRows`,
  `HonestTeaching`. The inductive invariant `IInv` says that the history
  contains the present (`HistoryIsCurrent`); every row received was held
  (`RowsWereHeld`); a batched read in progress is of a source whose step is
  not over and has received exactly rows of IDs already sent (`BatchIsOpen`);
  and the learned IDs are the intersection of what the narrowing sources
  returned (`KeysAreTheIntersection`), besides the clauses that tie the answer
  to them. It is needed because none of the properties mentions batches or
  learned IDs, and each fails to be inductive without them: completeness rests
  on a record that was always held never leaving the learned set. Further
  `Implementation`, that `Assembly` implements `Answer`, and which
  records a shortlist keeps: `ExactShortlist` of a ranked anchor, `NearestSurvive`
  of a vector store. They rest on the theorems above and on `SInv`, which follows
  the `K` nearest from the search to the answer: a search leaves at most `K` rows,
  is never batched, and an answer restricted by one has no more records than it
  left; and, for the records it keeps, on `QInv`: while nobody writes, no source drops
  a matching ID in favour of a farther one (`NearerPass`), and a ranked read of the
  anchor comes after everything that narrows (`RankedIsExact`). That `K` ranks by an
  injective distance are at most `K` IDs is a lemma of its own.
* `JoinProofs`: `ExactJoin`, `JustRefusals`, `WritesAreBorne`. `JInv` says what was
  true when: every row in hand was held once (`HeldInThePast`), a probe that was
  answered is whole for its keys as long as nobody writes to that side
  (`ProbesAreWhole`), no key is at once done and waiting (`EachKeyOnce`), a page is
  made of all rows of both sides (`PageOfAll`), and a refusal has the rows that are
  too many (`RefusalIsJustified`). The split of a batch is where it is needed: what
  two halves bring together must be what the whole would have brought.
* `SemanticVerifyProofs`: `EarlyStopIsExact`, `NothingIsWasted`,
  `SpendingIsBounded`, `ReportsAreHonest`. `VInv` adds that whatever is
  unjudged comes after whatever is judged, and exactly the judged ones that qualify are
  known (`InOrder`), so that a full page is the final one (`PageIsKnown`) however many are
  left; that cost and time are within a call of their budgets (`WithinBudget`); and that
  there is a report once a pass is over (`Reported`).
* `PlanningProofs`, about four modules that share no state: `FreshStatistics`,
  `MostRecentRemembered`, `EstimatesFollow`, `BoundedOvershoot`, `SameAnswer`,
  `WholeQueriesAreAnswered`. A thread's reading was true of the table at some tick since it asked
  (`ReadsAreRecent`), so an entry was true since its expiry less the time to live
  (`EntriesAreRecent`), whichever thread stored it and whatever it overwrote; clocks
  and history only grow (`TimeIsSound`). Of the observation store, the order of the
  dictionary is the order of last use and holds every key used later than one it
  holds (`UseOrder`), which makes evicting its first entry evict the least recent;
  and each time the same count comes again, the remembered number is half as far from it
  (`KeyFollows`, which also says that the halving leaves no rest). The overrun of a
  budget follows from where in the read time may be (`ReadTimes`).
  `SameAnswer` and `WholeQueriesAreAnswered` are about `Pushdown`, for every filter, order,
  page size, capability and dataset. `AnswerIsReference` speaks of the end only, so
  `PushdownInv` follows the query there: the plan is what planning makes of the query
  (`PlanIsMade`); each source read so far returned only rows that pass its scan, and all of them
  that every narrowing source passes (`Joined`), or just the first page of what SQL would
  return if the page was pushed (`ReadsFollowThePlan`); and the rows handed on are the joined
  ones, then the matching ones (`RowsFollowTheReads`). A page is pushed to a source that
  answers the whole query, so nothing it cuts was needed. The steps rest on facts about the
  functions, each an induction over filters (`OfEveryFilter`, from the least depth of a
  counterexample) or orders: the cases of `rows.py` make the same of a filter as SQL
  (`SqlIsTruth`, where `ReadAlike` leaves agree); the truth of a filter is that of its fields (`SameFieldsSameTruth`); a
  filter holds when its top-level conjuncts do (`ConjunctsDecide`); a condition that is pushed
  to a contributor fails without a row (`LocalConditionsNeedRows`, through
  `NoFieldsNullTruth`), which is why asking for its rows only loses none; YoDb's order is
  PostgreSQL's (`SamePrecedence`) and, as it ends with `id`, strict (`PrecedenceIsStrict`); and
  the first rows, put in order again, are the first rows (`FirstOfFirst`).
* `ConnectionPoolProofs`: `BoundedLeases`, `CloseIsFinal`, `NoLostPool`,
  `FailuresStayRemembered`. The invariant says that an open pool is registered or
  being closed, that a reference has one open pool at most, and that after `close()`
  took the lock nothing is registered any more; it is the check of `closed` in the
  second locked section that keeps it. A failure is remembered from the moment it is
  recorded, and every probe of its reference still under way had begun by then; the step
  needs that nobody looks up a reference whose memory has not ended and goes on to probe it.
* `CatalogRuntimeProofs`: `TypeCorrect`, `ServedIsValidated`,
  `OneSnapshotPerQuery`, `FailureKeepsActive`, `ReportsMatch`. The invariant adds that
  files read so far lie between the files as the refresh began and as they are now,
  and, while refreshes do not overlap, that the result about to be recorded names the
  catalog active by then (`ReportInv`).
* `CatalogProofs`, about `Catalog`, `Traversal` and `Discovery`:
  `EveryBoundQueryResolves`, `SoundReads`, `KnownJoinRefusals`, `KeysMeet`,
  `TrueDescription`. The run looks at two edits of one catalog; the theorems are about
  every catalog, database, query and traversal. The invariant `Gates` is what each gate
  leaves behind: a catalog that passed is valid in itself and against its databases
  (`CatalogIsChecked`), a bound query passed every check of the binder, and a resolved
  one has its sources (`QueryIsBound`), and of a join under way both sides were planned
  (`JoinIsPlanned`). None of the properties is inductive without it, for the state only
  says how far a query has come. The rest is about the gates themselves, as functions: an
  error is the first of a list, so that no error means that every check passed
  (`BindingIsOfAllParts`) and an error names the check that failed (`RefusedFor`); what is
  bound has its sources (`BoundQueriesResolve`); a side fit to be asked alone is fit as a
  side (`FitSidesArePlanned`), and a list of keys makes it unfit only when its filter is
  full (`ProbesAreBound`), and a batch is refused for the value of a key only
  (`BatchesAreRefusedForAValue`). That an identity that is only `id` is a key rests on no field
  being mapped twice, so that the columns picked for it are just that of `id`
  (`PickedAre`, `ColumnsAreFit`). The description
  is taken apart name by name (`KeepingToMeans`) and compared with the binder for a
  query and for a join (`QueryIsTold`, `JoinIsTold`).

* `OptimizerProofs`: `ChoiceIsBest`, `EstimateIsHonest`, `RulesAreKeptOnTies`,
  `RuleIsFound`, for problems of any number of sources of any sizes and prices. The
  properties speak of the end of the search only, so the invariant `SearchInv` says what each
  layer of the dynamic programme leaves behind: `best` holds exactly the sets of sources that
  some readable order has, up to the layer's size (`AllAreBest`), each with a reading
  that runs at the stated cost, as cheap as any reading of that set, and nearest to the rules'
  order among those equally cheap (`IsBest`); and the plans on offer are feasible, none
  cheaper is missing, and each keeps the rules where it may (`KeepsRules`, `Kept`). The
  clause about ties is needed for the cost as well as for the choice, because ties are
  resolved on smaller sets, and what was dropped there must not have been wanted later.
  The step is Bellman's argument: the rows known after a set do not depend on its order
  (`RunIsSummed`), so a reading of a larger set goes on from the best of the set
  without its last source (`ReadingGoesOn`, `ReadingWentOn`, `RunGoesOn`), in which no order
  beats the one kept (`OneMoreIsBest`, `LayerIsBest`), and only one order is nearest to the
  rules' (`RulesAreNearest`). That the folds over an order are what the code's loops
  compute is shown by least counterexample over their length (`FoldExists`, `FoldIsNat`).

`TypeCorrect` and `FailureKeepsActive` are left to the proofs and take no place in a run.

What the assumptions exclude, and why the code does: a ranked anchor and a vector
store together (`Ranked => Store = {}`; a plan has one search, `semantic/planning.py`);
row counts without
a largest among them (`ObservationStore`; a table has a size); a report that looks like
the absence of one (`NoReport \notin Reports`); a catalog whose mappings name something
twice, or a field `*` (`IsCatalog`; a YAML mapping is read into a dictionary, and
`_validate_identifier` takes lower-case identifiers only); a request that is no list where
it should be one (`IsQuery`; the parser refuses the shape); limits of zero on the depth and
size of a filter, the driving and probing rows and the keys of a batch (constants of the
code that are positive); problems without exactly one anchor or with negative estimates, latencies
or prices, and limits and sizes of zero where they are given (`IsProblem`; `Problem` picks
the anchor and names sources once, the `__post_init__` checks of its input records refuse negative
numbers, and a key limit of 0 becomes none); filters nested without end, or parts of them
that are not filters (`FilterAssumption`; the parser stops at 32 levels, `query/parser.py:33`), an order
that does not end with `id` (binding appends it), a page of no records (the parser refuses it),
IDs and values that are not ordered like numbers, and a NULL that is a number (`PushdownAssumption`). Nothing is assumed of what a database holds.

Only model-checked: `Selectivity`, and `JoinEnds`. Liveness under fairness
and `ENABLED` are out of the prover's reach. `EstimatesFitTheTable` compares sums and products
over the contents of columns, as fractions in lowest terms, with a count of the rows of the
whole table: `Gcd`, `Estimate` and `Keeps` are RECURSIVE operators, and what the folds under
them compute for every table is an induction over data.

## 5. Findings

* `deadline_docs`: a read gives its remaining time in full to the wait for a
  connection and again to the statement, and nothing looks at the clock before
  the answer. A query can be answered at twice its `timeout_seconds` plus a
  probe, although the reference calls it a limit for the whole query.
  `OvershootIsBounded` (checked and proved) is what does hold.
* `semantic_join_reasons`: in a join the semantic report is cut down to the IDs
  of the root rows, although its records may be of the traversed side: the
  reasons of returned records are lost, or reasons of other records reported.

Noted while modelling, without a run of their own:

* "It does not return a wrong or partial answer" (docs/reference/limits.mdx:6-8) is not
  true of a condition that YoDb evaluates over values of different Python types. A uuid is
  bound as text (query/validation.py:300-304) and read as UUID, which rows.py:49-54 never
  finds equal: `uuid eq` beside a condition that is not pushed, such as `contains`, loses
  every record, where the same condition pushed to the source keeps them; `not` turns the
  loss into an excess. A `numeric` column meets a float as Decimal, and a `date` column a
  datetime, which it is never equal to and where `<` and `>` raise TypeError and count as
  false. `AnswerIsReference` excludes just these
  (`Misread`), and without that clause TLC finds such an answer in the run `pushdown`.
* A pool factory that raises (connections/postgres.py:178) does so after the failure of its
  reference was forgotten (175), as the probe had just succeeded; `FailuresAreRemembered`
  therefore asks of an early end of the memory that a probe succeeded, not that there is a pool.
* A ranked read asks for `embedding IS NOT NULL` (compilation/postgres.py:151-153), also when
  it ranks on the anchor: with a shortlist a record without an embedding is never returned,
  whatever its other fields, while verify-all returns it.
* A batch of join keys is one filter, so that one infinite, NaN or blank key of a driving row
  fails the whole join (query/validation.py:312); and a filter of the probing side with no room
  for one more condition fails it with a limit that its caller kept. `JoinRefusalsAreKnown`
  names both.

* Each pass of a join gets the whole cost budget of the query; refreshes that
  overlap may record their results in another order than they activated
  (`ReportMatchesActive` is about those that do not).
* `client.describe()`, "What can be queried" (client.py:173), lists internal fields,
  which a query may not name, and marks fields `semantic` although no extension may be
  configured; `describe_catalog` of the MCP server does neither. Both mark a field that
  is not text. `YoDb.close()` tests and calls `_close` in two steps, so that two threads
  closing at once may meet `None`, although the client "can be shared between threads"
  (docs/reference/python.mdx:93).
* `estimate_selectivity` says it returns a fraction in [0,1] (statistics.py:167); the
  floor of one row over a learned total below one row exceeds it. The optimizer caps
  the fraction, so nothing follows. NOT over a column with NULLs counts the NULL rows,
  which SQL leaves out. The provider drops common values of timestamps while the
  histogram leaves them out too, so that `RangesAreClose` is claimed only of columns
  that histogram and kept values cover. These are the reasons for its conditions.
* Join keys make a round trip through JSON. An `id` in an integer column passes
  inspection and cannot be sent as a key; so do `numeric` and `date` columns; an
  `id` held as `uuid` on one side and text on the other joins to nothing, although
  docs/getting-started/overview.mdx:72 speaks of one ID for one customer. A field
  of JSON or bytes raises KeyError in `_SAMPLE` (joins/planner.py:47), although
  the join field "can be any field" (docs/query/joins.mdx:105, and
  docs/catalog/relations.mdx:71-76 excludes none), and `describe_catalog` calls such a
  relationship traversable (mcp_server.py:162-166). `EqualKeysMeet`
  holds for the columns it names, and these cases are the reason it names them.
* inspection/postgres.py:297 looks an identity up as a tuple in the order of the
  `fields` mapping: the identity `[id, id]` is not looked up at all, and a composite
  one passes though `id` alone is no key. `ReadsAreSound` therefore promises one
  row per ID only where the identity is `id` alone. Embedding columns are not
  compared with the database.
* A contributor without `id` in its identity passes loading and inspection and
  fails every query that needs it, the gap `ActiveCatalogResolves` describes.
* `is_null` is refused on JSON and bytes fields, against docs/query/query-model.mdx:80;
  the order of a join accepts them while that of a plain query refuses them; a quality
  bar without a semantic condition is refused in a plain query and dropped in a join;
  a field selected twice is refused in a plain query and in a traverse step, and taken
  once of a join's root;
  the alias of an earlier relationship hides a later relationship's own name.
* No adapter inspects a graph source, so a catalog with one never becomes active
  and the planner's refusal of graph edges is unreachable.

## 6. Plan

In order of importance to what YoDb promises. Done: assembly and its abstract
specification, joins, semantic verification, pushdown, the optimizer with the
semantic rule; the pool, the deadline, the runtime; the rules of the catalog, of
binding and resolution, the planning of joins and the description of the catalog;
the statistics, their cache, store and estimates.

1. An abstract join (pairs of records between those held throughout and those ever
   held), implemented by `Join` as a refinement; what it would promise is proved of
   `Join` itself.
2. Proofs about `Selectivity`, for columns of any content.
3. The result side of the MCP server (its note on a full page) with the page of `Pushdown`.

Not modelled, and why: the text of SQL statements and of messages, parsing of
requests and YAML (their shape), plan explanations and fingerprints (formatting); the client,
the command line and the rest of the MCP server (wiring without state); rounding in
estimates (floating point); SQL against `pg_catalog` (I/O).
