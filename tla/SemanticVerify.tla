--------------------------- MODULE SemanticVerify ---------------------------
(***************************************************************************)
(* The SEMANTIC_FILTER operator (semantic/execution.py): the candidates of *)
(* a query are judged by a model in batches, in the order the caller asked *)
(* for, until the page is full, within a cost and a latency budget.  What  *)
(* was done is reported beside the rows.                                   *)
(*                                                                         *)
(* A plain query judges once.  A join runs each of its sides as a query of *)
(* its own: the driving side once, the probing side once per batch of      *)
(* keys, all into the same trace.  A query lists its judgings (passes)      *)
(* by the side they belong to.                                             *)
(*                                                                         *)
(* IDs are numbered in the order of the page.                              *)
(***************************************************************************)
EXTENDS Integers, Sequences, FiniteSets

CONSTANTS
    Ids,            \* logical IDs (each dataset has its own records under them)
    Queries,        \* the queries: records with the fields of QueryShape
    BatchSize,      \* SemanticRuntime.batch_size
    MaxCandidates,  \* SemanticPolicy.maximum_candidates
    CallCost,       \* the most one call of the verifier costs
    CallTime,       \* the longest one call takes
    NoShortlist,    \* "the pass verified every candidate"
    NoReport        \* nothing was judged yet

Sides    == {"left", "right"}
Verdicts == {"holds", "doubtful", "fails", "no_text"}

\* A query: the sides its passes judge ("left" is the root; a plain query has
\* one pass), the records its datasets hold, whether the plan ranks them by
\* vector distance first, the records that fill the page of a pass, and
\* constraints.maximum_cost and maximum_latency_ms.
QueryShape == [passes : Seq(Sides) \ {<<>>}, joined : BOOLEAN, ids : SUBSET Ids,
               shortlists : BOOLEAN, first : Nat \ {0}, max_cost : Nat,
               max_latency : Nat \ {0}]

Plans == {"verify_all", "vector_shortlist"}

\* A SemanticReport: the plan, its counts, and the side each record belongs to.
Reports == [plan : Plans, considered : Nat, shortlisted : Nat \cup {NoShortlist},
            verified : Nat, qualified : Nat, records : UNION {[S -> Sides] : S \in SUBSET Ids}]

ASSUME SemanticAssumption ==
    /\ Ids \subseteq Nat /\ IsFiniteSet(Ids)
    /\ \A q \in Queries : /\ q \in QueryShape
                          /\ ~q.joined => q.passes = <<"left">>
    /\ {BatchSize, MaxCandidates, CallTime} \subseteq Nat \ {0}
    /\ CallCost \in Nat
    /\ NoShortlist = -1
    /\ NoReport \notin Reports

VARIABLES
    query,      \* the query
    verdict,    \* verdict[s][i]: what the model says of record i of side s
    pass,       \* the pass under way or next
    phase,      \* "idle" between passes, "judging", "answered" or "failed"
    plan,       \* actual: the plan that really ran in this pass
    rows,       \* the candidates of this pass
    unsent,     \* candidates not judged yet
    qualified,  \* candidates that qualified in this pass
    cost,       \* usage.cost of this pass
    elapsed,    \* time since this pass began
    plans,      \* the plans of the passes that ended
    seen,       \* seen[s]: candidates of side s of the passes so far
    kept,       \* kept[s]: records of side s that qualified so far
    report,     \* trace.reports["semantic"]
    page        \* the records returned: pairs of a side and an ID

pass_vars == <<plan, rows, unsent, qualified, cost, elapsed>>
query_vars == <<query, verdict>>
vars == <<query_vars, pass, phase, pass_vars, plans, seen, kept, report, page>>

Judging == {query.passes[n] : n \in DOMAIN query.passes}
Side    == query.passes[pass]

-----------------------------------------------------------------------------
(* Records, verdicts and reports.                                          *)

\* The n first of a set of IDs.
Earliest(n, S) == {i \in S : Cardinality({j \in S : j < i}) < n}
Latest(n, S)   == {i \in S : Cardinality({j \in S : j > i}) < n}

\* A positive verdict that reaches minimum_quality.
Qualifies(s, i) == verdict[s][i] = "holds"

\* A record with no text cannot be judged and never qualifies.
WithText(s, S) == {i \in S : verdict[s][i] # "no_text"}

\* (mutant: the candidates of the earlier passes are not counted)
MergedLosesCandidates(mine, theirs) ==
    IF theirs = NoReport THEN mine
    ELSE [mine EXCEPT !.verified = @ + theirs.verified,
                      !.qualified = @ + theirs.qualified]

\* (mutant: the plan and the shortlist are those of the last pass)
MergedLastPlan(mine, theirs) ==
    IF theirs = NoReport THEN mine
    ELSE [mine EXCEPT !.considered = @ + theirs.considered,
                      !.verified = @ + theirs.verified,
                      !.qualified = @ + theirs.qualified]

\* combined_with: a pass added to the passes before it.  The records are keyed
\* by ID alone; those of the later pass win.
Merged(mine, theirs) ==
    LET lists == {r.shortlisted : r \in {mine, theirs}} \ {NoShortlist}
    IN  IF theirs = NoReport THEN mine
        ELSE [plan        |-> IF lists # {} THEN "vector_shortlist" ELSE mine.plan,
              considered  |-> mine.considered + theirs.considered,
              shortlisted |-> IF mine.shortlisted = NoShortlist THEN theirs.shortlisted
                              ELSE IF theirs.shortlisted = NoShortlist THEN mine.shortlisted
                              ELSE mine.shortlisted + theirs.shortlisted,
              verified    |-> mine.verified + theirs.verified,
              qualified   |-> mine.qualified + theirs.qualified,
              records     |-> [i \in DOMAIN mine.records \cup DOMAIN theirs.records |->
                                  IF i \in DOMAIN mine.records THEN mine.records[i]
                                  ELSE theirs.records[i]]]

\* What a finished pass reports.
PassReport ==
    [plan        |-> plan,
     considered  |-> Cardinality(rows),
     shortlisted |-> IF plan = "vector_shortlist" THEN Cardinality(rows) ELSE NoShortlist,
     verified    |-> Cardinality(WithText(Side, rows) \ unsent),
     qualified   |-> Cardinality(qualified),
     records     |-> [i \in qualified |-> Side]]

\* restricted_to: the metadata of the returned rows only.
Restricted(ids) ==
    IF report = NoReport THEN NoReport
    ELSE [report EXCEPT !.records = [i \in DOMAIN report.records \cap ids |-> report.records[i]]]

-----------------------------------------------------------------------------
(* The operator.                                                           *)

\* The plan that ran: a ranked read that was replaced by a plain one left
\* every candidate to verify.
ActualPlan(fell_back) == IF query.shortlists /\ ~fell_back THEN "vector_shortlist" ELSE "verify_all"

\* The input of the next pass is read.  Batches of join keys are disjoint, so
\* the passes of one side never see a record twice.  The time the read takes
\* counts against the latency budget.
StartPass(S, fell_back) ==
    /\ phase = "idle" /\ pass <= Len(query.passes)
    /\ S \subseteq query.ids \ seen[Side]
    /\ fell_back => query.shortlists
    /\ rows' = S
    /\ plan' = ActualPlan(fell_back)
    /\ seen' = [seen EXCEPT ![Side] = @ \cup S]
    /\ unsent' = WithText(Side, S)
    /\ qualified' = {}
    /\ cost' = 0
    /\ elapsed' \in 0 .. CallTime
    /\ phase' = IF Cardinality(S) > MaxCandidates THEN "failed" ELSE "judging"
    /\ UNCHANGED <<query_vars, pass, plans, kept, report, page>>

\* (mutant: the page counts as full only when it holds one record too many)
OverFull == Cardinality(qualified) > query.first

\* (mutant: the page counts as full one record early)
NearlyFull == Cardinality(qualified) + 1 >= query.first

PageFull == Cardinality(qualified) >= query.first

\* Everything was judged or the page is full.
PassIsOver == unsent = {} \/ PageFull

\* The latency budget, looked at before each batch.
Late == elapsed >= query.max_latency

\* (mutant: each batch has a cost budget of its own)
BatchOverspends(c) == c > query.max_cost

\* The cost budget, looked at after each batch.
Overspends(c) == cost + c > query.max_cost

\* The next batch is judged, at some cost and in some time.  The pass fails if
\* a budget is spent; a batch paid for is counted even then.
Verify(c, time) ==
    LET batch == Earliest(BatchSize, unsent)
    IN  /\ phase = "judging" /\ unsent # {} /\ ~PageFull
        /\ ~Late
        /\ cost' = cost + c
        /\ elapsed' = elapsed + time
        /\ IF Overspends(c)
           THEN phase' = "failed" /\ UNCHANGED <<unsent, qualified>>
           ELSE /\ unsent' = unsent \ batch
                /\ qualified' = qualified \cup {i \in batch : Qualifies(Side, i)}
                /\ UNCHANGED phase
        /\ UNCHANGED <<query_vars, pass, plan, rows, plans, seen, kept, report, page>>

OutOfTime ==
    /\ phase = "judging" /\ unsent # {} /\ ~PageFull
    /\ Late
    /\ phase' = "failed"
    /\ UNCHANGED <<query_vars, pass, pass_vars, plans, seen, kept, report, page>>

\* The pass is reported.
EndPass ==
    /\ phase = "judging"
    /\ PassIsOver
    /\ report' = Merged(PassReport, report)
    /\ kept' = [kept EXCEPT ![Side] = @ \cup qualified]
    /\ pass' = pass + 1
    /\ phase' = "idle"
    /\ plans' = plans \cup {plan}
    /\ UNCHANGED <<query_vars, pass_vars, seen, page>>

\* A source or a provider fails, returns a verdict for the wrong record, or the
\* time limit of the whole query is reached.
ProviderFails ==
    /\ phase \in {"idle", "judging"}
    /\ phase' = "failed"
    /\ UNCHANGED <<query_vars, pass, pass_vars, plans, seen, kept, report, page>>

\* The answer of a plain query: the page, with the metadata of its records.
Answer ==
    /\ ~query.joined /\ phase = "idle" /\ pass > Len(query.passes)
    /\ LET ids == Earliest(query.first, qualified)
       IN  /\ page' = {"left"} \X ids
           /\ report' = Restricted(ids)
    /\ phase' = "answered"
    /\ UNCHANGED <<query_vars, pass, pass_vars, plans, seen, kept>>

\* The answer of a join: some of the records its sides kept (all records of a
\* side that judges nothing).  The metadata is restricted to the IDs of the
\* joined rows, which are those of the root's records.  A join without keys to
\* probe has no probing pass.
AnswerJoin(roots, others) ==
    /\ query.joined /\ phase = "idle"
    /\ roots \subseteq (IF "left" \in Judging THEN kept["left"] ELSE query.ids)
    /\ others \subseteq (IF "right" \in Judging THEN kept["right"] ELSE query.ids)
    /\ others # {} => roots # {}
    /\ page' = ({"left"} \X roots) \cup ({"right"} \X others)
    /\ report' = Restricted(roots)
    /\ phase' = "answered"
    /\ UNCHANGED <<query_vars, pass, pass_vars, plans, seen, kept>>

Init ==
    /\ query \in Queries
    /\ verdict \in [Judging -> [query.ids -> Verdicts]]
    /\ pass = 1 /\ phase = "idle" /\ plan = "verify_all"
    /\ rows = {} /\ unsent = {} /\ qualified = {}
    /\ cost = 0 /\ elapsed = 0
    /\ plans = {}
    /\ seen = [s \in Sides |-> {}] /\ kept = [s \in Sides |-> {}]
    /\ report = NoReport
    /\ page = {}

Next == \/ \E S \in SUBSET Ids, fell_back \in BOOLEAN : StartPass(S, fell_back)
        \/ \E c \in 0 .. CallCost, time \in 0 .. CallTime : Verify(c, time)
        \/ OutOfTime \/ EndPass \/ Answer
        \/ \E roots, others \in SUBSET Ids : AnswerJoin(roots, others)
        \/ ProviderFails

Spec == Init /\ [][Next]_vars

-----------------------------------------------------------------------------
(* Properties.                                                             *)

Qualifying(S) == {i \in S : Qualifies("left", i)}

\* Early stop is exact: the page of a plain query is the one that judging every
\* candidate would give.
PageIsExact ==
    phase = "answered" /\ ~query.joined => page = {"left"} \X Earliest(query.first, Qualifying(rows))

\* No batch is judged that the page does not need: what was judged before the
\* last batch does not fill the page.
NoNeedlessCalls ==
    LET judged == WithText(Side, rows) \ unsent
    IN  phase = "judging" =>
            Cardinality({i \in judged \ Latest(BatchSize, judged) : Qualifies(Side, i)}) < query.first

\* A pass spends at most one call over either budget, and nothing is kept of a
\* pass that overspent.
BudgetIsKept ==
    /\ cost <= query.max_cost + CallCost
    /\ elapsed <= query.max_latency - 1 + CallTime
    /\ phase \in {"idle", "answered"} => cost <= query.max_cost

\* The report never breaks the rules its own constructor enforces (it would
\* throw the paid answer away): counts are ordered, and a shortlist is reported
\* exactly for a shortlisted plan.  And one shortlisted pass makes the whole
\* answer approximate: "verify_all" is reported only if no pass left a candidate
\* out.
ReportIsHonest ==
    report # NoReport =>
        /\ report.qualified <= report.verified
        /\ report.verified <= report.considered
        /\ (report.plan = "vector_shortlist") <=> (report.shortlisted # NoShortlist)
        /\ (report.plan = "vector_shortlist") <=> ("vector_shortlist" \in plans)

\* Per returned record, why it qualified: the report holds a decision about
\* each returned record of a side that was judged, made on that very record,
\* and about no other record.
ReasonsMatchRows ==
    phase = "answered" =>
        /\ \A r \in page : r[1] \in Judging =>
              r[2] \in DOMAIN report.records /\ report.records[r[2]] = r[1]
        /\ report # NoReport =>
              \A i \in DOMAIN report.records : <<report.records[i], i>> \in page
=============================================================================
