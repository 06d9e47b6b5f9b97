------------------------------ MODULE Optimizer ------------------------------
(***************************************************************************)
(* The cost-based choice of a read order and of a semantic strategy        *)
(* (planning/optimizer.py), fed by planning/operators/combine.py and       *)
(* semantic/planning.py: a dynamic programme over the sets of sources that *)
(* bound the result, then one comparison of what each strategy adds to it. *)
(* The schedule chosen here is the one Assembly runs, in any order.        *)
(*                                                                         *)
(* The cost model is a pure function of the problem p (the code's class    *)
(* Problem, whose methods the operators of the first sections are); only   *)
(* the search has state.  Estimates are exact numbers: rows, latency and   *)
(* money are counted in parts of 1/Scale, with Scale a multiple of every   *)
(* denominator that the products of fractions give.  (The code uses        *)
(* floating point and treats costs as equal within 1e-9.)                  *)
(***************************************************************************)
EXTENDS Integers, Sequences, FiniteSets, FiniteSetsExt

CONSTANTS
    Anchor,         \* the anchor's name
    Store,          \* the vector store's name
    Universe,       \* total rows of the anchor
    Scale,          \* parts of a row, a millisecond or a unit of money
    NoBound,        \* None, where a bound may be given
    NoKeys,         \* no source that bounds the result was read yet
    Problems,       \* the problems to look at
    Rates,          \* SemanticCosts: what a judged record and a call cost
    MoneyWeight,    \* CostParameters.money_weight
    ExactWeight,    \* an objective is compared with the weight of its variant:
    ShortlistWeight \* their quotient is 1 / (1 - approximation_min_saving)

-----------------------------------------------------------------------------
(* What a problem is made of.  Row estimates, latencies and prices are not *)
(* negative; sizes and bounds are positive where they are given.           *)

Positive       == Nat \ {0}
NumberOrNone   == Nat \cup {NoBound}
PositiveOrNone == Positive \cup {NoBound}

\* SourceInput and its SourceCostProfile.
Profiles == [filtered : Nat, total : Nat, call : Nat, per_key : Nat, per_row : Nat,
             key_limit : PositiveOrNone, row_cap : NumberOrNone]

\* SemanticPolicy, the page, what the sources allow, and whether part of the
\* filter is left to YoDb (unpushed is one over the share it keeps).
Questions == [preference : {"none", "auto", "verify_all", "shortlist"}, able : BOOLEAN, via_store : BOOLEAN,
         first : Positive, unpushed : Positive, maximum_candidates : Positive, maximum_shortlist : Positive,
         minimum_shortlist : Positive, oversample : Positive, share : Nat \X Nat]

Required(p)  == Range(p.required)
Narrowing(p) == Required(p) \cup {Anchor}
Sources(p)   == Narrowing(p) \cup p.optional \cup (IF p.semantic.via_store THEN {Store} ELSE {})

IsProblem(p) ==
    /\ p.required \in Seq(Required(p)) /\ {Anchor, Store} \cap Required(p) = {}
    /\ IsInjective(p.required)
    /\ IsFiniteSet(p.optional)
    /\ \A s \in Sources(p) : p.source[s] \in Profiles
    /\ p.semantic \in Questions
    /\ p.transfer_bound \in PositiveOrNone /\ p.key_batches \in Positive
    /\ p.maximum_money \in NumberOrNone /\ p.maximum_latency \in NumberOrNone
    /\ p.known \in BOOLEAN /\ p.maximum_dp_sources \in Positive

ASSUME OptimizerAssumption ==
    /\ Universe \in Nat /\ Scale \in Positive
    /\ NoBound \notin Nat /\ NoKeys \notin Nat
    /\ Anchor # Store
    /\ \A p \in Problems : IsProblem(p)
    /\ Rates \in [batch : Positive, call : Nat, per_row : Nat, embed : Nat, money_per_call : Nat,
                  money_per_row : Nat, embed_money : Nat, rank : Nat, per_match : Positive]
    /\ MoneyWeight \in Nat
    /\ ExactWeight \in Positive /\ ShortlistWeight \in Positive /\ ShortlistWeight >= ExactWeight

VARIABLES
    problem,    \* what is to be planned
    best,       \* best[S]: the cheapest way found to have read exactly the sources S
    layer,      \* how many sources the sets treated so far have
    options,    \* the plans that satisfy the caller's limits
    outcome     \* "searching", "weighing", "cost_based" or "rules"

vars == <<problem, best, layer, options, outcome>>

-----------------------------------------------------------------------------
(* The cost of one read.                                                   *)

\* x rows times pass_fraction: what source s keeps of them if what it filters
\* on is independent of everything else.
Passed(p, x, s) ==
    LET n == IF s \in Narrowing(p) THEN p.source[s].filtered ELSE p.source[s].total
    IN  IF Universe = 0 THEN 0 ELSE (x * Min({Universe, n})) \div Universe

\* What all of the sources S keep.
Left(p, x, S) == FoldSet(LAMBDA s, y : Passed(p, y, s), x, S)

\* The IDs known after the sources S were read, in whatever order.
KeysAfter(p, S) == IF S = {} THEN NoKeys ELSE Left(p, Universe * Scale, S)

Bound(p, s) == IF NoBound \in {p.transfer_bound, p.source[s].key_limit} THEN NoBound
               ELSE Min({p.transfer_bound, p.source[s].key_limit})

CeilDiv(x, n) == (x + n - 1) \div n
Batches(p, s, keys) == Max({1, CeilDiv(keys, Bound(p, s) * Scale)})

RowsRead(p, s, keys, restrict) ==
    IF restrict THEN Passed(p, keys, s) ELSE p.source[s].filtered * Scale

CanRead(p, s, keys, restrict) ==
    /\ restrict => /\ keys # NoKeys /\ Bound(p, s) # NoBound /\ Bound(p, s) > 0
                   /\ Batches(p, s, keys) <= p.key_batches
    /\ p.source[s].row_cap # NoBound =>
           RowsRead(p, s, keys, restrict) <= p.source[s].row_cap * Scale

Latency(p, s, keys, restrict) ==
    LET profile == p.source[s]
    IN  (IF restrict THEN profile.call * Scale * Batches(p, s, keys) + profile.per_key * keys
                     ELSE profile.call * Scale)
        + profile.per_row * RowsRead(p, s, keys, restrict)

Readable(p, s, keys) == \E restrict \in BOOLEAN : CanRead(p, s, keys, restrict)

\* (mutant: a read that can be restricted always is, as the fixed rules do)
AlwaysRestricts(p, s, keys) == CanRead(p, s, keys, TRUE)

\* best_read: the cheaper of the two, the restricted one if they are equal.
Restricts(p, s, keys) ==
    /\ CanRead(p, s, keys, TRUE)
    /\ CanRead(p, s, keys, FALSE) => Latency(p, s, keys, TRUE) <= Latency(p, s, keys, FALSE)

BestLatency(p, s, keys) == Latency(p, s, keys, Restricts(p, s, keys))

-----------------------------------------------------------------------------
(* Semantic strategies (semantic/planning.py).                             *)

NoSemantic == [plan |-> "none", size |-> 0]
VerifyAll  == [plan |-> "verify_all", size |-> 0]
Shortlist(n) == [plan |-> "shortlist", size |-> n]

Asked(p) == p.semantic.preference # "none"

\* What an ID set that restricts the anchor is bound by.
AnchorBounds(p) == {p.source[Anchor].key_limit, p.transfer_bound}

\* A shortlist is legal: the vectors can be ranked (able), nothing of the
\* filter is left to YoDb, and shortlisted IDs can restrict the anchor.
Eligible(p) == /\ p.semantic.able /\ p.semantic.unpushed = 1
               /\ p.semantic.via_store => NoBound \notin AnchorBounds(p)

RulePlan(p) == IF p.semantic.preference # "verify_all" /\ Eligible(p) THEN "shortlist" ELSE "verify_all"

\* The largest shortlist allowed: the verifier must be able to take it, the
\* ranking source to return it, and, if a separate store ranks, the anchor to
\* be restricted by all of it.
Cap(p) == Min({p.semantic.maximum_candidates, p.semantic.maximum_shortlist}
              \cup (IF p.semantic.via_store THEN AnchorBounds(p) ELSE {}))

\* (mutant: the rule's shortlist is not cut to what is allowed)
UncutRuleSize(p) == Max({p.semantic.minimum_shortlist, p.semantic.first * p.semantic.oversample})

RuleSize(p) == Min({Cap(p), Max({p.semantic.minimum_shortlist, p.semantic.first * p.semantic.oversample})})

\* shortlist_ladder: the rule's size, doubled while it is below the cap, and
\* the cap.
Ladder(p) == {n \in {RuleSize(p) * 2 ^ k : k \in 0 .. Cap(p)} : n < Cap(p)} \cup {Cap(p)}

Variants(p) ==
    IF ~Asked(p) THEN {NoSemantic}
    ELSE (IF p.semantic.preference = "shortlist" THEN {} ELSE {VerifyAll})
         \cup (IF RulePlan(p) = "shortlist" THEN {Shortlist(n) : n \in Ladder(p)} ELSE {})

\* What the fixed rule runs.
RuleVariant(p) == IF ~Asked(p) THEN NoSemantic
                  ELSE IF RulePlan(p) = "shortlist" THEN Shortlist(RuleSize(p)) ELSE VerifyAll

\* The records that reach the verifier, and how many of them it judges before
\* the page is expected to be full.
Judgeable(p, v, c) == IF v.plan = "verify_all" THEN c.count \div p.semantic.unpushed ELSE c.count
Judged(p, v, c) == Min({Judgeable(p, v, c), p.semantic.first * Rates.per_match * Scale})
Calls(p, v, c)  == CeilDiv(Judged(p, v, c), Rates.batch * Scale)

\* The variant meets its own requirements: the verifier takes all the
\* candidates, or the shortlist is expected to hold enough of the matches.
\* (PowerLawRecall, solved for the share of the pool a shortlist must cover.)
CanVerify(p, v, c) ==
    /\ v.plan = "verify_all" => Judgeable(p, v, c) <= p.semantic.maximum_candidates * Scale
    /\ v.plan = "shortlist" =>
          \/ c.pool <= v.size * Scale
          \/ v.size * Scale * p.semantic.share[2] >= c.pool * p.semantic.share[1]

OwnLatency(p, v, c) ==
    IF v.plan = "none" THEN 0
    ELSE Calls(p, v, c) * Rates.call * Scale + Judged(p, v, c) * Rates.per_row
         + (IF v.plan = "shortlist" THEN Rates.embed * Scale ELSE 0)
OwnMoney(p, v, c) ==
    IF v.plan = "none" THEN 0
    ELSE Calls(p, v, c) * Rates.money_per_call * Scale + Judged(p, v, c) * Rates.money_per_row
         + (IF v.plan = "shortlist" THEN Rates.embed_money * Scale ELSE 0)

-----------------------------------------------------------------------------
(* The last reads.                                                         *)

Ranked(p, s, keys, restrict, pool, rows) ==
    p.source[s].call * Scale + (IF restrict THEN p.source[s].per_key * keys ELSE 0)
        + p.source[s].per_row * rows + Rates.rank * pool

FitsOnce(p, s, keys) == keys # NoKeys /\ Bound(p, s) # NoBound /\ keys <= Bound(p, s) * Scale

\* A ranked read cut before the required matches is unsafe.
MayRank(p, keys) == Required(p) # {} => FitsOnce(p, Anchor, keys)

\* ranked_read: the anchor ranks, restricted by everything that is required.
RankedRead(p, n, keys) ==
    LET restrict == Required(p) # {}
        pool == RowsRead(p, Anchor, keys, restrict)
        rows == Min({n * Scale, pool})
    IN  [latency |-> Ranked(p, Anchor, keys, restrict, pool, rows),
         candidates |-> [count |-> rows, pool |-> pool],
         steps |-> <<<<Anchor, restrict>>>>]

\* store_read: the store ranks, then the anchor is read for what it returned.
\* The K nearest of the whole store still have to pass what is required.
StorePool(p, keys) == IF FitsOnce(p, Store, keys) THEN Passed(p, keys, Store) ELSE p.source[Store].total * Scale
StoreRows(p, n, keys) ==
    LET nearest == Min({n * Scale, StorePool(p, keys)})
    IN  IF FitsOnce(p, Store, keys) THEN nearest ELSE Left(p, nearest, Required(p))

StoreRead(p, n, keys) ==
    LET restrict == FitsOnce(p, Store, keys)
        pool == StorePool(p, keys)
        rows == StoreRows(p, n, keys)
        last == Restricts(p, Anchor, rows)
    IN  [latency |-> Ranked(p, Store, keys, restrict, pool, Min({n * Scale, pool}))
                        + Latency(p, Anchor, rows, last),
         candidates |-> [count |-> RowsRead(p, Anchor, rows, last), pool |-> pool],
         steps |-> <<<<Store, restrict>>, <<Anchor, last>>>>]

\* What a variant has read before: a shortlist comes after what is required.
ReadBefore(p, v) == IF v.plan = "shortlist" THEN Required(p) ELSE Narrowing(p)

\* How a schedule that read that ends (if it can).
LastReads(p, v) ==
    LET keys == KeysAfter(p, ReadBefore(p, v))
    IN  IF v.plan # "shortlist"
        THEN {[latency |-> 0, candidates |-> [count |-> keys, pool |-> keys], steps |-> <<>>]}
        ELSE IF p.semantic.via_store
        THEN {StoreRead(p, n, keys) : n \in {k \in {v.size} : Readable(p, Anchor, StoreRows(p, k, keys))}}
        ELSE {RankedRead(p, n, keys) : n \in {k \in {v.size} : MayRank(p, keys)}}

-----------------------------------------------------------------------------
(* A whole plan.                                                           *)

OptionalLatency(p, c) == MapThenSumSet(LAMBDA s : BestLatency(p, s, c.count), p.optional)

\* finish: with the enrichers' reads and the variant's own work.
CanFinish(p, c, v) == (\A s \in p.optional : Readable(p, s, c.count)) /\ CanVerify(p, v, c)

PlanOf(p, latency, order, c, v) ==
    [latency |-> latency + OptionalLatency(p, c) + OwnLatency(p, v, c), money |-> OwnMoney(p, v, c),
     order |-> order, enrichers |-> {s \in p.optional : Restricts(p, s, c.count)},
     candidates |-> c, variant |-> v]

\* The plans that begin with this order, read at this latency (at most one).
Finished(p, latency, order, v) ==
    {PlanOf(p, latency + r.latency, order \o r.steps, r.candidates, v) :
        r \in {x \in LastReads(p, v) : CanFinish(p, x.candidates, v)}}

WithinLimits(p, plan) ==
    /\ p.maximum_money # NoBound => plan.money <= p.maximum_money * Scale
    /\ p.maximum_latency # NoBound => plan.latency <= p.maximum_latency * Scale

\* What plans are compared by: a shortlist must be cheaper by a margin.
Objective(plan) == (plan.latency + MoneyWeight * plan.money)
                       * (IF plan.variant.plan = "shortlist" THEN ShortlistWeight ELSE ExactWeight)

-----------------------------------------------------------------------------
(* The search.                                                             *)

\* default_schedule: required contributors, the store if it ranks, the anchor.
RuleOrder(p) ==
    p.required \o (IF RuleVariant(p).plan = "shortlist" /\ p.semantic.via_store THEN <<Store>> ELSE <<>>)
               \o <<Anchor>>

Names(order) == [n \in DOMAIN order |-> order[n][1]]

\* How far along the rules' order a source is.
Position(p, s) == IF \E n \in DOMAIN RuleOrder(p) : RuleOrder(p)[n] = s
                  THEN CHOOSE n \in DOMAIN RuleOrder(p) : RuleOrder(p)[n] = s
                  ELSE Len(RuleOrder(p)) + 1

\* (mutant: of equally cheap orders any is kept)
AnyOrder(p, a, b) == FALSE

\* closeness: a is nearer to the rules' order than b.
Nearer(p, a, b) == \E n \in DOMAIN a : /\ Position(p, a[n][1]) < Position(p, b[n][1])
                                       /\ \A m \in 1 .. n - 1 : a[m][1] = b[m][1]

\* (mutant: the keys are those known after the read, not before it)
ExtendedLate(p, way, S, s) ==
    LET keys == KeysAfter(p, S \cup {s})
    IN  [cost |-> way.cost + BestLatency(p, s, keys),
         order |-> Append(way.order, <<s, Restricts(p, s, keys)>>)]

\* A way to have read the sources S, and then s.
Extended(p, way, S, s) ==
    LET keys == KeysAfter(p, S)
    IN  [cost |-> way.cost + BestLatency(p, s, keys),
         order |-> Append(way.order, <<s, Restricts(p, s, keys)>>)]

\* The ways to have read exactly S: a cheapest way to have read S but one
\* (b has those), and then that one.
Ways(p, b, S) ==
    {Extended(p, b[S \ {s}], S \ {s}, s) :
        s \in {r \in S : S \ {r} \in DOMAIN b /\ Readable(p, r, KeysAfter(p, S \ {r}))}}

Cheaper(p, x, y) == x.cost < y.cost \/ (x.cost = y.cost /\ Nearer(p, x.order, y.order))
Cheapest(p, W) == CHOOSE x \in W : \A y \in W : ~Cheaper(p, y, x)

\* Every set of one source more.
Extend ==
    /\ outcome = "searching" /\ layer < Cardinality(Narrowing(problem))
    /\ LET next == {S \in SUBSET Narrowing(problem) :
                       Cardinality(S) = layer + 1 /\ Ways(problem, best, S) # {}}
       IN  best' = [S \in DOMAIN best \cup next |->
                       IF S \in next THEN Cheapest(problem, Ways(problem, best, S)) ELSE best[S]]
    /\ layer' = layer + 1
    /\ UNCHANGED <<problem, options, outcome>>

\* The plans of one variant (at most one).
PlansOf(p, b, v) ==
    UNION {Finished(p, b[S].cost, b[S].order, v) : S \in {ReadBefore(p, v)} \cap DOMAIN b}

\* consider() of every variant.
Offered(p, b) == {plan \in UNION {PlansOf(p, b, v) : v \in Variants(p)} : WithinLimits(p, plan)}

Consider ==
    /\ outcome = "searching" /\ layer = Cardinality(Narrowing(problem))
    /\ options' = Offered(problem, best)
    /\ outcome' = "weighing"
    /\ UNCHANGED <<problem, best, layer>>

MatchesRules(p, plan) == /\ Len(RuleOrder(p)) <= Len(plan.order)
                         /\ SubSeq(Names(plan.order), 1, Len(RuleOrder(p))) = RuleOrder(p)
                         /\ plan.variant = RuleVariant(p)

\* (mutant: of equally good plans the last one is chosen)
LastFirst(p, x, y) == \/ Objective(x) < Objective(y)
                      \/ Objective(x) = Objective(y) /\ x.variant.size >= y.variant.size

\* rank(): the lowest objective, then the rules' own plan, then the first.
Preferred(p, x, y) ==
    \/ Objective(x) < Objective(y)
    \/ /\ Objective(x) = Objective(y)
       /\ IF MatchesRules(p, x) = MatchesRules(p, y) THEN x.variant.size <= y.variant.size
          ELSE MatchesRules(p, x)

\* The best option is kept; without one the fixed rules stand.
Choose ==
    /\ outcome = "weighing"
    /\ options' = {x \in options : \A y \in options : Preferred(problem, x, y)}
    /\ outcome' = IF options = {} THEN "rules" ELSE "cost_based"
    /\ UNCHANGED <<problem, best, layer>>

\* The size of some source is unknown (or nothing is known), or there are too
\* many to try all sets: the fixed rules stand.
Declines(p) == ~p.known \/ Cardinality(Narrowing(p)) > p.maximum_dp_sources

Decline ==
    /\ outcome = "searching" /\ layer = 0
    /\ Declines(problem)
    /\ outcome' = "rules"
    /\ UNCHANGED <<problem, best, layer, options>>

Search == ~Declines(problem) /\ (Extend \/ Consider \/ Choose)

\* A caller who insists on a shortlist that is not legal gets an error before.
Init == /\ problem \in Problems
        /\ problem.semantic.preference = "shortlist" => Eligible(problem)
        /\ best = [S \in {{}} |-> [cost |-> 0, order |-> <<>>]]
        /\ layer = 0
        /\ options = {}
        /\ outcome = "searching"

Next == Search \/ Decline
Spec == Init /\ [][Next]_vars

-----------------------------------------------------------------------------
(* Properties.                                                             *)

\* Reading the sources S one after the other, each restricted or not.
Readings(S) ==
    LET n == Cardinality(S)
    IN  {o \in [1 .. n -> S \X BOOLEAN] : Names(o) \in Bijection(1 .. n, S)}

Before(o, n) == {o[m][1] : m \in 1 .. n - 1}

\* Problem.evaluate: reading in a given order with given flags, and a variant.
Runs(p, o) == \A n \in DOMAIN o : CanRead(p, o[n][1], KeysAfter(p, Before(o, n)), o[n][2])
RunLatency(p, o) ==
    LET spent[n \in 0 .. Len(o)] ==
            IF n = 0 THEN 0
            ELSE spent[n - 1] + Latency(p, o[n][1], KeysAfter(p, Before(o, n)), o[n][2])
    IN  spent[Len(o)]

Evaluated(p, v) ==
    UNION {Finished(p, RunLatency(p, o), o, v) : o \in {x \in Readings(ReadBefore(p, v)) : Runs(p, x)}}

\* brute_force: every order, every flag, every variant.
Feasible(p) == {plan \in UNION {Evaluated(p, v) : v \in Variants(p)} : WithinLimits(p, plan)}

\* The dynamic programme finds what trying everything would: no plan within
\* the limits is cheaper, and the rules stand only where there is none (or the
\* search was declined).
ChoiceIsOptimal ==
    /\ outcome = "cost_based" => \A x \in options, y \in Feasible(problem) : Objective(x) <= Objective(y)
    /\ outcome = "rules" => Feasible(problem) = {} \/ Declines(problem)

\* The schedule handed to the executor is one plan, and what was reported of it
\* is what reading in that order with those flags is estimated to cost.
EstimateIsOfTheSchedule ==
    outcome = "cost_based" => Cardinality(options) = 1 /\ options \subseteq Feasible(problem)

\* The optimizer deviates from the fixed rules only for something strictly
\* cheaper: if their order and strategy can be had at the lowest objective,
\* they are kept.
TiesKeepTheRules ==
    outcome = "cost_based" =>
        \A x \in options, y \in Feasible(problem) :
            MatchesRules(problem, y) /\ Objective(y) = Objective(x) => MatchesRules(problem, x)

\* What the fixed rule runs is always among the strategies (it is looked up
\* there, and the query fails if it is not found), at a size the verifier takes.
RuleIsAStrategy ==
    /\ RuleVariant(problem) \in Variants(problem)
    /\ Asked(problem) => \A v \in Variants(problem) : v.size <= problem.semantic.maximum_candidates
=============================================================================
