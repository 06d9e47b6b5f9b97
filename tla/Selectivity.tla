----------------------------- MODULE Selectivity -----------------------------
(***************************************************************************)
(* What fraction of a source's rows a pushed filter is expected to keep    *)
(* (planning/statistics.py), from what ANALYZE collected of its columns    *)
(* and what the provider makes of it (planning/postgres_statistics.py).    *)
(*                                                                         *)
(* The table is known here, so that an estimate can be compared with the   *)
(* truth.  Its fields are independent of each other: every combination of  *)
(* their values is in the table as often as the product says.  Fractions   *)
(* are exact, a pair <<n, d>> each; the code has them in floating point.   *)
(***************************************************************************)
EXTENDS Integers, SequencesExt

CONSTANTS
    Fields,     \* the fields of the source
    Types,      \* types to look at: of each field "number", "timestamp" or "text"
    Domain,     \* the values of the fields (numbers, in the order of the values)
    Contents,   \* Contents[f]: contents of a column, [copies, nulls], to look at
    Buckets,    \* numbers of histogram buckets to look at
    Filters,    \* filters over several fields to look at, each field once
    Default,    \* SelectivityDefaults
    Untold      \* None: a statistic nobody has

VARIABLES
    type,       \* type[f]: the type of field f
    content,    \* content[f]: how often each value, and NULL, is in column f
    known,      \* known[f]: ColumnStatistics of f, or Untold
    described   \* described[f]: the values the histogram of f was made of

estimate_vars == <<type, content, known, described>>

-----------------------------------------------------------------------------
(* Fractions.                                                              *)

RECURSIVE Gcd(_, _)
Gcd(a, b) == IF b = 0 THEN a ELSE Gcd(b, a % b)

Fraction(n, d)  == LET g == Gcd(IF n < 0 THEN -n ELSE n, d) IN <<n \div g, d \div g>>
Zero            == <<0, 1>>
One             == <<1, 1>>
Plus(p, q)      == Fraction(p[1] * q[2] + q[1] * p[2], p[2] * q[2])
Minus(p, q)     == Fraction(p[1] * q[2] - q[1] * p[2], p[2] * q[2])
Times(p, q)     == Fraction(p[1] * q[1], p[2] * q[2])
Divided(p, n)   == Fraction(p[1], p[2] * n)
AtMost(p, q)    == p[1] * q[2] <= q[1] * p[2]
Lesser(p, q)    == IF AtMost(p, q) THEN p ELSE q
Greater(p, q)   == IF AtMost(p, q) THEN q ELSE p
Total(op(_), S) == MapThenFoldSet(Plus, Zero, op, LAMBDA T : CHOOSE x \in T : TRUE, S)

-----------------------------------------------------------------------------
(* The table, and what ANALYZE and the provider make of a column of it.    *)

Copies(f, S)  == MapThenSumSet(LAMBDA v : content[f].copies[v], S)
RowsOf(f)     == content[f].nulls + Copies(f, Domain)
PartOf(f, S)  == Fraction(Copies(f, S), RowsOf(f))
Nulls(f)      == Fraction(content[f].nulls, RowsOf(f))
Present(f)    == {v \in Domain : content[f].copies[v] > 0}

\* The n-th of the values S of column f in their order, from 0.
Nth(f, S, n) ==
    CHOOSE v \in S :
        LET below == Copies(f, {w \in S : w < v})
        IN  below <= n /\ n < below + content[f].copies[v]

\* histogram_bounds: equally many values S of column f between each two.
Bounds(f, S, buckets) ==
    [n \in 1 .. buckets + 1 |-> Nth(f, S, ((n - 1) * (Copies(f, S) - 1)) \div buckets)]

Column(distinct, nulls, common, histogram, bounds) ==
    [distinct |-> distinct, null_fraction |-> nulls, common |-> common,
     histogram |-> histogram, bounds |-> bounds]

\* pg_stats has some of the values as common ones and a histogram of the
\* others, and may not know how many values there are.  Common values that are
\* timestamps are not compared, and bounds that are text are no numbers.
Describe(f) ==
    /\ known[f] = Untold
    /\ \E common \in SUBSET Present(f), distinct \in {Cardinality(Present(f)), Untold},
         buckets \in Buckets :
          LET rest   == Present(f) \ common
              usable == type[f] # "text" /\ buckets > 0 /\ Cardinality(rest) > 1
          IN  /\ known' = [known EXCEPT ![f] =
                     Column(IF distinct = 0 THEN Untold ELSE distinct, Nulls(f),
                            [v \in IF type[f] = "timestamp" THEN {} ELSE common |-> PartOf(f, {v})],
                            IF usable THEN Bounds(f, rest, buckets) ELSE <<>>, <<>>)]
              /\ described' = [described EXCEPT ![f] = rest]
    /\ UNCHANGED <<type, content>>

\* Another provider knows only the number of values, and their bounds.
Bound(f) ==
    /\ known[f] = Untold /\ type[f] # "text" /\ Present(f) # {}
    /\ known' = [known EXCEPT ![f] =
           Column(Cardinality(Present(f)), Nulls(f), [v \in {} |-> Zero], <<>>,
                  <<Min(Present(f)), Max(Present(f))>>)]
    /\ UNCHANGED <<type, content, described>>

EstimateInit ==
    /\ type \in Types
    /\ content \in {c \in [Fields -> UNION {Contents[f] : f \in Fields}] : \A f \in Fields : c[f] \in Contents[f]}
    /\ known = [f \in Fields |-> Untold]
    /\ described = [f \in Fields |-> {}]

EstimateNext == \E f \in Fields : Describe(f) \/ Bound(f)

EstimateSpec == EstimateInit /\ [][EstimateNext]_estimate_vars

-----------------------------------------------------------------------------
(* The estimate.  A condition is [kind, field, op, values], a combination  *)
(* [kind, parts].                                                          *)

NonNull(c)     == IF c = Untold THEN One ELSE Minus(One, c.null_fraction)
Distinct(c)    == IF c = Untold THEN Untold ELSE c.distinct
Common(c)      == IF c = Untold THEN [v \in {} |-> Zero] ELSE c.common
CommonTotal(c) == Total(LAMBDA v : Common(c)[v], DOMAIN Common(c))
Uniform(c)     == IF Distinct(c) # Untold THEN Divided(NonNull(c), Distinct(c))
                  ELSE Times(Default.equality, NonNull(c))
Remainder(c)   == Greater(Zero, Minus(NonNull(c), CommonTotal(c)))

\* (mutant: what the common values leave is spread over all distinct values)
SpreadOverAll(c) == Divided(Remainder(c), Distinct(c))

\* What the common values leave, spread over the other distinct values.
Spread(c) == Divided(Remainder(c), Distinct(c) - Cardinality(DOMAIN Common(c)))

\* _equality
Equality(v, c) ==
    IF DOMAIN Common(c) = {} THEN Uniform(c)
    ELSE IF v \in DOMAIN Common(c) THEN Common(c)[v]
    ELSE IF Distinct(c) # Untold /\ Distinct(c) - Cardinality(DOMAIN Common(c)) >= 1 THEN Spread(c)
    ELSE Lesser(Uniform(c), Remainder(c))

Membership(S, c) == Lesser(NonNull(c), Total(LAMBDA v : Equality(v, c), S))

\* Whether value v satisfies a comparison with number x.
Holds(op, v, x) == CASE op = "lt"  -> v < x
                     [] op = "lte" -> v <= x
                     [] op = "gt"  -> v > x
                     [] op = "gte" -> v >= x

\* (mutant: the part of the bucket that lies above the number)
AboveInBucket(bounds, x, n) == Fraction(bounds[n + 1] - x, bounds[n + 1] - bounds[n])

\* The part of its bucket, the n-th, that lies below the number.
BelowInBucket(bounds, x, n) == Fraction(x - bounds[n], bounds[n + 1] - bounds[n])

\* _histogram_below
HistogramBelow(bounds, x) ==
    LET buckets == Len(bounds) - 1
    IN  IF x <= bounds[1] THEN Zero
        ELSE IF x >= bounds[Len(bounds)] THEN One
        ELSE LET n == CHOOSE n \in 1 .. buckets : bounds[n] <= x /\ x < bounds[n + 1]
             IN  Divided(Plus(<<n - 1, 1>>, BelowInBucket(bounds, x, n)), buckets)

Side(op, below) == IF op \in {"lt", "lte"} THEN below ELSE Minus(One, below)

\* _range_from_histogram: the common values are counted, the others estimated.
RangeFromHistogram(op, x, c) ==
    LET hit   == Total(LAMBDA v : Common(c)[v], {v \in DOMAIN Common(c) : Holds(op, v, x)})
        share == IF c.histogram = <<>> THEN <<1, 3>> ELSE Side(op, HistogramBelow(c.histogram, x))
    IN  Plus(hit, Times(Remainder(c), share))

\* Of a range, without a histogram: between the bounds, or the flat default.
Interpolated(op, x, c) ==
    IF c = Untold THEN Default.range
    ELSE IF c.bounds # <<>> /\ c.bounds[1] < c.bounds[2]
    THEN Side(op, Lesser(One, Greater(Zero, Fraction(x - c.bounds[1], c.bounds[2] - c.bounds[1]))))
    ELSE Default.range

\* A range over text is not a range of numbers.
RangeOf(l, c) ==
    LET x == CHOOSE w \in l.values : TRUE
    IN  IF type[l.field] = "text" THEN Times(Default.range, NonNull(c))
        ELSE IF c # Untold /\ (c.histogram # <<>> \/ DOMAIN Common(c) # {})
        THEN RangeFromHistogram(l.op, x, c)
        ELSE Times(Interpolated(l.op, x, c), NonNull(c))

\* (mutant: the negation of a membership also counts the rows without a value)
ComplementWithNulls(c, part) == Minus(One, part)

\* The rows with a value that are not among the part.
Complement(c, part) == Greater(Zero, Minus(NonNull(c), part))

\* _predicate_selectivity
PredicateSelectivity(l, c) ==
    CASE l.op = "is_null"     -> IF c # Untold THEN c.null_fraction ELSE Default.is_null
      [] l.op = "is_not_null" -> IF c # Untold THEN NonNull(c) ELSE Minus(One, Default.is_null)
      [] l.op = "eq"          -> Total(LAMBDA v : Equality(v, c), l.values)
      [] l.op = "ne"          -> Complement(c, Total(LAMBDA v : Equality(v, c), l.values))
      [] l.op = "in"          -> Membership(l.values, c)
      [] l.op = "not_in"      -> Complement(c, Membership(l.values, c))
      [] l.op = "contains"    -> Times(Default.text_match, NonNull(c))
      [] OTHER                -> RangeOf(l, c)

\* (mutant: alternatives are added up)
MissAdded(p, q) == Minus(p, Minus(One, q))

\* Independent alternatives are missed together.
Miss(p, q) == Times(p, q)

Clamped(p) == Lesser(One, Greater(Zero, p))

\* _selectivity
RECURSIVE Estimate(_)
Estimate(e) ==
    LET parts == [n \in DOMAIN e.parts |-> Estimate(e.parts[n])]
    IN  CASE e.kind = "leaf" -> PredicateSelectivity(e, known[e.field])
          [] e.kind = "all"  -> FoldLeft(Times, One, parts)
          [] e.kind = "any"  -> Minus(One, FoldLeft(LAMBDA p, q : Miss(p, Minus(One, Clamped(q))), One, parts))
          [] e.kind = "not"  -> Minus(One, Clamped(parts[1]))

\* estimate_selectivity: a filter that keeps something keeps one row at least.
EstimateSelectivity(e, row_count) ==
    LET fraction == Clamped(Estimate(e))
    IN  IF row_count # Untold /\ row_count > 0 /\ fraction # Zero /\ AtMost(fraction, <<1, row_count>>)
        THEN <<1, row_count>> ELSE fraction

NoFilter == [kind |-> "all", parts |-> <<>>]

\* (mutant: the count of the provider beats the one a scan returned)
CatalogTotal(row_count, observed_total) == IF row_count # Untold THEN row_count ELSE observed_total

\* What a scan really returned beats the count of the provider.
TotalRows(row_count, observed_total) == IF observed_total # Untold THEN observed_total ELSE row_count

\* estimate_scan, from the provider's row count and what was observed of the
\* whole source and of the filter.
ScanEstimate(e, row_count, observed_total, seen) ==
    LET total       == TotalRows(row_count, observed_total)
        selectivity == EstimateSelectivity(e, total)
        filtered    == e # NoFilter /\ seen # Untold
    IN  [total_rows    |-> total,
         selectivity   |-> IF filtered /\ total # Untold /\ total > 0
                           THEN Lesser(One, Fraction(seen, total)) ELSE selectivity,
         filtered_rows |-> IF filtered THEN <<seen, 1>>
                           ELSE IF total = Untold THEN Untold ELSE Times(<<total, 1>>, selectivity),
         observed      |-> filtered \/ (e = NoFilter /\ observed_total # Untold)]

-----------------------------------------------------------------------------
(* Properties.                                                             *)

Condition(f, op, S) == [kind |-> "leaf", field |-> f, op |-> op, values |-> S]
Numbers == Min(Domain) - 1 .. Max(Domain) + 1

\* Whether a cell (Untold: NULL) satisfies a condition.
Satisfies(l, v) ==
    CASE l.op = "is_null"        -> v = Untold
      [] l.op = "is_not_null"    -> v # Untold
      [] l.op \in {"eq", "in"}   -> v \in l.values
      [] l.op \in {"ne", "not_in"} -> v # Untold /\ v \notin l.values
      [] OTHER                   -> v # Untold /\ \E x \in l.values : Holds(l.op, v, x)

RECURSIVE Keeps(_, _), Leaves(_), Negated(_)
Keeps(e, row) ==
    CASE e.kind = "leaf" -> Satisfies(e, row[e.field])
      [] e.kind = "all"  -> \A n \in DOMAIN e.parts : Keeps(e.parts[n], row)
      [] e.kind = "any"  -> \E n \in DOMAIN e.parts : Keeps(e.parts[n], row)
      [] e.kind = "not"  -> ~Keeps(e.parts[1], row)
Leaves(e)  == IF e.kind = "leaf" THEN {e.field} ELSE UNION {Leaves(e.parts[n]) : n \in DOMAIN e.parts}
Negated(e) == CASE e.kind = "leaf" -> {}
                [] e.kind = "not"  -> Leaves(e)
                [] OTHER           -> UNION {Negated(e.parts[n]) : n \in DOMAIN e.parts}

\* The rows of the table: how often each combination of cells is in it.
Product(op(_), S) == MapThenFoldSet(LAMBDA a, b : a * b, 1, op, LAMBDA T : CHOOSE x \in T : TRUE, S)
Weight(row)   == Product(LAMBDA f : IF row[f] = Untold THEN content[f].nulls ELSE content[f].copies[row[f]], Fields)
TableRows     == Product(RowsOf, Fields)
KeptRows(e)   == MapThenSumSet(Weight, {row \in [Fields -> Domain \cup {Untold}] : Keeps(e, row)})

\* All values of column f are common ones, and were kept as such.
AllCommon(f) == known[f] # Untold /\ DOMAIN known[f].common = Present(f) /\ Present(f) # {}

\* When every value is a common one nothing is left to guess: conditions and
\* their combinations, over fields that are independent, are estimated to keep
\* what they keep, as long as the number of rows is right, and it is whenever
\* the source was once scanned, whatever the provider says.  A filter that was
\* scanned is estimated right in any case.  (Not so a NOT over a column with
\* NULLs, of which the estimate counts the rows that SQL leaves out.)
ExactWhenAllIsCommon ==
    (\A f \in Fields : AllCommon(f)) =>
        \A e \in Filters :
            (\A f \in Negated(e) : content[f].nulls = 0) =>
                LET kept == KeptRows(e)
                IN  \A row_count \in {Untold, TableRows, 2 * TableRows + 1},
                       observed_total \in {Untold, TableRows}, seen \in {Untold, kept} :
                       LET estimate == ScanEstimate(e, row_count, observed_total, seen)
                       IN  /\ observed_total = TableRows \/ row_count = TableRows =>
                                 /\ estimate.selectivity = Fraction(kept, TableRows)
                                 /\ estimate.filtered_rows = <<kept, 1>>
                           /\ e # NoFilter /\ seen # Untold => estimate.filtered_rows = <<kept, 1>>

Distance(p, q) == Greater(Minus(p, q), Minus(q, p))

\* The parts of column f that conditions on it keep make up the rows with a
\* value: of all values, of a set and the others, of both sides of a number.
PartsAddUp(f) ==
    LET c          == known[f]
        part(op, S) == PredicateSelectivity(Condition(f, op, S), c)
        ordered     == /\ c # Untold /\ type[f] # "text"
                       /\ \/ c.histogram # <<>> \/ AllCommon(f)
                          \/ c.bounds # <<>> /\ Cardinality(Present(f)) > 1
    IN  /\ Distinct(c) # Untold => Total(LAMBDA v : part("eq", {v}), Present(f)) = NonNull(c)
        /\ \A S \in SUBSET Present(f) : Plus(part("in", S), part("not_in", S)) = NonNull(c)
        /\ \A v \in Domain : Plus(part("eq", {v}), part("ne", {v})) = NonNull(c)
        /\ Plus(part("is_null", {}), part("is_not_null", {})) = One
        /\ AtMost(part("contains", Domain), NonNull(c))
        /\ ordered => \A x \in Numbers : /\ Plus(part("lt", {x}), part("gte", {x})) = NonNull(c)
                                         /\ Plus(part("lte", {x}), part("gt", {x})) = NonNull(c)

\* A range of column f that holds more numbers keeps no fewer rows.
RangesGrow(f) ==
    LET below(op, x) == PredicateSelectivity(Condition(f, op, {x}), known[f])
    IN  \A x \in Numbers : /\ AtMost(below("lt", x), below("lte", x))
                           /\ AtMost(below("lte", x), below("lt", x + 1))

\* A range of column f is estimated to within one bucket of its histogram, and
\* the rows that have the number itself, one more.
RangesAreClose(f) ==
    LET c     == known[f]
        rest  == described[f]
        error(x) == Plus(Divided(PartOf(f, rest), Len(c.histogram) - 1),
                         Fraction(Copies(f, rest \cap {x}) + 1, RowsOf(f)))
    IN  c # Untold /\ c.histogram # <<>> /\ rest \cup DOMAIN c.common = Present(f) =>
            \A x \in Numbers, op \in {"lt", "lte", "gt", "gte"} :
                AtMost(Distance(PredicateSelectivity(Condition(f, op, {x}), c),
                                PartOf(f, {v \in Domain : Holds(op, v, x)})), error(x))

\* Whatever part of a column ANALYZE describes by common values and by a
\* histogram, the estimates of a column fit together, and fit the table; where
\* nothing is known of a column, those from the defaults fit together; and where
\* everything is known, they are exact.
EstimatesFitTheTable ==
    (\E f \in Fields : known[f] # Untold) =>
        /\ \A f \in Fields : PartsAddUp(f) /\ RangesGrow(f) /\ RangesAreClose(f)
        /\ ExactWhenAllIsCommon
=============================================================================
