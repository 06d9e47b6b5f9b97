------------------------------ MODULE Pushdown ------------------------------
(***************************************************************************)
(* What is evaluated where: the sources a query needs (query/resolution.py)*)
(* are each given the part of its filter, order and limit they can answer  *)
(* for (planning/operators/scan.py, planning/adapter.py), and YoDb itself  *)
(* filters, orders and pages what they return (execution/operators).       *)
(*                                                                         *)
(* The sources evaluate SQL, YoDb its own three-valued logic and ordering; *)
(* both are written down here, each as it is defined, and the answer is    *)
(* compared with SQL over the assembled dataset.  YoDb compares with Python*)
(* the values the driver returned and the values the query bound, and those*)
(* need not be of one type: what Python makes of them is a parameter.      *)
(* Data does not change (Assembly is about sources that do).  A record is  *)
(* known by its ID.                                                        *)
(***************************************************************************)
EXTENDS Integers, Sequences, FiniteSets

CONSTANTS
    Ids,            \* logical IDs (numbers: they are ordered)
    Vals,           \* values of a field (numbers)
    Null,
    Absent,         \* the owning source has no row for the ID
    Inside,         \* Inside: pairs of a text and a text that contains it
    Readings,       \* how Python may compare the values of the fields: see python
    Identity,       \* the identity source
    Owner,          \* Owner[f]: the source that owns field f ("id" apart)
    Filters,        \* conditions, and combinations of filters
    Depth,          \* Depth[e]: how deep filter e is nested
    MaxDepth,       \* MAXIMUM_EXPRESSION_DEPTH
    Wheres,         \* filters to look at
    Orders,         \* orders to look at: sequences of [field, dir]
    Selects,        \* sets of selected fields to look at
    Kinds,          \* declared capabilities of the sources to look at
    First,          \* the page size in force
    MaxCoordinator, \* maximum_coordinator_rows
    NoLimit         \* None, where a number of rows may be given

Fields  == DOMAIN Owner
Sources == {Identity} \cup {Owner[f] : f \in Fields}

Named   == Fields \cup {"id"}

ASSUME PushdownAssumption ==
    /\ Ids \subseteq Nat /\ Vals \subseteq Nat /\ IsFiniteSet(Ids)
    /\ Null \notin Nat /\ Absent \notin Vals \cup {Null}
    /\ "id" \notin Fields
    /\ Selects \subseteq SUBSET Named
    /\ Orders \subseteq Seq([field : Named, dir : {"asc", "desc"}])
    /\ \A o \in Orders : Len(o) > 0 /\ o[Len(o)].field = "id"
    /\ First \in Nat \ {0} /\ MaxCoordinator \in Nat
    /\ NoLimit \notin Nat
    /\ \A k \in Kinds : k.maximum_rows \in Nat

VARIABLES
    query,      \* the bound query: where, order_by and select
    caps,       \* the declared capabilities of the sources
    python,     \* python[f]: of a value of field f and a value of a query, as
                \* Python has them, those that are ==, > and < (records of eq,
                \* gt and lt).  A UUID is never equal to the str that was bound,
                \* a Decimal seldom to a float, a date has no order with a time.
    stored,     \* stored[f][i]: field f of ID i in its source
    stage,      \* "planning", "reading", "combined", "filtered", "answered", "refused"
    plan,       \* the scans, and fully_pushed and page_pushed
    received,   \* received[s]: the IDs source s returned, once it was read
    rows,       \* the records the plan's operators hand on
    page        \* the answer: a sequence of IDs

pushdown_vars == <<query, caps, python, stored, stage, plan, received, rows, page>>
given == <<query, caps, python, stored>>

-----------------------------------------------------------------------------
(* Filters: a leaf [kind, field, op, values], or [kind, parts].            *)

Leaf(f, o, ws) == [kind |-> "leaf", field |-> f, op |-> o, values |-> ws]
All(es)  == [kind |-> "all", parts |-> es]
Any(es)  == [kind |-> "any", parts |-> es]
Not(e)   == [kind |-> "not", parts |-> <<e>>]
NoFilter == All(<<>>)
Operators == {"eq", "ne", "in", "not_in", "gt", "lt", "contains", "is_null", "is_not_null"}

Parts(e) == IF e.kind = "leaf" THEN {} ELSE {e.parts[n] : n \in DOMAIN e.parts}

\* A filter is a tree, and the parser limits how deep.
ASSUME FilterAssumption ==
    /\ MaxDepth \in Nat /\ Depth \in [Filters -> 0 .. MaxDepth]
    /\ Wheres \subseteq Filters
    /\ \A e \in Filters :
          /\ \/ e.kind = "leaf" /\ e.field \in Named /\ e.op \in Operators
             \/ e.kind \in {"all", "any"}
             \/ e.kind = "not" /\ DOMAIN e.parts = {1}
          /\ \A p \in Parts(e) : p \in Filters /\ Depth[p] < Depth[e]

Leaves[e \in Filters] ==
    IF e.kind = "leaf" THEN {e} ELSE UNION {Leaves[p] : p \in Parts(e)}
Connectives[e \in Filters] ==
    IF e.kind = "leaf" THEN {} ELSE {e.kind} \cup UNION {Connectives[p] : p \in Parts(e)}

\* filter_fields
FilterFields(e) == {l.field : l \in Leaves[e]}

\* The conditions the filter ANDs together.
TopLevelConjuncts[e \in Filters] ==
    IF e.kind = "all" THEN UNION {TopLevelConjuncts[p] : p \in Parts(e)} ELSE {e}

\* Whether a value that is not NULL satisfies a comparison, by PostgreSQL.
Satisfies(l, v) ==
    CASE l.op \in {"eq", "in"}     -> v \in l.values
      [] l.op \in {"ne", "not_in"} -> v \notin l.values
      [] l.op = "gt"               -> \A w \in l.values : v > w
      [] l.op = "lt"               -> \A w \in l.values : v < w
      [] l.op = "contains"         -> \A w \in l.values : <<w, v>> \in Inside
      [] l.op = "is_null"          -> FALSE
      [] l.op = "is_not_null"      -> TRUE

\* SQL: 0 is false, 1 unknown, 2 true; AND is the least, OR the greatest.
Least(S)    == CHOOSE x \in S : \A y \in S : x <= y
Greatest(S) == CHOOSE x \in S : \A y \in S : x >= y
Only(S)     == CHOOSE x \in S : TRUE
SqlLeaf(l, v) == IF v = Null /\ l.op \notin {"is_null", "is_not_null"} THEN 1
                 ELSE IF (v = Null /\ l.op = "is_null") \/ (v # Null /\ Satisfies(l, v)) THEN 2 ELSE 0
SqlOf(kind, S) == CASE kind = "all" -> Least({2} \cup S)
                    [] kind = "any" -> Greatest({0} \cup S)
                    [] kind = "not" -> 2 - Only(S)
Sql(e, cell) ==
    LET sql[f \in Filters] == IF f.kind = "leaf" THEN SqlLeaf(f, cell[f.field])
                              ELSE SqlOf(f.kind, {sql[p] : p \in Parts(f)})
    IN  sql[e]

\* Whether it does by Python (a pair without an order is a TypeError: False).
HoldsInPython(l, v) ==
    CASE l.op \in {"eq", "in"}     -> \E w \in l.values : <<v, w>> \in python[l.field].eq
      [] l.op \in {"ne", "not_in"} -> \A w \in l.values : <<v, w>> \notin python[l.field].eq
      [] l.op = "gt"               -> \A w \in l.values : <<v, w>> \in python[l.field].gt
      [] l.op = "lt"               -> \A w \in l.values : <<v, w>> \in python[l.field].lt
      [] OTHER                     -> Satisfies(l, v)

\* predicate_truth: TRUE, FALSE or Null.
PredicateTruth(l, v) ==
    CASE l.op = "is_null"     -> IF v = Null THEN "true" ELSE "false"
      [] l.op = "is_not_null" -> IF v = Null THEN "false" ELSE "true"
      [] OTHER                -> IF v = Null THEN "none"
                                 ELSE IF HoldsInPython(l, v) THEN "true" ELSE "false"

\* (mutant: a condition that is unknown counts as false, and its negation as true)
NegationOfFalse(t) == IF t = "true" THEN "false" ELSE "true"

\* Python's "None if value is None else not value".
Negation(t) == CASE t = "none"  -> "none"
                 [] t = "true"  -> "false"
                 [] t = "false" -> "true"

\* _and and _or over the truth of the parts.
Conjunction(ts) == IF "false" \in ts THEN "false" ELSE IF "none" \in ts THEN "none" ELSE "true"
Disjunction(ts) == IF "true" \in ts THEN "true" ELSE IF "none" \in ts THEN "none" ELSE "false"

TruthOf(kind, ts) == CASE kind = "all" -> Conjunction(ts)
                       [] kind = "any" -> Disjunction(ts)
                       [] kind = "not" -> Negation(Only(ts))

\* truth: the coordinator's own three-valued logic.
Truth(e, cell) ==
    LET truth[f \in Filters] == IF f.kind = "leaf" THEN PredicateTruth(f, cell[f.field])
                                ELSE TruthOf(f.kind, {truth[p] : p \in Parts(f)})
    IN  truth[e]

\* (mutant: IS NOT NULL is unknown of a record without a row)
NullLeafUnknown(l) == IF l.op = "is_null" THEN "true" ELSE "none"

NullLeaf(l) == CASE l.op = "is_null"     -> "true"
                 [] l.op = "is_not_null" -> "false"
                 [] OTHER                -> "none"

\* _on_nulls: the truth of a filter of which every field is NULL.
OnNulls[e \in Filters] == IF e.kind = "leaf" THEN NullLeaf(e)
                          ELSE TruthOf(e.kind, {OnNulls[p] : p \in Parts(e)})

HoldsWhenEveryFieldIsNull(e) == OnNulls[e] = "true"

-----------------------------------------------------------------------------
(* Records and their order.                                                *)

OwnerOf(f) == IF f = "id" THEN Identity ELSE Owner[f]

\* The fields of ID i when the sources are known to hold present[s].
Cells(present, i) ==
    [f \in Named |->
        IF f = "id" THEN i
        ELSE IF i \in present[Owner[f]] THEN stored[f][i] ELSE Null]

\* PostgreSQL: NULL is greater than every value; DESC is ASC read backwards.
SqlLess(u, v)   == u # Null /\ (v = Null \/ u < v)
SqlTerm(t, u, v) == IF t.dir = "asc" THEN SqlLess(u, v) ELSE SqlLess(v, u)

\* (mutant: NULL comes last in either direction)
NullsLast(t, u, v) ==
    IF u = Null \/ v = Null THEN v = Null /\ u # Null
    ELSE IF t.dir = "asc" THEN u < v ELSE v < u

\* One term of compare_rows.
CompareTerm(t, u, v) ==
    CASE u = Null /\ v = Null -> FALSE
      [] u = Null /\ v # Null -> t.dir = "desc"
      [] u # Null /\ v = Null -> t.dir = "asc"
      [] OTHER                -> IF t.dir = "asc" THEN u < v ELSE v < u

\* One term, read by PostgreSQL or by YoDb.
ReadTerm(reader, t, u, v) == IF reader = "sql" THEN SqlTerm(t, u, v) ELSE CompareTerm(t, u, v)

\* The first term two records differ in decides.
Precedes(reader, order, a, b) ==
    \E n \in DOMAIN order :
        /\ ReadTerm(reader, order[n], a[order[n].field], b[order[n].field])
        /\ \A m \in 1 .. n - 1 : a[order[m].field] = b[order[m].field]

\* The records S, ordered, up to a limit.
Sorted(reader, S, present, order, limit) ==
    LET Rank(i) == Cardinality({j \in S : Precedes(reader, order, Cells(present, j), Cells(present, i))})
    IN  [n \in 1 .. Least({limit, Cardinality(S)}) |-> CHOOSE i \in S : Rank(i) = n - 1]

Elements(s) == {s[n] : n \in DOMAIN s}

-----------------------------------------------------------------------------
(* Planning.                                                               *)

\* _collect_field_uses, and the sources that own those fields.
FieldsUsed == query.select \cup FilterFields(query.where)
                  \cup {query.order_by[n].field : n \in DOMAIN query.order_by} \cup {"id"}
Participants == {OwnerOf(f) : f \in FieldsUsed}

\* The source answers the whole query.
Complete == Participants = {Identity}

\* (mutant: a condition that a missing row satisfies is pushed as well)
LocalAnyway(c, s) == \A f \in FilterFields(c) : OwnerOf(f) = s

\* A condition source s alone can decide.
Local(c, s) ==
    /\ \A f \in FilterFields(c) : OwnerOf(f) = s
    /\ s # Identity => ~HoldsWhenEveryFieldIsNull(c)

\* source_local_filters, as the set of the conditions of s.
LocalConditions(s) == {c \in TopLevelConjuncts[query.where] : Local(c, s)}

\* _accepts: the source declares every operator of a filter, and can filter on
\* the type of every field.  No filter is always accepted.
Accepts(e) == \/ e = NoFilter
              \/ /\ {l.op : l \in Leaves[e]} \cup Connectives[e] \subseteq caps.operators
                 /\ FilterFields(e) \subseteq caps.filterable

\* What is requested of source s: the whole filter, or its conditions.
Requested(s) == IF Complete THEN TopLevelConjuncts[query.where] ELSE LocalConditions(s)

\* The whole request is accepted or none of it.
AcceptsRequest(s) ==
    LET cs == Requested(s)
    IN  IF Complete THEN Accepts(query.where)
        ELSE /\ \A c \in cs : Accepts(c)
             /\ Cardinality(cs) > 1 => "all" \in caps.operators

\* Its fields are all of a type the source can order.
Orderable == {query.order_by[n].field : n \in DOMAIN query.order_by} \subseteq caps.orderable

\* (mutant: an order is accepted beside a residual filter)
OrderWithResidual(s) == Complete /\ caps.supports_order /\ Orderable

\* Remote order and limit, only once the source decides every condition.
AcceptsOrder(s) == Complete /\ AcceptsRequest(s) /\ caps.supports_order /\ Orderable

\* (mutant: a limit is accepted only where there is no filter)
LimitWithoutFilter(s) == AcceptsOrder(s) /\ caps.supports_limit /\ Requested(s) = {}

AcceptsLimit(s) == AcceptsOrder(s) /\ caps.supports_limit

\* A row guard wherever the requested limit was not accepted.
NeedsGuard(s) == ~Complete \/ ~AcceptsLimit(s)

Scan(s) ==
    [filter       |-> IF AcceptsRequest(s) THEN Requested(s) ELSE {},
     order_by     |-> IF AcceptsOrder(s) THEN query.order_by ELSE <<>>,
     limit        |-> IF AcceptsLimit(s) THEN First ELSE NoLimit,
     maximum_rows |-> IF NeedsGuard(s) THEN caps.maximum_rows ELSE NoLimit]

\* Every condition of the query is decided by some source.
FullyPushed ==
    /\ \A s \in Participants : AcceptsRequest(s)
    /\ ~Complete => TopLevelConjuncts[query.where] = UNION {LocalConditions(s) : s \in Participants}

PlanQuery ==
    /\ stage = "planning"
    /\ plan' = [scans |-> [s \in Participants |-> Scan(s)],
                fully_pushed |-> FullyPushed,
                page_pushed |-> Complete /\ AcceptsLimit(Identity)]
    /\ stage' = "reading"
    /\ UNCHANGED <<given, received, rows, page>>

-----------------------------------------------------------------------------
(* Execution.                                                              *)

\* What each source holds.
Held == [s \in Sources |-> {i \in Ids : \A f \in Fields : Owner[f] = s => stored[f][i] # Absent}]

\* The IDs s holds that pass the pushed filter.
Passing(s) == {i \in Held[s] : \A c \in plan.scans[s].filter : Sql(c, Cells(Held, i)) = 2}

\* The sources whose rows a record must have.
NarrowingSources == {s \in Participants : s = Identity \/ plan.scans[s].filter # {}}
WasRead(s) == s \in DOMAIN received

\* The IDs every narrowing source read so far has returned.
Keys == {i \in Ids : \A s \in NarrowingSources : WasRead(s) => i \in received[s]}

\* No record can match any more: the other sources are not read.
OutOfKeys == ~Complete /\ Keys = {} /\ \E n \in NarrowingSources : WasRead(n)

\* One SELECT, restricted to the keys or not; too many rows end the query.
ReadSource(s, restrict) ==
    LET scan  == plan.scans[s]
        found == Passing(s) \cap (IF restrict THEN Keys ELSE Ids)
        taken == IF scan.limit = NoLimit THEN found
                 ELSE Elements(Sorted("sql", found, Held, scan.order_by, scan.limit))
    IN  /\ stage = "reading" /\ s \in Participants /\ ~WasRead(s)
        /\ ~OutOfKeys
        /\ restrict => \E n \in NarrowingSources : WasRead(n)
        /\ IF scan.maximum_rows # NoLimit /\ Cardinality(taken) > scan.maximum_rows
           THEN stage' = "refused" /\ UNCHANGED received
           ELSE /\ received' = [x \in DOMAIN received \cup {s} |->
                                   IF x = s THEN taken ELSE received[x]]
                /\ UNCHANGED stage
        /\ UNCHANGED <<given, plan, rows, page>>

\* Assembly (see module Assembly), or the one source's rows.
Combine ==
    /\ stage = "reading" /\ (DOMAIN received = Participants \/ OutOfKeys)
    /\ rows' = Keys
    /\ stage' = "combined"
    /\ UNCHANGED <<given, plan, received, page>>

\* What the coordinator knows of each source.
Known == [s \in Sources |-> IF WasRead(s) THEN received[s] ELSE {}]

\* matches, unless the sources decided everything.
Filter ==
    /\ stage = "combined"
    /\ rows' = IF plan.fully_pushed THEN rows
               ELSE {i \in rows : Truth(query.where, Cells(Known, i)) = "true"}
    /\ stage' = "filtered"
    /\ UNCHANGED <<given, plan, received, page>>

\* The coordinator's sort and page.
SortedPage == Sorted("yodb", rows, Known, query.order_by, First)

\* The rows as the one source ordered and cut them, or ordered and cut here.
OrderPage ==
    /\ stage = "filtered"
    /\ IF plan.page_pushed
       THEN page' = Sorted("sql", rows, Held, plan.scans[Identity].order_by, Cardinality(rows))
                /\ stage' = "answered"
       ELSE IF Cardinality(rows) > MaxCoordinator
       THEN stage' = "refused" /\ UNCHANGED page
       ELSE page' = SortedPage /\ stage' = "answered"
    /\ UNCHANGED <<given, plan, received, rows>>

\* All fields of a source's row are there or none is.
PushdownInit ==
    /\ query \in [where : Wheres, order_by : Orders, select : Selects]
    /\ caps \in Kinds
    /\ python \in Readings
    /\ stored \in [Fields -> [Ids -> Vals \cup {Null, Absent}]]
    /\ \A f, g \in Fields, i \in Ids :
           Owner[f] = Owner[g] => (stored[f][i] = Absent <=> stored[g][i] = Absent)
    /\ stage = "planning"
    /\ plan = [scans |-> <<>>, fully_pushed |-> FALSE, page_pushed |-> FALSE]
    /\ received = <<>>
    /\ rows = {}
    /\ page = <<>>

PushdownNext ==
    \/ PlanQuery
    \/ \E s \in Sources, restrict \in BOOLEAN : ReadSource(s, restrict)
    \/ Combine \/ Filter \/ OrderPage

PushdownSpec == PushdownInit /\ [][PushdownNext]_pushdown_vars

-----------------------------------------------------------------------------
(* Properties.                                                             *)

\* SQL over the assembled dataset: the records of the identity source, each
\* with what the other sources hold of it, or NULL.
Reference ==
    LET matching == {i \in Held[Identity] : Sql(query.where, Cells(Held, i)) = 2}
    IN  Sorted("sql", matching, Held, query.order_by, First)

\* YoDb evaluates the filter, and Python and PostgreSQL differ on a comparison
\* of it for a record of the dataset.
Misread ==
    /\ ~plan.fully_pushed
    /\ \E l \in Leaves[query.where], i \in Held[Identity] :
           LET v == Cells(Held, i)[l.field]
           IN  v # Null /\ (HoldsInPython(l, v) <=> ~Satisfies(l, v))

\* Whoever evaluates what (the source, YoDb, or each a part), the answer is the
\* page SQL would return of the assembled dataset: nothing is filtered twice
\* the wrong way, cut before it is filtered, or ordered differently.  The one
\* exception is a comparison that YoDb itself makes of values of different
\* Python types (Misread): docs/reference/limits.mdx:6-8 excludes a wrong or
\* partial answer, and here the code gives one.
AnswerIsReference == stage = "answered" => page = Reference \/ Misread

\* A query that one source can answer as a whole is answered, however large its
\* dataset is.
WholeQueriesAreNeverRefused ==
    stage = "refused" =>
        \/ \E f \in FieldsUsed : OwnerOf(f) # Identity
        \/ ~caps.supports_order \/ ~caps.supports_limit \/ ~Orderable
        \/ \E l \in Leaves[query.where] :
               l.op \notin caps.operators \/ l.field \notin caps.filterable
        \/ ~(Connectives[query.where] \subseteq caps.operators)
=============================================================================
