----------------------------- MODULE Traversal -----------------------------
(***************************************************************************)
(* The planning of a query that follows a relationship (joins/planner.py): *)
(* the relationship is found, each side becomes a query of its own, bound  *)
(* and resolved as any other, one side drives, and the other is read with  *)
(* its filter and the keys of the driving side in a list.                  *)
(*                                                                         *)
(* The keys make a round trip: as Python values read from one database,    *)
(* as the JSON values of a filter, and as the Python values of the other   *)
(* database they are looked up by (execution/operators/join.py).  How many *)
(* rows each side has, and how they are matched, is in Join.               *)
(***************************************************************************)
EXTENDS Catalog

CONSTANTS
    Traversals,     \* queries with a traverse step to look at
    MaxDriver,      \* maximum_driver_rows
    MaxProbe,       \* maximum_probe_rows
    BatchSize       \* keys in a probing batch

ASSUME TraversalAssumption ==
    /\ {MaxDriver, MaxProbe, BatchSize} \subseteq Nat \ {0}
    /\ \A t \in Traversals : /\ t.direction \in {"forward", "reverse"}
                             /\ IsQuery(t.root) /\ IsQuery(t.step)

VARIABLE join       \* the traversal, its driving side and the key looked up

traversal_vars == <<vars, join>>

-----------------------------------------------------------------------------
(* The relationship and its two key fields.                                *)

\* The first relationship of that name or with that alias, in document order.
Named(c, t) == {n \in DOMAIN c.relationships :
                    t.relationship \in {c.relationships[n].name} \cup c.relationships[n].aliases}
Relationship(c, t) == c.relationships[Min(Named(c, t))]

\* The implementations that compare fields, and the first of them.
FieldEqualities(rel) == {n \in DOMAIN rel.implementations : ~rel.implementations[n].edge_type}
Comparison(rel) == rel.implementations[Min(FieldEqualities(rel))]

\* The dataset and the key field of a side.
Side(c, t, side) ==
    LET rel == Relationship(c, t)
        i   == Comparison(rel)
    IN  IF (side = "left") = (t.direction = "forward") THEN [dataset |-> rel.from, key |-> i.from.field]
        ELSE [dataset |-> rel.to, key |-> i.to.field]

StartsAt(rel, t) ==
    IF t.direction = "forward" THEN rel.from = t.root.dataset
    ELSE rel.direction = "bi" /\ rel.to = t.root.dataset

\* _resolve_relationship
RelationshipError(c, t) ==
    IF Named(c, t) = {} THEN "relationship_not_found"
    ELSE IF ~StartsAt(Relationship(c, t), t) THEN "relationship_not_applicable"
    ELSE IF FieldEqualities(Relationship(c, t)) = {} THEN "query_feature_not_supported"
    ELSE IF \E side \in {"left", "right"} :
                LET s == Side(c, t, side) IN FieldError(c, s.dataset, s.key) # None
         THEN "field_not_accessible"
    ELSE None

-----------------------------------------------------------------------------
(* The two sides.                                                          *)

NoFilter == [terms |-> <<>>, depth |-> 0, nodes |-> 0]

\* The caller's part of a side.
Own(t, side) == IF side = "left" THEN t.root ELSE t.step

\* _extend: the fields that the join itself needs are selected too, each once.
Extended(select, needed) ==
    IF select = <<"*">> THEN select
    ELSE LET all == select \o needed
         IN  Picked(all, {n \in DOMAIN all : \A m \in DOMAIN all : m < n => all[m] # all[n]})

\* A filter, and the key in a list of values.
Restricted(where, key, values) ==
    LET keys == [semantic |-> FALSE, field |-> key, op |-> "in", conjunctive |-> TRUE,
                 value |-> [form |-> "list", of |-> values]]
    IN  IF where = NoFilter THEN [terms |-> <<keys>>, depth |-> 1, nodes |-> 1]
        ELSE [terms |-> Append(where.terms, keys), depth |-> where.depth + 1, nodes |-> where.nodes + 2]

\* _has_semantic
HasSemantic(where) == \E term \in ToSet(where.terms) : term.semantic

\* sub: one side as a query.  The quality bar goes to a side it applies to.
SideQuery(c, t, side, where, rows) ==
    LET s == Side(c, t, side) IN
    [dataset |-> s.dataset, order_by |-> <<>>, first |-> rows, where |-> where,
     select  |-> Extended(Own(t, side).select, <<s.key>> \o Own(t, side).order_by),
     quality |-> t.root.quality /\ HasSemantic(where)]

DriverQuery(c, t, side) == SideQuery(c, t, side, Own(t, side).where, MaxDriver + 1)
ProbeQuery(c, t, side, values) ==
    SideQuery(c, t, side, Restricted(Own(t, side).where, Side(c, t, side).key, values), MaxProbe + 1)

\* (mutant: the sides are held to the page a caller may ask for)
CallersPolicy == UserPolicy

\* (mutant: a batch is held to the list a caller may write)
CallersLists == [page |-> Max({MaxPage, MaxDriver + 1, MaxProbe + 1}), values |-> MaxIn]

\* The policy the two sides are bound under.
InternalPolicy == [page   |-> Max({MaxPage, MaxDriver + 1, MaxProbe + 1}),
                   values |-> Max({MaxIn, BatchSize})]

\* _plan: a side is bound, then resolved.
SideErrors(c, q) ==
    LET e == BindError(c, q, InternalPolicy) IN IF e # None THEN {e} ELSE ResolveErrors(c, q)

\* _check_order_fields
OrderErrors(c, t) ==
    (UNION {{FieldError(c, Side(c, t, side).dataset, f) : f \in ToSet(Own(t, side).order_by)} :
                side \in {"left", "right"}}) \ {None}

\* The caller's page and order make a query; the traverse step selects no
\* field twice.  A field selected twice of the root is selected once.
RepeatsInStep(t)  == t.step.select # <<"*">> /\ ~IsInjective(t.step.select)
RepeatsInOrder(t) == ~IsInjective(t.root.order_by) \/ ~IsInjective(t.step.order_by)
IsPage(first)     == first \in 1 .. MaxPage

\* What is wrong with a traversal: the step, the relationship, the page, the
\* order, the root side, the traversed side, in this order.
TraversalErrors(c, t) ==
    IF RepeatsInStep(t) THEN {"query_shape_invalid"}
    ELSE IF RelationshipError(c, t) # None THEN {RelationshipError(c, t)}
    ELSE IF ~IsPage(t.root.first) THEN {"query_limit_invalid"}
    ELSE IF RepeatsInOrder(t) THEN {"query_shape_invalid"}
    ELSE IF OrderErrors(c, t) # {} THEN OrderErrors(c, t)
    ELSE IF SideErrors(c, DriverQuery(c, t, "left")) # {} THEN SideErrors(c, DriverQuery(c, t, "left"))
    ELSE SideErrors(c, DriverQuery(c, t, "right"))

-----------------------------------------------------------------------------
(* The keys.                                                               *)

\* What the driver of the database and _normalize make of a column's values.
Returns(native) ==
    CASE native \in {"integer", "bigint"} -> {"int"}
      [] native = "numeric"               -> {"decimal"}
      [] native = "double precision"      -> {"float", "nan", "infinity"}
      [] native = "boolean"               -> {"bool"}
      [] native = "uuid"                  -> {"UUID"}
      [] native = "timestamp"             -> {"instant"}
      [] native = "date"                  -> {"date"}
      [] native = "text"                  -> {"text", "blank"}

\* _wire
Wire(value) == CASE value = "instant" -> "stamp"
                 [] value = "UUID"    -> "uuid"
                 [] OTHER             -> value

\* The Python values of one class can be equal, numbers whatever their type.
Class(value) == IF value \in {"int", "float", "decimal", "nan", "infinity", "bool"} THEN "number"
                ELSE IF value \in {"text", "blank"} THEN "str" ELSE value

\* _SAMPLE: a value to plan the probing side with; json and bytes have none.
Sample(type) ==
    CASE type \in {"id", "string", "text"} -> "text"
      [] type = "uuid"                     -> "uuid"
      [] type = "timestamp"                -> "stamp"
      [] type \in {"int", "float", "bool"} -> type
HasSample(type) == type \notin {"json", "bytes"}

Opposite(side) == IF side = "left" THEN "right" ELSE "left"
KeyType(c, t, side) == LET s == Side(c, t, side) IN c.datasets[s.dataset][s.key].type

\* The column a side's key is read from.
KeyColumn(c, db, t, side) ==
    LET s == Side(c, t, side)
        o == c.resolution[s.dataset].field_sources[s.key]
        r == Rep(c, o, s.dataset)
    IN  db[o][r.resource].columns[Column(r, s.key)]

-----------------------------------------------------------------------------
TraversalInit == Init /\ join = Nothing

\* Everything but the traversal.
CatalogStep == Next /\ UNCHANGED join

\* The traversal is refused for the first thing that is wrong with it.
RefuseTraversal(t) ==
    /\ phase = "active"
    /\ \E e \in TraversalErrors(catalog, t) : error' = e
    /\ join' = [traversal |-> t, driver |-> None, key |-> None]
    /\ phase' = "refused"
    /\ UNCHANGED <<catalog_vars, request, resolved>>

\* Both sides can be planned on their own.
PlanSides(t) ==
    /\ phase = "active" /\ TraversalErrors(catalog, t) = {}
    /\ join' = [traversal |-> t, driver |-> None, key |-> None]
    /\ phase' = "sided"
    /\ UNCHANGED <<catalog_vars, request, resolved, error>>

\* _choose_driver: a left join is driven from its root; for an inner join
\* the statistics, or the number of filters, may speak for either side.
Drivers(t) == IF t.optional THEN {"left"} ELSE {"left", "right"}

\* The probing side bound, and resolved, for a list of values.
ProbeErrors(c, t, side, values) ==
    LET errors == SideErrors(c, ProbeQuery(c, t, side, values)) IN IF errors = {} THEN {None} ELSE errors

\* The probing side is planned with a sample key.  Without one, the look-up
\* of the sample raises.
PlanProbe(driver) ==
    LET t     == join.traversal
        probe == Opposite(driver)
        type  == KeyType(catalog, t, probe)
    IN  /\ phase = "sided" /\ driver \in Drivers(t)
        /\ join' = [join EXCEPT !.driver = driver]
        /\ error' \in IF HasSample(type) THEN ProbeErrors(catalog, t, probe, <<Sample(type)>>)
                      ELSE {"KeyError"}
        /\ phase' = IF error' = None THEN "planned" ELSE "refused"
        /\ UNCHANGED <<catalog_vars, request, resolved>>

\* The driving side returned a batch of keys: the probing side is planned for
\* them, and its rows are found under the key if they hold an equal value.
Probe(value) ==
    LET t     == join.traversal
        probe == Opposite(join.driver)
        keys  == [n \in 1 .. BatchSize |-> Wire(value)]
        meets == \E w \in Returns(KeyColumn(catalog, database, t, probe)) : Class(w) = Class(value)
    IN  /\ phase = "planned" /\ value \in Returns(KeyColumn(catalog, database, t, join.driver))
        /\ join' = [join EXCEPT !.key = value]
        /\ error' \in ProbeErrors(catalog, t, probe, keys)
        /\ phase' = IF error' # None THEN "refused" ELSE IF meets THEN "matched" ELSE "missed"
        /\ UNCHANGED <<catalog_vars, request, resolved>>

Values == UNION {Returns(n) : n \in {"integer", "numeric", "double precision", "boolean", "uuid",
                                     "timestamp", "date", "text"}}

TraversalNext ==
    \/ CatalogStep
    \/ \E t \in Traversals : RefuseTraversal(t) \/ PlanSides(t)
    \/ \E driver \in {"left", "right"} : PlanProbe(driver)
    \/ \E value \in Values : Probe(value)

TraversalSpec == TraversalInit /\ [][TraversalNext]_traversal_vars

-----------------------------------------------------------------------------
(* Properties.                                                             *)

\* The caller's query of one side, as it would be asked without the join.
Alone(c, t, side) ==
    [dataset |-> Side(c, t, side).dataset, order_by |-> <<>>, first |-> 1, quality |-> FALSE,
     select  |-> Own(t, side).select, where |-> Own(t, side).where]

\* And with the fields of the key and of the order, which need sources too.
AloneWithKey(c, t, side) ==
    [Alone(c, t, side) EXCEPT !.select = IF @ = <<"*">> THEN @
                                         ELSE @ \o <<Side(c, t, side).key>> \o Own(t, side).order_by]

\* The filter has room for the list of keys.
HasRoom(where) == where = NoFilter \/ (where.depth < MaxDepth /\ where.nodes + 2 <= MaxTerms)

\* Columns that hold the values of a type as the filter language writes them.
Plain(type) ==
    CASE type = "id"                 -> {"text", "uuid"}
      [] type \in {"string", "text"} -> {"text"}
      [] type = "int"                -> {"integer", "bigint"}
      [] type = "float"              -> {"integer", "bigint", "double precision"}
      [] type = "bool"               -> {"boolean"}
      [] OTHER                       -> {type}

\* Keys that no filter can be written with: a float that is not finite, and an
\* ID without a character.
Unwritable(type) == {"nan", "infinity"} \cup (IF type = "id" THEN {"blank"} ELSE {})

\* A traversal is refused for what its caller asked: a relationship that cannot
\* be followed, a page or an order beyond the rules, a field named twice, a side
\* that would be refused alone.  Once its sides are planned, a batch of keys is
\* refused for the value of a key only: one that no filter can be written with,
\* or of a column that does not hold the type as the filter language writes it.
\* The bounds of the join itself (the keys of a batch, the rows of a side) never
\* get in the way.  Two refusals besides are the code's own, and no rule of the
\* documentation names them: the filter of the probing side, fit for a query of
\* its own, may have no room left for the keys; and no traversal over json or
\* bytes keys gets further than a KeyError (_SAMPLE), although "the join field
\* can be any field" (docs/query/joins.mdx:105, docs/catalog/relations.mdx:71-76).
JoinRefusalsAreKnown ==
    (phase = "refused" /\ join # Nothing) =>
        LET t == join.traversal IN
        IF join.driver = None
        THEN \/ RelationshipError(catalog, t) # None
             \/ RepeatsInStep(t) \/ RepeatsInOrder(t)
             \/ ~IsPage(t.root.first) \/ OrderErrors(catalog, t) # {}
             \/ \E side \in {"left", "right"} :
                    \/ BindError(catalog, Alone(catalog, t, side), UserPolicy) # None
                    \/ ResolveErrors(catalog, AloneWithKey(catalog, t, side)) # {}
        ELSE LET probe == Opposite(join.driver)
                 type  == KeyType(catalog, t, probe)
             IN  \/ error = "KeyError" /\ join.key = None /\ type \in {"json", "bytes"}
                 \/ error = "query_limit_invalid" /\ ~HasRoom(Own(t, probe).where)
                 \/ error = "query_value_type_invalid" /\ join.key # None /\
                        (join.key \in Unwritable(type) \/
                            KeyColumn(catalog, database, t, join.driver) \notin Plain(type))

\* Equal keys meet, whichever side drives: for a relationship the catalog
\* accepts, over columns that hold plain values (and IDs that are text on both
\* sides or UUIDs on both), a key of the driving side can be asked for on the
\* other side and finds an equal key there.  An infinite float is equal to itself
\* in either database, but YoDb cannot ask for it, nor for NaN or a blank ID: a
\* batch that holds one fails as a whole (JoinRefusalsAreKnown).
EqualKeysMeet ==
    (join # Nothing /\ join.key # None) =>
        LET t     == join.traversal
            left  == KeyColumn(catalog, database, t, "left")
            right == KeyColumn(catalog, database, t, "right")
        IN  \/ phase = "matched"
            \/ \E side \in {"left", "right"} : join.key \in Unwritable(KeyType(catalog, t, side))
            \/ phase = "refused" /\ ~HasRoom(Own(t, Opposite(join.driver)).where)
            \/ left \notin Plain(KeyType(catalog, t, "left")) \/ right \notin Plain(KeyType(catalog, t, "right"))
            \/ "id" \in {KeyType(catalog, t, side) : side \in {"left", "right"}}
               /\ left # right
=============================================================================
