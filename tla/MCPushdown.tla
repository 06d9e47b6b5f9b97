----------------------------- MODULE MCPushdown -----------------------------
(* One field of the identity source ("a") and one of a contributor ("b"),    *)
(* two records, and every filter that joins a condition or its negation, or  *)
(* an alternative of two, with a second condition.                           *)
EXTENDS Pushdown

RECURSIVE Height(_)
Height(e) == IF e.kind = "leaf" THEN 0
             ELSE 1 + Greatest({0} \cup {Height(e.parts[n]) : n \in DOMAIN e.parts})

MCOwner   == [a |-> "anchor", b |-> "contributor"]
MCInside  == {<<1, 1>>, <<2, 2>>, <<1, 2>>}
MCNoLimit == -1

OnA    == {Leaf("a", "eq", {1}), Leaf("a", "is_null", {}), Leaf("a", "contains", {1})}
Simple == OnA \cup {Leaf("b", "gt", {1}), Leaf("b", "is_null", {}),
                  Leaf("b", "is_not_null", {}), Leaf("b", "contains", {1})}
Composed == Simple \cup {Not(e) : e \in Simple}
                   \cup {Any(<<e, g>>) : e \in OnA, g \in Simple \ OnA}
                   \cup {Any(<<e, Leaf("b", "is_null", {})>>) : e \in Simple \ OnA}
MCWheres == {NoFilter} \cup Composed
                \cup {All(<<e, g>>) : e \in Composed,
                                     g \in {Leaf("a", "ne", {1}), Leaf("b", "lt", {2})}}
MCFilters == MCWheres \cup Composed \cup {Leaf("a", "ne", {1}), Leaf("b", "lt", {2})}
MCDepth   == [e \in MCFilters |-> Height(e)]

\* Python agrees with PostgreSQL (text, integers), never finds a value equal to
\* or in order with a bound one (uuid), or finds only some equal (numeric: 2 is
\* one that is below the float it is compared with).
Agreeing == [eq |-> {<<n, n>> : n \in Vals}, gt |-> {<<2, 1>>}, lt |-> {<<1, 2>>}]
Apart    == [eq |-> {}, gt |-> {}, lt |-> {}]
Decimals == [eq |-> {<<1, 1>>}, gt |-> {<<2, 1>>}, lt |-> {<<1, 2>>, <<2, 2>>}]
MCReadings == {[f \in Named |-> IF f = "a" THEN x ELSE IF f = "b" THEN y ELSE Agreeing] :
                  <<x, y>> \in {<<Agreeing, Agreeing>>, <<Decimals, Apart>>}}

Term(f, d) == [field |-> f, dir |-> d]
MCOrders  == {<<Term("a", "desc"), Term("id", "asc")>>, <<Term("b", "asc"), Term("id", "desc")>>}

Compared == {"eq", "ne", "in", "not_in", "gt", "lt", "is_null", "is_not_null"}
Postgres == [operators |-> Compared \cup {"all", "any", "not"},
             filterable |-> {"id", "a", "b"}, orderable |-> {"id", "a", "b"},
             supports_order |-> TRUE, supports_limit |-> TRUE, maximum_rows |-> 1]
Plain    == [Postgres EXCEPT !.operators = Compared \cup {"all"},
                             !.supports_limit = FALSE, !.maximum_rows = 2]
Typed    == [Postgres EXCEPT !.filterable = {"id", "b"}, !.orderable = {"id", "b"}]
MCKinds  == {Postgres, Plain, Typed}
=============================================================================
