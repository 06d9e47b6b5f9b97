----------------------------- MODULE MCPlanning -----------------------------
(* Four components that share no state, side by side: a run is about one of  *)
(* them, the part, and the others keep still.                                *)
(*                                                                           *)
(* Queries of up to three reads under budgets shorter and longer than the    *)
(* adapter's own limits, or under none; two planners with different columns  *)
(* of one table; a store of two for three keys; and a column of every small  *)
(* content beside one of three rows, combined by every kind of filter.       *)
EXTENDS QueryDeadline, StatisticsCache, ObservationStore, Selectivity

MCBudgets == {1, 2, 4, None}
MCView    == [p1 |-> {"plan"}, p2 |-> {"region"}]

MCTypes    == {[a |-> "number", b |-> "text"], [a |-> "timestamp", b |-> "number"]}
Nothing    == [copies |-> [v \in Domain |-> 0], nulls |-> 0]
MCContents == [a |-> [copies : [Domain -> 0 .. 2], nulls : {0, 1}] \ {Nothing},
               b |-> {[copies |-> [v \in Domain |-> <<0, 2, 1>>[(v + 1) \div 2]], nulls |-> n] : n \in {0, 1}}]
MCDefault  == [equality |-> <<1, 20>>, range |-> <<1, 3>>, is_null |-> <<1, 50>>, text_match |-> <<1, 10>>]

OnA == {Condition("a", op, {3}) : op \in {"eq", "lt", "gte"}}
           \cup {Condition("a", "not_in", {1, 3}), Condition("a", "is_null", {})}
OnB == {Condition("b", "ne", {5}), Condition("b", "is_not_null", {}), Condition("b", "in", {1, 3})}
Not(e)  == [kind |-> "not", parts |-> <<e>>]
Both(k) == {[kind |-> k, parts |-> <<e, g>>] : e \in OnA, g \in OnB}
MCFilters == {NoFilter} \cup OnA \cup Both("all") \cup Both("any") \cup {Not(e) : e \in Both("any")}
                 \cup {[kind |-> "all", parts |-> <<e, Not(g)>>] : e \in OnA, g \in OnB}

VARIABLE part

Idle == CHOOSE c \in [Fields -> UNION {Contents[f] : f \in Fields}] : \A f \in Fields : c[f] \in Contents[f]

\* A component that is not the part starts, and stays, in one of its initial states.
PlanningInit ==
    /\ part \in {"time", "cache", "store", "estimate"}
    /\ Init /\ CacheInit /\ StoreInit /\ EstimateInit
    /\ part # "time"     => budget = None
    /\ part # "cache"    => analyzed = [k \in Tables |-> 0]
    /\ part # "estimate" => content = Idle /\ type = CHOOSE t \in Types : TRUE

PlanningNext ==
    /\ \/ part = "time" /\ Next /\ UNCHANGED <<cache_vars, store_vars, estimate_vars>>
       \/ part = "cache" /\ CacheNext /\ UNCHANGED <<vars, store_vars, estimate_vars>>
       \/ part = "store" /\ StoreNext /\ UNCHANGED <<vars, cache_vars, estimate_vars>>
       \/ part = "estimate" /\ EstimateNext /\ UNCHANGED <<vars, cache_vars, store_vars>>
    /\ UNCHANGED part

PlanningSpec == PlanningInit /\ [][PlanningNext]_<<part, vars, cache_vars, store_vars, estimate_vars>>
=============================================================================
