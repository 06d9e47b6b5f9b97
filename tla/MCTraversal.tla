---------------------------- MODULE MCTraversal ----------------------------
(* Customers of two sources and a vector store, tickets of one source, and  *)
(* a relationship between the field "key" of both.  The catalog is looked   *)
(* at with every type of the key, and with every two of a list of edits;    *)
(* the databases with every pair of columns a key may be in, and with what  *)
(* may be wrong with one of them.                                           *)
EXTENDS Discovery

F(type)   == [type |-> type, visibility |-> "public", semantic_eligible |-> FALSE]
B(name)   == [name |-> name, column |-> name]
Maps(fs)  == [n \in DOMAIN fs |-> B(fs[n])]
Rp(resource, identity, fields, embeddings) ==
    [resource |-> resource, identity |-> identity, fields |-> Maps(fields), embeddings |-> embeddings]
End(s, f) == [source |-> s, field |-> f]

Base(type) ==
    [datasets |->
        [customer |-> [id |-> F("id"), key |-> F(type), plan |-> F("string"),
                       bio |-> [F("text") EXCEPT !.semantic_eligible = TRUE]],
         ticket   |-> [id |-> F("id"), key |-> F(type)]],
     sources |->
        [crm     |-> [kind |-> "postgres",
                      datasets |-> [customer |-> Rp("people", <<"id">>, <<"id", "key", "bio">>, {}),
                                    ticket   |-> Rp("tickets", <<"id">>, <<"id", "key">>, {})]],
         billing |-> [kind |-> "postgres",
                      datasets |-> [customer |-> Rp("accounts", <<"id">>, <<"id", "plan">>, {})]],
         store   |-> [kind |-> "postgres",
                      datasets |-> [customer |-> Rp("vectors", <<"id">>, <<"id">>, {"bio"})]]],
     resolution |->
        [customer |-> [identity_source |-> "crm",
                       field_sources |-> [id |-> "crm", key |-> "crm", bio |-> "crm", plan |-> "billing"]],
         ticket   |-> [identity_source |-> "crm", field_sources |-> [id |-> "crm", key |-> "crm"]]],
     relationships |->
        <<[name |-> "raised", aliases |-> {"has_ticket"}, from |-> "customer", to |-> "ticket",
           direction |-> "bi",
           implementations |-> <<[from |-> End("crm", "key"), to |-> End("crm", "key"), edge_type |-> FALSE]>>],
          [name |-> "same_id", aliases |-> {}, from |-> "customer", to |-> "ticket", direction |-> "uni",
           implementations |-> <<[from |-> End("crm", "id"), to |-> End("crm", "id"), edge_type |-> FALSE]>>]>>]

\* A second way to compare customers with tickets.
OtherWay == [from |-> End("crm", "id"), to |-> End("crm", "id"), edge_type |-> FALSE]

\* An edge of a graph cannot be had from this catalog's sources.
Edge == [from |-> End("crm", "key"), to |-> End("crm", "key"), edge_type |-> TRUE]

Without(f, x) == [y \in DOMAIN f \ {x} |-> f[y]]

Edit(e, c) ==
    CASE e = "none"            -> c
      [] e = "internal id"     -> [c EXCEPT !.datasets.ticket.id.visibility = "internal"]
      [] e = "internal key"    -> [c EXCEPT !.datasets.ticket.key.visibility = "internal"]
      [] e = "internal plan"   -> [c EXCEPT !.datasets.customer.plan.visibility = "internal"]
      [] e = "other type"      -> [c EXCEPT !.datasets.ticket.key.type = "int"]
      [] e = "json plan"       -> [c EXCEPT !.datasets.customer.plan.type = "json"]
      [] e = "not eligible"    -> [c EXCEPT !.datasets.customer.bio.semantic_eligible = FALSE]
      [] e = "plan identity"   -> [c EXCEPT !.sources.billing.datasets.customer.identity = <<"plan">>]
      [] e = "double identity" -> [c EXCEPT !.sources.billing.datasets.customer.identity = <<"id", "id">>]
      [] e = "wide identity"   -> [c EXCEPT !.sources.billing.datasets.customer.identity = <<"plan", "id">>]
      [] e = "no identity"     -> [c EXCEPT !.sources.billing.datasets.customer.identity = <<"bio">>]
      [] e = "store by plan"   -> [c EXCEPT !.sources.store.datasets.customer.identity = <<"plan">>,
                                            !.sources.store.datasets.customer.fields = Maps(<<"plan">>)]
      [] e = "crm by key"      -> [c EXCEPT !.sources.crm.datasets.customer.identity = <<"key">>]
      [] e = "two embeddings"  -> [c EXCEPT !.sources.crm.datasets.customer.embeddings = {"bio"}]
      [] e = "vectors at crm"  -> [c EXCEPT !.sources.crm.datasets.customer.embeddings = {"bio"},
                                            !.sources.store.datasets.customer.embeddings = {}]
      [] e = "unmapped owner"  -> [c EXCEPT !.resolution.customer.field_sources.plan = "crm"]
      [] e = "unknown owner"   -> [c EXCEPT !.resolution.customer.field_sources.plan = "erp"]
      [] e = "other owner"     -> [c EXCEPT !.resolution.customer.field_sources.id = "billing"]
      [] e = "identity moved"  -> [c EXCEPT !.resolution.customer.field_sources.id = "billing",
                                            !.resolution.customer.identity_source = "billing"]
      [] e = "no resolution"   -> [c EXCEPT !.resolution = Without(@, "ticket")]
      [] e = "no tickets"      -> [c EXCEPT !.sources.crm.datasets = Without(@, "ticket")]
      [] e = "unknown field"   -> [c EXCEPT !.sources.billing.datasets.customer.fields = Maps(<<"id", "plan", "tax">>)]
      [] e = "edge"            -> [c EXCEPT !.relationships[1].implementations = <<Edge>>]
      [] e = "graph"           -> [c EXCEPT !.relationships[1].implementations = <<Edge>>,
                                            !.sources.crm.kind = "neo4j"]
      [] e = "eligible key"    -> [c EXCEPT !.datasets.customer.key.semantic_eligible = TRUE]
      [] e = "two ways"        -> [c EXCEPT !.relationships[1].implementations = @ \o <<OtherWay>>]
      [] e = "uni"             -> [c EXCEPT !.relationships[1].direction = "uni"]
      [] e = "same alias"      -> [c EXCEPT !.relationships[1].aliases = {"same_id"}]

Edits == {"none", "internal id", "internal key", "internal plan", "other type", "json plan", "not eligible",
          "plan identity", "double identity", "wide identity", "no identity", "store by plan", "crm by key",
          "two embeddings", "vectors at crm", "unmapped owner", "unknown owner", "other owner",
          "identity moved", "no resolution", "no tickets", "unknown field", "edge", "graph", "two ways",
          "eligible key", "uni", "same alias"}

MCCatalogs == {Edit(e, Edit(g, Base("id"))) : e \in Edits, g \in Edits \ {"no tickets", "no resolution"}}
                  \cup {Edit(e, Base(t)) : t \in {"string", "int", "float", "timestamp", "uuid", "json"},
                                          e \in {"none", "other type"}}

Table(columns, keys) == [columns |-> columns, keys |-> keys]
Stored(left, right) ==
    [crm     |-> [people  |-> Table([id |-> "text", key |-> left, bio |-> "text"], {<<"id">>, <<"key">>}),
                  tickets |-> Table([id |-> "text", key |-> right], {<<"id">>})],
     billing |-> [accounts |-> Table([id |-> "text", plan |-> "text"], {<<"id">>, <<"plan">>, <<"id", "plan">>})],
     store   |-> [vectors  |-> Table([id |-> "text", plan |-> "text"], {<<"id">>, <<"plan">>})]]

Fault(f, d) ==
    CASE f = "no key"       -> [d EXCEPT !.billing.accounts.keys = {<<"plan">>}]
      [] f = "wide key"     -> [d EXCEPT !.billing.accounts.keys = {<<"plan">>, <<"id", "plan">>}]
      [] f = "int id"       -> [d EXCEPT !.billing.accounts.columns.id = "integer"]
      [] f = "no column"    -> [d EXCEPT !.billing.accounts.columns = Without(@, "plan")]
      [] f = "json column"  -> [d EXCEPT !.billing.accounts.columns.plan = "jsonb"]
      [] f = "no table"     -> [d EXCEPT !.crm = Without(@, "tickets")]

Faults == {"no key", "wide key", "int id", "no column", "json column", "no table"}
Ids     == {"text", "uuid", "integer"}
Numbers == {"integer", "numeric", "double precision"}
Times   == {"timestamp", "date"}
MCDatabases == {Stored(p[1], p[2]) : p \in Ids \X Ids \cup Numbers \X Numbers \cup Times \X Times
                                             \cup {<<"jsonb", "jsonb">>}}
                   \cup {Fault(f, Stored("text", "text")) : f \in Faults}

Value(form, of) == [form |-> form, of |-> of]
Cond(f, op, value) == [semantic |-> FALSE, field |-> f, op |-> op, value |-> value, conjunctive |-> TRUE]
Means(f)   == [semantic |-> TRUE, field |-> f, op |-> "means", value |-> Value("none", <<>>), conjunctive |-> TRUE]
Only(term) == [terms |-> <<term>>, depth |-> 1, nodes |-> 1]
Both(x, y) == [terms |-> <<x, y>>, depth |-> 2, nodes |-> 3]
Under(x)   == [terms |-> <<[x EXCEPT !.conjunctive = FALSE]>>, depth |-> 2, nodes |-> 2]

Filters == {NoFilter, Only(Means("bio")), Under(Means("bio")), Only(Means("key")), Both(Means("bio"), Means("bio")),
            Both(Means("bio"), Cond("plan", "eq", Value("one", <<"text">>))),
            Only(Cond("plan", "is_null", Value("none", <<>>))), Only(Cond("plan", "gt", Value("one", <<"text">>))),
            Only(Cond("key", "eq", Value("one", <<"int">>))), Only(Cond("id", "in", Value("list", <<"text", "text">>))),
            Only(Cond("id", "in", Value("list", <<"text", "text", "text">>))),
            [Under(Cond("bio", "contains", Value("one", <<"text">>))) EXCEPT !.depth = 4, !.nodes = 4],
            [Under(Cond("bio", "contains", Value("one", <<"text">>))) EXCEPT !.depth = 3, !.nodes = 3]}

Query(d, select, where, order) ==
    [dataset |-> d, select |-> select, where |-> where, order_by |-> order, first |-> 1, quality |-> FALSE]
Asked == {Query("customer", select, where, order) :
              select \in {<<"*">>, <<"bio">>, <<"id", "plan">>}, where \in Filters, order \in {<<>>, <<"key">>}}
MCRequests == Asked \cup {[q EXCEPT !.quality = TRUE] : q \in {r \in Asked : r.select = <<"*">> /\ r.order_by = <<>>}}
                    \cup {Query("ticket", <<"*">>, NoFilter, <<>>), Query("ticket", <<"key">>, NoFilter, <<>>),
                          Query("order", <<"*">>, NoFilter, <<>>),
                          [Query("ticket", <<"*">>, NoFilter, <<>>) EXCEPT !.first = 3],
                          [Query("ticket", <<"*">>, NoFilter, <<>>) EXCEPT !.first = 0],
                          Query("ticket", <<"key", "key">>, NoFilter, <<>>),
                          Query("ticket", <<"*">>, NoFilter, <<"key", "key">>)}

Sided == {NoFilter, Only(Cond("id", "in", Value("list", <<"text">>))), Only(Means("bio")),
          [Only(Cond("id", "in", Value("list", <<"text">>))) EXCEPT !.depth = 3, !.nodes = 3]}
Goes(rel, direction, optional, left, right) ==
    LET from == IF direction = "forward" THEN "customer" ELSE "ticket"
        to   == IF direction = "forward" THEN "ticket" ELSE "customer"
    IN  [relationship |-> rel, direction |-> direction, optional |-> optional,
         root |-> Query(from, <<"*">>, left, <<>>), step |-> Query(to, <<"id">>, right, <<>>)]
Plainly == {Goes(rel, direction, optional, NoFilter, NoFilter) :
               rel \in {"raised", "has_ticket", "same_id", "bought"}, direction \in {"forward", "reverse"},
               optional \in BOOLEAN}
Filtered == {Goes("raised", direction, FALSE, l, r) : direction \in {"forward", "reverse"}, l \in Sided, r \in Sided}
Variants(t) == {[t EXCEPT !.root.select = <<"plan">>], [t EXCEPT !.root.first = 3], [t EXCEPT !.root.first = 0],
                [t EXCEPT !.root.select = <<"plan", "plan">>], [t EXCEPT !.step.select = <<"key", "key">>],
                [t EXCEPT !.root.order_by = <<"plan", "plan">>], [t EXCEPT !.step.order_by = <<"id", "key">>],
                [t EXCEPT !.root.order_by = <<"plan">>], [t EXCEPT !.step.order_by = <<"key">>],
                [t EXCEPT !.root.quality = TRUE]}
MCTraversals == Plainly \cup Filtered \cup Variants(Goes("raised", "forward", FALSE, NoFilter, NoFilter))
                   \cup Variants(Goes("raised", "forward", FALSE, Only(Means("bio")), NoFilter))
=============================================================================
