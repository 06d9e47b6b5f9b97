------------------------------ MODULE Catalog ------------------------------
(***************************************************************************)
(* What a catalog may say and what may be asked of it: the static rules of *)
(* the loader (catalog.py), the comparison of a catalog with its databases *)
(* (inspection/postgres.py), the binding of a query to the active catalog  *)
(* (query/validation.py) and the resolution of its fields to the sources   *)
(* that own them (query/resolution.py).                                    *)
(*                                                                         *)
(* When a catalog is loaded, refreshed and used is CatalogRuntime's; here  *)
(* it is which catalogs and queries pass each gate, and what the later     *)
(* gates may then rely on.  Names that must be identifiers or not blank    *)
(* are taken to be so.  A filter is given by its conditions in the order   *)
(* of the document, each with whether it stands under "all" only, and by   *)
(* its depth and number of nodes.                                          *)
(***************************************************************************)
EXTENDS Integers, Sequences, FiniteSets, SequencesExt, Functions

CONSTANTS
    Catalogs,       \* catalog texts to look at, as parsed
    Databases,      \* what the sources may hold: [source -> [resource -> table]]
    Requests,       \* parsed queries to look at
    AdapterKinds,   \* source kinds with an inspection adapter
    MaxDepth,       \* MAXIMUM_EXPRESSION_DEPTH
    MaxTerms,       \* MAXIMUM_EXPRESSION_TERMS
    MaxSemantic,    \* semantic conditions allowed in a query
    MaxPage,        \* maximum_page_size
    MaxIn           \* maximum_in_values

\* LogicalType
Types == {"id", "string", "text", "int", "float", "bool", "timestamp", "uuid", "json", "bytes"}

IsList(s) == s \in Seq(ToSet(s))

\* What comes out of the YAML files: a mapping names nothing twice, and every
\* name is an identifier (so that "*" is none).
IsCatalog(c) ==
    /\ \A d \in DOMAIN c.datasets : \A f \in DOMAIN c.datasets[d] : f # "*" /\ c.datasets[d][f].type \in Types
    /\ \A s \in DOMAIN c.sources : \A d \in DOMAIN c.sources[s].datasets :
           LET fields == c.sources[s].datasets[d].fields
           IN  IsList(fields) /\ \A m, n \in DOMAIN fields : fields[m].name = fields[n].name => m = n
    /\ IsList(c.relationships) /\ \A rel \in ToSet(c.relationships) : IsList(rel.implementations)

\* What comes out of the JSON of a request.
IsQuery(q) ==
    /\ IsList(q.select) /\ IsList(q.order_by) /\ IsList(q.where.terms)
    /\ {q.where.depth, q.where.nodes} \subseteq Nat /\ q.first \in Int
    /\ \A t \in ToSet(q.where.terms) : IsList(t.value.of)

ASSUME CatalogAssumption ==
    /\ {MaxDepth, MaxTerms} \subseteq Nat \ {0} /\ {MaxSemantic, MaxPage, MaxIn} \subseteq Nat
    /\ \A c \in Catalogs : IsCatalog(c)
    /\ \A q \in Requests : IsQuery(q)

VARIABLES
    catalog,        \* the catalog files
    database,       \* the databases behind its sources
    phase,          \* how far the catalog, then the query, has come
    request,        \* the query
    resolved,       \* resolved[s]: what is read of source s, once resolved
    error           \* why the query was refused

catalog_vars == <<catalog, database>>
vars == <<catalog, database, phase, request, resolved, error>>

None == "none"
Nothing == [x \in {} |-> None]

\* The elements of a sequence at some of its places, in order.
Picked(s, places) ==
    LET nth(i) == CHOOSE n \in places : Cardinality({m \in places : m <= n}) = i
    IN  [i \in 1 .. Cardinality(places) |-> s[nth(i)]]

-----------------------------------------------------------------------------
(* Loading: the three files agree with each other.                         *)

FieldsOf(c, d) == DOMAIN c.datasets[d]
Represented(c, s) == DOMAIN c.sources[s].datasets
Rep(c, s, d) == c.sources[s].datasets[d]
Mapped(r) == {r.fields[n].name : n \in DOMAIN r.fields}
Column(r, f) == (CHOOSE b \in ToSet(r.fields) : b.name = f).column

\* requires_public_id
HasPublicId(fields) ==
    "id" \in DOMAIN fields /\ fields["id"].type = "id" /\ fields["id"].visibility = "public"

\* A column of vectors stands for a text field that may be searched; a source
\* that holds only the vectors must know the records by their ID.
EmbeddingIsAllowed(c, s, d, f) ==
    LET r == Rep(c, s, d) IN
    /\ f \in FieldsOf(c, d)
    /\ f \in Mapped(r) \/ "id" \in ToSet(r.identity)
    /\ c.datasets[d][f].semantic_eligible /\ c.datasets[d][f].type \in {"string", "text"}

RepresentationIsValid(c, s, d) ==
    LET r == Rep(c, s, d) IN
    /\ d \in DOMAIN c.datasets
    /\ r.fields # <<>> /\ r.identity # <<>>
    /\ Mapped(r) \subseteq FieldsOf(c, d)
    /\ ToSet(r.identity) \subseteq Mapped(r)
    /\ \A f \in r.embeddings : EmbeddingIsAllowed(c, s, d, f)

\* _validate_embedding_owners
EmbeddingsAreDeclaredOnce(c) ==
    \A s, t \in DOMAIN c.sources : s # t =>
        \A d \in Represented(c, s) \cap Represented(c, t) :
            Rep(c, s, d).embeddings \cap Rep(c, t, d).embeddings = {}

\* _validate_source_field
IsSourceField(c, d, s, f) ==
    s \in DOMAIN c.sources /\ d \in Represented(c, s) /\ f \in Mapped(Rep(c, s, d))

\* (mutant: the owner of a field need only represent the dataset)
OwnersRepresent(c, d) ==
    LET r == c.resolution[d] IN
    /\ IsSourceField(c, d, r.identity_source, "id")
    /\ "id" \in ToSet(Rep(c, r.identity_source, d).identity)
    /\ DOMAIN r.field_sources = FieldsOf(c, d)
    /\ r.field_sources["id"] = r.identity_source
    /\ \A f \in FieldsOf(c, d) : r.field_sources[f] \in DOMAIN c.sources
                                 /\ d \in Represented(c, r.field_sources[f])

\* _validate_resolutions
ResolutionIsValid(c, d) ==
    LET r == c.resolution[d] IN
    /\ IsSourceField(c, d, r.identity_source, "id")
    /\ "id" \in ToSet(Rep(c, r.identity_source, d).identity)
    /\ DOMAIN r.field_sources = FieldsOf(c, d)
    /\ r.field_sources["id"] = r.identity_source
    /\ \A f \in FieldsOf(c, d) : IsSourceField(c, d, r.field_sources[f], f)

\* _validate_graph_implementation
IsGraphEdge(c, rel, i) ==
    LET s == i.from.source IN
    s = i.to.source /\ c.sources[s].kind = "neo4j" /\ {rel.from, rel.to} \subseteq Represented(c, s)

\* (mutant: fields of any two types may be compared)
ComparesAnyFields(c, rel, i) ==
    IsSourceField(c, rel.from, i.from.source, i.from.field) /\ IsSourceField(c, rel.to, i.to.source, i.to.field)

ImplementationIsValid(c, rel, i) ==
    /\ IsSourceField(c, rel.from, i.from.source, i.from.field)
    /\ IsSourceField(c, rel.to, i.to.source, i.to.field)
    /\ IF i.edge_type THEN IsGraphEdge(c, rel, i)
       ELSE c.datasets[rel.from][i.from.field].type = c.datasets[rel.to][i.to.field].type

\* _validate_relationships
RelationshipIsValid(c, rel) ==
    /\ {rel.from, rel.to} \subseteq DOMAIN c.datasets
    /\ rel.implementations # <<>>
    /\ \A i \in ToSet(rel.implementations) : ImplementationIsValid(c, rel, i)

\* load_catalog and _validate_catalog
Loads(c) ==
    /\ DOMAIN c.datasets # {} /\ DOMAIN c.sources # {} /\ c.relationships # <<>>
    /\ \A d \in DOMAIN c.datasets : HasPublicId(c.datasets[d])
    /\ \A s \in DOMAIN c.sources : /\ Represented(c, s) # {}
                                   /\ \A d \in Represented(c, s) : RepresentationIsValid(c, s, d)
    /\ EmbeddingsAreDeclaredOnce(c)
    /\ DOMAIN c.resolution = DOMAIN c.datasets
    /\ \A d \in DOMAIN c.datasets : ResolutionIsValid(c, d)
    /\ \A rel \in ToSet(c.relationships) : RelationshipIsValid(c, rel)

-----------------------------------------------------------------------------
(* Inspection: the databases are as the catalog says.  A table has columns *)
(* of native types, and the column lists of its primary and unique keys.   *)

\* _postgres_type_family
Family(native) ==
    CASE native \in {"integer", "bigint"}            -> "int"
      [] native \in {"numeric", "double precision"}  -> "float"
      [] native = "boolean"                          -> "bool"
      [] native = "uuid"                             -> "uuid"
      [] native = "jsonb"                            -> "json"
      [] native = "bytea"                            -> "bytes"
      [] native \in {"timestamp", "date"}            -> "timestamp"
      [] native = "text"                             -> "string"
      [] OTHER                                       -> "other"

\* _type_is_compatible
IsCompatible(type, family) ==
    family \in CASE type = "id"                -> {"int", "string", "uuid"}
                 [] type \in {"string", "text"} -> {"string"}
                 [] type = "float"             -> {"int", "float"}
                 [] OTHER                      -> {type}

FieldIsFound(c, d, table, b) ==
    b.column \in DOMAIN table.columns /\ IsCompatible(c.datasets[d][b.name].type, Family(table.columns[b.column]))

\* The columns of the identity in the order the fields are mapped; a list of
\* another length than the identity (a field named twice) is not looked up.
IdentityColumns(r) ==
    Picked([n \in DOMAIN r.fields |-> r.fields[n].column],
           {n \in DOMAIN r.fields : r.fields[n].name \in ToSet(r.identity)})

\* (mutant: it is enough that the identity lies within a key)
IsWithinAKey(r, table) == \E k \in table.keys : ToSet(IdentityColumns(r)) \subseteq ToSet(k)

IdentityIsUnique(r, table) ==
    Len(IdentityColumns(r)) = Len(r.identity) => IdentityColumns(r) \in table.keys

\* PostgresCatalogValidator.validate, with the registry's binding_for.
SourceIsValid(c, db, s) ==
    /\ c.sources[s].kind \in AdapterKinds
    /\ \A d \in Represented(c, s) :
           LET r == Rep(c, s, d) IN
           /\ r.resource \in DOMAIN db[s]
           /\ \A b \in ToSet(r.fields) : FieldIsFound(c, d, db[s][r.resource], b)
           /\ IdentityIsUnique(r, db[s][r.resource])

-----------------------------------------------------------------------------
(* Binding: a query against the active catalog.  A query is refused for    *)
(* the first thing that is wrong with it.                                  *)

FirstError(codes) ==
    LET wrong == {n \in DOMAIN codes : codes[n] # None}
    IN  IF wrong = {} THEN None ELSE codes[Min(wrong)]

\* parse_query: no field twice in the selection or the order, a filter neither
\* too deep nor too large, a page of at least one row.
ParseError(q) ==
    FirstError(<<IF q.select = <<"*">> \/ IsInjective(q.select) THEN None ELSE "query_shape_invalid",
                 IF q.where.depth > MaxDepth \/ q.where.nodes > MaxTerms THEN "query_limit_invalid" ELSE None,
                 IF IsInjective(q.order_by) THEN None ELSE "query_shape_invalid",
                 IF q.first < 1 THEN "query_limit_invalid" ELSE None>>)

\* bind_public_field
FieldError(c, d, f) ==
    IF f \notin FieldsOf(c, d) THEN "field_not_found"
    ELSE IF c.datasets[d][f].visibility # "public" THEN "field_not_accessible" ELSE None

\* _validate_operator: what a comparison may be made with.
Supports(op, type) ==
    CASE op \in {"eq", "in", "is_null"} -> type \notin {"json", "bytes"}
      [] op = "gt"                      -> type \in {"int", "float", "timestamp"}
      [] op = "contains"                -> type \in {"string", "text"}

\* _normalize_scalar: which JSON values a type takes.  "stamp" is the text of
\* an instant with its zone, "uuid" that of a UUID, "blank" is blank text.
Takes(type) ==
    CASE type = "id"                  -> {"text", "uuid", "stamp"}
      [] type \in {"string", "text"}  -> {"text", "uuid", "stamp", "blank"}
      [] type = "uuid"                -> {"uuid"}
      [] type = "int"                 -> {"int"}
      [] type = "float"               -> {"int", "float"}
      [] type = "bool"                -> {"bool"}
      [] type = "timestamp"           -> {"stamp"}
      [] OTHER                        -> {}

\* The value of a comparison: [form, of], its form "none", "one" or "list".
ValueError(type, term, max) ==
    LET v == term.value IN
    CASE term.op = "is_null" -> IF v.form = "none" THEN None ELSE "query_value_type_invalid"
      [] term.op # "is_null" /\ (v.form # (IF term.op = "in" THEN "list" ELSE "one") \/ v.of = <<>>)
                             -> "query_value_type_invalid"
      [] OTHER               -> IF Len(v.of) > max /\ v.form = "list" THEN "query_limit_invalid"
                                ELSE IF ToSet(v.of) \subseteq Takes(type) THEN None
                                ELSE "query_value_type_invalid"

\* _bind_expression, and _bind of a semantic condition.
TermError(c, d, term, max) ==
    LET spec == c.datasets[d][term.field] IN
    IF FieldError(c, d, term.field) # None THEN FieldError(c, d, term.field)
    ELSE IF term.semantic
         THEN IF spec.type \in {"string", "text"} /\ spec.semantic_eligible THEN None
              ELSE "query_operator_not_supported"
         ELSE IF Supports(term.op, spec.type) THEN ValueError(spec.type, term, max)
              ELSE "query_operator_not_supported"

\* validate_placement
PlacementError(where) ==
    LET semantic == {n \in DOMAIN where.terms : where.terms[n].semantic} IN
    IF Cardinality(semantic) > MaxSemantic THEN "query_limit_invalid"
    ELSE IF \E n \in semantic : ~where.terms[n].conjunctive THEN "query_expression_invalid"
    ELSE None

\* _bind_order
OrderError(c, d, f) ==
    IF FieldError(c, d, f) # None THEN FieldError(c, d, f)
    ELSE IF c.datasets[d][f].type \in {"json", "bytes"} THEN "query_operator_not_supported"
    ELSE None

\* A quality bar needs a condition it can apply to.
QualityError(q) ==
    IF q.quality /\ ~(\E t \in ToSet(q.where.terms) : t.semantic) THEN "query_limit_invalid" ELSE None

\* A select of <<"*">> stands for a query without one: every public field.
Selected(c, q) ==
    IF q.select = <<"*">> THEN {f \in FieldsOf(c, q.dataset) : FieldError(c, q.dataset, f) = None}
    ELSE ToSet(q.select) \cup {"id"}

\* parse_query and bind_query, under the limits of a policy.
BindError(c, q, policy) ==
    IF ParseError(q) # None THEN ParseError(q)
    ELSE IF q.dataset \notin DOMAIN c.datasets THEN "dataset_not_found"
    ELSE LET d == q.dataset
             select == IF q.select = <<"*">> THEN <<>> ELSE q.select
         IN  FirstError(<<FirstError([n \in DOMAIN select |-> FieldError(c, d, select[n])]),
                          FirstError([n \in DOMAIN q.where.terms |-> TermError(c, d, q.where.terms[n], policy.values)]),
                          PlacementError(q.where),
                          FirstError([n \in DOMAIN q.order_by |-> OrderError(c, d, q.order_by[n])]),
                          IF q.first > policy.page THEN "query_limit_invalid" ELSE None,
                          QualityError(q)>>)

UserPolicy == [page |-> MaxPage, values |-> MaxIn]

-----------------------------------------------------------------------------
(* Resolution: which source each field is read from.                       *)

\* _collect_field_uses
UsedFields(c, q) == {"id"} \cup Selected(c, q) \cup {t.field : t \in ToSet(q.where.terms)} \cup ToSet(q.order_by)

OwnerOf(c, q, f) == c.resolution[q.dataset].field_sources[f]
Owners(c, q) == {OwnerOf(c, q, f) : f \in UsedFields(c, q)}
OwnedBy(c, q, s) == {f \in UsedFields(c, q) : OwnerOf(c, q, f) = s}

\* _vector_stores: sources that hold only the vectors of a searched field.
VectorStores(c, q) ==
    {s \in DOMAIN c.sources :
        q.dataset \in Represented(c, s) /\
        \E t \in ToSet(q.where.terms) : t.semantic /\ t.field \in Rep(c, s, q.dataset).embeddings
                                                   /\ t.field \notin Mapped(Rep(c, s, q.dataset))}

KnowsTheId(c, s, d) == "id" \in Mapped(Rep(c, s, d)) /\ "id" \in ToSet(Rep(c, s, d).identity)

\* _resolve_source_binding, _resolve_logical_id and _resolve_field
SourceError(c, q, s) ==
    IF s \notin DOMAIN c.sources \/ q.dataset \notin Represented(c, s) THEN "source_binding_unavailable"
    ELSE IF ~KnowsTheId(c, s, q.dataset) THEN "source_logical_id_unavailable"
    ELSE IF ~(OwnedBy(c, q, s) \subseteq Mapped(Rep(c, s, q.dataset))) THEN "source_binding_unavailable"
    ELSE None

\* resolve_query_sources: what is wrong with the sources (the owners of the
\* fields come first), or the fields read of each, its ID always among them.
ResolveErrors(c, q) ==
    LET wrong == {SourceError(c, q, s) : s \in Owners(c, q)} \ {None}
    IN  IF wrong # {} THEN wrong ELSE {SourceError(c, q, s) : s \in VectorStores(c, q)} \ {None}
Sources(c, q) == [s \in Owners(c, q) \cup VectorStores(c, q) |-> OwnedBy(c, q, s) \cup {"id"}]

-----------------------------------------------------------------------------
Init ==
    /\ catalog \in Catalogs /\ database \in Databases
    /\ phase = "written" /\ request = Nothing /\ resolved = Nothing /\ error = None

Load ==
    /\ phase = "written"
    /\ phase' = IF Loads(catalog) THEN "loaded" ELSE "invalid"
    /\ UNCHANGED <<catalog_vars, request, resolved, error>>

\* _evaluate and is_activatable: every source is as the catalog says.
Activate ==
    /\ phase = "loaded"
    /\ phase' = IF \A s \in DOMAIN catalog.sources : SourceIsValid(catalog, database, s)
                THEN "active" ELSE "rejected"
    /\ UNCHANGED <<catalog_vars, request, resolved, error>>

\* A query that is refused says why; one that is bound goes on to its sources.
Bind(q) ==
    /\ phase = "active"
    /\ request' = q
    /\ error' = BindError(catalog, q, UserPolicy)
    /\ phase' = IF error' = None THEN "bound" ELSE "refused"
    /\ UNCHANGED <<catalog_vars, resolved>>

Resolve ==
    /\ phase = "bound" /\ ResolveErrors(catalog, request) = {}
    /\ resolved' = Sources(catalog, request)
    /\ phase' = "resolved"
    /\ UNCHANGED <<catalog_vars, request, error>>

ResolveFails ==
    /\ phase = "bound"
    /\ \E e \in ResolveErrors(catalog, request) : error' = e
    /\ phase' = "refused"
    /\ UNCHANGED <<catalog_vars, request, resolved>>

Next == Load \/ Activate \/ (\E q \in Requests : Bind(q)) \/ Resolve \/ ResolveFails

Spec == Init /\ [][Next]_vars

-----------------------------------------------------------------------------
(* Properties.                                                             *)

\* What the loader checked, the resolver may rely on: a query that was bound
\* to an active catalog is resolved.  The one gap the loader leaves is a source
\* of a field that does not list the ID in its identity; then, and only then,
\* the query is refused for it, and never on account of the identity source
\* or of a vector store.
ActiveCatalogResolves ==
    /\ error # "source_binding_unavailable"
    /\ (error = "source_logical_id_unavailable" /\ request # Nothing) =>
           \E f \in UsedFields(catalog, request) :
               LET s == OwnerOf(catalog, request, f) IN
               /\ s # catalog.resolution[request.dataset].identity_source
               /\ "id" \notin ToSet(Rep(catalog, s, request.dataset).identity)
    /\ phase = "resolved" =>
           \A s \in DOMAIN resolved : KnowsTheId(catalog, s, request.dataset)

\* What is read is what was declared: every field of the query from the one
\* source that owns it, from a column that exists there with a type fit for
\* the field; no internal field; and where a source is known by "id" alone, that
\* column is a key, so that one ID is one row.
ReadsAreSound ==
    phase = "resolved" =>
        /\ UsedFields(catalog, request) = UNION {resolved[s] : s \in DOMAIN resolved}
        /\ catalog.resolution[request.dataset].identity_source \in DOMAIN resolved
        /\ \A s \in DOMAIN resolved :
               LET r     == Rep(catalog, s, request.dataset)
                   table == database[s][r.resource]
               IN  /\ \A f \in resolved[s] :
                          LET spec == catalog.datasets[request.dataset][f] IN
                          /\ spec.visibility = "public"
                          /\ f = "id" \/ s = OwnerOf(catalog, request, f)
                          /\ Column(r, f) \in DOMAIN table.columns
                          /\ spec.type \notin {"id", "float"} =>
                                 Family(table.columns[Column(r, f)]) =
                                 (IF spec.type = "text" THEN "string" ELSE spec.type)
                   /\ r.identity = <<"id">> => <<Column(r, "id")>> \in table.keys
=============================================================================
