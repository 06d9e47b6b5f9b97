----------------------------- MODULE Discovery -----------------------------
(***************************************************************************)
(* What an agent is told of the active catalog before it asks anything     *)
(* (describe_catalog of mcp_server.py), against what a query may then name *)
(* (Catalog) and which relationships it may follow (Traversal).  The two   *)
(* are worked out separately: the description repeats the choice of the    *)
(* implementation a join would use, and the test for public fields.        *)
(*                                                                         *)
(* A description is a function of the active catalog, so it takes no step. *)
(* Aliases of datasets and fields, descriptions and examples are left out; *)
(* a semantic extension is configured.                                     *)
(***************************************************************************)
EXTENDS Traversal

\* (mutant: all fields of a dataset, as the client's describe() lists them)
EveryField(c, d) == FieldsOf(c, d)

\* describe_catalog: the fields listed of a dataset, and those marked "semantic".
Listed(c, d)         == {f \in FieldsOf(c, d) : c.datasets[d][f].visibility = "public"}
MarkedSemantic(c, d) == {f \in Listed(c, d) : c.datasets[d][f].semantic_eligible}

\* _is_public
IsPublic(c, d, f) == f \in FieldsOf(c, d) /\ c.datasets[d][f].visibility = "public"

\* (mutant: one implementation over public fields is enough, wherever it stands)
AnyWayWillDo(c, rel) ==
    \E n \in FieldEqualities(rel) : LET i == rel.implementations[n]
                                 IN  IsPublic(c, rel.from, i.from.field) /\ IsPublic(c, rel.to, i.to.field)

\* _describe_relationship: "traversable" and "reversible".
IsTraversable(c, rel) ==
    /\ FieldEqualities(rel) # {}
    /\ LET i == Comparison(rel)
       IN  IsPublic(c, rel.from, i.from.field) /\ IsPublic(c, rel.to, i.to.field)
IsReversible(rel) == rel.direction = "bi"

-----------------------------------------------------------------------------
(* Properties.                                                             *)

\* A query names nothing of its dataset but what the description lists, and
\* searches by meaning only what is marked for it.
KeepsTo(c, d, q) ==
    /\ d \in DOMAIN c.datasets
    /\ (IF q.select = <<"*">> THEN {} ELSE ToSet(q.select)) \cup ToSet(q.order_by) \cup {term.field : term \in ToSet(q.where.terms)}
           \subseteq Listed(c, d)
    /\ {term.field : term \in {u \in ToSet(q.where.terms) : u.semantic}} \subseteq MarkedSemantic(c, d)

\* A step follows a relationship that is described as traversable, from the end
\* it starts at, or back if it is reversible; both sides keep to the description.
FollowsAsTold(c, t) ==
    \E n \in Named(c, t) :
        LET rel  == c.relationships[n]
            ends == IF t.direction = "forward" THEN <<rel.from, rel.to>> ELSE <<rel.to, rel.from>>
        IN  /\ IsTraversable(c, rel)
            /\ t.direction = "forward" \/ IsReversible(rel)
            /\ t.root.dataset = ends[1]
            /\ KeepsTo(c, ends[1], t.root) /\ KeepsTo(c, ends[2], t.step)

RefusedNames == {"dataset_not_found", "field_not_found", "field_not_accessible", "relationship_not_found",
                 "relationship_not_applicable", "query_feature_not_supported"}

TypeOf(c, q, term) == c.datasets[q.dataset][term.field].type

\* The description is true and complete, although nothing in the code ties it to
\* the binder and the join planner: what keeps to it is never refused for a
\* dataset, a field or a relationship it names, nor a search by meaning of a text
\* field for lack of support; and whatever is bound, and every join whose sides
\* are planned, names only what it lists.  Nothing is claimed of a name that two
\* relationships answer to, one of them by an alias: the description lists both,
\* and a join follows the first.  Nor does it hold that what is described as
\* traversable can be followed: over json or bytes keys every join ends in a
\* KeyError, no name of which is at fault (JoinRefusalsAreKnown).
DescriptionIsTrue ==
    /\ request # Nothing =>
           LET keeps == KeepsTo(catalog, request.dataset, request) IN
           /\ phase \in {"bound", "resolved"} => keeps
           /\ keeps /\ phase = "refused" =>
                  /\ error \notin RefusedNames
                  /\ error = "query_operator_not_supported" =>
                         \/ request.order_by # <<>>
                         \/ \E term \in ToSet(request.where.terms) :
                                ~term.semantic \/ TypeOf(catalog, request, term) \notin {"string", "text"}
    /\ (join # Nothing /\ Cardinality(Named(catalog, join.traversal)) < 2) =>
           LET follows == FollowsAsTold(catalog, join.traversal) IN
           /\ phase # "refused" => follows
           /\ follows => error \notin RefusedNames
=============================================================================
