--------------------------- MODULE CatalogProofs ----------------------------
(***************************************************************************)
(* What one gate lets through, the next may rely on, for every catalog,    *)
(* database, query and traversal, whatever the bounds.                     *)
(***************************************************************************)
EXTENDS Discovery, FiniteSetTheorems, SequenceTheorems, WellFoundedInduction, TLAPS

-----------------------------------------------------------------------------
(* The first of some places.                                               *)

\* A set of numbers has a least one.
LEMMA LeastNumber ==
    ASSUME NEW S \in SUBSET Nat, S # {}
    PROVE  Min(S) \in S /\ \A n \in S : Min(S) <= n
<1> DEFINE R == OpToRel(<, Nat)
<1>1. IsWellFoundedOn(R, Nat)
  BY NatLessThanWellFounded
<1>2. R = {p \in Nat \X Nat : p[1] < p[2]}
  BY DEF OpToRel
<1> HIDE DEF R
<1>3. PICK x \in S : \A y \in S : ~(<<y, x>> \in R)
  BY <1>1, WFMin
<1>4. \A y \in S : x <= y
  <2> SUFFICES ASSUME NEW y \in S PROVE x <= y
    OBVIOUS
  <2>1. <<y, x>> \notin R /\ <<y, x>> \in Nat \X Nat
    BY <1>3
  <2>2. ~(<<y, x>>[1] < <<y, x>>[2])
    BY <1>2, <2>1
  <2> QED
    BY <2>2
<1> QED
  BY <1>4 DEF Min

\* The first error of a list is one of its errors, and there is none only if
\* nothing is wrong.
LEMMA FirstErrorIsOne ==
    ASSUME NEW codes, DOMAIN codes \subseteq Nat
    PROVE  /\ FirstError(codes) = None => \A n \in DOMAIN codes : codes[n] = None
           /\ (\A n \in DOMAIN codes : codes[n] = None) => FirstError(codes) = None
           /\ FirstError(codes) # None =>
                  \E n \in DOMAIN codes : codes[n] = FirstError(codes)
<1> DEFINE wrong == {n \in DOMAIN codes : codes[n] # None}
<1>1. FirstError(codes) = IF wrong = {} THEN None ELSE codes[Min(wrong)]
  BY DEF FirstError
<1>2. wrong # {} => Min(wrong) \in wrong
  BY LeastNumber
<1> QED
  BY <1>1, <1>2

-----------------------------------------------------------------------------
(* Picking elements of a sequence.                                         *)

\* Function place says of each number in P which of them it is.
Counted(P, place) ==
    /\ \A n \in P : place[n] = Cardinality({m \in P : m <= n})
    /\ \A m, n \in P : place[m] = place[n] => m = n
    /\ \A i \in 1 .. Cardinality(P) : \E n \in P : place[n] = i

\* Every place is the n-th of its set, for exactly one n.
LEMMA PlacesAreCounted ==
    ASSUME NEW P, NEW L \in Nat, P \subseteq 1 .. L
    PROVE  /\ IsFiniteSet(P) /\ Cardinality(P) \in Nat
           /\ \E place \in [P -> 1 .. Cardinality(P)] : Counted(P, place)
<1> DEFINE place == [n \in P |-> Cardinality({m \in P : m <= n})]
<1>1. IsFiniteSet(P) /\ Cardinality(P) \in Nat
  <2> DEFINE I == 1 .. L
  <2>1. IsFiniteSet(I)
    BY FS_Interval
  <2>2. P \in SUBSET I
    OBVIOUS
  <2> HIDE DEF I
  <2> QED
    BY <2>1, <2>2, FS_Subset, FS_CardinalityType
<1> DEFINE upto(n) == {m \in P : m <= n}
<1>2. \A n \in P : /\ IsFiniteSet(upto(n)) /\ Cardinality(upto(n)) \in Nat
                   /\ upto(n) # {} /\ Cardinality(upto(n)) # 0 /\ Cardinality(upto(n)) <= Cardinality(P)
  <2> SUFFICES ASSUME NEW n \in P
               PROVE  /\ IsFiniteSet(upto(n)) /\ Cardinality(upto(n)) \in Nat
                      /\ upto(n) # {} /\ Cardinality(upto(n)) # 0 /\ Cardinality(upto(n)) <= Cardinality(P)
    OBVIOUS
  <2>1. upto(n) \subseteq P /\ n \in upto(n)
    OBVIOUS
  <2> HIDE DEF upto
  <2> QED
    BY <1>1, <2>1, FS_Subset, FS_CardinalityType, FS_EmptySet
<1>3. place \in [P -> 1 .. Cardinality(P)]
  <2> SUFFICES ASSUME NEW n \in P PROVE Cardinality(upto(n)) \in 1 .. Cardinality(P)
    OBVIOUS
  <2> HIDE DEF upto
  <2> QED
    BY <1>1, <1>2
<1>4. \A m, n \in P : m < n => place[m] < place[n]
  <2> SUFFICES ASSUME NEW m \in P, NEW n \in P, m < n PROVE Cardinality(upto(m)) < Cardinality(upto(n))
    OBVIOUS
  <2>0. \A k \in P : k \in Int
    OBVIOUS
  <2>1. n \in upto(n) /\ n \notin upto(m)
    BY <2>0
  <2>2. upto(m) \subseteq upto(n)
    <3> SUFFICES ASSUME NEW k \in P, k <= m PROVE k <= n
      OBVIOUS
    <3> QED
      BY <2>0
  <2>3. IsFiniteSet(upto(n)) /\ IsFiniteSet(upto(m))
    BY <1>2
  <2> HIDE DEF upto
  <2> QED
    BY <2>1, <2>2, <2>3, FS_Subset, FS_CardinalityType
<1>5. \A m, n \in P : place[m] = place[n] => m = n
  <2> SUFFICES ASSUME NEW m \in P, NEW n \in P, place[m] = place[n] PROVE m = n
    OBVIOUS
  <2>1. m \in Int /\ n \in Int /\ place[m] \in Int /\ place[n] \in Int
    BY <1>1, <1>3
  <2> QED
    BY <1>4, <2>1
<1>6. \A i \in 1 .. Cardinality(P) : \E n \in P : place[n] = i
  <2> DEFINE C == 1 .. Cardinality(P)
  <2>1. place \in Injection(P, C)
    BY <1>3, <1>5 DEF Injection, IsInjective
  <2>2. IsFiniteSet(C) /\ Cardinality(C) = Cardinality(P)
    BY <1>1, FS_Interval
  <2> HIDE DEF C
  <2>3. place \in Surjection(P, C)
    BY <2>1, <2>2, FS_Injection
  <2>4. \A i \in C : \E n \in P : place[n] = i
    BY <2>3 DEF Surjection
  <2> QED
    BY <2>4 DEF C
<1>7. \A n \in P : place[n] = Cardinality({m \in P : m <= n})
  OBVIOUS
<1> HIDE DEF place
<1> QED
  BY <1>1, <1>3, <1>5, <1>6, <1>7 DEF Counted

\* Picking places gives the elements at these places, each once.
LEMMA PickedAre ==
    ASSUME NEW s, NEW P, NEW L \in Nat, P \subseteq 1 .. L
    PROVE  /\ Picked(s, P) \in Seq({s[n] : n \in P}) /\ Len(Picked(s, P)) = Cardinality(P)
           /\ ToSet(Picked(s, P)) = {s[n] : n \in P}
           /\ (\A m, n \in P : s[m] = s[n] => m = n) => IsInjective(Picked(s, P))
<1>0. PICK place \in [P -> 1 .. Cardinality(P)] : Counted(P, place)
  BY PlacesAreCounted
<1> DEFINE C == Cardinality(P)
           nth(i) == CHOOSE n \in P : Cardinality({m \in P : m <= n}) = i
<1>1. C \in Nat
  BY PlacesAreCounted
<1>2. /\ place \in [P -> 1 .. C]
      /\ \A n \in P : place[n] = Cardinality({m \in P : m <= n})
      /\ \A m, n \in P : place[m] = place[n] => m = n
      /\ \A i \in 1 .. C : \E n \in P : place[n] = i
  BY <1>0 DEF Counted
<1>3. \A i \in 1 .. C : nth(i) \in P /\ place[nth(i)] = i
  <2> SUFFICES ASSUME NEW i \in 1 .. C PROVE nth(i) \in P /\ place[nth(i)] = i
    OBVIOUS
  <2>1. \E n \in P : Cardinality({m \in P : m <= n}) = i
    BY <1>2
  <2> QED
    BY <2>1, <1>2
<1>4. Picked(s, P) = [i \in 1 .. C |-> s[nth(i)]]
  BY DEF Picked
<1> DEFINE out == Picked(s, P)
           elems == {s[n] : n \in P}
<1> HIDE DEF nth, C, out
<1>5. out = [i \in 1 .. C |-> s[nth(i)]]
  BY <1>4 DEF out
<1>6. out \in [1 .. C -> elems] /\ out \in Seq(elems) /\ Len(out) = C /\ DOMAIN out = 1 .. C
  <2>1. \A i \in 1 .. C : s[nth(i)] \in elems
    BY <1>3
  <2> HIDE DEF elems
  <2> QED
    BY <1>1, <1>5, <2>1
<1>7. ToSet(out) = elems
  <2>1. ToSet(out) \subseteq elems
    BY <1>6 DEF ToSet
  <2>2. ASSUME NEW n \in P PROVE s[n] \in ToSet(out)
    <3>0. place[n] \in 1 .. C
      BY <1>2
    <3>1. nth(place[n]) \in P /\ place[nth(place[n])] = place[n]
      BY <1>3, <3>0
    <3>3. nth(place[n]) = n
      BY <1>2, <3>1
    <3>2. out[place[n]] = s[n]
      BY <1>5, <3>0, <3>3
    <3> QED
      BY <1>6, <3>0, <3>2 DEF ToSet
  <2> QED
    BY <2>1, <2>2
<1>8. ASSUME \A m, n \in P : s[m] = s[n] => m = n PROVE IsInjective(out)
  <2> SUFFICES ASSUME NEW i \in 1 .. C, NEW j \in 1 .. C, out[i] = out[j] PROVE i = j
    BY <1>6 DEF IsInjective
  <2>1. s[nth(i)] = s[nth(j)]
    BY <1>5
  <2>2. nth(i) = nth(j)
    BY <1>3, <1>8, <2>1
  <2> QED
    BY <1>3, <2>2
<1> QED
  BY <1>6, <1>7, <1>8 DEF out, C

\* A list of the elements of another in the order they first occur in it.
LEMMA OnesThatComeFirst ==
    ASSUME NEW s, IsList(s),
           NEW P, P = {n \in DOMAIN s : \A m \in DOMAIN s : m < n => s[m] # s[n]}
    PROVE  /\ IsList(Picked(s, P)) /\ IsInjective(Picked(s, P))
           /\ ToSet(Picked(s, P)) = ToSet(s)
<1> DEFINE L == Len(s)
<1>1. L \in Nat /\ DOMAIN s = 1 .. L
  BY DEF IsList
<1> HIDE DEF L
<1>2. P \subseteq 1 .. L
  BY <1>1
<1>3. \A m, n \in P : s[m] = s[n] => m = n
  BY <1>1
<1>4. ASSUME NEW n \in 1 .. L PROVE \E m \in P : s[m] = s[n]
  <2> DEFINE S == {m \in 1 .. L : s[m] = s[n]}
  <2>1. S \subseteq Nat /\ S # {}
    BY <1>1
  <2>2. Min(S) \in S /\ \A m \in S : Min(S) <= m
    BY <2>1, LeastNumber
  <2>3. ASSUME NEW m \in 1 .. L, m < Min(S) PROVE s[m] # s[Min(S)]
    BY <2>2, <2>3
  <2>4. Min(S) \in P
    BY <1>1, <2>2, <2>3
  <2> QED
    BY <2>2, <2>4
<1>5. {s[n] : n \in P} = ToSet(s)
  <2>1. ToSet(s) = {s[n] : n \in 1 .. L}
    BY <1>1 DEF ToSet
  <2>2. ASSUME NEW n \in 1 .. L PROVE s[n] \in {s[k] : k \in P}
    <3>1. PICK m \in P : s[m] = s[n]
      BY <1>4
    <3> QED
      BY <3>1
  <2> QED
    BY <1>2, <2>1, <2>2
<1> QED
  BY <1>1, <1>2, <1>3, <1>5, PickedAre DEF IsList

-----------------------------------------------------------------------------
(* Binding.                                                                *)

\* A query is bound if nothing is wrong with any part of it.
BoundUnder(c, q, policy) ==
    /\ ParseError(q) = None
    /\ q.dataset \in DOMAIN c.datasets
    /\ q.select = <<"*">> \/ \A f \in ToSet(q.select) : FieldError(c, q.dataset, f) = None
    /\ \A t \in ToSet(q.where.terms) : TermError(c, q.dataset, t, policy.values) = None
    /\ PlacementError(q.where) = None
    /\ \A f \in ToSet(q.order_by) : OrderError(c, q.dataset, f) = None
    /\ ~(q.first > policy.page)
    /\ QualityError(q) = None

\* What a query may be refused for in binding.
RefusedFor(c, q, policy, e) ==
    \/ e = ParseError(q)
    \/ e = "dataset_not_found" /\ q.dataset \notin DOMAIN c.datasets
    \/ q.select # <<"*">> /\ \E f \in ToSet(q.select) : e = FieldError(c, q.dataset, f)
    \/ \E t \in ToSet(q.where.terms) : e = TermError(c, q.dataset, t, policy.values)
    \/ e = PlacementError(q.where)
    \/ \E f \in ToSet(q.order_by) : e = OrderError(c, q.dataset, f)
    \/ e = "query_limit_invalid" /\ q.first > policy.page
    \/ e = QualityError(q)

LEMMA ListsAreCounted ==
    ASSUME NEW s, IsList(s)
    PROVE  DOMAIN s \subseteq Nat /\ Len(s) \in Nat /\ DOMAIN s = 1 .. Len(s)
BY DEF IsList

LEMMA BindingIsOfAllParts ==
    ASSUME NEW c, NEW q, NEW policy, IsQuery(q)
    PROVE  /\ BindError(c, q, policy) = None <=> BoundUnder(c, q, policy)
           /\ BindError(c, q, policy) # None => RefusedFor(c, q, policy, BindError(c, q, policy))
<1> DEFINE d      == q.dataset
           select == IF q.select = <<"*">> THEN <<>> ELSE q.select
           fields == [n \in DOMAIN select |-> FieldError(c, d, select[n])]
           terms  == [n \in DOMAIN q.where.terms |-> TermError(c, d, q.where.terms[n], policy.values)]
           order  == [n \in DOMAIN q.order_by |-> OrderError(c, d, q.order_by[n])]
           page   == IF q.first > policy.page THEN "query_limit_invalid" ELSE None
           codes  == <<FirstError(fields), FirstError(terms), PlacementError(q.where), FirstError(order),
                       page, QualityError(q)>>
<1>1. DOMAIN q.select \subseteq Nat /\ DOMAIN q.where.terms \subseteq Nat /\ DOMAIN q.order_by \subseteq Nat
  BY ListsAreCounted DEF IsQuery
<1>2. DOMAIN fields \subseteq Nat /\ DOMAIN terms \subseteq Nat /\ DOMAIN order \subseteq Nat
  BY <1>1
<1>3. /\ FirstError(fields) = None <=>
             (q.select = <<"*">> \/ \A f \in ToSet(q.select) : FieldError(c, d, f) = None)
      /\ FirstError(fields) # None =>
             q.select # <<"*">> /\ \E f \in ToSet(q.select) : FirstError(fields) = FieldError(c, d, f)
  <2>1. q.select = <<"*">> => DOMAIN fields = {}
    OBVIOUS
  <2>2. q.select # <<"*">> => /\ DOMAIN fields = DOMAIN q.select
                              /\ \A n \in DOMAIN q.select : fields[n] = FieldError(c, d, q.select[n])
    OBVIOUS
  <2> HIDE DEF fields
  <2>3. /\ FirstError(fields) = None <=> \A n \in DOMAIN fields : fields[n] = None
        /\ FirstError(fields) # None => \E n \in DOMAIN fields : fields[n] = FirstError(fields)
    BY <1>2, FirstErrorIsOne
  <2> QED
    BY <2>1, <2>2, <2>3 DEF ToSet
<1>4. /\ FirstError(terms) = None <=>
             \A t \in ToSet(q.where.terms) : TermError(c, d, t, policy.values) = None
      /\ FirstError(terms) # None =>
             \E t \in ToSet(q.where.terms) : FirstError(terms) = TermError(c, d, t, policy.values)
  <2>1. /\ DOMAIN terms = DOMAIN q.where.terms
        /\ \A n \in DOMAIN q.where.terms : terms[n] = TermError(c, d, q.where.terms[n], policy.values)
    OBVIOUS
  <2> HIDE DEF terms
  <2>2. /\ FirstError(terms) = None <=> \A n \in DOMAIN terms : terms[n] = None
        /\ FirstError(terms) # None => \E n \in DOMAIN terms : terms[n] = FirstError(terms)
    BY <1>2, FirstErrorIsOne
  <2> QED
    BY <2>1, <2>2 DEF ToSet
<1>5. /\ FirstError(order) = None <=> \A f \in ToSet(q.order_by) : OrderError(c, d, f) = None
      /\ FirstError(order) # None => \E f \in ToSet(q.order_by) : FirstError(order) = OrderError(c, d, f)
  <2>1. /\ DOMAIN order = DOMAIN q.order_by
        /\ \A n \in DOMAIN q.order_by : order[n] = OrderError(c, d, q.order_by[n])
    OBVIOUS
  <2> HIDE DEF order
  <2>2. /\ FirstError(order) = None <=> \A n \in DOMAIN order : order[n] = None
        /\ FirstError(order) # None => \E n \in DOMAIN order : order[n] = FirstError(order)
    BY <1>2, FirstErrorIsOne
  <2> QED
    BY <2>1, <2>2 DEF ToSet
<1> HIDE DEF fields, terms, order
<1>6. /\ FirstError(codes) = None <=>
             /\ FirstError(fields) = None /\ FirstError(terms) = None /\ PlacementError(q.where) = None
             /\ FirstError(order) = None /\ page = None /\ QualityError(q) = None
      /\ FirstError(codes) # None =>
             FirstError(codes) \in {FirstError(fields), FirstError(terms), PlacementError(q.where),
                                    FirstError(order), page, QualityError(q)} \ {None}
  <2> DEFINE all == codes
  <2>1. /\ DOMAIN all = 1 .. 6
        /\ all[1] = FirstError(fields) /\ all[2] = FirstError(terms) /\ all[3] = PlacementError(q.where)
        /\ all[4] = FirstError(order) /\ all[5] = page /\ all[6] = QualityError(q)
    OBVIOUS
  <2>2. \A n \in 1 .. 6 : n \in {1, 2, 3, 4, 5, 6}
    OBVIOUS
  <2> HIDE DEF all, page
  <2>3. /\ FirstError(all) = None <=> \A n \in DOMAIN all : all[n] = None
        /\ FirstError(all) # None => \E n \in DOMAIN all : all[n] = FirstError(all)
    BY <2>1, FirstErrorIsOne
  <2>4. FirstError(all) = None <=> /\ all[1] = None /\ all[2] = None /\ all[3] = None
                                   /\ all[4] = None /\ all[5] = None /\ all[6] = None
    BY <2>1, <2>2, <2>3
  <2>5. FirstError(all) # None =>
            FirstError(all) \in {all[1], all[2], all[3], all[4], all[5], all[6]} \ {None}
    BY <2>1, <2>2, <2>3
  <2>6. all = codes
    BY DEF all
  <2> QED
    BY <2>1, <2>4, <2>5, <2>6
<1>7. BindError(c, q, policy) = IF ParseError(q) # None THEN ParseError(q)
                                ELSE IF d \notin DOMAIN c.datasets THEN "dataset_not_found"
                                ELSE FirstError(codes)
  BY DEF BindError, fields, terms, order
<1> HIDE DEF codes
<1>8. /\ page = None <=> ~(q.first > policy.page)
      /\ page # None => page = "query_limit_invalid"
      /\ QualityError(q) # None => QualityError(q) = "query_limit_invalid"
  BY DEF None, QualityError
<1> HIDE DEF page
<1>9. BindError(c, q, policy) = None <=> BoundUnder(c, q, policy)
  <2>1. "dataset_not_found" # None
    BY DEF None
  <2> QED
    BY <1>3, <1>4, <1>5, <1>6, <1>7, <1>8, <2>1 DEF BoundUnder
<1>10. ASSUME BindError(c, q, policy) # None PROVE RefusedFor(c, q, policy, BindError(c, q, policy))
  <2> DEFINE e == BindError(c, q, policy)
  <2>1. \/ e = ParseError(q)
        \/ e = "dataset_not_found" /\ d \notin DOMAIN c.datasets
        \/ e = FirstError(codes) /\ e # None
    BY <1>7, <1>10
  <2> HIDE DEF e
  <2>2. RefusedFor(c, q, policy, e)
    <3>1. CASE e = FirstError(codes) /\ e # None
      <4>1. \/ e = FirstError(fields) \/ e = FirstError(terms) \/ e = PlacementError(q.where)
            \/ e = FirstError(order) \/ e = page \/ e = QualityError(q)
        BY <1>6, <3>1
      <4> QED
        BY <1>3, <1>4, <1>5, <1>8, <3>1, <4>1 DEF RefusedFor
    <3>2. CASE e = ParseError(q) \/ (e = "dataset_not_found" /\ d \notin DOMAIN c.datasets)
      BY <3>2 DEF RefusedFor
    <3> QED
      BY <2>1, <3>1, <3>2
  <2> QED
    BY <2>2 DEF e
<1> QED
  BY <1>9, <1>10

LEMMA PublicFields ==
    ASSUME NEW c, NEW d, NEW f
    PROVE  /\ FieldError(c, d, f) = None <=> f \in FieldsOf(c, d) /\ c.datasets[d][f].visibility = "public"
           /\ FieldError(c, d, f) \in {None, "field_not_found", "field_not_accessible"}
BY DEF FieldError, None

\* Binding never speaks of sources.
Codes == {"query_shape_invalid", "query_limit_invalid", "dataset_not_found", "field_not_found",
          "field_not_accessible", "query_operator_not_supported", "query_value_type_invalid",
          "query_expression_invalid"}

LEMMA ParseCodes ==
    ASSUME NEW q PROVE ParseError(q) \in {None, "query_shape_invalid", "query_limit_invalid"}
<1> DEFINE e1 == IF q.select = <<"*">> \/ IsInjective(q.select) THEN None ELSE "query_shape_invalid"
           e2 == IF q.where.depth > MaxDepth \/ q.where.nodes > MaxTerms THEN "query_limit_invalid" ELSE None
           e3 == IF IsInjective(q.order_by) THEN None ELSE "query_shape_invalid"
           e4 == IF q.first < 1 THEN "query_limit_invalid" ELSE None
           codes == <<e1, e2, e3, e4>>
<1>1. DOMAIN codes = 1 .. 4 /\ codes[1] = e1 /\ codes[2] = e2 /\ codes[3] = e3 /\ codes[4] = e4
  OBVIOUS
<1>2. ParseError(q) = FirstError(codes)
  BY DEF ParseError
<1> HIDE DEF codes
<1>3. FirstError(codes) # None => \E n \in 1 .. 4 : codes[n] = FirstError(codes)
  BY <1>1, FirstErrorIsOne
<1>4. \A n \in 1 .. 4 : n \in {1, 2, 3, 4}
  OBVIOUS
<1>5. {e1, e2, e3, e4} \subseteq {None, "query_shape_invalid", "query_limit_invalid"}
  OBVIOUS
<1> HIDE DEF e1, e2, e3, e4
<1> QED
  BY <1>1, <1>2, <1>3, <1>4, <1>5

LEMMA TermCodes ==
    ASSUME NEW c, NEW d, NEW t, NEW max
    PROVE  TermError(c, d, t, max) \in Codes \cup {None}
<1>1. ValueError(c.datasets[d][t.field].type, t, max) \in Codes \cup {None}
  BY DEF ValueError, Codes
<1>2. FieldError(c, d, t.field) \in Codes \cup {None}
  BY PublicFields DEF Codes
<1> QED
  BY <1>1, <1>2 DEF TermError, Codes

LEMMA BindCodes ==
    ASSUME NEW c, NEW q, NEW policy, IsQuery(q)
    PROVE  BindError(c, q, policy) \in Codes \cup {None}
<1>1. ParseError(q) \in Codes \cup {None}
  BY ParseCodes DEF Codes
<1>2. PlacementError(q.where) \in Codes \cup {None}
  BY DEF PlacementError, Codes
<1>3. \A f : FieldError(c, q.dataset, f) \in Codes \cup {None} /\ OrderError(c, q.dataset, f) \in Codes \cup {None}
  BY PublicFields DEF OrderError, Codes
<1>4. {"dataset_not_found", "query_limit_invalid"} \subseteq Codes
  BY DEF Codes
<1>5. QualityError(q) \in Codes \cup {None}
  BY DEF QualityError, Codes
<1> QED
  BY <1>1, <1>2, <1>3, <1>4, <1>5, TermCodes, BindingIsOfAllParts DEF RefusedFor

-----------------------------------------------------------------------------
(* Resolution.                                                             *)

\* Every field of a query that was bound is a public field of its dataset.
LEMMA UsedFieldsArePublic ==
    ASSUME NEW c, NEW q, NEW policy, Loads(c), BoundUnder(c, q, policy)
    PROVE  /\ q.dataset \in DOMAIN c.datasets
           /\ \A f \in UsedFields(c, q) : FieldError(c, q.dataset, f) = None
           /\ "id" \in UsedFields(c, q)
<1>1. q.dataset \in DOMAIN c.datasets
  BY DEF BoundUnder
<1>2. FieldError(c, q.dataset, "id") = None
  BY <1>1, PublicFields DEF Loads, HasPublicId, FieldsOf
<1>3. \A f \in Selected(c, q) : FieldError(c, q.dataset, f) = None
  BY <1>2 DEF Selected, BoundUnder
<1>4. \A t \in ToSet(q.where.terms) : FieldError(c, q.dataset, t.field) = None
  BY DEF BoundUnder, TermError
<1>5. \A f \in ToSet(q.order_by) : FieldError(c, q.dataset, f) = None
  BY DEF BoundUnder, OrderError
<1> QED
  BY <1>1, <1>2, <1>3, <1>4, <1>5 DEF UsedFields

\* A source that owns fields of a query maps each of them, and any source a
\* query is resolved to represents its dataset.
LEMMA SourcesAreFit ==
    ASSUME NEW c, NEW q, NEW policy, Loads(c), BoundUnder(c, q, policy),
           NEW s \in Owners(c, q) \cup VectorStores(c, q)
    PROVE  /\ s \in DOMAIN c.sources /\ q.dataset \in Represented(c, s)
           /\ OwnedBy(c, q, s) \subseteq Mapped(Rep(c, s, q.dataset))
           /\ KnowsTheId(c, s, q.dataset) <=> "id" \in ToSet(Rep(c, s, q.dataset).identity)
           /\ s \in VectorStores(c, q) => KnowsTheId(c, s, q.dataset)
<1> DEFINE d == q.dataset
<1>1. d \in DOMAIN c.datasets /\ ResolutionIsValid(c, d)
  BY UsedFieldsArePublic DEF Loads
<1>2. \A f \in UsedFields(c, q) : IsSourceField(c, d, OwnerOf(c, q, f), f)
  BY <1>1, UsedFieldsArePublic, PublicFields DEF ResolutionIsValid, OwnerOf
<1>3. s \in DOMAIN c.sources /\ d \in Represented(c, s)
  BY <1>2 DEF Owners, VectorStores, IsSourceField
<1>4. OwnedBy(c, q, s) \subseteq Mapped(Rep(c, s, d))
  BY <1>2 DEF OwnedBy, IsSourceField
<1>5. RepresentationIsValid(c, s, d)
  BY <1>3 DEF Loads
<1>6. KnowsTheId(c, s, d) <=> "id" \in ToSet(Rep(c, s, d).identity)
  BY <1>5 DEF RepresentationIsValid, KnowsTheId
<1>7. ASSUME s \in VectorStores(c, q) PROVE KnowsTheId(c, s, d)
  <2>1. PICK t \in ToSet(q.where.terms) : /\ t.field \in Rep(c, s, d).embeddings
                                          /\ t.field \notin Mapped(Rep(c, s, d))
    BY <1>7 DEF VectorStores
  <2>2. EmbeddingIsAllowed(c, s, d, t.field)
    BY <1>5, <2>1 DEF RepresentationIsValid
  <2> QED
    BY <1>6, <2>1, <2>2 DEF EmbeddingIsAllowed
<1> QED
  BY <1>3, <1>4, <1>6, <1>7

\* A query that was bound is resolved, unless a source of one of its fields,
\* not the source of the identity, does not list the ID in its own identity.
IdGap(c, q) ==
    \E f \in UsedFields(c, q) :
        /\ OwnerOf(c, q, f) # c.resolution[q.dataset].identity_source
        /\ "id" \notin ToSet(Rep(c, OwnerOf(c, q, f), q.dataset).identity)

LEMMA BoundQueriesResolve ==
    ASSUME NEW c, NEW q, NEW policy, Loads(c), BoundUnder(c, q, policy)
    PROVE  /\ ResolveErrors(c, q) \subseteq {"source_logical_id_unavailable"}
           /\ ResolveErrors(c, q) # {} => IdGap(c, q)
           /\ ResolveErrors(c, q) = {} => \A s \in Owners(c, q) \cup VectorStores(c, q) : KnowsTheId(c, s, q.dataset)
<1> DEFINE d == q.dataset
<1>1. \A s \in Owners(c, q) \cup VectorStores(c, q) :
          SourceError(c, q, s) = IF KnowsTheId(c, s, d) THEN None ELSE "source_logical_id_unavailable"
  BY SourcesAreFit DEF SourceError
<1>2. \A s \in VectorStores(c, q) : SourceError(c, q, s) = None
  BY <1>1, SourcesAreFit
<1>3. ResolveErrors(c, q) = {SourceError(c, q, s) : s \in Owners(c, q)} \ {None}
  BY <1>2 DEF ResolveErrors
<1>4. ResolveErrors(c, q) \subseteq {"source_logical_id_unavailable"}
  BY <1>1, <1>3
<1>5. ASSUME ResolveErrors(c, q) # {} PROVE IdGap(c, q)
  <2>1. PICK s \in Owners(c, q) : SourceError(c, q, s) # None
    BY <1>3, <1>5
  <2>2. ~KnowsTheId(c, s, d)
    BY <1>1, <2>1
  <2>3. "id" \notin ToSet(Rep(c, s, d).identity)
    BY <2>2, SourcesAreFit
  <2>4. PICK f \in UsedFields(c, q) : s = OwnerOf(c, q, f)
    BY DEF Owners
  <2>5. ResolutionIsValid(c, d)
    BY UsedFieldsArePublic DEF Loads
  <2>6. "id" \in ToSet(Rep(c, c.resolution[d].identity_source, d).identity)
    BY <2>5 DEF ResolutionIsValid
  <2> QED
    BY <2>3, <2>4, <2>6 DEF IdGap
<1>6. ASSUME ResolveErrors(c, q) = {}, NEW s \in Owners(c, q) \cup VectorStores(c, q)
      PROVE  KnowsTheId(c, s, d)
  <2>1. s \in Owners(c, q) => SourceError(c, q, s) = None
    BY <1>3, <1>6
  <2>2. SourceError(c, q, s) = None
    BY <1>2, <2>1
  <2>3. "source_logical_id_unavailable" # None
    BY DEF None
  <2> QED
    BY <1>1, <2>2, <2>3
<1> QED
  BY <1>4, <1>5, <1>6

\* Of a source that is as the catalog says, a mapped field is read from a
\* column that exists, of a type fit for it; and an identity of "id" alone is a key.
LEMMA ColumnsAreFit ==
    ASSUME NEW c \in Catalogs, NEW db, NEW s, NEW d, Loads(c), s \in DOMAIN c.sources,
           d \in Represented(c, s), SourceIsValid(c, db, s)
    PROVE  LET r     == Rep(c, s, d)
               table == db[s][r.resource]
           IN  /\ \A f \in Mapped(r) :
                      /\ Column(r, f) \in DOMAIN table.columns
                      /\ IsCompatible(c.datasets[d][f].type, Family(table.columns[Column(r, f)]))
               /\ r.identity = <<"id">> => <<Column(r, "id")>> \in table.keys
<1> DEFINE r     == Rep(c, s, d)
           table == db[s][r.resource]
           b(f)  == CHOOSE x \in ToSet(r.fields) : x.name = f
<1>1. /\ IsList(r.fields)
      /\ \A m, n \in DOMAIN r.fields : r.fields[m].name = r.fields[n].name => m = n
  BY CatalogAssumption DEF IsCatalog, Represented, Rep
<1>2. /\ \A x \in ToSet(r.fields) : FieldIsFound(c, d, table, x)
      /\ IdentityIsUnique(r, table)
  BY DEF SourceIsValid
<1>3. \A f \in Mapped(r) : b(f) \in ToSet(r.fields) /\ b(f).name = f
  <2> SUFFICES ASSUME NEW f \in Mapped(r) PROVE \E x \in ToSet(r.fields) : x.name = f
    OBVIOUS
  <2> QED
    BY DEF Mapped, ToSet
<1>4. \A f \in Mapped(r) : Column(r, f) = b(f).column
  BY DEF Column
<1>5. \A f \in Mapped(r) : /\ Column(r, f) \in DOMAIN table.columns
                           /\ IsCompatible(c.datasets[d][f].type, Family(table.columns[Column(r, f)]))
  BY <1>2, <1>3, <1>4 DEF FieldIsFound
<1>6. ASSUME r.identity = <<"id">> PROVE <<Column(r, "id")>> \in table.keys
  <2> DEFINE P == {n \in DOMAIN r.fields : r.fields[n].name \in ToSet(r.identity)}
             columns == [n \in DOMAIN r.fields |-> r.fields[n].column]
             L == Len(r.fields)
  <2>1. ToSet(r.identity) = {"id"} /\ Len(r.identity) = 1
    BY <1>6 DEF ToSet
  <2>2. RepresentationIsValid(c, s, d)
    BY DEF Loads
  <2>3. "id" \in Mapped(r)
    BY <2>1, <2>2 DEF RepresentationIsValid
  <2>4. PICK n \in DOMAIN r.fields : r.fields[n].name = "id"
    BY <2>3 DEF Mapped
  <2>5. P = {n}
    BY <1>1, <2>1, <2>4
  <2>6. L \in Nat /\ P \subseteq 1 .. L
    BY <1>1, ListsAreCounted
  <2>7. Column(r, "id") = columns[n]
    <3>1. b("id") \in ToSet(r.fields) /\ b("id").name = "id"
      BY <1>3, <2>3
    <3>2. PICK m \in DOMAIN r.fields : b("id") = r.fields[m]
      BY <3>1 DEF ToSet
    <3>3. m = n
      BY <1>1, <2>4, <3>1, <3>2
    <3> QED
      BY <1>4, <2>3, <2>4, <3>2, <3>3
  <2>8. IdentityColumns(r) = Picked(columns, P)
    BY DEF IdentityColumns
  <2> DEFINE out == Picked(columns, P)
  <2> HIDE DEF P, L, columns
  <2>9. out \in Seq({columns[k] : k \in P}) /\ Len(out) = Cardinality(P)
    BY <2>6, PickedAre
  <2>10. Cardinality(P) = 1
    BY <2>5, FS_Singleton
  <2>11. out = <<columns[n]>>
    BY <2>5, <2>9, <2>10
  <2>12. IdentityColumns(r) \in table.keys
    BY <1>2, <2>1, <2>8, <2>9, <2>10 DEF IdentityIsUnique
  <2> QED
    BY <2>7, <2>8, <2>11, <2>12
<1> QED
  BY <1>5, <1>6

-----------------------------------------------------------------------------
(* The relationship and its key.                                           *)

Ends == {"left", "right"}

\* A relationship that can be followed joins two datasets of the catalog by
\* public fields of one type.
LEMMA KeysAreComparable ==
    ASSUME NEW c \in Catalogs, NEW t, Loads(c), RelationshipError(c, t) = None
    PROVE  /\ Named(c, t) # {} /\ StartsAt(Relationship(c, t), t)
           /\ Min(Named(c, t)) \in Named(c, t)
           /\ FieldEqualities(Relationship(c, t)) # {}
           /\ \A side \in Ends : /\ Side(c, t, side).dataset \in DOMAIN c.datasets
                                 /\ FieldError(c, Side(c, t, side).dataset, Side(c, t, side).key) = None
                                 /\ Side(c, t, side).key # "*"
                                 /\ KeyType(c, t, side) = KeyType(c, t, "left")
                                 /\ KeyType(c, t, side) \in Types
<1> DEFINE rel == Relationship(c, t)
           i   == Comparison(rel)
<1>1. Named(c, t) # {} /\ StartsAt(rel, t) /\ FieldEqualities(rel) # {}
  BY DEF RelationshipError, None
<1>2. \A side \in Ends : FieldError(c, Side(c, t, side).dataset, Side(c, t, side).key) = None
  BY <1>1 DEF RelationshipError, Ends, None
<1>3. IsList(c.relationships) /\ \A r \in ToSet(c.relationships) : IsList(r.implementations)
  BY CatalogAssumption DEF IsCatalog
<1>4. Min(Named(c, t)) \in Named(c, t)
  <2>1. Named(c, t) \subseteq Nat
    BY <1>3, ListsAreCounted DEF Named
  <2> QED
    BY <1>1, <2>1, LeastNumber
<1>5. rel \in ToSet(c.relationships)
  BY <1>4 DEF Relationship, Named, ToSet
<1>6. RelationshipIsValid(c, rel)
  BY <1>5 DEF Loads
<1>7. i \in ToSet(rel.implementations) /\ ~i.edge_type
  <2>1. FieldEqualities(rel) \subseteq Nat
    BY <1>3, <1>5, ListsAreCounted DEF FieldEqualities
  <2>2. Min(FieldEqualities(rel)) \in FieldEqualities(rel)
    BY <1>1, <2>1, LeastNumber
  <2> QED
    BY <2>2 DEF FieldEqualities, Comparison, ToSet
<1>8. /\ ImplementationIsValid(c, rel, i)
      /\ rel.from \in DOMAIN c.datasets /\ rel.to \in DOMAIN c.datasets
  BY <1>6, <1>7 DEF RelationshipIsValid
<1>9. c.datasets[rel.from][i.from.field].type = c.datasets[rel.to][i.to.field].type
  BY <1>7, <1>8 DEF ImplementationIsValid
<1>10. \A side \in Ends : \/ Side(c, t, side) = [dataset |-> rel.from, key |-> i.from.field]
                          \/ Side(c, t, side) = [dataset |-> rel.to, key |-> i.to.field]
  BY DEF Side
<1>11. \A side \in Ends : Side(c, t, side).dataset \in DOMAIN c.datasets
  BY <1>8, <1>10
<1>12. \A side \in Ends : KeyType(c, t, side) = c.datasets[rel.from][i.from.field].type
  BY <1>9, <1>10 DEF KeyType
<1>13. \A side \in Ends : Side(c, t, side).key \in DOMAIN c.datasets[Side(c, t, side).dataset]
  BY <1>2, PublicFields DEF FieldsOf
<1>14. \A side \in Ends : Side(c, t, side).key # "*" /\ KeyType(c, t, side) \in Types
  BY <1>11, <1>13, CatalogAssumption DEF IsCatalog, KeyType
<1> QED
  BY <1>1, <1>2, <1>4, <1>11, <1>12, <1>14 DEF Ends

-----------------------------------------------------------------------------
(* The sides of a join as queries.                                         *)

LEMMA ListsAreJoined ==
    ASSUME NEW a, NEW b, IsList(a), IsList(b)
    PROVE  IsList(a \o b) /\ ToSet(a \o b) = ToSet(a) \cup ToSet(b)
<1> DEFINE S == ToSet(a) \cup ToSet(b)
           m == Len(a)
           n == Len(b)
<1>1. /\ m \in Nat /\ n \in Nat /\ DOMAIN a = 1 .. m /\ DOMAIN b = 1 .. n
  BY ListsAreCounted
<1>2. /\ DOMAIN (a \o b) = 1 .. (m + n)
      /\ \A k \in 1 .. (m + n) : (a \o b)[k] = IF k <= m THEN a[k] ELSE b[k - m]
  <2>1. a \in Seq(S) /\ b \in Seq(S)
    BY DEF IsList
  <2> HIDE DEF S
  <2> QED
    BY <2>1
<1> DEFINE ab == a \o b
<1> HIDE DEF m, n, ab
<1>3. \A k \in 1 .. (m + n) : ab[k] \in S
  <2> SUFFICES ASSUME NEW k \in 1 .. (m + n) PROVE ab[k] \in S
    OBVIOUS
  <2>1. k \in 1 .. m \/ (k - m \in 1 .. n /\ ~(k <= m))
    BY <1>1
  <2> QED
    BY <1>1, <1>2, <2>1 DEF ToSet, ab
<1>4. S \subseteq ToSet(ab)
  <2>1. ASSUME NEW k \in 1 .. m PROVE a[k] \in ToSet(ab)
    <3>1. k \in 1 .. (m + n) /\ k <= m
      BY <1>1
    <3> QED
      BY <1>2, <3>1 DEF ToSet, ab
  <2>2. ASSUME NEW k \in 1 .. n PROVE b[k] \in ToSet(ab)
    <3>1. k + m \in 1 .. (m + n) /\ ~(k + m <= m) /\ (k + m) - m = k
      BY <1>1
    <3> QED
      BY <1>2, <3>1 DEF ToSet, ab
  <2> QED
    BY <1>1, <2>1, <2>2 DEF ToSet
<1>5. ToSet(ab) = S
  BY <1>2, <1>3, <1>4 DEF ToSet, ab
<1>6. ab \in Seq(S)
  <2>1. a \in Seq(S) /\ b \in Seq(S)
    BY DEF IsList
  <2> HIDE DEF S
  <2> QED
    BY <2>1 DEF ab
<1> QED
  BY <1>5, <1>6 DEF IsList, ab

LEMMA ListsAreExtended ==
    ASSUME NEW a, NEW x, IsList(a)
    PROVE  /\ IsList(Append(a, x)) /\ ToSet(Append(a, x)) = ToSet(a) \cup {x}
           /\ DOMAIN Append(a, x) = DOMAIN a \cup {Len(a) + 1}
           /\ Append(a, x)[Len(a) + 1] = x /\ \A n \in DOMAIN a : Append(a, x)[n] = a[n]
<1> DEFINE S == ToSet(a) \cup {x}
           m == Len(a)
           ax == Append(a, x)
<1>1. m \in Nat /\ DOMAIN a = 1 .. m
  BY ListsAreCounted
<1>2. a \in Seq(S) /\ x \in S
  BY DEF IsList
<1>3. /\ ax \in Seq(S) /\ DOMAIN ax = 1 .. (m + 1)
      /\ ax[m + 1] = x /\ \A n \in 1 .. m : ax[n] = a[n]
  <2> HIDE DEF S
  <2> QED
    BY <1>2
<1> HIDE DEF m, ax
<1>4. DOMAIN ax = DOMAIN a \cup {m + 1}
  BY <1>1, <1>3
<1>5. ToSet(ax) = S
  BY <1>1, <1>3, <1>4 DEF ToSet
<1> QED
  BY <1>1, <1>3, <1>4, <1>5 DEF IsList, ax, m

LEMMA ListsOfOne ==
    ASSUME NEW x PROVE IsList(<<x>>) /\ ToSet(<<x>>) = {x} /\ IsList(<<>>) /\ ToSet(<<>>) = {}
<1>1. ToSet(<<x>>) = {x} /\ ToSet(<<>>) = {}
  BY DEF ToSet
<1>2. <<x>> \in Seq({x}) /\ <<>> \in Seq({})
  OBVIOUS
<1> QED
  BY <1>1, <1>2 DEF IsList

LEMMA BoundsOfTheSides ==
    /\ InternalPolicy.page \in Nat /\ InternalPolicy.values \in Nat
    /\ InternalPolicy.page >= MaxPage
    /\ InternalPolicy.page >= MaxDriver + 1 /\ InternalPolicy.page >= MaxProbe + 1
    /\ InternalPolicy.values >= MaxIn /\ InternalPolicy.values >= BatchSize
<1>1. ASSUME NEW x \in Nat, NEW y \in Nat, NEW z \in Nat
      PROVE  Max({x, y, z}) \in {x, y, z} /\ \A n \in {x, y, z} : Max({x, y, z}) >= n
  <2>1. \E m \in {x, y, z} : \A n \in {x, y, z} : m >= n
    OBVIOUS
  <2> QED
    BY <2>1 DEF Max
<1>2. ASSUME NEW x \in Nat, NEW y \in Nat PROVE Max({x, y}) \in {x, y} /\ \A n \in {x, y} : Max({x, y}) >= n
  <2>1. \E m \in {x, y} : \A n \in {x, y} : m >= n
    OBVIOUS
  <2> QED
    BY <2>1 DEF Max
<1>3. /\ MaxPage \in Nat /\ MaxDriver + 1 \in Nat /\ MaxProbe + 1 \in Nat /\ MaxIn \in Nat /\ BatchSize \in Nat
  BY CatalogAssumption, TraversalAssumption
<1>4. /\ InternalPolicy.page = Max({MaxPage, MaxDriver + 1, MaxProbe + 1})
      /\ InternalPolicy.values = Max({MaxIn, BatchSize})
  BY DEF InternalPolicy
<1>5. /\ InternalPolicy.page \in {MaxPage, MaxDriver + 1, MaxProbe + 1}
      /\ \A n \in {MaxPage, MaxDriver + 1, MaxProbe + 1} : InternalPolicy.page >= n
  BY <1>1, <1>3, <1>4
<1>6. /\ InternalPolicy.values \in {MaxIn, BatchSize}
      /\ \A n \in {MaxIn, BatchSize} : InternalPolicy.values >= n
  BY <1>2, <1>3, <1>4
<1> QED
  BY <1>3, <1>5, <1>6

\* The fields that the join itself needs of a side, all that is named, and what
\* is selected.
Needed(c, t, side) == <<Side(c, t, side).key>> \o Own(t, side).order_by
AllNamed(c, t, side) == Own(t, side).select \o Needed(c, t, side)
SideSelect(c, t, side) == Extended(Own(t, side).select, Needed(c, t, side))

\* A side selects what its caller selects, the key and the fields of its order,
\* each once.
LEMMA SidesSelect ==
    ASSUME NEW c \in Catalogs, NEW t \in Traversals, Loads(c), RelationshipError(c, t) = None,
           NEW side \in Ends
    PROVE  /\ IsList(SideSelect(c, t, side)) /\ IsList(AllNamed(c, t, side))
           /\ Own(t, side).select = <<"*">> => SideSelect(c, t, side) = <<"*">>
           /\ Own(t, side).select # <<"*">> =>
                  /\ IsInjective(SideSelect(c, t, side))
                  /\ ToSet(SideSelect(c, t, side)) = ToSet(Own(t, side).select) \cup {Side(c, t, side).key}
                                                        \cup ToSet(Own(t, side).order_by)
                  /\ ToSet(AllNamed(c, t, side)) = ToSet(SideSelect(c, t, side))
                  /\ SideSelect(c, t, side) # <<"*">> /\ AllNamed(c, t, side) # <<"*">>
<1> DEFINE own == Own(t, side)
           key == Side(c, t, side).key
           needed == Needed(c, t, side)
           all == own.select \o needed
           select == SideSelect(c, t, side)
<1>1. IsQuery(own)
  BY TraversalAssumption DEF Own
<1>2. IsList(own.select) /\ IsList(own.order_by)
  BY <1>1 DEF IsQuery
<1>3. IsList(needed) /\ ToSet(needed) = {key} \cup ToSet(own.order_by)
  BY <1>2, ListsOfOne, ListsAreJoined DEF Needed
<1>4. IsList(all) /\ ToSet(all) = ToSet(own.select) \cup {key} \cup ToSet(own.order_by)
  BY <1>2, <1>3, ListsAreJoined
<1>5. key # "*"
  BY KeysAreComparable
<1>6. ASSUME own.select = <<"*">> PROVE select = <<"*">>
  BY <1>6 DEF Extended, SideSelect
<1>7. ASSUME own.select # <<"*">>
      PROVE  IsList(select) /\ IsInjective(select) /\ ToSet(select) = ToSet(all)
  <2> DEFINE P == {n \in DOMAIN all : \A m \in DOMAIN all : m < n => all[m] # all[n]}
  <2>1. select = Picked(all, P)
    BY <1>7 DEF Extended, SideSelect
  <2> HIDE DEF all
  <2>2. IsList(Picked(all, P)) /\ IsInjective(Picked(all, P)) /\ ToSet(Picked(all, P)) = ToSet(all)
    <3> DEFINE Q == P
    <3>1. Q = {n \in DOMAIN all : \A m \in DOMAIN all : m < n => all[m] # all[n]}
      OBVIOUS
    <3> HIDE DEF Q
    <3>2. IsList(Picked(all, Q)) /\ IsInjective(Picked(all, Q)) /\ ToSet(Picked(all, Q)) = ToSet(all)
      BY <1>4, <3>1, OnesThatComeFirst
    <3> QED
      BY <3>2 DEF Q
  <2> QED
    BY <2>1, <2>2
<1>8. own.select = <<"*">> => IsList(select)
  BY <1>6, ListsOfOne
<1>9. ASSUME own.select # <<"*">> PROVE select # <<"*">> /\ all # <<"*">>
  <2>1. key \in ToSet(select) /\ key \in ToSet(all)
    BY <1>4, <1>7, <1>9
  <2>2. ToSet(<<"*">>) = {"*"}
    BY ListsOfOne
  <2> HIDE DEF all, key
  <2> QED
    BY <1>5, <2>1, <2>2
<1> QED
  BY <1>4, <1>6, <1>7, <1>8, <1>9 DEF AllNamed

\* Each side is a query like another.
LEMMA SidesAreQueries ==
    ASSUME NEW c \in Catalogs, NEW t \in Traversals, Loads(c), RelationshipError(c, t) = None, NEW side \in Ends
    PROVE  /\ IsQuery(DriverQuery(c, t, side)) /\ IsQuery(Alone(c, t, side)) /\ IsQuery(AloneWithKey(c, t, side))
           /\ \A values : IsList(values) => IsQuery(ProbeQuery(c, t, side, values))
<1> DEFINE own == Own(t, side)
           s   == Side(c, t, side)
           all == AllNamed(c, t, side)
           select == SideSelect(c, t, side)
<1>1. /\ IsQuery(own) /\ IsList(own.select) /\ IsList(own.order_by) /\ IsList(own.where.terms)
      /\ {own.where.depth, own.where.nodes} \subseteq Nat
      /\ \A x \in ToSet(own.where.terms) : IsList(x.value.of)
  BY TraversalAssumption DEF Own, IsQuery
<1>2. IsList(select) /\ IsList(all) /\ IsList(<<>>)
  BY SidesSelect, ListsOfOne
<1>3. MaxDriver + 1 \in Nat /\ MaxProbe + 1 \in Nat
  BY TraversalAssumption
<1>4. IsQuery(Alone(c, t, side))
  BY <1>1, <1>2 DEF Alone, IsQuery
<1>5. IsQuery(AloneWithKey(c, t, side))
  <2>1. AloneWithKey(c, t, side).select \in {<<"*">>, own.select \o <<s.key>> \o own.order_by}
    BY DEF AloneWithKey, Alone
  <2>2. own.select \o <<s.key>> \o own.order_by = all
    <3> DEFINE a == own.select
               b == own.order_by
               S == ToSet(a) \cup ToSet(b) \cup {s.key}
    <3>1. a \in Seq(S) /\ b \in Seq(S) /\ <<s.key>> \in Seq(S)
      BY <1>1 DEF IsList
    <3> HIDE DEF a, b, S
    <3>2. a \o <<s.key>> \o b = a \o (<<s.key>> \o b)
      BY <3>1, ConcatAssociative
    <3> QED
      BY <3>2 DEF a, b, AllNamed, Needed
  <2>3. IsList(AloneWithKey(c, t, side).select)
    <3> HIDE DEF all
    <3>1. IsList(<<"*">>)
      BY ListsOfOne
    <3>2. CASE AloneWithKey(c, t, side).select = <<"*">>
      BY <3>1, <3>2
    <3>3. CASE AloneWithKey(c, t, side).select = own.select \o <<s.key>> \o own.order_by
      <4>1. AloneWithKey(c, t, side).select = all
        BY <2>2, <3>3
      <4> QED
        BY <1>2, <4>1
    <3> QED
      BY <2>1, <3>2, <3>3
  <2> QED
    BY <1>1, <1>2, <2>3 DEF AloneWithKey, Alone, IsQuery
<1>6. IsQuery(DriverQuery(c, t, side))
  BY <1>1, <1>2, <1>3 DEF DriverQuery, SideQuery, IsQuery, SideSelect, Needed
<1>7. ASSUME NEW values, IsList(values) PROVE IsQuery(ProbeQuery(c, t, side, values))
  <2> DEFINE keys  == [semantic |-> FALSE, field |-> s.key, op |-> "in", conjunctive |-> TRUE,
                       value |-> [form |-> "list", of |-> values]]
             where == Restricted(own.where, s.key, values)
  <2>1. IsList(keys.value.of)
    BY <1>7
  <2>2. /\ IsList(where.terms) /\ {where.depth, where.nodes} \subseteq Nat
        /\ ToSet(where.terms) \subseteq ToSet(own.where.terms) \cup {keys}
    <3>1. CASE own.where = NoFilter
      <4>1. where.terms = <<keys>> /\ where.depth = 1 /\ where.nodes = 1
        BY <3>1 DEF Restricted
      <4> QED
        BY <4>1, ListsOfOne
    <3>2. CASE own.where # NoFilter
      <4>1. /\ where.terms = Append(own.where.terms, keys)
            /\ where.depth = own.where.depth + 1 /\ where.nodes = own.where.nodes + 2
        BY <3>2 DEF Restricted
      <4>2. where.depth \in Nat /\ where.nodes \in Nat
        BY <1>1, <4>1
      <4> QED
        BY <1>1, <4>1, <4>2, ListsAreExtended
    <3> QED
      BY <3>1, <3>2
  <2>3. \A x \in ToSet(where.terms) : IsList(x.value.of)
    BY <1>1, <2>1, <2>2
  <2>4. /\ ProbeQuery(c, t, side, values).where = where
        /\ ProbeQuery(c, t, side, values).select = select
        /\ ProbeQuery(c, t, side, values).order_by = <<>>
        /\ ProbeQuery(c, t, side, values).first = MaxProbe + 1
    BY DEF ProbeQuery, SideQuery, SideSelect, Needed
  <2> HIDE DEF where, select, keys
  <2> QED
    BY <1>2, <1>3, <2>2, <2>3, <2>4 DEF IsQuery
<1> QED
  BY <1>4, <1>5, <1>6, <1>7

\* Who may send more values may send fewer.
LEMMA MoreValuesAreTaken ==
    ASSUME NEW c, NEW d, NEW t, NEW m \in Nat, NEW n \in Nat, m <= n, IsList(t.value.of),
           TermError(c, d, t, m) = None
    PROVE  TermError(c, d, t, n) = None
<1>1. Len(t.value.of) \in Nat
  BY ListsAreCounted
<1>2. ~(Len(t.value.of) > m) => ~(Len(t.value.of) > n)
  BY <1>1
<1>3. ValueError(c.datasets[d][t.field].type, t, m) = None => ValueError(c.datasets[d][t.field].type, t, n) = None
  BY <1>2 DEF ValueError, None
<1> QED
  BY <1>3 DEF TermError

\* Parsing looks at the shape of a query only.
LEMMA WellFormed ==
    ASSUME NEW q
    PROVE  ParseError(q) = None <=>
               /\ q.select = <<"*">> \/ IsInjective(q.select)
               /\ ~(q.where.depth > MaxDepth \/ q.where.nodes > MaxTerms)
               /\ IsInjective(q.order_by) /\ ~(q.first < 1)
<1> DEFINE e1 == IF q.select = <<"*">> \/ IsInjective(q.select) THEN None ELSE "query_shape_invalid"
           e2 == IF q.where.depth > MaxDepth \/ q.where.nodes > MaxTerms THEN "query_limit_invalid" ELSE None
           e3 == IF IsInjective(q.order_by) THEN None ELSE "query_shape_invalid"
           e4 == IF q.first < 1 THEN "query_limit_invalid" ELSE None
           codes == <<e1, e2, e3, e4>>
<1>1. DOMAIN codes = 1 .. 4 /\ codes[1] = e1 /\ codes[2] = e2 /\ codes[3] = e3 /\ codes[4] = e4
  OBVIOUS
<1>2. ParseError(q) = FirstError(codes)
  BY DEF ParseError
<1> HIDE DEF codes
<1>3. FirstError(codes) = None <=> \A n \in 1 .. 4 : codes[n] = None
  BY <1>1, FirstErrorIsOne
<1>4. \A n : n \in 1 .. 4 <=> n \in {1, 2, 3, 4}
  OBVIOUS
<1>5. FirstError(codes) = None <=> e1 = None /\ e2 = None /\ e3 = None /\ e4 = None
  BY <1>1, <1>3, <1>4
<1>6. /\ e1 = None <=> q.select = <<"*">> \/ IsInjective(q.select)
      /\ e2 = None <=> ~(q.where.depth > MaxDepth \/ q.where.nodes > MaxTerms)
      /\ e3 = None <=> IsInjective(q.order_by)
      /\ e4 = None <=> ~(q.first < 1)
  BY DEF None
<1> HIDE DEF e1, e2, e3, e4
<1> QED
  BY <1>2, <1>5, <1>6

LEMMA OrdersAreFit ==
    ASSUME NEW c, NEW t, NEW side \in Ends, OrderErrors(c, t) = {}, NEW f \in ToSet(Own(t, side).order_by)
    PROVE  FieldError(c, Side(c, t, side).dataset, f) = None
<1> DEFINE e == FieldError(c, Side(c, t, side).dataset, f)
           errors == {FieldError(c, Side(c, t, side).dataset, g) : g \in ToSet(Own(t, side).order_by)}
<1>1. e \in errors
  OBVIOUS
<1>2. errors \subseteq OrderErrors(c, t) \cup {None}
  BY DEF OrderErrors, Ends
<1> HIDE DEF e, errors
<1>3. e = None
  BY <1>1, <1>2
<1> QED
  BY <1>3 DEF e

\* A side that could be asked on its own can drive the join.
LEMMA DriversAreBound ==
    ASSUME NEW c \in Catalogs, NEW t \in Traversals, Loads(c), RelationshipError(c, t) = None,
           OrderErrors(c, t) = {}, NEW side \in Ends,
           BindError(c, Alone(c, t, side), UserPolicy) = None
    PROVE  BoundUnder(c, DriverQuery(c, t, side), InternalPolicy)
<1> DEFINE own == Own(t, side)
           s   == Side(c, t, side)
           a   == Alone(c, t, side)
           q   == DriverQuery(c, t, side)
           select == SideSelect(c, t, side)
<1>1. BoundUnder(c, a, UserPolicy) /\ IsQuery(a)
  BY SidesAreQueries, BindingIsOfAllParts
<1>2. a.dataset = s.dataset /\ a.select = own.select /\ a.where = own.where
  BY DEF Alone
<1>3. /\ q.dataset = s.dataset /\ q.select = select /\ q.where = own.where /\ q.order_by = <<>>
      /\ q.first = MaxDriver + 1 /\ q.quality = (t.root.quality /\ HasSemantic(own.where))
  BY DEF DriverQuery, SideQuery, SideSelect, Needed
<1>4. /\ own.select = <<"*">> => select = <<"*">>
      /\ own.select # <<"*">> =>
             /\ IsInjective(select)
             /\ ToSet(select) = ToSet(own.select) \cup {s.key} \cup ToSet(own.order_by)
  BY SidesSelect
<1> HIDE DEF a, q, select
<1>5. ParseError(q) = None
  <2>1. ~(own.where.depth > MaxDepth \/ own.where.nodes > MaxTerms)
    BY <1>1, <1>2, WellFormed DEF BoundUnder
  <2>2. IsInjective(<<>>)
    BY DEF IsInjective
  <2>3. ~(MaxDriver + 1 < 1)
    BY TraversalAssumption
  <2> QED
    BY <1>3, <1>4, <2>1, <2>2, <2>3, WellFormed
<1>6. q.dataset \in DOMAIN c.datasets
  BY <1>3, KeysAreComparable
<1>7. q.select = <<"*">> \/ \A f \in ToSet(q.select) : FieldError(c, q.dataset, f) = None
  <2>1. FieldError(c, s.dataset, s.key) = None
    BY KeysAreComparable
  <2>2. \A f \in ToSet(own.order_by) : FieldError(c, s.dataset, f) = None
    BY OrdersAreFit
  <2>3. own.select # <<"*">> => \A f \in ToSet(own.select) : FieldError(c, s.dataset, f) = None
    BY <1>1, <1>2 DEF BoundUnder
  <2> QED
    BY <1>3, <1>4, <2>1, <2>2, <2>3
<1>8. \A x \in ToSet(q.where.terms) : TermError(c, q.dataset, x, InternalPolicy.values) = None
  <2> SUFFICES ASSUME NEW x \in ToSet(own.where.terms)
               PROVE  TermError(c, s.dataset, x, InternalPolicy.values) = None
    BY <1>3
  <2>1. TermError(c, s.dataset, x, MaxIn) = None
    BY <1>1, <1>2 DEF BoundUnder, UserPolicy
  <2>2. IsList(x.value.of)
    BY <1>1, <1>2 DEF IsQuery
  <2>3. MaxIn \in Nat /\ InternalPolicy.values \in Nat /\ MaxIn <= InternalPolicy.values
    BY BoundsOfTheSides, CatalogAssumption
  <2> QED
    BY <2>1, <2>2, <2>3, MoreValuesAreTaken
<1>9. PlacementError(q.where) = None
  BY <1>1, <1>2, <1>3 DEF BoundUnder
<1>10. \A f \in ToSet(q.order_by) : OrderError(c, q.dataset, f) = None
  BY <1>3, ListsOfOne
<1>11. ~(q.first > InternalPolicy.page)
  <2>1. MaxDriver + 1 \in Nat /\ InternalPolicy.page \in Nat /\ InternalPolicy.page >= MaxDriver + 1
    BY BoundsOfTheSides, TraversalAssumption
  <2> QED
    BY <1>3, <2>1
<1>12. QualityError(q) = None
  BY <1>3 DEF QualityError, HasSemantic
<1> QED
  BY <1>5, <1>6, <1>7, <1>8, <1>9, <1>10, <1>11, <1>12 DEF BoundUnder, q

\* Two queries that use the same fields of a dataset and search the same fields
\* by meaning are resolved alike.
LEMMA ResolvedAlike ==
    ASSUME NEW c, NEW p, NEW q, p.dataset = q.dataset, UsedFields(c, p) = UsedFields(c, q),
           \A x : x.semantic => (x \in ToSet(p.where.terms) <=> x \in ToSet(q.where.terms))
    PROVE  ResolveErrors(c, p) = ResolveErrors(c, q)
<1>1. \A f : OwnerOf(c, p, f) = OwnerOf(c, q, f)
  BY DEF OwnerOf
<1>2. Owners(c, p) = Owners(c, q) /\ \A s : OwnedBy(c, p, s) = OwnedBy(c, q, s)
  BY <1>1 DEF Owners, OwnedBy
<1>3. VectorStores(c, p) = VectorStores(c, q)
  <2>1. \A s \in DOMAIN c.sources :
            (\E x \in ToSet(p.where.terms) : x.semantic /\ x.field \in Rep(c, s, p.dataset).embeddings
                                                       /\ x.field \notin Mapped(Rep(c, s, p.dataset)))
            <=> (\E x \in ToSet(q.where.terms) : x.semantic /\ x.field \in Rep(c, s, q.dataset).embeddings
                                                           /\ x.field \notin Mapped(Rep(c, s, q.dataset)))
    OBVIOUS
  <2> QED
    BY <2>1 DEF VectorStores
<1>4. \A s : SourceError(c, p, s) = SourceError(c, q, s)
  BY <1>2 DEF SourceError
<1> QED
  BY <1>2, <1>3, <1>4 DEF ResolveErrors

-----------------------------------------------------------------------------
(* What is known of a catalog, a query or a join that has come so far.       *)

Early    == {"written", "invalid", "loaded", "rejected", "active"}
OfAQuery == {"bound", "resolved"}
OfAJoin  == {"sided", "planned", "matched", "missed"}

CatalogIsChecked ==
    /\ catalog \in Catalogs /\ phase \in Early \cup {"refused"} \cup OfAQuery \cup OfAJoin
    /\ phase \notin {"written", "invalid"} => Loads(catalog)
    /\ phase \notin {"written", "invalid", "loaded", "rejected"} =>
           \A s \in DOMAIN catalog.sources : SourceIsValid(catalog, database, s)

QueryIsBound ==
    /\ phase \in Early \cup OfAJoin => request = Nothing
    /\ request = Nothing \/ (request \in Requests /\ join = Nothing)
    /\ phase \in OfAQuery => request \in Requests /\ join = Nothing /\ BoundUnder(catalog, request, UserPolicy)
    /\ phase = "resolved" => /\ ResolveErrors(catalog, request) = {}
                             /\ resolved = Sources(catalog, request)

JoinIsPlanned ==
    /\ phase \in Early => join = Nothing
    /\ phase \in OfAJoin => /\ join \in [traversal : Traversals, driver : {None} \cup Ends, key : {None} \cup Values]
                            /\ TraversalErrors(catalog, join.traversal) = {}
    /\ phase = "sided" => join.driver = None /\ join.key = None
    /\ phase = "planned" => /\ join.driver \in Ends /\ join.key = None
                            /\ HasSample(KeyType(catalog, join.traversal, Opposite(join.driver)))

Gates == CatalogIsChecked /\ QueryIsBound /\ JoinIsPlanned

LEMMA FirstGate == TraversalInit => Gates
BY DEF TraversalInit, Init, Gates, CatalogIsChecked, QueryIsBound, JoinIsPlanned, Early, OfAQuery, OfAJoin

\* A query that is bound, and one that is refused.
LEMMA BindGates ==
    ASSUME Gates, NEW q \in Requests, Bind(q), UNCHANGED join
    PROVE  Gates'
<1>1. CatalogIsChecked'
  BY DEF Gates, CatalogIsChecked, Bind, catalog_vars, Early, OfAQuery, OfAJoin
<1>2. join = Nothing /\ join' = Nothing
  BY DEF Gates, JoinIsPlanned, Bind, Early
<1>3. IsQuery(q)
  BY CatalogAssumption
<1>4. error' = None => BoundUnder(catalog, q, UserPolicy)
  BY <1>3, BindingIsOfAllParts DEF Bind
<1>5. QueryIsBound'
  BY <1>2, <1>4 DEF QueryIsBound, Bind, catalog_vars, Early, OfAQuery, OfAJoin
<1>6. JoinIsPlanned'
  BY <1>2 DEF JoinIsPlanned, Bind, Early, OfAJoin
<1> QED
  BY <1>1, <1>5, <1>6 DEF Gates

LEMMA CatalogGates ==
    ASSUME Gates, Next, UNCHANGED join
    PROVE  Gates'
<1>1. ASSUME Load \/ Activate PROVE Gates'
  <2>1. CatalogIsChecked'
    BY <1>1 DEF Gates, CatalogIsChecked, Load, Activate, catalog_vars, Early, OfAQuery, OfAJoin
  <2>2. /\ phase \in Early /\ phase' \in Early /\ UNCHANGED <<request, join>>
    BY <1>1 DEF Load, Activate, Early
  <2>3. QueryIsBound' /\ JoinIsPlanned'
    BY <2>2 DEF Gates, QueryIsBound, JoinIsPlanned, Early, OfAQuery, OfAJoin
  <2> QED
    BY <2>1, <2>3 DEF Gates
<1>2. ASSUME Resolve \/ ResolveFails PROVE Gates'
  <2>1. CatalogIsChecked'
    BY <1>2 DEF Gates, CatalogIsChecked, Resolve, ResolveFails, catalog_vars, Early, OfAQuery, OfAJoin
  <2>2. /\ phase = "bound" /\ phase' \in {"resolved", "refused"} /\ UNCHANGED <<catalog_vars, request, join>>
        /\ phase' = "resolved" => ResolveErrors(catalog, request) = {} /\ resolved' = Sources(catalog, request)
    BY <1>2 DEF Resolve, ResolveFails
  <2>3. QueryIsBound'
    BY <2>2 DEF Gates, QueryIsBound, Early, OfAQuery, OfAJoin, catalog_vars
  <2>4. JoinIsPlanned'
    BY <2>2 DEF Gates, JoinIsPlanned, Early, OfAJoin
  <2> QED
    BY <2>1, <2>3, <2>4 DEF Gates
<1> QED
  BY <1>1, <1>2, BindGates DEF Next

LEMMA TraversalGates ==
    ASSUME Gates, NEW t \in Traversals, RefuseTraversal(t) \/ PlanSides(t)
    PROVE  Gates'
<1>1. /\ phase = "active" /\ phase' \in {"refused", "sided"} /\ UNCHANGED <<catalog_vars, request>>
      /\ join' = [traversal |-> t, driver |-> None, key |-> None]
      /\ phase' = "sided" => TraversalErrors(catalog, t) = {}
  BY DEF RefuseTraversal, PlanSides
<1>2. CatalogIsChecked'
  BY <1>1 DEF Gates, CatalogIsChecked, catalog_vars, Early, OfAQuery, OfAJoin
<1>3. QueryIsBound'
  BY <1>1 DEF Gates, QueryIsBound, Early, OfAQuery, OfAJoin
<1>4. /\ join' \in [traversal : Traversals, driver : {None} \cup Ends, key : {None} \cup Values]
      /\ join'.traversal = t /\ join'.driver = None /\ join'.key = None
  BY <1>1
<1>5. JoinIsPlanned'
  BY <1>1, <1>4 DEF JoinIsPlanned, Early, OfAJoin, catalog_vars
<1> QED
  BY <1>2, <1>3, <1>5 DEF Gates

LEMMA KeyGates ==
    ASSUME Gates, (\E driver \in Ends : PlanProbe(driver)) \/ (\E value \in Values : Probe(value))
    PROVE  Gates'
<1>1. /\ phase \in {"sided", "planned"} /\ phase' \in {"planned", "refused", "matched", "missed"}
      /\ UNCHANGED <<catalog_vars, request>>
      /\ \E driver \in Ends, value \in Values :
             join' = [join EXCEPT !.driver = driver] \/ join' = [join EXCEPT !.key = value]
  <2>1. ASSUME NEW driver \in Ends, PlanProbe(driver) PROVE <1>1!:
    <3>1. \E value : value \in Values
      BY DEF Values, Returns
    <3> QED
      BY <2>1, <3>1 DEF PlanProbe
  <2>2. ASSUME NEW value \in Values, Probe(value) PROVE <1>1!:
    BY <2>2 DEF Probe, Ends
  <2> QED
    BY <2>1, <2>2
<1>2. CatalogIsChecked'
  BY <1>1 DEF Gates, CatalogIsChecked, catalog_vars, Early, OfAQuery, OfAJoin
<1>3. /\ join \in [traversal : Traversals, driver : {None} \cup Ends, key : {None} \cup Values]
      /\ TraversalErrors(catalog, join.traversal) = {}
      /\ phase = "sided" => join.driver = None /\ join.key = None
  BY <1>1 DEF Gates, JoinIsPlanned, OfAJoin
<1>4. QueryIsBound'
  <2>1. request = Nothing
    BY <1>1 DEF Gates, QueryIsBound, OfAJoin
  <2> QED
    BY <1>1, <2>1 DEF QueryIsBound, Early, OfAQuery, OfAJoin
<1>5. /\ join' \in [traversal : Traversals, driver : {None} \cup Ends, key : {None} \cup Values]
      /\ join'.traversal = join.traversal
  BY <1>1, <1>3
<1>6. phase' = "planned" => /\ join'.driver \in Ends /\ join'.key = None
                            /\ HasSample(KeyType(catalog, join'.traversal, Opposite(join'.driver)))
  <2>1. ASSUME NEW driver \in Ends, PlanProbe(driver), phase' = "planned"
        PROVE  /\ join' = [join EXCEPT !.driver = driver] /\ phase = "sided"
               /\ HasSample(KeyType(catalog, join.traversal, Opposite(driver)))
    <3>1. error' = None
      BY <2>1 DEF PlanProbe
    <3>2. ~HasSample(KeyType(catalog, join.traversal, Opposite(driver))) => error' = "KeyError"
      BY <2>1 DEF PlanProbe
    <3>3. "KeyError" # None
      BY DEF None
    <3> QED
      BY <2>1, <3>1, <3>2, <3>3 DEF PlanProbe
  <2>2. \A value \in Values : Probe(value) => phase' # "planned"
    BY DEF Probe
  <2> QED
    BY <1>3, <2>1, <2>2
<1>7. JoinIsPlanned'
  BY <1>1, <1>3, <1>5, <1>6 DEF JoinIsPlanned, Early, OfAJoin, catalog_vars
<1> QED
  BY <1>2, <1>4, <1>7 DEF Gates

LEMMA GatesStep == Gates /\ [TraversalNext]_traversal_vars => Gates'
<1> SUFFICES ASSUME Gates, [TraversalNext]_traversal_vars PROVE Gates'
  OBVIOUS
<1>1. ASSUME UNCHANGED traversal_vars PROVE Gates'
  BY <1>1 DEF traversal_vars, vars, catalog_vars, Gates, CatalogIsChecked, QueryIsBound, JoinIsPlanned
<1> QED
  BY <1>1, CatalogGates, TraversalGates, KeyGates DEF TraversalNext, CatalogStep, Ends

LEMMA GatesHold == TraversalSpec => []Gates
BY FirstGate, GatesStep, PTL DEF TraversalSpec

-----------------------------------------------------------------------------
(* What an active catalog promises a query.                                 *)

\* A batch of keys is a list of them.
LEMMA BatchesAreLists ==
    ASSUME NEW key
    PROVE  LET keys == [n \in 1 .. BatchSize |-> key]
           IN  /\ IsList(keys) /\ keys # <<>> /\ Len(keys) = BatchSize /\ ToSet(keys) = {key}
<1> DEFINE keys == [n \in 1 .. BatchSize |-> key]
<1>1. BatchSize \in Nat \ {0}
  BY TraversalAssumption
<1>2. DOMAIN keys = 1 .. BatchSize /\ keys \in Seq({key}) /\ Len(keys) = BatchSize
  BY <1>1
<1>3. 1 \in DOMAIN keys /\ \A n \in DOMAIN keys : keys[n] = key
  BY <1>1
<1>4. ToSet(keys) = {key}
  BY <1>3 DEF ToSet
<1>5. keys # <<>>
  BY <1>1, <1>2
<1> QED
  BY <1>2, <1>4, <1>5 DEF IsList

\* What planning both sides has settled.
LEMMA PlannedSides ==
    ASSUME NEW c, NEW t, TraversalErrors(c, t) = {}
    PROVE  /\ RelationshipError(c, t) = None /\ OrderErrors(c, t) = {}
           /\ \A side \in Ends : SideErrors(c, DriverQuery(c, t, side)) = {}
BY DEF TraversalErrors, Ends

LEMMA ReadsFollow == Gates => ReadsAreSound
<1> SUFFICES ASSUME Gates, phase = "resolved" PROVE ReadsAreSound
  BY DEF ReadsAreSound
<1> DEFINE c == catalog
           q == request
           d == q.dataset
<1>1. /\ c \in Catalogs /\ Loads(c) /\ \A s \in DOMAIN c.sources : SourceIsValid(c, database, s)
      /\ BoundUnder(c, q, UserPolicy) /\ ResolveErrors(c, q) = {} /\ resolved = Sources(c, q)
  BY DEF Gates, CatalogIsChecked, QueryIsBound, OfAQuery
<1>2. /\ d \in DOMAIN c.datasets /\ "id" \in UsedFields(c, q)
      /\ \A f \in UsedFields(c, q) : FieldError(c, d, f) = None
  BY <1>1, UsedFieldsArePublic
<1>3. /\ DOMAIN resolved = Owners(c, q) \cup VectorStores(c, q)
      /\ \A s \in DOMAIN resolved : resolved[s] = OwnedBy(c, q, s) \cup {"id"}
  BY <1>1 DEF Sources
<1>4. UsedFields(c, q) = UNION {resolved[s] : s \in DOMAIN resolved}
  <2>1. \A s \in DOMAIN resolved : resolved[s] \subseteq UsedFields(c, q)
    BY <1>2, <1>3 DEF OwnedBy
  <2>2. ASSUME NEW f \in UsedFields(c, q) PROVE \E s \in DOMAIN resolved : f \in resolved[s]
    <3>1. OwnerOf(c, q, f) \in Owners(c, q) /\ f \in OwnedBy(c, q, OwnerOf(c, q, f))
      BY DEF Owners, OwnedBy
    <3> QED
      BY <1>3, <3>1
  <2> QED
    BY <2>1, <2>2
<1>5. c.resolution[d].identity_source \in DOMAIN resolved
  <2>1. OwnerOf(c, q, "id") = c.resolution[d].identity_source
    BY <1>1, <1>2 DEF Loads, ResolutionIsValid, OwnerOf
  <2> QED
    BY <1>2, <1>3, <2>1 DEF Owners
<1>6. ASSUME NEW s \in DOMAIN resolved
      PROVE  LET r     == Rep(c, s, d)
                 table == database[s][r.resource]
             IN  /\ \A f \in resolved[s] :
                        LET spec == c.datasets[d][f] IN
                        /\ spec.visibility = "public"
                        /\ f = "id" \/ s = OwnerOf(c, q, f)
                        /\ Column(r, f) \in DOMAIN table.columns
                        /\ spec.type \notin {"id", "float"} =>
                               Family(table.columns[Column(r, f)]) =
                               (IF spec.type = "text" THEN "string" ELSE spec.type)
                 /\ r.identity = <<"id">> => <<Column(r, "id")>> \in table.keys
  <2> DEFINE r     == Rep(c, s, d)
             table == database[s][r.resource]
  <2>1. /\ s \in DOMAIN c.sources /\ d \in Represented(c, s) /\ OwnedBy(c, q, s) \subseteq Mapped(r)
        /\ KnowsTheId(c, s, d)
    BY <1>1, <1>3, SourcesAreFit, BoundQueriesResolve
  <2>2. /\ \A f \in Mapped(r) : /\ Column(r, f) \in DOMAIN table.columns
                                /\ IsCompatible(c.datasets[d][f].type, Family(table.columns[Column(r, f)]))
        /\ r.identity = <<"id">> => <<Column(r, "id")>> \in table.keys
    BY <1>1, <2>1, ColumnsAreFit
  <2>3. resolved[s] \subseteq Mapped(r) /\ \A f \in resolved[s] : f = "id" \/ s = OwnerOf(c, q, f)
    BY <1>3, <2>1 DEF KnowsTheId, OwnedBy
  <2>4. \A f \in resolved[s] : c.datasets[d][f].visibility = "public"
    <3>1. \A f \in resolved[s] : f \in UsedFields(c, q)
      BY <1>4
    <3> QED
      BY <1>2, <3>1, PublicFields
  <2>5. ASSUME NEW type, NEW family, IsCompatible(type, family), type \notin {"id", "float"}
        PROVE  family = IF type = "text" THEN "string" ELSE type
    BY <2>5 DEF IsCompatible
  <2> HIDE DEF r, table
  <2> QED
    BY <2>2, <2>3, <2>4, <2>5 DEF r, table
<1> QED
  BY <1>4, <1>5, <1>6 DEF ReadsAreSound

\* Who the query is refused for.
LEMMA SourcesAreKnown ==
    Gates /\ ActiveCatalogResolves /\ [TraversalNext]_traversal_vars => ActiveCatalogResolves'
<1> SUFFICES ASSUME Gates, ActiveCatalogResolves, [TraversalNext]_traversal_vars PROVE ActiveCatalogResolves'
  OBVIOUS
<1>1. Gates'
  BY GatesStep
<1>2. ASSUME phase' = "resolved"
      PROVE  \A s \in DOMAIN resolved' : KnowsTheId(catalog', s, request'.dataset)
  <2>1. /\ Loads(catalog') /\ BoundUnder(catalog', request', UserPolicy)
        /\ ResolveErrors(catalog', request') = {} /\ resolved' = Sources(catalog', request')
    BY <1>1, <1>2 DEF Gates, CatalogIsChecked, QueryIsBound, OfAQuery
  <2>2. DOMAIN resolved' = Owners(catalog', request') \cup VectorStores(catalog', request')
    BY <2>1 DEF Sources
  <2> QED
    BY <2>1, <2>2, BoundQueriesResolve
<1> DEFINE Refusal == /\ error # "source_binding_unavailable"
                      /\ error = "source_logical_id_unavailable" /\ request # Nothing => IdGap(catalog, request)
<1>3. ActiveCatalogResolves' <=> Refusal' /\ (phase' = "resolved" =>
          \A s \in DOMAIN resolved' : KnowsTheId(catalog', s, request'.dataset))
  BY DEF ActiveCatalogResolves, IdGap
<1>4. Refusal
  BY DEF ActiveCatalogResolves, IdGap
<1>5. {"source_binding_unavailable", "source_logical_id_unavailable"} \cap (Codes \cup {None}) = {}
  BY DEF Codes, None
<1>6. ASSUME UNCHANGED <<catalog, request, error>> PROVE Refusal'
  BY <1>4, <1>6 DEF IdGap
<1>7. ASSUME NEW q \in Requests, Bind(q) PROVE Refusal'
  <2>1. error' \in Codes \cup {None}
    BY <1>7, BindCodes, CatalogAssumption DEF Bind
  <2> QED
    BY <1>5, <2>1
<1>8. ASSUME ResolveFails PROVE Refusal'
  <2>1. /\ Loads(catalog) /\ BoundUnder(catalog, request, UserPolicy)
        /\ error' \in ResolveErrors(catalog, request) /\ UNCHANGED <<catalog, request>>
    BY <1>8 DEF ResolveFails, Gates, CatalogIsChecked, QueryIsBound, OfAQuery, Early, OfAJoin, catalog_vars
  <2>2. error' = "source_logical_id_unavailable" /\ IdGap(catalog, request)
    BY <2>1, BoundQueriesResolve
  <2> QED
    BY <2>1, <2>2 DEF IdGap
<1>9. ASSUME Loads(catalog), NEW q, IsQuery(q), NEW e \in SideErrors(catalog, q)
      PROVE  e # "source_binding_unavailable"
  <2>1. CASE BindError(catalog, q, InternalPolicy) # None
    <3> DEFINE b == BindError(catalog, q, InternalPolicy)
    <3>1. e = b
      BY <2>1 DEF SideErrors
    <3>2. b \in Codes \cup {None}
      BY <1>9, BindCodes
    <3> HIDE DEF b
    <3> QED
      BY <1>5, <3>1, <3>2
  <2>2. CASE BindError(catalog, q, InternalPolicy) = None
    <3>1. BoundUnder(catalog, q, InternalPolicy) /\ SideErrors(catalog, q) = ResolveErrors(catalog, q)
      BY <1>9, <2>2, BindingIsOfAllParts DEF SideErrors
    <3> QED
      BY <1>9, <3>1, BoundQueriesResolve
  <2> QED
    BY <2>1, <2>2
<1>10. ASSUME NEW t \in Traversals, RefuseTraversal(t) PROVE Refusal'
  <2>1. /\ request' = Nothing /\ error' \in TraversalErrors(catalog, t)
        /\ catalog \in Catalogs /\ Loads(catalog)
    BY <1>10 DEF RefuseTraversal, Gates, CatalogIsChecked, QueryIsBound, Early, OfAQuery, OfAJoin
  <2>2. CASE RelationshipError(catalog, t) # None
    BY <1>5, <2>1, <2>2 DEF TraversalErrors, RelationshipError, None
  <2>3. CASE RelationshipError(catalog, t) = None
    <3>1. \A side \in Ends : IsQuery(DriverQuery(catalog, t, side))
      BY <2>1, <2>3, SidesAreQueries
    <3>2. \A side \in Ends : \A e \in SideErrors(catalog, DriverQuery(catalog, t, side)) : e # "source_binding_unavailable"
      BY <1>9, <2>1, <3>1
    <3>3. \A e \in OrderErrors(catalog, t) : e # "source_binding_unavailable"
      <4>1. OrderErrors(catalog, t) \subseteq {"field_not_found", "field_not_accessible", None}
        BY PublicFields DEF OrderErrors
      <4> QED
        BY <4>1 DEF None
    <3>4. \/ error' \in {"query_shape_invalid", "query_limit_invalid"}
          \/ error' \in OrderErrors(catalog, t)
          \/ \E side \in Ends : error' \in SideErrors(catalog, DriverQuery(catalog, t, side))
      BY <2>1, <2>3 DEF TraversalErrors, Ends
    <3> QED
      BY <2>1, <3>2, <3>3, <3>4
  <2> QED
    BY <2>2, <2>3
<1>11. ASSUME phase \in OfAJoin, NEW side \in Ends, NEW values, IsList(values),
              error' \in ProbeErrors(catalog, join.traversal, side, values), UNCHANGED request
       PROVE  Refusal'
  <2>1. /\ request' = Nothing /\ catalog \in Catalogs /\ Loads(catalog) /\ join.traversal \in Traversals
        /\ RelationshipError(catalog, join.traversal) = None
    BY <1>11, PlannedSides DEF Gates, CatalogIsChecked, QueryIsBound, JoinIsPlanned, OfAJoin, Early
  <2>2. IsQuery(ProbeQuery(catalog, join.traversal, side, values))
    BY <1>11, <2>1, SidesAreQueries
  <2>3. \A e \in SideErrors(catalog, ProbeQuery(catalog, join.traversal, side, values)) : e # "source_binding_unavailable"
    BY <1>9, <2>1, <2>2
  <2>4. error' # "source_binding_unavailable"
    BY <1>11, <2>3 DEF ProbeErrors, None
  <2> QED
    BY <2>1, <2>4
<1>12. ASSUME (\E driver \in Ends : PlanProbe(driver)) \/ (\E value \in Values : Probe(value)) PROVE Refusal'
  <2>1. ASSUME NEW driver \in Ends, PlanProbe(driver) PROVE Refusal'
    <3> DEFINE side == Opposite(driver)
               values == <<Sample(KeyType(catalog, join.traversal, side))>>
    <3>1. /\ phase \in OfAJoin /\ side \in Ends /\ UNCHANGED request
          /\ error' \in ProbeErrors(catalog, join.traversal, side, values) \/ error' = "KeyError"
      BY <2>1 DEF PlanProbe, OfAJoin, Opposite, Ends
    <3>2. IsList(values)
      BY ListsOfOne
    <3>3. request = Nothing
      BY <3>1 DEF Gates, QueryIsBound
    <3> HIDE DEF side, values
    <3> QED
      BY <1>11, <3>1, <3>2, <3>3
  <2>2. ASSUME NEW value \in Values, Probe(value) PROVE Refusal'
    <3> DEFINE side == Opposite(join.driver)
               values == [n \in 1 .. BatchSize |-> Wire(value)]
    <3>1. /\ phase \in OfAJoin /\ side \in Ends /\ UNCHANGED request
          /\ error' \in ProbeErrors(catalog, join.traversal, side, values)
      BY <2>2 DEF Probe, OfAJoin, Opposite, Ends
    <3>2. IsList(values)
      BY BatchesAreLists
    <3> HIDE DEF side, values
    <3> QED
      BY <1>11, <3>1, <3>2
  <2> QED
    BY <1>12, <2>1, <2>2
<1>13. Refusal'
  <2>1. ASSUME Load \/ Activate \/ Resolve PROVE Refusal'
    BY <1>6, <2>1 DEF Load, Activate, Resolve, catalog_vars
  <2>2. ASSUME NEW t \in Traversals, PlanSides(t) PROVE Refusal'
    BY <1>6, <2>2 DEF PlanSides, catalog_vars
  <2>3. ASSUME UNCHANGED traversal_vars PROVE Refusal'
    BY <1>6, <2>3 DEF traversal_vars, vars, catalog_vars
  <2> HIDE DEF Refusal
  <2> QED
    BY <1>7, <1>8, <1>10, <1>12, <2>1, <2>2, <2>3 DEF TraversalNext, CatalogStep, Next, Ends
<1> QED
  BY <1>2, <1>3, <1>13

\* Every query that is bound is resolved, save for the one gap of the loader.
THEOREM EveryBoundQueryResolves == TraversalSpec => []ActiveCatalogResolves
<1>1. TraversalInit => ActiveCatalogResolves
  BY DEF TraversalInit, Init, ActiveCatalogResolves, None
<1> QED
  BY <1>1, SourcesAreKnown, GatesHold, PTL DEF TraversalSpec

\* A query reads what the catalog declares, from columns that exist.
THEOREM SoundReads == TraversalSpec => []ReadsAreSound
BY GatesHold, ReadsFollow, PTL

-----------------------------------------------------------------------------
(* The sides of a join, and the keys in the filter of one.                  *)

LEMMA NamedInOrder ==
    ASSUME NEW c, NEW t \in Traversals, NEW side \in Ends
    PROVE  Own(t, side).select \o <<Side(c, t, side).key>> \o Own(t, side).order_by = AllNamed(c, t, side)
<1> DEFINE a == Own(t, side).select
           b == Own(t, side).order_by
           k == Side(c, t, side).key
           S == ToSet(a) \cup ToSet(b) \cup {k}
<1>1. IsList(a) /\ IsList(b)
  BY TraversalAssumption DEF Own, IsQuery
<1>2. a \in Seq(S) /\ b \in Seq(S) /\ <<k>> \in Seq(S)
  BY <1>1 DEF IsList
<1> HIDE DEF a, b, k, S
<1>3. a \o <<k>> \o b = a \o (<<k>> \o b)
  BY <1>2, ConcatAssociative
<1> QED
  BY <1>3 DEF a, b, k, AllNamed, Needed

\* The condition that the key is one of some values.
Keys(key, values) == [semantic |-> FALSE, field |-> key, op |-> "in", conjunctive |-> TRUE,
                      value |-> [form |-> "list", of |-> values]]

\* The keys are one condition more, the last one.
LEMMA KeysAreAppended ==
    ASSUME NEW t \in Traversals, NEW side \in Ends, NEW key, NEW values
    PROVE  LET terms == Own(t, side).where.terms
           IN  IsList(terms) /\ Restricted(Own(t, side).where, key, values).terms = Append(terms, Keys(key, values))
<1> DEFINE where == Own(t, side).where
           more  == Restricted(where, key, values)
           keys  == Keys(key, values)
           terms == where.terms
<1>1. IsList(terms)
  BY TraversalAssumption DEF Own, IsQuery
<1>2. more.terms = Append(terms, keys)
  <2>1. CASE where = NoFilter
    <3>1. more.terms = <<keys>> /\ terms = <<>>
      <4>1. more = [terms |-> <<keys>>, depth |-> 1, nodes |-> 1]
        BY <2>1 DEF Restricted, Keys
      <4>2. NoFilter.terms = <<>>
        BY DEF NoFilter
      <4> HIDE DEF more, where
      <4> QED
        BY <2>1, <4>1, <4>2
    <3>2. <<keys>> = Append(<<>>, keys)
      OBVIOUS
    <3> QED
      BY <3>1, <3>2
  <2>2. CASE where # NoFilter
    BY <2>2 DEF Restricted, Keys
  <2> QED
    BY <2>1, <2>2
<1> QED
  BY <1>1, <1>2

LEMMA KeysAreAdded ==
    ASSUME NEW t \in Traversals, NEW side \in Ends, NEW key, NEW values
    PROVE  ToSet(Restricted(Own(t, side).where, key, values).terms) =
               ToSet(Own(t, side).where.terms) \cup {Keys(key, values)}
<1> DEFINE terms == Own(t, side).where.terms
           keys  == Keys(key, values)
           out   == Restricted(Own(t, side).where, key, values).terms
<1>1. IsList(terms) /\ out = Append(terms, keys)
  BY KeysAreAppended
<1> HIDE DEF terms, keys, out
<1>2. ToSet(out) = ToSet(terms) \cup {keys}
  BY <1>1, ListsAreExtended
<1> QED
  BY <1>2 DEF terms, keys, out

\* It searches nothing.
LEMMA KeysSearchNothing ==
    ASSUME NEW t \in Traversals, NEW side \in Ends, NEW key, NEW values
    PROVE  PlacementError(Restricted(Own(t, side).where, key, values)) = PlacementError(Own(t, side).where)
<1> DEFINE where == Own(t, side).where
           more  == Restricted(where, key, values)
           keys  == Keys(key, values)
           terms == where.terms
           out   == Append(terms, keys)
           m     == Len(terms)
<1>1. IsList(terms) /\ more.terms = out
  BY KeysAreAppended
<1>2. keys.semantic = FALSE
  BY DEF Keys
<1> HIDE DEF keys, terms
<1>3. /\ DOMAIN out = DOMAIN terms \cup {m + 1}
      /\ out[m + 1] = keys /\ \A n \in DOMAIN terms : out[n] = terms[n]
  BY <1>1, ListsAreExtended
<1> HIDE DEF out, m
<1> DEFINE new == {n \in DOMAIN out : out[n].semantic}
           old == {n \in DOMAIN terms : terms[n].semantic}
<1>4. new = old
  BY <1>2, <1>3
<1>5. \A n \in old : out[n] = terms[n]
  BY <1>3
<1> HIDE DEF new, old
<1>6. PlacementError(more) = IF Cardinality(new) > MaxSemantic THEN "query_limit_invalid"
                             ELSE IF \E n \in new : ~out[n].conjunctive THEN "query_expression_invalid"
                             ELSE None
  BY <1>1 DEF PlacementError, new
<1>7. PlacementError(where) = IF Cardinality(old) > MaxSemantic THEN "query_limit_invalid"
                              ELSE IF \E n \in old : ~terms[n].conjunctive THEN "query_expression_invalid"
                              ELSE None
  BY DEF PlacementError, old, terms
<1> HIDE DEF more, where
<1>8. PlacementError(more) = PlacementError(where)
  BY <1>4, <1>5, <1>6, <1>7
<1> QED
  BY <1>8 DEF more, where

\* The driving side uses the fields that its caller's query would use with the
\* key and the order, and the probing side no others.
LEMMA SidesUseTheSame ==
    ASSUME NEW c \in Catalogs, NEW t \in Traversals, Loads(c), RelationshipError(c, t) = None,
           NEW side \in Ends, NEW values
    PROVE  /\ UsedFields(c, AloneWithKey(c, t, side)) = UsedFields(c, DriverQuery(c, t, side))
           /\ UsedFields(c, ProbeQuery(c, t, side, values)) = UsedFields(c, DriverQuery(c, t, side))
           /\ Side(c, t, side).key \in UsedFields(c, DriverQuery(c, t, side))
<1> DEFINE own == Own(t, side)
           s   == Side(c, t, side)
           a   == AloneWithKey(c, t, side)
           q   == DriverQuery(c, t, side)
           p   == ProbeQuery(c, t, side, values)
           fields(terms) == {x.field : x \in ToSet(terms)}
<1>0. ASSUME NEW k
      PROVE  ToSet(Restricted(Own(t, side).where, k, values).terms) = ToSet(Own(t, side).where.terms) \cup {Keys(k, values)}
  BY KeysAreAdded
<1>1. a.dataset = s.dataset /\ q.dataset = s.dataset /\ p.dataset = s.dataset
  BY DEF AloneWithKey, Alone, DriverQuery, ProbeQuery, SideQuery
<1>2. /\ q.select = SideSelect(c, t, side) /\ p.select = SideSelect(c, t, side)
      /\ a.order_by = <<>> /\ q.order_by = <<>> /\ p.order_by = <<>>
      /\ a.where = own.where /\ q.where = own.where
      /\ p.where = Restricted(own.where, s.key, values)
  BY DEF AloneWithKey, Alone, DriverQuery, ProbeQuery, SideQuery, SideSelect, Needed
<1>3. a.select = IF own.select = <<"*">> THEN <<"*">> ELSE AllNamed(c, t, side)
  <2>1. a.select = IF own.select = <<"*">> THEN <<"*">> ELSE own.select \o <<s.key>> \o own.order_by
    BY DEF AloneWithKey, Alone
  <2> QED
    BY <2>1, NamedInOrder
<1>4. ToSet(<<>>) = {}
  BY ListsOfOne
<1>5. FieldError(c, s.dataset, s.key) = None
  BY KeysAreComparable
<1>6. /\ Selected(c, a) = Selected(c, q) /\ Selected(c, p) = Selected(c, q)
      /\ s.key \in Selected(c, q)
  <2>1. CASE own.select = <<"*">>
    <3>1. a.select = <<"*">> /\ q.select = <<"*">> /\ p.select = <<"*">>
      BY <1>2, <1>3, <2>1, SidesSelect
    <3>2. s.key \in FieldsOf(c, s.dataset)
      BY <1>5, PublicFields
    <3> HIDE DEF a, q, p
    <3> QED
      BY <1>1, <1>5, <3>1, <3>2 DEF Selected
  <2>2. CASE own.select # <<"*">>
    <3>1. /\ a.select # <<"*">> /\ q.select # <<"*">> /\ p.select = q.select
          /\ ToSet(a.select) = ToSet(q.select) /\ s.key \in ToSet(q.select)
      BY <1>2, <1>3, <2>2, SidesSelect
    <3> HIDE DEF a, q, p
    <3> QED
      BY <3>1 DEF Selected
  <2> QED
    BY <2>1, <2>2
<1>7. fields(p.where.terms) = fields(own.where.terms) \cup {s.key}
  <2> DEFINE k == s.key
             more == Restricted(own.where, k, values)
  <2>1. fields(more.terms) = fields(own.where.terms) \cup {k}
    <3> HIDE DEF k
    <3>1. ToSet(more.terms) = ToSet(own.where.terms) \cup {Keys(k, values)}
      BY <1>0
    <3>2. Keys(k, values).field = k
      BY DEF Keys
    <3> HIDE DEF more, own
    <3> QED
      BY <3>1, <3>2
  <2>2. p.where = more
    BY <1>2
  <2> HIDE DEF p, more, k
  <2>3. fields(p.where.terms) = fields(own.where.terms) \cup {k}
    BY <2>1, <2>2
  <2> QED
    BY <2>3 DEF k
<1> HIDE DEF a, q, p
<1>8. s.key \in UsedFields(c, q)
  BY <1>6 DEF UsedFields
<1>9. UsedFields(c, a) = UsedFields(c, q)
  BY <1>2, <1>4, <1>6 DEF UsedFields
<1>10. UsedFields(c, p) = UsedFields(c, q)
  <2>1. UsedFields(c, p) = {"id"} \cup Selected(c, q) \cup fields(p.where.terms) \cup {}
    BY <1>2, <1>4, <1>6 DEF UsedFields
  <2>2. UsedFields(c, q) = {"id"} \cup Selected(c, q) \cup fields(own.where.terms) \cup {}
    BY <1>2, <1>4, <1>6 DEF UsedFields
  <2> HIDE DEF fields
  <2> QED
    BY <1>6, <1>7, <2>1, <2>2
<1> QED
  BY <1>8, <1>9, <1>10 DEF a, q, p

\* A filter beyond the parser's limits is refused for that.
LEMMA TooLargeIsRefused ==
    ASSUME NEW q, q.select = <<"*">> \/ IsInjective(q.select), q.where.depth > MaxDepth \/ q.where.nodes > MaxTerms
    PROVE  ParseError(q) = "query_limit_invalid"
<1> DEFINE e3 == IF IsInjective(q.order_by) THEN None ELSE "query_shape_invalid"
           e4 == IF q.first < 1 THEN "query_limit_invalid" ELSE None
           codes == <<None, "query_limit_invalid", e3, e4>>
           wrong == {n \in DOMAIN codes : codes[n] # None}
<1>1. ParseError(q) = FirstError(codes)
  BY DEF ParseError
<1>2. DOMAIN codes = 1 .. 4 /\ codes[1] = None /\ codes[2] = "query_limit_invalid"
  OBVIOUS
<1>3. FirstError(codes) = IF wrong = {} THEN None ELSE codes[Min(wrong)]
  BY DEF FirstError
<1> HIDE DEF codes
<1>4. "query_limit_invalid" # None
  BY DEF None
<1>5. wrong \subseteq 1 .. 4 /\ 2 \in wrong /\ 1 \notin wrong
  BY <1>2, <1>4
<1> HIDE DEF wrong
<1>6. Min(wrong) \in wrong /\ \A n \in wrong : Min(wrong) <= n
  <2>1. wrong \subseteq Nat
    BY <1>5
  <2> QED
    BY <1>5, <2>1, LeastNumber
<1>7. Min(wrong) = 2
  <2>1. Min(wrong) \in 1 .. 4 /\ Min(wrong) <= 2 /\ Min(wrong) # 1
    BY <1>5, <1>6
  <2> QED
    BY <2>1
<1> QED
  BY <1>1, <1>2, <1>3, <1>5, <1>7

\* A list of keys is taken by binding if the type of the key takes each of them.
LEMMA KeysAreTaken ==
    ASSUME NEW c, NEW d, NEW key, NEW values, NEW max \in Nat,
           FieldError(c, d, key) = None, c.datasets[d][key].type \notin {"json", "bytes"},
           IsList(values), values # <<>>, Len(values) <= max
    PROVE  TermError(c, d, Keys(key, values), max) =
               IF ToSet(values) \subseteq Takes(c.datasets[d][key].type) THEN None ELSE "query_value_type_invalid"
<1> DEFINE keys == Keys(key, values)
           type == c.datasets[d][key].type
<1>1. /\ keys.semantic = FALSE /\ keys.field = key /\ keys.op = "in"
      /\ keys.value = [form |-> "list", of |-> values]
  BY DEF Keys
<1>2. Len(values) \in Nat
  BY ListsAreCounted
<1>3. ~(Len(values) > max)
  BY <1>2
<1> HIDE DEF keys, type
<1>4. Supports(keys.op, type)
  BY <1>1 DEF Supports, type
<1>5. ValueError(type, keys, max) = IF ToSet(values) \subseteq Takes(type) THEN None ELSE "query_value_type_invalid"
  BY <1>1, <1>3 DEF ValueError
<1> QED
  BY <1>1, <1>4, <1>5 DEF TermError, keys, type

\* The probing side is bound and resolved for any batch of keys that the type
\* of the key takes, unless its filter has no room for them; other batches are
\* refused for the type.
LEMMA ProbesAreBound ==
    ASSUME NEW c \in Catalogs, NEW t \in Traversals, Loads(c), TraversalErrors(c, t) = {},
           NEW side \in Ends, HasSample(KeyType(c, t, side)), NEW values, IsList(values), values # <<>>,
           Len(values) <= BatchSize
    PROVE  /\ ~HasRoom(Own(t, side).where) => ProbeErrors(c, t, side, values) = {"query_limit_invalid"}
           /\ HasRoom(Own(t, side).where) => ProbeErrors(c, t, side, values) \subseteq {None, "query_value_type_invalid"}
           /\ HasRoom(Own(t, side).where) /\ ToSet(values) \subseteq Takes(KeyType(c, t, side))
                  => ProbeErrors(c, t, side, values) = {None}
<1> DEFINE own == Own(t, side)
           s   == Side(c, t, side)
           q   == DriverQuery(c, t, side)
           p   == ProbeQuery(c, t, side, values)
           more == Restricted(own.where, s.key, values)
           keys == Keys(s.key, values)
<1>1. RelationshipError(c, t) = None /\ SideErrors(c, q) = {}
  BY PlannedSides
<1>2. IsQuery(own) /\ IsQuery(q) /\ IsQuery(p)
  BY <1>1, SidesAreQueries, TraversalAssumption DEF Own
<1>3. BindError(c, q, InternalPolicy) = None /\ ResolveErrors(c, q) = {}
  BY <1>1 DEF SideErrors
<1>4. BoundUnder(c, q, InternalPolicy)
  BY <1>2, <1>3, BindingIsOfAllParts
<1>5. /\ q.dataset = s.dataset /\ q.select = SideSelect(c, t, side) /\ q.where = own.where /\ q.order_by = <<>>
      /\ p.dataset = s.dataset /\ p.select = SideSelect(c, t, side) /\ p.where = more /\ p.order_by = <<>>
      /\ p.first = MaxProbe + 1 /\ p.quality = (t.root.quality /\ HasSemantic(more))
  BY DEF DriverQuery, ProbeQuery, SideQuery, SideSelect, Needed
<1>6. ToSet(more.terms) = ToSet(own.where.terms) \cup {keys}
  BY KeysAreAdded
<1>7. PlacementError(more) = PlacementError(own.where)
  BY KeysSearchNothing
<1>8. more.depth = (IF own.where = NoFilter THEN 1 ELSE own.where.depth + 1)
      /\ more.nodes = (IF own.where = NoFilter THEN 1 ELSE own.where.nodes + 2)
  BY DEF Restricted
<1>9. own.where.depth \in Nat /\ own.where.nodes \in Nat
  BY <1>2 DEF IsQuery
<1>10. /\ FieldError(c, s.dataset, s.key) = None /\ c.datasets[s.dataset][s.key].type = KeyType(c, t, side)
  BY <1>1, KeysAreComparable DEF KeyType
<1> DEFINE taken == ToSet(values) \subseteq Takes(KeyType(c, t, side))
<1> HIDE DEF own, q, p, more, keys, s, taken
<1>11. q.select = <<"*">> \/ IsInjective(q.select)
  BY <1>4, WellFormed DEF BoundUnder
<1>12. TermError(c, s.dataset, keys, InternalPolicy.values) = IF taken THEN None ELSE "query_value_type_invalid"
  <2>1. InternalPolicy.values \in Nat /\ Len(values) <= InternalPolicy.values
    <3>1. Len(values) \in Nat /\ BatchSize \in Nat /\ InternalPolicy.values \in Nat /\ BatchSize <= InternalPolicy.values
      BY ListsAreCounted, TraversalAssumption, BoundsOfTheSides
    <3> QED
      BY <3>1
  <2>2. c.datasets[s.dataset][s.key].type \notin {"json", "bytes"}
    BY <1>10 DEF HasSample
  <2> QED
    BY <1>10, <2>1, <2>2, KeysAreTaken DEF keys, taken
<1>13. ResolveErrors(c, p) = {}
  <2>1. UsedFields(c, p) = UsedFields(c, q)
    BY <1>1, SidesUseTheSame DEF p, q
  <2>2. keys.semantic = FALSE
    BY DEF keys, Keys
  <2>3. \A x : x.semantic => (x \in ToSet(p.where.terms) <=> x \in ToSet(q.where.terms))
    BY <1>5, <1>6, <2>2
  <2> QED
    BY <1>3, <1>5, <2>1, <2>3, ResolvedAlike
<1>14. HasRoom(own.where) <=> ~(more.depth > MaxDepth \/ more.nodes > MaxTerms)
  <2>1. MaxDepth \in Nat \ {0} /\ MaxTerms \in Nat \ {0}
    BY CatalogAssumption
  <2> HIDE DEF NoFilter
  <2>2. CASE own.where = NoFilter
    BY <1>8, <2>1, <2>2 DEF HasRoom
  <2>3. CASE own.where # NoFilter
    <3>1. HasRoom(own.where) <=> own.where.depth < MaxDepth /\ own.where.nodes + 2 <= MaxTerms
      BY <2>3 DEF HasRoom
    <3>2. more.depth = own.where.depth + 1 /\ more.nodes = own.where.nodes + 2
      BY <1>8, <2>3
    <3>3. \A a, b \in Nat : a < b <=> ~(a + 1 > b)
      OBVIOUS
    <3>4. \A a, b \in Nat : a + 2 <= b <=> ~(a + 2 > b)
      OBVIOUS
    <3> QED
      BY <1>9, <2>1, <3>1, <3>2, <3>3, <3>4
  <2> QED
    BY <2>2, <2>3
<1>15. ASSUME HasRoom(own.where) PROVE
          /\ ProbeErrors(c, t, side, values) \subseteq {None, "query_value_type_invalid"}
          /\ taken => ProbeErrors(c, t, side, values) = {None}
  <2>1. ParseError(p) = None
    <3>1. IsInjective(<<>>)
      BY DEF IsInjective
    <3>2. ~(MaxProbe + 1 < 1)
      BY TraversalAssumption
    <3> QED
      BY <1>5, <1>11, <1>14, <1>15, <3>1, <3>2, WellFormed
  <2>2. /\ p.dataset \in DOMAIN c.datasets
        /\ p.select = <<"*">> \/ \A f \in ToSet(p.select) : FieldError(c, p.dataset, f) = None
    BY <1>4, <1>5 DEF BoundUnder
  <2>3. \A x \in ToSet(p.where.terms) : TermError(c, p.dataset, x, InternalPolicy.values) =
                                           IF x = keys /\ ~taken THEN "query_value_type_invalid" ELSE None
    <3>1. \A x \in ToSet(own.where.terms) : TermError(c, p.dataset, x, InternalPolicy.values) = None
      BY <1>4, <1>5 DEF BoundUnder
    <3>2. TermError(c, p.dataset, keys, InternalPolicy.values) = IF taken THEN None ELSE "query_value_type_invalid"
      BY <1>5, <1>12
    <3>3. ToSet(p.where.terms) = ToSet(own.where.terms) \cup {keys}
      BY <1>5, <1>6
    <3>4. "query_value_type_invalid" # None
      BY DEF None
    <3> QED
      BY <3>1, <3>2, <3>3, <3>4
  <2>4. PlacementError(p.where) = None /\ \A f \in ToSet(p.order_by) : OrderError(c, p.dataset, f) = None
    BY <1>4, <1>5, <1>7, ListsOfOne DEF BoundUnder
  <2>5. ~(p.first > InternalPolicy.page)
    <3>1. MaxProbe + 1 \in Nat /\ InternalPolicy.page \in Nat /\ InternalPolicy.page >= MaxProbe + 1
      BY BoundsOfTheSides, TraversalAssumption
    <3> QED
      BY <1>5, <3>1
  <2>6. QualityError(p) = None
    BY <1>5 DEF QualityError, HasSemantic
  <2> DEFINE e == BindError(c, p, InternalPolicy)
  <2> HIDE DEF e
  <2>7. ASSUME taken PROVE e = None
    <3>1. \A x \in ToSet(p.where.terms) : TermError(c, p.dataset, x, InternalPolicy.values) = None
      BY <2>3, <2>7
    <3>2. BoundUnder(c, p, InternalPolicy)
      BY <2>1, <2>2, <2>4, <2>5, <2>6, <3>1 DEF BoundUnder
    <3> QED
      BY <1>2, <3>2, BindingIsOfAllParts DEF e
  <2>8. e \in {None, "query_value_type_invalid"}
    <3> SUFFICES ASSUME e # None PROVE e = "query_value_type_invalid"
      OBVIOUS
    <3>1. RefusedFor(c, p, InternalPolicy, e)
      BY <1>2, BindingIsOfAllParts DEF e
    <3>2. \E x \in ToSet(p.where.terms) : e = TermError(c, p.dataset, x, InternalPolicy.values)
      <4>1. /\ e # ParseError(p) /\ e # PlacementError(p.where) /\ e # QualityError(p)
            /\ p.select # <<"*">> => \A f \in ToSet(p.select) : e # FieldError(c, p.dataset, f)
            /\ \A f \in ToSet(p.order_by) : e # OrderError(c, p.dataset, f)
            /\ p.dataset \in DOMAIN c.datasets /\ ~(p.first > InternalPolicy.page)
        BY <2>1, <2>2, <2>4, <2>5, <2>6
      <4> QED
        BY <3>1, <4>1 DEF RefusedFor
    <3> QED
      BY <2>3, <3>2
  <2>9. SideErrors(c, p) = IF e = None THEN {} ELSE {e}
    BY <1>13 DEF SideErrors, e
  <2>10. ProbeErrors(c, t, side, values) = IF e = None THEN {None} ELSE {e}
    BY <2>9 DEF ProbeErrors, p
  <2> QED
    BY <2>7, <2>8, <2>10
<1>16. ASSUME ~HasRoom(own.where) PROVE ProbeErrors(c, t, side, values) = {"query_limit_invalid"}
  <2>1. ParseError(p) = "query_limit_invalid"
    BY <1>5, <1>11, <1>14, <1>16, TooLargeIsRefused
  <2>2. "query_limit_invalid" # None
    BY DEF None
  <2>3. BindError(c, p, InternalPolicy) = "query_limit_invalid"
    BY <2>1, <2>2 DEF BindError
  <2>4. SideErrors(c, p) = {"query_limit_invalid"}
    BY <2>2, <2>3 DEF SideErrors
  <2> QED
    BY <2>4 DEF ProbeErrors, p
<1> QED
  BY <1>15, <1>16 DEF own, taken

\* Sides that could be asked on their own drive the join.
LEMMA FitSidesArePlanned ==
    ASSUME NEW c \in Catalogs, NEW t \in Traversals, Loads(c),
           RelationshipError(c, t) = None, OrderErrors(c, t) = {}, NEW side \in Ends,
           BindError(c, Alone(c, t, side), UserPolicy) = None,
           ResolveErrors(c, AloneWithKey(c, t, side)) = {}
    PROVE  SideErrors(c, DriverQuery(c, t, side)) = {}
<1> DEFINE q == DriverQuery(c, t, side)
           a == AloneWithKey(c, t, side)
<1>1. BoundUnder(c, q, InternalPolicy) /\ IsQuery(q)
  BY DriversAreBound, SidesAreQueries
<1>2. UsedFields(c, a) = UsedFields(c, q)
  BY SidesUseTheSame
<1>3. a.dataset = q.dataset /\ a.where = q.where
  BY DEF AloneWithKey, Alone, DriverQuery, SideQuery
<1> HIDE DEF a, q
<1>4. ResolveErrors(c, a) = ResolveErrors(c, q)
  BY <1>2, <1>3, ResolvedAlike
<1>5. BindError(c, q, InternalPolicy) = None
  BY <1>1, BindingIsOfAllParts
<1> QED
  BY <1>4, <1>5 DEF SideErrors, a, q

\* Why a traversal may be refused.
IsTheCallers(c, t) ==
    \/ RelationshipError(c, t) # None
    \/ RepeatsInStep(t) \/ RepeatsInOrder(t)
    \/ ~IsPage(t.root.first) \/ OrderErrors(c, t) # {}
    \/ \E side \in Ends : \/ BindError(c, Alone(c, t, side), UserPolicy) # None
                          \/ ResolveErrors(c, AloneWithKey(c, t, side)) # {}

LEMMA RefusalsAreTheCallers ==
    ASSUME NEW c \in Catalogs, NEW t \in Traversals, Loads(c), TraversalErrors(c, t) # {}
    PROVE  IsTheCallers(c, t)
<1> SUFFICES ASSUME ~IsTheCallers(c, t) PROVE FALSE
  OBVIOUS
<1>1. \A side \in Ends : SideErrors(c, DriverQuery(c, t, side)) = {}
  BY FitSidesArePlanned DEF IsTheCallers
<1>2. TraversalErrors(c, t) = {}
  BY <1>1 DEF TraversalErrors, IsTheCallers, Ends
<1> QED
  BY <1>2

\* A sample of a type is among the values it takes.
LEMMA SamplesAreTaken ==
    ASSUME NEW type \in Types, HasSample(type)
    PROVE  /\ IsList(<<Sample(type)>>) /\ <<Sample(type)>> # <<>>
           /\ Len(<<Sample(type)>>) <= BatchSize /\ ToSet(<<Sample(type)>>) \subseteq Takes(type)
<1>1. Sample(type) \in Takes(type)
  BY DEF Types, HasSample, Sample, Takes
<1>2. BatchSize \in Nat \ {0}
  BY TraversalAssumption
<1> DEFINE x == Sample(type)
<1> HIDE DEF x
<1>3. IsList(<<x>>) /\ ToSet(<<x>>) = {x} /\ <<x>> # <<>> /\ Len(<<x>>) = 1
  BY ListsOfOne
<1>4. Len(<<x>>) <= BatchSize
  BY <1>2, <1>3
<1> QED
  BY <1>1, <1>3, <1>4 DEF x

\* The state of a join under way.
LEMMA JoinUnderWay ==
    ASSUME Gates, phase \in OfAJoin
    PROVE  /\ catalog \in Catalogs /\ Loads(catalog) /\ join.traversal \in Traversals
           /\ TraversalErrors(catalog, join.traversal) = {}
           /\ RelationshipError(catalog, join.traversal) = None
           /\ \A side \in Ends : /\ KeyType(catalog, join.traversal, side) = KeyType(catalog, join.traversal, "left")
                                 /\ KeyType(catalog, join.traversal, side) \in Types
           /\ join \in [traversal : Traversals, driver : {None} \cup Ends, key : {None} \cup Values]
<1>1. /\ catalog \in Catalogs /\ Loads(catalog) /\ TraversalErrors(catalog, join.traversal) = {}
      /\ join \in [traversal : Traversals, driver : {None} \cup Ends, key : {None} \cup Values]
  BY DEF Gates, CatalogIsChecked, JoinIsPlanned, OfAJoin, Early
<1>2. RelationshipError(catalog, join.traversal) = None
  BY <1>1, PlannedSides
<1> QED
  BY <1>1, <1>2, KeysAreComparable

\* A refusal to probe is that of the sample.
LEMMA ProbesAreRefusedForARule ==
    ASSUME Gates, NEW driver \in Ends, PlanProbe(driver), phase' = "refused"
    PROVE  \/ error' = "KeyError" /\ KeyType(catalog, join.traversal, Opposite(driver)) \in {"json", "bytes"}
           \/ error' = "query_limit_invalid" /\ ~HasRoom(Own(join.traversal, Opposite(driver)).where)
<1> DEFINE c      == catalog
           t      == join.traversal
           side   == Opposite(driver)
           type   == KeyType(c, t, side)
           values == <<Sample(type)>>
<1>1. /\ phase \in OfAJoin /\ side \in Ends
      /\ error' \in IF HasSample(type) THEN ProbeErrors(c, t, side, values) ELSE {"KeyError"}
      /\ error' # None
  BY DEF PlanProbe, OfAJoin, Opposite, Ends
<1>2. /\ c \in Catalogs /\ Loads(c) /\ t \in Traversals /\ TraversalErrors(c, t) = {}
      /\ type = KeyType(c, t, "left") /\ type \in Types
  BY <1>1, JoinUnderWay
<1> HIDE DEF side, values
<1>3. CASE HasSample(type)
  <2>1. /\ IsList(values) /\ values # <<>> /\ Len(values) <= BatchSize /\ ToSet(values) \subseteq Takes(type)
    BY <1>2, <1>3, SamplesAreTaken DEF values
  <2>2. /\ ~HasRoom(Own(t, side).where) => ProbeErrors(c, t, side, values) = {"query_limit_invalid"}
        /\ HasRoom(Own(t, side).where) => ProbeErrors(c, t, side, values) = {None}
    BY <1>1, <1>2, <1>3, <2>1, ProbesAreBound
  <2> QED
    BY <1>1, <1>3, <2>2 DEF side
<1>4. CASE ~HasSample(type)
  BY <1>1, <1>2, <1>4 DEF HasSample, side
<1> QED
  BY <1>3, <1>4

\* Plain columns of one type return keys that the type takes and that the other
\* side can hold too, apart from those that no filter can be written with.
LEMMA PlainKeysMeet ==
    ASSUME NEW type \in Types, HasSample(type), NEW a \in Plain(type), NEW b \in Plain(type),
           NEW value \in Returns(a), value \notin Unwritable(type), type = "id" => a = b
    PROVE  Wire(value) \in Takes(type) /\ \E w \in Returns(b) : Class(w) = Class(value)
<1>0. value # "nan" /\ value # "infinity" /\ (type = "id" => value # "blank")
  BY DEF Unwritable
<1>1. CASE type = "id"
  <2>1. a \in {"text", "uuid"} /\ a = b
    BY <1>1 DEF Plain
  <2>2. a = "text" => value = "text"
    BY <1>0, <1>1 DEF Returns
  <2>3. a = "uuid" => value = "UUID"
    BY DEF Returns
  <2>4. Wire(value) \in {"text", "uuid"}
    BY <2>1, <2>2, <2>3 DEF Wire
  <2> QED
    BY <1>1, <2>1, <2>4 DEF Takes
<1>2. CASE type \in {"string", "text"}
  <2>1. a = "text" /\ b = "text" /\ value \in {"text", "blank"}
    BY <1>2 DEF Plain, Returns
  <2>2. Wire(value) \in Takes(type)
    BY <1>2, <2>1 DEF Wire, Takes
  <2> QED
    BY <2>1, <2>2
<1>3. CASE type = "int"
  <2>1. a \in {"integer", "bigint"} /\ b \in {"integer", "bigint"}
    BY <1>3 DEF Plain
  <2>2. value = "int" /\ "int" \in Returns(b)
    BY <2>1 DEF Returns
  <2>3. Wire(value) \in Takes(type)
    BY <1>3, <2>2 DEF Wire, Takes
  <2> QED
    BY <2>2, <2>3
<1>4. CASE type = "float"
  <2>1. a \in {"integer", "bigint", "double precision"} /\ b \in {"integer", "bigint", "double precision"}
    BY <1>4 DEF Plain
  <2>2. value \in {"int", "float"}
    BY <1>0, <2>1 DEF Returns
  <2>3. Wire(value) \in Takes(type)
    BY <1>4, <2>2 DEF Wire, Takes
  <2>4. "int" \in Returns(b) \/ "float" \in Returns(b)
    BY <2>1 DEF Returns
  <2>5. Class("int") = "number" /\ Class("float") = "number" /\ Class(value) = "number"
    BY <2>2 DEF Class
  <2> QED
    BY <2>3, <2>4, <2>5
<1>5. CASE type = "bool"
  <2>1. a = "boolean" /\ b = "boolean"
    BY <1>5 DEF Plain
  <2>2. value = "bool"
    BY <2>1 DEF Returns
  <2>3. Wire(value) \in Takes(type)
    BY <1>5, <2>2 DEF Wire, Takes
  <2> QED
    BY <2>1, <2>3
<1>6. CASE type = "timestamp"
  <2>1. a = "timestamp" /\ b = "timestamp"
    BY <1>6 DEF Plain
  <2>2. value = "instant"
    BY <2>1 DEF Returns
  <2>3. Wire(value) \in Takes(type)
    BY <1>6, <2>2 DEF Wire, Takes
  <2> QED
    BY <2>1, <2>3
<1>7. CASE type = "uuid"
  <2>1. a = "uuid" /\ b = "uuid"
    BY <1>7 DEF Plain
  <2>2. value = "UUID"
    BY <2>1 DEF Returns
  <2>3. Wire(value) \in Takes(type)
    BY <1>7, <2>2 DEF Wire, Takes
  <2> QED
    BY <2>1, <2>3
<1> QED
  BY <1>1, <1>2, <1>3, <1>4, <1>5, <1>6, <1>7 DEF Types, HasSample

\* What is refused of a probe that PlanProbe or a batch asks for.
KnownProbeRefusal(c, db, t, driver, key, e) ==
    LET probe == Opposite(driver)
        type  == KeyType(c, t, probe)
    IN  \/ e = "KeyError" /\ key = None /\ type \in {"json", "bytes"}
        \/ e = "query_limit_invalid" /\ ~HasRoom(Own(t, probe).where)
        \/ e = "query_value_type_invalid" /\ key # None /\
               (key \in Unwritable(type) \/ KeyColumn(c, db, t, driver) \notin Plain(type))

\* A batch is refused for the value of its keys, or for the filter they join.
LEMMA BatchesAreRefusedForAValue ==
    ASSUME Gates, NEW value \in Values, Probe(value), phase' = "refused"
    PROVE  KnownProbeRefusal(catalog, database, join.traversal, join.driver, value, error')
<1> DEFINE c      == catalog
           t      == join.traversal
           driver == join.driver
           side   == Opposite(driver)
           type   == KeyType(c, t, side)
           column == KeyColumn(c, database, t, driver)
           keys   == [n \in 1 .. BatchSize |-> Wire(value)]
<1>1. /\ phase = "planned" /\ phase \in OfAJoin
      /\ value \in Returns(column)
      /\ error' \in ProbeErrors(c, t, side, keys) /\ error' # None
  BY DEF Probe, OfAJoin
<1>2. driver \in Ends /\ side \in Ends
  BY <1>1 DEF Gates, JoinIsPlanned, Opposite, Ends
<1>3. /\ c \in Catalogs /\ Loads(c) /\ t \in Traversals /\ TraversalErrors(c, t) = {}
      /\ type \in Types /\ HasSample(type)
  BY <1>1, <1>2, JoinUnderWay DEF Gates, JoinIsPlanned
<1>4. IsList(keys) /\ keys # <<>> /\ Len(keys) <= BatchSize /\ ToSet(keys) = {Wire(value)}
  <2> DEFINE wire == Wire(value)
             list == [n \in 1 .. BatchSize |-> wire]
  <2>1. IsList(list) /\ list # <<>> /\ Len(list) = BatchSize /\ ToSet(list) = {wire}
    <3> HIDE DEF wire
    <3> QED
      BY BatchesAreLists
  <2>2. BatchSize \in Nat /\ keys = list
    BY TraversalAssumption
  <2> HIDE DEF list
  <2> QED
    BY <2>1, <2>2
<1> HIDE DEF keys, side
<1>5. /\ ~HasRoom(Own(t, side).where) => ProbeErrors(c, t, side, keys) = {"query_limit_invalid"}
      /\ HasRoom(Own(t, side).where) => ProbeErrors(c, t, side, keys) \subseteq {None, "query_value_type_invalid"}
      /\ HasRoom(Own(t, side).where) /\ ToSet(keys) \subseteq Takes(type)
             => ProbeErrors(c, t, side, keys) = {None}
  BY <1>2, <1>3, <1>4, ProbesAreBound
<1>6. ASSUME value \notin Unwritable(type), column \in Plain(type) PROVE ToSet(keys) \subseteq Takes(type)
  <2>1. Wire(value) \in Takes(type)
    <3> HIDE DEF column, type
    <3> QED
      BY <1>1, <1>3, <1>6, PlainKeysMeet
  <2> QED
    BY <1>4, <2>1
<1>7. value # None
  BY DEF Values, Returns, None
<1>8. \/ error' = "query_limit_invalid" /\ ~HasRoom(Own(t, side).where)
      \/ error' = "query_value_type_invalid" /\ (value \in Unwritable(type) \/ column \notin Plain(type))
  <2> HIDE DEF type, column
  <2> QED
    BY <1>1, <1>5, <1>6
<1> QED
  BY <1>7, <1>8 DEF KnownProbeRefusal, side

\* A refusal to plan a probe is a known one.
LEMMA SamplesAreRefusedForARule ==
    ASSUME Gates, NEW driver \in Ends, PlanProbe(driver), phase' = "refused"
    PROVE  KnownProbeRefusal(catalog, database, join.traversal, driver, None, error')
BY ProbesAreRefusedForARule DEF KnownProbeRefusal

LEMMA RefusalsAreJust ==
    Gates /\ JoinRefusalsAreKnown /\ [TraversalNext]_traversal_vars => JoinRefusalsAreKnown'
<1> DEFINE Goal == phase' = "refused" /\ join' # Nothing =>
                        IF join'.driver = None THEN IsTheCallers(catalog', join'.traversal)
                        ELSE KnownProbeRefusal(catalog', database', join'.traversal, join'.driver, join'.key, error')
<1> SUFFICES ASSUME Gates, JoinRefusalsAreKnown, [TraversalNext]_traversal_vars
             PROVE  Goal
  BY DEF JoinRefusalsAreKnown, IsTheCallers, KnownProbeRefusal, Ends
<1>1. ASSUME CatalogStep PROVE Goal
  <2>1. phase \in Early \cup OfAQuery
    BY <1>1 DEF CatalogStep, Next, Load, Activate, Bind, Resolve, ResolveFails, Early, OfAQuery
  <2>2. join = Nothing
    BY <2>1 DEF Gates, QueryIsBound, JoinIsPlanned
  <2> QED
    BY <1>1, <2>2 DEF CatalogStep
<1>2. ASSUME NEW t \in Traversals, RefuseTraversal(t) PROVE Goal
  <2>1. /\ catalog \in Catalogs /\ Loads(catalog) /\ TraversalErrors(catalog, t) # {}
    BY <1>2 DEF RefuseTraversal, Gates, CatalogIsChecked
  <2>2. IsTheCallers(catalog, t)
    BY <2>1, RefusalsAreTheCallers
  <2>3. join'.traversal = t /\ join'.driver = None /\ catalog' = catalog
    BY <1>2 DEF RefuseTraversal, catalog_vars
  <2> QED
    BY <2>2, <2>3
<1>3. ASSUME NEW t \in Traversals, PlanSides(t) PROVE Goal
  BY <1>3 DEF PlanSides
<1>4. ASSUME NEW driver \in Ends, PlanProbe(driver) PROVE Goal
  <2>1. /\ phase = "sided" /\ phase \in OfAJoin /\ join' = [join EXCEPT !.driver = driver]
        /\ catalog' = catalog /\ database' = database
    BY <1>4 DEF PlanProbe, OfAJoin, catalog_vars
  <2>2. join'.traversal = join.traversal /\ join'.driver = driver /\ join'.key = None
    BY <2>1, JoinUnderWay DEF Gates, JoinIsPlanned
  <2>3. driver # None
    BY DEF Ends, None
  <2> QED
    BY <1>4, <2>1, <2>2, <2>3, SamplesAreRefusedForARule
<1>5. ASSUME NEW value \in Values, Probe(value) PROVE Goal
  <2>1. /\ phase = "planned" /\ phase \in OfAJoin /\ join' = [join EXCEPT !.key = value]
        /\ catalog' = catalog /\ database' = database
    BY <1>5 DEF Probe, OfAJoin, catalog_vars
  <2>2. /\ join'.traversal = join.traversal /\ join'.key = value
        /\ join'.driver = join.driver /\ join.driver \in Ends
    BY <2>1, JoinUnderWay DEF Gates, JoinIsPlanned
  <2>3. join'.driver # None
    BY <2>2 DEF Ends, None
  <2> QED
    BY <1>5, <2>1, <2>2, <2>3, BatchesAreRefusedForAValue
<1>6. ASSUME UNCHANGED traversal_vars PROVE Goal
  BY <1>6 DEF traversal_vars, vars, catalog_vars, JoinRefusalsAreKnown, IsTheCallers, KnownProbeRefusal, Ends
<1> HIDE DEF Goal
<1> QED
  BY <1>1, <1>2, <1>3, <1>4, <1>5, <1>6 DEF TraversalNext, Ends

\* A join is refused for what its caller asked, a batch of it for the value of a
\* key and never for the bounds of the join, and otherwise for no reason but the
\* two that are named: the KeyError of json and bytes keys, and a full filter.
THEOREM KnownJoinRefusals == TraversalSpec => []JoinRefusalsAreKnown
<1>1. TraversalInit => JoinRefusalsAreKnown
  BY DEF TraversalInit, Init, JoinRefusalsAreKnown
<1> QED
  BY <1>1, RefusalsAreJust, GatesHold, PTL DEF TraversalSpec

-----------------------------------------------------------------------------
(* Equal keys.                                                               *)

\* What a look-up of a key comes to.
LEMMA ProbesMeet ==
    ASSUME Gates, NEW value \in Values, Probe(value)
    PROVE  EqualKeysMeet'
<1> DEFINE c      == catalog
           t      == join.traversal
           driver == join.driver
           side   == Opposite(driver)
           type   == KeyType(c, t, side)
           col(x) == KeyColumn(c, database, t, x)
           keys   == [n \in 1 .. BatchSize |-> Wire(value)]
           left   == col("left")
           right  == col("right")
<1>1. /\ phase = "planned" /\ phase \in OfAJoin /\ UNCHANGED <<catalog, database>>
      /\ value \in Returns(col(driver)) /\ join' = [join EXCEPT !.key = value]
      /\ error' \in ProbeErrors(c, t, side, keys)
      /\ phase' = IF error' # None THEN "refused"
                  ELSE IF \E w \in Returns(col(side)) : Class(w) = Class(value) THEN "matched" ELSE "missed"
  BY DEF Probe, OfAJoin, catalog_vars
<1>2. /\ c \in Catalogs /\ Loads(c) /\ t \in Traversals /\ TraversalErrors(c, t) = {}
      /\ \A x \in Ends : KeyType(c, t, x) = KeyType(c, t, "left") /\ KeyType(c, t, x) \in Types
      /\ driver \in Ends /\ side \in Ends /\ {driver, side} = Ends
      /\ HasSample(type)
      /\ join'.traversal = t /\ join'.driver = driver /\ join'.key = value
  <2>1. driver \in Ends /\ HasSample(type)
    BY <1>1 DEF Gates, JoinIsPlanned
  <2>2. side \in Ends /\ {driver, side} = Ends
    BY <2>1 DEF Opposite, Ends
  <2> QED
    BY <1>1, <2>1, <2>2, JoinUnderWay
<1> HIDE DEF col, keys, side
<1>3. \A x \in Ends : KeyType(c, t, x) = type
  BY <1>2
<1> DEFINE Meets == \/ phase' = "matched"
                    \/ value \in Unwritable(type)
                    \/ phase' = "refused" /\ ~HasRoom(Own(t, side).where)
                    \/ left \notin Plain(type) \/ right \notin Plain(type)
                    \/ type = "id" /\ left # right
<1>4. Meets => EqualKeysMeet'
  <2>1. /\ KeyType(c, t, "left") = type /\ KeyType(c, t, "right") = type
        /\ \A x \in {"left", "right"} : KeyType(c, t, x) = type
    BY <1>3 DEF Ends
  <2>2. /\ join'.traversal = t /\ join'.driver = driver /\ join'.key = value
        /\ catalog' = c /\ database' = database
    BY <1>1, <1>2
  <2>3. left = KeyColumn(c, database, t, "left") /\ right = KeyColumn(c, database, t, "right")
    BY DEF col
  <2>4. side = Opposite(driver)
    BY DEF side
  <2> HIDE DEF left, right, type, driver, t, c
  <2> SUFFICES ASSUME Meets, join' # Nothing, join'.key # None
               PROVE  \/ phase' = "matched"
                      \/ \E x \in {"left", "right"} : value \in Unwritable(KeyType(c, t, x))
                      \/ phase' = "refused" /\ ~HasRoom(Own(t, side).where)
                      \/ left \notin Plain(KeyType(c, t, "left")) \/ right \notin Plain(KeyType(c, t, "right"))
                      \/ "id" \in {KeyType(c, t, x) : x \in {"left", "right"}} /\ left # right
    BY <2>2, <2>3, <2>4 DEF EqualKeysMeet
  <2>5. type = "id" => "id" \in {KeyType(c, t, x) : x \in {"left", "right"}}
    BY <2>1
  <2> QED
    BY <2>1, <2>2, <2>5
<1>5. SUFFICES ASSUME value \notin Unwritable(type), left \in Plain(type), right \in Plain(type),
                      type = "id" => left = right
               PROVE  phase' = "matched" \/ (phase' = "refused" /\ ~HasRoom(Own(t, side).where))
  <2> HIDE DEF left, right, type, t
  <2> QED
    BY <1>4
<1>6. col(driver) \in Plain(type) /\ col(side) \in Plain(type) /\ (type = "id" => col(driver) = col(side))
  BY <1>2, <1>5 DEF Ends
<1>7. Wire(value) \in Takes(type) /\ \E w \in Returns(col(side)) : Class(w) = Class(value)
  BY <1>1, <1>2, <1>5, <1>6, PlainKeysMeet
<1>8. IsList(keys) /\ keys # <<>> /\ Len(keys) <= BatchSize /\ ToSet(keys) \subseteq Takes(type)
  <2> DEFINE wire == Wire(value)
             list == [n \in 1 .. BatchSize |-> wire]
  <2>1. IsList(list) /\ list # <<>> /\ Len(list) = BatchSize /\ ToSet(list) = {wire}
    <3> HIDE DEF wire
    <3> QED
      BY BatchesAreLists
  <2>2. BatchSize \in Nat
    BY TraversalAssumption
  <2>3. keys = list
    BY DEF keys
  <2> HIDE DEF list
  <2> QED
    BY <1>7, <2>1, <2>2, <2>3
<1>9. /\ ~HasRoom(Own(t, side).where) => ProbeErrors(c, t, side, keys) = {"query_limit_invalid"}
      /\ HasRoom(Own(t, side).where) => ProbeErrors(c, t, side, keys) = {None}
  BY <1>1, <1>2, <1>8, ProbesAreBound
<1>10. "query_limit_invalid" # None
  BY DEF None
<1> QED
  BY <1>1, <1>7, <1>9, <1>10

LEMMA KeysStillMeet == Gates /\ EqualKeysMeet /\ [TraversalNext]_traversal_vars => EqualKeysMeet'
<1> SUFFICES ASSUME Gates, EqualKeysMeet, [TraversalNext]_traversal_vars PROVE EqualKeysMeet'
  OBVIOUS
<1>1. ASSUME CatalogStep PROVE join' = Nothing
  <2>1. phase \in Early \cup OfAQuery
    BY <1>1 DEF CatalogStep, Next, Load, Activate, Bind, Resolve, ResolveFails, Early, OfAQuery
  <2> QED
    BY <1>1, <2>1 DEF CatalogStep, Gates, QueryIsBound, JoinIsPlanned
<1>2. ASSUME NEW t \in Traversals, RefuseTraversal(t) \/ PlanSides(t) PROVE join'.key = None
  BY <1>2 DEF RefuseTraversal, PlanSides
<1>3. ASSUME NEW driver \in Ends, PlanProbe(driver) PROVE join'.key = None
  <2>1. phase = "sided" /\ phase \in OfAJoin /\ join' = [join EXCEPT !.driver = driver]
    BY <1>3 DEF PlanProbe, OfAJoin
  <2>2. join.key = None
    BY <2>1 DEF Gates, JoinIsPlanned
  <2> QED
    BY <2>1, <2>2, JoinUnderWay
<1>4. ASSUME NEW value \in Values, Probe(value) PROVE EqualKeysMeet'
  BY <1>4, ProbesMeet
<1>5. ASSUME UNCHANGED traversal_vars PROVE EqualKeysMeet'
  BY <1>5 DEF traversal_vars, vars, catalog_vars, EqualKeysMeet
<1>6. join' = Nothing \/ join'.key = None => EqualKeysMeet'
  BY DEF EqualKeysMeet
<1> QED
  BY <1>1, <1>2, <1>3, <1>4, <1>5, <1>6 DEF TraversalNext, Ends

\* Over columns of plain values, a key finds its equal whichever side drives.
THEOREM KeysMeet == TraversalSpec => []EqualKeysMeet
<1>1. TraversalInit => EqualKeysMeet
  BY DEF TraversalInit, Init, EqualKeysMeet
<1> QED
  BY <1>1, KeysStillMeet, GatesHold, PTL DEF TraversalSpec

-----------------------------------------------------------------------------
(* The description.                                                          *)

\* What it is to keep to the description, name by name.
LEMMA KeepingToMeans ==
    ASSUME NEW c, NEW d, NEW q
    PROVE  KeepsTo(c, d, q) <=>
               /\ d \in DOMAIN c.datasets
               /\ q.select = <<"*">> \/ \A f \in ToSet(q.select) : FieldError(c, d, f) = None
               /\ \A f \in ToSet(q.order_by) : FieldError(c, d, f) = None
               /\ \A x \in ToSet(q.where.terms) : FieldError(c, d, x.field) = None
               /\ \A x \in ToSet(q.where.terms) : x.semantic => c.datasets[d][x.field].semantic_eligible
<1> DEFINE chosen == IF q.select = <<"*">> THEN {} ELSE ToSet(q.select)
           fields == {x.field : x \in ToSet(q.where.terms)}
           meant  == {x.field : x \in {u \in ToSet(q.where.terms) : u.semantic}}
<1>1. \A f : f \in Listed(c, d) <=> FieldError(c, d, f) = None
  BY PublicFields DEF Listed
<1>2. \A f : f \in MarkedSemantic(c, d) <=> f \in Listed(c, d) /\ c.datasets[d][f].semantic_eligible
  BY DEF MarkedSemantic, Listed
<1>3. KeepsTo(c, d, q) <=> /\ d \in DOMAIN c.datasets
                           /\ chosen \cup ToSet(q.order_by) \cup fields \subseteq Listed(c, d)
                           /\ meant \subseteq MarkedSemantic(c, d)
  BY DEF KeepsTo
<1>4. chosen \subseteq Listed(c, d) <=> q.select = <<"*">> \/ \A f \in ToSet(q.select) : FieldError(c, d, f) = None
  BY <1>1
<1>5. fields \subseteq Listed(c, d) <=> \A x \in ToSet(q.where.terms) : FieldError(c, d, x.field) = None
  BY <1>1
<1>6. meant \subseteq MarkedSemantic(c, d) <=>
          \A x \in ToSet(q.where.terms) : x.semantic => x.field \in MarkedSemantic(c, d)
  OBVIOUS
<1>7. ToSet(q.order_by) \subseteq Listed(c, d) <=> \A f \in ToSet(q.order_by) : FieldError(c, d, f) = None
  BY <1>1
<1> HIDE DEF chosen, fields, meant
<1>8. KeepsTo(c, d, q) <=> /\ d \in DOMAIN c.datasets
                           /\ q.select = <<"*">> \/ \A f \in ToSet(q.select) : FieldError(c, d, f) = None
                           /\ \A f \in ToSet(q.order_by) : FieldError(c, d, f) = None
                           /\ \A x \in ToSet(q.where.terms) : FieldError(c, d, x.field) = None
                           /\ \A x \in ToSet(q.where.terms) : x.semantic => x.field \in MarkedSemantic(c, d)
  BY <1>3, <1>4, <1>5, <1>6, <1>7
<1> QED
  BY <1>1, <1>2, <1>8

\* The names of a query that are of its dataset and public.
NamesArePublic(c, q) ==
    /\ q.dataset \in DOMAIN c.datasets
    /\ q.select = <<"*">> \/ \A f \in ToSet(q.select) : FieldError(c, q.dataset, f) = None
    /\ \A f \in ToSet(q.order_by) : FieldError(c, q.dataset, f) = None
    /\ \A x \in ToSet(q.where.terms) : FieldError(c, q.dataset, x.field) = None

\* A query that names nothing else is not refused for its names.
LEMMA PublicNamesAreBound ==
    ASSUME NEW c, NEW q, NEW policy, IsQuery(q), NamesArePublic(c, q)
    PROVE  BindError(c, q, policy) \notin RefusedNames
<1> DEFINE e == BindError(c, q, policy)
<1>1. /\ {None, "query_shape_invalid", "query_limit_invalid", "query_operator_not_supported",
          "query_value_type_invalid", "query_expression_invalid"} \cap RefusedNames = {}
  BY DEF RefusedNames, None
<1>2. ASSUME e # None PROVE RefusedFor(c, q, policy, e)
  BY <1>2, BindingIsOfAllParts
<1>3. ParseError(q) \notin RefusedNames
  BY <1>1, ParseCodes
<1>4. PlacementError(q.where) \notin RefusedNames
  BY <1>1 DEF PlacementError
<1>5. ASSUME NEW f \in ToSet(q.order_by) PROVE OrderError(c, q.dataset, f) \notin RefusedNames
  BY <1>1, <1>5 DEF OrderError, NamesArePublic
<1>6. ASSUME NEW x \in ToSet(q.where.terms) PROVE TermError(c, q.dataset, x, policy.values) \notin RefusedNames
  <2>1. FieldError(c, q.dataset, x.field) = None
    BY DEF NamesArePublic
  <2>2. ValueError(c.datasets[q.dataset][x.field].type, x, policy.values) \notin RefusedNames
    BY <1>1 DEF ValueError
  <2> QED
    BY <1>1, <2>1, <2>2 DEF TermError
<1>7. q.select # <<"*">> => \A f \in ToSet(q.select) : FieldError(c, q.dataset, f) = None
  BY DEF NamesArePublic
<1> HIDE DEF e
<1>8. e \notin RefusedNames
  <2>1. CASE e = None
    BY <1>1, <2>1
  <2>2. CASE e # None
    <3>1. RefusedFor(c, q, policy, e) /\ q.dataset \in DOMAIN c.datasets
      BY <1>2, <2>2 DEF NamesArePublic
    <3>0. QualityError(q) \in {None, "query_limit_invalid"}
      BY DEF QualityError
    <3>2. \/ e = ParseError(q)
          \/ \E x \in ToSet(q.where.terms) : e = TermError(c, q.dataset, x, policy.values)
          \/ e = PlacementError(q.where)
          \/ \E f \in ToSet(q.order_by) : e = OrderError(c, q.dataset, f)
          \/ e = "query_limit_invalid"
      BY <1>7, <2>2, <3>0, <3>1 DEF RefusedFor
    <3> QED
      BY <1>1, <1>3, <1>4, <1>5, <1>6, <3>2
  <2> QED
    BY <2>1, <2>2
<1> QED
  BY <1>8 DEF e

\* Nor is a side of a join.
LEMMA PublicSidesArePlanned ==
    ASSUME NEW c, NEW q, Loads(c), IsQuery(q), NamesArePublic(c, q)
    PROVE  SideErrors(c, q) \cap RefusedNames = {}
<1> DEFINE e == BindError(c, q, InternalPolicy)
<1>1. e \notin RefusedNames
  BY PublicNamesAreBound
<1>2. e = None => ResolveErrors(c, q) \subseteq {"source_logical_id_unavailable"}
  BY BindingIsOfAllParts, BoundQueriesResolve
<1>3. "source_logical_id_unavailable" \notin RefusedNames
  BY DEF RefusedNames
<1>4. SideErrors(c, q) = IF e # None THEN {e} ELSE ResolveErrors(c, q)
  BY DEF SideErrors
<1> HIDE DEF e
<1> QED
  BY <1>1, <1>2, <1>3, <1>4

\* A query that is bound keeps to the description.
LEMMA BoundQueriesKeep ==
    ASSUME NEW c, NEW q, NEW policy, BoundUnder(c, q, policy)
    PROVE  KeepsTo(c, q.dataset, q)
<1>1. ASSUME NEW x \in ToSet(q.where.terms)
      PROVE  /\ FieldError(c, q.dataset, x.field) = None
             /\ x.semantic => c.datasets[q.dataset][x.field].semantic_eligible
  <2>1. TermError(c, q.dataset, x, policy.values) = None
    BY DEF BoundUnder
  <2> QED
    BY <2>1 DEF TermError, None
<1>2. ASSUME NEW f \in ToSet(q.order_by) PROVE FieldError(c, q.dataset, f) = None
  BY DEF BoundUnder, OrderError
<1>3. /\ q.dataset \in DOMAIN c.datasets
      /\ q.select = <<"*">> \/ \A f \in ToSet(q.select) : FieldError(c, q.dataset, f) = None
  BY DEF BoundUnder
<1> QED
  BY <1>1, <1>2, <1>3, KeepingToMeans

\* Of a query that keeps to it, only an order or a condition on values can be
\* unsupported, or a search of what is not text.
LEMMA SearchesAreSupported ==
    ASSUME NEW c, NEW q, NEW policy, IsQuery(q), KeepsTo(c, q.dataset, q),
           BindError(c, q, policy) = "query_operator_not_supported"
    PROVE  \/ q.order_by # <<>>
           \/ \E x \in ToSet(q.where.terms) : ~x.semantic \/ TypeOf(c, q, x) \notin {"string", "text"}
<1> DEFINE e == BindError(c, q, policy)
<1>1. RefusedFor(c, q, policy, e)
  <2>1. e # None
    BY DEF None
  <2> QED
    BY <2>1, BindingIsOfAllParts
<1>2. /\ q.select = <<"*">> \/ \A f \in ToSet(q.select) : FieldError(c, q.dataset, f) = None
      /\ \A x \in ToSet(q.where.terms) : FieldError(c, q.dataset, x.field) = None
      /\ \A x \in ToSet(q.where.terms) : x.semantic => c.datasets[q.dataset][x.field].semantic_eligible
  BY KeepingToMeans
<1>3. ParseError(q) # e
  BY ParseCodes DEF None
<1>4. PlacementError(q.where) # e /\ QualityError(q) # e
  BY DEF PlacementError, QualityError, None
<1>5. e = "query_operator_not_supported" /\ e # None
  BY DEF None
<1> HIDE DEF e
<1>6. \/ \E x \in ToSet(q.where.terms) : e = TermError(c, q.dataset, x, policy.values)
      \/ \E f \in ToSet(q.order_by) : e = OrderError(c, q.dataset, f)
  BY <1>1, <1>2, <1>3, <1>4, <1>5 DEF RefusedFor
<1>7. ASSUME NEW f \in ToSet(q.order_by) PROVE q.order_by # <<>>
  BY <1>7, ListsOfOne
<1>8. ASSUME NEW x \in ToSet(q.where.terms), e = TermError(c, q.dataset, x, policy.values),
             x.semantic, TypeOf(c, q, x) \in {"string", "text"}
      PROVE  FALSE
  BY <1>2, <1>5, <1>8 DEF TermError, TypeOf
<1> QED
  BY <1>6, <1>7, <1>8

-----------------------------------------------------------------------------
(* Steps that follow the description.                                        *)

\* A planned step follows the description.
LEMMA PlannedStepsFollow ==
    ASSUME NEW c \in Catalogs, NEW t \in Traversals, Loads(c), TraversalErrors(c, t) = {}
    PROVE  FollowsAsTold(c, t)
<1> DEFINE n    == Min(Named(c, t))
           rel  == c.relationships[n]
           i    == Comparison(rel)
           ends == IF t.direction = "forward" THEN <<rel.from, rel.to>> ELSE <<rel.to, rel.from>>
<1>1. RelationshipError(c, t) = None /\ OrderErrors(c, t) = {}
      /\ \A side \in Ends : SideErrors(c, DriverQuery(c, t, side)) = {}
  BY PlannedSides
<1>2. /\ n \in Named(c, t) /\ rel = Relationship(c, t) /\ StartsAt(rel, t) /\ FieldEqualities(rel) # {}
      /\ \A side \in Ends : FieldError(c, Side(c, t, side).dataset, Side(c, t, side).key) = None
  BY <1>1, KeysAreComparable DEF Relationship
<1>3. t.direction \in {"forward", "reverse"}
  BY TraversalAssumption
<1>4. /\ Side(c, t, "left") = IF t.direction = "forward" THEN [dataset |-> rel.from, key |-> i.from.field]
                              ELSE [dataset |-> rel.to, key |-> i.to.field]
      /\ Side(c, t, "right") = IF t.direction = "forward" THEN [dataset |-> rel.to, key |-> i.to.field]
                               ELSE [dataset |-> rel.from, key |-> i.from.field]
  BY <1>2 DEF Side
<1>5. FieldError(c, rel.from, i.from.field) = None /\ FieldError(c, rel.to, i.to.field) = None
  BY <1>2, <1>4 DEF Ends
<1>6. IsTraversable(c, rel)
  BY <1>2, <1>5, PublicFields DEF IsTraversable, IsPublic
<1>7. /\ ends[1] = Side(c, t, "left").dataset /\ ends[2] = Side(c, t, "right").dataset
      /\ t.direction = "forward" \/ IsReversible(rel)
      /\ t.root.dataset = ends[1]
  BY <1>2, <1>3, <1>4 DEF StartsAt, IsReversible
<1>8. ASSUME NEW side \in Ends PROVE KeepsTo(c, Side(c, t, side).dataset, Own(t, side))
  <2> DEFINE own == Own(t, side)
             d   == Side(c, t, side).dataset
             q   == DriverQuery(c, t, side)
  <2>1. BoundUnder(c, q, InternalPolicy)
    <3>1. BindError(c, q, InternalPolicy) = None
      BY <1>1 DEF SideErrors
    <3>2. IsQuery(q)
      BY <1>1, SidesAreQueries
    <3> QED
      BY <3>1, <3>2, BindingIsOfAllParts
  <2>2. q.dataset = d /\ q.select = SideSelect(c, t, side) /\ q.where = own.where
    BY DEF DriverQuery, SideQuery, SideSelect, Needed
  <2> HIDE DEF q
  <2>3. KeepsTo(c, d, q)
    BY <2>1, <2>2, BoundQueriesKeep
  <2>4. /\ d \in DOMAIN c.datasets
        /\ q.select = <<"*">> \/ \A f \in ToSet(q.select) : FieldError(c, d, f) = None
        /\ \A x \in ToSet(own.where.terms) : FieldError(c, d, x.field) = None
        /\ \A x \in ToSet(own.where.terms) : x.semantic => c.datasets[d][x.field].semantic_eligible
    BY <2>2, <2>3, KeepingToMeans
  <2>5. own.select = <<"*">> \/ \A f \in ToSet(own.select) : FieldError(c, d, f) = None
    BY <1>1, <2>2, <2>4, SidesSelect
  <2>6. \A f \in ToSet(own.order_by) : FieldError(c, d, f) = None
    BY <1>1, OrdersAreFit
  <2> QED
    BY <2>4, <2>5, <2>6, KeepingToMeans
<1>9. KeepsTo(c, ends[1], t.root) /\ KeepsTo(c, ends[2], t.step)
  <2>1. /\ KeepsTo(c, Side(c, t, "left").dataset, Own(t, "left"))
        /\ KeepsTo(c, Side(c, t, "right").dataset, Own(t, "right"))
    BY <1>8 DEF Ends
  <2> HIDE DEF ends
  <2> QED
    BY <1>7, <2>1 DEF Own
<1> QED
  BY <1>2, <1>6, <1>7, <1>9 DEF FollowsAsTold

\* A step that follows it, by a name of one relationship, has its relationship,
\* and both sides keep to the description.
LEMMA FollowersHaveSides ==
    ASSUME NEW c \in Catalogs, NEW t \in Traversals, Loads(c), Cardinality(Named(c, t)) < 2, FollowsAsTold(c, t)
    PROVE  /\ RelationshipError(c, t) = None
           /\ \A side \in Ends : KeepsTo(c, Side(c, t, side).dataset, Own(t, side))
<1>1. PICK n \in Named(c, t) :
          LET rel  == c.relationships[n]
              ends == IF t.direction = "forward" THEN <<rel.from, rel.to>> ELSE <<rel.to, rel.from>>
          IN  /\ IsTraversable(c, rel)
              /\ t.direction = "forward" \/ IsReversible(rel)
              /\ t.root.dataset = ends[1]
              /\ KeepsTo(c, ends[1], t.root) /\ KeepsTo(c, ends[2], t.step)
  BY DEF FollowsAsTold
<1> DEFINE rel == c.relationships[n]
           i   == Comparison(rel)
<1>2. Named(c, t) = {n} /\ n \in Nat
  <2> DEFINE S == Named(c, t)
             L == Len(c.relationships)
  <2>1. L \in Nat /\ S \subseteq 1 .. L
    <3>1. IsList(c.relationships)
      BY CatalogAssumption DEF IsCatalog
    <3> QED
      BY <3>1, ListsAreCounted DEF Named
  <2> HIDE DEF S, L
  <2>2. IsFiniteSet(S) /\ Cardinality(S) \in Nat
    BY <2>1, PlacesAreCounted
  <2>3. n \in S /\ Cardinality(S) < 2
    BY DEF S
  <2>4. Cardinality(S) # 0
    BY <2>2, <2>3, FS_EmptySet
  <2>5. Cardinality(S) = 1
    BY <2>2, <2>3, <2>4
  <2>6. \E x : S = {x}
    BY <2>2, <2>5, FS_Singleton
  <2>7. S = {n}
    BY <2>3, <2>6
  <2> QED
    BY <2>1, <2>3, <2>7 DEF S
<1>3. Min(Named(c, t)) = n
  <2>1. Min({n}) \in {n}
    BY <1>2, LeastNumber
  <2> QED
    BY <1>2, <2>1
<1>4. Relationship(c, t) = rel
  BY <1>3 DEF Relationship
<1>5. t.direction \in {"forward", "reverse"}
  BY TraversalAssumption
<1>6. /\ Side(c, t, "left") = IF t.direction = "forward" THEN [dataset |-> rel.from, key |-> i.from.field]
                              ELSE [dataset |-> rel.to, key |-> i.to.field]
      /\ Side(c, t, "right") = IF t.direction = "forward" THEN [dataset |-> rel.to, key |-> i.to.field]
                               ELSE [dataset |-> rel.from, key |-> i.from.field]
  BY <1>4 DEF Side
<1>7. /\ FieldEqualities(rel) # {}
      /\ FieldError(c, rel.from, i.from.field) = None /\ FieldError(c, rel.to, i.to.field) = None
  BY <1>1, PublicFields DEF IsTraversable, IsPublic
<1>8. StartsAt(rel, t)
  BY <1>1, <1>5 DEF StartsAt, IsReversible
<1>9. \A side \in Ends : FieldError(c, Side(c, t, side).dataset, Side(c, t, side).key) = None
  BY <1>6, <1>7 DEF Ends
<1>10. RelationshipError(c, t) = None
  BY <1>2, <1>4, <1>7, <1>8, <1>9 DEF RelationshipError, Ends
<1>11. /\ KeepsTo(c, Side(c, t, "left").dataset, t.root)
       /\ KeepsTo(c, Side(c, t, "right").dataset, t.step)
  BY <1>1, <1>6
<1> QED
  BY <1>10, <1>11 DEF Ends, Own

\* And neither the sides nor the order are refused for a name.
LEMMA FollowersAreNotRefused ==
    ASSUME NEW c \in Catalogs, NEW t \in Traversals, Loads(c), Cardinality(Named(c, t)) < 2, FollowsAsTold(c, t)
    PROVE  /\ RelationshipError(c, t) = None /\ OrderErrors(c, t) = {}
           /\ \A side \in Ends : SideErrors(c, DriverQuery(c, t, side)) \cap RefusedNames = {}
           /\ \A side \in Ends : \A values :
                  IsList(values) => SideErrors(c, ProbeQuery(c, t, side, values)) \cap RefusedNames = {}
<1>1. /\ RelationshipError(c, t) = None
      /\ \A side \in Ends : KeepsTo(c, Side(c, t, side).dataset, Own(t, side))
  BY FollowersHaveSides
<1>2. ASSUME NEW side \in Ends
      PROVE  /\ Side(c, t, side).dataset \in DOMAIN c.datasets
             /\ Own(t, side).select = <<"*">> \/
                    \A f \in ToSet(Own(t, side).select) : FieldError(c, Side(c, t, side).dataset, f) = None
             /\ \A f \in ToSet(Own(t, side).order_by) : FieldError(c, Side(c, t, side).dataset, f) = None
             /\ \A x \in ToSet(Own(t, side).where.terms) : FieldError(c, Side(c, t, side).dataset, x.field) = None
             /\ FieldError(c, Side(c, t, side).dataset, Side(c, t, side).key) = None
  BY <1>1, KeepingToMeans, KeysAreComparable
<1>3. OrderErrors(c, t) = {}
  BY <1>2 DEF OrderErrors, Ends
<1>4. ASSUME NEW side \in Ends, NEW q, IsQuery(q), q.dataset = Side(c, t, side).dataset,
             q.select = SideSelect(c, t, side), q.order_by = <<>>,
             \A x \in ToSet(q.where.terms) : x \in ToSet(Own(t, side).where.terms) \/ x.field = Side(c, t, side).key
      PROVE  SideErrors(c, q) \cap RefusedNames = {}
  <2>1. q.select = <<"*">> \/ \A f \in ToSet(q.select) : FieldError(c, q.dataset, f) = None
    BY <1>1, <1>2, <1>4, SidesSelect
  <2>2. \A x \in ToSet(q.where.terms) : FieldError(c, q.dataset, x.field) = None
    BY <1>2, <1>4
  <2>3. ToSet(q.order_by) = {}
    BY <1>4, ListsOfOne
  <2>4. NamesArePublic(c, q)
    BY <1>2, <1>4, <2>1, <2>2, <2>3 DEF NamesArePublic
  <2> QED
    BY <1>4, <2>4, PublicSidesArePlanned
<1>5. ASSUME NEW side \in Ends PROVE SideErrors(c, DriverQuery(c, t, side)) \cap RefusedNames = {}
  <2> DEFINE q == DriverQuery(c, t, side)
  <2>1. /\ q.dataset = Side(c, t, side).dataset /\ q.select = SideSelect(c, t, side) /\ q.order_by = <<>>
        /\ q.where = Own(t, side).where
    BY DEF DriverQuery, SideQuery, SideSelect, Needed
  <2>2. IsQuery(q)
    BY <1>1, SidesAreQueries
  <2> HIDE DEF q
  <2>3. SideErrors(c, q) \cap RefusedNames = {}
    BY <1>4, <2>1, <2>2
  <2> QED
    BY <2>3 DEF q
<1>6. ASSUME NEW side \in Ends, NEW values, IsList(values)
      PROVE  SideErrors(c, ProbeQuery(c, t, side, values)) \cap RefusedNames = {}
  <2> DEFINE q    == ProbeQuery(c, t, side, values)
             key  == Side(c, t, side).key
             keys == Keys(key, values)
             terms == Own(t, side).where.terms
  <2>1. /\ q.dataset = Side(c, t, side).dataset /\ q.select = SideSelect(c, t, side) /\ q.order_by = <<>>
        /\ q.where = Restricted(Own(t, side).where, key, values)
    BY DEF ProbeQuery, SideQuery, SideSelect, Needed
  <2>2. IsQuery(q)
    BY <1>1, <1>6, SidesAreQueries
  <2>3. ToSet(q.where.terms) = ToSet(terms) \cup {keys} /\ keys.field = key
    <3>1. ToSet(Restricted(Own(t, side).where, key, values).terms) = ToSet(terms) \cup {keys}
      BY KeysAreAdded
    <3>2. keys.field = key
      BY DEF Keys
    <3> HIDE DEF q, key, keys, terms
    <3> QED
      BY <2>1, <3>1, <3>2
  <2> HIDE DEF q, keys
  <2>4. \A x \in ToSet(q.where.terms) : x \in ToSet(Own(t, side).where.terms) \/ x.field = Side(c, t, side).key
    BY <2>3
  <2>5. SideErrors(c, q) \cap RefusedNames = {}
    BY <1>4, <2>1, <2>2, <2>4
  <2> QED
    BY <2>5 DEF q
<1> QED
  BY <1>1, <1>3, <1>5, <1>6

-----------------------------------------------------------------------------
(* What an agent is told, and what is refused.                               *)

\* The description as a query meets it, and as a traversal does.
QueryIsTold ==
    request # Nothing =>
        /\ phase \in OfAQuery => KeepsTo(catalog, request.dataset, request)
        /\ KeepsTo(catalog, request.dataset, request) /\ phase = "refused" =>
               /\ error \notin RefusedNames
               /\ error = "query_operator_not_supported" =>
                      \/ request.order_by # <<>>
                      \/ \E term \in ToSet(request.where.terms) :
                             ~term.semantic \/ TypeOf(catalog, request, term) \notin {"string", "text"}

JoinIsTold ==
    (join # Nothing /\ Cardinality(Named(catalog, join.traversal)) < 2) =>
        /\ phase # "refused" => FollowsAsTold(catalog, join.traversal)
        /\ FollowsAsTold(catalog, join.traversal) => error \notin RefusedNames

\* Until a query or a traversal is looked at, nothing is refused.
NothingIsRefused == phase \in Early => error = None

LEMMA TheDescriptionIsBoth == QueryIsTold /\ JoinIsTold => DescriptionIsTrue
BY DEF QueryIsTold, JoinIsTold, DescriptionIsTrue, OfAQuery

LEMMA NothingRefusedStep == NothingIsRefused /\ [TraversalNext]_traversal_vars => NothingIsRefused'
<1> SUFFICES ASSUME NothingIsRefused, [TraversalNext]_traversal_vars PROVE NothingIsRefused'
  OBVIOUS
<1>1. ASSUME Load \/ Activate PROVE NothingIsRefused'
  BY <1>1 DEF Load, Activate, NothingIsRefused, Early
<1>2. ASSUME (\E q \in Requests : Bind(q)) \/ Resolve \/ ResolveFails PROVE NothingIsRefused'
  BY <1>2 DEF Bind, Resolve, ResolveFails, NothingIsRefused, Early
<1>3. ASSUME NEW t \in Traversals, RefuseTraversal(t) \/ PlanSides(t) PROVE NothingIsRefused'
  BY <1>3 DEF RefuseTraversal, PlanSides, NothingIsRefused, Early
<1>4. ASSUME NEW driver \in Ends, PlanProbe(driver) PROVE NothingIsRefused'
  <2>1. phase' \notin Early
    BY <1>4 DEF PlanProbe, Early
  <2> QED
    BY <2>1 DEF NothingIsRefused
<1>5. ASSUME NEW value \in Values, Probe(value) PROVE NothingIsRefused'
  <2>1. phase' \notin Early
    BY <1>5 DEF Probe, Early
  <2> QED
    BY <2>1 DEF NothingIsRefused
<1>6. ASSUME UNCHANGED traversal_vars PROVE NothingIsRefused'
  BY <1>6 DEF traversal_vars, vars, NothingIsRefused
<1> QED
  BY <1>1, <1>2, <1>3, <1>4, <1>5, <1>6 DEF TraversalNext, CatalogStep, Next, Ends

\* A refused query is told why in the terms of the description.
LEMMA BindingIsTold ==
    ASSUME NEW c, NEW q \in Requests, KeepsTo(c, q.dataset, q)
    PROVE  LET e == BindError(c, q, UserPolicy)
           IN  /\ e \notin RefusedNames
               /\ e = "query_operator_not_supported" =>
                      \/ q.order_by # <<>>
                      \/ \E term \in ToSet(q.where.terms) :
                             ~term.semantic \/ TypeOf(c, q, term) \notin {"string", "text"}
<1>1. IsQuery(q)
  BY CatalogAssumption
<1>2. NamesArePublic(c, q)
  BY KeepingToMeans DEF NamesArePublic
<1>3. BindError(c, q, UserPolicy) \notin RefusedNames
  BY <1>1, <1>2, PublicNamesAreBound
<1>4. BindError(c, q, UserPolicy) = "query_operator_not_supported" =>
          \/ q.order_by # <<>>
          \/ \E term \in ToSet(q.where.terms) : ~term.semantic \/ TypeOf(c, q, term) \notin {"string", "text"}
  BY <1>1, SearchesAreSupported
<1> QED
  BY <1>3, <1>4

LEMMA QueriesAreTold ==
    Gates /\ Gates' /\ QueryIsTold /\ [TraversalNext]_traversal_vars => QueryIsTold'
<1> SUFFICES ASSUME Gates, Gates', QueryIsTold, [TraversalNext]_traversal_vars, request' # Nothing
             PROVE  QueryIsTold'
  BY DEF QueryIsTold
<1>1. ASSUME phase' \in OfAQuery PROVE QueryIsTold'
  <2>1. BoundUnder(catalog', request', UserPolicy)
    BY <1>1 DEF Gates, QueryIsBound
  <2>2. KeepsTo(catalog', request'.dataset, request')
    BY <2>1, BoundQueriesKeep
  <2> QED
    BY <1>1, <2>2 DEF QueryIsTold, OfAQuery
<1>2. ASSUME NEW q \in Requests, Bind(q), phase' = "refused" PROVE QueryIsTold'
  <2>1. catalog' = catalog /\ request' = q /\ error' = BindError(catalog, q, UserPolicy)
    BY <1>2 DEF Bind, catalog_vars
  <2> QED
    BY <1>2, <2>1, BindingIsTold DEF QueryIsTold, OfAQuery, TypeOf
<1>3. ASSUME ResolveFails PROVE QueryIsTold'
  <2>1. /\ catalog' = catalog /\ request' = request /\ phase = "bound" /\ phase' = "refused"
        /\ error' \in ResolveErrors(catalog, request)
    BY <1>3 DEF ResolveFails, catalog_vars
  <2>2. /\ Loads(catalog) /\ request \in Requests /\ BoundUnder(catalog, request, UserPolicy)
    BY <2>1 DEF Gates, CatalogIsChecked, QueryIsBound, OfAQuery, Early
  <2>3. ResolveErrors(catalog, request) \subseteq {"source_logical_id_unavailable"}
    BY <2>2, BoundQueriesResolve
  <2>4. error' \notin RefusedNames /\ error' # "query_operator_not_supported"
    BY <2>1, <2>3 DEF RefusedNames
  <2> QED
    BY <2>1, <2>4 DEF QueryIsTold, OfAQuery
<1>4. ASSUME NEW q \in Requests, Bind(q) PROVE QueryIsTold'
  BY <1>1, <1>2, <1>4 DEF Bind, OfAQuery
<1>5. ASSUME Resolve PROVE QueryIsTold'
  BY <1>1, <1>5 DEF Resolve, OfAQuery
<1>6. ASSUME phase \in Early \cup OfAJoin, request' = request PROVE QueryIsTold'
  BY <1>6 DEF Gates, QueryIsBound
<1>7. ASSUME Load \/ Activate PROVE QueryIsTold'
  BY <1>6, <1>7 DEF Load, Activate, Early
<1>8. ASSUME NEW t \in Traversals, RefuseTraversal(t) \/ PlanSides(t) PROVE QueryIsTold'
  BY <1>6, <1>8 DEF RefuseTraversal, PlanSides, Early
<1>9. ASSUME NEW driver \in Ends, PlanProbe(driver) PROVE QueryIsTold'
  BY <1>6, <1>9 DEF PlanProbe, OfAJoin
<1>10. ASSUME NEW value \in Values, Probe(value) PROVE QueryIsTold'
  BY <1>6, <1>10 DEF Probe, OfAJoin
<1>11. ASSUME UNCHANGED traversal_vars PROVE QueryIsTold'
  BY <1>11 DEF traversal_vars, vars, catalog_vars, QueryIsTold
<1> QED
  BY <1>3, <1>4, <1>5, <1>7, <1>8, <1>9, <1>10, <1>11 DEF TraversalNext, CatalogStep, Next, Ends

\* A traversal that follows the description is not refused for its names.
LEMMA TraversalsAreTold ==
    ASSUME NEW c \in Catalogs, NEW t \in Traversals, Loads(c), Cardinality(Named(c, t)) < 2,
           FollowsAsTold(c, t), NEW e \in TraversalErrors(c, t)
    PROVE  e \notin RefusedNames
<1>1. /\ RelationshipError(c, t) = None /\ OrderErrors(c, t) = {}
      /\ SideErrors(c, DriverQuery(c, t, "left")) \cap RefusedNames = {}
      /\ SideErrors(c, DriverQuery(c, t, "right")) \cap RefusedNames = {}
  BY FollowersAreNotRefused DEF Ends
<1>2. \/ e \in {"query_shape_invalid", "query_limit_invalid"}
      \/ e \in SideErrors(c, DriverQuery(c, t, "left"))
      \/ e \in SideErrors(c, DriverQuery(c, t, "right"))
  BY <1>1 DEF TraversalErrors
<1>3. {"query_shape_invalid", "query_limit_invalid"} \cap RefusedNames = {}
  BY DEF RefusedNames
<1> QED
  BY <1>1, <1>2, <1>3

LEMMA JoinsAreTold ==
    Gates /\ Gates' /\ NothingIsRefused /\ JoinIsTold /\ [TraversalNext]_traversal_vars => JoinIsTold'
<1> SUFFICES ASSUME Gates, Gates', NothingIsRefused, JoinIsTold, [TraversalNext]_traversal_vars,
                    join' # Nothing, Cardinality(Named(catalog', join'.traversal)) < 2
             PROVE  /\ phase' # "refused" => FollowsAsTold(catalog', join'.traversal)
                    /\ FollowsAsTold(catalog', join'.traversal) => error' \notin RefusedNames
  BY DEF JoinIsTold
<1> DEFINE Told == FollowsAsTold(catalog', join'.traversal) => error' \notin RefusedNames
<1>1. ASSUME phase' # "refused" PROVE FollowsAsTold(catalog', join'.traversal)
  <2>1. phase' \in OfAJoin
    BY <1>1 DEF Gates, CatalogIsChecked, QueryIsBound, JoinIsPlanned
  <2>2. /\ catalog' \in Catalogs /\ Loads(catalog') /\ join'.traversal \in Traversals
        /\ TraversalErrors(catalog', join'.traversal) = {}
    BY <2>1 DEF Gates, CatalogIsChecked, JoinIsPlanned, OfAJoin
  <2> QED
    BY <2>2, PlannedStepsFollow
<1>2. None \notin RefusedNames
  BY DEF RefusedNames, None
<1>3. ASSUME NEW t \in Traversals, RefuseTraversal(t) PROVE Told
  <2>1. /\ phase = "active" /\ catalog' = catalog /\ join'.traversal = t
        /\ error' \in TraversalErrors(catalog, t)
    BY <1>3 DEF RefuseTraversal, catalog_vars
  <2>2. catalog \in Catalogs /\ Loads(catalog)
    BY <2>1 DEF Gates, CatalogIsChecked
  <2>3. Cardinality(Named(catalog, t)) < 2
    BY <2>1
  <2> QED
    BY <2>1, <2>2, <2>3, TraversalsAreTold
<1>4. ASSUME NEW t \in Traversals, PlanSides(t) PROVE Told
  BY <1>2, <1>4 DEF PlanSides, NothingIsRefused, Early
<1>5. ASSUME NEW driver \in Ends, PlanProbe(driver) PROVE Told
  <2>1. CASE phase' = "refused"
    <3>1. error' \in {"KeyError", "query_limit_invalid"}
      BY <1>5, <2>1, ProbesAreRefusedForARule
    <3> QED
      BY <3>1 DEF RefusedNames
  <2>2. CASE phase' # "refused"
    <3>1. error' = None
      BY <1>5, <2>2 DEF PlanProbe
    <3> QED
      BY <1>2, <3>1
  <2> QED
    BY <2>1, <2>2
<1>6. ASSUME NEW value \in Values, Probe(value) PROVE Told
  <2> DEFINE keys  == [n \in 1 .. BatchSize |-> Wire(value)]
             probe == Opposite(join.driver)
             t     == join.traversal
  <2>1. /\ phase = "planned" /\ catalog' = catalog /\ error' \in ProbeErrors(catalog, t, probe, keys)
        /\ join' = [join EXCEPT !.key = value]
    BY <1>6 DEF Probe, catalog_vars
  <2>2. /\ catalog \in Catalogs /\ Loads(catalog) /\ t \in Traversals
        /\ join \in [traversal : Traversals, driver : {None} \cup Ends, key : {None} \cup Values]
    BY <2>1, JoinUnderWay DEF OfAJoin
  <2>3. join'.traversal = t
    BY <2>1, <2>2
  <2>4. probe \in Ends
    BY DEF Opposite, Ends
  <2>5. IsList(keys)
    BY BatchesAreLists
  <2> HIDE DEF keys, probe, t
  <2>6. ASSUME FollowsAsTold(catalog, t) PROVE SideErrors(catalog, ProbeQuery(catalog, t, probe, keys)) \cap RefusedNames = {}
    BY <2>1, <2>2, <2>3, <2>4, <2>5, <2>6, FollowersAreNotRefused
  <2>7. ProbeErrors(catalog, t, probe, keys) \subseteq SideErrors(catalog, ProbeQuery(catalog, t, probe, keys)) \cup {None}
    BY DEF ProbeErrors
  <2> QED
    BY <1>2, <2>1, <2>3, <2>6, <2>7
<1>7. ASSUME Next, UNCHANGED join PROVE FALSE
  <2>1. phase \in Early \cup OfAQuery
    BY <1>7 DEF Next, Load, Activate, Bind, Resolve, ResolveFails, Early, OfAQuery
  <2> QED
    BY <1>7, <2>1 DEF Gates, QueryIsBound, JoinIsPlanned
<1>8. ASSUME UNCHANGED traversal_vars PROVE Told
  BY <1>8 DEF traversal_vars, vars, catalog_vars, JoinIsTold
<1>9. Told
  BY <1>3, <1>4, <1>5, <1>6, <1>7, <1>8 DEF TraversalNext, CatalogStep, Ends
<1> QED
  BY <1>1, <1>9

\* What the agent is told is true and complete.
THEOREM TrueDescription == TraversalSpec => []DescriptionIsTrue
<1>1. TraversalInit => QueryIsTold /\ JoinIsTold /\ NothingIsRefused
  BY DEF TraversalInit, Init, QueryIsTold, JoinIsTold, NothingIsRefused
<1> QED
  BY <1>1, GatesHold, NothingRefusedStep, QueriesAreTold, JoinsAreTold, TheDescriptionIsBoth, PTL
     DEF TraversalSpec
=============================================================================
