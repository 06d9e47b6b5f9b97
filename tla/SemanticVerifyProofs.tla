------------------------ MODULE SemanticVerifyProofs ------------------------
(* What judging in batches answers, spends and reports, proved for any       *)
(* queries, verdicts, batch size and budgets.                                *)
EXTENDS SemanticVerify, FiniteSetTheorems, TLAPS

-----------------------------------------------------------------------------
(* The invariant.                                                            *)

VType ==
    /\ query \in Queries
    /\ verdict \in [Judging -> [query.ids -> Verdicts]]
    /\ pass \in Nat \ {0} /\ pass <= Len(query.passes) + 1
    /\ phase \in {"idle", "judging", "answered", "failed"}
    /\ phase = "judging" => pass <= Len(query.passes)
    /\ plan \in Plans /\ plans \subseteq Plans
    /\ rows \subseteq query.ids /\ unsent \subseteq rows /\ qualified \subseteq rows
    /\ cost \in Nat /\ elapsed \in Nat
    /\ report \in Reports \cup {NoReport}

Judged == WithText(Side, rows) \ unsent

\* The records are judged in order, and those that qualified are known.
InOrder ==
    phase = "judging" =>
        /\ unsent \subseteq WithText(Side, rows)
        /\ qualified = {i \in Judged : Qualifies(Side, i)}
        /\ \A i \in Judged, j \in unsent : i < j

\* A plain query whose pass is over knows the records of its page.
PageIsKnown ==
    ~query.joined /\ phase \in {"idle", "answered"} =>
        \/ pass = 1 /\ phase = "idle"
        \/ Earliest(query.first, qualified) = Earliest(query.first, Qualifying(rows))

\* What was spent so far.
WithinBudget ==
    /\ cost <= query.max_cost + CallCost
    /\ phase # "failed" => cost <= query.max_cost
    /\ elapsed <= query.max_latency - 1 + CallTime

\* Something was reported once a pass is over.
Reported == (report = NoReport) <=> (plans = {})

VInv == /\ VType /\ InOrder /\ PageIsKnown /\ PageIsExact /\ NoNeedlessCalls
        /\ WithinBudget /\ Reported /\ ReportIsHonest

-----------------------------------------------------------------------------
(* The first of some records.                                                *)

LEMMA FirstOnes ==
    ASSUME NEW S \in SUBSET Nat, IsFiniteSet(S), NEW n \in Nat
    PROVE  /\ Earliest(n, S) \in SUBSET S /\ IsFiniteSet(Earliest(n, S))
           /\ Cardinality(Earliest(n, S)) <= n
           /\ \A i \in Earliest(n, S), j \in S \ Earliest(n, S) : i < j
<1> DEFINE before(i) == {j \in S : j < i}
           place     == [i \in Earliest(n, S) |-> Cardinality(before(i))]
           places    == 0 .. n - 1
<1>1. Earliest(n, S) \in SUBSET S /\ IsFiniteSet(Earliest(n, S))
  <2>1. Earliest(n, S) \in SUBSET S
    BY DEF Earliest
  <2> QED
    BY <2>1, FS_Subset
<1>2. ASSUME NEW i \in S
      PROVE  /\ IsFiniteSet(before(i)) /\ Cardinality(before(i)) \in Nat
             /\ i \in Earliest(n, S) <=> Cardinality(before(i)) < n
  <2>1. before(i) \in SUBSET S
    OBVIOUS
  <2>2. i \in Earliest(n, S) <=> Cardinality(before(i)) < n
    BY DEF Earliest
  <2> HIDE DEF before
  <2> QED
    BY <2>1, <2>2, FS_Subset, FS_CardinalityType
<1>3. ASSUME NEW i \in S, NEW j \in S, i < j PROVE Cardinality(before(i)) < Cardinality(before(j))
  <2>1. before(i) \in SUBSET before(j) /\ i \in before(j) /\ i \notin before(i)
    <3>1. i \in Nat /\ j \in Nat /\ \A k \in S : k \in Nat
      OBVIOUS
    <3>2. \A k \in S : k < i => k < j
      BY <1>3, <3>1
    <3>3. ~(i < i)
      BY <3>1
    <3>4. before(i) \subseteq before(j)
      BY <3>2
    <3> QED
      BY <1>3, <3>3, <3>4
  <2>2. IsFiniteSet(before(j)) /\ Cardinality(before(i)) \in Nat /\ Cardinality(before(j)) \in Nat
    BY <1>2
  <2> HIDE DEF before
  <2>3. Cardinality(before(i)) <= Cardinality(before(j)) /\ Cardinality(before(i)) # Cardinality(before(j))
    BY <2>1, <2>2, FS_Subset
  <2> QED
    BY <2>2, <2>3
<1> HIDE DEF before
<1>4. place \in Injection(Earliest(n, S), places)
  <2>1. place \in [Earliest(n, S) -> places]
    <3> SUFFICES ASSUME NEW i \in Earliest(n, S) PROVE Cardinality(before(i)) \in places
      OBVIOUS
    <3>1. i \in S
      BY <1>1
    <3>2. Cardinality(before(i)) \in Nat /\ Cardinality(before(i)) < n
      BY <1>2, <3>1
    <3> QED
      BY <3>2
  <2>2. \A i, j \in Earliest(n, S) : place[i] = place[j] => i = j
    <3> SUFFICES ASSUME NEW i \in Earliest(n, S), NEW j \in Earliest(n, S),
                        Cardinality(before(i)) = Cardinality(before(j)), i # j
                 PROVE  FALSE
      OBVIOUS
    <3>1. i \in S /\ j \in S /\ (i < j \/ j < i)
      <4>1. i \in S /\ j \in S
        BY <1>1
      <4>2. i \in Nat /\ j \in Nat
        BY <4>1
      <4> QED
        BY <4>1, <4>2
    <3>2. Cardinality(before(i)) \in Nat
      BY <1>2, <3>1
    <3> QED
      BY <1>3, <3>1, <3>2
  <2> HIDE DEF place, places
  <2> QED
    BY <2>1, <2>2 DEF Injection, IsInjective
<1>5. IsFiniteSet(places) /\ Cardinality(places) = n
  BY FS_Interval
<1>6. Cardinality(Earliest(n, S)) <= n
  <2> HIDE DEF place, places
  <2> QED
    BY <1>4, <1>5, FS_Injection
<1>7. ASSUME NEW i \in Earliest(n, S), NEW j \in S, j \notin Earliest(n, S) PROVE i < j
  <2>1. i \in S /\ i # j
    BY <1>1, <1>7
  <2>2. ~(j < i)
    <3> SUFFICES ASSUME j < i PROVE FALSE
      OBVIOUS
    <3>1. Cardinality(before(j)) < Cardinality(before(i))
      BY <1>3, <2>1
    <3>2. /\ Cardinality(before(i)) < n /\ ~(Cardinality(before(j)) < n)
          /\ Cardinality(before(i)) \in Nat /\ Cardinality(before(j)) \in Nat
      BY <1>2, <1>7, <2>1
    <3> QED
      BY <3>1, <3>2
  <2> QED
    BY <2>1, <2>2
<1> QED
  BY <1>1, <1>6, <1>7

\* Later records do not change who comes first when there are none, or there
\* are enough before them.
LEMMA LaterOnesDoNotMatter ==
    ASSUME NEW Q \in SUBSET Nat, NEW U \in SUBSET Nat, IsFiniteSet(Q), IsFiniteSet(U),
           NEW n \in Nat, \A i \in Q, j \in U : i < j, U = {} \/ Cardinality(Q) >= n
    PROVE  Earliest(n, Q) = Earliest(n, Q \cup U)
<1>1. ASSUME NEW i \in Q PROVE i \in Earliest(n, Q) <=> i \in Earliest(n, Q \cup U)
  <2>1. {j \in Q \cup U : j < i} = {j \in Q : j < i}
    <3>1. \A j \in U : ~(j < i)
      OBVIOUS
    <3> QED
      BY <3>1
  <2> QED
    BY <2>1 DEF Earliest
<1>2. ASSUME NEW i \in U PROVE i \notin Earliest(n, Q \cup U)
  <2> DEFINE B == {j \in Q \cup U : j < i}
  <2>1. Q \in SUBSET B /\ B \in SUBSET (Q \cup U)
    OBVIOUS
  <2>2. i \in Earliest(n, Q \cup U) => Cardinality(B) < n
    BY DEF Earliest
  <2> HIDE DEF B
  <2>3. IsFiniteSet(B)
    <3>1. IsFiniteSet(Q \cup U)
      BY FS_Union
    <3> QED
      BY <2>1, <3>1, FS_Subset
  <2>4. Cardinality(Q) <= Cardinality(B) /\ Cardinality(Q) \in Nat /\ Cardinality(B) \in Nat
    BY <2>1, <2>3, FS_Subset, FS_CardinalityType
  <2>5. Cardinality(Q) >= n
    BY <1>2
  <2> QED
    BY <2>2, <2>4, <2>5
<1>3. Earliest(n, Q) \subseteq Q /\ Earliest(n, Q \cup U) \subseteq Q \cup U
  BY DEF Earliest
<1> QED
  BY <1>1, <1>2, <1>3

\* A batch of n records at most that comes after the others is among the latest n.
LEMMA BatchIsLatest ==
    ASSUME NEW J \in SUBSET Nat, NEW B \in SUBSET Nat, IsFiniteSet(J), IsFiniteSet(B),
           NEW n \in Nat \ {0}, \A i \in J, j \in B : i < j, Cardinality(B) <= n
    PROVE  (J \cup B) \ Latest(n, J \cup B) \in SUBSET J
<1> SUFFICES ASSUME NEW i \in B PROVE i \in Latest(n, J \cup B)
  OBVIOUS
<1> DEFINE A == {j \in J \cup B : j > i}
<1>1. A \in SUBSET (B \ {i})
  <2> SUFFICES ASSUME NEW j \in A PROVE j \in B /\ j # i
    OBVIOUS
  <2>1. j \in J \cup B /\ j > i /\ j \in Nat /\ i \in Nat
    OBVIOUS
  <2>2. ~(j \in J)
    <3> SUFFICES ASSUME j \in J PROVE FALSE
      OBVIOUS
    <3>1. j < i
      OBVIOUS
    <3> QED
      BY <2>1, <3>1
  <2> QED
    BY <2>1, <2>2
<1>2. i \in J \cup B /\ (Cardinality(A) < n => i \in Latest(n, J \cup B))
  BY DEF Latest
<1> HIDE DEF A
<1>3. IsFiniteSet(B \ {i}) /\ Cardinality(B \ {i}) = Cardinality(B) - 1
  BY FS_RemoveElement
<1>4. Cardinality(A) <= Cardinality(B \ {i}) /\ IsFiniteSet(A)
  BY <1>1, <1>3, FS_Subset
<1>5. Cardinality(A) \in Nat /\ Cardinality(B) \in Nat
  BY <1>4, FS_CardinalityType
<1> QED
  BY <1>2, <1>3, <1>4, <1>5

-----------------------------------------------------------------------------
(* Every step keeps the invariant.                                           *)

LEMMA QueryFacts ==
    ASSUME VType
    PROVE  /\ Len(query.passes) \in Nat \ {0}
           /\ \A n \in 1 .. Len(query.passes) : query.passes[n] \in Sides
           /\ DOMAIN query.passes = 1 .. Len(query.passes)
           /\ query.joined \in BOOLEAN
           /\ ~query.joined => query.passes = <<"left">>
           /\ query.ids \in SUBSET Ids /\ query.ids \in SUBSET Nat /\ IsFiniteSet(query.ids)
           /\ query.first \in Nat \ {0}
           /\ query.max_cost \in Nat /\ query.max_latency \in Nat \ {0}
<1>1. query \in QueryShape /\ (~query.joined => query.passes = <<"left">>)
  BY SemanticAssumption DEF VType
<1>2. query.passes \in Seq(Sides) /\ query.passes # <<>>
  BY <1>1 DEF QueryShape
<1>3. /\ Len(query.passes) \in Nat \ {0} /\ DOMAIN query.passes = 1 .. Len(query.passes)
      /\ \A n \in 1 .. Len(query.passes) : query.passes[n] \in Sides
  BY <1>2
<1>4. query.ids \in SUBSET Ids
  BY <1>1 DEF QueryShape
<1>5. query.ids \in SUBSET Nat /\ IsFiniteSet(query.ids)
  BY <1>4, SemanticAssumption, FS_Subset
<1> QED
  BY <1>1, <1>3, <1>4, <1>5 DEF QueryShape

LEMMA BoundsAreNumbers ==
    /\ BatchSize \in Nat \ {0} /\ MaxCandidates \in Nat \ {0} /\ CallTime \in Nat \ {0}
    /\ CallCost \in Nat /\ NoShortlist = -1 /\ NoReport \notin Reports
  BY SemanticAssumption

LEMMA VInitially == Init => VInv
<1> SUFFICES ASSUME Init PROVE VInv
  OBVIOUS
<1>1. VType
  <2>1. query \in QueryShape
    BY SemanticAssumption DEF Init
  <2>2. Len(query.passes) \in Nat
    BY <2>1 DEF QueryShape
  <2> QED
    BY <2>2 DEF Init, VType, Plans
<1>2. InOrder /\ PageIsKnown /\ PageIsExact /\ NoNeedlessCalls
  BY DEF Init, InOrder, PageIsKnown, PageIsExact, NoNeedlessCalls
<1>3. WithinBudget
  BY <1>1, QueryFacts, BoundsAreNumbers DEF Init, WithinBudget
<1>4. Reported /\ ReportIsHonest
  BY DEF Init, Reported, ReportIsHonest
<1> QED
  BY <1>1, <1>2, <1>3, <1>4 DEF VInv

\* What depends on the report alone.
LEMMA ReportStays ==
    ASSUME VInv, UNCHANGED <<report, plans>>
    PROVE  Reported' /\ ReportIsHonest'
  BY DEF VInv, Reported, ReportIsHonest

\* A pass that fails leaves nothing to rely on but what was spent.
LEMMA FailureKeepsVInv ==
    ASSUME VInv, phase' = "failed",
           UNCHANGED <<query_vars, pass, pass_vars, plans, seen, kept, report, page>>
    PROVE  VInv'
<1>1. UNCHANGED <<query, verdict, pass, plan, rows, unsent, qualified, cost, elapsed, plans, report>>
  BY DEF query_vars, pass_vars
<1>2. VType'
  BY <1>1 DEF VInv, VType, Judging
<1>3. InOrder' /\ PageIsKnown' /\ PageIsExact' /\ NoNeedlessCalls'
  BY DEF InOrder, PageIsKnown, PageIsExact, NoNeedlessCalls
<1>4. WithinBudget'
  BY <1>1 DEF VInv, WithinBudget
<1> QED
  BY <1>1, <1>2, <1>3, <1>4, ReportStays DEF VInv

LEMMA StartPassKeepsVInv ==
    ASSUME VInv, NEW S \in SUBSET Ids, NEW fell_back \in BOOLEAN, StartPass(S, fell_back)
    PROVE  VInv'
<1>1. /\ phase = "idle" /\ pass <= Len(query.passes)
      /\ S \subseteq query.ids /\ rows' = S /\ unsent' = WithText(Side, S)
      /\ qualified' = {} /\ cost' = 0 /\ elapsed' \in 0 .. CallTime
      /\ phase' \in {"failed", "judging"} /\ plan' = ActualPlan(fell_back)
      /\ UNCHANGED <<query, verdict, pass, plans, report>>
  BY DEF StartPass, query_vars
<1>2. Side' = Side /\ WithText(Side, rows)' = WithText(Side, S) /\ WithText(Side, S) \subseteq S
  BY <1>1 DEF Side, WithText
<1>3. Judged' = {}
  BY <1>1, <1>2 DEF Judged
<1>4. VType'
  <2>1. plan' \in Plans
    BY <1>1 DEF ActualPlan, Plans
  <2>2. elapsed' \in Nat
    BY <1>1, BoundsAreNumbers
  <2> QED
    BY <1>1, <1>2, <2>1, <2>2 DEF VInv, VType, Judging
<1>5. InOrder'
  BY <1>1, <1>2, <1>3 DEF InOrder
<1>6. PageIsKnown' /\ PageIsExact'
  BY <1>1 DEF PageIsKnown, PageIsExact
<1>7. NoNeedlessCalls'
  <2>1. {i \in Judged \ Latest(BatchSize, Judged) : Qualifies(Side, i)}' = {}
    BY <1>3
  <2>2. query'.first \in Nat \ {0}
    BY <1>1, QueryFacts DEF VInv
  <2>3. Cardinality({i \in Judged \ Latest(BatchSize, Judged) : Qualifies(Side, i)})' < query'.first
    BY <2>1, <2>2, FS_EmptySet
  <2> QED
    BY <2>3 DEF NoNeedlessCalls, Judged
<1>8. WithinBudget'
  <2>1. query'.max_cost \in Nat /\ query'.max_latency \in Nat \ {0} /\ VType
    BY <1>1, QueryFacts DEF VInv
  <2> QED
    BY <1>1, <2>1, BoundsAreNumbers DEF WithinBudget
<1> QED
  BY <1>1, <1>4, <1>5, <1>6, <1>7, <1>8, ReportStays DEF VInv

LEMMA VerifyKeepsVInv ==
    ASSUME VInv, NEW c \in 0 .. CallCost, NEW time \in 0 .. CallTime, Verify(c, time)
    PROVE  VInv'
<1> DEFINE batch == Earliest(BatchSize, unsent)
<1>1. /\ phase = "judging" /\ ~PageFull /\ ~Late
      /\ cost' = cost + c /\ elapsed' = elapsed + time
      /\ UNCHANGED <<query, verdict, pass, plan, rows, plans, report>>
  BY DEF Verify, query_vars
<1>2. VType /\ query.max_cost \in Nat /\ query.max_latency \in Nat \ {0} /\ query.first \in Nat \ {0}
  BY QueryFacts DEF VInv
<1>3. c \in Nat /\ c <= CallCost /\ time \in Nat /\ time <= CallTime /\ CallCost \in Nat
      /\ CallTime \in Nat /\ cost \in Nat /\ elapsed \in Nat /\ cost <= query.max_cost
      /\ cost' \in Nat /\ elapsed' \in Nat
  <2>1. CallCost \in Nat /\ CallTime \in Nat
    BY BoundsAreNumbers
  <2>2. c \in Nat /\ c <= CallCost /\ time \in Nat /\ time <= CallTime
    BY <2>1
  <2>3. cost \in Nat /\ elapsed \in Nat /\ cost <= query.max_cost
    BY <1>1, <1>2 DEF VInv, VType, WithinBudget
  <2> QED
    BY <1>1, <2>1, <2>2, <2>3
<1>4. elapsed' <= query'.max_latency - 1 + CallTime /\ cost' <= query'.max_cost + CallCost
  <2>1. elapsed < query.max_latency
    BY <1>1, <1>2, <1>3 DEF Late
  <2> QED
    BY <1>1, <1>2, <1>3, <2>1
<1>5. CASE Overspends(c)
  <2>1. phase' = "failed" /\ UNCHANGED <<unsent, qualified>>
    BY <1>5 DEF Verify
  <2>2. VType'
    BY <1>1, <1>2, <1>3, <2>1 DEF VType, Judging
  <2>3. InOrder' /\ PageIsKnown' /\ PageIsExact' /\ NoNeedlessCalls'
    BY <2>1 DEF InOrder, PageIsKnown, PageIsExact, NoNeedlessCalls
  <2>4. WithinBudget'
    BY <1>4, <2>1 DEF WithinBudget
  <2> QED
    BY <1>1, <2>2, <2>3, <2>4, ReportStays DEF VInv
<1>6. CASE ~Overspends(c)
  <2>1. /\ unsent' = unsent \ batch /\ phase' = "judging"
        /\ qualified' = qualified \cup {i \in batch : Qualifies(Side, i)}
    BY <1>1, <1>6 DEF Verify
  <2>2. /\ unsent \in SUBSET Nat /\ rows \in SUBSET Nat /\ IsFiniteSet(unsent) /\ IsFiniteSet(rows)
        /\ unsent \subseteq rows
    <3>1. rows \in SUBSET query.ids /\ unsent \in SUBSET rows
      BY <1>2 DEF VType
    <3> QED
      BY <1>2, <3>1, QueryFacts, FS_Subset
  <2>3. /\ batch \in SUBSET unsent /\ IsFiniteSet(batch) /\ Cardinality(batch) <= BatchSize
        /\ \A i \in batch, j \in unsent \ batch : i < j
    BY <2>2, FirstOnes, BoundsAreNumbers
  <2> HIDE DEF batch
  <2>4. /\ unsent \subseteq WithText(Side, rows) /\ qualified = {i \in Judged : Qualifies(Side, i)}
        /\ \A i \in Judged, j \in unsent : i < j
    BY <1>1 DEF VInv, InOrder
  <2>5. /\ Side' = Side /\ WithText(Side, rows)' = WithText(Side, rows)
        /\ \A i : Qualifies(Side, i)' = Qualifies(Side, i)
    BY <1>1 DEF Side, WithText, Qualifies
  <2>6. Judged' = Judged \cup batch
    BY <2>1, <2>3, <2>4, <2>5 DEF Judged
  <2>7. VType'
    <3>1. unsent' \subseteq rows /\ qualified' \subseteq rows
      BY <1>2, <2>1, <2>2, <2>3 DEF VType
    <3> QED
      BY <1>1, <1>2, <1>3, <2>1, <3>1 DEF VType, Judging
  <2>8. InOrder'
    <3>1. unsent' \subseteq WithText(Side, rows)'
      BY <2>1, <2>4, <2>5
    <3>2. qualified' = {i \in Judged : Qualifies(Side, i)}'
      BY <2>1, <2>4, <2>5, <2>6
    <3>3. \A i \in Judged', j \in unsent' : i < j
      BY <2>1, <2>3, <2>4, <2>6
    <3> QED
      BY <3>1, <3>2, <3>3 DEF InOrder
  <2>9. PageIsKnown' /\ PageIsExact'
    BY <2>1 DEF PageIsKnown, PageIsExact
  <2>10. NoNeedlessCalls'
    <3> DEFINE first == Judged' \ Latest(BatchSize, Judged')
               wanted == {i \in first : Qualifies(Side, i)}
    <3>1. Judged \in SUBSET Nat /\ IsFiniteSet(Judged) /\ batch \in SUBSET Nat
      <4>1. Judged \in SUBSET rows
        BY DEF Judged, WithText
      <4> QED
        BY <2>2, <2>3, <4>1, FS_Subset
    <3>2. first \in SUBSET Judged
      <4>1. \A i \in Judged, j \in batch : i < j
        BY <2>3, <2>4
      <4>2. (Judged \cup batch) \ Latest(BatchSize, Judged \cup batch) \in SUBSET Judged
        BY <2>3, <3>1, <4>1, BatchIsLatest, BoundsAreNumbers
      <4> QED
        BY <2>6, <4>2
    <3>3. wanted \in SUBSET qualified
      BY <2>4, <3>2
    <3>4. wanted = {i \in Judged \ Latest(BatchSize, Judged) : Qualifies(Side, i)}'
      BY <2>5
    <3> HIDE DEF wanted, first
    <3>5. IsFiniteSet(qualified) /\ Cardinality(qualified) < query.first
      <4>1. qualified \in SUBSET rows
        BY <1>2 DEF VType
      <4>2. IsFiniteSet(qualified) /\ Cardinality(qualified) \in Nat
        BY <2>2, <4>1, FS_Subset, FS_CardinalityType
      <4> QED
        BY <1>1, <1>2, <4>2 DEF PageFull
    <3>6. Cardinality(wanted) <= Cardinality(qualified) /\ Cardinality(wanted) \in Nat
          /\ Cardinality(qualified) \in Nat
      BY <3>3, <3>5, FS_Subset, FS_CardinalityType
    <3>7. Cardinality(wanted) < query'.first
      BY <1>1, <1>2, <3>5, <3>6
    <3> QED
      BY <3>4, <3>7 DEF NoNeedlessCalls, Judged
  <2>11. WithinBudget'
    <3>1. cost' <= query'.max_cost
      BY <1>1, <1>2, <1>3, <1>6 DEF Overspends
    <3> QED
      BY <1>4, <3>1 DEF WithinBudget
  <2> QED
    BY <1>1, <2>7, <2>8, <2>9, <2>10, <2>11, ReportStays DEF VInv
<1> QED
  BY <1>5, <1>6

\* What a pass reports, and the passes before it.
LEMMA MergedIsHonest ==
    ASSUME VInv, phase = "judging", Cardinality(rows) \in Nat,
           NEW sum, sum = Merged(PassReport, report)
    PROVE  /\ sum \in Reports
           /\ sum.qualified <= sum.verified /\ sum.verified <= sum.considered
           /\ sum.plan = "vector_shortlist" <=> sum.shortlisted # NoShortlist
           /\ sum.plan = "vector_shortlist" <=> "vector_shortlist" \in plans \cup {plan}
<1> DEFINE mine == PassReport
           Honest(r) == /\ r.qualified <= r.verified /\ r.verified <= r.considered
                        /\ r.plan = "vector_shortlist" <=> r.shortlisted # NoShortlist
<1>1. VType /\ Side \in Sides
  <2>1. pass \in 1 .. Len(query.passes)
    BY QueryFacts DEF VInv, VType
  <2> QED
    BY <2>1, QueryFacts DEF VInv, Side
<1>2. /\ IsFiniteSet(rows) /\ IsFiniteSet(Judged) /\ IsFiniteSet(qualified)
      /\ Cardinality(qualified) \in Nat /\ Cardinality(Judged) \in Nat
      /\ Cardinality(qualified) <= Cardinality(Judged) /\ Cardinality(Judged) <= Cardinality(rows)
      /\ qualified \in SUBSET Ids
  <2>1. rows \in SUBSET query.ids /\ qualified \in SUBSET Judged /\ Judged \in SUBSET rows
    BY <1>1 DEF VInv, VType, InOrder, Judged, WithText
  <2>2. IsFiniteSet(rows) /\ query.ids \in SUBSET Ids
    BY <1>1, <2>1, QueryFacts, FS_Subset
  <2>3. IsFiniteSet(Judged)
    BY <2>1, <2>2, FS_Subset
  <2> QED
    BY <2>1, <2>2, <2>3, FS_Subset, FS_CardinalityType
<1>3. /\ mine.plan = plan /\ mine.considered = Cardinality(rows)
      /\ mine.shortlisted = IF plan = "vector_shortlist" THEN Cardinality(rows) ELSE NoShortlist
      /\ mine.verified = Cardinality(Judged) /\ mine.qualified = Cardinality(qualified)
      /\ mine.records = [i \in qualified |-> Side]
  BY DEF PassReport, Judged
<1>4. mine \in Reports
  <2>1. [i \in qualified |-> Side] \in UNION {[S -> Sides] : S \in SUBSET Ids}
    BY <1>1, <1>2
  <2>2. plan \in Plans
    BY <1>1 DEF VType
  <2> QED
    BY <1>2, <2>1, <2>2 DEF PassReport, Reports, Judged
<1>5. Honest(mine)
  BY <1>2, <1>3, BoundsAreNumbers
<1>6. plan \in Plans
  BY <1>1 DEF VType
<1> HIDE DEF mine
<1>7. CASE report = NoReport
  <2>1. sum = mine
    BY <1>7 DEF Merged, mine
  <2>2. plans = {}
    BY <1>7 DEF VInv, Reported
  <2> QED
    BY <1>3, <1>4, <1>5, <2>1, <2>2
<1>8. CASE report # NoReport
  <2> DEFINE theirs == report
             lists  == {r.shortlisted : r \in {mine, theirs}} \ {NoShortlist}
  <2>1. report \in Reports /\ Honest(report)
    BY <1>1, <1>8 DEF VInv, VType, ReportIsHonest
  <2>2. report.plan = "vector_shortlist" <=> "vector_shortlist" \in plans
    BY <1>8 DEF VInv, ReportIsHonest
  <2>3. /\ sum.plan = IF lists # {} THEN "vector_shortlist" ELSE mine.plan
        /\ sum.considered = mine.considered + report.considered
        /\ sum.shortlisted = IF mine.shortlisted = NoShortlist THEN report.shortlisted
                             ELSE IF report.shortlisted = NoShortlist THEN mine.shortlisted
                             ELSE mine.shortlisted + report.shortlisted
        /\ sum.verified = mine.verified + report.verified
        /\ sum.qualified = mine.qualified + report.qualified
        /\ sum.records = [i \in DOMAIN mine.records \cup DOMAIN report.records |->
                             IF i \in DOMAIN mine.records THEN mine.records[i] ELSE report.records[i]]
        /\ sum = [plan |-> sum.plan, considered |-> sum.considered, shortlisted |-> sum.shortlisted,
                  verified |-> sum.verified, qualified |-> sum.qualified, records |-> sum.records]
    BY <1>8 DEF Merged, mine
  <2>4. lists = {} <=> mine.shortlisted = NoShortlist /\ report.shortlisted = NoShortlist
    OBVIOUS
  <2> HIDE DEF lists, theirs
  <2>5. \A r \in {mine, report} : /\ r.plan \in Plans /\ r.considered \in Nat /\ r.verified \in Nat
                                  /\ r.qualified \in Nat /\ r.shortlisted \in Nat \cup {NoShortlist}
    BY <1>4, <2>1 DEF Reports
  <2>6. sum.records \in UNION {[S -> Sides] : S \in SUBSET Ids}
    <3>1. PICK S \in SUBSET Ids : mine.records \in [S -> Sides]
      BY <1>4 DEF Reports
    <3>2. PICK T \in SUBSET Ids : report.records \in [T -> Sides]
      BY <2>1 DEF Reports
    <3>3. DOMAIN mine.records = S /\ DOMAIN report.records = T
      BY <3>1, <3>2
    <3>4. sum.records \in [S \cup T -> Sides]
      BY <2>3, <3>1, <3>2, <3>3
    <3> QED
      BY <3>4
  <2>7. sum.shortlisted \in Nat \cup {NoShortlist}
        /\ (sum.shortlisted = NoShortlist <=> mine.shortlisted = NoShortlist /\ report.shortlisted = NoShortlist)
    BY <2>3, <2>5, BoundsAreNumbers
  <2>8. sum.plan \in Plans
    BY <1>6, <1>3, <2>3 DEF Plans
  <2>9. sum \in Reports
    <3>1. sum.considered \in Nat /\ sum.verified \in Nat /\ sum.qualified \in Nat
      BY <2>3, <2>5
    <3> QED
      BY <2>3, <2>6, <2>7, <2>8, <3>1 DEF Reports
  <2>10. sum.qualified <= sum.verified /\ sum.verified <= sum.considered
    BY <1>5, <2>1, <2>3, <2>5
  <2>11. sum.plan = "vector_shortlist" <=> sum.shortlisted # NoShortlist
    BY <1>5, <2>3, <2>4, <2>7
  <2>12. sum.plan = "vector_shortlist" <=> "vector_shortlist" \in plans \cup {plan}
    BY <1>3, <1>5, <2>1, <2>2, <2>3, <2>4
  <2> QED
    BY <2>9, <2>10, <2>11, <2>12
<1> QED
  BY <1>7, <1>8

LEMMA EndPassKeepsVInv == ASSUME VInv, EndPass PROVE VInv'
<1>1. /\ phase = "judging" /\ (unsent = {} \/ PageFull)
      /\ report' = Merged(PassReport, report) /\ pass' = pass + 1 /\ phase' = "idle"
      /\ plans' = plans \cup {plan}
      /\ UNCHANGED <<query, verdict, plan, rows, unsent, qualified, cost, elapsed>>
  BY DEF EndPass, PassIsOver, query_vars, pass_vars
<1>2. VType /\ pass \in 1 .. Len(query.passes)
  <2>1. VType /\ pass \in Nat \ {0} /\ pass <= Len(query.passes)
    BY <1>1 DEF VInv, VType
  <2> QED
    BY <2>1, QueryFacts
<1>3. rows \in SUBSET Nat /\ IsFiniteSet(rows) /\ Cardinality(rows) \in Nat
  <2>1. rows \in SUBSET query.ids
    BY <1>2 DEF VType
  <2> QED
    BY <1>2, <2>1, QueryFacts, FS_Subset, FS_CardinalityType
<1>4. /\ report' \in Reports
      /\ report'.qualified <= report'.verified /\ report'.verified <= report'.considered
      /\ report'.plan = "vector_shortlist" <=> report'.shortlisted # NoShortlist
      /\ report'.plan = "vector_shortlist" <=> "vector_shortlist" \in plans'
  BY <1>1, <1>3, MergedIsHonest
<1>5. VType'
  <2>1. pass' \in Nat \ {0} /\ pass' <= Len(query.passes) + 1
    BY <1>1, <1>2, QueryFacts
  <2> QED
    BY <1>1, <1>2, <1>4, <2>1 DEF VType, Judging
<1>6. ASSUME ~query.joined
      PROVE  Earliest(query.first, qualified) = Earliest(query.first, Qualifying(rows))
  <2>1. Side = "left" /\ pass = 1
    <3>1. query.passes = <<"left">>
      BY <1>2, <1>6, QueryFacts
    <3>2. Len(query.passes) = 1 /\ query.passes[1] = "left"
      BY <3>1
    <3> QED
      BY <1>2, <3>2 DEF Side
  <2> DEFINE U == {i \in unsent : Qualifies("left", i)}
  <2>2. /\ unsent \subseteq WithText("left", rows)
        /\ qualified = {i \in WithText("left", rows) \ unsent : Qualifies("left", i)}
        /\ \A i \in WithText("left", rows) \ unsent, j \in unsent : i < j
    BY <1>1, <2>1 DEF VInv, InOrder, Judged
  <2>3. Qualifying(rows) = qualified \cup U
    <3>1. \A i \in rows : Qualifies("left", i) => i \in WithText("left", rows)
      BY DEF Qualifies, WithText
    <3>2. unsent \subseteq rows /\ WithText("left", rows) \subseteq rows
      BY <1>2 DEF VType, WithText
    <3> QED
      BY <2>2, <3>1, <3>2 DEF Qualifying
  <2>4. U \in SUBSET rows /\ qualified \in SUBSET rows
    BY <1>2 DEF VType
  <2>5. \A i \in qualified, j \in U : i < j
    BY <2>2
  <2>6. U = {} \/ Cardinality(qualified) >= query.first
    BY <1>1 DEF PageFull
  <2> HIDE DEF U
  <2>7. query.first \in Nat /\ IsFiniteSet(U) /\ IsFiniteSet(qualified)
        /\ U \in SUBSET Nat /\ qualified \in SUBSET Nat
    BY <1>2, <1>3, <2>4, QueryFacts, FS_Subset
  <2> QED
    BY <2>3, <2>5, <2>6, <2>7, LaterOnesDoNotMatter
<1>7. PageIsKnown'
  <2>1. ~query.joined => (Earliest(query.first, qualified) = Earliest(query.first, Qualifying(rows)))'
    BY <1>1, <1>6 DEF Earliest, Qualifying, Qualifies
  <2> QED
    BY <1>1, <2>1 DEF PageIsKnown
<1>8. InOrder' /\ PageIsExact' /\ NoNeedlessCalls'
  BY <1>1 DEF InOrder, PageIsExact, NoNeedlessCalls
<1>9. WithinBudget'
  BY <1>1 DEF VInv, WithinBudget
<1>10. Reported' /\ ReportIsHonest'
  BY <1>1, <1>4, BoundsAreNumbers DEF Reported, ReportIsHonest
<1> QED
  BY <1>5, <1>7, <1>8, <1>9, <1>10 DEF VInv

\* The metadata of the returned rows only: what was counted stays.
LEMMA RestrictedIsHonest ==
    ASSUME VInv, NEW ids, report' = Restricted(ids), UNCHANGED plans
    PROVE  report' \in Reports \cup {NoReport} /\ Reported' /\ ReportIsHonest'
<1>1. CASE report = NoReport
  <2>1. report' = NoReport
    BY <1>1 DEF Restricted
  <2> QED
    BY <1>1, <2>1 DEF VInv, Reported, ReportIsHonest
<1>2. CASE report # NoReport
  <2> DEFINE some == [i \in DOMAIN report.records \cap ids |-> report.records[i]]
  <2>1. report \in Reports /\ report' = [report EXCEPT !.records = some]
    BY <1>2 DEF VInv, VType, Restricted
  <2>2. some \in UNION {[S -> Sides] : S \in SUBSET Ids}
    <3>1. PICK S \in SUBSET Ids : report.records \in [S -> Sides]
      BY <2>1 DEF Reports
    <3>2. some \in [S \cap ids -> Sides]
      BY <3>1
    <3> QED
      BY <3>2
  <2> HIDE DEF some
  <2>3. /\ report' \in Reports /\ report'.plan = report.plan
        /\ report'.considered = report.considered /\ report'.shortlisted = report.shortlisted
        /\ report'.verified = report.verified /\ report'.qualified = report.qualified
    BY <2>1, <2>2 DEF Reports
  <2>4. report' # NoReport
    BY <2>3, BoundsAreNumbers
  <2> QED
    BY <1>2, <2>3, <2>4 DEF VInv, Reported, ReportIsHonest
<1> QED
  BY <1>1, <1>2

LEMMA AnswerKeepsVInv == ASSUME VInv, Answer PROVE VInv'
<1> DEFINE ids == Earliest(query.first, qualified)
<1>1. /\ ~query.joined /\ phase = "idle" /\ pass > Len(query.passes)
      /\ page' = {"left"} \X ids /\ report' = Restricted(ids) /\ phase' = "answered"
      /\ UNCHANGED <<query, verdict, pass, plan, rows, unsent, qualified, cost, elapsed, plans>>
  BY DEF Answer, query_vars, pass_vars
<1>2. pass # 1
  BY <1>1, QueryFacts DEF VInv, VType
<1>3. ids = Earliest(query.first, Qualifying(rows))
  BY <1>1, <1>2 DEF VInv, PageIsKnown
<1> HIDE DEF ids
<1>4. report' \in Reports \cup {NoReport} /\ Reported' /\ ReportIsHonest'
  BY <1>1, RestrictedIsHonest
<1>5. VType'
  BY <1>1, <1>4 DEF VInv, VType, Judging
<1>6. (Earliest(query.first, Qualifying(rows)))' = ids /\ (Earliest(query.first, qualified))' = ids
  BY <1>1, <1>3 DEF Earliest, Qualifying, Qualifies, ids
<1>7. PageIsKnown' /\ PageIsExact'
  BY <1>1, <1>6 DEF PageIsKnown, PageIsExact
<1>8. InOrder' /\ NoNeedlessCalls'
  BY <1>1 DEF InOrder, NoNeedlessCalls
<1>9. WithinBudget'
  BY <1>1 DEF VInv, WithinBudget
<1> QED
  BY <1>4, <1>5, <1>7, <1>8, <1>9 DEF VInv

LEMMA AnswerJoinKeepsVInv ==
    ASSUME VInv, NEW roots \in SUBSET Ids, NEW others \in SUBSET Ids, AnswerJoin(roots, others)
    PROVE  VInv'
<1>1. /\ query.joined /\ phase = "idle" /\ report' = Restricted(roots) /\ phase' = "answered"
      /\ UNCHANGED <<query, verdict, pass, plan, rows, unsent, qualified, cost, elapsed, plans>>
  BY DEF AnswerJoin, query_vars, pass_vars
<1>2. report' \in Reports \cup {NoReport} /\ Reported' /\ ReportIsHonest'
  BY <1>1, RestrictedIsHonest
<1>3. VType'
  BY <1>1, <1>2 DEF VInv, VType, Judging
<1>4. InOrder' /\ NoNeedlessCalls' /\ PageIsKnown' /\ PageIsExact'
  BY <1>1 DEF InOrder, NoNeedlessCalls, PageIsKnown, PageIsExact
<1>5. WithinBudget'
  BY <1>1 DEF VInv, WithinBudget
<1> QED
  BY <1>2, <1>3, <1>4, <1>5 DEF VInv

LEMMA VStep == VInv /\ [Next]_vars => VInv'
<1> SUFFICES ASSUME VInv, [Next]_vars PROVE VInv'
  OBVIOUS
<1>1. ASSUME NEW S \in SUBSET Ids, NEW fell_back \in BOOLEAN, StartPass(S, fell_back) PROVE VInv'
  BY <1>1, StartPassKeepsVInv
<1>2. ASSUME NEW c \in 0 .. CallCost, NEW time \in 0 .. CallTime, Verify(c, time) PROVE VInv'
  BY <1>2, VerifyKeepsVInv
<1>3. CASE OutOfTime \/ ProviderFails
  BY <1>3, FailureKeepsVInv DEF OutOfTime, ProviderFails
<1>4. CASE EndPass
  BY <1>4, EndPassKeepsVInv
<1>5. CASE Answer
  BY <1>5, AnswerKeepsVInv
<1>6. ASSUME NEW roots \in SUBSET Ids, NEW others \in SUBSET Ids, AnswerJoin(roots, others) PROVE VInv'
  BY <1>6, AnswerJoinKeepsVInv
<1>7. CASE UNCHANGED vars
  <2>1. UNCHANGED <<query, verdict, pass, phase, plan, rows, unsent, qualified, cost, elapsed,
                    plans, report, page>>
    BY <1>7 DEF vars, query_vars, pass_vars
  <2>2. VType'
    BY <2>1 DEF VInv, VType, Judging
  <2>3. InOrder' /\ NoNeedlessCalls'
    BY <2>1 DEF VInv, InOrder, NoNeedlessCalls, Judged, WithText, Side, Qualifies, Latest
  <2>4. PageIsKnown' /\ PageIsExact'
    BY <2>1 DEF VInv, PageIsKnown, PageIsExact, Earliest, Qualifying, Qualifies
  <2>5. WithinBudget'
    BY <2>1 DEF VInv, WithinBudget
  <2> QED
    BY <2>1, <2>2, <2>3, <2>4, <2>5, ReportStays DEF VInv
<1> QED
  BY <1>1, <1>2, <1>3, <1>4, <1>5, <1>6, <1>7 DEF Next

LEMMA VInvariance == Spec => []VInv
<1> QED
  BY VInitially, VStep, PTL DEF Spec

-----------------------------------------------------------------------------
(* What holds of every semantic query.                                       *)

\* Judging stops as soon as the page is full, in batches of any size, and still
\* answers what judging every candidate would.
THEOREM EarlyStopIsExact == Spec => []PageIsExact
<1>1. VInv => PageIsExact
  BY DEF VInv
<1> QED
  BY <1>1, VInvariance, PTL

\* And it stops in time: no batch goes to the model that the page does not need.
THEOREM NothingIsWasted == Spec => []NoNeedlessCalls
<1>1. VInv => NoNeedlessCalls
  BY DEF VInv
<1> QED
  BY <1>1, VInvariance, PTL

\* A pass overspends by one call at most, and what overspent is not answered.
THEOREM SpendingIsBounded == Spec => []BudgetIsKept
<1>1. VInv => BudgetIsKept
  BY DEF VInv, WithinBudget, BudgetIsKept
<1> QED
  BY <1>1, VInvariance, PTL

\* The report of any number of passes, shortlisted or not, passes the checks of
\* its constructor and admits each shortlist.
THEOREM ReportsAreHonest == Spec => []ReportIsHonest
<1>1. VInv => ReportIsHonest
  BY DEF VInv
<1> QED
  BY <1>1, VInvariance, PTL
=============================================================================
