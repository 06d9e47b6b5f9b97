--------------------------- MODULE AssemblyProofs ---------------------------
(***************************************************************************)
(* What Assembly guarantees for every set of IDs, sources, bounds, number  *)
(* of concurrent writes and read order: the answer holds only what the     *)
(* sources held, and loses nothing they held throughout.                   *)
(***************************************************************************)
EXTENDS Assembly, FiniteSetTheorems, TLAPS

-----------------------------------------------------------------------------
(* Facts about the operators.                                              *)

\* A set of IDs has a size that is a natural number.
LEMMA IdSetsAreFinite ==
    ASSUME NEW S \in SUBSET Ids
    PROVE  Cardinality(S) \in Nat
BY DataAssumption, FS_Subset, FS_CardinalityType

\* The search only picks rows that the source found.
LEMMA NearestIsSubset ==
    ASSUME NEW S, NEW n
    PROVE  Nearest(n, S) \subseteq S
BY DEF Nearest

\* A statement's rows are rows of its source at that moment.
LEMMA RowsOfType ==
    ASSUME TypeOK, NEW s \in Sources, NEW S
    PROVE  RowsOf(s, S) \in [Ids -> Rows]
BY DEF TypeOK, RowsOf, Rows

\* The end of a step keeps the types, whatever rows the source returned.
LEMMA EndStepType ==
    ASSUME TypeOK, NEW s \in Sources, NEW r \in [Ids -> Rows], EndStep(s, r)
    PROVE  /\ got' \in [Sources -> [Ids -> Rows]]
           /\ done' \in SUBSET Sources
           /\ cur' \in Sources \cup {NoSource}
           /\ pending' \in SUBSET Ids
           /\ learned' \in BOOLEAN
           /\ keys' \in SUBSET Ids
           /\ outcome' \in {"running", "answered", "failed"}
           /\ answer' \in [Ids -> [Fields -> Rows] \cup {NoRecord}]
BY DEF TypeOK, EndStep

-----------------------------------------------------------------------------
(* Type correctness.                                                       *)

LEMMA TypeInit == Init => TypeOK
<1> SUFFICES ASSUME Init PROVE TypeOK
  OBVIOUS
<1>1. db \in [Sources -> [Ids -> Rows]] /\ was \in [Sources -> [Ids -> SUBSET Rows]]
  BY DEF Init
<1>2. got \in [Sources -> [Ids -> Rows]]
  BY DEF Init, Rows
<1>3. answer \in [Ids -> [Fields -> Rows] \cup {NoRecord}]
  BY DEF Init, NoAnswer
<1> QED
  BY <1>1, <1>2, <1>3 DEF Init, TypeOK

\* Each action keeps the types.
LEMMA TypeStep == TypeOK /\ [Next]_vars => TypeOK'
<1> SUFFICES ASSUME TypeOK, [Next]_vars PROVE TypeOK'
  OBVIOUS
<1>1. ASSUME NEW s \in Sources, NEW restrict \in BOOLEAN, ReadOnce(s, restrict)
      PROVE  TypeOK'
  <2> DEFINE search == Searches(s, restrict)
             within == restrict /\ Fits(s)
             found  == IF within THEN Held(s) \cap keys ELSE Held(s)
             r      == RowsOf(s, Taken(s, search, found))
             n      == Cardinality({i \in Ids : r[i] # Absent})
  <2>1. r \in [Ids -> Rows]
    BY RowsOfType
  <2>2. n \in Nat
    BY IdSetsAreFinite
  <2>3. UNCHANGED <<db, was, writes>>
        /\ fell_back' = (fell_back \/ (s = Anchor /\ Ranked /\ ~search))
    BY <1>1 DEF ReadOnce
  <2>7. \/ FailWith /\ UNCHANGED actuals
        \/ /\ EndStep(s, r)
           /\ actuals' = IF Teaches(search, within) THEN actuals \cup {<<s, n>>} ELSE actuals
    BY <1>1 DEF ReadOnce
  <2> HIDE DEF search, within, found, r, n
  <2>4. fell_back' \in BOOLEAN
    BY <2>3 DEF TypeOK
  <2>5. CASE FailWith /\ UNCHANGED actuals
    BY <2>3, <2>4, <2>5 DEF FailWith, TypeOK
  <2>6. CASE /\ EndStep(s, r)
             /\ actuals' = IF Teaches(search, within) THEN actuals \cup {<<s, n>>} ELSE actuals
    <3>1. actuals' \in SUBSET (Sources \X Nat)
      BY <2>2, <2>6 DEF TypeOK
    <3> QED
      BY <2>1, <2>3, <2>4, <2>6, <3>1, EndStepType DEF TypeOK
  <2> QED
    BY <2>5, <2>6, <2>7
<1>2. ASSUME NEW s \in Sources, StartBatches(s) PROVE TypeOK'
  BY <1>2 DEF StartBatches, TypeOK
<1>3. ASSUME NEW batch \in SUBSET pending, ReadBatch(batch) PROVE TypeOK'
  <2> DEFINE r == [i \in Ids |-> IF i \in batch THEN db[cur][i] ELSE got[cur][i]]
  <2>1. cur \in Sources /\ UNCHANGED <<db, was, writes, fell_back, actuals>>
    BY <1>3 DEF ReadBatch, TypeOK
  <2>2. r \in [Ids -> Rows]
    BY <2>1 DEF TypeOK
  <2>3. CASE FailWith
    BY <2>1, <2>3 DEF FailWith, TypeOK
  <2>4. CASE EndStep(cur, r)
    BY <2>1, <2>2, <2>4, EndStepType DEF TypeOK
  <2>5. CASE /\ got' = [got EXCEPT ![cur] = r]
             /\ pending' = pending \ batch
             /\ UNCHANGED <<done, cur, learned, keys, outcome, answer>>
    BY <2>1, <2>2, <2>5 DEF TypeOK
  <2> QED
    BY <1>3, <2>3, <2>4, <2>5 DEF ReadBatch
<1>4. CASE ReadFails
  BY <1>4 DEF ReadFails, FailWith, TypeOK
<1>5. CASE Assemble
  BY <1>5 DEF Assemble, Record, TypeOK, Fields, Sources
<1>6. ASSUME NEW s \in Sources, NEW i \in Ids, NEW v \in Rows, Write(s, i, v)
      PROVE  TypeOK'
  BY <1>6 DEF Write, TypeOK
<1>7. CASE UNCHANGED vars
  BY <1>7 DEF vars, TypeOK
<1> QED
  BY <1>1, <1>2, <1>3, <1>4, <1>5, <1>6, <1>7 DEF Next, Step

\* Every variable keeps its type: in particular the learned IDs, the rows and
\* the records stay within the IDs, sources and rows of the plan.
THEOREM TypeCorrect == Spec => []TypeOK
<1>1. Init => TypeOK
  BY TypeInit
<1>2. TypeOK /\ [Next]_vars => TypeOK'
  BY TypeStep
<1> QED
  BY <1>1, <1>2, PTL DEF Spec

-----------------------------------------------------------------------------
(* The inductive invariant.                                                *)

\* The history includes the present.
HistoryIsCurrent == \A s \in Sources, i \in Ids : db[s][i] \in was[s][i]

\* A row the executor received is a row the source held.
RowsWereHeld ==
    \A s \in Sources, i \in Ids : got[s][i] # Absent => got[s][i] \in was[s][i]

\* A batched read belongs to a source that is not over yet, and the IDs it has
\* still to send are learned ones.
BatchIsOpen ==
    /\ cur # NoSource => cur \notin done /\ learned /\ pending \subseteq keys
    /\ cur = NoSource => pending = {}

\* The learned IDs are those every narrowing source read so far returned.
KeysAreTheIntersection ==
    /\ learned <=> done \cap Narrowing # {}
    /\ learned => keys = {i \in Ids : \A s \in done \cap Narrowing : got[s][i] # Absent}

\* A source that was asked about an ID, and said nothing, really held nothing
\* at that moment.  A finished step asked about every ID still learned; a
\* batched read about every learned ID it has no longer pending.
Asked(s, i) == \/ s \in done /\ (learned => i \in keys)
               \/ s = cur /\ i \in keys \ pending

SilenceIsHonest ==
    \A s \in Optional, i \in Ids : Asked(s, i) => got[s][i] \in was[s][i]

\* No shortlist has cut the records so far.
Uncut == Store = {} /\ (Ranked /\ Anchor \in done => fell_back)

NothingIsLost ==
    Uncut => \A i \in Ids : AlwaysHeld(Narrowing, i) =>
        /\ \A s \in done \cap Narrowing : got[s][i] # Absent
        /\ cur \in Narrowing /\ i \in keys \ pending => got[cur][i] # Absent

FallbackIsTheAnchors == outcome = "running" /\ fell_back => Anchor \in done \cup {cur}

\* The executor holds no rows of a source it has not read.
UnreadIsEmpty ==
    \A s \in Sources \ (done \cup {cur}) : \A i \in Ids : got[s][i] = Absent

NoAnswerYet == outcome # "answered" => answer = NoAnswer

IInv == /\ HistoryIsCurrent
        /\ RowsWereHeld
        /\ BatchIsOpen
        /\ KeysAreTheIntersection
        /\ SilenceIsHonest
        /\ NothingIsLost
        /\ FallbackIsTheAnchors
        /\ UnreadIsEmpty
        /\ NoAnswerYet
        /\ AnswerIsSound
        /\ AnswerIsComplete
        /\ RowsAreGuarded

LEMMA InvInit == Init => IInv
<1> SUFFICES ASSUME Init PROVE IInv
  OBVIOUS
<1>1. HistoryIsCurrent
  BY DEF Init, HistoryIsCurrent
<1>2. RowsWereHeld /\ BatchIsOpen /\ FallbackIsTheAnchors /\ UnreadIsEmpty /\ NoAnswerYet
  BY DEF Init, RowsWereHeld, BatchIsOpen, FallbackIsTheAnchors, UnreadIsEmpty, NoAnswerYet
<1>3. KeysAreTheIntersection
  BY DEF Init, KeysAreTheIntersection
<1>4. SilenceIsHonest
  BY SourcesAssumption DEF Init, SilenceIsHonest, Asked, Sources
<1>5. NothingIsLost
  BY SourcesAssumption DEF Init, NothingIsLost
<1>6. AnswerIsSound /\ AnswerIsComplete
  BY DEF Init, AnswerIsSound, AnswerIsComplete
<1>7. RowsAreGuarded
  <2> SUFFICES ASSUME NEW s \in Sources PROVE Cardinality(RowIds(s)) <= MaxRows[s]
    BY DEF RowsAreGuarded
  <2>1. RowIds(s) = {}
    BY DEF Init, RowIds
  <2> QED
    BY <2>1, FS_EmptySet, BoundsAssumption
<1> QED
  BY <1>1, <1>2, <1>3, <1>4, <1>5, <1>6, <1>7 DEF IInv

\* What is left to show of a step's rows once its bookkeeping is understood:
\* they are rows the source held, they answer for every learned ID, an unranked
\* read drops none, and the guard was applied.
GoodRows(s, r) ==
    /\ \A i \in Ids : r[i] # Absent => r[i] \in was[s][i]
    /\ s \in Optional => \A i \in Ids : (learned => i \in keys) => r[i] \in was[s][i]
    /\ Uncut' /\ s \in Narrowing =>
           \A i \in Ids : AlwaysHeld(Narrowing, i) /\ (learned => i \in keys) => r[i] # Absent
    /\ s \notin Store /\ (Ranked /\ s = Anchor => fell_back') =>
           Cardinality({i \in Ids : r[i] # Absent}) <= MaxRows[s]

\* The bookkeeping at the end of a step keeps the invariant.
LEMMA EndStepKeepsInv ==
    ASSUME TypeOK, IInv, NEW s \in Sources, NEW r \in [Ids -> Rows],
           EndStep(s, r), GoodRows(s, r),
           outcome = "running", s \notin done, cur \in {NoSource, s},
           UNCHANGED <<db, was>>,
           fell_back' \in BOOLEAN, fell_back => fell_back',
           s # Anchor => fell_back' = fell_back
    PROVE  IInv'
<1> DEFINE ids == {i \in Ids : r[i] # Absent}
<1>1. /\ got' = [got EXCEPT ![s] = r] /\ done' = done \cup {s}
      /\ cur' = NoSource /\ pending' = {} /\ answer' = answer
      /\ was' = was /\ db' = db
  BY DEF EndStep
<1>2. s \in Narrowing => /\ learned' = TRUE
                         /\ keys' = IF learned THEN keys \cap ids ELSE ids
  BY DEF EndStep
<1>3. s \notin Narrowing => learned' = learned /\ keys' = keys
  BY DEF EndStep
<1>4. \A t \in Sources : got'[t] = IF t = s THEN r ELSE got[t]
  BY <1>1 DEF TypeOK
<1>5. Uncut' => Uncut
  BY <1>1 DEF Uncut
<1>6. learned => learned' /\ keys' \subseteq keys
  BY <1>2, <1>3
<1>7. Narrowing \subseteq Sources /\ NoSource \notin Narrowing /\ NoSource \notin Optional
      /\ Optional \subseteq Sources /\ Optional \cap Narrowing = {}
  BY SourcesAssumption DEF Narrowing, Sources
<1>8. HistoryIsCurrent'
  BY <1>1 DEF IInv, HistoryIsCurrent
<1>9. RowsWereHeld'
  BY <1>1, <1>4 DEF IInv, RowsWereHeld, GoodRows
<1>10. BatchIsOpen' /\ FallbackIsTheAnchors' /\ UnreadIsEmpty'
  BY <1>1, <1>4 DEF IInv, BatchIsOpen, FallbackIsTheAnchors, UnreadIsEmpty
<1>11. KeysAreTheIntersection'
  <2>1. KeysAreTheIntersection
    BY DEF IInv
  <2>2. CASE s \in Narrowing
    <3>1. done' \cap Narrowing = (done \cap Narrowing) \cup {s}
      BY <1>1, <2>2
    <3>2. learned' <=> done' \cap Narrowing # {}
      BY <3>1, <2>2, <1>2
    <3>3. \A i \in Ids : i \in keys' <=> \A t \in done' \cap Narrowing : got'[t][i] # Absent
      <4>1. ASSUME NEW i \in Ids
            PROVE (\A t \in done' \cap Narrowing : got'[t][i] # Absent)
                  <=> (\A t \in done \cap Narrowing : got[t][i] # Absent) /\ r[i] # Absent
        BY <3>1, <1>4, <1>7
      <4>2. CASE learned
        BY <4>1, <4>2, <2>1, <2>2, <1>2 DEF KeysAreTheIntersection
      <4>3. CASE ~learned
        BY <4>1, <4>3, <2>1, <2>2, <1>2 DEF KeysAreTheIntersection
      <4> QED
        BY <4>2, <4>3 DEF TypeOK
    <3>4. keys' \subseteq Ids
      BY <1>2, <2>2 DEF TypeOK
    <3> QED
      BY <3>2, <3>3, <3>4 DEF KeysAreTheIntersection
  <2>3. CASE s \notin Narrowing
    <3>1. done' \cap Narrowing = done \cap Narrowing
      BY <1>1, <2>3
    <3>2. \A t \in done \cap Narrowing : got'[t] = got[t]
      BY <1>4, <1>7, <2>3
    <3> QED
      BY <3>1, <3>2, <2>1, <2>3, <1>3 DEF KeysAreTheIntersection
  <2> QED
    BY <2>2, <2>3
<1>12. SilenceIsHonest'
  <2> SUFFICES ASSUME NEW t \in Optional, NEW i \in Ids, Asked(t, i)'
               PROVE  got'[t][i] \in was'[t][i]
    BY DEF SilenceIsHonest
  <2>1. t \in done' /\ (learned' => i \in keys')
    BY <1>1, <1>7 DEF Asked
  <2>2. CASE t = s
    BY <2>1, <2>2, <1>1, <1>3, <1>4, <1>7 DEF GoodRows
  <2>3. CASE t # s
    <3>1. Asked(t, i)
      BY <2>1, <2>3, <1>1, <1>6 DEF Asked
    <3>2. got[t][i] \in was[t][i]
      BY <3>1 DEF IInv, SilenceIsHonest
    <3> QED
      BY <2>3, <3>2, <1>1, <1>4, <1>7
  <2> QED
    BY <2>2, <2>3
<1>13. NothingIsLost'
  <2> SUFFICES ASSUME Uncut', NEW i \in Ids, AlwaysHeld(Narrowing, i)
               PROVE  \A t \in done' \cap Narrowing : got'[t][i] # Absent
    BY <1>1, <1>7 DEF NothingIsLost, AlwaysHeld
  <2>1. \A t \in done \cap Narrowing : got[t][i] # Absent
    BY <1>5 DEF IInv, NothingIsLost
  <2>2. learned => i \in keys
    BY <2>1 DEF IInv, KeysAreTheIntersection
  <2>3. s \in Narrowing => r[i] # Absent
    BY <2>2 DEF GoodRows
  <2> QED
    BY <2>1, <2>3, <1>1, <1>4, <1>7
<1>14. NoAnswerYet' /\ answer' = NoAnswer
  BY <1>1 DEF IInv, NoAnswerYet
<1>15. AnswerIsSound'
  BY <1>14 DEF AnswerIsSound, Returned, NoAnswer
<1>16. AnswerIsComplete'
  <2> SUFFICES ASSUME outcome' = "answered", Store = {}, Ranked => fell_back',
                      NEW i \in Ids, AlwaysHeld(Narrowing, i)
               PROVE  FALSE
    BY <1>1 DEF AnswerIsComplete, AlwaysHeld
  <2>1. s \in Narrowing /\ keys' = {}
    BY DEF EndStep
  <2>2. \A t \in done' \cap Narrowing : got'[t][i] # Absent
    BY <1>1, <1>13 DEF NothingIsLost, Uncut, AlwaysHeld
  <2>3. i \in keys'
    BY <1>2, <1>11, <2>1, <2>2 DEF KeysAreTheIntersection
  <2> QED
    BY <2>1, <2>3
<1>17. RowsAreGuarded'
  <2> SUFFICES ASSUME NEW t \in Sources \ Store, Ranked /\ t = Anchor => fell_back'
               PROVE  Cardinality(RowIds(t)') <= MaxRows[t]
    BY DEF RowsAreGuarded
  <2>1. CASE t = s
    <3>1. RowIds(t)' = ids
      BY <2>1, <1>4 DEF RowIds
    <3> QED
      BY <2>1, <3>1 DEF GoodRows
  <2>2. CASE t # s
    <3>1. RowIds(t)' = RowIds(t)
      BY <2>2, <1>4 DEF RowIds
    <3>2. Ranked /\ t = Anchor => fell_back
      BY <2>2, <1>1 DEF IInv, FallbackIsTheAnchors
    <3> QED
      BY <3>1, <3>2 DEF IInv, RowsAreGuarded
  <2> QED
    BY <2>1, <2>2
<1> QED
  BY <1>8, <1>9, <1>10, <1>11, <1>12, <1>13, <1>14, <1>15, <1>16, <1>17 DEF IInv

\* A read that fails keeps the invariant, also when a fallback was just decided.
LEMMA FailureKeepsInv ==
    ASSUME TypeOK, IInv, FailWith, outcome = "running",
           UNCHANGED <<db, was>>,
           fell_back' # fell_back => Anchor \notin done \cup {cur} /\ fell_back' = TRUE
    PROVE  IInv'
<1>1. UNCHANGED <<db, was, done, cur, pending, learned, keys, got, answer>>
      /\ outcome' = "failed"
  BY DEF FailWith
<1>2. /\ HistoryIsCurrent' /\ RowsWereHeld' /\ BatchIsOpen' /\ KeysAreTheIntersection'
      /\ UnreadIsEmpty'
  BY <1>1 DEF IInv, HistoryIsCurrent, RowsWereHeld, BatchIsOpen, KeysAreTheIntersection,
     UnreadIsEmpty
<1>3. SilenceIsHonest'
  BY <1>1 DEF IInv, SilenceIsHonest, Asked
<1>4. Uncut' => Uncut
  BY <1>1 DEF Uncut
<1>5. NothingIsLost'
  BY <1>1, <1>4 DEF IInv, NothingIsLost, AlwaysHeld
<1>6. FallbackIsTheAnchors' /\ NoAnswerYet' /\ AnswerIsSound' /\ AnswerIsComplete'
  BY <1>1 DEF IInv, FallbackIsTheAnchors, NoAnswerYet, AnswerIsSound, AnswerIsComplete
<1>7. RowsAreGuarded'
  <2> SUFFICES ASSUME NEW s \in Sources \ Store, Ranked /\ s = Anchor => fell_back'
               PROVE  Cardinality(RowIds(s)) <= MaxRows[s]
    BY <1>1 DEF RowsAreGuarded, RowIds
  <2>1. CASE Ranked /\ s = Anchor => fell_back
    BY <2>1 DEF IInv, RowsAreGuarded
  <2>2. CASE s = Anchor /\ fell_back' # fell_back
    <3>1. RowIds(s) = {}
      BY <2>2 DEF IInv, UnreadIsEmpty, RowIds
    <3> QED
      BY <3>1, FS_EmptySet, BoundsAssumption
  <2> QED
    BY <2>1, <2>2
<1> QED
  BY <1>2, <1>3, <1>5, <1>6, <1>7 DEF IInv

\* A step of one statement keeps the invariant.
LEMMA ReadOnceKeepsInv ==
    ASSUME TypeOK, IInv, NEW s \in Sources, NEW restrict \in BOOLEAN, ReadOnce(s, restrict)
    PROVE  IInv'
<1> DEFINE search == Searches(s, restrict)
           within == restrict /\ Fits(s)
           found  == IF within THEN Held(s) \cap keys ELSE Held(s)
           taken  == Taken(s, search, found)
           r      == RowsOf(s, taken)
<1>1. /\ outcome = "running" /\ cur = NoSource /\ s \notin done
      /\ fell_back' = (fell_back \/ (s = Anchor /\ Ranked /\ ~search))
      /\ db' = db /\ was' = was
  BY DEF ReadOnce, Scheduled
<1>2. \/ ~search /\ Overflows(s, r) /\ FailWith
      \/ (search \/ ~Overflows(s, r)) /\ EndStep(s, r)
  BY DEF ReadOnce
<1>3. search \in BOOLEAN /\ fell_back' \in BOOLEAN /\ fell_back \in BOOLEAN
  BY <1>1, BoundsAssumption DEF Searches, TypeOK
<1>4. r \in [Ids -> Rows]
  BY RowsOfType
<1>5. taken \subseteq found /\ found \subseteq Held(s) /\ (~search => taken = found)
  BY NearestIsSubset DEF Taken
<1>6. \A i \in Ids : r[i] = IF i \in taken THEN db[s][i] ELSE Absent
  BY DEF RowsOf
<1>7. learned = TRUE <=> learned
  OBVIOUS
<1>8. within => learned
  BY DEF Fits
<1>9. \A i \in Ids : db[s][i] # Absent /\ (learned => i \in keys) => i \in found
  BY <1>8 DEF Held
<1>10. s = Anchor => fell_back = FALSE
  BY <1>1, <1>3, SourcesAssumption DEF IInv, FallbackIsTheAnchors, Sources
<1>11. search => s \in Store \/ (s = Anchor /\ Ranked)
  BY DEF Searches
<1> HIDE DEF search, within, found, taken, r
<1>12. CASE EndStep(s, r) /\ (search \/ ~Overflows(s, r))
  <2>1. \A i \in Ids : r[i] # Absent => r[i] \in was[s][i]
    BY <1>6 DEF IInv, HistoryIsCurrent
  <2>2. ASSUME s \in Optional, NEW i \in Ids, learned => i \in keys
        PROVE  r[i] \in was[s][i]
    <3>1. ~search
      BY <1>11, <2>2, SourcesAssumption
    <3>2. r[i] = db[s][i]
      BY <3>1, <2>2, <1>5, <1>6, <1>9
    <3> QED
      BY <3>2 DEF IInv, HistoryIsCurrent
  <2>3. ASSUME Uncut', s \in Narrowing, NEW i \in Ids, AlwaysHeld(Narrowing, i), learned => i \in keys
        PROVE  r[i] # Absent
    <3>1. ~search
      <4>1. s \notin Store
        BY <2>3 DEF Uncut
      <4>2. CASE s = Anchor /\ Ranked
        <5>1. Anchor \in done'
          BY <1>12, <4>2 DEF EndStep
        <5> QED
          BY <5>1, <2>3, <4>2, <1>1, <1>3, <1>10 DEF Uncut
      <4> QED
        BY <4>1, <4>2, <1>11
    <3>2. db[s][i] # Absent
      BY <2>3 DEF IInv, HistoryIsCurrent, AlwaysHeld
    <3> QED
      BY <3>1, <3>2, <2>3, <1>5, <1>6, <1>9
  <2>4. ASSUME s \notin Store, Ranked /\ s = Anchor => fell_back'
        PROVE  Cardinality({i \in Ids : r[i] # Absent}) <= MaxRows[s]
    <3>1. ~search
      BY <2>4, <1>1, <1>3, <1>10, <1>11
    <3>2. ~(Cardinality({i \in Ids : r[i] # Absent}) > MaxRows[s])
      BY <3>1, <1>12 DEF Overflows
    <3>3. Cardinality({i \in Ids : r[i] # Absent}) \in Nat
      BY IdSetsAreFinite
    <3> QED
      BY <3>2, <3>3, BoundsAssumption
  <2>5. GoodRows(s, r)
    BY <2>1, <2>2, <2>3, <2>4 DEF GoodRows
  <2>6. fell_back => fell_back'
    BY <1>1, <1>3
  <2>7. s # Anchor => fell_back' = fell_back
    BY <1>1, <1>3
  <2> QED
    BY <1>1, <1>3, <1>4, <1>12, <2>5, <2>6, <2>7, EndStepKeepsInv
<1>13. CASE FailWith /\ ~search
  <2>1. fell_back' # fell_back => s = Anchor /\ fell_back' = TRUE
    BY <1>1, <1>3
  <2>2. Anchor \in Sources
    BY DEF Sources
  <2>3. fell_back' # fell_back => Anchor \notin done \cup {cur} /\ fell_back' = TRUE
    BY <2>1, <2>2, <1>1, SourcesAssumption
  <2> QED
    BY <2>3, <1>1, <1>13, FailureKeepsInv
<1> QED
  BY <1>2, <1>12, <1>13

\* Deciding to send the IDs in batches keeps the invariant.
LEMMA StartBatchesKeepsInv ==
    ASSUME TypeOK, IInv, NEW s \in Sources, StartBatches(s)
    PROVE  IInv'
<1>1. /\ outcome = "running" /\ cur = NoSource /\ s \notin done /\ learned
      /\ cur' = s /\ pending' = keys
      /\ fell_back' = (fell_back \/ (s = Anchor /\ Ranked))
      /\ UNCHANGED <<db, was, done, learned, keys, got, outcome, answer>>
  BY DEF StartBatches, Scheduled, FitsInBatches
<1>2. fell_back \in BOOLEAN /\ (s # Anchor => fell_back' = fell_back) /\ (fell_back => fell_back')
  BY <1>1 DEF TypeOK
<1>3. /\ HistoryIsCurrent' /\ RowsWereHeld' /\ BatchIsOpen' /\ KeysAreTheIntersection'
      /\ UnreadIsEmpty' /\ NoAnswerYet'
  BY <1>1, SourcesAssumption DEF IInv, HistoryIsCurrent, RowsWereHeld, BatchIsOpen,
     KeysAreTheIntersection, UnreadIsEmpty, NoAnswerYet
<1>4. SilenceIsHonest'
  BY <1>1 DEF IInv, SilenceIsHonest, Asked
<1>5. Uncut' => Uncut
  BY <1>1, <1>2 DEF Uncut
<1>6. NothingIsLost'
  BY <1>1, <1>5 DEF IInv, NothingIsLost, AlwaysHeld
<1>7. FallbackIsTheAnchors' /\ AnswerIsSound' /\ AnswerIsComplete'
  BY <1>1, <1>2, SourcesAssumption DEF IInv, FallbackIsTheAnchors, AnswerIsSound, AnswerIsComplete, Sources
<1>8. RowsAreGuarded'
  <2> SUFFICES ASSUME NEW t \in Sources \ Store, Ranked /\ t = Anchor => fell_back'
               PROVE  Cardinality(RowIds(t)) <= MaxRows[t]
    BY <1>1 DEF RowsAreGuarded, RowIds
  <2>1. CASE t = s
    <3>1. RowIds(t) = {}
      BY <2>1, <1>1, SourcesAssumption DEF IInv, UnreadIsEmpty, RowIds
    <3> QED
      BY <3>1, FS_EmptySet, BoundsAssumption
  <2>2. CASE t # s
    BY <2>2, <1>1, <1>2 DEF IInv, RowsAreGuarded
  <2> QED
    BY <2>1, <2>2
<1> QED
  BY <1>3, <1>4, <1>6, <1>7, <1>8 DEF IInv

\* Each batch keeps the invariant, the last one as the end of its step.
LEMMA ReadBatchKeepsInv ==
    ASSUME TypeOK, IInv, NEW batch \in SUBSET pending, ReadBatch(batch)
    PROVE  IInv'
<1> DEFINE r == [i \in Ids |-> IF i \in batch THEN db[cur][i] ELSE got[cur][i]]
<1>1. /\ outcome = "running" /\ cur # NoSource /\ cur \in Sources
      /\ UNCHANGED <<db, was, fell_back>>
  BY DEF ReadBatch, TypeOK
<1>2. cur \notin done /\ learned /\ pending \subseteq keys
  BY <1>1 DEF IInv, BatchIsOpen
<1>3. r \in [Ids -> Rows]
  BY <1>1 DEF TypeOK
<1>4. \/ FailWith
      \/ ~Overflows(cur, r) /\ pending = batch /\ EndStep(cur, r)
      \/ /\ ~Overflows(cur, r)
         /\ got' = [got EXCEPT ![cur] = r]
         /\ pending' = pending \ batch
         /\ UNCHANGED <<done, cur, learned, keys, outcome, answer>>
  BY DEF ReadBatch, AllWithinGuard
<1>5. \A i \in Ids : r[i] = IF i \in batch THEN db[cur][i] ELSE got[cur][i]
  OBVIOUS
<1> HIDE DEF r
<1>6. \A i \in Ids : r[i] # Absent => r[i] \in was[cur][i]
  BY <1>1, <1>5 DEF IInv, HistoryIsCurrent, RowsWereHeld
<1>7. cur \in Optional => \A i \in Ids : i \in keys \ (pending \ batch) => r[i] \in was[cur][i]
  <2> SUFFICES ASSUME cur \in Optional, NEW i \in Ids, i \in keys \ (pending \ batch)
               PROVE  r[i] \in was[cur][i]
    OBVIOUS
  <2>1. CASE i \in batch
    BY <2>1, <1>1, <1>5 DEF IInv, HistoryIsCurrent
  <2>2. CASE i \notin batch
    BY <2>2, <1>5 DEF IInv, SilenceIsHonest, Asked
  <2> QED
    BY <2>1, <2>2
<1>8. Uncut /\ cur \in Narrowing => \A i \in Ids :
        AlwaysHeld(Narrowing, i) /\ i \in keys \ (pending \ batch) => r[i] # Absent
  <2> SUFFICES ASSUME Uncut, cur \in Narrowing, NEW i \in Ids, AlwaysHeld(Narrowing, i),
                      i \in keys \ (pending \ batch)
               PROVE  r[i] # Absent
    OBVIOUS
  <2>1. CASE i \in batch
    BY <2>1, <1>1, <1>5 DEF IInv, HistoryIsCurrent, AlwaysHeld
  <2>2. CASE i \notin batch
    BY <2>2, <1>5 DEF IInv, NothingIsLost
  <2> QED
    BY <2>1, <2>2
<1>9. ~Overflows(cur, r) => Cardinality({i \in Ids : r[i] # Absent}) <= MaxRows[cur]
  BY <1>1, IdSetsAreFinite, BoundsAssumption DEF Overflows
<1>10. CASE FailWith
  BY <1>1, <1>10, FailureKeepsInv
<1>11. CASE ~Overflows(cur, r) /\ pending = batch /\ EndStep(cur, r)
  <2>1. Uncut' => Uncut
    BY <1>1, <1>11 DEF EndStep, Uncut
  <2>2. GoodRows(cur, r)
    BY <2>1, <1>2, <1>6, <1>7, <1>8, <1>9, <1>11 DEF GoodRows
  <2>3. fell_back' \in BOOLEAN
    BY <1>1 DEF TypeOK
  <2> QED
    BY <2>2, <2>3, <1>1, <1>2, <1>3, <1>11, EndStepKeepsInv
<1>12. CASE /\ ~Overflows(cur, r)
            /\ got' = [got EXCEPT ![cur] = r]
            /\ pending' = pending \ batch
            /\ UNCHANGED <<done, cur, learned, keys, outcome, answer>>
  <2>1. \A t \in Sources : got'[t] = IF t = cur THEN r ELSE got[t]
    BY <1>1, <1>12 DEF TypeOK
  <2>2. done \subseteq Sources /\ Narrowing \subseteq Sources /\ Optional \subseteq Sources
    BY DEF TypeOK, Narrowing, Sources
  <2>3. HistoryIsCurrent' /\ BatchIsOpen' /\ FallbackIsTheAnchors' /\ NoAnswerYet'
    BY <1>1, <1>12 DEF IInv, HistoryIsCurrent, BatchIsOpen, FallbackIsTheAnchors, NoAnswerYet
  <2>4. RowsWereHeld' /\ UnreadIsEmpty'
    BY <2>1, <1>1, <1>6, <1>12 DEF IInv, RowsWereHeld, UnreadIsEmpty
  <2>5. KeysAreTheIntersection'
    <3>1. \A t \in done \cap Narrowing : got'[t] = got[t]
      BY <2>1, <2>2, <1>2
    <3> QED
      BY <3>1, <1>12 DEF IInv, KeysAreTheIntersection
  <2>6. SilenceIsHonest'
    BY <2>1, <2>2, <1>1, <1>2, <1>7, <1>12 DEF IInv, SilenceIsHonest, Asked
  <2>7. NothingIsLost'
    <3>1. Uncut' => Uncut
      BY <1>1, <1>12 DEF Uncut
    <3> SUFFICES ASSUME Uncut, NEW i \in Ids, AlwaysHeld(Narrowing, i)
                 PROVE  /\ \A t \in done \cap Narrowing : got'[t][i] # Absent
                        /\ cur \in Narrowing /\ i \in keys \ (pending \ batch) => got'[cur][i] # Absent
      BY <3>1, <1>1, <1>12 DEF NothingIsLost, AlwaysHeld
    <3>2. \A t \in done \cap Narrowing : got'[t][i] # Absent
      BY <2>1, <2>2, <1>2 DEF IInv, NothingIsLost
    <3>3. cur \in Narrowing /\ i \in keys \ (pending \ batch) => got'[cur][i] # Absent
      BY <2>1, <1>1, <1>8
    <3> QED
      BY <3>2, <3>3
  <2>8. AnswerIsSound' /\ AnswerIsComplete'
    BY <1>1, <1>12 DEF AnswerIsSound, AnswerIsComplete
  <2>9. RowsAreGuarded'
    <3> SUFFICES ASSUME NEW t \in Sources \ Store, Ranked /\ t = Anchor => fell_back
                 PROVE  Cardinality(RowIds(t)') <= MaxRows[t]
      BY <1>1 DEF RowsAreGuarded
    <3>1. RowIds(t)' = IF t = cur THEN {i \in Ids : r[i] # Absent} ELSE RowIds(t)
      BY <2>1 DEF RowIds
    <3> QED
      BY <3>1, <1>9, <1>12 DEF IInv, RowsAreGuarded
  <2> QED
    BY <2>3, <2>4, <2>5, <2>6, <2>7, <2>8, <2>9 DEF IInv
<1> QED
  BY <1>4, <1>10, <1>11, <1>12

\* Putting the records together keeps the invariant: here the answer is judged.
LEMMA AssembleKeepsInv ==
    ASSUME TypeOK, IInv, Assemble
    PROVE  IInv'
<1>1. /\ outcome = "running" /\ cur = NoSource /\ done = Sources
      /\ answer' = [i \in Ids |-> Record(got, i)] /\ outcome' = "answered"
      /\ UNCHANGED <<db, was, done, cur, pending, learned, keys, got, fell_back>>
  BY DEF Assemble
<1>2. /\ HistoryIsCurrent' /\ RowsWereHeld' /\ BatchIsOpen' /\ KeysAreTheIntersection'
      /\ UnreadIsEmpty' /\ FallbackIsTheAnchors' /\ NoAnswerYet'
  BY <1>1 DEF IInv, HistoryIsCurrent, RowsWereHeld, BatchIsOpen, KeysAreTheIntersection,
     UnreadIsEmpty, FallbackIsTheAnchors, NoAnswerYet
<1>3. SilenceIsHonest' /\ NothingIsLost' /\ RowsAreGuarded'
  BY <1>1 DEF IInv, SilenceIsHonest, Asked, NothingIsLost, Uncut, AlwaysHeld, RowsAreGuarded, RowIds
<1>4. \A i \in Ids : i \in Returned' <=> \A s \in Narrowing : got[s][i] # Absent
  <2> SUFFICES ASSUME NEW i \in Ids
               PROVE  answer'[i] # NoRecord <=> \A s \in Narrowing : got[s][i] # Absent
    BY DEF Returned
  <2>1. [s \in Fields |-> got[s][i]] \in [Fields -> Rows]
    BY DEF TypeOK, Fields, Sources
  <2> QED
    BY <2>1, <1>1, DataAssumption DEF Record
<1>5. \A i \in Returned' : answer'[i] = [s \in Fields |-> got[s][i]] /\ i \in Ids
  <2> SUFFICES ASSUME NEW i \in Returned'
               PROVE  answer'[i] = [s \in Fields |-> got[s][i]] /\ i \in Ids
    OBVIOUS
  <2>1. i \in Ids
    BY DEF Returned
  <2> QED
    BY <2>1, <1>1, <1>4 DEF Record
<1>6. Narrowing \subseteq Sources /\ Fields \subseteq Sources /\ Anchor \in Narrowing
      /\ Fields \subseteq Narrowing \cup Optional
  BY DEF Narrowing, Fields, Sources
<1>7. AnswerIsSound'
  <2> SUFFICES ASSUME NEW i \in Returned'
               PROVE  /\ \A s \in Fields : answer'[i][s] \in was[s][i]
                      /\ \A s \in Narrowing : was[s][i] # {Absent}
                      /\ \A s \in Fields \cap Narrowing : answer'[i][s] # Absent
    BY <1>1 DEF AnswerIsSound
  <2>1. \A s \in Narrowing : got[s][i] # Absent /\ got[s][i] \in was[s][i]
    BY <1>4, <1>5, <1>6 DEF IInv, RowsWereHeld
  <2>2. i \in keys
    BY <2>1, <1>1, <1>5, <1>6 DEF IInv, KeysAreTheIntersection
  <2>3. \A s \in Optional : got[s][i] \in was[s][i]
    BY <2>2, <1>1, <1>5 DEF IInv, SilenceIsHonest, Asked, Sources
  <2>4. \A s \in Fields : answer'[i][s] = got[s][i]
    BY <1>5
  <2> QED
    BY <2>1, <2>3, <2>4, <1>6
<1>8. AnswerIsComplete'
  <2> SUFFICES ASSUME Store = {}, Ranked => fell_back, NEW i \in Ids, AlwaysHeld(Narrowing, i)
               PROVE  i \in Returned'
    BY <1>1 DEF AnswerIsComplete, AlwaysHeld
  <2>1. \A s \in Narrowing : got[s][i] # Absent
    BY <1>1, <1>6 DEF IInv, NothingIsLost, Uncut
  <2> QED
    BY <2>1, <1>4
<1> QED
  BY <1>2, <1>3, <1>7, <1>8 DEF IInv

\* The writes of other programs keep the invariant: the history only grows.
LEMMA WriteKeepsInv ==
    ASSUME TypeOK, IInv, NEW s \in Sources, NEW i \in Ids, NEW v \in Rows, Write(s, i, v)
    PROVE  IInv'
<1>1. /\ outcome = "running"
      /\ db' = [db EXCEPT ![s][i] = v]
      /\ was' = [was EXCEPT ![s][i] = @ \cup {v}]
      /\ UNCHANGED <<done, cur, pending, learned, keys, got, fell_back, outcome, answer>>
  BY DEF Write
<1>2. \A t \in Sources, j \in Ids : was[t][j] \subseteq was'[t][j]
  BY <1>1 DEF TypeOK
<1>3. HistoryIsCurrent'
  BY <1>1 DEF TypeOK, IInv, HistoryIsCurrent
<1>4. RowsWereHeld'
  BY <1>1, <1>2 DEF IInv, RowsWereHeld
<1>5. /\ BatchIsOpen' /\ KeysAreTheIntersection' /\ FallbackIsTheAnchors' /\ UnreadIsEmpty'
      /\ NoAnswerYet'
  BY <1>1 DEF IInv, BatchIsOpen, KeysAreTheIntersection, FallbackIsTheAnchors, UnreadIsEmpty, NoAnswerYet
<1>6. SilenceIsHonest'
  BY <1>1, <1>2 DEF IInv, SilenceIsHonest, Asked, Sources
<1>7. \A j \in Ids : AlwaysHeld(Narrowing, j)' => AlwaysHeld(Narrowing, j)
  BY <1>2 DEF AlwaysHeld, Narrowing, Sources
<1>8. NothingIsLost'
  BY <1>1, <1>7 DEF IInv, NothingIsLost, Uncut
<1>9. AnswerIsSound' /\ AnswerIsComplete' /\ RowsAreGuarded'
  BY <1>1 DEF IInv, AnswerIsSound, AnswerIsComplete, RowsAreGuarded, RowIds
<1> QED
  BY <1>3, <1>4, <1>5, <1>6, <1>8, <1>9 DEF IInv

LEMMA InvStep == TypeOK /\ IInv /\ [Next]_vars => IInv'
<1> SUFFICES ASSUME TypeOK, IInv, [Next]_vars PROVE IInv'
  OBVIOUS
<1>1. ASSUME NEW s \in Sources, NEW restrict \in BOOLEAN, ReadOnce(s, restrict) PROVE IInv'
  BY <1>1, ReadOnceKeepsInv
<1>2. ASSUME NEW s \in Sources, StartBatches(s) PROVE IInv'
  BY <1>2, StartBatchesKeepsInv
<1>3. ASSUME NEW batch \in SUBSET pending, ReadBatch(batch) PROVE IInv'
  BY <1>3, ReadBatchKeepsInv
<1>4. CASE ReadFails
  BY <1>4, FailureKeepsInv DEF ReadFails
<1>5. CASE Assemble
  BY <1>5, AssembleKeepsInv
<1>6. ASSUME NEW s \in Sources, NEW i \in Ids, NEW v \in Rows, Write(s, i, v) PROVE IInv'
  BY <1>6, WriteKeepsInv
<1>7. CASE UNCHANGED vars
  BY <1>7 DEF vars, IInv, HistoryIsCurrent, RowsWereHeld, BatchIsOpen,
     KeysAreTheIntersection, SilenceIsHonest, Asked, NothingIsLost, Uncut, AlwaysHeld,
     FallbackIsTheAnchors, UnreadIsEmpty, NoAnswerYet, AnswerIsSound, AnswerIsComplete,
     Returned, RowsAreGuarded, RowIds
<1> QED
  BY <1>1, <1>2, <1>3, <1>4, <1>5, <1>6, <1>7 DEF Next, Step

\* Type correctness and the invariant hold in every reachable state.
LEMMA Invariance == Spec => [](TypeOK /\ IInv)
<1>1. Init => TypeOK /\ IInv
  BY TypeInit, InvInit
<1>2. TypeOK /\ IInv /\ [Next]_vars => (TypeOK /\ IInv)'
  BY TypeStep, InvStep
<1> QED
  BY <1>1, <1>2, PTL DEF Spec

-----------------------------------------------------------------------------
(* The guarantees.                                                         *)

\* A returned record is made of rows its sources held while the query ran, and
\* its ID passed the anchor, every required contributor and the shortlist.
THEOREM Soundness == Spec => []AnswerIsSound
<1>1. TypeOK /\ IInv => AnswerIsSound
  BY DEF IInv
<1> QED
  BY <1>1, Invariance, PTL

\* Whatever is written meanwhile, and however the learned IDs travel, a record
\* that every narrowing source held throughout is returned.
THEOREM Completeness == Spec => []AnswerIsComplete
<1>1. TypeOK /\ IInv => AnswerIsComplete
  BY DEF IInv
<1> QED
  BY <1>1, Invariance, PTL

\* The coordinator never holds more rows of an unranked source than its guard, in
\* however many batches they came.
THEOREM GuardedRows == Spec => []RowsAreGuarded
<1>1. TypeOK /\ IInv => RowsAreGuarded
  BY DEF IInv
<1> QED
  BY <1>1, Invariance, PTL

\* Only the size of a whole filtered source is ever taught to the statistics.
THEOREM HonestTeaching == Spec => OnlyFullReadsTeach
<1> DEFINE Honest == \A a \in actuals' \ actuals : a[2] = Cardinality(Held(a[1]))
<1>1. ASSUME NEW s \in Sources, NEW restrict \in BOOLEAN, ReadOnce(s, restrict) PROVE Honest
  <2> DEFINE search == Searches(s, restrict)
             within == restrict /\ Fits(s)
             found  == IF within THEN Held(s) \cap keys ELSE Held(s)
             r      == RowsOf(s, Taken(s, search, found))
  <2>1. CASE UNCHANGED actuals
    BY <2>1
  <2>2. CASE Teaches(search, within)
             /\ actuals' = actuals \cup {<<s, Cardinality({i \in Ids : r[i] # Absent})>>}
    <3>1. Taken(s, search, found) = Held(s)
      BY <2>2 DEF Teaches, Taken
    <3>2. {i \in Ids : r[i] # Absent} = Held(s)
      BY <3>1 DEF RowsOf, Held
    <3> DEFINE n == Cardinality({i \in Ids : r[i] # Absent})
               m == Cardinality(Held(s))
    <3>3. n = m
      BY <3>2
    <3>4. actuals' = actuals \cup {<<s, n>>}
      BY <2>2
    <3> HIDE DEF n
    <3>5. \A a \in actuals' \ actuals : a = <<s, m>>
      BY <3>3, <3>4
    <3>6. <<s, m>>[1] = s /\ <<s, m>>[2] = m
      OBVIOUS
    <3> QED
      BY <3>5, <3>6
  <2> QED
    BY <1>1, <2>1, <2>2 DEF ReadOnce
<1>2. [Next]_vars => [Honest]_vars
  BY <1>1 DEF Next, Step, StartBatches, ReadBatch, ReadFails, Assemble, Write, vars
<1> QED
  BY <1>2, PTL DEF Spec, OnlyFullReadsTeach

-----------------------------------------------------------------------------
(***************************************************************************)
(* The COMBINE operator implements the abstract assembly of module Answer, *)
(* for every set of sources, IDs and bounds: its initial states are        *)
(* initial states of the promise, and each of its steps is a step of the   *)
(* promise or changes nothing the promise speaks of.                       *)
(*                                                                         *)
(* What the theorems above do not yet say is how many records a shortlist  *)
(* leaves, and which: the first invariant below follows how many are left  *)
(* from the search to the answer, the second that no source drops a        *)
(* matching record in favour of a farther one.                             *)
(***************************************************************************)

-----------------------------------------------------------------------------
(* The nearest are not many.                                               *)

\* Of two IDs, the nearer one has fewer that are nearer still.
LEMMA NearerHasFewerBefore ==
    ASSUME NEW S \in SUBSET Ids, NEW i \in S, NEW j \in S, Distance[i] < Distance[j]
    PROVE  Cardinality({x \in S : Distance[x] < Distance[i]})
             < Cardinality({x \in S : Distance[x] < Distance[j]})
<1> DEFINE before(k) == {x \in S : Distance[x] < Distance[k]}
<1>1. before(i) \in SUBSET Ids /\ before(j) \in SUBSET Ids /\ IsFiniteSet(before(j))
  BY DataAssumption, FS_Subset
<1>2. before(i) \in SUBSET before(j)
  <2> SUFFICES ASSUME NEW x \in before(i) PROVE Distance[x] < Distance[j]
    OBVIOUS
  <2>1. Distance[x] \in Nat /\ Distance[i] \in Nat /\ Distance[j] \in Nat
    BY BoundsAssumption
  <2> QED
    BY <2>1
<1>3. i \in before(j) /\ i \notin before(i)
  BY BoundsAssumption
<1>4. Cardinality(before(i)) <= Cardinality(before(j))
      /\ (Cardinality(before(j)) = Cardinality(before(i)) => before(j) = before(i))
  BY <1>1, <1>2, FS_Subset
<1>5. Cardinality(before(i)) \in Nat /\ Cardinality(before(j)) \in Nat
  BY <1>1, IdSetsAreFinite
<1>6. before(i) # before(j)
  BY <1>3
<1> HIDE DEF before
<1>7. Cardinality(before(i)) < Cardinality(before(j))
  BY <1>4, <1>5, <1>6
<1> QED
  BY <1>7 DEF before

\* A search returns no more than it is asked for.
LEMMA NearestAreFew ==
    ASSUME NEW S \in SUBSET Ids
    PROVE  Cardinality(Nearest(K, S)) <= K
<1> DEFINE T == Nearest(K, S)
           rank == [i \in T |-> Cardinality({x \in S : Distance[x] < Distance[i]})]
<1>1. T \subseteq S
  BY NearestIsSubset
<1>2. \A i \in T : rank[i] \in 0 .. (K - 1)
  <2> SUFFICES ASSUME NEW i \in T PROVE rank[i] \in 0 .. (K - 1)
    OBVIOUS
  <2>1. rank[i] \in Nat
    <3>1. {x \in S : Distance[x] < Distance[i]} \in SUBSET Ids
      OBVIOUS
    <3> QED
      BY <3>1, IdSetsAreFinite
  <2>2. rank[i] < K
    BY DEF Nearest
  <2>3. K \in Nat \ {0}
    BY BoundsAssumption
  <2> HIDE DEF rank
  <2> QED
    BY <2>1, <2>2, <2>3
<1>3. ASSUME NEW i \in T, NEW j \in T, rank[i] = rank[j] PROVE i = j
  <2>1. i \in S /\ j \in S /\ i \in Ids /\ j \in Ids
    BY <1>1
  <2>2. Distance[i] \in Nat /\ Distance[j] \in Nat
        /\ (Distance[i] = Distance[j] => i = j)
    BY <2>1, BoundsAssumption
  <2>3. CASE Distance[i] < Distance[j]
    <3>1. rank[i] < rank[j]
      BY <2>1, <2>3, NearerHasFewerBefore
    <3> HIDE DEF rank
    <3> QED
      BY <3>1, <1>2, <1>3
  <2>4. CASE Distance[j] < Distance[i]
    <3>1. rank[j] < rank[i]
      BY <2>1, <2>4, NearerHasFewerBefore
    <3> HIDE DEF rank
    <3> QED
      BY <3>1, <1>2, <1>3
  <2> QED
    BY <2>2, <2>3, <2>4
<1>4. rank \in Injection(T, 0 .. (K - 1))
  <2>1. rank \in [T -> 0 .. (K - 1)]
    BY <1>2
  <2> QED
    BY <2>1, <1>3 DEF Injection, IsInjective
<1>5. K \in Nat \ {0}
  BY BoundsAssumption
<1>6. IsFiniteSet(0 .. (K - 1)) /\ Cardinality(0 .. (K - 1)) = K
  BY <1>5, FS_Interval
<1>7. Cardinality(T) <= Cardinality(0 .. (K - 1))
  BY <1>4, <1>6, FS_Injection
<1> QED
  BY <1>6, <1>7

-----------------------------------------------------------------------------
(* The invariant.                                                          *)

\* Source s was read by a search.
Searched(s) == s \in done /\ (s \in Store \/ (s = Anchor /\ Ranked /\ ~fell_back))

\* A search never travels in batches.
BatchIsPlain == cur # NoSource => cur \notin Store /\ (cur = Anchor /\ Ranked => fell_back)

\* A search left at most K rows.
SearchIsBounded == \A s \in Sources : Searched(s) => Cardinality(RowIds(s)) <= K

\* The answer has no more records than the shortlist.
ShortlistIsBounded ==
    outcome = "answered" /\ (Store # {} \/ (Ranked /\ ~fell_back)) => Cardinality(Returned) <= K

SInv == BatchIsPlain /\ SearchIsBounded /\ ShortlistIsBounded

LEMMA SInvInit == Init => SInv
BY DEF Init, SInv, BatchIsPlain, SearchIsBounded, ShortlistIsBounded, Searched

\* An answer without any record is short.
LEMMA NothingIsShort ==
    ASSUME answer = NoAnswer
    PROVE  Cardinality(Returned) <= K
<1>1. Returned = {}
  BY DEF Returned, NoAnswer
<1> QED
  BY <1>1, FS_EmptySet, BoundsAssumption

\* A step that ends the read of s, or the query, without touching what was
\* read of other sources keeps the invariant, if a search leaves few rows.
LEMMA EndStepKeepsSInv ==
    ASSUME TypeOK, IInv, SInv, NEW s \in Sources, NEW r \in [Ids -> Rows],
           EndStep(s, r), outcome = "running", fell_back => fell_back', fell_back' \in BOOLEAN,
           s \in Store \/ (s = Anchor /\ Ranked /\ ~fell_back')
              => Cardinality({i \in Ids : r[i] # Absent}) <= K
    PROVE  SInv'
<1>1. /\ got' = [got EXCEPT ![s] = r] /\ done' = done \cup {s} /\ cur' = NoSource
      /\ UNCHANGED answer
  BY DEF EndStep
<1>2. answer = NoAnswer
  BY DEF IInv, NoAnswerYet
<1>3. BatchIsPlain'
  BY <1>1 DEF BatchIsPlain
<1>4. SearchIsBounded'
  <2> SUFFICES ASSUME NEW t \in Sources, Searched(t)' PROVE Cardinality(RowIds(t)') <= K
    BY DEF SearchIsBounded
  <2>1. CASE t = s
    <3>1. RowIds(t)' = {i \in Ids : r[i] # Absent}
      BY <1>1, <2>1 DEF RowIds, TypeOK
    <3> QED
      BY <3>1, <2>1 DEF Searched
  <2>2. CASE t # s
    <3>1. RowIds(t)' = RowIds(t) /\ Searched(t)
      BY <1>1, <2>2 DEF RowIds, Searched, TypeOK
    <3> QED
      BY <3>1 DEF SInv, SearchIsBounded
  <2> QED
    BY <2>1, <2>2
<1>5. Cardinality(Returned') <= K
  <2>1. Returned' = Returned
    BY <1>1 DEF Returned
  <2> QED
    BY <2>1, <1>2, NothingIsShort
<1> QED
  BY <1>3, <1>4, <1>5 DEF SInv, ShortlistIsBounded

\* A failure leaves everything that was read as it is.
LEMMA FailureKeepsSInv ==
    ASSUME TypeOK, SInv, FailWith, fell_back => fell_back', fell_back' \in BOOLEAN
    PROVE  SInv'
BY DEF FailWith, SInv, BatchIsPlain, SearchIsBounded, ShortlistIsBounded, Searched, RowIds, TypeOK

\* A single statement keeps it: a search takes the K nearest.
LEMMA ReadOnceKeepsSInv ==
    ASSUME TypeOK, IInv, SInv, NEW s \in Sources, NEW restrict \in BOOLEAN, ReadOnce(s, restrict)
    PROVE  SInv'
<1> DEFINE search == Searches(s, restrict)
           within == restrict /\ Fits(s)
           found  == IF within THEN Held(s) \cap keys ELSE Held(s)
           ranked == found \cap Embedded(s)
           r      == RowsOf(s, Taken(s, search, found))
<1>1. /\ outcome = "running"
      /\ fell_back' = (fell_back \/ (s = Anchor /\ Ranked /\ ~search))
      /\ (FailWith \/ EndStep(s, r))
  BY DEF ReadOnce
<1>2. fell_back' \in BOOLEAN /\ (fell_back => fell_back')
  BY <1>1 DEF TypeOK
<1>3. r \in [Ids -> Rows]
  BY RowsOfType
<1>4. ASSUME s \in Store \/ (s = Anchor /\ Ranked /\ ~fell_back')
      PROVE  Cardinality({i \in Ids : r[i] # Absent}) <= K
  <2>1. search
    BY <1>1, <1>4 DEF Searches
  <2>2. Taken(s, search, found) = Nearest(K, ranked)
    BY <2>1 DEF Taken
  <2>3. ranked \in SUBSET Ids
    BY DEF Held
  <2>4. Nearest(K, ranked) \subseteq ranked
    BY NearestIsSubset
  <2>5. {i \in Ids : r[i] # Absent} \in SUBSET Nearest(K, ranked)
    BY <2>2 DEF RowsOf
  <2>6. IsFiniteSet(Nearest(K, ranked))
    BY <2>3, <2>4, DataAssumption, FS_Subset
  <2>7. Cardinality({i \in Ids : r[i] # Absent}) <= Cardinality(Nearest(K, ranked))
    BY <2>5, <2>6, FS_Subset
  <2>8. Cardinality(Nearest(K, ranked)) <= K
    BY <2>3, NearestAreFew
  <2>9. Nearest(K, ranked) \in SUBSET Ids /\ {i \in Ids : r[i] # Absent} \in SUBSET Ids
    BY <2>3, <2>4
  <2>10. Cardinality({i \in Ids : r[i] # Absent}) \in Nat /\ Cardinality(Nearest(K, ranked)) \in Nat
    BY <2>9, IdSetsAreFinite
  <2> HIDE DEF found, ranked, r, search
  <2> QED
    BY <2>7, <2>8, <2>10, BoundsAssumption
<1> HIDE DEF search, found, ranked, r
<1>5. CASE FailWith
  BY <1>2, <1>5, FailureKeepsSInv
<1>6. CASE EndStep(s, r)
  BY <1>1, <1>2, <1>3, <1>4, <1>6, EndStepKeepsSInv
<1> QED
  BY <1>1, <1>5, <1>6

\* A batch keeps it: its source is not searched.
LEMMA ReadBatchKeepsSInv ==
    ASSUME TypeOK, IInv, SInv, NEW batch \in SUBSET pending, ReadBatch(batch)
    PROVE  SInv'
<1> DEFINE r == [i \in Ids |-> IF i \in batch THEN db[cur][i] ELSE got[cur][i]]
<1>1. /\ outcome = "running" /\ cur # NoSource /\ cur \in Sources
      /\ UNCHANGED <<db, was, fell_back>>
  BY DEF ReadBatch, TypeOK
<1>2. cur \notin Store /\ (cur = Anchor /\ Ranked => fell_back)
  BY <1>1 DEF SInv, BatchIsPlain
<1>3. r \in [Ids -> Rows] /\ fell_back' \in BOOLEAN
  BY <1>1 DEF TypeOK
<1>4. \/ FailWith
      \/ EndStep(cur, r)
      \/ got' = [got EXCEPT ![cur] = r] /\ UNCHANGED <<done, cur, outcome, answer>>
  BY DEF ReadBatch
<1> HIDE DEF r
<1>5. CASE FailWith
  BY <1>1, <1>3, <1>5, FailureKeepsSInv
<1>6. CASE EndStep(cur, r)
  BY <1>1, <1>2, <1>3, <1>6, EndStepKeepsSInv
<1>7. CASE got' = [got EXCEPT ![cur] = r] /\ UNCHANGED <<done, cur, outcome, answer>>
  <2>1. \A t \in done : t \in Sources => RowIds(t)' = RowIds(t)
    BY <1>1, <1>7 DEF RowIds, IInv, BatchIsOpen, TypeOK
  <2> QED
    BY <1>1, <1>7, <2>1 DEF SInv, BatchIsPlain, SearchIsBounded, ShortlistIsBounded, Searched, Returned
<1> QED
  BY <1>4, <1>5, <1>6, <1>7

\* The records put together are among the rows of every narrowing source, the
\* searched one included.
LEMMA AssembleKeepsSInv ==
    ASSUME TypeOK, IInv, SInv, Assemble
    PROVE  SInv'
<1>1. /\ answer' = [i \in Ids |-> Record(got, i)] /\ done = Sources
      /\ UNCHANGED <<done, cur, got, fell_back>>
  BY DEF Assemble
<1>2. BatchIsPlain' /\ SearchIsBounded'
  BY <1>1 DEF SInv, BatchIsPlain, SearchIsBounded, Searched, RowIds
<1>3. ASSUME Store # {} \/ (Ranked /\ ~fell_back) PROVE Cardinality(Returned') <= K
  <2>1. PICK s \in Narrowing : Searched(s)
    BY <1>1, <1>3 DEF Searched, Narrowing, Sources
  <2>2. Cardinality(RowIds(s)) <= K
    BY <2>1 DEF SInv, SearchIsBounded, Narrowing, Sources
  <2>3. Returned' \in SUBSET RowIds(s)
    BY <1>1, <2>1 DEF Returned, Record, RowIds
  <2>4. RowIds(s) \in SUBSET Ids /\ IsFiniteSet(RowIds(s)) /\ Returned' \in SUBSET Ids
    BY DataAssumption, FS_Subset DEF RowIds, Returned
  <2>5. Cardinality(Returned') <= Cardinality(RowIds(s))
    BY <2>3, <2>4, FS_Subset
  <2>6. Cardinality(Returned') \in Nat /\ Cardinality(RowIds(s)) \in Nat
    BY <2>4, IdSetsAreFinite
  <2> QED
    BY <2>2, <2>5, <2>6, BoundsAssumption
<1> QED
  BY <1>1, <1>2, <1>3 DEF SInv, ShortlistIsBounded

LEMMA SInvStep == TypeOK /\ IInv /\ SInv /\ [Next]_vars => SInv'
<1> SUFFICES ASSUME TypeOK, IInv, SInv, [Next]_vars PROVE SInv'
  OBVIOUS
<1>1. ASSUME NEW s \in Sources, NEW restrict \in BOOLEAN, ReadOnce(s, restrict) PROVE SInv'
  BY <1>1, ReadOnceKeepsSInv
<1>2. ASSUME NEW s \in Sources, StartBatches(s) PROVE SInv'
  <2>1. ~Searches(s, TRUE) /\ cur' = s /\ UNCHANGED <<done, got, outcome, answer>>
        /\ fell_back' = (fell_back \/ (s = Anchor /\ Ranked))
    BY <1>2 DEF StartBatches
  <2>2. BatchIsPlain'
    BY <2>1 DEF BatchIsPlain, Searches
  <2>3. SearchIsBounded' /\ ShortlistIsBounded'
    BY <2>1 DEF SInv, SearchIsBounded, ShortlistIsBounded, Searched, RowIds, Returned, TypeOK
  <2> QED
    BY <2>2, <2>3 DEF SInv
<1>3. ASSUME NEW batch \in SUBSET pending, ReadBatch(batch) PROVE SInv'
  BY <1>3, ReadBatchKeepsSInv
<1>4. CASE ReadFails
  BY <1>4, FailureKeepsSInv DEF ReadFails, TypeOK
<1>5. CASE Assemble
  BY <1>5, AssembleKeepsSInv
<1>6. ASSUME NEW s \in Sources, NEW i \in Ids, NEW v \in Rows, Write(s, i, v) PROVE SInv'
  BY <1>6 DEF Write, SInv, BatchIsPlain, SearchIsBounded, ShortlistIsBounded, Searched, RowIds, Returned
<1>7. CASE UNCHANGED vars
  BY <1>7 DEF vars, SInv, BatchIsPlain, SearchIsBounded, ShortlistIsBounded, Searched, RowIds, Returned
<1> QED
  BY <1>1, <1>2, <1>3, <1>4, <1>5, <1>6, <1>7 DEF Next, Step

-----------------------------------------------------------------------------
(* The implementation.                                                     *)

LEMMA InitIsPromised == Init => Promise!Init
BY DEF Init, Promise!Init, NoAnswer

\* A step that answers gives what is promised.
LEMMA AnswerIsPromised ==
    ASSUME TypeOK', IInv', SInv', outcome = "running", outcome' = "answered",
           UNCHANGED <<db, was>>
    PROVE  Promise!Give
<1> DEFINE R == Returned'
<1>1. R \in SUBSET Ids /\ (\A i \in Ids \ R : answer'[i] = NoRecord) /\ DOMAIN answer' = Ids
  BY DEF Returned, TypeOK
<1>2. \A i \in R : Promise!Truthful(answer'[i], i)
  <2> SUFFICES ASSUME NEW i \in R PROVE Promise!Truthful(answer'[i], i)
    OBVIOUS
  <2>1. i \in Ids /\ answer'[i] \in [Fields -> Rows]
    BY DEF Returned, TypeOK
  <2>2. /\ \A s \in Fields : answer'[i][s] \in was[s][i]
        /\ \A s \in Narrowing : was[s][i] # {Absent}
        /\ \A s \in Fields \cap Narrowing : answer'[i][s] # Absent
    BY DEF IInv, AnswerIsSound
  <2> QED
    BY <2>1, <2>2 DEF Promise!Truthful
<1>3. Promise!Returns(R, answer')
  BY <1>1, <1>2 DEF Promise!Returns
<1>4. \/ {i \in Ids : Narrowing \subseteq Promise!Held(i)} \subseteq R
      \/ R \in Few
  <2>1. CASE Store = {} /\ (Ranked => fell_back')
    <3> SUFFICES ASSUME NEW i \in Ids, Narrowing \subseteq Promise!Held(i) PROVE i \in R
      OBVIOUS
    <3>1. AlwaysHeld(Narrowing, i)'
      BY DEF AlwaysHeld, Promise!Held
    <3> QED
      BY <2>1, <3>1 DEF IInv, AnswerIsComplete
  <2>2. CASE Store # {} \/ (Ranked /\ ~fell_back')
    BY <1>1, <2>2 DEF SInv, ShortlistIsBounded, Few
  <2> QED
    BY <2>1, <2>2
<1> HIDE DEF R
<1> QED
  BY <1>1, <1>3, <1>4 DEF Promise!Give

\* Every other step changes the data as a write does, ends the query in
\* failure, or changes nothing the promise speaks of.
LEMMA StepIsPromised ==
    ASSUME TypeOK, TypeOK', IInv', SInv', [Next]_vars
    PROVE  [Promise!Next]_(Promise!answer_vars)
<1> USE DEF Promise!Next, Promise!answer_vars
<1>1. ASSUME FailWith, outcome = "running", UNCHANGED <<db, was>> PROVE Promise!Next
  BY <1>1 DEF FailWith, Promise!Refuse
<1>2. ASSUME NEW s, NEW r, EndStep(s, r), outcome = "running", UNCHANGED <<db, was>>
      PROVE  [Promise!Next]_(Promise!answer_vars)
  <2>1. UNCHANGED answer /\ outcome' \in {"answered", outcome}
    BY <1>2 DEF EndStep
  <2> QED
    BY <1>2, <2>1, AnswerIsPromised
<1>3. ASSUME NEW s \in Sources, NEW restrict \in BOOLEAN, ReadOnce(s, restrict)
      PROVE  [Promise!Next]_(Promise!answer_vars)
  <2>1. PICK r : FailWith \/ EndStep(s, r)
    BY <1>3 DEF ReadOnce
  <2>2. outcome = "running" /\ UNCHANGED <<db, was>>
    BY <1>3 DEF ReadOnce
  <2> QED
    BY <1>1, <1>2, <2>1, <2>2
<1>4. ASSUME NEW s \in Sources, StartBatches(s) PROVE UNCHANGED Promise!answer_vars
  BY <1>4 DEF StartBatches
<1>5. ASSUME NEW batch \in SUBSET pending, ReadBatch(batch)
      PROVE  [Promise!Next]_(Promise!answer_vars)
  <2>1. outcome = "running" /\ UNCHANGED <<db, was>>
    BY <1>5 DEF ReadBatch
  <2>2. PICK r : \/ FailWith \/ EndStep(cur, r) \/ UNCHANGED <<outcome, answer>>
    BY <1>5 DEF ReadBatch
  <2> QED
    BY <1>1, <1>2, <2>1, <2>2
<1>6. CASE ReadFails
  BY <1>1, <1>6 DEF ReadFails
<1>7. CASE Assemble
  <2>1. Promise!Give
    BY <1>7, AnswerIsPromised DEF Assemble
  <2> QED
    BY <2>1
<1>8. ASSUME NEW s \in Sources, NEW i \in Ids, NEW v \in Rows, Write(s, i, v)
      PROVE  Promise!Next
  <2>1. Promise!Write(s, i, v)
    BY <1>8 DEF Write, Promise!Write
  <2> QED
    BY <2>1
<1>9. CASE UNCHANGED vars
  BY <1>9 DEF vars
<1> QED
  BY <1>3, <1>4, <1>5, <1>6, <1>7, <1>8, <1>9 DEF Next, Step

\* The assembly of any number of sources, read in any scheduled order under
\* any concurrent writes, is one atomic answer to whoever asked for it.
THEOREM Implementation == Spec => ImplementsAnswer
<1>1. Init => SInv /\ Promise!Init
  BY SInvInit, InitIsPromised
<1>2. TypeOK /\ IInv /\ SInv /\ [Next]_vars => SInv'
  BY SInvStep
<1>3. /\ TypeOK /\ IInv /\ SInv /\ [Next]_vars /\ (TypeOK /\ IInv /\ SInv)'
      => [Promise!Next]_(Promise!answer_vars)
  BY StepIsPromised
<1>4. Spec => [](TypeOK /\ IInv)
  BY Invariance
<1> QED
  BY <1>1, <1>2, <1>3, <1>4, PTL DEF Spec, ImplementsAnswer, Promise!Spec
-----------------------------------------------------------------------------
(* Which records a shortlist keeps, while nobody writes.                   *)

\* A search that keeps an ID keeps every nearer one that it found.
LEMMA NearestIsClosed ==
    ASSUME NEW S \in SUBSET Ids, NEW i \in Nearest(K, S), NEW j \in S, Distance[j] < Distance[i]
    PROVE  j \in Nearest(K, S)
<1> DEFINE before(k) == {x \in S : Distance[x] < Distance[k]}
<1>1. i \in S /\ Cardinality(before(i)) < K
  BY DEF Nearest
<1>2. Cardinality(before(j)) < Cardinality(before(i))
  BY <1>1, NearerHasFewerBefore
<1>3. Cardinality(before(i)) \in Nat /\ Cardinality(before(j)) \in Nat
  <2>1. before(i) \in SUBSET Ids /\ before(j) \in SUBSET Ids
    OBVIOUS
  <2> HIDE DEF before
  <2> QED
    BY <2>1, IdSetsAreFinite
<1>4. Cardinality(before(j)) < K
  <2> HIDE DEF before
  <2> QED
    BY <1>1, <1>2, <1>3, BoundsAssumption
<1> QED
  BY <1>4 DEF Nearest

\* The records that match and can be ranked.
Matching == {i \in Ids : Matches(i)}

\* ID i was returned by every narrowing source read so far.
Passed(i) == \A s \in done \cap Narrowing : got[s][i] # Absent

Frozen == writes = 0 => \A s \in Sources, i \in Ids : was[s][i] = {db[s][i]}

\* A batched read has told the truth about every ID it has sent.
BatchTellsAll ==
    writes = 0 /\ cur # NoSource => \A i \in keys \ pending : got[cur][i] = db[cur][i]

\* No source, searched or not, drops a matching ID in favour of a farther one.
NearerPass ==
    writes = 0 => \A i \in Ids, j \in Matching :
                      Distance[j] < Distance[i] /\ Passed(i) => Passed(j)

\* The ranked read of the anchor came after every required contributor had
\* narrowed the IDs to those that match.
RankedIsExact ==
    writes = 0 /\ Ranked /\ ~fell_back /\ Anchor \in done =>
        /\ RowIds(Anchor) = Nearest(K, Matching)
        /\ \A i \in Matching, s \in Required : s \in done /\ got[s][i] # Absent

QInv == Frozen /\ BatchTellsAll /\ NearerPass /\ RankedIsExact
        /\ NoNearerRecordIsLost /\ ShortlistIsExact

LEMMA QInvInit == Init => QInv
<1> SUFFICES ASSUME Init PROVE QInv
  OBVIOUS
<1>1. Frozen /\ BatchTellsAll /\ NearerPass /\ RankedIsExact
  BY DEF Init, Frozen, BatchTellsAll, NearerPass, Passed, RankedIsExact
<1>2. NoNearerRecordIsLost /\ ShortlistIsExact
  BY DEF Init, NoNearerRecordIsLost, ShortlistIsExact
<1> QED
  BY <1>1, <1>2 DEF QInv

\* No search returns anything from nothing.
LEMMA NearestOfNothing == Nearest(K, {}) = {}
BY DEF Nearest

\* The end of a step of source s, whose rows r favour no farther ID and, when it
\* is the ranked anchor, are the nearest of the matching records.
LEMMA EndStepKeepsQInv ==
    ASSUME TypeOK, IInv, QInv, IInv', NEW s \in Sources, NEW r \in [Ids -> Rows],
           EndStep(s, r), outcome = "running", s \notin done, UNCHANGED <<db, was, writes>>,
           fell_back' \in BOOLEAN, fell_back => fell_back',
           writes = 0 /\ s \in Narrowing =>
               \A i \in Ids, j \in Matching :
                   /\ Distance[j] < Distance[i] /\ r[i] # Absent
                   /\ learned => i \in keys /\ j \in keys
                   => r[j] # Absent,
           writes = 0 /\ Ranked /\ ~fell_back' /\ s = Anchor =>
               {i \in Ids : r[i] # Absent} = Nearest(K, Matching) /\ Required \subseteq done
    PROVE  QInv'
<1>1. /\ got' = [got EXCEPT ![s] = r] /\ done' = done \cup {s} /\ cur' = NoSource
      /\ UNCHANGED answer
  BY DEF EndStep
<1>2. \A t \in Sources : got'[t] = IF t = s THEN r ELSE got[t]
  BY <1>1 DEF TypeOK
<1>3. Matching' = Matching /\ Matching \subseteq Ids
  BY DEF Matching, Matches, AlwaysHeld
<1>4. Narrowing \subseteq Sources /\ Required \subseteq Narrowing /\ Anchor \in Narrowing
      /\ (Store = {} => Narrowing = {Anchor} \cup Required)
  BY DEF Narrowing, Sources
<1>5. Frozen' /\ BatchTellsAll'
  BY <1>1 DEF QInv, Frozen, BatchTellsAll
<1>6. \A i \in Ids : /\ Passed(i)' => Passed(i) /\ (s \in Narrowing => r[i] # Absent)
                     /\ Passed(i) /\ (s \in Narrowing => r[i] # Absent) => Passed(i)'
                     /\ Passed(i) => (learned => i \in keys)
  <2> SUFFICES ASSUME NEW i \in Ids
               PROVE  /\ Passed(i)' => Passed(i) /\ (s \in Narrowing => r[i] # Absent)
                      /\ Passed(i) /\ (s \in Narrowing => r[i] # Absent) => Passed(i)'
                      /\ Passed(i) => (learned => i \in keys)
    OBVIOUS
  <2>1. \A t \in done \cap Narrowing : got'[t] = got[t]
    BY <1>2, <1>4
  <2>2. s \in Narrowing => got'[s] = r
    BY <1>2
  <2>3. done' \cap Narrowing = (done \cap Narrowing) \cup ({s} \cap Narrowing)
    BY <1>1
  <2>4. Passed(i)' => Passed(i) /\ (s \in Narrowing => r[i] # Absent)
    BY <2>1, <2>2, <2>3 DEF Passed
  <2>5. Passed(i) /\ (s \in Narrowing => r[i] # Absent) => Passed(i)'
    BY <2>1, <2>2, <2>3 DEF Passed
  <2>6. Passed(i) => (learned => i \in keys)
    BY DEF Passed, IInv, KeysAreTheIntersection
  <2> QED
    BY <2>4, <2>5, <2>6
<1>7. NearerPass'
  <2> SUFFICES ASSUME writes = 0, NEW i \in Ids, NEW j \in Matching,
                      Distance[j] < Distance[i], Passed(i)'
               PROVE  Passed(j)'
    BY <1>3 DEF NearerPass
  <2>1. j \in Ids /\ Passed(i) /\ Passed(j)
    BY <1>3, <1>6 DEF QInv, NearerPass
  <2>2. s \in Narrowing => r[i] # Absent
    BY <1>6
  <2>3. s \in Narrowing => r[j] # Absent
    BY <2>1, <2>2, <1>6
  <2> QED
    BY <2>1, <2>3, <1>6
<1>8. RankedIsExact'
  <2> SUFFICES ASSUME writes = 0, Ranked, ~fell_back', Anchor \in done'
               PROVE  /\ RowIds(Anchor)' = Nearest(K, Matching)
                      /\ \A i \in Matching, t \in Required : t \in done' /\ got'[t][i] # Absent
    <3>1. Nearest(K, Matching)' = Nearest(K, Matching)
      BY <1>3 DEF Nearest
    <3> QED
      BY <1>3, <3>1 DEF RankedIsExact
  <2>1. CASE s = Anchor
    <3>1. RowIds(Anchor)' = {i \in Ids : r[i] # Absent}
      BY <2>1, <1>2 DEF RowIds
    <3>2. Uncut
      BY <2>1, BoundsAssumption DEF Uncut
    <3>3. \A i \in Matching, t \in Required : t \in done /\ got[t][i] # Absent
      BY <2>1, <3>2, <1>3, <1>4 DEF IInv, NothingIsLost, Matching, Matches
    <3>4. s \notin Required
      BY <2>1, SourcesAssumption
    <3> QED
      BY <2>1, <3>1, <3>3, <3>4, <1>1, <1>2, <1>4
  <2>2. CASE s # Anchor
    <3>1. Anchor \in done /\ ~fell_back
      BY <2>2, <1>1
    <3>2. /\ RowIds(Anchor) = Nearest(K, Matching)
          /\ \A i \in Matching, t \in Required : t \in done /\ got[t][i] # Absent
      BY <3>1 DEF QInv, RankedIsExact
    <3>3. RowIds(Anchor)' = RowIds(Anchor)
      BY <2>2, <1>2, <1>4 DEF RowIds
    <3> QED
      BY <3>2, <3>3, <1>1, <1>2, <1>4
  <2> QED
    BY <2>1, <2>2
<1>9. Returned' = {}
  <2>1. answer' = NoAnswer
    BY <1>1 DEF IInv, NoAnswerYet
  <2> QED
    BY <2>1 DEF Returned, NoAnswer
<1>10. ShortlistIsExact'
  <2> SUFFICES ASSUME outcome' = "answered", Ranked, ~fell_back', writes = 0
               PROVE  Nearest(K, Matching) = {}
    <3>1. Nearest(K, Matching)' = Nearest(K, Matching)
      BY <1>3 DEF Nearest
    <3> QED
      BY <3>1, <1>9 DEF ShortlistIsExact, Matching
  <2>1. s \in Narrowing /\ keys' = {} /\ Store = {}
    BY BoundsAssumption DEF EndStep
  <2>2. \A i \in Ids : ~Passed(i)'
    BY <2>1, <1>1 DEF IInv, KeysAreTheIntersection, Passed
  <2>3. CASE Anchor \in done'
    <3> SUFFICES ASSUME NEW i \in Nearest(K, Matching) PROVE FALSE
      OBVIOUS
    <3>1. i \in Matching
      BY NearestIsSubset
    <3>2. i \in RowIds(Anchor)' /\ \A t \in Required : got'[t][i] # Absent
      <4>1. Nearest(K, Matching)' = Nearest(K, Matching)
        BY <1>3 DEF Nearest
      <4> QED
        BY <2>3, <3>1, <4>1, <1>3, <1>8 DEF RankedIsExact
    <3>3. Passed(i)'
      BY <2>1, <3>2, <1>4 DEF Passed, RowIds
    <3> QED
      BY <2>2, <3>1, <3>3, <1>3
  <2>4. CASE Anchor \notin done'
    <3>1. Uncut'
      BY <2>1, <2>4 DEF Uncut
    <3>2. \A i \in Matching : Passed(i)'
      BY <3>1, <1>3 DEF IInv, NothingIsLost, Matching, Matches, Passed
    <3>3. Matching = {}
      BY <2>2, <3>2, <1>3
    <3> QED
      BY <3>3, NearestOfNothing
  <2> QED
    BY <2>3, <2>4
<1> QED
  BY <1>5, <1>7, <1>8, <1>9, <1>10 DEF QInv, NoNearerRecordIsLost
\* A failure leaves everything that was read as it is.
LEMMA FailureKeepsQInv ==
    ASSUME TypeOK, QInv, FailWith, UNCHANGED <<db, was, writes>>,
           fell_back => fell_back', fell_back' \in BOOLEAN
    PROVE  QInv'
<1>1. Matching' = Matching
  BY DEF Matching, Matches, AlwaysHeld
<1>2. Nearest(K, Matching)' = Nearest(K, Matching)
  BY <1>1 DEF Nearest
<1>3. UNCHANGED <<done, cur, pending, keys, got>> /\ outcome' = "failed"
  BY DEF FailWith
<1>4. Frozen' /\ BatchTellsAll' /\ NoNearerRecordIsLost' /\ ShortlistIsExact'
  BY <1>3 DEF QInv, Frozen, BatchTellsAll, NoNearerRecordIsLost, ShortlistIsExact
<1>5. NearerPass' /\ RankedIsExact'
  BY <1>1, <1>2, <1>3 DEF QInv, NearerPass, Passed, RankedIsExact, RowIds
<1> QED
  BY <1>4, <1>5 DEF QInv

\* A single statement: a search keeps the nearest it found, and finds every
\* matching ID that it may return.
LEMMA ReadOnceKeepsQInv ==
    ASSUME TypeOK, IInv, QInv, IInv', NEW s \in Sources, NEW restrict \in BOOLEAN,
           ReadOnce(s, restrict)
    PROVE  QInv'
<1> DEFINE search == Searches(s, restrict)
           within == restrict /\ Fits(s)
           found  == IF within THEN Held(s) \cap keys ELSE Held(s)
           ranked == found \cap Embedded(s)
           taken  == Taken(s, search, found)
           r      == RowsOf(s, taken)
<1>1. /\ outcome = "running" /\ s \notin done /\ UNCHANGED <<db, was, writes>>
      /\ fell_back' = (fell_back \/ (s = Anchor /\ Ranked /\ ~search))
      /\ (FailWith \/ EndStep(s, r))
      /\ (s = Anchor => Store \subseteq done)
  BY DEF ReadOnce, Scheduled
<1>2. fell_back' \in BOOLEAN /\ (fell_back => fell_back')
  BY <1>1 DEF TypeOK
<1>3. r \in [Ids -> Rows]
  BY RowsOfType
<1>4. within => learned
  BY DEF Fits
<1>5. taken \subseteq found /\ found \subseteq Held(s) /\ found \in SUBSET Ids
      /\ (~search => taken = found) /\ (search => taken = Nearest(K, ranked))
      /\ ranked \in SUBSET Ids /\ ranked \subseteq found
  BY NearestIsSubset DEF Taken, Held
<1>6. \A i \in Ids : r[i] # Absent <=> i \in taken
  BY <1>5 DEF RowsOf, Held
<1>7. \A i \in Ids : db[s][i] # Absent /\ (learned => i \in keys) => i \in found
  BY <1>4 DEF Held
<1>8. \A i \in Matching : i \in Ids /\ \A t \in Narrowing : db[t][i] # Absent
  BY DEF Matching, Matches, AlwaysHeld, IInv, HistoryIsCurrent, Narrowing, Sources
<1>9. ASSUME s \in Narrowing, NEW i \in Ids, NEW j \in Matching, Distance[j] < Distance[i],
             r[i] # Absent, learned => i \in keys /\ j \in keys
      PROVE  r[j] # Absent
  <2>1. i \in taken /\ j \in found /\ j \in Ids
    BY <1>6, <1>7, <1>8, <1>9
  <2>2. j \in taken
    <3>1. CASE search
      <4>1. taken = Nearest(K, ranked) /\ i \in taken
        BY <2>1, <3>1, <1>5
      <4>2. s \in Vectored
        BY <3>1 DEF Searches, Vectored
      <4>3. j \in ranked
        <5>1. was[s][j] \cap Bare = {} /\ db[s][j] \in was[s][j]
          BY <2>1, <4>2, <1>9 DEF Matching, Matches, IInv, HistoryIsCurrent
        <5> QED
          BY <2>1, <5>1 DEF Embedded
      <4> HIDE DEF taken, ranked
      <4> QED
        BY <4>1, <4>3, <1>5, <1>9, NearestIsClosed
    <3>2. CASE ~search
      BY <2>1, <3>2, <1>5
    <3> QED
      BY <3>1, <3>2
  <2> QED
    BY <2>1, <2>2, <1>6
<1>10. ASSUME writes = 0, Ranked, ~fell_back', s = Anchor
       PROVE  {i \in Ids : r[i] # Absent} = Nearest(K, Matching) /\ Required \subseteq done
  <2>1. search /\ Store = {} /\ Required \subseteq done /\ (Required = {} \/ within)
    BY <1>1, <1>10, SourcesAssumption, BoundsAssumption DEF Searches, Safe
  <2>2. Narrowing = {Anchor} \cup Required /\ Narrowing \subseteq Sources /\ done \cap Narrowing = Required
    BY <2>1, <1>1, <1>10, SourcesAssumption DEF Narrowing, Sources
  <2>3. Uncut
    BY <1>1, <1>10, <2>1 DEF Uncut
  <2>4. \A i \in Matching : learned => i \in keys
    BY <2>3, <1>8 DEF IInv, NothingIsLost, KeysAreTheIntersection, Matching, Matches
  <2>5. ASSUME NEW i \in Matching PROVE i \in ranked
    <3>1. i \in found /\ i \in Ids
      BY <2>2, <2>4, <1>7, <1>8, <1>10
    <3>2. db[Anchor][i] \in was[Anchor][i] /\ was[Anchor][i] \cap Bare = {}
      BY <3>1, <2>2, <1>10 DEF Matching, Matches, Vectored, IInv, HistoryIsCurrent
    <3> QED
      BY <3>1, <3>2, <1>10 DEF Embedded
  <2>6. ASSUME NEW i \in ranked PROVE i \in Matching
    <3>1. i \in found /\ i \in Ids /\ db[Anchor][i] # Absent /\ db[Anchor][i] \notin Bare
      BY <1>5, <1>10 DEF Held, Embedded
    <3>2. ASSUME NEW t \in Required PROVE Absent \notin was[t][i]
      <4>1. learned /\ i \in keys
        BY <2>1, <3>1, <3>2, <1>4
      <4>2. got[t][i] # Absent
        BY <2>2, <3>1, <3>2, <4>1 DEF IInv, KeysAreTheIntersection
      <4>3. got[t][i] \in was[t][i] /\ was[t][i] = {db[t][i]}
        BY <2>2, <3>1, <3>2, <4>2, <1>10 DEF IInv, RowsWereHeld, QInv, Frozen
      <4> QED
        BY <4>2, <4>3
    <3>3. Absent \notin was[Anchor][i]
      BY <2>2, <3>1, <1>10 DEF QInv, Frozen
    <3>4. Vectored = {Anchor} /\ was[Anchor][i] \cap Bare = {}
      BY <2>1, <2>2, <3>1, <1>10 DEF Vectored, QInv, Frozen
    <3> QED
      BY <2>2, <3>1, <3>2, <3>3, <3>4 DEF Matching, Matches, AlwaysHeld
  <2>7. ranked = Matching
    BY <2>5, <2>6
  <2>8. {i \in Ids : r[i] # Absent} = taken
    BY <1>5, <1>6
  <2>9. taken = Nearest(K, Matching)
    BY <2>1, <2>7, <1>5
  <2> QED
    BY <2>1, <2>8, <2>9
<1> HIDE DEF search, within, found, ranked, taken, r
<1>11. CASE FailWith
  BY <1>1, <1>2, <1>11, FailureKeepsQInv
<1>12. CASE EndStep(s, r)
  BY <1>1, <1>2, <1>3, <1>9, <1>10, <1>12, EndStepKeepsQInv
<1> QED
  BY <1>1, <1>11, <1>12

\* A batch: its source is not searched, and answers for every ID it was sent.
LEMMA ReadBatchKeepsQInv ==
    ASSUME TypeOK, IInv, SInv, QInv, IInv', NEW batch \in SUBSET pending, ReadBatch(batch)
    PROVE  QInv'
<1> DEFINE r == [i \in Ids |-> IF i \in batch THEN db[cur][i] ELSE got[cur][i]]
<1>1. /\ outcome = "running" /\ cur # NoSource /\ cur \in Sources
      /\ UNCHANGED <<db, was, writes, fell_back>>
  BY DEF ReadBatch, TypeOK
<1>2. cur \notin done /\ learned /\ pending \subseteq keys /\ (cur = Anchor /\ Ranked => fell_back)
  BY <1>1 DEF IInv, BatchIsOpen, SInv, BatchIsPlain
<1>3. r \in [Ids -> Rows] /\ fell_back' \in BOOLEAN
  BY <1>1 DEF TypeOK
<1>4. \/ FailWith
      \/ pending = batch /\ EndStep(cur, r)
      \/ /\ got' = [got EXCEPT ![cur] = r]
         /\ pending' = pending \ batch
         /\ UNCHANGED <<done, cur, keys, outcome, answer>>
  BY DEF ReadBatch
<1>5. writes = 0 => \A i \in keys \ (pending \ batch) : i \in Ids /\ r[i] = db[cur][i]
  BY <1>1 DEF QInv, BatchTellsAll, TypeOK
<1> HIDE DEF r
<1>6. CASE FailWith
  BY <1>1, <1>3, <1>6, FailureKeepsQInv
<1>7. CASE pending = batch /\ EndStep(cur, r)
  <2>1. ASSUME writes = 0, cur \in Narrowing, NEW i \in Ids, NEW j \in Matching,
               Distance[j] < Distance[i], r[i] # Absent, learned => i \in keys /\ j \in keys
        PROVE  r[j] # Absent
    <3>1. r[j] = db[cur][j] /\ j \in Ids
      BY <2>1, <1>2, <1>5, <1>7
    <3>2. Absent \notin was[cur][j] /\ db[cur][j] \in was[cur][j]
      BY <2>1, <3>1, <1>1 DEF Matching, Matches, AlwaysHeld, IInv, HistoryIsCurrent
    <3> QED
      BY <3>1, <3>2
  <2>2. ~(Ranked /\ ~fell_back' /\ cur = Anchor)
    BY <1>1, <1>2
  <2> QED
    BY <2>1, <2>2, <1>1, <1>2, <1>3, <1>7, EndStepKeepsQInv
<1>8. CASE /\ got' = [got EXCEPT ![cur] = r]
           /\ pending' = pending \ batch
           /\ UNCHANGED <<done, cur, keys, outcome, answer>>
  <2>1. \A t \in done : t \in Sources => got'[t] = got[t]
    BY <1>1, <1>2, <1>8 DEF TypeOK
  <2>2. got'[cur] = r /\ done \subseteq Sources /\ Anchor \in Sources /\ Required \subseteq Sources
    BY <1>1, <1>8 DEF TypeOK, Sources
  <2>3. Matching' = Matching
    BY <1>1 DEF Matching, Matches, AlwaysHeld
  <2>4. Nearest(K, Matching)' = Nearest(K, Matching)
    BY <2>3 DEF Nearest
  <2>5. \A i \in Ids : Passed(i)' <=> Passed(i)
    BY <2>1, <2>2, <1>8 DEF Passed
  <2>6. NearerPass'
    <3>1. Matching \subseteq Ids
      BY DEF Matching
    <3> QED
      BY <2>3, <2>5, <3>1, <1>1 DEF QInv, NearerPass
  <2>7. RankedIsExact'
    <3> SUFFICES ASSUME writes = 0, Ranked, ~fell_back, Anchor \in done
                 PROVE  /\ RowIds(Anchor)' = Nearest(K, Matching)
                        /\ \A i \in Matching, t \in Required : t \in done /\ got'[t][i] # Absent
      BY <2>3, <2>4, <1>1, <1>8 DEF RankedIsExact
    <3>1. RowIds(Anchor)' = RowIds(Anchor)
      BY <2>1, <2>2 DEF RowIds
    <3> QED
      BY <2>1, <2>2, <3>1 DEF QInv, RankedIsExact
  <2>8. Frozen' /\ BatchTellsAll'
    BY <2>2, <1>1, <1>5, <1>8 DEF QInv, Frozen, BatchTellsAll
  <2>9. NoNearerRecordIsLost' /\ ShortlistIsExact'
    BY <1>1, <1>8 DEF NoNearerRecordIsLost, ShortlistIsExact
  <2> QED
    BY <2>6, <2>7, <2>8, <2>9 DEF QInv
<1> QED
  BY <1>4, <1>6, <1>7, <1>8

\* The answer: a record is returned when every narrowing source returned its ID.
LEMMA AssembleKeepsQInv ==
    ASSUME TypeOK, IInv, QInv, Assemble
    PROVE  QInv'
<1>1. /\ done = Sources /\ answer' = [i \in Ids |-> Record(got, i)] /\ cur = NoSource
      /\ UNCHANGED <<db, was, writes, done, cur, pending, keys, got, fell_back>>
  BY DEF Assemble
<1>2. Narrowing \subseteq Sources /\ (Store = {} => Narrowing = {Anchor} \cup Required)
      /\ Anchor \in Sources /\ Fields \subseteq Sources
  BY DEF Narrowing, Sources, Fields
<1>3. \A i \in Ids : i \in Returned' <=> Passed(i)
  <2> SUFFICES ASSUME NEW i \in Ids PROVE answer'[i] # NoRecord <=> Passed(i)
    BY DEF Returned
  <2>1. [s \in Fields |-> got[s][i]] \in [Fields -> Rows]
    BY <1>2 DEF TypeOK
  <2> QED
    BY <2>1, <1>1, <1>2, DataAssumption DEF Record, Passed
<1>4. Matching' = Matching /\ Matching \subseteq Ids /\ Returned' \subseteq Ids
  BY <1>1 DEF Matching, Matches, AlwaysHeld, Returned
<1>5. Nearest(K, Matching)' = Nearest(K, Matching)
  BY <1>4 DEF Nearest
<1>6. Frozen' /\ BatchTellsAll'
  BY <1>1 DEF QInv, Frozen, BatchTellsAll
<1>7. NearerPass' /\ RankedIsExact'
  BY <1>1, <1>4, <1>5 DEF QInv, NearerPass, Passed, RankedIsExact, RowIds
<1>8. NoNearerRecordIsLost'
  <2> SUFFICES ASSUME writes = 0, NEW i \in Returned', NEW j \in Matching, Distance[j] < Distance[i]
               PROVE  j \in Returned'
    BY <1>1, <1>4 DEF NoNearerRecordIsLost, Matching
  <2> QED
    BY <1>3, <1>4 DEF QInv, NearerPass
<1>9. ShortlistIsExact'
  <2> SUFFICES ASSUME writes = 0, Ranked, ~fell_back PROVE Returned' = Nearest(K, Matching)
    BY <1>1, <1>5 DEF ShortlistIsExact, Matching
  <2>1. /\ RowIds(Anchor) = Nearest(K, Matching)
        /\ \A i \in Matching, s \in Required : got[s][i] # Absent
    BY <1>1, <1>2 DEF QInv, RankedIsExact
  <2>2. Nearest(K, Matching) \subseteq Matching
    BY NearestIsSubset
  <2>3. \A i \in Ids : Passed(i) <=> i \in Nearest(K, Matching)
    BY <2>1, <2>2, <1>1, <1>2, BoundsAssumption DEF Passed, RowIds
  <2> QED
    BY <2>2, <2>3, <1>3, <1>4
<1> QED
  BY <1>6, <1>7, <1>8, <1>9 DEF QInv

LEMMA QInvStep == TypeOK /\ IInv /\ SInv /\ QInv /\ IInv' /\ [Next]_vars => QInv'
<1> SUFFICES ASSUME TypeOK, IInv, SInv, QInv, IInv', [Next]_vars PROVE QInv'
  OBVIOUS
<1>1. ASSUME NEW s \in Sources, NEW restrict \in BOOLEAN, ReadOnce(s, restrict) PROVE QInv'
  BY <1>1, ReadOnceKeepsQInv
<1>2. ASSUME UNCHANGED <<db, was, writes, done, keys, got, outcome, answer>>,
             fell_back => fell_back', fell_back' \in BOOLEAN, BatchTellsAll'
      PROVE  QInv'
  <2>1. Matching' = Matching
    BY <1>2 DEF Matching, Matches, AlwaysHeld
  <2>2. Nearest(K, Matching)' = Nearest(K, Matching)
    BY <2>1 DEF Nearest
  <2>3. Frozen' /\ NearerPass' /\ RankedIsExact'
    BY <1>2, <2>1, <2>2 DEF QInv, Frozen, NearerPass, Passed, RankedIsExact, RowIds
  <2>4. NoNearerRecordIsLost' /\ ShortlistIsExact'
    BY <1>2, <2>1, <2>2 DEF QInv, NoNearerRecordIsLost, ShortlistIsExact, Returned, Matching, Matches,
       AlwaysHeld, TypeOK
  <2> QED
    BY <1>2, <2>3, <2>4 DEF QInv
<1>3. ASSUME NEW s \in Sources, StartBatches(s) PROVE QInv'
  <2>1. /\ UNCHANGED <<db, was, writes, done, keys, got, outcome, answer>>
        /\ pending' = keys /\ fell_back' = (fell_back \/ (s = Anchor /\ Ranked))
    BY <1>3 DEF StartBatches
  <2>2. BatchTellsAll'
    BY <2>1 DEF BatchTellsAll
  <2> QED
    BY <2>1, <2>2, <1>2 DEF TypeOK
<1>4. ASSUME NEW batch \in SUBSET pending, ReadBatch(batch) PROVE QInv'
  BY <1>4, ReadBatchKeepsQInv
<1>5. CASE ReadFails
  BY <1>5, FailureKeepsQInv DEF ReadFails, TypeOK
<1>6. CASE Assemble
  BY <1>6, AssembleKeepsQInv
<1>7. ASSUME NEW s \in Sources, NEW i \in Ids, NEW v \in Rows, Write(s, i, v) PROVE QInv'
  <2>1. writes' # 0
    BY <1>7 DEF Write, TypeOK
  <2> QED
    BY <2>1 DEF QInv, Frozen, BatchTellsAll, NearerPass, RankedIsExact, NoNearerRecordIsLost,
       ShortlistIsExact
<1>8. CASE UNCHANGED vars
  <2>1. BatchTellsAll'
    BY <1>8 DEF vars, QInv, BatchTellsAll
  <2> QED
    BY <1>8, <2>1, <1>2 DEF vars, TypeOK
<1> QED
  BY <1>1, <1>3, <1>4, <1>5, <1>6, <1>7, <1>8 DEF Next, Step

LEMMA QuietInvariance == Spec => []QInv
<1>1. Init => TypeOK /\ IInv /\ SInv /\ QInv
  BY TypeInit, InvInit, SInvInit, QInvInit
<1>2. TypeOK /\ IInv /\ SInv /\ QInv /\ [Next]_vars => (TypeOK /\ IInv /\ SInv /\ QInv)'
  BY TypeStep, InvStep, SInvStep, QInvStep
<1> QED
  BY <1>1, <1>2, PTL DEF Spec

\* With a shortlist of either kind, no matching record that can be ranked is dropped
\* in favour of a farther one, whatever the order of the reads and however the IDs travel.
THEOREM NearestSurvive == Spec => []NoNearerRecordIsLost
BY QuietInvariance, PTL DEF QInv

\* A ranked anchor read that was not replaced returns exactly the K nearest of the
\* matching records that have an embedding: the shortlist is never cut before a
\* required match, and no place of it goes to a record that cannot be ranked.
THEOREM ExactShortlist == Spec => []ShortlistIsExact
BY QuietInvariance, PTL DEF QInv
=============================================================================
