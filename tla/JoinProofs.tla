----------------------------- MODULE JoinProofs -----------------------------
(* What a join answers and when it refuses, proved for any datasets, keys,   *)
(* batch size, bounds and guards, and for any writes while it runs.          *)
EXTENDS Join, FiniteSetTheorems, SequenceTheorems, TLAPS

-----------------------------------------------------------------------------
(* The invariant.                                                            *)

JType ==
    /\ driver_side \in {"left", "right"} /\ optional \in BOOLEAN
    /\ driver_key \in [DriverIds -> Keys \cup {Null, Absent}]
    /\ driver_rows \in [DriverIds -> Keys \cup {Null, Absent}]
    /\ probe_key \in [ProbeIds -> Keys \cup {Null}]
    /\ past \in [ProbeIds -> SUBSET (Keys \cup {Null})]
    /\ writes \in Nat
    /\ unsent \in SUBSET Keys
    /\ work \in Seq(SUBSET Keys)
    /\ probe_rows \in SUBSET (ProbeIds \X Keys)
    /\ outcome \in {"driving", "probing"} \cup Ended

InWork == UNION {work[n] : n \in 1 .. Len(work)}

\* The keys of the driving rows whose probe is over.
Probed == KeysOf(driver_rows) \ (unsent \cup InWork)

\* Each key still to probe is in one place.
KeysApart ==
    /\ unsent \subseteq KeysOf(driver_rows)
    /\ \A n \in 1 .. Len(work) : work[n] \subseteq KeysOf(driver_rows) \ unsent
    /\ \A m, n \in 1 .. Len(work) : m # n => work[m] \cap work[n] = {}

\* And only keys that were probed have brought rows: none is probed twice.
EachKeyOnce ==
    /\ KeysApart
    /\ outcome = "driving" => unsent = {} /\ work = <<>> /\ probe_rows = {}
    /\ \A m \in probe_rows : m[2] \in Probed

\* What the probing rows have held, and the rows that were collected of them.
HeldInThePast ==
    /\ \A p \in ProbeIds : probe_key[p] \in past[p]
    /\ writes = 0 => \A p \in ProbeIds : past[p] = {probe_key[p]}
    /\ \A m \in probe_rows : m[2] \in past[m[1]]

\* Every probe that did not end the join brought all rows that had its keys.
ProbesAreWhole ==
    outcome \in {"probing", "answered"} =>
        \A p \in ProbeIds, k \in Probed : past[p] = {k} => <<p, k>> \in probe_rows

\* The page is that of the rows collected, when all keys were probed.
PageOfAll ==
    outcome = "answered" => /\ unsent = {} /\ work = <<>>
                            /\ page = Page(Matched(driver_rows, probe_rows))

DriverIsRead == outcome \in {"probing", "answered"} => driver_rows = driver_key

JInv == /\ JType /\ EachKeyOnce /\ HeldInThePast /\ ProbesAreWhole /\ PageOfAll
        /\ DriverIsRead /\ RefusalIsJustified

-----------------------------------------------------------------------------
(* Matching.                                                                 *)

\* The pairs of two finite sets are finitely many: as sets of sets they are
\* among the sets of subsets of both.
LEMMA FiniteProduct ==
    ASSUME NEW S, NEW T, IsFiniteSet(S), IsFiniteSet(T)
    PROVE  IsFiniteSet(S \X T)
<1> DEFINE U == SUBSET SUBSET (S \cup T)
           f == [x \in S \X T |-> {{x[1]}, {x[1], x[2]}}]
<1>1. IsFiniteSet(U)
  <2>1. IsFiniteSet(S \cup T)
    BY FS_Union
  <2> HIDE DEF U
  <2>2. IsFiniteSet(SUBSET (S \cup T))
    BY <2>1, FS_SUBSET
  <2> QED
    BY <2>2, FS_SUBSET DEF U
<1>2. f \in [S \X T -> U]
  OBVIOUS
<1>3. ASSUME NEW x \in S \X T, NEW y \in S \X T, f[x] = f[y] PROVE x = y
  <2>1. {{x[1]}, {x[1], x[2]}} = {{y[1]}, {y[1], y[2]}}
    BY <1>3
  <2> DEFINE a == x[1]
             b == x[2]
             c == y[1]
             d == y[2]
  <2>2. {{a}, {a, b}} = {{c}, {c, d}}
    BY <2>1
  <2> HIDE DEF a, b, c, d
  <2>4. a = c /\ b = d
    <3>1. {a} \in {{c}, {c, d}} /\ {a, b} \in {{c}, {c, d}}
      BY <2>2
    <3>2. a = c
      BY <3>1
    <3>3. b = c \/ b = d
      BY <3>1
    <3>4. {c, d} \in {{a}, {a, b}}
      BY <2>2
    <3>5. d = a \/ d = b
      BY <3>4
    <3> QED
      BY <3>2, <3>3, <3>5
  <2>3. x = <<x[1], x[2]>> /\ y = <<y[1], y[2]>>
    OBVIOUS
  <2> QED
    BY <2>3, <2>4 DEF a, b, c, d
<1> HIDE DEF f, U
<1>4. f \in Injection(S \X T, U)
  BY <1>2, <1>3 DEF Injection, IsInjective
<1> QED
  BY <1>1, <1>4, FS_Injection

\* What is matched: a driving row with a collected row of its key, or alone.
LEMMA MatchedAre ==
    ASSUME NEW rows \in [DriverIds -> Keys \cup {Null, Absent}],
           NEW found \in SUBSET (ProbeIds \X Keys)
    PROVE  \A a : a \in Matched(rows, found) <=>
               \E d \in DriverIds :
                  \/ \E p \in ProbeIds : <<p, rows[d]>> \in found /\ a = Pair(d, p)
                  \/ /\ rows[d] # Absent /\ optional
                     /\ \A m \in found : m[2] # rows[d]
                     /\ a = Pair(d, NoMatch)
<1> SUFFICES ASSUME NEW a
             PROVE  a \in Matched(rows, found) <=>
                        \E d \in DriverIds :
                           \/ \E p \in ProbeIds : <<p, rows[d]>> \in found /\ a = Pair(d, p)
                           \/ /\ rows[d] # Absent /\ optional
                              /\ \A m \in found : m[2] # rows[d]
                              /\ a = Pair(d, NoMatch)
  OBVIOUS
<1>1. a \in Matched(rows, found) <=>
          \/ \E x \in RowsRead(rows) \X found : rows[x[1]] = x[2][2] /\ a = Pair(x[1], x[2][1])
          \/ \E d \in RowsRead(rows) : /\ optional /\ \A m \in found : m[2] # rows[d]
                                       /\ a = Pair(d, NoMatch)
  BY DEF Matched
<1>2. ASSUME NEW x \in RowsRead(rows) \X found, rows[x[1]] = x[2][2], a = Pair(x[1], x[2][1])
      PROVE  \E d \in DriverIds, p \in ProbeIds : <<p, rows[d]>> \in found /\ a = Pair(d, p)
  <2>1. x[1] \in DriverIds /\ x[2] \in found
    BY DEF RowsRead
  <2>2. x[2][1] \in ProbeIds /\ x[2] = <<x[2][1], x[2][2]>>
    BY <2>1
  <2> QED
    BY <1>2, <2>1, <2>2
<1>3. ASSUME NEW d \in DriverIds, NEW p \in ProbeIds, <<p, rows[d]>> \in found, a = Pair(d, p)
      PROVE  \E x \in RowsRead(rows) \X found : rows[x[1]] = x[2][2] /\ a = Pair(x[1], x[2][1])
  <2>1. rows[d] \in Keys
    BY <1>3
  <2>2. d \in RowsRead(rows)
    BY <2>1, JoinAssumption DEF RowsRead
  <2>3. <<d, <<p, rows[d]>>>> \in RowsRead(rows) \X found
    BY <1>3, <2>2
  <2> QED
    BY <1>3, <2>3
<1> QED
  BY <1>1, <1>2, <1>3 DEF RowsRead

\* Only the rows of the driving rows' keys matter.
LEMMA MatchedOfTheirKeys ==
    ASSUME NEW rows \in [DriverIds -> Keys \cup {Null, Absent}],
           NEW found \in SUBSET (ProbeIds \X Keys), NEW all \in SUBSET (ProbeIds \X Keys),
           \A p \in ProbeIds, k \in KeysOf(rows) : <<p, k>> \in found <=> <<p, k>> \in all
    PROVE  Matched(rows, found) = Matched(rows, all)
<1>1. ASSUME NEW d \in DriverIds, NEW p \in ProbeIds
      PROVE  <<p, rows[d]>> \in found <=> <<p, rows[d]>> \in all
  <2>1. CASE rows[d] \in Keys
    BY <2>1 DEF KeysOf
  <2>2. CASE rows[d] \notin Keys
    BY <2>2
  <2> QED
    BY <2>1, <2>2
<1>2. ASSUME NEW d \in DriverIds
      PROVE  (\A m \in found : m[2] # rows[d]) <=> (\A m \in all : m[2] # rows[d])
  <2>1. \A m \in found : m[1] \in ProbeIds /\ m = <<m[1], m[2]>>
    OBVIOUS
  <2>2. \A m \in all : m[1] \in ProbeIds /\ m = <<m[1], m[2]>>
    OBVIOUS
  <2> QED
    BY <1>1, <2>1, <2>2
<1>3. \A a : a \in Matched(rows, found) <=> a \in Matched(rows, all)
  BY <1>1, <1>2, MatchedAre
<1> QED
  BY <1>3

\* Pairs of IDs, in the range of the IDs and the number that is none.
LEMMA MatchedIsFinite ==
    ASSUME NEW rows \in [DriverIds -> Keys \cup {Null, Absent}],
           NEW found \in SUBSET (ProbeIds \X Keys)
    PROVE  IsFiniteSet(Matched(rows, found)) /\ Matched(rows, found) \in SUBSET (Int \X Int)
<1> DEFINE sides == DriverIds \cup ProbeIds \cup {NoMatch}
<1>1. IsFiniteSet(sides)
  <2>1. IsFiniteSet(DriverIds \cup ProbeIds)
    BY FS_Union, JoinAssumption
  <2> QED
    BY <2>1, FS_AddElement
<1>2. sides \subseteq Int
  BY JoinAssumption
<1>3. Matched(rows, found) \in SUBSET (sides \X sides)
  <2> SUFFICES ASSUME NEW a \in Matched(rows, found) PROVE a \in sides \X sides
    OBVIOUS
  <2>1. \E d \in DriverIds : (\E p \in ProbeIds : a = Pair(d, p)) \/ a = Pair(d, NoMatch)
    <3>1. \/ \E x \in RowsRead(rows) \X found : a = Pair(x[1], x[2][1])
          \/ \E d \in RowsRead(rows) : a = Pair(d, NoMatch)
      BY DEF Matched
    <3>2. \A x \in RowsRead(rows) \X found : x[1] \in DriverIds /\ x[2][1] \in ProbeIds
      BY DEF RowsRead
    <3> QED
      BY <3>1, <3>2 DEF RowsRead
  <2> QED
    BY <2>1 DEF Pair
<1> HIDE DEF sides
<1>4. IsFiniteSet(sides \X sides)
  BY <1>1, FiniteProduct
<1>5. IsFiniteSet(Matched(rows, found))
  BY <1>3, <1>4, FS_Subset
<1> QED
  BY <1>2, <1>3, <1>5

-----------------------------------------------------------------------------
(* Paging.                                                                   *)

\* How many of J come before a.
Rank(J, a) == Cardinality({b \in J : Before(b, a)})

\* Before is a total order of pairs of numbers.
LEMMA BeforeIsTotal ==
    /\ \A a, b \in Int \X Int : a = b \/ Before(a, b) \/ Before(b, a)
    /\ \A a \in Int \X Int : ~Before(a, a)
    /\ \A a, b, c \in Int \X Int : Before(a, b) /\ Before(b, c) => Before(a, c)
<1>1. ASSUME NEW a \in Int \X Int, NEW b \in Int \X Int
      PROVE  a = b \/ Before(a, b) \/ Before(b, a)
  <2>1. a[1] \in Int /\ a[2] \in Int /\ b[1] \in Int /\ b[2] \in Int
    OBVIOUS
  <2>2. a = <<a[1], a[2]>> /\ b = <<b[1], b[2]>>
    OBVIOUS
  <2> QED
    BY <2>1, <2>2 DEF Before
<1>2. \A a \in Int \X Int : a[1] \in Int /\ a[2] \in Int
  OBVIOUS
<1> QED
  BY <1>1, <1>2 DEF Before

\* Who is later has more before it.
LEMMA RankGrows ==
    ASSUME NEW J \in SUBSET (Int \X Int), IsFiniteSet(J)
    PROVE  /\ \A a \in J : Rank(J, a) \in Nat
           /\ \A a, b \in J : Before(a, b) => Rank(J, a) < Rank(J, b)
<1>1. ASSUME NEW a \in J PROVE IsFiniteSet({b \in J : Before(b, a)}) /\ Rank(J, a) \in Nat
  <2>1. {b \in J : Before(b, a)} \in SUBSET J
    OBVIOUS
  <2>2. IsFiniteSet({b \in J : Before(b, a)})
    BY <2>1, FS_Subset
  <2> QED
    BY <2>2, FS_CardinalityType DEF Rank
<1>2. ASSUME NEW a \in J, NEW b \in J, Before(a, b) PROVE Rank(J, a) < Rank(J, b)
  <2> DEFINE A == {c \in J : Before(c, a)}
             B == {c \in J : Before(c, b)}
  <2>1. A \in SUBSET B /\ a \in B /\ a \notin A
    BY <1>2, BeforeIsTotal
  <2>2. IsFiniteSet(B) /\ Cardinality(A) = Rank(J, a) /\ Cardinality(B) = Rank(J, b)
    BY <1>1 DEF Rank
  <2> HIDE DEF A, B
  <2>3. Cardinality(A) <= Cardinality(B) /\ Cardinality(A) # Cardinality(B)
    BY <2>1, <2>2, FS_Subset
  <2>4. Rank(J, a) \in Nat /\ Rank(J, b) \in Nat
    BY <1>1
  <2>5. \A m, n \in Nat : m <= n /\ m # n => m < n
    OBVIOUS
  <2> QED
    BY <2>2, <2>3, <2>4, <2>5
<1> QED
  BY <1>1, <1>2

\* A row that the page leaves out comes after a full page.
LEMMA LeftOutIsLater ==
    ASSUME NEW J \in SUBSET (Int \X Int), IsFiniteSet(J), NEW a \in J, a \notin Page(J)
    PROVE  Cardinality(Page(J)) = First /\ \A b \in Page(J) : Before(b, a)
<1> DEFINE rank(b) == Rank(J, b)
           L    == {b \in J : Before(b, a)}
           n    == rank(a)
<1>1. First \in Nat /\ First > 0 /\ n \in Nat /\ First <= n
  <2>1. First \in Nat \ {0}
    BY JoinAssumption
  <2>2. n \in Nat
    BY RankGrows
  <2>3. ~(n < First)
    BY DEF Page, Rank
  <2> HIDE DEF n
  <2> QED
    BY <2>1, <2>2, <2>3
<1>2. \A b \in J : rank(b) \in Nat
  BY RankGrows
<1>3. \A b \in J : b \in Page(J) <=> rank(b) < First
  BY DEF Page, Rank
<1>4. \A b, c \in J : Before(b, c) => rank(b) < rank(c)
  BY RankGrows
<1>5. \A b, c \in J : b = c \/ Before(b, c) \/ Before(c, b)
  BY BeforeIsTotal
<1>6. Page(J) \subseteq J /\ L \in SUBSET J /\ IsFiniteSet(L) /\ Cardinality(L) = n
  <2>1. L \in SUBSET J
    OBVIOUS
  <2> QED
    BY <2>1, FS_Subset DEF Page, Rank
<1>7. L = {b \in J : Before(b, a)}
  OBVIOUS
<1> HIDE DEF rank, L, n
<1>8. \A b \in Page(J) : Before(b, a)
  <2> SUFFICES ASSUME NEW b \in Page(J), ~Before(b, a) PROVE FALSE
    OBVIOUS
  <2>1. b \in J /\ rank(b) < First
    BY <1>3, <1>6
  <2>2. b = a \/ Before(a, b)
    BY <1>5, <2>1
  <2>3. rank(a) <= rank(b)
    BY <1>2, <1>4, <2>1, <2>2
  <2> QED
    BY <1>1, <1>2, <2>1, <2>3 DEF n
\* The ranks before a are all numbers below its own.
<1> DEFINE places == 0 .. n - 1
           place  == [b \in L |-> rank(b)]
<1>9. \A b \in L : b \in J /\ rank(b) \in Nat /\ rank(b) < n
  BY <1>2, <1>4, <1>7 DEF n
<1>10. place \in Injection(L, places)
  <2>1. place \in [L -> places]
    BY <1>1, <1>9
  <2>2. \A b, c \in L : place[b] = place[c] => b = c
    <3> SUFFICES ASSUME NEW b \in L, NEW c \in L, rank(b) = rank(c) PROVE b = c
      OBVIOUS
    <3>1. b \in J /\ c \in J /\ rank(b) \in Nat
      BY <1>9
    <3> QED
      BY <1>4, <1>5, <3>1
  <2> HIDE DEF place, places
  <2> QED
    BY <2>1, <2>2 DEF Injection, IsInjective
<1>11. IsFiniteSet(places) /\ Cardinality(places) = n
  BY <1>1, FS_Interval
<1>12. place \in Surjection(L, places)
  <2> HIDE DEF place, places
  <2> QED
    BY <1>6, <1>10, <1>11, FS_Injection
\* So the page has one row of each rank below its size.
<1> DEFINE firsts == 0 .. First - 1
           row    == [b \in Page(J) |-> rank(b)]
<1>13. \A b \in Page(J) : b \in J /\ b \in L
  BY <1>6, <1>7, <1>8
<1>14. row \in Injection(Page(J), firsts)
  <2>1. row \in [Page(J) -> firsts]
    BY <1>1, <1>2, <1>3, <1>6
  <2>2. \A b, c \in Page(J) : row[b] = row[c] => b = c
    <3> SUFFICES ASSUME NEW b \in Page(J), NEW c \in Page(J), rank(b) = rank(c) PROVE b = c
      OBVIOUS
    <3>1. b \in J /\ c \in J /\ rank(b) \in Nat
      BY <1>2, <1>13
    <3> QED
      BY <1>4, <1>5, <3>1
  <2> HIDE DEF row, firsts
  <2> QED
    BY <2>1, <2>2 DEF Injection, IsInjective
<1>15. row \in Surjection(Page(J), firsts)
  <2>1. \A i \in firsts : \E b \in Page(J) : row[b] = i
    <3> SUFFICES ASSUME NEW i \in firsts PROVE \E b \in Page(J) : rank(b) = i
      OBVIOUS
    <3>1. i \in places
      BY <1>1
    <3>2. PICK b \in L : place[b] = i
      <4> HIDE DEF places, place
      <4> QED
        BY <1>12, <3>1 DEF Surjection
    <3>3. b \in J /\ rank(b) = i /\ rank(b) < First
      BY <1>1, <1>9, <3>2
    <3> QED
      BY <1>3, <3>3
  <2>2. row \in [Page(J) -> firsts]
    BY <1>14 DEF Injection
  <2> HIDE DEF row, firsts
  <2> QED
    BY <2>1, <2>2 DEF Surjection
<1>16. IsFiniteSet(firsts) /\ Cardinality(firsts) = First
  BY <1>1, FS_Interval
<1>17. Cardinality(Page(J)) = First
  <2> HIDE DEF row, firsts
  <2> QED
    BY <1>14, <1>15, <1>16, FS_Injection
<1> QED
  BY <1>8, <1>17

-----------------------------------------------------------------------------
(* The keys move from unsent to the work, are split there, and are probed.   *)

LEMMA KeysTaken ==
    ASSUME JType, EachKeyOnce, NEW batch \in SUBSET unsent, TakeBatch(batch)
    PROVE  work' \in Seq(SUBSET Keys) /\ KeysApart' /\ Probed' = Probed
<1>1. /\ work = <<>> /\ work' = <<batch>> /\ unsent' = unsent \ batch
      /\ driver_rows' = driver_rows /\ batch \in SUBSET Keys
  BY DEF TakeBatch, JType
<1>2. Len(work') = 1 /\ work'[1] = batch /\ Len(work) = 0
  BY <1>1
<1>3. InWork = {} /\ InWork' = batch
  BY <1>2 DEF InWork
<1>4. KeysApart'
  BY <1>1, <1>2 DEF KeysApart, EachKeyOnce
<1> QED
  BY <1>1, <1>3, <1>4 DEF Probed

LEMMA KeysSplit ==
    ASSUME JType, EachKeyOnce, Split
    PROVE  work' \in Seq(SUBSET Keys) /\ KeysApart' /\ Probed' = Probed
<1> DEFINE L == Len(work)
<1>1. L \in Nat /\ L > 0 /\ work \in Seq(SUBSET Keys) /\ \A n \in 1 .. L : work[n] \in SUBSET Keys
  BY DEF Split, JType
<1>2. PICK half \in SUBSET Head(work) : work' = Halves(Head(work), half, Tail(work))
  BY DEF Split
<1>3. driver_rows' = driver_rows /\ unsent' = unsent
  BY DEF Split
<1>4. /\ work' \in Seq(SUBSET Keys) /\ Len(work') = L + 1
      /\ work'[1] = half /\ work'[2] = work[1] \ half /\ half \subseteq work[1]
      /\ \A n \in 3 .. L + 1 : work'[n] = work[n - 1]
  <2> DEFINE two  == <<half, Head(work) \ half>>
             rest == Tail(work)
  <2>1. Head(work) = work[1] /\ work[1] \in SUBSET Keys
    BY <1>1
  <2>2. /\ rest \in Seq(SUBSET Keys) /\ Len(rest) = L - 1
        /\ \A n \in 1 .. L - 1 : rest[n] = work[n + 1]
    BY <1>1
  <2>3. two \in Seq(SUBSET Keys) /\ Len(two) = 2 /\ two[1] = half /\ two[2] = Head(work) \ half
    BY <2>1
  <2>4. work' = two \o rest
    BY <1>2 DEF Halves
  <2> HIDE DEF two, rest, L
  <2>5. /\ two \o rest \in Seq(SUBSET Keys) /\ Len(two \o rest) = Len(two) + Len(rest)
        /\ \A n \in 1 .. Len(two) + Len(rest) :
              (two \o rest)[n] = IF n <= Len(two) THEN two[n] ELSE rest[n - Len(two)]
    <3> DEFINE S == SUBSET Keys
    <3>1. two \in Seq(S) /\ rest \in Seq(S)
      BY <2>2, <2>3
    <3> HIDE DEF S
    <3>2. /\ two \o rest \in Seq(S)
          /\ Len(two \o rest) = Len(two) + Len(rest)
          /\ \A n \in 1 .. Len(two) + Len(rest) :
                (two \o rest)[n] = IF n <= Len(two) THEN two[n] ELSE rest[n - Len(two)]
      BY <3>1, ConcatProperties
    <3> QED
      BY <3>2 DEF S
  <2>6. ASSUME NEW n \in 3 .. L + 1 PROVE work'[n] = work[n - 1]
    <3>1. n \in 1 .. 2 + (L - 1) /\ ~(n <= 2) /\ n - 2 \in 1 .. L - 1 /\ (n - 2) + 1 = n - 1
      BY <1>1
    <3> QED
      BY <2>2, <2>3, <2>4, <2>5, <3>1
  <2>7. 1 \in 1 .. 2 + (L - 1) /\ 2 \in 1 .. 2 + (L - 1) /\ 2 + (L - 1) = L + 1
    BY <1>1
  <2> QED
    BY <2>1, <2>2, <2>3, <2>4, <2>5, <2>6, <2>7
<1> DEFINE old(n) == IF n < 3 THEN 1 ELSE n - 1
<1>L. L = Len(work)
  OBVIOUS
<1> HIDE DEF L
<1>5. \A n \in 1 .. L + 1 : old(n) \in 1 .. L /\ work'[n] \subseteq work[old(n)]
  <2> SUFFICES ASSUME NEW n \in 1 .. L + 1
               PROVE  old(n) \in 1 .. L /\ work'[n] \subseteq work[old(n)]
    OBVIOUS
  <2>1. n = 1 \/ n = 2 \/ n \in 3 .. L + 1
    BY <1>1
  <2> QED
    BY <1>1, <1>4, <2>1
<1>6. \A m, n \in 1 .. L + 1 : m # n => work'[m] \cap work'[n] = {}
  <2> SUFFICES ASSUME NEW m \in 1 .. L + 1, NEW n \in 1 .. L + 1, m # n
               PROVE  work'[m] \cap work'[n] = {}
    OBVIOUS
  <2>1. CASE old(m) = old(n)
    <3>1. (m = 1 /\ n = 2) \/ (m = 2 /\ n = 1)
      BY <1>1, <2>1
    <3> QED
      BY <1>4, <3>1
  <2>2. CASE old(m) # old(n)
    <3>1. work[old(m)] \cap work[old(n)] = {}
      BY <1>5, <1>L, <2>2 DEF KeysApart, EachKeyOnce
    <3> QED
      BY <1>5, <3>1
  <2> QED
    BY <2>1, <2>2
<1>7. KeysApart'
  <2>1. \A n \in 1 .. L + 1 : work'[n] \subseteq KeysOf(driver_rows) \ unsent
    BY <1>5, <1>L DEF KeysApart, EachKeyOnce
  <2> QED
    BY <1>3, <1>4, <1>6, <2>1 DEF KeysApart, EachKeyOnce
<1>8. InWork' = InWork
  <2>1. ASSUME NEW n \in 1 .. L, NEW k \in work[n] PROVE \E m \in 1 .. L + 1 : k \in work'[m]
    <3>1. CASE n = 1
      <4>1. 1 \in 1 .. L + 1 /\ 2 \in 1 .. L + 1
        BY <1>1
      <4> QED
        BY <1>4, <2>1, <3>1, <4>1
    <3>2. CASE n # 1
      <4>1. n + 1 \in 3 .. L + 1 /\ n + 1 \in 1 .. L + 1 /\ (n + 1) - 1 = n
        BY <1>1, <3>2
      <4> QED
        BY <1>4, <2>1, <4>1
    <3> QED
      BY <3>1, <3>2
  <2>2. \A n \in 1 .. L + 1 : \A k \in work'[n] : \E m \in 1 .. L : k \in work[m]
    BY <1>5
  <2>3. InWork = UNION {work[n] : n \in 1 .. L} /\ InWork' = UNION {work'[n] : n \in 1 .. L + 1}
    BY <1>4, <1>L DEF InWork
  <2> QED
    BY <2>1, <2>2, <2>3
<1> QED
  BY <1>3, <1>4, <1>7, <1>8 DEF Probed

LEMMA KeysProbed ==
    ASSUME JType, EachKeyOnce, work # <<>>, work' = Tail(work), UNCHANGED <<unsent, driver_rows>>
    PROVE  /\ work' \in Seq(SUBSET Keys) /\ KeysApart'
           /\ Head(work) \in SUBSET KeysOf(driver_rows)
           /\ Probed' = Probed \cup Head(work) /\ Head(work) \cap Probed = {}
<1> DEFINE L == Len(work)
<1>1. /\ L \in Nat /\ L > 0 /\ Head(work) = work[1] /\ work' \in Seq(SUBSET Keys)
      /\ Len(work') = L - 1 /\ \A n \in 1 .. L - 1 : work'[n] = work[n + 1]
  BY DEF JType
<1>L. L = Len(work)
  OBVIOUS
<1> HIDE DEF L
<1>2. \A n \in 1 .. L - 1 : n + 1 \in 1 .. L /\ n + 1 # 1
  BY <1>1
<1>3. 1 \in 1 .. L /\ \A n \in 1 .. L : n = 1 \/ (n - 1 \in 1 .. L - 1 /\ (n - 1) + 1 = n)
  BY <1>1
<1>4. \A n \in 1 .. L : work[n] \subseteq KeysOf(driver_rows) \ unsent
  BY <1>L DEF EachKeyOnce, KeysApart
<1>5. \A m, n \in 1 .. L : m # n => work[m] \cap work[n] = {}
  BY <1>L DEF EachKeyOnce, KeysApart
<1>6. KeysApart'
  <2>1. \A m, n \in 1 .. L - 1 : m # n => m + 1 # n + 1
    BY <1>1
  <2>2. \A m, n \in 1 .. L - 1 : m # n => work'[m] \cap work'[n] = {}
    BY <1>1, <1>2, <1>5, <2>1
  <2>3. \A n \in 1 .. L - 1 : work'[n] \subseteq KeysOf(driver_rows) \ unsent
    BY <1>1, <1>2, <1>4
  <2> QED
    BY <1>1, <2>2, <2>3 DEF KeysApart, EachKeyOnce
<1>7. InWork = work[1] \cup InWork' /\ work[1] \cap InWork' = {}
  <2>1. InWork = UNION {work[n] : n \in 1 .. L} /\ InWork' = UNION {work'[n] : n \in 1 .. L - 1}
    BY <1>1, <1>L DEF InWork
  <2>2. \A n \in 1 .. L : \A k \in work[n] : k \in work[1] \/ \E m \in 1 .. L - 1 : k \in work'[m]
    BY <1>1, <1>3
  <2>3. \A n \in 1 .. L - 1 : \A k \in work'[n] : k \in work[n + 1] /\ k \notin work[1]
    BY <1>1, <1>2, <1>3, <1>5
  <2>4. work[1] \subseteq InWork
    BY <1>3, <2>1
  <2>5. InWork' \subseteq InWork
    <3> SUFFICES ASSUME NEW k \in InWork' PROVE k \in InWork
      OBVIOUS
    <3>1. PICK n \in 1 .. L - 1 : k \in work'[n]
      BY <2>1
    <3>2. n + 1 \in 1 .. L /\ k \in work[n + 1]
      BY <1>2, <2>3, <3>1
    <3> QED
      BY <2>1, <3>2
  <2>6. InWork \subseteq work[1] \cup InWork'
    BY <2>1, <2>2
  <2>7. work[1] \cap InWork' = {}
    BY <2>1, <2>3
  <2> QED
    BY <2>4, <2>5, <2>6, <2>7
<1>8. work[1] \subseteq KeysOf(driver_rows) /\ work[1] \cap unsent = {}
  BY <1>3, <1>4
<1> QED
  BY <1>1, <1>6, <1>7, <1>8 DEF Probed

-----------------------------------------------------------------------------
(* Every step keeps the invariant.                                           *)

\* The rows that have the keys K now.
LEMMA FoundIsFinite ==
    ASSUME JType, NEW K \in SUBSET Keys
    PROVE  Found(K) \in SUBSET (ProbeIds \X Keys) /\ IsFiniteSet(Found(K))
<1>1. Found(K) \in SUBSET (ProbeIds \X Keys)
  BY DEF Found
<1>2. IsFiniteSet(ProbeIds \X Keys)
  BY FiniteProduct, JoinAssumption
<1> QED
  BY <1>1, <1>2, FS_Subset

LEMMA JInitially == Init => JInv
<1> SUFFICES ASSUME Init PROVE JInv
  OBVIOUS
<1>1. JType
  BY DEF Init, JType
<1>2. unsent = {} /\ work = <<>> /\ Len(work) = 0 /\ probe_rows = {} /\ outcome = "driving"
  BY DEF Init
<1>3. EachKeyOnce
  BY <1>2 DEF EachKeyOnce, KeysApart
<1>4. HeldInThePast
  BY <1>2 DEF Init, HeldInThePast
<1> QED
  BY <1>1, <1>2, <1>3, <1>4
     DEF JInv, ProbesAreWhole, PageOfAll, DriverIsRead, RefusalIsJustified

\* A join that ends without an answer needs a reason and nothing else.
LEMMA EndKeepsJInv ==
    ASSUME JInv, outcome \in {"driving", "probing"},
           NEW how \in {"row_limit", "coordinator_limit", "failed"}, End(how),
           writes = 0 =>
              /\ how = "row_limit" =>
                    \/ Cardinality(RowsRead(driver_key)) > MaxDriver
                    \/ Cardinality(RowsRead(driver_key)) > DriverGuard
                    \/ \E k \in KeysOf(driver_key) : Cardinality(Found({k})) > ProbeGuard
              /\ how = "coordinator_limit" =>
                    \/ Cardinality(Found(KeysOf(driver_key))) > MaxProbe
                    \/ Cardinality(Reference) > MaxJoined
    PROVE  JInv'
<1>1. /\ outcome' = how /\ UNCHANGED <<driver_side, optional, driver_key, probe_key, past, writes>>
      /\ UNCHANGED <<driver_rows, unsent, work, probe_rows, page>>
  BY DEF End, data_vars, shape_vars
<1>2. JType'
  BY <1>1 DEF JInv, JType, Ended
<1>3. EachKeyOnce' /\ HeldInThePast'
  BY <1>1 DEF JInv, EachKeyOnce, KeysApart, Probed, InWork, HeldInThePast
<1>4. ProbesAreWhole' /\ PageOfAll' /\ DriverIsRead'
  BY <1>1 DEF ProbesAreWhole, PageOfAll, DriverIsRead
<1>5. Reference' = Reference
  BY <1>1 DEF Reference, AllFound, Matched, Pair
<1>6. RefusalIsJustified'
  BY <1>1, <1>5 DEF RefusalIsJustified, Found
<1> QED
  BY <1>2, <1>3, <1>4, <1>6 DEF JInv

LEMMA ReadDriverKeepsJInv == ASSUME JInv, ReadDriver PROVE JInv'
<1>1. outcome = "driving" /\ work = <<>> /\ Len(work) = 0 /\ probe_rows = {}
  BY DEF ReadDriver, JInv, EachKeyOnce
<1>2. CASE End("row_limit")
  <2>1. CASE Cardinality(RowsRead(driver_key)) > DriverGuard \/ Cardinality(RowsRead(driver_key)) > MaxDriver
    BY <1>1, <1>2, <2>1, EndKeepsJInv
  <2>2. CASE ~(Cardinality(RowsRead(driver_key)) > DriverGuard \/ Cardinality(RowsRead(driver_key)) > MaxDriver)
    <3>1. FALSE
      BY <1>2, <2>2 DEF ReadDriver, End
    <3> QED
      BY <3>1
  <2> QED
    BY <2>1, <2>2
<1>3. CASE ~End("row_limit")
  <2>1. /\ driver_rows' = driver_key /\ unsent' = KeysOf(driver_key) /\ outcome' = "probing"
        /\ UNCHANGED <<driver_side, optional, driver_key, probe_key, past, writes>>
        /\ UNCHANGED <<work, probe_rows, page>>
    BY <1>3 DEF ReadDriver, data_vars, shape_vars
  <2>2. JType'
    BY <2>1 DEF JInv, JType, KeysOf
  <2>3. Probed' = {} /\ EachKeyOnce'
    BY <1>1, <2>1 DEF EachKeyOnce, KeysApart, Probed
  <2>4. HeldInThePast'
    BY <1>1, <2>1 DEF JInv, HeldInThePast
  <2> QED
    BY <2>1, <2>2, <2>3, <2>4
       DEF JInv, ProbesAreWhole, PageOfAll, DriverIsRead, RefusalIsJustified
<1> QED
  BY <1>2, <1>3

\* What stays as it is while keys only move.
LEMMA MoveKeepsJInv ==
    ASSUME JInv, outcome = "probing",
           work' \in Seq(SUBSET Keys), KeysApart', Probed' = Probed, unsent' \in SUBSET Keys,
           UNCHANGED <<data_vars, driver_rows, probe_rows, outcome, page>>
    PROVE  JInv'
<1>1. UNCHANGED <<driver_side, optional, driver_key, probe_key, past, writes>>
  BY DEF data_vars, shape_vars
<1>2. JType'
  BY <1>1 DEF JInv, JType
<1>3. EachKeyOnce' /\ HeldInThePast'
  BY <1>1 DEF JInv, EachKeyOnce, HeldInThePast
<1>4. ProbesAreWhole'
  BY <1>1 DEF JInv, ProbesAreWhole
<1> QED
  BY <1>1, <1>2, <1>3, <1>4 DEF JInv, PageOfAll, DriverIsRead, RefusalIsJustified

LEMMA ProbeKeepsJInv == ASSUME JInv, Probe PROVE JInv'
<1> DEFINE batch == Head(work)
           found == Found(batch)
<1>1. /\ outcome = "probing" /\ work # <<>> /\ work' = Tail(work)
      /\ UNCHANGED <<driver_side, optional, driver_key, probe_key, past, writes>>
      /\ UNCHANGED <<driver_rows, unsent, page>>
  BY DEF Probe, data_vars, shape_vars
<1>2. PICK rows \in SUBSET found :
          /\ rows = found \/ Cardinality(rows) = ProbeBudget + 1
          /\ probe_rows' = probe_rows \cup rows
          /\ outcome' = IF Cardinality(probe_rows') > MaxProbe
                        THEN "coordinator_limit" ELSE outcome
  BY DEF Probe
<1>3. /\ work' \in Seq(SUBSET Keys) /\ KeysApart'
      /\ batch \in SUBSET KeysOf(driver_rows)
      /\ Probed' = Probed \cup batch /\ batch \cap Probed = {}
  <2>1. JType /\ EachKeyOnce
    BY DEF JInv
  <2> QED
    BY <1>1, <2>1, KeysProbed
<1>4. found \in SUBSET (ProbeIds \X Keys) /\ IsFiniteSet(found) /\ batch \in SUBSET Keys
  <2>1. batch \in SUBSET Keys /\ JType
    BY <1>3 DEF KeysOf, JInv
  <2> QED
    BY <2>1, FoundIsFinite
<1>5. \A p, k : <<p, k>> \in found <=> p \in ProbeIds /\ k = probe_key[p] /\ k \in batch
  BY DEF Found
<1> HIDE DEF batch, found
<1>6. /\ probe_rows \in SUBSET (ProbeIds \X Keys) /\ probe_rows' \in SUBSET (ProbeIds \X Keys)
      /\ IsFiniteSet(probe_rows) /\ IsFiniteSet(probe_rows') /\ IsFiniteSet(rows)
  <2>1. IsFiniteSet(ProbeIds \X Keys)
    BY FiniteProduct, JoinAssumption
  <2>2. probe_rows \in SUBSET (ProbeIds \X Keys) /\ probe_rows' \in SUBSET (ProbeIds \X Keys)
    BY <1>2, <1>4 DEF JInv, JType
  <2> QED
    BY <1>4, <2>1, <2>2, FS_Subset
<1>7. \A m \in rows : m = <<m[1], m[2]>> /\ m[1] \in ProbeIds /\ m[2] = probe_key[m[1]] /\ m[2] \in batch
  <2> SUFFICES ASSUME NEW m \in rows
               PROVE  m = <<m[1], m[2]>> /\ m[1] \in ProbeIds /\ m[2] = probe_key[m[1]] /\ m[2] \in batch
    OBVIOUS
  <2>1. m \in found /\ m = <<m[1], m[2]>>
    BY <1>4
  <2> QED
    BY <1>5, <2>1
<1>8. JType'
  BY <1>1, <1>2, <1>3, <1>6 DEF JInv, JType, Ended
<1>9. EachKeyOnce'
  <2>1. \A m \in probe_rows' : m[2] \in Probed'
    BY <1>2, <1>3, <1>7 DEF JInv, EachKeyOnce
  <2>2. outcome' # "driving"
    BY <1>1, <1>2
  <2> QED
    BY <1>3, <2>1, <2>2 DEF EachKeyOnce
<1>10. HeldInThePast'
  BY <1>1, <1>2, <1>7 DEF JInv, HeldInThePast
\* A probe that was cut is over the budget, for none of its rows was there before.
<1>11. CASE outcome' = "probing"
  <2>1. ~(Cardinality(probe_rows') > MaxProbe)
    BY <1>2, <1>11
  <2>2. rows = found
    <3> SUFFICES ASSUME Cardinality(rows) = ProbeBudget + 1 PROVE FALSE
      BY <1>2
    <3>1. probe_rows \cap rows = {}
      BY <1>3, <1>7 DEF JInv, EachKeyOnce
    <3>2. Cardinality(probe_rows') = Cardinality(probe_rows) + Cardinality(rows)
      <4>1. Cardinality(probe_rows \cup rows) =
                Cardinality(probe_rows) + Cardinality(rows) - Cardinality(probe_rows \cap rows)
        BY <1>6, FS_Union
      <4>2. Cardinality(probe_rows \cap rows) = 0
        BY <3>1, FS_EmptySet
      <4>3. Cardinality(probe_rows) \in Nat /\ Cardinality(rows) \in Nat
        BY <1>6, FS_CardinalityType
      <4> QED
        BY <1>2, <4>1, <4>2, <4>3
    <3>3. Cardinality(probe_rows) \in Nat /\ MaxProbe \in Nat
      BY <1>6, FS_CardinalityType, JoinAssumption
    <3> QED
      BY <2>1, <3>2, <3>3 DEF ProbeBudget
  <2>3. ASSUME NEW p \in ProbeIds, NEW k \in Probed', past'[p] = {k}
        PROVE  <<p, k>> \in probe_rows'
    <3>1. past[p] = {k} /\ probe_key[p] = k
      BY <1>1, <2>3 DEF JInv, HeldInThePast
    <3>2. CASE k \in Probed
      BY <1>1, <1>2, <3>1, <3>2 DEF JInv, ProbesAreWhole
    <3>3. CASE k \in batch
      BY <1>2, <1>5, <2>2, <3>1, <3>3
    <3> QED
      BY <1>3, <3>2, <3>3
  <2>4. ProbesAreWhole'
    BY <2>3 DEF ProbesAreWhole
  <2>5. DriverIsRead'
    BY <1>1 DEF JInv, DriverIsRead
  <2> QED
    BY <1>8, <1>9, <1>10, <1>11, <2>4, <2>5 DEF JInv, PageOfAll, RefusalIsJustified
<1>12. CASE outcome' = "coordinator_limit"
  <2>1. ASSUME writes' = 0 PROVE Cardinality(Found(KeysOf(driver_key)))' > MaxProbe
    <3> DEFINE all == Found(KeysOf(driver_key))
    <3>1. all \in SUBSET (ProbeIds \X Keys) /\ IsFiniteSet(all)
      <4>1. KeysOf(driver_key) \in SUBSET Keys /\ JType
        BY DEF KeysOf, JInv
      <4> QED
        BY <4>1, FoundIsFinite
    <3>2. \A p \in ProbeIds : probe_key[p] \in KeysOf(driver_key) => <<p, probe_key[p]>> \in all
      BY DEF Found
    <3>3. all' = all
      BY <1>1 DEF Found
    <3> HIDE DEF all
    <3>4. \A m \in probe_rows' : m = <<m[1], m[2]>> /\ m[1] \in ProbeIds
      BY <1>6
    <3>5. \A m \in probe_rows' : m[2] = probe_key[m[1]] /\ m[2] \in KeysOf(driver_key)
      <4> SUFFICES ASSUME NEW m \in probe_rows'
                   PROVE  m[2] = probe_key[m[1]] /\ m[2] \in KeysOf(driver_key)
        OBVIOUS
      <4>1. m[2] \in past'[m[1]] /\ past'[m[1]] = {probe_key'[m[1]]}
        BY <1>10, <2>1, <3>4 DEF HeldInThePast
      <4>2. m[2] \in KeysOf(driver_rows')
        BY <1>9 DEF EachKeyOnce, Probed
      <4>3. driver_rows' = driver_key
        BY <1>1 DEF JInv, DriverIsRead
      <4> QED
        BY <1>1, <4>1, <4>2, <4>3
    <3>6. probe_rows' \in SUBSET all
      BY <3>2, <3>4, <3>5
    <3>7. Cardinality(probe_rows') <= Cardinality(all)
      BY <3>1, <3>6, FS_Subset
    <3>8. Cardinality(probe_rows') > MaxProbe
      BY <1>1, <1>2, <1>12
    <3>9. Cardinality(probe_rows') \in Nat /\ Cardinality(all) \in Nat /\ MaxProbe \in Nat
      BY <1>6, <3>1, FS_CardinalityType, JoinAssumption
    <3>10. Cardinality(all) > MaxProbe
      BY <3>7, <3>8, <3>9
    <3> QED
      BY <3>3, <3>10 DEF all
  <2>2. RefusalIsJustified'
    BY <1>12, <2>1 DEF RefusalIsJustified
  <2> QED
    BY <1>8, <1>9, <1>10, <1>12, <2>2 DEF JInv, PageOfAll, ProbesAreWhole, DriverIsRead
<1> QED
  BY <1>1, <1>2, <1>11, <1>12

\* A single key that has more rows than a read may return.
LEMMA RefuseKeepsJInv == ASSUME JInv, Refuse PROVE JInv'
<1> DEFINE batch == Head(work)
<1>1. /\ outcome = "probing" /\ work # <<>> /\ End("row_limit")
      /\ Cardinality(Found(batch)) > ProbeGuard /\ ~(Cardinality(batch) > 1)
  BY DEF Refuse, Overflows, Splits
<1>2. batch \in SUBSET KeysOf(driver_key)
  <2>1. Len(work) \in Nat /\ Len(work) > 0 /\ batch = work[1]
    BY <1>1 DEF JInv, JType
  <2>2. 1 \in 1 .. Len(work)
    BY <2>1
  <2>3. driver_rows = driver_key
    BY <1>1 DEF JInv, DriverIsRead
  <2> QED
    BY <2>1, <2>2, <2>3 DEF JInv, EachKeyOnce, KeysApart
<1> HIDE DEF batch
<1>3. batch \in SUBSET Keys /\ IsFiniteSet(batch)
  <2>1. batch \in SUBSET Keys
    BY <1>2 DEF KeysOf
  <2> QED
    BY <2>1, FS_Subset, JoinAssumption
<1>4. batch # {}
  <2> SUFFICES ASSUME batch = {} PROVE FALSE
    OBVIOUS
  <2>1. Found(batch) = {}
    BY DEF Found
  <2>2. Cardinality(Found(batch)) = 0
    BY <2>1, FS_EmptySet
  <2>3. ProbeGuard \in Nat
    BY JoinAssumption
  <2> QED
    BY <1>1, <2>2, <2>3
<1>5. \E k \in KeysOf(driver_key) : Cardinality(Found({k})) > ProbeGuard
  <2>1. Cardinality(batch) \in Nat /\ Cardinality(batch) # 0
    BY <1>3, <1>4, FS_EmptySet, FS_CardinalityType
  <2>2. Cardinality(batch) = 1
    BY <1>1, <2>1
  <2>3. PICK k : batch = {k}
    BY <1>3, <2>2, FS_Singleton
  <2> QED
    BY <1>1, <1>2, <2>3
<1> QED
  BY <1>1, <1>5, EndKeepsJInv

\* Over data that nobody wrote to, the rows of the driving rows' keys are all
\* that is collected when every key was probed.
LEMMA CollectedAll ==
    ASSUME JInv, outcome \in {"probing", "answered"}, unsent = {}, work = <<>>, writes = 0
    PROVE  Matched(driver_rows, probe_rows) = Reference
<1>1. Probed = KeysOf(driver_rows)
  <2>1. Len(work) = 0
    OBVIOUS
  <2> QED
    BY <2>1 DEF Probed, InWork
<1>2. \A p \in ProbeIds : past[p] = {probe_key[p]}
  BY DEF JInv, HeldInThePast
<1>3. probe_rows \in SUBSET (ProbeIds \X Keys) /\ AllFound \in SUBSET (ProbeIds \X Keys)
  BY DEF JInv, JType, AllFound
<1>4. ASSUME NEW p \in ProbeIds, NEW k \in KeysOf(driver_rows)
      PROVE  <<p, k>> \in probe_rows <=> <<p, k>> \in AllFound
  <2>1. <<p, k>> \in AllFound <=> k = probe_key[p]
    BY DEF AllFound, KeysOf
  <2>2. ASSUME <<p, k>> \in probe_rows PROVE k = probe_key[p]
    <3>1. <<p, k>>[2] \in past[<<p, k>>[1]]
      BY <2>2 DEF JInv, HeldInThePast
    <3> QED
      BY <1>2, <3>1
  <2>3. k = probe_key[p] => <<p, k>> \in probe_rows
    BY <1>1, <1>2 DEF JInv, ProbesAreWhole
  <2> QED
    BY <2>1, <2>2, <2>3
<1>5. driver_rows \in [DriverIds -> Keys \cup {Null, Absent}]
  BY DEF JInv, JType
<1> QED
  BY <1>3, <1>4, <1>5, MatchedOfTheirKeys DEF Reference

LEMMA MatchKeepsJInv == ASSUME JInv, Match PROVE JInv'
<1> DEFINE joined == Matched(driver_rows, probe_rows)
<1>1. outcome = "probing" /\ work = <<>> /\ unsent = {}
  BY DEF Match
<1>2. CASE TooMany(joined)
  <2>1. End("coordinator_limit")
    BY <1>2 DEF Match
  <2>2. writes = 0 => Cardinality(Reference) > MaxJoined
    BY <1>1, <1>2, CollectedAll DEF TooMany
  <2> QED
    BY <1>1, <2>1, <2>2, EndKeepsJInv
<1>3. CASE ~TooMany(joined)
  <2>1. /\ page' = Page(joined) /\ outcome' = "answered"
        /\ UNCHANGED <<driver_side, optional, driver_key, probe_key, past, writes>>
        /\ UNCHANGED <<driver_rows, unsent, work, probe_rows>>
    BY <1>3 DEF Match, data_vars, shape_vars
  <2>2. JType'
    BY <2>1 DEF JInv, JType, Ended
  <2>3. EachKeyOnce' /\ HeldInThePast'
    BY <1>1, <2>1 DEF JInv, EachKeyOnce, KeysApart, Probed, InWork, HeldInThePast
  <2>4. ProbesAreWhole'
    BY <1>1, <2>1 DEF JInv, ProbesAreWhole, Probed, InWork
  <2>5. PageOfAll'
    <3>1. Page(Matched(driver_rows, probe_rows))' = Page(joined)
      BY <2>1 DEF Page, Before, Matched, Pair
    <3> QED
      BY <1>1, <2>1, <3>1 DEF PageOfAll
  <2>6. DriverIsRead'
    BY <1>1, <2>1 DEF JInv, DriverIsRead
  <2>7. RefusalIsJustified'
    BY <2>1 DEF RefusalIsJustified
  <2> QED
    BY <2>2, <2>3, <2>4, <2>5, <2>6, <2>7 DEF JInv
<1> QED
  BY <1>2, <1>3

\* A write to a row not read yet, and one while the probes are under way.
LEMMA WritesKeepJInv ==
    ASSUME JInv
    PROVE  /\ \A d \in DriverIds, k \in Keys \cup {Null, Absent} : WriteDriver(d, k) => JInv'
           /\ \A p \in ProbeIds, k \in Keys \cup {Null} : WriteProbe(p, k) => JInv'
<1>1. ASSUME NEW d \in DriverIds, NEW k \in Keys \cup {Null, Absent}, WriteDriver(d, k)
      PROVE  JInv'
  <2>1. /\ outcome = "driving" /\ driver_key' = [driver_key EXCEPT ![d] = k]
        /\ writes' = writes + 1
        /\ UNCHANGED <<driver_side, optional, probe_key, past>>
        /\ UNCHANGED <<driver_rows, unsent, work, probe_rows, outcome, page>>
    BY <1>1 DEF WriteDriver, shape_vars
  <2>2. JType'
    BY <2>1 DEF JInv, JType
  <2>3. EachKeyOnce' /\ HeldInThePast'
    BY <2>1 DEF JInv, JType, EachKeyOnce, KeysApart, Probed, InWork, HeldInThePast
  <2> QED
    BY <2>1, <2>2, <2>3
       DEF JInv, ProbesAreWhole, PageOfAll, DriverIsRead, RefusalIsJustified
<1>2. ASSUME NEW p \in ProbeIds, NEW k \in Keys \cup {Null}, WriteProbe(p, k)
      PROVE  JInv'
  <2>1. /\ outcome = "probing" /\ probe_key' = [probe_key EXCEPT ![p] = k]
        /\ past' = [past EXCEPT ![p] = @ \cup {k}] /\ writes' = writes + 1
        /\ UNCHANGED <<driver_side, optional, driver_key>>
        /\ UNCHANGED <<driver_rows, unsent, work, probe_rows, outcome, page>>
    BY <1>2 DEF WriteProbe, shape_vars
  <2>2. JType'
    BY <2>1 DEF JInv, JType
  <2>3. EachKeyOnce' /\ Probed' = Probed
    BY <2>1 DEF JInv, EachKeyOnce, KeysApart, Probed, InWork
  <2>4. \A q \in ProbeIds : past[q] \subseteq past'[q] /\ probe_key[q] \in past[q]
                            /\ past'[q] = IF q = p THEN past[q] \cup {k} ELSE past[q]
    BY <2>1 DEF JInv, JType, HeldInThePast
  <2>5. HeldInThePast'
    <3>1. \A q \in ProbeIds : probe_key'[q] \in past'[q]
      BY <2>1, <2>4 DEF JInv, JType
    <3>2. \A m \in probe_rows : m[1] \in ProbeIds /\ m[2] \in past[m[1]]
      BY DEF JInv, JType, HeldInThePast
    <3>3. writes' # 0
      BY <2>1 DEF JInv, JType
    <3> QED
      BY <2>1, <2>4, <3>1, <3>2, <3>3 DEF HeldInThePast
  <2>6. ProbesAreWhole'
    <3>1. \A q \in ProbeIds, j \in Probed : past'[q] = {j} => past[q] = {j}
      BY <2>4
    <3> QED
      BY <2>1, <2>3, <3>1 DEF JInv, ProbesAreWhole
  <2> QED
    BY <2>1, <2>2, <2>3, <2>5, <2>6
       DEF JInv, PageOfAll, DriverIsRead, RefusalIsJustified
<1> QED
  BY <1>1, <1>2

LEMMA JStep == JInv /\ [Next]_vars => JInv'
<1> SUFFICES ASSUME JInv, [Next]_vars PROVE JInv'
  OBVIOUS
<1>1. CASE ReadDriver
  BY <1>1, ReadDriverKeepsJInv
<1>2. ASSUME NEW batch \in SUBSET unsent, TakeBatch(batch) PROVE JInv'
  <2>1. work' \in Seq(SUBSET Keys) /\ KeysApart' /\ Probed' = Probed
    BY <1>2, KeysTaken DEF JInv
  <2>2. unsent' \in SUBSET Keys
    BY <1>2 DEF TakeBatch, JInv, JType
  <2> QED
    BY <1>2, <2>1, <2>2, MoveKeepsJInv DEF TakeBatch
<1>3. CASE Probe
  BY <1>3, ProbeKeepsJInv
<1>4. CASE Split
  <2>1. work' \in Seq(SUBSET Keys) /\ KeysApart' /\ Probed' = Probed
    BY <1>4, KeysSplit DEF JInv
  <2>2. unsent' \in SUBSET Keys
    BY <1>4 DEF Split, JInv, JType
  <2> QED
    BY <1>4, <2>1, <2>2, MoveKeepsJInv DEF Split
<1>5. CASE Refuse
  BY <1>5, RefuseKeepsJInv
<1>6. CASE Match
  BY <1>6, MatchKeepsJInv
<1>7. CASE ReadFails
  BY <1>7, EndKeepsJInv DEF ReadFails
<1>8. ASSUME NEW d \in DriverIds, NEW k \in Keys \cup {Null, Absent}, WriteDriver(d, k) PROVE JInv'
  BY <1>8, WritesKeepJInv
<1>9. ASSUME NEW p \in ProbeIds, NEW k \in Keys \cup {Null}, WriteProbe(p, k) PROVE JInv'
  BY <1>9, WritesKeepJInv
<1>10. CASE UNCHANGED vars
  <2>1. /\ UNCHANGED <<driver_side, optional, driver_key, probe_key, past, writes>>
        /\ UNCHANGED <<driver_rows, unsent, work, probe_rows, outcome, page>>
    BY <1>10 DEF vars, data_vars, shape_vars
  <2>2. JType'
    BY <2>1 DEF JInv, JType
  <2>3. EachKeyOnce' /\ HeldInThePast' /\ ProbesAreWhole'
    BY <2>1 DEF JInv, EachKeyOnce, KeysApart, Probed, InWork, HeldInThePast, ProbesAreWhole
  <2>4. PageOfAll' /\ DriverIsRead'
    <3>1. Page(Matched(driver_rows, probe_rows))' = Page(Matched(driver_rows, probe_rows))
      BY <2>1 DEF Page, Before, Matched, Pair
    <3> QED
      BY <2>1, <3>1 DEF JInv, PageOfAll, DriverIsRead
  <2>5. RefusalIsJustified'
    BY <2>1 DEF JInv, RefusalIsJustified, Found, Reference, AllFound, Matched, Pair
  <2> QED
    BY <2>2, <2>3, <2>4, <2>5 DEF JInv
<1> QED
  BY <1>1, <1>2, <1>3, <1>4, <1>5, <1>6, <1>7, <1>8, <1>9, <1>10 DEF Next, Advance

LEMMA JInvariance == Spec => []JInv
<1> QED
  BY JInitially, JStep, PTL DEF Spec

-----------------------------------------------------------------------------
(* What holds of every join.                                                 *)

\* Batches of any size, split in any way, under one budget, answer as a join of
\* everything would.
THEOREM ExactJoin == Spec => []JoinIsExact
<1>1. ASSUME JInv PROVE JoinIsExact
  <2> SUFFICES ASSUME outcome = "answered", writes = 0 PROVE page = Page(Reference)
    BY DEF JoinIsExact
  <2>1. unsent = {} /\ work = <<>> /\ page = Page(Matched(driver_rows, probe_rows))
    BY <1>1 DEF JInv, PageOfAll
  <2>2. Matched(driver_rows, probe_rows) = Reference
    BY <1>1, <2>1, CollectedAll
  <2> QED
    BY <2>1, <2>2
<1> QED
  BY <1>1, JInvariance, PTL

\* A bound that ends a join was exceeded by the data, however they were batched.
THEOREM JustRefusals == Spec => []RefusalIsJustified
<1>1. JInv => RefusalIsJustified
  BY DEF JInv
<1> QED
  BY <1>1, JInvariance, PTL

\* Rows that are written to while the join runs: a match was one once, and a row
\* that stayed what it was is matched, or comes after a full page.
THEOREM WritesAreBorne == Spec => []JoinBearsWrites
<1>1. ASSUME JInv PROVE JoinBearsWrites
  <2> SUFFICES ASSUME outcome = "answered", NEW d \in DriverIds, NEW p \in ProbeIds
               PROVE  /\ Pair(d, p) \in page => driver_rows[d] \in past[p]
                      /\ past[p] = {driver_rows[d]} /\ driver_rows[d] \in Keys =>
                            \/ Pair(d, p) \in page
                            \/ Cardinality(page) = First /\ \A a \in page : Before(a, Pair(d, p))
    BY DEF JoinBearsWrites
  <2> DEFINE joined == Matched(driver_rows, probe_rows)
  <2>1. unsent = {} /\ work = <<>> /\ page = Page(joined)
    BY <1>1 DEF JInv, PageOfAll
  <2>2. /\ driver_rows \in [DriverIds -> Keys \cup {Null, Absent}]
        /\ probe_rows \in SUBSET (ProbeIds \X Keys)
    BY <1>1 DEF JInv, JType
  <2>3. Probed = KeysOf(driver_rows)
    <3>1. Len(work) = 0
      BY <2>1
    <3> QED
      BY <2>1, <3>1 DEF Probed, InWork
  <2>4. ASSUME Pair(d, p) \in page PROVE driver_rows[d] \in past[p]
    <3>1. Pair(d, p) \in joined
      BY <2>1, <2>4 DEF Page
    <3>2. PICK e \in DriverIds :
              \/ \E q \in ProbeIds : <<q, driver_rows[e]>> \in probe_rows /\ Pair(d, p) = Pair(e, q)
              \/ Pair(d, p) = Pair(e, NoMatch)
      BY <2>2, <3>1, MatchedAre
    <3>3. p # NoMatch
      BY JoinAssumption
    <3>4. <<p, driver_rows[d]>> \in probe_rows
      BY <3>2, <3>3 DEF Pair
    <3>5. <<p, driver_rows[d]>>[2] \in past[<<p, driver_rows[d]>>[1]]
      BY <1>1, <3>4 DEF JInv, HeldInThePast
    <3> QED
      BY <3>5
  <2>5. ASSUME past[p] = {driver_rows[d]}, driver_rows[d] \in Keys, Pair(d, p) \notin page
        PROVE  Cardinality(page) = First /\ \A a \in page : Before(a, Pair(d, p))
    <3>1. driver_rows[d] \in Probed
      BY <2>3, <2>5 DEF KeysOf
    <3>2. <<p, driver_rows[d]>> \in probe_rows
      BY <1>1, <2>5, <3>1 DEF JInv, ProbesAreWhole
    <3>3. Pair(d, p) \in joined
      BY <2>2, <3>2, MatchedAre
    <3>4. IsFiniteSet(joined) /\ joined \in SUBSET (Int \X Int)
      BY <2>2, MatchedIsFinite
    <3> HIDE DEF joined
    <3> QED
      BY <2>1, <2>5, <3>3, <3>4, LeftOutIsLater
  <2> QED
    BY <2>4, <2>5
<1> QED
  BY <1>1, JInvariance, PTL
=============================================================================
