-------------------------- MODULE OptimizerProofs --------------------------
(***************************************************************************)
(* Proofs about Optimizer.  The inductive invariant is SearchInv: after    *)
(* each layer, best holds exactly the sets of sources up to that size that *)
(* can be read at all, each with a reading that runs at the cost stated,   *)
(* that none is cheaper than, and that keeps the rules' order if that is   *)
(* as cheap.  From it, what is offered at the end is feasible and contains *)
(* for every feasible plan one as good.                                    *)
(*                                                                         *)
(* The sections before it are the lemmas it needs: least numbers and folds *)
(* (a fold is a number if its steps are), what a read costs, what a        *)
(* reading in some order costs (its last read's cost more than the reading *)
(* it went on from), and that only one order is nearest to the rules'.     *)
(***************************************************************************)
EXTENDS Optimizer, FiniteSetTheorems, WellFoundedInduction, TLAPS

-----------------------------------------------------------------------------
(* Least numbers, quotients and folds.                                     *)

\* A set of natural numbers that is not empty has a least element.
LEMMA LeastNumber ==
    ASSUME NEW S \in SUBSET Nat, S # {}
    PROVE  \E m \in S : \A n \in S : m <= n
<1> DEFINE R == OpToRel(<, Nat)
<1>1. IsWellFoundedOn(R, Nat)
  BY NatLessThanWellFounded
<1>2. R = {p \in Nat \X Nat : p[1] < p[2]}
  BY DEF OpToRel
<1> HIDE DEF R
<1>3. PICK m \in S : \A n \in S : ~(<<n, m>> \in R)
  BY <1>1, WFMin
<1>4. \A n \in S : m <= n
  <2> SUFFICES ASSUME NEW n \in S PROVE m <= n
    OBVIOUS
  <2>1. <<n, m>> \notin R /\ <<n, m>> \in Nat \X Nat
    BY <1>3
  <2>2. ~(<<n, m>>[1] < <<n, m>>[2])
    BY <1>2, <2>1
  <2> QED
    BY <2>2
<1> QED
  BY <1>4

\* Whole quotients of natural numbers are natural numbers.
LEMMA QuotientIsNat ==
    ASSUME NEW x \in Nat, NEW n \in Nat \ {0}
    PROVE  x \div n \in Nat
OBVIOUS

\* Of two numbers one is not above the other.
LEMMA NatIsOrdered == \A x, y \in Nat : x <= x /\ (x <= y \/ y <= x)
OBVIOUS

\* The smaller, and the larger, of two numbers.
LEMMA MinOfTwo ==
    ASSUME NEW x \in Nat, NEW y \in Nat
    PROVE  /\ Min({x, y}) \in {x, y}
           /\ Min({x, y}) <= x /\ Min({x, y}) <= y
<1>1. \E m \in {x, y} : \A n \in {x, y} : m <= n
  OBVIOUS
<1> QED
  BY <1>1 DEF Min

LEMMA MaxOfTwo ==
    ASSUME NEW x \in Nat, NEW y \in Nat
    PROVE  /\ Max({x, y}) \in {x, y}
           /\ Max({x, y}) >= x /\ Max({x, y}) >= y
<1>1. \E m \in {x, y} : \A n \in {x, y} : m >= n
  OBVIOUS
<1> QED
  BY <1>1 DEF Max

\* The element a fold takes next.
Picked(T) == CHOOSE x \in T : TRUE

\* Taking it away leaves one element less.
LEMMA PickedIsTaken ==
    ASSUME NEW S, IsFiniteSet(S), NEW T \in SUBSET S
    PROVE  /\ IsFiniteSet(T) /\ Cardinality(T) \in Nat /\ Cardinality(T) <= Cardinality(S)
           /\ T # {} => /\ Picked(T) \in T /\ T \ {Picked(T)} \in SUBSET S
                        /\ Cardinality(T \ {Picked(T)}) = Cardinality(T) - 1
<1>1. IsFiniteSet(T) /\ Cardinality(T) \in Nat /\ Cardinality(T) <= Cardinality(S)
  BY FS_Subset, FS_CardinalityType
<1>2. ASSUME T # {} PROVE Picked(T) \in T
  BY <1>2 DEF Picked
<1> QED
  BY <1>1, <1>2, FS_RemoveElement

\* A function on the subsets of S that a step defines from one element less.
IsFold(f, S, base, step) ==
    /\ f \in [SUBSET S -> Nat]
    /\ \A T \in SUBSET S : f[T] = IF T = {} THEN base ELSE step[<<Picked(T), f[T \ {Picked(T)}]>>]

\* It exists, if the steps give numbers.
LEMMA FoldExists ==
    ASSUME NEW S, IsFiniteSet(S), NEW base \in Nat, NEW step \in [S \X Nat -> Nat]
    PROVE  \E f : IsFold(f, S, base, step)
<1> DEFINE Small(n) == {T \in SUBSET S : Cardinality(T) <= n}
           Of(f, T) == IF T = {} THEN base ELSE step[<<Picked(T), f[T \ {Picked(T)}]>>]
           Solved(n) == \E f \in [Small(n) -> Nat] : \A T \in Small(n) : f[T] = Of(f, T)
           Bad == {n \in Nat : ~Solved(n)}
<1>1. \A T \in SUBSET S :
          /\ IsFiniteSet(T) /\ Cardinality(T) \in Nat /\ Cardinality(T) <= Cardinality(S)
          /\ T # {} => /\ Picked(T) \in T /\ T \ {Picked(T)} \in SUBSET S
                       /\ Cardinality(T \ {Picked(T)}) = Cardinality(T) - 1
  BY PickedIsTaken
<1>2. Solved(0)
  <2> DEFINE f == [T \in Small(0) |-> base]
  <2>1. ASSUME NEW T \in Small(0) PROVE T = {}
    <3>1. T \in SUBSET S /\ Cardinality(T) <= 0
      OBVIOUS
    <3>2. IsFiniteSet(T) /\ Cardinality(T) \in Nat
      BY <1>1, <3>1
    <3> QED
      BY <3>1, <3>2, FS_EmptySet
  <2>2. f \in [Small(0) -> Nat] /\ \A T \in Small(0) : f[T] = Of(f, T)
    BY <2>1
  <2> QED
    BY <2>2
<1>3. ASSUME NEW n \in Nat, Solved(n) PROVE Solved(n + 1)
  <2>1. PICK f \in [Small(n) -> Nat] : \A T \in Small(n) : f[T] = Of(f, T)
    BY <1>3
  <2> DEFINE g == [T \in Small(n + 1) |-> Of(f, T)]
  <2>2. \A T \in Small(n + 1) : T # {} => T \ {Picked(T)} \in Small(n)
    BY <1>1
  <2>3. \A T \in Small(n + 1) : Of(f, T) \in Nat
    BY <1>1, <2>1, <2>2
  <2>4. \A T \in Small(n) : T \in Small(n + 1) /\ g[T] = f[T]
    BY <1>1, <2>1
  <2>5. \A T \in Small(n + 1) : Of(g, T) = Of(f, T)
    BY <2>2, <2>4
  <2>6. g \in [Small(n + 1) -> Nat] /\ \A T \in Small(n + 1) : g[T] = Of(g, T)
    BY <2>3, <2>5
  <2> QED
    BY <2>6
<1>4. Bad = {}
  <2> SUFFICES ASSUME Bad # {} PROVE FALSE
    OBVIOUS
  <2>1. Bad \in SUBSET Nat
    OBVIOUS
  <2> HIDE DEF Bad
  <2>2. PICK m \in Bad : \A n \in Bad : m <= n
    BY <2>1, LeastNumber
  <2>3. m \in Nat /\ ~Solved(m)
    BY <2>2 DEF Bad
  <2>4. m # 0
    <3> HIDE DEF Solved
    <3> QED
      BY <1>2, <2>3
  <2>5. m - 1 \in Nat /\ m - 1 \notin Bad
    BY <2>2, <2>3, <2>4, <2>1
  <2>6. Solved(m - 1)
    BY <2>5 DEF Bad
  <2> HIDE DEF Solved
  <2>7. Solved((m - 1) + 1)
    BY <1>3, <2>5, <2>6
  <2> QED
    BY <2>3, <2>7
<1>5. Solved(Cardinality(S)) /\ Small(Cardinality(S)) = SUBSET S
  BY <1>1, <1>4, FS_CardinalityType
<1> QED
  BY <1>5 DEF IsFold

\* Whatever a fold steps through stays a number.
LEMMA FoldIsNat ==
    ASSUME NEW S, IsFiniteSet(S), NEW f, f[{}] \in Nat,
           \A T \in SUBSET S : T # {} /\ f[T \ {Picked(T)}] \in Nat => f[T] \in Nat
    PROVE  f[S] \in Nat
<1> DEFINE Bad == {n \in Nat : \E T \in SUBSET S : Cardinality(T) = n /\ f[T] \notin Nat}
<1>1. Bad = {}
  <2> SUFFICES ASSUME Bad # {} PROVE FALSE
    OBVIOUS
  <2>1. PICK m \in Bad : \A n \in Bad : m <= n
    BY LeastNumber
  <2>2. PICK T \in SUBSET S : Cardinality(T) = m /\ f[T] \notin Nat
    BY <2>1
  <2>3. T # {}
    BY <2>2
  <2> DEFINE R == T \ {Picked(T)}
  <2>4. R \in SUBSET S /\ Cardinality(R) = m - 1 /\ m - 1 \in Nat
    <3>1. R \in SUBSET S /\ Cardinality(R) = m - 1
      BY <2>2, <2>3, PickedIsTaken
    <3>2. Cardinality(R) \in Nat
      BY <3>1, PickedIsTaken
    <3> QED
      BY <3>1, <3>2
  <2>5. m - 1 \notin Bad
    BY <2>1, <2>4
  <2>6. f[T \ {Picked(T)}] \in Nat
    BY <2>4, <2>5
  <2> QED
    BY <2>2, <2>3, <2>6
<1>2. Cardinality(S) \in Nat
  BY FS_CardinalityType
<1> QED
  BY <1>1, <1>2

-----------------------------------------------------------------------------
(* The cost of a read.                                                     *)

\* What the problem says of its sources has the right type.
LEMMA ProblemIsTyped ==
    ASSUME NEW p \in Problems
    PROVE  /\ IsProblem(p)
           /\ \A s \in Narrowing(p) \cup p.optional : p.source[s] \in Profiles
           /\ p.semantic.via_store => p.source[Store] \in Profiles
<1>1. IsProblem(p)
  BY OptimizerAssumption
<1> QED
  BY <1>1 DEF IsProblem, Sources

\* The sources that bound the result are finitely many: one per required name,
\* and the anchor.
LEMMA NarrowingIsFinite ==
    ASSUME NEW p \in Problems
    PROVE  /\ Len(p.required) \in Nat /\ DOMAIN p.required = 1 .. Len(p.required)
           /\ IsFiniteSet(Required(p)) /\ Cardinality(Required(p)) = Len(p.required)
           /\ IsFiniteSet(Narrowing(p)) /\ Cardinality(Narrowing(p)) = Len(p.required) + 1
           /\ Anchor \notin Required(p) /\ Store \notin Required(p)
<1> DEFINE r == p.required
           D == 1 .. Len(r)
<1>1. r \in Seq(Required(p)) /\ IsInjective(r) /\ {Anchor, Store} \cap Required(p) = {}
  BY ProblemIsTyped DEF IsProblem
<1>2. Len(r) \in Nat /\ DOMAIN r = D /\ r \in [D -> Required(p)]
  BY <1>1
<1>3. r \in Bijection(D, Required(p))
  BY <1>1, <1>2 DEF Bijection, Injection, Surjection, Required, Range
<1>4. IsFiniteSet(D) /\ Cardinality(D) = Len(r)
  BY <1>2, FS_Interval
<1> HIDE DEF D
<1>5. IsFiniteSet(Required(p)) /\ Cardinality(Required(p)) = Len(r)
  BY <1>3, <1>4, FS_Bijection DEF ExistsBijection
<1>6. Anchor \notin Required(p) /\ Store \notin Required(p)
  BY <1>1
<1> QED
  BY <1>2, <1>5, <1>6, FS_AddElement DEF D, Narrowing

LEMMA PassedIsNat ==
    ASSUME NEW p \in Problems, NEW x \in Nat, NEW s, p.source[s] \in Profiles
    PROVE  Passed(p, x, s) \in Nat
<1> DEFINE n == IF s \in Narrowing(p) THEN p.source[s].filtered ELSE p.source[s].total
           m == Min({Universe, n})
<1>1. Universe \in Nat /\ n \in Nat
  BY OptimizerAssumption DEF Profiles
<1> HIDE DEF n
<1>2. m \in Nat
  BY <1>1, MinOfTwo
<1> HIDE DEF m
<1>3. x * m \in Nat
  BY <1>2
<1>4. Universe # 0 => (x * m) \div Universe \in Nat
  BY <1>1, <1>3, QuotientIsNat
<1> QED
  BY <1>4 DEF Passed, n, m

\* What is left of some rows is a number of rows, and the IDs known after some
\* sources were read are a number of IDs.
LEMMA LeftIsNat ==
    ASSUME NEW p \in Problems, NEW S \in SUBSET Narrowing(p), NEW x \in Nat
    PROVE  Left(p, x, S) \in Nat
<1> DEFINE Of(f) == [T \in SUBSET S |->
                        IF T = {} THEN x ELSE Passed(p, f[T \ {Picked(T)}], Picked(T))]
           left == CHOOSE f : f = Of(f)
           step == [e \in S \X Nat |-> Passed(p, e[2], e[1])]
<1>1. Left(p, x, S) = left[S]
  BY DEF Left, FoldSet, MapThenFoldSet, Picked
<1>2. IsFiniteSet(S)
  BY NarrowingIsFinite, FS_Subset
<1>3. \A s \in S, y \in Nat : Passed(p, y, s) \in Nat /\ step[<<s, y>>] = Passed(p, y, s)
  BY ProblemIsTyped, PassedIsNat
<1>4. step \in [S \X Nat -> Nat]
  BY <1>3
<1> HIDE DEF step
<1>5. PICK f : IsFold(f, S, x, step)
  BY <1>2, <1>4, FoldExists
<1>6. \A T \in SUBSET S : T # {} => Picked(T) \in S /\ T \ {Picked(T)} \in SUBSET S
  BY DEF Picked
<1>7. f = Of(f)
  BY <1>3, <1>5, <1>6 DEF IsFold
<1> HIDE DEF Of
<1>8. left = Of(left)
  BY <1>7
<1> HIDE DEF left
<1>9. left[{}] = x
  BY <1>8 DEF Of
<1>10. ASSUME NEW T \in SUBSET S, T # {}, left[T \ {Picked(T)}] \in Nat PROVE left[T] \in Nat
  <2>1. left[T] = Passed(p, left[T \ {Picked(T)}], Picked(T))
    BY <1>8, <1>10 DEF Of
  <2> QED
    BY <2>1, <1>3, <1>6, <1>10
<1>11. left[S] \in Nat
  BY <1>2, <1>9, <1>10, FoldIsNat
<1> QED
  BY <1>1, <1>11

LEMMA KeysAreTyped ==
    ASSUME NEW p \in Problems, NEW S \in SUBSET Narrowing(p)
    PROVE  /\ KeysAfter(p, S) \in Nat \cup {NoKeys}
           /\ S # {} => KeysAfter(p, S) \in Nat
<1>1. Universe * Scale \in Nat
  BY OptimizerAssumption DEF Positive
<1>2. Left(p, Universe * Scale, S) \in Nat
  BY <1>1, LeftIsNat
<1> QED
  BY <1>2 DEF KeysAfter

LEMMA BoundIsPositive ==
    ASSUME NEW p \in Problems, NEW s, p.source[s] \in Profiles
    PROVE  Bound(p, s) # NoBound => Bound(p, s) \in Positive
<1>1. p.transfer_bound \in PositiveOrNone /\ p.source[s].key_limit \in PositiveOrNone
  BY ProblemIsTyped DEF IsProblem, Profiles
<1> QED
  BY <1>1, MinOfTwo DEF Bound, Positive, PositiveOrNone

\* What is read, and what reading it costs, is a number, whenever the read is
\* possible.
LEMMA ReadIsCosted ==
    ASSUME NEW p \in Problems, NEW s, p.source[s] \in Profiles,
           NEW keys \in Nat \cup {NoKeys}, NEW restrict \in BOOLEAN, CanRead(p, s, keys, restrict)
    PROVE  /\ RowsRead(p, s, keys, restrict) \in Nat
           /\ Latency(p, s, keys, restrict) \in Nat
<1>1. /\ Scale \in Nat \ {0}
      /\ p.source[s].call \in Nat /\ p.source[s].per_key \in Nat
      /\ p.source[s].per_row \in Nat /\ p.source[s].filtered \in Nat
  BY OptimizerAssumption DEF Positive, Profiles
<1>2. CASE restrict
  <2>1. keys \in Nat /\ Bound(p, s) \in Nat \ {0}
    BY <1>2, BoundIsPositive DEF CanRead, Positive
  <2>2. RowsRead(p, s, keys, restrict) \in Nat
    BY <1>2, <2>1, PassedIsNat DEF RowsRead
  <2> DEFINE size == Bound(p, s) * Scale
  <2>3. size \in Nat \ {0}
    BY <1>1, <2>1
  <2> HIDE DEF size
  <2>4. keys + size - 1 \in Nat
    BY <2>1, <2>3
  <2>5. CeilDiv(keys, size) \in Nat
    BY <2>3, <2>4, QuotientIsNat DEF CeilDiv
  <2>6. Batches(p, s, keys) \in Nat
    BY <2>5, MaxOfTwo DEF Batches, size
  <2>7. /\ p.source[s].call * Scale * Batches(p, s, keys) \in Nat
        /\ p.source[s].per_key * keys \in Nat
        /\ p.source[s].per_row * RowsRead(p, s, keys, restrict) \in Nat
    BY <1>1, <2>1, <2>2, <2>6
  <2>8. Latency(p, s, keys, restrict)
          = p.source[s].call * Scale * Batches(p, s, keys) + p.source[s].per_key * keys
              + p.source[s].per_row * RowsRead(p, s, keys, restrict)
    BY <1>2 DEF Latency
  <2> QED
    BY <2>2, <2>7, <2>8
<1>3. CASE ~restrict
  <2>1. RowsRead(p, s, keys, restrict) \in Nat
    BY <1>1, <1>3 DEF RowsRead
  <2>2. /\ p.source[s].call * Scale \in Nat
        /\ p.source[s].per_row * RowsRead(p, s, keys, restrict) \in Nat
    BY <1>1, <2>1
  <2>3. Latency(p, s, keys, restrict)
          = p.source[s].call * Scale + p.source[s].per_row * RowsRead(p, s, keys, restrict)
    BY <1>3 DEF Latency
  <2> QED
    BY <2>1, <2>2, <2>3
<1> QED
  BY <1>2, <1>3

\* best_read chooses a read that is possible, and none that is is cheaper.
LEMMA BestReadIsBest ==
    ASSUME NEW p \in Problems, NEW s, p.source[s] \in Profiles,
           NEW keys \in Nat \cup {NoKeys}, Readable(p, s, keys)
    PROVE  /\ Restricts(p, s, keys) \in BOOLEAN /\ CanRead(p, s, keys, Restricts(p, s, keys))
           /\ BestLatency(p, s, keys) \in Nat
           /\ \A restrict \in BOOLEAN :
                  CanRead(p, s, keys, restrict) => BestLatency(p, s, keys) <= Latency(p, s, keys, restrict)
<1> DEFINE r == Restricts(p, s, keys)
           cost(restrict) == Latency(p, s, keys, restrict)
<1>1. /\ CanRead(p, s, keys, TRUE) => cost(TRUE) \in Nat
      /\ CanRead(p, s, keys, FALSE) => cost(FALSE) \in Nat
  BY ReadIsCosted
<1>2. r \in BOOLEAN /\ BestLatency(p, s, keys) = cost(r)
  BY DEF Restricts, BestLatency
<1>3. CASE r
  <2>1. r = TRUE
    BY <1>2, <1>3
  <2>2. CanRead(p, s, keys, TRUE) /\ (CanRead(p, s, keys, FALSE) => cost(TRUE) <= cost(FALSE))
    BY <1>3 DEF Restricts
  <2> HIDE DEF cost, r
  <2>3. cost(TRUE) \in Nat /\ cost(TRUE) <= cost(TRUE)
    <3>1. cost(TRUE) \in Nat
      BY <1>1, <2>2, Zenon
    <3> QED
      BY <3>1, NatIsOrdered, Zenon
  <2>4. CanRead(p, s, keys, r) /\ cost(r) = cost(TRUE) /\ BestLatency(p, s, keys) = cost(TRUE)
    BY <1>2, <2>1, <2>2, Zenon
  <2>5. ASSUME NEW restrict \in BOOLEAN, CanRead(p, s, keys, restrict) PROVE cost(TRUE) <= cost(restrict)
    <3>1. CASE restrict = TRUE
      BY <2>3, <3>1, Zenon
    <3>2. CASE restrict = FALSE
      BY <2>2, <2>5, <3>2, Zenon
    <3> QED
      BY <3>1, <3>2, Zenon
  <2> QED
    BY <1>2, <2>3, <2>4, <2>5, Zenon DEF cost, r
<1>4. CASE ~r
  <2>1. r = FALSE
    BY <1>2, <1>4
  <2>2. /\ CanRead(p, s, keys, FALSE)
        /\ CanRead(p, s, keys, TRUE) => ~(cost(TRUE) <= cost(FALSE))
    BY <1>4, Zenon DEF Restricts, Readable
  <2> HIDE DEF cost, r
  <2>3. /\ cost(FALSE) \in Nat /\ cost(FALSE) <= cost(FALSE)
        /\ CanRead(p, s, keys, TRUE) => cost(FALSE) <= cost(TRUE)
    <3>1. cost(FALSE) \in Nat /\ (CanRead(p, s, keys, TRUE) => cost(TRUE) \in Nat)
      BY <1>1, <2>2, Zenon
    <3> QED
      BY <2>2, <3>1, NatIsOrdered, Zenon
  <2>4. CanRead(p, s, keys, r) /\ cost(r) = cost(FALSE) /\ BestLatency(p, s, keys) = cost(FALSE)
    BY <1>2, <2>1, <2>2, Zenon
  <2>5. ASSUME NEW restrict \in BOOLEAN, CanRead(p, s, keys, restrict) PROVE cost(FALSE) <= cost(restrict)
    <3>1. CASE restrict = TRUE
      BY <2>3, <2>5, <3>1, Zenon
    <3>2. CASE restrict = FALSE
      BY <2>3, <3>2, Zenon
    <3> QED
      BY <3>1, <3>2, Zenon
  <2> QED
    BY <1>2, <2>3, <2>4, <2>5, Zenon DEF cost, r
<1> QED
  BY <1>3, <1>4

\* The enrichers' reads cost a number, whenever all are possible.
LEMMA OptionalLatencyIsNat ==
    ASSUME NEW p \in Problems, NEW c, c.count \in Nat,
           \A s \in p.optional : Readable(p, s, c.count)
    PROVE  OptionalLatency(p, c) \in Nat
<1> DEFINE S == p.optional
           Of(f) == [T \in SUBSET S |->
                        IF T = {} THEN 0 ELSE BestLatency(p, Picked(T), c.count) + f[T \ {Picked(T)}]]
           sum == CHOOSE f : f = Of(f)
           step == [e \in S \X Nat |-> BestLatency(p, e[1], c.count) + e[2]]
<1>1. OptionalLatency(p, c) = sum[S]
  BY DEF OptionalLatency, MapThenSumSet, MapThenFoldSet, Picked
<1>2. IsFiniteSet(S)
  BY ProblemIsTyped DEF IsProblem
<1>3. \A s \in S : BestLatency(p, s, c.count) \in Nat
  BY ProblemIsTyped, BestReadIsBest
<1>4. step \in [S \X Nat -> Nat] /\ \A s \in S, y \in Nat : step[<<s, y>>] = BestLatency(p, s, c.count) + y
  BY <1>3
<1> HIDE DEF step
<1>5. PICK f : IsFold(f, S, 0, step)
  BY <1>2, <1>4, FoldExists
<1>6. \A T \in SUBSET S : T # {} => Picked(T) \in S /\ T \ {Picked(T)} \in SUBSET S
  BY DEF Picked
<1>7. f = Of(f)
  BY <1>4, <1>5, <1>6 DEF IsFold
<1> HIDE DEF Of
<1>8. sum = Of(sum)
  BY <1>7
<1> HIDE DEF sum
<1>9. sum[{}] = 0
  BY <1>8 DEF Of
<1>10. ASSUME NEW T \in SUBSET S, T # {}, sum[T \ {Picked(T)}] \in Nat PROVE sum[T] \in Nat
  <2>1. sum[T] = BestLatency(p, Picked(T), c.count) + sum[T \ {Picked(T)}]
    BY <1>8, <1>10 DEF Of
  <2> QED
    BY <2>1, <1>3, <1>6, <1>10
<1> HIDE DEF S
<1>11. sum[S] \in Nat
  BY <1>2, <1>9, <1>10, FoldIsNat
<1> QED
  BY <1>1, <1>11

-----------------------------------------------------------------------------
(* Reading sources one after the other.                                    *)

\* What appending and cutting do to a sequence, element by element.
LEMMA SequenceIsFunction ==
    ASSUME NEW E, NEW q \in Seq(E)
    PROVE  q \in [1 .. Len(q) -> E]
OBVIOUS

LEMMA AppendedParts ==
    ASSUME NEW E, NEW q \in Seq(E), NEW e \in E
    PROVE  /\ Len(Append(q, e)) = Len(q) + 1 /\ Append(q, e) \in [1 .. Len(q) + 1 -> E]
           /\ Append(q, e)[Len(q) + 1] = e /\ \A n \in 1 .. Len(q) : Append(q, e)[n] = q[n]
<1>1. Append(q, e) \in Seq(E) /\ Len(Append(q, e)) = Len(q) + 1
  OBVIOUS
<1>2. Append(q, e)[Len(q) + 1] = e /\ \A n \in 1 .. Len(q) : Append(q, e)[n] = q[n]
  OBVIOUS
<1>3. Append(q, e) \in [1 .. Len(Append(q, e)) -> E]
  BY <1>1, SequenceIsFunction
<1> QED
  BY <1>1, <1>2, <1>3

LEMMA CutParts ==
    ASSUME NEW E, NEW o \in Seq(E), NEW k \in Nat, k <= Len(o)
    PROVE  /\ Len(SubSeq(o, 1, k)) = k /\ SubSeq(o, 1, k) \in [1 .. k -> E]
           /\ \A n \in 1 .. k : SubSeq(o, 1, k)[n] = o[n]
<1>1. SubSeq(o, 1, k) \in Seq(E) /\ Len(SubSeq(o, 1, k)) = k
  OBVIOUS
<1>2. \A n \in 1 .. k : SubSeq(o, 1, k)[n] = o[n]
  OBVIOUS
<1>3. SubSeq(o, 1, k) \in [1 .. Len(SubSeq(o, 1, k)) -> E]
  BY <1>1, SequenceIsFunction
<1> QED
  BY <1>1, <1>2, <1>3

LEMMA JoinedParts ==
    ASSUME NEW E, NEW a \in Seq(E), NEW b \in Seq(E)
    PROVE  /\ a \o b \in Seq(E) /\ Len(a \o b) = Len(a) + Len(b)
           /\ Len(a) \in Nat /\ Len(b) \in Nat
           /\ \A n \in 1 .. Len(a) : (a \o b)[n] = a[n]
           /\ \A n \in 1 .. Len(b) : (a \o b)[Len(a) + n] = b[n]
<1>1. a \o b \in Seq(E) /\ Len(a \o b) = Len(a) + Len(b)
  OBVIOUS
<1>2. \A n \in 1 .. Len(a) : (a \o b)[n] = a[n]
  OBVIOUS
<1>3. \A n \in 1 .. Len(b) : (a \o b)[Len(a) + n] = b[n]
  OBVIOUS
<1> QED
  BY <1>1, <1>2, <1>3

LEMMA LastPart ==
    ASSUME NEW E, NEW o \in Seq(E), NEW k \in Nat, Len(o) = k + 1
    PROVE  o = Append(SubSeq(o, 1, k), o[k + 1])
<1>1. Len(SubSeq(o, 1, k)) = k /\ SubSeq(o, 1, k) \in Seq(E) /\ o[k + 1] \in E
  OBVIOUS
<1> QED
  BY <1>1

\* What a reading is, taken apart.
ReadsAll(o, k, S) ==
    /\ DOMAIN o = 1 .. k /\ Len(o) = k /\ o \in Seq(S \X BOOLEAN)
    /\ \A n \in 1 .. k : o[n] = <<o[n][1], o[n][2]>> /\ o[n][1] \in S /\ o[n][2] \in BOOLEAN
    /\ \A m, n \in 1 .. k : o[m][1] = o[n][1] => m = n
    /\ \A s \in S : \E n \in 1 .. k : o[n][1] = s

LEMMA ReadingIsTyped ==
    ASSUME NEW S, IsFiniteSet(S), NEW o \in Readings(S)
    PROVE  Cardinality(S) \in Nat /\ ReadsAll(o, Cardinality(S), S)
<1> DEFINE k == Cardinality(S)
<1>1. k \in Nat
  BY FS_CardinalityType
<1>2. o \in [1 .. k -> S \X BOOLEAN] /\ Names(o) \in Bijection(1 .. k, S)
  BY DEF Readings
<1> HIDE DEF k
<1>3. DOMAIN o = 1 .. k /\ Len(o) = k /\ o \in Seq(S \X BOOLEAN)
  BY <1>1, <1>2
<1>4. \A n \in 1 .. k : o[n] = <<o[n][1], o[n][2]>> /\ o[n][1] \in S /\ o[n][2] \in BOOLEAN
  BY <1>2
<1>5. \A n \in 1 .. k : Names(o)[n] = o[n][1]
  BY <1>3 DEF Names
<1>6. \A m, n \in 1 .. k : o[m][1] = o[n][1] => m = n
  <2>1. \A m, n \in 1 .. k : Names(o)[m] = Names(o)[n] => m = n
    BY <1>2 DEF Bijection, Injection, IsInjective
  <2> QED
    BY <1>5, <2>1
<1>7. \A s \in S : \E n \in 1 .. k : o[n][1] = s
  <2>1. \A s \in S : \E n \in 1 .. k : Names(o)[n] = s
    BY <1>2 DEF Bijection, Surjection
  <2> QED
    BY <1>5, <2>1
<1>8. ReadsAll(o, k, S)
  BY <1>3, <1>4, <1>6, <1>7 DEF ReadsAll
<1> QED
  BY <1>1, <1>8 DEF k

\* Conversely, what has these parts is a reading.
LEMMA ReadingFromParts ==
    ASSUME NEW S, IsFiniteSet(S), NEW o \in [1 .. Cardinality(S) -> S \X BOOLEAN],
           \A m, n \in 1 .. Cardinality(S) : o[m][1] = o[n][1] => m = n,
           \A s \in S : \E n \in 1 .. Cardinality(S) : o[n][1] = s
    PROVE  o \in Readings(S)
<1> DEFINE k == Cardinality(S)
<1>1. \A n \in 1 .. k : Names(o)[n] = o[n][1] /\ o[n][1] \in S
  BY DEF Names
<1>2. Names(o) \in [1 .. k -> S]
  BY <1>1 DEF Names
<1>3. Names(o) \in Bijection(1 .. k, S)
  BY <1>1, <1>2 DEF Bijection, Injection, Surjection, IsInjective
<1> QED
  BY <1>3 DEF Readings

\* There is one reading of nothing.
LEMMA ReadingOfNothing ==
    /\ <<>> \in Readings({})
    /\ \A o \in Readings({}) : o = <<>>
<1>1. IsFiniteSet({}) /\ Cardinality({}) = 0
  BY FS_EmptySet
<1>2. <<>> \in [1 .. 0 -> {} \X BOOLEAN]
  OBVIOUS
<1>3. <<>> \in Readings({})
  BY <1>1, <1>2, ReadingFromParts
<1>4. ASSUME NEW o \in Readings({}) PROVE o = <<>>
  BY <1>1, <1>4, ReadingIsTyped DEF ReadsAll
<1> QED
  BY <1>3, <1>4

\* A reading of S goes on to read one source more ...
LEMMA ReadingGoesOn ==
    ASSUME NEW S, IsFiniteSet(S), NEW q \in Readings(S), NEW s, s \notin S, NEW r \in BOOLEAN
    PROVE  Append(q, <<s, r>>) \in Readings(S \cup {s})
<1> DEFINE T == S \cup {s}
           k == Cardinality(S)
           o == Append(q, <<s, r>>)
<1>1. IsFiniteSet(T) /\ Cardinality(T) = k + 1 /\ k \in Nat
  BY FS_AddElement, FS_CardinalityType
<1>2. /\ Len(q) = k /\ q \in Seq(S \X BOOLEAN)
      /\ \A n \in 1 .. k : q[n] = <<q[n][1], q[n][2]>> /\ q[n][1] \in S /\ q[n][2] \in BOOLEAN
      /\ \A m, n \in 1 .. k : q[m][1] = q[n][1] => m = n
      /\ \A x \in S : \E n \in 1 .. k : q[n][1] = x
  BY ReadingIsTyped DEF ReadsAll
<1> HIDE DEF k
<1>3. q \in Seq(T \X BOOLEAN) /\ <<s, r>> \in T \X BOOLEAN
  BY <1>2
<1>4. /\ Len(o) = k + 1 /\ o \in [1 .. k + 1 -> T \X BOOLEAN]
      /\ o[k + 1] = <<s, r>> /\ \A n \in 1 .. k : o[n] = q[n]
  <2> DEFINE E == T \X BOOLEAN
             e == <<s, r>>
  <2>1. q \in Seq(E) /\ e \in E
    BY <1>3
  <2> HIDE DEF E, e
  <2>2. /\ Len(Append(q, e)) = Len(q) + 1 /\ Append(q, e) \in [1 .. Len(q) + 1 -> E]
        /\ Append(q, e)[Len(q) + 1] = e /\ \A n \in 1 .. Len(q) : Append(q, e)[n] = q[n]
    BY <2>1, AppendedParts
  <2>3. o = Append(q, e) /\ Len(q) = k
    BY <1>2 DEF e
  <2> HIDE DEF o
  <2>4. /\ Len(o) = k + 1 /\ o \in [1 .. k + 1 -> E]
        /\ o[k + 1] = e /\ \A n \in 1 .. k : o[n] = q[n]
    BY <2>2, <2>3
  <2> QED
    BY <2>4 DEF E, e
<1> HIDE DEF o
<1>5. o[k + 1][1] = s /\ \A n \in 1 .. k : o[n][1] = q[n][1] /\ o[n][1] \in S
  BY <1>2, <1>4
<1>6. \A n \in 1 .. k + 1 : n \in 1 .. k \/ n = k + 1
  BY <1>1
<1>7. \A m, n \in 1 .. k + 1 : o[m][1] = o[n][1] => m = n
  BY <1>2, <1>5, <1>6
<1>8. \A x \in T : \E n \in 1 .. k + 1 : o[n][1] = x
  <2> SUFFICES ASSUME NEW x \in T PROVE \E n \in 1 .. k + 1 : o[n][1] = x
    OBVIOUS
  <2>1. CASE x \in S
    BY <1>1, <1>2, <1>5, <2>1
  <2>2. CASE x = s
    BY <1>1, <1>5, <2>2
  <2> QED
    BY <2>1, <2>2
<1> HIDE DEF T
<1>9. o \in Readings(T)
  BY <1>1, <1>4, <1>7, <1>8, ReadingFromParts
<1> QED
  BY <1>9 DEF o, T

\* ... and every reading of something is one of all but its last source that
\* went on.
LEMMA ReadingWentOn ==
    ASSUME NEW S, IsFiniteSet(S), S # {}, NEW o \in Readings(S)
    PROVE  \E s \in S, r \in BOOLEAN : \E q \in Readings(S \ {s}) : o = Append(q, <<s, r>>)
<1> DEFINE k == Cardinality(S) - 1
           s == o[k + 1][1]
           r == o[k + 1][2]
           T == S \ {s}
           q == SubSeq(o, 1, k)
<1>1. /\ Cardinality(S) = k + 1 /\ k \in Nat
  BY FS_CardinalityType, FS_EmptySet
<1> HIDE DEF k
<1>2. /\ DOMAIN o = 1 .. k + 1 /\ Len(o) = k + 1 /\ o \in Seq(S \X BOOLEAN)
      /\ \A n \in 1 .. k + 1 : o[n] = <<o[n][1], o[n][2]>> /\ o[n][1] \in S /\ o[n][2] \in BOOLEAN
      /\ \A m, n \in 1 .. k + 1 : o[m][1] = o[n][1] => m = n
      /\ \A x \in S : \E n \in 1 .. k + 1 : o[n][1] = x
  <2>1. ReadsAll(o, Cardinality(S), S)
    BY ReadingIsTyped
  <2>2. ReadsAll(o, k + 1, S)
    BY <1>1, <2>1
  <2> QED
    BY <2>2 DEF ReadsAll
<1>3. k + 1 \in 1 .. k + 1 /\ \A n \in 1 .. k : n \in 1 .. k + 1 /\ n # k + 1
  BY <1>1
<1>4. s \in S /\ r \in BOOLEAN /\ o[k + 1] = <<s, r>>
  BY <1>2, <1>3
<1>5. IsFiniteSet(T) /\ Cardinality(T) = k
  <2>1. IsFiniteSet(T) /\ Cardinality(T) = Cardinality(S) - 1
    BY <1>4, FS_RemoveElement
  <2> QED
    BY <1>1, <2>1
<1>6. q \in [1 .. k -> S \X BOOLEAN] /\ (\A n \in 1 .. k : q[n] = o[n]) /\ o = Append(q, o[k + 1])
  <2> DEFINE E == S \X BOOLEAN
  <2>1. o \in Seq(E) /\ k <= Len(o) /\ Len(o) = k + 1
    BY <1>1, <1>2
  <2> HIDE DEF E
  <2>2. q \in [1 .. k -> E] /\ (\A n \in 1 .. k : q[n] = o[n]) /\ o = Append(q, o[k + 1])
    BY <1>1, <2>1, CutParts, LastPart
  <2> QED
    BY <2>2 DEF E
<1>7. \A n \in 1 .. k : q[n][1] = o[n][1] /\ q[n][1] \in T /\ q[n] \in T \X BOOLEAN
  <2> SUFFICES ASSUME NEW n \in 1 .. k
               PROVE  q[n][1] = o[n][1] /\ q[n][1] \in T /\ q[n] \in T \X BOOLEAN
    OBVIOUS
  <2>1. q[n] = o[n] /\ o[n] = <<o[n][1], o[n][2]>> /\ o[n][1] \in S /\ o[n][2] \in BOOLEAN
    BY <1>2, <1>3, <1>6
  <2>2. o[n][1] # s
    BY <1>2, <1>3
  <2> DEFINE a == o[n][1]
             b == o[n][2]
  <2>3. a \in T /\ b \in BOOLEAN /\ q[n] = <<a, b>> /\ q[n][1] = a
    BY <2>1, <2>2
  <2> HIDE DEF a, b, T, q
  <2>4. <<a, b>> \in T \X BOOLEAN
    BY <2>3
  <2> QED
    BY <2>3, <2>4 DEF a
<1>8. o = Append(q, <<s, r>>)
  BY <1>4, <1>6
<1>9. q \in [1 .. k -> T \X BOOLEAN]
  BY <1>6, <1>7
<1>10. \A m, n \in 1 .. k : q[m][1] = q[n][1] => m = n
  BY <1>2, <1>3, <1>7
<1>11. \A x \in T : \E n \in 1 .. k : q[n][1] = x
  <2> SUFFICES ASSUME NEW x \in T PROVE \E n \in 1 .. k : q[n][1] = x
    OBVIOUS
  <2>1. PICK n \in 1 .. k + 1 : o[n][1] = x
    BY <1>2
  <2>2. n \in 1 .. k
    BY <1>1, <2>1
  <2> QED
    BY <1>7, <2>1, <2>2
<1> HIDE DEF T, q
<1>12. q \in Readings(T)
  BY <1>5, <1>9, <1>10, <1>11, ReadingFromParts
<1> QED
  BY <1>4, <1>8, <1>12 DEF T

-----------------------------------------------------------------------------
(* Running sums.                                                           *)

\* f sums up the first L of the costs c.
IsSum(f, c, L) == /\ f \in [0 .. L -> Nat] /\ f[0] = 0
                  /\ \A n \in 1 .. L : f[n] = f[n - 1] + c[n]

LEMMA SumExists ==
    ASSUME NEW L \in Nat, NEW c \in [1 .. L -> Nat]
    PROVE  \E f : IsSum(f, c, L)
<1> DEFINE Solved(m) == m <= L => \E f : IsSum(f, c, m)
           Bad == {m \in Nat : ~Solved(m)}
<1>1. Solved(0)
  <2> DEFINE f == [n \in 0 .. 0 |-> 0]
  <2>1. IsSum(f, c, 0)
    BY DEF IsSum
  <2> QED
    BY <2>1
<1>2. ASSUME NEW m \in Nat, Solved(m) PROVE Solved(m + 1)
  <2> SUFFICES ASSUME m + 1 <= L PROVE \E f : IsSum(f, c, m + 1)
    OBVIOUS
  <2>1. PICK f : IsSum(f, c, m)
    BY <1>2
  <2> DEFINE g == [n \in 0 .. m + 1 |-> IF n = m + 1 THEN f[m] + c[m + 1] ELSE f[n]]
  <2>2. /\ f \in [0 .. m -> Nat] /\ f[0] = 0 /\ \A n \in 1 .. m : f[n] = f[n - 1] + c[n]
        /\ m \in 0 .. m /\ m + 1 \in 1 .. L /\ c[m + 1] \in Nat
    BY <2>1 DEF IsSum
  <2>3. \A n \in 0 .. m : g[n] = f[n] /\ g[n] \in Nat
    BY <2>2
  <2>4. g[m + 1] = g[m] + c[m + 1] /\ g[m + 1] \in Nat
    BY <2>2, <2>3
  <2>5. \A n \in 1 .. m + 1 : g[n] = g[n - 1] + c[n]
    <3> SUFFICES ASSUME NEW n \in 1 .. m + 1 PROVE g[n] = g[n - 1] + c[n]
      OBVIOUS
    <3>1. CASE n \in 1 .. m
      BY <2>2, <2>3, <3>1
    <3>2. CASE n = m + 1
      BY <2>4, <3>2
    <3> QED
      BY <3>1, <3>2
  <2>6. g \in [0 .. m + 1 -> Nat] /\ g[0] = 0
    BY <2>2, <2>3, <2>4
  <2> HIDE DEF g
  <2>7. IsSum(g, c, m + 1)
    BY <2>5, <2>6 DEF IsSum
  <2> QED
    BY <2>7
<1>3. Bad = {}
  <2> SUFFICES ASSUME Bad # {} PROVE FALSE
    OBVIOUS
  <2>1. Bad \in SUBSET Nat
    OBVIOUS
  <2> HIDE DEF Bad
  <2>2. PICK m \in Bad : \A n \in Bad : m <= n
    BY <2>1, LeastNumber
  <2>3. m \in Nat /\ ~Solved(m)
    BY <2>2 DEF Bad
  <2> HIDE DEF Solved
  <2>4. m # 0
    BY <1>1, <2>3
  <2>5. m - 1 \in Nat /\ m - 1 \notin Bad
    BY <2>1, <2>2, <2>3, <2>4
  <2>6. Solved(m - 1)
    BY <2>5 DEF Bad
  <2>7. Solved((m - 1) + 1)
    BY <1>2, <2>5, <2>6
  <2> QED
    BY <2>3, <2>7
<1>4. L \notin Bad
  BY <1>3
<1>5. Solved(L)
  BY <1>4
<1> QED
  BY <1>5

\* Sums of the same costs are the same.
LEMMA SumsAgree ==
    ASSUME NEW L \in Nat, NEW f, NEW g, NEW c, f[0] = g[0],
           \A n \in 1 .. L : f[n] = f[n - 1] + c[n],
           \A n \in 1 .. L : g[n] = g[n - 1] + c[n]
    PROVE  f[L] = g[L]
<1> DEFINE Bad == {n \in 0 .. L : f[n] # g[n]}
<1>1. Bad = {}
  <2> SUFFICES ASSUME Bad # {} PROVE FALSE
    OBVIOUS
  <2>0. Bad \in SUBSET Nat
    OBVIOUS
  <2> HIDE DEF Bad
  <2>1. PICK m \in Bad : \A n \in Bad : m <= n
    BY <2>0, LeastNumber
  <2> USE DEF Bad
  <2>2. m \in 1 .. L /\ m - 1 \in 0 .. L /\ m - 1 \notin Bad
    BY <2>1
  <2>3. f[m - 1] = g[m - 1]
    BY <2>2
  <2> QED
    BY <2>1, <2>2, <2>3
<1> QED
  BY <1>1

-----------------------------------------------------------------------------
(* What a reading costs.                                                   *)

\* The cost of the n-th read of o.
Cost(p, o, n) == Latency(p, o[n][1], KeysAfter(p, Before(o, n)), o[n][2])

\* Before one of its reads, a reading of S has read some of S.
LEMMA BeforeIsPart ==
    ASSUME NEW S, NEW k \in Nat, NEW o, ReadsAll(o, k, S), NEW n \in 1 .. k
    PROVE  Before(o, n) \in SUBSET S
BY DEF Before, ReadsAll

\* Where a reading went on, what it had read before stays what it was.
LEMMA BeforeLast ==
    ASSUME NEW S, NEW k \in Nat, NEW q, ReadsAll(q, k, S), NEW o,
           \A n \in 1 .. k : o[n] = q[n]
    PROVE  /\ \A n \in 1 .. k : Before(o, n) = Before(q, n)
           /\ Before(o, k + 1) = S
<1>1. ASSUME NEW n \in 1 .. k PROVE Before(o, n) = Before(q, n)
  <2>1. \A m \in 1 .. n - 1 : o[m] = q[m]
    OBVIOUS
  <2> QED
    BY <2>1 DEF Before
<1>2. Before(o, k + 1) = {q[m][1] : m \in 1 .. k}
  <2>1. (k + 1) - 1 = k
    OBVIOUS
  <2>2. Before(o, k + 1) = {o[m][1] : m \in 1 .. k}
    BY <2>1 DEF Before
  <2> QED
    BY <2>2
<1>3. {q[m][1] : m \in 1 .. k} = S
  BY DEF ReadsAll
<1> QED
  BY <1>1, <1>2, <1>3

\* The latency of a reading that runs is the sum of what its reads cost.
LEMMA RunIsSummed ==
    ASSUME NEW p \in Problems, NEW S \in SUBSET Narrowing(p), NEW o \in Readings(S), Runs(p, o)
    PROVE  /\ \A n \in 1 .. Len(o) : Cost(p, o, n) \in Nat
           /\ RunLatency(p, o) \in Nat
           /\ \E f : /\ f[0] = 0 /\ f[Len(o)] = RunLatency(p, o)
                     /\ \A n \in 1 .. Len(o) : f[n] = f[n - 1] + Cost(p, o, n)
<1> DEFINE L == Len(o)
           Of(f) == [n \in 0 .. L |-> IF n = 0 THEN 0 ELSE f[n - 1] + Cost(p, o, n)]
           spent == CHOOSE f : f = Of(f)
           c == [n \in 1 .. L |-> Cost(p, o, n)]
<1>1. IsFiniteSet(S) /\ L \in Nat /\ ReadsAll(o, L, S)
  <2>1. IsFiniteSet(S)
    BY NarrowingIsFinite, FS_Subset
  <2>2. Cardinality(S) \in Nat /\ ReadsAll(o, Cardinality(S), S)
    BY <2>1, ReadingIsTyped
  <2> QED
    BY <2>1, <2>2 DEF ReadsAll
<1>2. RunLatency(p, o) = spent[L]
  BY DEF RunLatency, Cost
<1> HIDE DEF L
<1>3. ASSUME NEW n \in 1 .. L PROVE Cost(p, o, n) \in Nat
  <2>1. o[n][1] \in S /\ o[n][2] \in BOOLEAN /\ n \in DOMAIN o
    BY <1>1 DEF ReadsAll
  <2>2. Before(o, n) \in SUBSET Narrowing(p)
    BY <1>1, BeforeIsPart
  <2>3. KeysAfter(p, Before(o, n)) \in Nat \cup {NoKeys}
    BY <2>2, KeysAreTyped
  <2>4. p.source[o[n][1]] \in Profiles
    BY <2>1, ProblemIsTyped
  <2>5. CanRead(p, o[n][1], KeysAfter(p, Before(o, n)), o[n][2])
    BY <2>1 DEF Runs
  <2> QED
    BY <2>1, <2>3, <2>4, <2>5, ReadIsCosted DEF Cost
<1>4. c \in [1 .. L -> Nat]
  BY <1>3
<1> HIDE DEF c
<1>5. PICK f : IsSum(f, c, L)
  BY <1>1, <1>4, SumExists
<1>6. f = Of(f)
  <2>1. f \in [0 .. L -> Nat] /\ f[0] = 0 /\ \A n \in 1 .. L : f[n] = f[n - 1] + c[n]
    BY <1>5 DEF IsSum
  <2>2. \A n \in 1 .. L : c[n] = Cost(p, o, n)
    BY DEF c
  <2>3. \A n \in 0 .. L : n = 0 \/ n \in 1 .. L
    BY <1>1
  <2> QED
    BY <1>1, <2>1, <2>2, <2>3
<1> HIDE DEF Of
<1>7. spent = Of(spent)
  BY <1>6
<1> HIDE DEF spent
<1>8. spent[0] = 0 /\ \A n \in 1 .. L : spent[n] = spent[n - 1] + Cost(p, o, n)
  BY <1>1, <1>7 DEF Of
<1>9. spent[L] = f[L] /\ f[L] \in Nat
  <2>1. f[L] \in Nat /\ f[0] = 0 /\ \A n \in 1 .. L : f[n] = f[n - 1] + c[n]
    BY <1>1, <1>5 DEF IsSum
  <2>2. \A n \in 1 .. L : spent[n] = spent[n - 1] + c[n]
    BY <1>8 DEF c
  <2>3. spent[0] = f[0]
    BY <1>8, <2>1
  <2> QED
    BY <1>1, <2>1, <2>2, <2>3, SumsAgree
<1> QED
  BY <1>2, <1>3, <1>8, <1>9 DEF L

\* Reading nothing costs nothing.
LEMMA RunOfNothing ==
    ASSUME NEW p \in Problems
    PROVE  Runs(p, <<>>) /\ RunLatency(p, <<>>) = 0
<1>1. Runs(p, <<>>) /\ <<>> \in Readings({}) /\ {} \in SUBSET Narrowing(p)
  BY ReadingOfNothing DEF Runs
<1>2. PICK f : f[0] = 0 /\ f[Len(<<>>)] = RunLatency(p, <<>>)
  BY <1>1, RunIsSummed
<1> QED
  BY <1>1, <1>2

\* A reading that goes on runs if what it went on from does and its last read
\* is possible, and costs that much more.
LEMMA RunGoesOn ==
    ASSUME NEW p \in Problems, NEW S \in SUBSET Narrowing(p), NEW q \in Readings(S),
           NEW s \in Narrowing(p) \ S, NEW r \in BOOLEAN
    PROVE  /\ Runs(p, Append(q, <<s, r>>)) <=> Runs(p, q) /\ CanRead(p, s, KeysAfter(p, S), r)
           /\ Runs(p, Append(q, <<s, r>>)) =>
                  /\ RunLatency(p, q) \in Nat /\ Latency(p, s, KeysAfter(p, S), r) \in Nat
                  /\ RunLatency(p, Append(q, <<s, r>>)) = RunLatency(p, q) + Latency(p, s, KeysAfter(p, S), r)
<1> DEFINE o == Append(q, <<s, r>>)
           k == Len(q)
           T == S \cup {s}
<1>1. IsFiniteSet(S) /\ k \in Nat /\ ReadsAll(q, k, S)
  <2>1. IsFiniteSet(S)
    BY NarrowingIsFinite, FS_Subset
  <2>2. Cardinality(S) \in Nat /\ ReadsAll(q, Cardinality(S), S)
    BY <2>1, ReadingIsTyped
  <2> QED
    BY <2>1, <2>2 DEF ReadsAll
<1>2. T \in SUBSET Narrowing(p) /\ o \in Readings(T)
  BY <1>1, ReadingGoesOn
<1>3. /\ Len(o) = k + 1 /\ DOMAIN o = 1 .. k + 1 /\ DOMAIN q = 1 .. k
      /\ o[k + 1] = <<s, r>> /\ \A n \in 1 .. k : o[n] = q[n]
  <2> DEFINE E == T \X BOOLEAN
             e == <<s, r>>
  <2>1. q \in Seq(E) /\ e \in E /\ DOMAIN q = 1 .. k
    BY <1>1 DEF ReadsAll
  <2> HIDE DEF E, e
  <2>2. /\ Len(Append(q, e)) = k + 1 /\ Append(q, e) \in [1 .. k + 1 -> E]
        /\ Append(q, e)[k + 1] = e /\ \A n \in 1 .. k : Append(q, e)[n] = q[n]
    BY <2>1, AppendedParts
  <2> QED
    BY <2>1, <2>2 DEF e
<1> HIDE DEF o, k, T
<1>4. (\A n \in 1 .. k : Before(o, n) = Before(q, n)) /\ Before(o, k + 1) = S
  BY <1>1, <1>3, BeforeLast
<1>5. o[k + 1][1] = s /\ o[k + 1][2] = r
  BY <1>3
<1>6. Runs(p, o) <=> Runs(p, q) /\ CanRead(p, s, KeysAfter(p, S), r)
  <2> DEFINE can(n) == CanRead(p, o[n][1], KeysAfter(p, Before(o, n)), o[n][2])
  <2>1. Runs(p, o) <=> \A n \in 1 .. k + 1 : can(n)
    BY <1>3 DEF Runs
  <2>2. Runs(p, q) <=> \A n \in 1 .. k : can(n)
    BY <1>3, <1>4 DEF Runs
  <2>3. can(k + 1) <=> CanRead(p, s, KeysAfter(p, S), r)
    BY <1>4, <1>5
  <2> HIDE DEF can
  <2>4. (\A n \in 1 .. k + 1 : can(n)) <=> (\A n \in 1 .. k : can(n)) /\ can(k + 1)
    <3>1. \A n \in 1 .. k + 1 : n \in 1 .. k \/ n = k + 1
      BY <1>1
    <3>2. k + 1 \in 1 .. k + 1 /\ \A n \in 1 .. k : n \in 1 .. k + 1
      BY <1>1
    <3> QED
      BY <3>1, <3>2
  <2> QED
    BY <2>1, <2>2, <2>3, <2>4
<1>7. ASSUME Runs(p, o)
      PROVE  /\ RunLatency(p, q) \in Nat /\ Latency(p, s, KeysAfter(p, S), r) \in Nat
             /\ RunLatency(p, o) = RunLatency(p, q) + Latency(p, s, KeysAfter(p, S), r)
  <2>1. /\ \A n \in 1 .. k + 1 : Cost(p, o, n) \in Nat
        /\ \E f : /\ f[0] = 0 /\ f[k + 1] = RunLatency(p, o)
                  /\ \A n \in 1 .. k + 1 : f[n] = f[n - 1] + Cost(p, o, n)
    BY <1>2, <1>3, <1>7, RunIsSummed
  <2>2. /\ RunLatency(p, q) \in Nat
        /\ \E f : /\ f[0] = 0 /\ f[k] = RunLatency(p, q)
                  /\ \A n \in 1 .. k : f[n] = f[n - 1] + Cost(p, q, n)
    BY <1>6, <1>7, RunIsSummed DEF k
  <2>3. PICK g : /\ g[0] = 0 /\ g[k + 1] = RunLatency(p, o)
                 /\ \A n \in 1 .. k + 1 : g[n] = g[n - 1] + Cost(p, o, n)
    BY <2>1
  <2>4. PICK f : /\ f[0] = 0 /\ f[k] = RunLatency(p, q)
                 /\ \A n \in 1 .. k : f[n] = f[n - 1] + Cost(p, q, n)
    BY <2>2
  <2> DEFINE c == [n \in 1 .. k |-> Cost(p, q, n)]
  <2>5. \A n \in 1 .. k : n \in 1 .. k + 1 /\ Cost(p, o, n) = Cost(p, q, n) /\ Cost(p, q, n) = c[n]
    BY <1>1, <1>3, <1>4 DEF Cost
  <2> HIDE DEF c
  <2>6. /\ \A n \in 1 .. k : f[n] = f[n - 1] + c[n]
        /\ \A n \in 1 .. k : g[n] = g[n - 1] + c[n]
    BY <2>3, <2>4, <2>5
  <2>7. f[k] = g[k]
    BY <1>1, <2>3, <2>4, <2>6, SumsAgree
  <2>8. k + 1 \in 1 .. k + 1 /\ (k + 1) - 1 = k
    BY <1>1
  <2>9. g[k + 1] = g[k] + Cost(p, o, k + 1)
    BY <2>3, <2>8
  <2>10. Cost(p, o, k + 1) = Latency(p, s, KeysAfter(p, S), r)
    BY <1>4, <1>5 DEF Cost
  <2> QED
    BY <2>1, <2>2, <2>3, <2>4, <2>7, <2>8, <2>9, <2>10
<1> QED
  BY <1>6, <1>7 DEF o

-----------------------------------------------------------------------------
(* The rules' order, and the nearest of equally cheap orders.              *)

\* What stands between the required sources and the anchor.
StorePart(p) == IF RuleVariant(p).plan = "shortlist" /\ p.semantic.via_store THEN <<Store>> ELSE <<>>

\* The rules' order names no source twice, begins with the required ones, and
\* names all that narrow.
LEMMA RuleOrderIsTyped ==
    ASSUME NEW p \in Problems
    PROVE  LET k == Len(p.required)
               j == Len(StorePart(p))
               L == Len(RuleOrder(p))
           IN  /\ L = k + j + 1 /\ L \in Nat /\ DOMAIN RuleOrder(p) = 1 .. L
               /\ RuleOrder(p) \in Seq(Narrowing(p) \cup {Store})
               /\ \A n \in 1 .. k : RuleOrder(p)[n] = p.required[n]
               /\ RuleOrder(p)[L] = Anchor
               /\ j = 1 => RuleOrder(p)[k + 1] = Store
               /\ j \in {0, 1}
<1> DEFINE E == Narrowing(p) \cup {Store}
           r == p.required
           t == StorePart(p)
<1>1. r \in Seq(Required(p)) /\ Len(r) \in Nat
  BY ProblemIsTyped, NarrowingIsFinite DEF IsProblem
<1>2. r \in Seq(E) /\ Anchor \in E /\ Store \in E
  BY <1>1 DEF Narrowing
<1>3. t \in {<<>>, <<Store>>}
  BY DEF StorePart
<1>4. t \in Seq(E) /\ Len(t) \in {0, 1} /\ (Len(t) = 1 => t[1] = Store)
  <2>1. CASE t = <<>>
    <3> HIDE DEF t
    <3> QED
      BY <2>1
  <2>2. CASE t = <<Store>>
    <3>1. <<Store>> \in Seq(E) /\ Len(<<Store>>) = 1 /\ <<Store>>[1] = Store
      BY <1>2
    <3> HIDE DEF t, E
    <3> QED
      BY <2>2, <3>1
  <2> QED
    BY <1>3, <2>1, <2>2
<1>5. RuleOrder(p) = (r \o t) \o <<Anchor>>
  BY DEF RuleOrder, StorePart
<1> HIDE DEF E, r, t
<1>6. /\ r \o t \in Seq(E) /\ Len(r \o t) = Len(r) + Len(t)
      /\ \A n \in 1 .. Len(r) : (r \o t)[n] = r[n]
      /\ Len(t) = 1 => (r \o t)[Len(r) + 1] = Store
  <2>1. \A n \in 1 .. Len(t) : (r \o t)[Len(r) + n] = t[n]
    BY <1>2, <1>4, JoinedParts
  <2>2. Len(t) = 1 => (r \o t)[Len(r) + 1] = t[1]
    BY <2>1
  <2> QED
    BY <1>2, <1>4, <2>2, JoinedParts
<1> DEFINE q == r \o t
           o == q \o <<Anchor>>
<1>7. q \in Seq(E) /\ Len(q) \in Nat /\ <<Anchor>> \in Seq(E)
  BY <1>1, <1>2, <1>4, <1>6
<1> HIDE DEF q
<1>8. /\ o \in Seq(E) /\ Len(o) = Len(q) + 1 /\ o[Len(q) + 1] = Anchor
      /\ \A n \in 1 .. Len(q) : o[n] = q[n]
  BY <1>7
<1>9. DOMAIN o = 1 .. Len(o)
  BY <1>8
<1> HIDE DEF o
<1>10. /\ Len(q) = Len(r) + Len(t) /\ \A n \in 1 .. Len(r) : q[n] = r[n]
       /\ Len(t) = 1 => q[Len(r) + 1] = Store
  BY <1>6 DEF q
<1>11. RuleOrder(p) = o
  BY <1>5 DEF o, q
<1>12. /\ \A n \in 1 .. Len(r) : n \in 1 .. Len(q)
       /\ Len(t) = 1 => Len(r) + 1 \in 1 .. Len(q)
  <2> DEFINE x == Len(r)
             y == Len(t)
  <2>1. x \in Nat /\ y \in {0, 1} /\ Len(q) = x + y
    BY <1>1, <1>4, <1>10
  <2> HIDE DEF x, y
  <2>2. /\ \A n \in 1 .. x : n \in 1 .. x + y
        /\ y = 1 => x + 1 \in 1 .. x + y
    BY <2>1
  <2> QED
    BY <2>1, <2>2 DEF x, y
<1>13. /\ \A n \in 1 .. Len(r) : o[n] = r[n]
       /\ Len(t) = 1 => o[Len(r) + 1] = Store
  BY <1>8, <1>10, <1>12
<1>14. /\ Len(o) = Len(r) + Len(t) + 1 /\ Len(o) \in Nat /\ o[Len(o)] = Anchor
  BY <1>1, <1>4, <1>8, <1>10
<1> QED
  BY <1>4, <1>8, <1>9, <1>11, <1>13, <1>14 DEF E, r, t

\* So a source has one place in it.
LEMMA PositionIsPlace ==
    ASSUME NEW p \in Problems
    PROVE  /\ \A n \in 1 .. Len(RuleOrder(p)) : Position(p, RuleOrder(p)[n]) = n
           /\ \A s \in Narrowing(p) : Position(p, s) \in Nat /\ \E n \in 1 .. Len(RuleOrder(p)) : RuleOrder(p)[n] = s
<1> DEFINE o == RuleOrder(p)
           k == Len(p.required)
           j == Len(StorePart(p))
           L == Len(o)
<1>1. /\ L = k + j + 1 /\ L \in Nat /\ DOMAIN o = 1 .. L
      /\ \A n \in 1 .. k : o[n] = p.required[n]
      /\ o[L] = Anchor /\ (j = 1 => o[k + 1] = Store) /\ j \in {0, 1}
  BY RuleOrderIsTyped
<1>2. /\ k \in Nat /\ DOMAIN p.required = 1 .. k
      /\ Anchor \notin Required(p) /\ Store \notin Required(p) /\ Anchor # Store
  BY NarrowingIsFinite, OptimizerAssumption
<1>3. /\ \A m, n \in 1 .. k : p.required[m] = p.required[n] => m = n
      /\ \A n \in 1 .. k : p.required[n] \in Required(p)
      /\ \A s \in Required(p) : \E n \in 1 .. k : p.required[n] = s
  BY <1>2, ProblemIsTyped DEF IsProblem, IsInjective, Required, Range
<1> HIDE DEF o, k, j, L
<1>4. \A n \in 1 .. L : n \in 1 .. k \/ (j = 1 /\ n = k + 1) \/ n = L
  BY <1>1, <1>2
<1>5. ASSUME NEW m \in 1 .. L, NEW n \in 1 .. L, o[m] = o[n] PROVE m = n
  <2>1. \A i \in 1 .. k : o[i] \in Required(p)
    BY <1>1, <1>3
  <2>2. CASE m \in 1 .. k /\ n \in 1 .. k
    BY <1>1, <1>3, <1>5, <2>2
  <2> QED
    BY <1>1, <1>2, <1>4, <1>5, <2>1, <2>2
<1>6. ASSUME NEW n \in 1 .. L PROVE Position(p, o[n]) = n
  <2>1. \E m \in DOMAIN o : o[m] = o[n]
    BY <1>1
  <2>2. Position(p, o[n]) = CHOOSE m \in DOMAIN o : o[m] = o[n]
    BY <2>1 DEF Position, o
  <2>3. Position(p, o[n]) \in DOMAIN o /\ o[Position(p, o[n])] = o[n]
    BY <2>1, <2>2
  <2> QED
    BY <1>1, <1>5, <2>3
<1>7. ASSUME NEW s \in Narrowing(p) PROVE \E n \in 1 .. L : o[n] = s
  <2>1. CASE s = Anchor
    BY <1>1, <1>2, <2>1
  <2>2. CASE s \in Required(p)
    <3>1. PICK n \in 1 .. k : p.required[n] = s
      BY <1>3, <2>2
    <3>2. n \in 1 .. L
      BY <1>1, <1>2
    <3> QED
      BY <1>1, <3>1, <3>2
  <2> QED
    BY <2>1, <2>2 DEF Narrowing
<1>8. ASSUME NEW s \in Narrowing(p) PROVE Position(p, s) \in Nat
  BY <1>1, <1>6, <1>7
<1> QED
  BY <1>6, <1>7, <1>8 DEF o, L

\* Of the readings of S, none is nearer than itself, and nearer is transitive.
LEMMA NearerIsOrder ==
    ASSUME NEW p \in Problems, NEW S \in SUBSET Narrowing(p),
           NEW a \in Readings(S), NEW b \in Readings(S), NEW c \in Readings(S)
    PROVE  /\ ~Nearer(p, a, a)
           /\ Nearer(p, a, b) /\ Nearer(p, b, c) => Nearer(p, a, c)
<1> DEFINE k == Cardinality(S)
           at(o, n) == Position(p, o[n][1])
<1>1. k \in Nat /\ ReadsAll(a, k, S) /\ ReadsAll(b, k, S) /\ ReadsAll(c, k, S)
  BY NarrowingIsFinite, FS_Subset, ReadingIsTyped
<1> HIDE DEF k
<1>2. ASSUME NEW o \in {a, b, c} PROVE DOMAIN o = 1 .. k /\ \A n \in 1 .. k : at(o, n) \in Nat
  <2>1. DOMAIN o = 1 .. k /\ \A n \in 1 .. k : o[n][1] \in S
    BY <1>1 DEF ReadsAll
  <2> QED
    BY <2>1, PositionIsPlace
<1>3. ~Nearer(p, a, a)
  BY <1>2 DEF Nearer
<1>4. ASSUME Nearer(p, a, b), Nearer(p, b, c) PROVE Nearer(p, a, c)
  <2>1. PICK m \in 1 .. k : at(a, m) < at(b, m) /\ \A i \in 1 .. m - 1 : a[i][1] = b[i][1]
    BY <1>2, <1>4 DEF Nearer
  <2>2. PICK n \in 1 .. k : at(b, n) < at(c, n) /\ \A i \in 1 .. n - 1 : b[i][1] = c[i][1]
    BY <1>2, <1>4 DEF Nearer
  <2>3. CASE m < n
    <3>1. \A i \in 1 .. m - 1 : i \in 1 .. n - 1
      BY <2>3
    <3>2. m \in 1 .. n - 1
      BY <2>3
    <3>3. at(a, m) < at(c, m) /\ \A i \in 1 .. m - 1 : a[i][1] = c[i][1]
      BY <2>1, <2>2, <3>1, <3>2
    <3> QED
      BY <1>2, <3>3 DEF Nearer
  <2>4. CASE n < m
    <3>1. \A i \in 1 .. n - 1 : i \in 1 .. m - 1
      BY <2>4
    <3>2. n \in 1 .. m - 1
      BY <2>4
    <3>3. at(a, n) < at(c, n) /\ \A i \in 1 .. n - 1 : a[i][1] = c[i][1]
      BY <2>1, <2>2, <3>1, <3>2
    <3> QED
      BY <1>2, <3>3 DEF Nearer
  <2>5. CASE m = n
    <3>1. at(a, m) \in Nat /\ at(b, m) \in Nat /\ at(c, m) \in Nat
      BY <1>2
    <3>2. at(a, m) < at(c, m) /\ \A i \in 1 .. m - 1 : a[i][1] = c[i][1]
      BY <2>1, <2>2, <2>5, <3>1
    <3> QED
      BY <1>2, <3>2 DEF Nearer
  <2> QED
    BY <2>3, <2>4, <2>5
<1> QED
  BY <1>3, <1>4


\* A strict order on finitely many things has a minimal element.
LEMMA MinimalExists ==
    ASSUME NEW W, IsFiniteSet(W), W # {}, NEW R,
           \A x \in W : <<x, x>> \notin R,
           \A x, y, z \in W : <<x, y>> \in R /\ <<y, z>> \in R => <<x, z>> \in R
    PROVE  \E x \in W : \A y \in W : <<y, x>> \notin R
<1> DEFINE Below(x) == {y \in W : <<y, x>> \in R}
           size == [x \in W |-> Cardinality(Below(x))]
           N == {size[x] : x \in W}
<1>1. \A x \in W : IsFiniteSet(Below(x)) /\ Cardinality(Below(x)) \in Nat
  BY FS_Subset, FS_CardinalityType
<1>2. \A x \in W : size[x] = Cardinality(Below(x)) /\ size[x] \in Nat
  BY <1>1
<1>3. PICK x \in W : \A y \in W : Cardinality(Below(x)) <= Cardinality(Below(y))
  <2> HIDE DEF size, Below
  <2>0. \A y \in W : size[y] \in Nat
    BY <1>2
  <2>1. N \in SUBSET Nat /\ N # {} /\ \A y \in W : size[y] \in N
    BY <2>0
  <2>2. \A m \in N : \E x \in W : m = size[x]
    OBVIOUS
  <2> HIDE DEF N
  <2>3. PICK m \in N : \A n \in N : m <= n
    BY <2>1, LeastNumber
  <2>4. PICK x \in W : m = size[x]
    BY <2>2
  <2>5. \A y \in W : size[x] <= size[y]
    BY <2>1, <2>3, <2>4
  <2> QED
    BY <1>2, <2>5
<1>4. ASSUME NEW y \in W, <<y, x>> \in R PROVE FALSE
  <2> DEFINE A == Below(x)
             B == Below(y)
  <2>1. B \in SUBSET A /\ y \in A /\ y \notin B
    BY <1>4
  <2>2. IsFiniteSet(A) /\ Cardinality(A) \in Nat /\ Cardinality(B) \in Nat /\ Cardinality(A) <= Cardinality(B)
    BY <1>1, <1>3
  <2> HIDE DEF A, B
  <2>3. Cardinality(B) <= Cardinality(A) /\ (Cardinality(A) = Cardinality(B) => A = B)
    BY <2>1, <2>2, FS_Subset
  <2> QED
    BY <2>1, <2>2, <2>3
<1> QED
  BY <1>4

\* Of finitely many ways to read the same sources one is chosen that no other
\* is cheaper than, or as cheap and nearer to the rules' order.
LEMMA CheapestIsOne ==
    ASSUME NEW p \in Problems, NEW S \in SUBSET Narrowing(p), NEW W, IsFiniteSet(W), W # {},
           \A w \in W : w.cost \in Nat /\ w.order \in Readings(S)
    PROVE  /\ Cheapest(p, W) \in W
           /\ \A y \in W : ~Cheaper(p, y, Cheapest(p, W))
<1> DEFINE R == {e \in W \X W : Cheaper(p, e[1], e[2])}
<1>1. \A x, y \in W : <<x, y>> \in R <=> Cheaper(p, x, y)
  OBVIOUS
<1>2. ASSUME NEW x \in W PROVE <<x, x>> \notin R
  BY <1>1, NearerIsOrder DEF Cheaper
<1>3. ASSUME NEW x \in W, NEW y \in W, NEW z \in W, <<x, y>> \in R, <<y, z>> \in R
      PROVE  <<x, z>> \in R
  <2>1. Nearer(p, x.order, y.order) /\ Nearer(p, y.order, z.order) => Nearer(p, x.order, z.order)
    BY NearerIsOrder
  <2>2. Cheaper(p, x, y) /\ Cheaper(p, y, z)
    BY <1>1, <1>3
  <2>3. Cheaper(p, x, z)
    BY <2>1, <2>2 DEF Cheaper
  <2> QED
    BY <1>1, <2>3
<1> HIDE DEF R
<1>4. \E x \in W : \A y \in W : <<y, x>> \notin R
  BY <1>2, <1>3, MinimalExists
<1>5. \E x \in W : \A y \in W : ~Cheaper(p, y, x)
  BY <1>1, <1>4
<1> QED
  BY <1>5 DEF Cheapest

\* A reading keeps to the rules' order as far as it goes.
KeepsRules(p, o) == \A n \in 1 .. Len(o) : o[n][1] = RuleOrder(p)[n]

\* There is only one order that does, and it is nearer than every other.
LEMMA RulesAreNearest ==
    ASSUME NEW p \in Problems, NEW S \in SUBSET Narrowing(p),
           NEW o \in Readings(S), NEW w \in Readings(S), KeepsRules(p, o), ~Nearer(p, o, w)
    PROVE  KeepsRules(p, w)
<1> DEFINE k == Cardinality(S)
           L == Len(RuleOrder(p))
           at(q, n) == q[n][1]
<1>1. k \in Nat /\ ReadsAll(o, k, S) /\ ReadsAll(w, k, S)
  BY NarrowingIsFinite, FS_Subset, ReadingIsTyped
<1>2. L \in Nat /\ k <= L
  <2>1. Cardinality(Narrowing(p)) = Len(p.required) + 1 /\ Len(p.required) \in Nat
    BY NarrowingIsFinite
  <2>2. k <= Cardinality(Narrowing(p))
    BY NarrowingIsFinite, FS_Subset
  <2> DEFINE j == Len(StorePart(p))
  <2>3. L = Len(p.required) + j + 1 /\ j \in {0, 1}
    BY RuleOrderIsTyped
  <2> HIDE DEF k, L, j
  <2> QED
    BY <1>1, <2>1, <2>2, <2>3
<1> HIDE DEF k
<1>3. /\ Len(o) = k /\ Len(w) = k /\ DOMAIN o = 1 .. k
      /\ \A n \in 1 .. k : at(w, n) \in S
      /\ \A m, n \in 1 .. k : at(w, m) = at(w, n) => m = n
  BY <1>1 DEF ReadsAll
<1>4. \A n \in 1 .. k : at(o, n) = RuleOrder(p)[n] /\ n \in 1 .. L
  BY <1>1, <1>2, <1>3 DEF KeepsRules
<1> DEFINE D == {n \in 1 .. k : at(w, n) # at(o, n)}
<1>5. D = {}
  <2> SUFFICES ASSUME D # {} PROVE FALSE
    OBVIOUS
  <2>0. D \in SUBSET Nat
    OBVIOUS
  <2> HIDE DEF D
  <2>1. PICK m \in D : \A n \in D : m <= n
    BY <2>0, LeastNumber
  <2> USE DEF D
  <2>2. m \in 1 .. k /\ at(w, m) # at(o, m) /\ \A n \in 1 .. m - 1 : n \in 1 .. k /\ at(w, n) = at(o, n)
    BY <1>1, <2>1
  <2>3. Position(p, at(o, m)) = m
    BY <1>4, <2>2, PositionIsPlace
  <2>4. PICK i \in 1 .. L : RuleOrder(p)[i] = at(w, m)
    BY <1>3, <2>2, PositionIsPlace
  <2>5. Position(p, at(w, m)) = i
    BY <2>4, PositionIsPlace
  <2>6. i # m
    BY <1>4, <2>2, <2>4
  <2>7. ~(i < m)
    <3> SUFFICES ASSUME i < m PROVE FALSE
      OBVIOUS
    <3>1. i \in 1 .. m - 1 /\ i \in 1 .. k
      BY <1>1, <1>2, <2>2
    <3>2. at(w, i) = at(w, m)
      BY <1>4, <2>2, <2>4, <3>1
    <3> QED
      BY <1>3, <2>2, <2>6, <3>1, <3>2
  <2>8. m < i
    BY <1>1, <1>2, <2>2, <2>6, <2>7
  <2>9. Position(p, at(o, m)) < Position(p, at(w, m)) /\ \A n \in 1 .. m - 1 : at(o, n) = at(w, n)
    BY <2>2, <2>3, <2>5, <2>8
  <2>10. Nearer(p, o, w)
    BY <1>3, <2>2, <2>9 DEF Nearer
  <2> QED
    BY <2>10
<1> QED
  BY <1>3, <1>4, <1>5 DEF KeepsRules

-----------------------------------------------------------------------------
(* The dynamic programme.                                                  *)

\* The sources S can be read in some order.
CanBeRead(p, S) == \E o \in Readings(S) : Runs(p, o)

\* w is a cheapest way to read S: it is a reading at the cost it states, none
\* is cheaper, and if the rules' order is as cheap it is the one kept.
IsBest(p, S, w) ==
    /\ w.order \in Readings(S) /\ Runs(p, w.order)
    /\ w.cost \in Nat /\ RunLatency(p, w.order) = w.cost
    /\ \A o \in Readings(S) : Runs(p, o) =>
           /\ w.cost <= RunLatency(p, o)
           /\ RunLatency(p, o) = w.cost /\ KeepsRules(p, o) => KeepsRules(p, w.order)

\* A reading keeps to the rules' order if what it went on from does and its last
\* source is the next there.
LEMMA RulesGoOn ==
    ASSUME NEW p \in Problems, NEW S \in SUBSET Narrowing(p), NEW q \in Readings(S), NEW s, NEW r \in BOOLEAN
    PROVE  KeepsRules(p, Append(q, <<s, r>>))
              <=> KeepsRules(p, q) /\ s = RuleOrder(p)[Cardinality(S) + 1]
<1> DEFINE k == Cardinality(S)
           E == (S \cup {s}) \X BOOLEAN
           e == <<s, r>>
           o == Append(q, e)
<1>1. k \in Nat /\ ReadsAll(q, k, S)
  BY NarrowingIsFinite, FS_Subset, ReadingIsTyped
<1>2. q \in Seq(E) /\ e \in E /\ Len(q) = k
  BY <1>1 DEF ReadsAll
<1>3. e[1] = s
  OBVIOUS
<1> HIDE DEF E, e, k
<1>4. Len(o) = k + 1 /\ o[k + 1] = e /\ \A n \in 1 .. k : o[n] = q[n]
  BY <1>2, AppendedParts
<1> HIDE DEF o
<1>5. k + 1 \in 1 .. k + 1 /\ (\A n \in 1 .. k : n \in 1 .. k + 1) /\ \A n \in 1 .. k + 1 : n \in 1 .. k \/ n = k + 1
  BY <1>1
<1>6. KeepsRules(p, o) <=> \A n \in 1 .. k + 1 : o[n][1] = RuleOrder(p)[n]
  BY <1>4 DEF KeepsRules
<1>7. KeepsRules(p, q) <=> \A n \in 1 .. k : q[n][1] = RuleOrder(p)[n]
  BY <1>2 DEF KeepsRules
<1>8. KeepsRules(p, o) <=> KeepsRules(p, q) /\ s = RuleOrder(p)[k + 1]
  BY <1>3, <1>4, <1>5, <1>6, <1>7
<1> QED
  BY <1>8 DEF o, e, k

\* To read T as cheaply as can be and then s is a reading of both, at the cost
\* stated, and as good as every reading that ends with s.
LEMMA ExtendedIsBest ==
    ASSUME NEW p \in Problems, NEW T \in SUBSET Narrowing(p), NEW s \in Narrowing(p) \ T,
           NEW w, IsBest(p, T, w), Readable(p, s, KeysAfter(p, T))
    PROVE  LET e == Extended(p, w, T, s)
           IN  /\ e.order \in Readings(T \cup {s}) /\ Runs(p, e.order)
               /\ e.cost \in Nat /\ RunLatency(p, e.order) = e.cost
               /\ \A q \in Readings(T), r \in BOOLEAN :
                      LET o == Append(q, <<s, r>>)
                      IN  Runs(p, o) =>
                          /\ RunLatency(p, o) \in Nat /\ e.cost <= RunLatency(p, o)
                          /\ RunLatency(p, o) = e.cost /\ KeepsRules(p, o) => KeepsRules(p, e.order)
<1> DEFINE keys == KeysAfter(p, T)
           b == Restricts(p, s, keys)
           e == Extended(p, w, T, s)
<1>1. /\ keys \in Nat \cup {NoKeys} /\ b \in BOOLEAN /\ CanRead(p, s, keys, b)
      /\ BestLatency(p, s, keys) \in Nat /\ BestLatency(p, s, keys) = Latency(p, s, keys, b)
      /\ \A r \in BOOLEAN : CanRead(p, s, keys, r) => BestLatency(p, s, keys) <= Latency(p, s, keys, r)
  <2>1. keys \in Nat \cup {NoKeys} /\ p.source[s] \in Profiles
    BY KeysAreTyped, ProblemIsTyped
  <2> QED
    BY <2>1, BestReadIsBest DEF BestLatency
<1>2. e.cost = w.cost + BestLatency(p, s, keys) /\ e.order = Append(w.order, <<s, b>>)
  BY DEF Extended
<1>3. /\ w.order \in Readings(T) /\ Runs(p, w.order)
      /\ w.cost \in Nat /\ RunLatency(p, w.order) = w.cost
      /\ \A o \in Readings(T) : Runs(p, o) =>
           /\ w.cost <= RunLatency(p, o)
           /\ RunLatency(p, o) = w.cost /\ KeepsRules(p, o) => KeepsRules(p, w.order)
  BY DEF IsBest
<1>4. IsFiniteSet(T)
  BY NarrowingIsFinite, FS_Subset
<1>5. e.order \in Readings(T \cup {s})
  BY <1>1, <1>2, <1>3, <1>4, ReadingGoesOn
<1>6. Runs(p, e.order) /\ RunLatency(p, e.order) = e.cost /\ e.cost \in Nat
  <2>1. Runs(p, e.order)
    BY <1>1, <1>2, <1>3, RunGoesOn
  <2>2. RunLatency(p, e.order) = RunLatency(p, w.order) + Latency(p, s, keys, b)
    BY <1>1, <1>2, <1>3, <2>1, RunGoesOn
  <2> QED
    BY <1>1, <1>2, <1>3, <2>1, <2>2
<1>7. ASSUME NEW q \in Readings(T), NEW r \in BOOLEAN, Runs(p, Append(q, <<s, r>>))
      PROVE  LET o == Append(q, <<s, r>>)
             IN  /\ RunLatency(p, o) \in Nat /\ e.cost <= RunLatency(p, o)
                 /\ RunLatency(p, o) = e.cost /\ KeepsRules(p, o) => KeepsRules(p, e.order)
  <2> DEFINE o == Append(q, <<s, r>>)
  <2>1. /\ Runs(p, q) /\ CanRead(p, s, keys, r)
        /\ RunLatency(p, q) \in Nat /\ Latency(p, s, keys, r) \in Nat
        /\ RunLatency(p, o) = RunLatency(p, q) + Latency(p, s, keys, r)
    BY <1>7, RunGoesOn
  <2>2. /\ w.cost <= RunLatency(p, q)
        /\ RunLatency(p, q) = w.cost /\ KeepsRules(p, q) => KeepsRules(p, w.order)
    BY <1>3, <2>1
  <2>3. BestLatency(p, s, keys) <= Latency(p, s, keys, r)
    BY <1>1, <2>1
  <2>4. /\ KeepsRules(p, o) <=> KeepsRules(p, q) /\ s = RuleOrder(p)[Cardinality(T) + 1]
        /\ KeepsRules(p, e.order) <=> KeepsRules(p, w.order) /\ s = RuleOrder(p)[Cardinality(T) + 1]
    BY <1>1, <1>2, <1>3, RulesGoOn
  <2>5. RunLatency(p, o) \in Nat /\ e.cost <= RunLatency(p, o)
        /\ (RunLatency(p, o) = e.cost => RunLatency(p, q) = w.cost)
    BY <1>1, <1>2, <1>3, <2>1, <2>2, <2>3
  <2> QED
    BY <2>2, <2>4, <2>5
<1> QED
  BY <1>5, <1>6, <1>7

\* So the cheapest extension is a cheapest way to read one source more.
LEMMA OneMoreIsBest ==
    ASSUME NEW p \in Problems, NEW S \in SUBSET Narrowing(p), S # {}, NEW b,
           \A s \in S : /\ S \ {s} \in DOMAIN b <=> CanBeRead(p, S \ {s})
                        /\ S \ {s} \in DOMAIN b => IsBest(p, S \ {s}, b[S \ {s}])
    PROVE  /\ Ways(p, b, S) # {} <=> CanBeRead(p, S)
           /\ Ways(p, b, S) # {} => IsBest(p, S, Cheapest(p, Ways(p, b, S)))
<1> DEFINE W == Ways(p, b, S)
           Last(s) == S \ {s} \in DOMAIN b /\ Readable(p, s, KeysAfter(p, S \ {s}))
           With(s) == Extended(p, b[S \ {s}], S \ {s}, s)
<1>1. IsFiniteSet(S)
  BY NarrowingIsFinite, FS_Subset
<1>2. /\ \A s \in S : Last(s) => With(s) \in W
      /\ \A w \in W : \E s \in S : Last(s) /\ w = With(s)
  BY DEF Ways
<1>3. ASSUME NEW s \in S, Last(s)
      PROVE  /\ With(s).order \in Readings(S) /\ Runs(p, With(s).order)
             /\ With(s).cost \in Nat /\ RunLatency(p, With(s).order) = With(s).cost
             /\ \A q \in Readings(S \ {s}), r \in BOOLEAN :
                    LET o == Append(q, <<s, r>>)
                    IN  Runs(p, o) =>
                        /\ RunLatency(p, o) \in Nat /\ With(s).cost <= RunLatency(p, o)
                        /\ RunLatency(p, o) = With(s).cost /\ KeepsRules(p, o) => KeepsRules(p, With(s).order)
  <2> DEFINE T == S \ {s}
  <2>1. T \in SUBSET Narrowing(p) /\ s \in Narrowing(p) \ T /\ S = T \cup {s}
    OBVIOUS
  <2>2. IsBest(p, T, b[T]) /\ Readable(p, s, KeysAfter(p, T))
    BY <1>3
  <2> HIDE DEF T
  <2>3. LET e == Extended(p, b[T], T, s)
        IN  /\ e.order \in Readings(T \cup {s}) /\ Runs(p, e.order)
            /\ e.cost \in Nat /\ RunLatency(p, e.order) = e.cost
            /\ \A q \in Readings(T), r \in BOOLEAN :
                   LET o == Append(q, <<s, r>>)
                   IN  Runs(p, o) =>
                       /\ RunLatency(p, o) \in Nat /\ e.cost <= RunLatency(p, o)
                       /\ RunLatency(p, o) = e.cost /\ KeepsRules(p, o) => KeepsRules(p, e.order)
    BY <2>1, <2>2, ExtendedIsBest
  <2> QED
    BY <2>1, <2>3 DEF T
<1>4. ASSUME NEW o \in Readings(S), Runs(p, o)
      PROVE  \E s \in S, r \in BOOLEAN : Last(s) /\ \E q \in Readings(S \ {s}) : o = Append(q, <<s, r>>)
  <2>1. PICK s \in S, r \in BOOLEAN : \E q \in Readings(S \ {s}) : o = Append(q, <<s, r>>)
    BY <1>1, ReadingWentOn
  <2>2. PICK q \in Readings(S \ {s}) : o = Append(q, <<s, r>>)
    BY <2>1
  <2> DEFINE T == S \ {s}
  <2>3. T \in SUBSET Narrowing(p) /\ s \in Narrowing(p) \ T
    OBVIOUS
  <2>4. Runs(p, q) /\ CanRead(p, s, KeysAfter(p, T), r)
    BY <1>4, <2>2, <2>3, RunGoesOn
  <2>5. CanBeRead(p, T) /\ Readable(p, s, KeysAfter(p, T))
    BY <2>2, <2>4 DEF CanBeRead, Readable
  <2> QED
    BY <2>2, <2>5
<1> HIDE DEF W
<1>5. W # {} <=> CanBeRead(p, S)
  <2>1. ASSUME W # {} PROVE CanBeRead(p, S)
    <3>1. PICK s \in S : Last(s)
      BY <1>2, <2>1
    <3>2. With(s).order \in Readings(S) /\ Runs(p, With(s).order)
      BY <1>3, <3>1
    <3> QED
      BY <3>2 DEF CanBeRead
  <2>2. ASSUME CanBeRead(p, S) PROVE W # {}
    <3>1. PICK s \in S : Last(s)
      BY <1>4, <2>2 DEF CanBeRead
    <3>2. With(s) \in W
      BY <1>2, <3>1
    <3> QED
      BY <3>2
  <2> QED
    BY <2>1, <2>2
<1>6. ASSUME W # {} PROVE IsBest(p, S, Cheapest(p, W))
  <2> DEFINE R == {s \in S : Last(s)}
             f == [s \in R |-> With(s)]
  <2>1. IsFiniteSet(W)
    <3>1. IsFiniteSet(R)
      BY <1>1, FS_Subset
    <3>2. f \in Surjection(R, W)
      BY <1>2 DEF Surjection
    <3> HIDE DEF R, f
    <3> QED
      BY <3>1, <3>2, FS_Surjection
  <2> HIDE DEF R, f
  <2>2. \A w \in W : w.cost \in Nat /\ w.order \in Readings(S)
    BY <1>2, <1>3
  <2> DEFINE c == Cheapest(p, W)
  <2>3. c \in W /\ \A w \in W : ~Cheaper(p, w, c)
    BY <1>6, <2>1, <2>2, CheapestIsOne
  <2> HIDE DEF c
  <2>4. c.order \in Readings(S) /\ Runs(p, c.order) /\ c.cost \in Nat /\ RunLatency(p, c.order) = c.cost
    BY <1>2, <1>3, <2>3
  <2>5. ASSUME NEW o \in Readings(S), Runs(p, o)
        PROVE  /\ c.cost <= RunLatency(p, o)
               /\ RunLatency(p, o) = c.cost /\ KeepsRules(p, o) => KeepsRules(p, c.order)
    <3>1. PICK s \in S, r \in BOOLEAN : Last(s) /\ \E q \in Readings(S \ {s}) : o = Append(q, <<s, r>>)
      BY <1>4, <2>5
    <3>2. PICK q \in Readings(S \ {s}) : o = Append(q, <<s, r>>)
      BY <3>1
    <3> DEFINE e == With(s)
    <3>3. /\ e \in W /\ e.order \in Readings(S) /\ e.cost \in Nat
          /\ RunLatency(p, o) \in Nat /\ e.cost <= RunLatency(p, o)
          /\ RunLatency(p, o) = e.cost /\ KeepsRules(p, o) => KeepsRules(p, e.order)
      BY <1>2, <1>3, <2>5, <3>1, <3>2
    <3> HIDE DEF e
    <3>4. ~(e.cost < c.cost) /\ (e.cost = c.cost => ~Nearer(p, e.order, c.order))
      BY <2>3, <3>3 DEF Cheaper
    <3>5. c.cost <= e.cost /\ c.cost <= RunLatency(p, o) /\ (RunLatency(p, o) = c.cost => e.cost = c.cost)
      BY <2>4, <3>3, <3>4
    <3>6. e.cost = c.cost /\ KeepsRules(p, e.order) => KeepsRules(p, c.order)
      BY <2>4, <3>3, <3>4, RulesAreNearest
    <3> QED
      BY <3>3, <3>5, <3>6
  <2> QED
    BY <2>4, <2>5 DEF IsBest, c
<1> QED
  BY <1>5, <1>6 DEF W

\* The sets that can be read, of up to n sources, each at its best.
AllAreBest(p, b, n) ==
    /\ \A S \in SUBSET Narrowing(p) : S \in DOMAIN b <=> Cardinality(S) <= n /\ CanBeRead(p, S)
    /\ \A S \in DOMAIN b : S \in SUBSET Narrowing(p) /\ IsBest(p, S, b[S])

\* At first that is nothing, read at no cost ...
LEMMA NothingIsBest ==
    ASSUME NEW p \in Problems
    PROVE  AllAreBest(p, [S \in {{}} |-> [cost |-> 0, order |-> <<>>]], 0)
<1> DEFINE w == [cost |-> 0, order |-> <<>>]
           b == [S \in {{}} |-> w]
<1>1. Runs(p, <<>>) /\ RunLatency(p, <<>>) = 0 /\ <<>> \in Readings({}) /\ \A o \in Readings({}) : o = <<>>
  BY RunOfNothing, ReadingOfNothing
<1>2. w.cost = 0 /\ w.order = <<>>
  OBVIOUS
<1> HIDE DEF w
<1>3. ASSUME NEW o \in Readings({}), Runs(p, o)
      PROVE  /\ w.cost <= RunLatency(p, o)
             /\ RunLatency(p, o) = w.cost /\ KeepsRules(p, o) => KeepsRules(p, w.order)
  <2>1. o = <<>>
    BY <1>1
  <2>2. RunLatency(p, o) = 0 /\ w.order = o
    BY <1>1, <1>2, <2>1
  <2> QED
    BY <1>2, <2>2
<1>4. IsBest(p, {}, w)
  BY <1>1, <1>2, <1>3 DEF IsBest
<1>5. CanBeRead(p, {})
  BY <1>1 DEF CanBeRead
<1>6. ASSUME NEW S \in SUBSET Narrowing(p) PROVE Cardinality(S) <= 0 <=> S = {}
  <2>1. IsFiniteSet(S)
    BY NarrowingIsFinite, FS_Subset
  <2>2. Cardinality(S) \in Nat /\ (Cardinality(S) = 0 <=> S = {})
    BY <2>1, FS_CardinalityType, FS_EmptySet
  <2> QED
    BY <2>2
<1>7. DOMAIN b = {{}} /\ b[{}] = w
  OBVIOUS
<1> HIDE DEF b
<1>8. AllAreBest(p, b, 0)
  BY <1>4, <1>5, <1>6, <1>7 DEF AllAreBest
<1> QED
  BY <1>8 DEF b, w

\* What the next layer makes of the best readings so far.
OneLayerMore(p, b, n) ==
    LET next == {S \in SUBSET Narrowing(p) : Cardinality(S) = n + 1 /\ Ways(p, b, S) # {}}
    IN  [S \in DOMAIN b \cup next |-> IF S \in next THEN Cheapest(p, Ways(p, b, S)) ELSE b[S]]

\* ... and every layer is found from the one before.
LEMMA LayerIsBest ==
    ASSUME NEW p \in Problems, NEW n \in Nat, NEW b, AllAreBest(p, b, n)
    PROVE  AllAreBest(p, OneLayerMore(p, b, n), n + 1)
<1> DEFINE next == {S \in SUBSET Narrowing(p) : Cardinality(S) = n + 1 /\ Ways(p, b, S) # {}}
           c == [S \in DOMAIN b \cup next |-> IF S \in next THEN Cheapest(p, Ways(p, b, S)) ELSE b[S]]
<1>1. \A S \in SUBSET Narrowing(p) : IsFiniteSet(S) /\ Cardinality(S) \in Nat
  BY NarrowingIsFinite, FS_Subset, FS_CardinalityType
<1>2. /\ \A S \in SUBSET Narrowing(p) : S \in DOMAIN b <=> Cardinality(S) <= n /\ CanBeRead(p, S)
      /\ \A S \in DOMAIN b : S \in SUBSET Narrowing(p) /\ IsBest(p, S, b[S])
  BY DEF AllAreBest
<1>3. ASSUME NEW S \in SUBSET Narrowing(p), Cardinality(S) = n + 1
      PROVE  /\ Ways(p, b, S) # {} <=> CanBeRead(p, S)
             /\ Ways(p, b, S) # {} => IsBest(p, S, Cheapest(p, Ways(p, b, S)))
  <2>1. S # {}
    BY <1>3, FS_EmptySet
  <2>2. ASSUME NEW s \in S
        PROVE  /\ S \ {s} \in DOMAIN b <=> CanBeRead(p, S \ {s})
               /\ S \ {s} \in DOMAIN b => IsBest(p, S \ {s}, b[S \ {s}])
    <3> DEFINE T == S \ {s}
    <3>1. Cardinality(T) = Cardinality(S) - 1 /\ T \in SUBSET Narrowing(p)
      BY <1>1, FS_RemoveElement
    <3> HIDE DEF T
    <3>2. Cardinality(T) <= n
      BY <1>3, <3>1
    <3>3. (T \in DOMAIN b <=> CanBeRead(p, T)) /\ (T \in DOMAIN b => IsBest(p, T, b[T]))
      BY <1>2, <3>1, <3>2
    <3> QED
      BY <3>3 DEF T
  <2> QED
    BY <2>1, <2>2, OneMoreIsBest
<1>4. DOMAIN c = DOMAIN b \cup next
  OBVIOUS
<1>5. \A S \in next : S \in SUBSET Narrowing(p) /\ c[S] = Cheapest(p, Ways(p, b, S)) /\ IsBest(p, S, c[S])
  BY <1>3
<1>6. \A S \in SUBSET Narrowing(p) : S \in next <=> Cardinality(S) = n + 1 /\ CanBeRead(p, S)
  BY <1>3
<1>7. \A S \in DOMAIN b : S \notin next => c[S] = b[S]
  OBVIOUS
<1> HIDE DEF c, next
<1>8. \A S \in DOMAIN c : S \in SUBSET Narrowing(p) /\ IsBest(p, S, c[S])
  BY <1>2, <1>4, <1>5, <1>7
<1>9. ASSUME NEW S \in SUBSET Narrowing(p)
      PROVE  S \in DOMAIN c <=> Cardinality(S) <= n + 1 /\ CanBeRead(p, S)
  <2>1. Cardinality(S) \in Nat
    BY <1>1
  <2>2. Cardinality(S) <= n + 1 <=> Cardinality(S) <= n \/ Cardinality(S) = n + 1
    BY <2>1
  <2> QED
    BY <1>2, <1>4, <1>6, <2>2
<1>10. AllAreBest(p, c, n + 1)
  BY <1>8, <1>9 DEF AllAreBest
<1> QED
  BY <1>10 DEF c, next, OneLayerMore

-----------------------------------------------------------------------------
(* The search.                                                             *)

\* Of the plans offered, those that no other is preferred to.
Kept(p, P) == {x \in P : \A y \in P : Preferred(p, x, y)}

\* What is known while the search goes on.
SearchInv ==
    /\ problem \in Problems
    /\ problem.semantic.preference = "shortlist" => Eligible(problem)
    /\ layer \in 0 .. Cardinality(Narrowing(problem)) /\ AllAreBest(problem, best, layer)
    /\ outcome \in {"searching", "weighing", "cost_based", "rules"}
    /\ outcome \in {"weighing", "cost_based"} => layer = Cardinality(Narrowing(problem))
    /\ outcome = "weighing" => options = Offered(problem, best)
    /\ outcome = "cost_based" => /\ Offered(problem, best) # {}
                                 /\ options = Kept(problem, Offered(problem, best))
    /\ outcome = "rules" => \/ Declines(problem)
                            \/ /\ layer = Cardinality(Narrowing(problem))
                               /\ Offered(problem, best) = {}

\* It holds at first ...
LEMMA SearchBegins == Init => SearchInv
<1> SUFFICES ASSUME Init PROVE SearchInv
  OBVIOUS
<1>1. problem \in Problems /\ layer = 0 /\ outcome = "searching"
      /\ (problem.semantic.preference = "shortlist" => Eligible(problem))
  BY DEF Init
<1>2. AllAreBest(problem, best, 0)
  BY <1>1, NothingIsBest DEF Init
<1>3. Cardinality(Narrowing(problem)) \in Nat
  BY <1>1, NarrowingIsFinite, FS_CardinalityType
<1> QED
  BY <1>1, <1>2, <1>3 DEF SearchInv

\* ... and every step keeps it.
LEMMA SearchGoesOn == SearchInv /\ [Next]_vars => SearchInv'
<1> SUFFICES ASSUME SearchInv, [Next]_vars PROVE SearchInv'
  OBVIOUS
<1> DEFINE N == Cardinality(Narrowing(problem))
<1>1. /\ problem \in Problems /\ (problem.semantic.preference = "shortlist" => Eligible(problem))
      /\ layer \in 0 .. N /\ AllAreBest(problem, best, layer)
  BY DEF SearchInv
<1>2. N \in Nat
  BY <1>1, NarrowingIsFinite, FS_CardinalityType
<1>3. CASE Extend
  <2>1. /\ outcome = "searching" /\ layer < N /\ layer' = layer + 1
        /\ UNCHANGED <<problem, options, outcome>>
    BY <1>3 DEF Extend
  <2>2. AllAreBest(problem, best', layer + 1)
    <3>1. best' = OneLayerMore(problem, best, layer)
      BY <1>3 DEF Extend, OneLayerMore
    <3>2. layer \in Nat
      BY <1>1, <1>2
    <3> QED
      BY <1>1, <3>1, <3>2, LayerIsBest
  <2>3. AllAreBest(problem, best, layer)'
    BY <2>1, <2>2
  <2>4. layer + 1 \in 0 .. N
    BY <1>1, <1>2, <2>1
  <2> QED
    BY <1>1, <2>1, <2>3, <2>4 DEF SearchInv
<1>4. CASE Consider
  BY <1>1, <1>4 DEF Consider, SearchInv
<1>5. CASE Choose
  <2>1. /\ outcome = "weighing" /\ options = Offered(problem, best) /\ layer = N
        /\ options' = Kept(problem, options)
        /\ outcome' = IF options = {} THEN "rules" ELSE "cost_based"
        /\ UNCHANGED <<problem, best, layer>>
    BY <1>5 DEF Choose, SearchInv, Kept
  <2> QED
    BY <1>1, <2>1 DEF SearchInv
<1>6. CASE Decline
  BY <1>1, <1>6 DEF Decline, SearchInv
<1>7. CASE UNCHANGED vars
  BY <1>7 DEF vars, SearchInv
<1> QED
  BY <1>3, <1>4, <1>5, <1>6, <1>7 DEF Next, Search

LEMMA SearchIsKnown == Spec => []SearchInv
BY SearchBegins, SearchGoesOn, PTL DEF Spec

-----------------------------------------------------------------------------
(* The strategies.                                                         *)

\* A set of natural numbers has a minimum.
LEMMA MinOfSome ==
    ASSUME NEW S \in SUBSET Nat, S # {}
    PROVE  Min(S) \in S /\ \A n \in S : Min(S) <= n
<1>1. \E m \in S : \A n \in S : m <= n
  BY LeastNumber
<1> QED
  BY <1>1 DEF Min

\* A power of two is the number of subsets of some set.
LEMMA PowersArePositive ==
    /\ \A k \in Nat : 2 ^ k \in Positive
    /\ 2 ^ 0 = 1
<1>1. ASSUME NEW k \in Nat PROVE 2 ^ k \in Positive
  <2> DEFINE S == 1 .. k
  <2>1. IsFiniteSet(S) /\ Cardinality(S) = k
    BY FS_Interval
  <2> HIDE DEF S
  <2>2. IsFiniteSet(SUBSET S) /\ Cardinality(SUBSET S) = 2 ^ k
    BY <2>1, FS_SUBSET
  <2>3. Cardinality(SUBSET S) \in Nat /\ Cardinality(SUBSET S) # 0
    BY <2>2, FS_CardinalityType, FS_EmptySet
  <2> QED
    BY <2>2, <2>3 DEF Positive
<1>2. 2 ^ 0 = 1
  <2>1. Cardinality(SUBSET {}) = 2 ^ 0
    BY FS_SUBSET, FS_EmptySet
  <2>2. SUBSET {} = {{}}
    OBVIOUS
  <2>3. Cardinality({{}}) = 1
    BY FS_Singleton
  <2> QED
    BY <2>1, <2>2, <2>3
<1> QED
  BY <1>1, <1>2

\* Where a shortlist is legal, its largest size and the rule's are positive, and
\* the verifier takes that many records.
LEMMA SizesAreLegal ==
    ASSUME NEW p \in Problems, Eligible(p)
    PROVE  /\ Cap(p) \in Positive /\ Cap(p) <= p.semantic.maximum_candidates
           /\ RuleSize(p) \in Positive /\ RuleSize(p) <= Cap(p)
<1> DEFINE q == p.semantic
           A == {q.maximum_candidates, q.maximum_shortlist} \cup (IF q.via_store THEN AnchorBounds(p) ELSE {})
           m == Max({q.minimum_shortlist, q.first * q.oversample})
<1>1. /\ q.maximum_candidates \in Nat \ {0} /\ q.maximum_shortlist \in Nat \ {0}
      /\ q.minimum_shortlist \in Nat \ {0} /\ q.first \in Nat \ {0} /\ q.oversample \in Nat \ {0}
      /\ p.transfer_bound \in PositiveOrNone /\ p.source[Anchor].key_limit \in PositiveOrNone
  BY ProblemIsTyped DEF IsProblem, Questions, Positive, Narrowing, Profiles
<1>2. q.via_store => AnchorBounds(p) \subseteq Nat \ {0}
  BY <1>1 DEF Eligible, AnchorBounds, PositiveOrNone, Positive
<1>3. A \subseteq Nat \ {0} /\ q.maximum_candidates \in A
  BY <1>1, <1>2
<1> HIDE DEF A
<1>4. Min(A) \in A /\ \A n \in A : Min(A) <= n
  BY <1>3, MinOfSome
<1>5. Cap(p) \in Nat \ {0} /\ Cap(p) <= q.maximum_candidates
  BY <1>3, <1>4 DEF Cap, A
<1>6. m \in Nat \ {0}
  <2>1. q.first * q.oversample \in Nat /\ q.minimum_shortlist \in Nat /\ q.minimum_shortlist > 0
    BY <1>1
  <2> DEFINE x == q.minimum_shortlist
             y == q.first * q.oversample
  <2>2. x \in Nat /\ y \in Nat /\ x > 0
    BY <2>1
  <2> HIDE DEF x, y
  <2>3. Max({x, y}) \in {x, y} /\ Max({x, y}) >= x
    BY <2>2, MaxOfTwo
  <2>4. Max({x, y}) \in Nat \ {0}
    BY <2>2, <2>3
  <2> QED
    BY <2>4 DEF x, y
<1> HIDE DEF m
<1>7. RuleSize(p) \in {Cap(p), m} /\ RuleSize(p) <= Cap(p)
  BY <1>5, <1>6, MinOfTwo DEF RuleSize, m
<1> QED
  BY <1>5, <1>6, <1>7 DEF Positive

\* The sizes of the ladder are positive and within it, and the rule's is one.
LEMMA LadderIsLegal ==
    ASSUME NEW p \in Problems, Eligible(p)
    PROVE  /\ \A n \in Ladder(p) : n \in Positive /\ n <= Cap(p)
           /\ RuleSize(p) \in Ladder(p)
<1> DEFINE c == Cap(p)
           z == RuleSize(p)
<1>1. c \in Nat \ {0} /\ z \in Nat \ {0} /\ z <= c
  BY SizesAreLegal DEF Positive
<1>2. ASSUME NEW n \in Ladder(p) PROVE n \in Nat \ {0} /\ n <= c
  <2>1. CASE n = c
    BY <1>1, <2>1
  <2>2. CASE n # c
    <3>1. PICK k \in 0 .. c : n = z * 2 ^ k /\ n < c
      BY <2>2 DEF Ladder
    <3> DEFINE t == 2 ^ k
    <3>2. t \in Nat \ {0}
      BY <1>1, <3>1, PowersArePositive DEF Positive
    <3> HIDE DEF t, z, c
    <3>3. z * t \in Nat \ {0}
      BY <1>1, <3>2
    <3> QED
      BY <1>1, <3>1, <3>3 DEF t
  <2> QED
    BY <2>1, <2>2
<1>3. z \in Ladder(p)
  <2>1. CASE z = c
    BY <2>1 DEF Ladder
  <2>2. CASE z # c
    <3>1. z < c /\ 0 \in 0 .. c
      BY <1>1, <2>2
    <3>2. z = z * 2 ^ 0
      BY <1>1, PowersArePositive
    <3> QED
      BY <3>1, <3>2 DEF Ladder
  <2> QED
    BY <2>1, <2>2
<1> QED
  BY <1>2, <1>3 DEF Positive

\* A strategy is no semantic work, verifying all, or a legal shortlist; its size
\* says which.
LEMMA VariantIsTyped ==
    ASSUME NEW p \in Problems
    PROVE  /\ \A v \in Variants(p) :
                  /\ v.size \in Nat
                  /\ \/ v = NoSemantic /\ ~Asked(p)
                     \/ v = VerifyAll /\ Asked(p)
                     \/ Asked(p) /\ Eligible(p) /\ v.size \in Ladder(p) /\ v.size > 0 /\ v = Shortlist(v.size)
           /\ \A v, u \in Variants(p) : v.size = u.size => v = u
<1>1. ASSUME NEW v \in Variants(p)
      PROVE  /\ v.size \in Nat
             /\ \/ v = NoSemantic /\ ~Asked(p)
                \/ v = VerifyAll /\ Asked(p)
                \/ Asked(p) /\ Eligible(p) /\ v.size \in Ladder(p) /\ v.size > 0 /\ v = Shortlist(v.size)
  <2>1. CASE v = NoSemantic /\ ~Asked(p)
    BY <2>1 DEF NoSemantic
  <2>2. CASE v = VerifyAll /\ Asked(p)
    BY <2>2 DEF VerifyAll
  <2>3. CASE Asked(p) /\ RulePlan(p) = "shortlist" /\ v \in {Shortlist(n) : n \in Ladder(p)}
    <3>1. Eligible(p)
      BY <2>3 DEF RulePlan
    <3>2. PICK n \in Ladder(p) : v = Shortlist(n)
      BY <2>3
    <3>3. n \in Nat \ {0} /\ v.size = n
      BY <3>1, <3>2, LadderIsLegal DEF Shortlist, Positive
    <3> QED
      BY <2>3, <3>1, <3>2, <3>3
  <2> QED
    BY <2>1, <2>2, <2>3 DEF Variants
<1>2. NoSemantic.size = 0 /\ VerifyAll.size = 0
  BY DEF NoSemantic, VerifyAll
<1>3. ASSUME NEW v \in Variants(p), NEW u \in Variants(p), v.size = u.size PROVE v = u
  BY <1>1, <1>2, <1>3
<1> QED
  BY <1>1, <1>3

\* What the fixed rule runs is among them, and the verifier takes what any of
\* them gives it.
LEMMA RuleIsThere ==
    ASSUME NEW p \in Problems, p.semantic.preference = "shortlist" => Eligible(p)
    PROVE  /\ RuleVariant(p) \in Variants(p)
           /\ Asked(p) => \A v \in Variants(p) : v.size <= p.semantic.maximum_candidates
<1>1. RuleVariant(p) \in Variants(p)
  <2>1. CASE ~Asked(p)
    BY <2>1 DEF RuleVariant, Variants
  <2>2. CASE Asked(p) /\ RulePlan(p) = "shortlist"
    <3>1. Eligible(p)
      BY <2>2 DEF RulePlan
    <3> QED
      BY <2>2, <3>1, LadderIsLegal DEF RuleVariant, Variants
  <2>3. CASE Asked(p) /\ RulePlan(p) # "shortlist"
    <3>1. p.semantic.preference # "shortlist"
      BY <2>3 DEF RulePlan
    <3> QED
      BY <2>3, <3>1 DEF RuleVariant, Variants
  <2> QED
    BY <2>1, <2>2, <2>3
<1>2. ASSUME Asked(p), NEW v \in Variants(p) PROVE v.size <= p.semantic.maximum_candidates
  <2>1. p.semantic.maximum_candidates \in Nat
    BY ProblemIsTyped DEF IsProblem, Questions, Positive
  <2>2. CASE v = VerifyAll
    BY <2>1, <2>2 DEF VerifyAll
  <2>3. CASE Eligible(p) /\ v.size \in Ladder(p)
    <3>1. v.size \in Nat /\ v.size <= Cap(p) /\ Cap(p) \in Nat /\ Cap(p) <= p.semantic.maximum_candidates
      BY <2>3, LadderIsLegal, SizesAreLegal DEF Positive
    <3> QED
      BY <2>1, <3>1
  <2> QED
    BY <1>2, <2>2, <2>3, VariantIsTyped
<1> QED
  BY <1>1, <1>2

-----------------------------------------------------------------------------
(* What a plan is estimated to cost.                                       *)

\* Sums and products of natural numbers are natural numbers.
LEMMA NatIsClosed == \A x, y \in Nat : x + y \in Nat /\ x * y \in Nat
OBVIOUS

LEMMA CeilIsNat ==
    ASSUME NEW x \in Nat, NEW n \in Nat \ {0}
    PROVE  CeilDiv(x, n) \in Nat
<1>1. x + n - 1 \in Nat
  OBVIOUS
<1> QED
  BY <1>1, QuotientIsNat DEF CeilDiv

\* The numbers that all sources share.
LEMMA RatesAreTyped ==
    /\ Universe \in Nat /\ Scale \in Nat /\ Scale \in Nat \ {0}
    /\ Rates.batch \in Nat \ {0} /\ Rates.call \in Nat /\ Rates.per_row \in Nat /\ Rates.embed \in Nat
    /\ Rates.money_per_call \in Nat /\ Rates.money_per_row \in Nat /\ Rates.embed_money \in Nat
    /\ Rates.rank \in Nat /\ Rates.per_match \in Nat
    /\ MoneyWeight \in Nat /\ ExactWeight \in Nat \ {0} /\ ShortlistWeight \in Nat \ {0}
BY OptimizerAssumption DEF Positive

\* The verifier's work costs a number.
LEMMA OwnIsNat ==
    ASSUME NEW p \in Problems, NEW v, NEW c, c.count \in Nat
    PROVE  OwnLatency(p, v, c) \in Nat /\ OwnMoney(p, v, c) \in Nat
<1>1. p.semantic.unpushed \in Nat \ {0} /\ p.semantic.first \in Nat
  BY ProblemIsTyped DEF IsProblem, Questions, Positive
<1>2. Judgeable(p, v, c) \in Nat
  <2>1. c.count \div p.semantic.unpushed \in Nat
    BY <1>1, QuotientIsNat
  <2> QED
    BY <2>1 DEF Judgeable
<1>3. Judged(p, v, c) \in Nat
  <2>1. p.semantic.first * Rates.per_match * Scale \in Nat
    BY <1>1, RatesAreTyped, NatIsClosed
  <2> QED
    BY <1>2, <2>1, MinOfTwo DEF Judged
<1>4. Calls(p, v, c) \in Nat
  <2>1. Rates.batch * Scale \in Nat \ {0}
    <3> DEFINE x == Rates.batch
               y == Scale
    <3>1. x \in Nat \ {0} /\ y \in Nat \ {0}
      BY RatesAreTyped
    <3> HIDE DEF x, y
    <3>2. x * y \in Nat \ {0}
      BY <3>1
    <3> QED
      BY <3>2 DEF x, y
  <2> QED
    BY <1>3, <2>1, CeilIsNat DEF Calls
<1>5. /\ Calls(p, v, c) * Rates.call * Scale + Judged(p, v, c) * Rates.per_row \in Nat
      /\ Calls(p, v, c) * Rates.money_per_call * Scale + Judged(p, v, c) * Rates.money_per_row \in Nat
      /\ Rates.embed * Scale \in Nat /\ Rates.embed_money * Scale \in Nat
  BY <1>3, <1>4, RatesAreTyped, NatIsClosed
<1>6. OwnLatency(p, v, c) \in Nat
  BY <1>5, NatIsClosed DEF OwnLatency
<1>7. OwnMoney(p, v, c) \in Nat
  BY <1>5, NatIsClosed DEF OwnMoney
<1> QED
  BY <1>6, <1>7

\* A ranked read costs a number.
LEMMA RankedIsNat ==
    ASSUME NEW p \in Problems, NEW s, p.source[s] \in Profiles, NEW restrict \in BOOLEAN,
           NEW keys, restrict => keys \in Nat, NEW pool \in Nat, NEW rows \in Nat
    PROVE  Ranked(p, s, keys, restrict, pool, rows) \in Nat
<1>1. p.source[s].call \in Nat /\ p.source[s].per_key \in Nat /\ p.source[s].per_row \in Nat
  BY DEF Profiles
<1>2. /\ p.source[s].call * Scale \in Nat /\ p.source[s].per_row * rows \in Nat
      /\ Rates.rank * pool \in Nat
  BY <1>1, RatesAreTyped, NatIsClosed
<1>3. (IF restrict THEN p.source[s].per_key * keys ELSE 0) \in Nat
  BY <1>1, NatIsClosed
<1> QED
  BY <1>2, <1>3, NatIsClosed DEF Ranked

\* What a schedule ends with.
IsEnd(r) == r.latency \in Nat /\ r.candidates.count \in Nat

\* The anchor ranks only what it can be asked for in one batch.
LEMMA RankedReadIsTyped ==
    ASSUME NEW p \in Problems, NEW n \in Nat, NEW keys \in Nat \cup {NoKeys}, MayRank(p, keys)
    PROVE  IsEnd(RankedRead(p, n, keys))
<1> DEFINE restrict == Required(p) # {}
           pool == RowsRead(p, Anchor, keys, restrict)
           rows == Min({n * Scale, pool})
<1>1. p.source[Anchor] \in Profiles
  BY ProblemIsTyped DEF Narrowing
<1>2. restrict \in BOOLEAN /\ (restrict => keys \in Nat)
  BY DEF MayRank, FitsOnce
<1>3. p.source[Anchor].filtered * Scale \in Nat
  BY <1>1, RatesAreTyped, NatIsClosed DEF Profiles
<1> HIDE DEF restrict
<1>4. pool \in Nat
  BY <1>1, <1>2, <1>3, PassedIsNat DEF RowsRead
<1> HIDE DEF pool
<1>5. rows \in Nat
  BY <1>4, RatesAreTyped, NatIsClosed, MinOfTwo
<1> HIDE DEF rows
<1>6. Ranked(p, Anchor, keys, restrict, pool, rows) \in Nat
  BY <1>1, <1>2, <1>4, <1>5, RankedIsNat
<1> QED
  BY <1>5, <1>6 DEF RankedRead, IsEnd, restrict, pool, rows

\* What the store returns is a number of rows ...
LEMMA StoreRowsIsNat ==
    ASSUME NEW p \in Problems, p.semantic.via_store, NEW n \in Nat, NEW keys \in Nat \cup {NoKeys}
    PROVE  /\ StorePool(p, keys) \in Nat /\ Min({n * Scale, StorePool(p, keys)}) \in Nat
           /\ StoreRows(p, n, keys) \in Nat
<1>1. p.source[Store] \in Profiles
  BY ProblemIsTyped
<1>2. StorePool(p, keys) \in Nat
  <2>1. p.source[Store].total * Scale \in Nat
    BY <1>1, RatesAreTyped, NatIsClosed DEF Profiles
  <2>2. FitsOnce(p, Store, keys) => Passed(p, keys, Store) \in Nat
    BY <1>1, PassedIsNat DEF FitsOnce
  <2> QED
    BY <2>1, <2>2 DEF StorePool
<1>3. Min({n * Scale, StorePool(p, keys)}) \in Nat
  BY <1>2, RatesAreTyped, NatIsClosed, MinOfTwo
<1>4. Required(p) \in SUBSET Narrowing(p)
  BY DEF Narrowing
<1>5. Left(p, Min({n * Scale, StorePool(p, keys)}), Required(p)) \in Nat
  BY <1>3, <1>4, LeftIsNat
<1>6. StoreRows(p, n, keys) \in Nat
  BY <1>3, <1>5 DEF StoreRows
<1> QED
  BY <1>2, <1>3, <1>6

\* ... and the anchor is read for that.
LEMMA StoreReadIsTyped ==
    ASSUME NEW p \in Problems, p.semantic.via_store, NEW n \in Nat, NEW keys \in Nat \cup {NoKeys},
           Readable(p, Anchor, StoreRows(p, n, keys))
    PROVE  IsEnd(StoreRead(p, n, keys))
<1> DEFINE restrict == FitsOnce(p, Store, keys)
           pool == StorePool(p, keys)
           rows == StoreRows(p, n, keys)
           last == Restricts(p, Anchor, rows)
           nearest == Min({n * Scale, pool})
<1>1. p.source[Anchor] \in Profiles /\ p.source[Store] \in Profiles
  BY ProblemIsTyped DEF Narrowing
<1>2. pool \in Nat /\ rows \in Nat /\ nearest \in Nat
  BY StoreRowsIsNat
<1>3. restrict \in BOOLEAN /\ (restrict => keys \in Nat)
  BY DEF FitsOnce
<1>4. last \in BOOLEAN /\ CanRead(p, Anchor, rows, last)
  BY <1>1, <1>2, BestReadIsBest
<1>5. RowsRead(p, Anchor, rows, last) \in Nat /\ Latency(p, Anchor, rows, last) \in Nat
  BY <1>1, <1>2, <1>4, ReadIsCosted
<1> HIDE DEF restrict, pool, rows, last, nearest
<1>6. Ranked(p, Store, keys, restrict, pool, nearest) \in Nat
  BY <1>1, <1>2, <1>3, RankedIsNat
<1> DEFINE r == StoreRead(p, n, keys)
<1>7. /\ r.latency = Ranked(p, Store, keys, restrict, pool, nearest) + Latency(p, Anchor, rows, last)
      /\ r.candidates.count = RowsRead(p, Anchor, rows, last)
  BY DEF StoreRead, restrict, pool, rows, last, nearest
<1> HIDE DEF r
<1>8. IsEnd(r)
  BY <1>5, <1>6, <1>7, NatIsClosed DEF IsEnd
<1> QED
  BY <1>8 DEF r

\* What a strategy has read before is some of what narrows.
LEMMA ReadBeforeNarrows ==
    ASSUME NEW p \in Problems, NEW v
    PROVE  /\ ReadBefore(p, v) \in SUBSET Narrowing(p)
           /\ Cardinality(ReadBefore(p, v)) <= Cardinality(Narrowing(p))
           /\ KeysAfter(p, ReadBefore(p, v)) \in Nat \cup {NoKeys}
           /\ v.plan # "shortlist" => KeysAfter(p, ReadBefore(p, v)) \in Nat
<1>1. ReadBefore(p, v) \in SUBSET Narrowing(p)
  BY DEF ReadBefore, Narrowing
<1>2. v.plan # "shortlist" => ReadBefore(p, v) # {}
  BY DEF ReadBefore, Narrowing
<1> QED
  BY <1>1, <1>2, NarrowingIsFinite, FS_Subset, KeysAreTyped

\* There is one end at most, and its costs are numbers.
LEMMA EndIsTyped ==
    ASSUME NEW p \in Problems, NEW v \in Variants(p)
    PROVE  /\ \A r \in LastReads(p, v) : IsEnd(r)
           /\ \A r, t \in LastReads(p, v) : r = t
<1> DEFINE keys == KeysAfter(p, ReadBefore(p, v))
<1>1. v.size \in Nat /\ keys \in Nat \cup {NoKeys} /\ (v.plan # "shortlist" => keys \in Nat)
  BY VariantIsTyped, ReadBeforeNarrows
<1>2. CASE v.plan # "shortlist"
  <2> DEFINE e == [latency |-> 0, candidates |-> [count |-> keys, pool |-> keys], steps |-> <<>>]
  <2>1. LastReads(p, v) = {e}
    BY <1>2 DEF LastReads
  <2>2. e.latency = 0 /\ e.candidates.count = keys
    OBVIOUS
  <2> HIDE DEF e, keys
  <2>3. IsEnd(e)
    BY <1>1, <1>2, <2>2 DEF IsEnd
  <2> QED
    BY <2>1, <2>3
<1>3. CASE v.plan = "shortlist" /\ p.semantic.via_store
  <2>1. LastReads(p, v) = {StoreRead(p, n, keys) : n \in {k \in {v.size} : Readable(p, Anchor, StoreRows(p, k, keys))}}
    BY <1>3 DEF LastReads
  <2> HIDE DEF keys
  <2>2. \A r \in LastReads(p, v) : r = StoreRead(p, v.size, keys) /\ Readable(p, Anchor, StoreRows(p, v.size, keys))
    BY <2>1
  <2> QED
    BY <1>1, <1>3, <2>2, StoreReadIsTyped
<1>4. CASE v.plan = "shortlist" /\ ~p.semantic.via_store
  <2>1. LastReads(p, v) = {RankedRead(p, n, keys) : n \in {k \in {v.size} : MayRank(p, keys)}}
    BY <1>4 DEF LastReads
  <2> HIDE DEF keys
  <2>2. \A r \in LastReads(p, v) : r = RankedRead(p, v.size, keys) /\ MayRank(p, keys)
    BY <2>1
  <2> QED
    BY <1>1, <2>2, RankedReadIsTyped
<1> QED
  BY <1>2, <1>3, <1>4

-----------------------------------------------------------------------------
(* What plans are compared by.                                             *)

\* A plan that ends with r, and what it costs beyond the reads it begins with.
Ended(p, latency, order, v, r) == PlanOf(p, latency + r.latency, order \o r.steps, r.candidates, v)
Rest(p, v, r) == r.latency + OptionalLatency(p, r.candidates) + OwnLatency(p, v, r.candidates)

\* A plan's strategy and order are those it was made of.
LEMMA EndedParts ==
    ASSUME NEW p, NEW latency, NEW order, NEW v, NEW r, NEW x, x = Ended(p, latency, order, v, r)
    PROVE  x.variant = v /\ x.order = order \o r.steps
BY DEF Ended, PlanOf

\* What a plan costs is what was read at, and the rest.
LEMMA PlanIsTyped ==
    ASSUME NEW p \in Problems, NEW v \in Variants(p), NEW latency \in Nat, NEW order,
           NEW r \in LastReads(p, v), CanFinish(p, r.candidates, v)
    PROVE  LET x == Ended(p, latency, order, v, r)
           IN  /\ x.variant = v /\ x.order = order \o r.steps
               /\ Rest(p, v, r) \in Nat /\ x.latency = latency + Rest(p, v, r)
               /\ OwnMoney(p, v, r.candidates) \in Nat /\ x.money = OwnMoney(p, v, r.candidates)
<1> DEFINE c == r.candidates
           x == Ended(p, latency, order, v, r)
<1>1. r.latency \in Nat /\ c.count \in Nat
  BY EndIsTyped DEF IsEnd
<1>2. OptionalLatency(p, c) \in Nat
  BY <1>1, OptionalLatencyIsNat DEF CanFinish
<1>3. OwnLatency(p, v, c) \in Nat /\ OwnMoney(p, v, c) \in Nat
  BY <1>1, OwnIsNat
<1>4. /\ x.variant = v /\ x.order = order \o r.steps /\ x.money = OwnMoney(p, v, c)
      /\ x.latency = latency + r.latency + OptionalLatency(p, c) + OwnLatency(p, v, c)
  BY DEF Ended, PlanOf
<1> HIDE DEF c, x
<1>5. Rest(p, v, r) = r.latency + OptionalLatency(p, c) + OwnLatency(p, v, c)
  BY DEF Rest, c
<1>6. Rest(p, v, r) \in Nat /\ x.latency = latency + Rest(p, v, r)
  BY <1>1, <1>2, <1>3, <1>4, <1>5
<1> QED
  BY <1>3, <1>4, <1>6 DEF c, x

\* Weighing keeps the order of numbers.
LEMMA WeighingIsMonotone ==
    ASSUME NEW a \in Nat, NEW b \in Nat, NEW w \in Nat \ {0}, a <= b
    PROVE  a * w <= b * w /\ (a * w = b * w => a = b)
<1>1. PICK d \in Nat : b = a + d
  <2>1. b - a \in Nat /\ b = a + (b - a)
    OBVIOUS
  <2> QED
    BY <2>1
<1>2. b * w = a * w + d * w
  BY <1>1
<1>3. d # 0 => d * w > 0
  BY <1>1
<1>4. a * w \in Nat /\ d * w \in Nat
  OBVIOUS
<1> QED
  BY <1>1, <1>2, <1>3, <1>4

\* Of two plans that end alike, that with the cheaper reads is as good, and
\* better if they are cheaper; and it keeps the limits the other does.
LEMMA CheaperReadsAreBetter ==
    ASSUME NEW p \in Problems, NEW v \in Variants(p), NEW a \in Nat, NEW b \in Nat, a <= b,
           NEW o, NEW q, NEW r \in LastReads(p, v), CanFinish(p, r.candidates, v)
    PROVE  LET x == Ended(p, a, o, v, r)
               y == Ended(p, b, q, v, r)
           IN  /\ Objective(x) \in Nat /\ Objective(y) \in Nat /\ Objective(x) <= Objective(y)
               /\ Objective(x) = Objective(y) => a = b
               /\ WithinLimits(p, y) => WithinLimits(p, x)
<1> DEFINE x == Ended(p, a, o, v, r)
           y == Ended(p, b, q, v, r)
           z == Rest(p, v, r)
           m == OwnMoney(p, v, r.candidates)
           w == IF v.plan = "shortlist" THEN ShortlistWeight ELSE ExactWeight
           i == a + z + MoneyWeight * m
           j == b + z + MoneyWeight * m
<1>1. z \in Nat /\ m \in Nat
  BY PlanIsTyped
<1>2. x.variant = v /\ x.latency = a + z /\ x.money = m
  BY PlanIsTyped
<1>3. y.variant = v /\ y.latency = b + z /\ y.money = m
  BY PlanIsTyped
<1>4. w \in Nat \ {0}
  BY RatesAreTyped
<1> HIDE DEF x, y, z, m
<1>5. MoneyWeight * m \in Nat
  BY <1>1, RatesAreTyped, NatIsClosed
<1>6. i \in Nat /\ j \in Nat /\ i <= j /\ (i = j => a = b)
  BY <1>1, <1>5
<1>7. Objective(x) = i * w /\ Objective(y) = j * w
  BY <1>2, <1>3 DEF Objective
<1> HIDE DEF i, j, w
<1>8. i * w <= j * w /\ (i * w = j * w => i = j) /\ i * w \in Nat /\ j * w \in Nat
  BY <1>4, <1>6, WeighingIsMonotone, NatIsClosed
<1>9. WithinLimits(p, y) => WithinLimits(p, x)
  <2>1. p.maximum_latency # NoBound => p.maximum_latency * Scale \in Nat
    BY ProblemIsTyped, RatesAreTyped, NatIsClosed DEF IsProblem, NumberOrNone
  <2>2. \A l \in Nat : y.latency <= l => x.latency <= l
    BY <1>1, <1>2, <1>3
  <2> QED
    BY <1>2, <1>3, <2>1, <2>2 DEF WithinLimits
<1> QED
  BY <1>6, <1>7, <1>8, <1>9 DEF x, y

-----------------------------------------------------------------------------
(* The plans offered, and the feasible ones.                               *)

LEMMA OfferedParts ==
    ASSUME NEW p \in Problems, NEW b
    PROVE  /\ \A x \in Offered(p, b) : \E v \in Variants(p) : \E r \in LastReads(p, v) :
                  LET S == ReadBefore(p, v)
                  IN  /\ S \in DOMAIN b /\ CanFinish(p, r.candidates, v)
                      /\ x = Ended(p, b[S].cost, b[S].order, v, r) /\ WithinLimits(p, x)
           /\ \A v \in Variants(p) : \A r \in LastReads(p, v) :
                  LET S == ReadBefore(p, v)
                      x == Ended(p, b[S].cost, b[S].order, v, r)
                  IN  S \in DOMAIN b /\ CanFinish(p, r.candidates, v) /\ WithinLimits(p, x) => x \in Offered(p, b)
<1>1. ASSUME NEW x \in Offered(p, b)
      PROVE  \E v \in Variants(p) : \E r \in LastReads(p, v) :
                  LET S == ReadBefore(p, v)
                  IN  /\ S \in DOMAIN b /\ CanFinish(p, r.candidates, v)
                      /\ x = Ended(p, b[S].cost, b[S].order, v, r) /\ WithinLimits(p, x)
  <2>1. PICK v \in Variants(p) : x \in PlansOf(p, b, v) /\ WithinLimits(p, x)
    BY DEF Offered
  <2> DEFINE S == ReadBefore(p, v)
  <2>2. S \in DOMAIN b /\ x \in Finished(p, b[S].cost, b[S].order, v)
    BY <2>1 DEF PlansOf
  <2>3. PICK r \in LastReads(p, v) : CanFinish(p, r.candidates, v) /\ x = Ended(p, b[S].cost, b[S].order, v, r)
    BY <2>2 DEF Finished, Ended
  <2> QED
    BY <2>1, <2>2, <2>3
<1>2. ASSUME NEW v \in Variants(p), NEW r \in LastReads(p, v), ReadBefore(p, v) \in DOMAIN b,
             CanFinish(p, r.candidates, v),
             WithinLimits(p, Ended(p, b[ReadBefore(p, v)].cost, b[ReadBefore(p, v)].order, v, r))
      PROVE  Ended(p, b[ReadBefore(p, v)].cost, b[ReadBefore(p, v)].order, v, r) \in Offered(p, b)
  <2> DEFINE S == ReadBefore(p, v)
             x == Ended(p, b[S].cost, b[S].order, v, r)
  <2>1. x \in Finished(p, b[S].cost, b[S].order, v)
    BY <1>2 DEF Finished, Ended
  <2> HIDE DEF x
  <2>2. x \in PlansOf(p, b, v)
    BY <1>2, <2>1 DEF PlansOf
  <2>3. WithinLimits(p, x)
    BY <1>2 DEF x
  <2>4. x \in Offered(p, b)
    BY <2>2, <2>3 DEF Offered
  <2> QED
    BY <2>4 DEF x
<1> QED
  BY <1>1, <1>2

LEMMA FeasibleParts ==
    ASSUME NEW p \in Problems
    PROVE  /\ \A y \in Feasible(p) : \E v \in Variants(p) : \E r \in LastReads(p, v) :
                  \E o \in Readings(ReadBefore(p, v)) :
                      /\ Runs(p, o) /\ CanFinish(p, r.candidates, v)
                      /\ y = Ended(p, RunLatency(p, o), o, v, r) /\ WithinLimits(p, y)
           /\ \A v \in Variants(p) : \A r \in LastReads(p, v), o \in Readings(ReadBefore(p, v)) :
                  LET y == Ended(p, RunLatency(p, o), o, v, r)
                  IN  Runs(p, o) /\ CanFinish(p, r.candidates, v) /\ WithinLimits(p, y) => y \in Feasible(p)
<1>1. ASSUME NEW y \in Feasible(p)
      PROVE  \E v \in Variants(p) : \E r \in LastReads(p, v) :
                  \E o \in Readings(ReadBefore(p, v)) :
                      /\ Runs(p, o) /\ CanFinish(p, r.candidates, v)
                      /\ y = Ended(p, RunLatency(p, o), o, v, r) /\ WithinLimits(p, y)
  <2>1. PICK v \in Variants(p) : y \in Evaluated(p, v) /\ WithinLimits(p, y)
    BY DEF Feasible
  <2>2. PICK o \in Readings(ReadBefore(p, v)) : Runs(p, o) /\ y \in Finished(p, RunLatency(p, o), o, v)
    BY <2>1 DEF Evaluated
  <2>3. PICK r \in LastReads(p, v) : CanFinish(p, r.candidates, v) /\ y = Ended(p, RunLatency(p, o), o, v, r)
    BY <2>2 DEF Finished, Ended
  <2> QED
    BY <2>1, <2>2, <2>3
<1>2. ASSUME NEW v \in Variants(p), NEW r \in LastReads(p, v), NEW o \in Readings(ReadBefore(p, v)),
             Runs(p, o), CanFinish(p, r.candidates, v), WithinLimits(p, Ended(p, RunLatency(p, o), o, v, r))
      PROVE  Ended(p, RunLatency(p, o), o, v, r) \in Feasible(p)
  <2> DEFINE y == Ended(p, RunLatency(p, o), o, v, r)
  <2>1. y \in Finished(p, RunLatency(p, o), o, v)
    BY <1>2 DEF Finished, Ended
  <2> HIDE DEF y
  <2>2. y \in Evaluated(p, v)
    BY <1>2, <2>1 DEF Evaluated
  <2>3. WithinLimits(p, y)
    BY <1>2 DEF y
  <2>4. y \in Feasible(p)
    BY <2>2, <2>3 DEF Feasible
  <2> QED
    BY <2>4 DEF y
<1> QED
  BY <1>1, <1>2

-----------------------------------------------------------------------------
(* Orders that are the rules'.                                             *)

\* Functions on the same set that agree everywhere are the same.
LEMMA SameFunction ==
    ASSUME NEW D, NEW A, NEW f \in [D -> A], NEW g \in [D -> A], \A n \in D : f[n] = g[n]
    PROVE  f = g
OBVIOUS

\* The names of a sequence of reads, one by one.
LEMMA NamesOfReads ==
    ASSUME NEW A, NEW q \in Seq(A \X BOOLEAN)
    PROVE  /\ Names(q) \in Seq(A) /\ Len(Names(q)) = Len(q) /\ Len(q) \in Nat
           /\ \A n \in 1 .. Len(q) : Names(q)[n] = q[n][1]
<1>1. q \in [1 .. Len(q) -> A \X BOOLEAN] /\ Len(q) \in Nat /\ DOMAIN q = 1 .. Len(q)
  OBVIOUS
<1>2. Names(q) = [n \in 1 .. Len(q) |-> q[n][1]]
  BY <1>1 DEF Names
<1>3. \A n \in 1 .. Len(q) : q[n][1] \in A
  BY <1>1
<1>4. Names(q) \in [1 .. Len(q) -> A]
  BY <1>2, <1>3
<1> QED
  BY <1>1, <1>2, <1>4

\* How every schedule ends is a sequence of reads.
LEMMA EndIsSequence ==
    ASSUME NEW p \in Problems, NEW v \in Variants(p), NEW r \in LastReads(p, v)
    PROVE  r.steps \in Seq((Narrowing(p) \cup {Store}) \X BOOLEAN)
<1> DEFINE keys == KeysAfter(p, ReadBefore(p, v))
           E == (Narrowing(p) \cup {Store}) \X BOOLEAN
<1>1. \A x \in {Anchor, Store}, b \in BOOLEAN : <<x, b>> \in E
  BY DEF Narrowing
<1>2. CASE v.plan # "shortlist"
  <2>1. r.steps = <<>>
    BY <1>2 DEF LastReads
  <2> QED
    BY <2>1
<1>3. CASE v.plan = "shortlist" /\ p.semantic.via_store
  <2>1. r \in {StoreRead(p, n, keys) : n \in {k \in {v.size} : Readable(p, Anchor, StoreRows(p, k, keys))}}
    BY <1>3 DEF LastReads
  <2> HIDE DEF keys
  <2> DEFINE a == FitsOnce(p, Store, keys)
             b == Restricts(p, Anchor, StoreRows(p, v.size, keys))
  <2>2. r = StoreRead(p, v.size, keys)
    BY <2>1
  <2>3. r.steps = <<<<Store, a>>, <<Anchor, b>>>>
    BY <2>2 DEF StoreRead
  <2>4. a \in BOOLEAN /\ b \in BOOLEAN
    BY DEF FitsOnce, Restricts
  <2> HIDE DEF a, b, E
  <2>5. <<Store, a>> \in E /\ <<Anchor, b>> \in E
    BY <1>1, <2>4
  <2> QED
    BY <2>3, <2>5 DEF E
<1>4. CASE v.plan = "shortlist" /\ ~p.semantic.via_store
  <2>1. r \in {RankedRead(p, n, keys) : n \in {k \in {v.size} : MayRank(p, keys)}}
    BY <1>4 DEF LastReads
  <2> HIDE DEF keys
  <2> DEFINE a == Required(p) # {}
  <2>2. r = RankedRead(p, v.size, keys)
    BY <2>1
  <2>3. r.steps = <<<<Anchor, a>>>>
    BY <2>2 DEF RankedRead
  <2>4. a \in BOOLEAN
    OBVIOUS
  <2> HIDE DEF a, E
  <2>5. <<Anchor, a>> \in E
    BY <1>1, <2>4
  <2> QED
    BY <2>3, <2>5 DEF E
<1> QED
  BY <1>2, <1>3, <1>4

\* A plan of the rules begins with a reading in the rules' order, and is one of
\* the rules with any other such reading.
LEMMA MatchIsOfReads ==
    ASSUME NEW p \in Problems, NEW v \in Variants(p), NEW r \in LastReads(p, v),
           NEW o \in Readings(ReadBefore(p, v)), NEW w \in Readings(ReadBefore(p, v)),
           NEW x, x.variant = v, x.order = w \o r.steps,
           NEW y, y.variant = v, y.order = o \o r.steps, MatchesRules(p, y)
    PROVE  KeepsRules(p, o) /\ (KeepsRules(p, w) => MatchesRules(p, x))
<1> DEFINE S == ReadBefore(p, v)
           A == Narrowing(p) \cup {Store}
           E == A \X BOOLEAN
           k == Cardinality(S)
           L == Len(RuleOrder(p))
           t == r.steps
<1>1. S \in SUBSET Narrowing(p) /\ IsFiniteSet(S) /\ k <= Cardinality(Narrowing(p))
  BY ReadBeforeNarrows, NarrowingIsFinite, FS_Subset
<1>2. k \in Nat /\ ReadsAll(o, k, S) /\ ReadsAll(w, k, S)
  BY <1>1, ReadingIsTyped
<1>3. o \in Seq(E) /\ w \in Seq(E) /\ Len(o) = k /\ Len(w) = k
  <2>1. o \in Seq(S \X BOOLEAN) /\ w \in Seq(S \X BOOLEAN) /\ Len(o) = k /\ Len(w) = k
    BY <1>2 DEF ReadsAll
  <2>2. S \X BOOLEAN \subseteq E
    BY <1>1
  <2> HIDE DEF S, E, k
  <2> QED
    BY <2>1, <2>2
<1>4. t \in Seq(E)
  BY EndIsSequence
<1>5. L \in Nat /\ k <= L
  <2>1. Cardinality(Narrowing(p)) = Len(p.required) + 1 /\ Len(p.required) \in Nat
    BY NarrowingIsFinite
  <2> DEFINE j == Len(StorePart(p))
  <2>2. L = Len(p.required) + j + 1 /\ j \in {0, 1}
    BY RuleOrderIsTyped
  <2> HIDE DEF k, L, j
  <2> QED
    BY <1>1, <1>2, <2>1, <2>2
<1> DEFINE i == o \o t
           j == w \o t
           N == k + Len(t)
<1> HIDE DEF S, E, k, t
<1>6. /\ i \in Seq(E) /\ Len(i) = N /\ j \in Seq(E) /\ Len(j) = N /\ Len(t) \in Nat
      /\ \A n \in 1 .. k : i[n] = o[n] /\ j[n] = w[n]
      /\ \A n \in 1 .. Len(t) : i[k + n] = t[n] /\ j[k + n] = t[n]
  <2>1. /\ i \in Seq(E) /\ Len(i) = Len(o) + Len(t) /\ Len(t) \in Nat
        /\ \A n \in 1 .. Len(o) : i[n] = o[n]
        /\ \A n \in 1 .. Len(t) : i[Len(o) + n] = t[n]
    BY <1>3, <1>4, JoinedParts
  <2>2. /\ j \in Seq(E) /\ Len(j) = Len(w) + Len(t) /\ Len(t) \in Nat
        /\ \A n \in 1 .. Len(w) : j[n] = w[n]
        /\ \A n \in 1 .. Len(t) : j[Len(w) + n] = t[n]
    BY <1>3, <1>4, JoinedParts
  <2> HIDE DEF i, j
  <2> QED
    BY <1>3, <2>1, <2>2
<1> HIDE DEF i, j, N
<1>7. /\ Names(i) \in Seq(A) /\ Len(Names(i)) = N /\ \A n \in 1 .. N : Names(i)[n] = i[n][1]
      /\ Names(j) \in Seq(A) /\ Len(Names(j)) = N /\ \A n \in 1 .. N : Names(j)[n] = j[n][1]
  <2>1. i \in Seq(A \X BOOLEAN) /\ j \in Seq(A \X BOOLEAN)
    BY <1>6 DEF E
  <2> HIDE DEF A
  <2>2. /\ Names(i) \in Seq(A) /\ Len(Names(i)) = Len(i)
        /\ \A n \in 1 .. Len(i) : Names(i)[n] = i[n][1]
    BY <2>1, NamesOfReads
  <2>3. /\ Names(j) \in Seq(A) /\ Len(Names(j)) = Len(j)
        /\ \A n \in 1 .. Len(j) : Names(j)[n] = j[n][1]
    BY <2>1, NamesOfReads
  <2> QED
    BY <1>6, <2>2, <2>3
<1>8. y.order = i /\ x.order = j
  BY DEF i, j, t
<1>9. L <= N /\ SubSeq(Names(i), 1, L) = RuleOrder(p)
  BY <1>6, <1>8 DEF MatchesRules
<1> HIDE DEF A
<1>10. \A n \in 1 .. L : Names(i)[n] = RuleOrder(p)[n]
  <2>1. \A n \in 1 .. L : SubSeq(Names(i), 1, L)[n] = Names(i)[n]
    BY <1>5, <1>7, <1>9, CutParts
  <2> QED
    BY <1>9, <2>1
<1>11. \A n \in 1 .. k : n \in 1 .. L /\ n \in 1 .. N
  BY <1>2, <1>5, <1>6 DEF N
<1>12. KeepsRules(p, o)
  BY <1>3, <1>6, <1>7, <1>10, <1>11 DEF KeepsRules
<1>13. ASSUME KeepsRules(p, w) PROVE MatchesRules(p, x)
  <2>1. \A n \in 1 .. k : w[n][1] = o[n][1]
    BY <1>3, <1>12, <1>13 DEF KeepsRules
  <2>2. \A n \in 1 .. N : i[n][1] = j[n][1]
    <3> SUFFICES ASSUME NEW n \in 1 .. N PROVE i[n][1] = j[n][1]
      OBVIOUS
    <3>1. CASE n \in 1 .. k
      BY <1>6, <2>1, <3>1
    <3>2. CASE n \notin 1 .. k
      <4>1. n - k \in 1 .. Len(t) /\ k + (n - k) = n
        BY <1>2, <1>6, <3>2 DEF N
      <4> QED
        BY <1>6, <4>1
    <3> QED
      BY <3>1, <3>2
  <2>3. \A n \in 1 .. N : Names(i)[n] = Names(j)[n]
    BY <1>7, <2>2
  <2>4. Names(i) \in [1 .. N -> A] /\ Names(j) \in [1 .. N -> A]
    BY <1>7, SequenceIsFunction
  <2> DEFINE D == 1 .. N
             a == Names(i)
             b == Names(j)
  <2>5. a \in [D -> A] /\ b \in [D -> A] /\ \A n \in D : a[n] = b[n]
    BY <2>3, <2>4
  <2> HIDE DEF D, a, b
  <2>6. a = b
    BY <2>5, SameFunction
  <2>7. Names(i) = Names(j)
    BY <2>6 DEF a, b
  <2> QED
    BY <1>6, <1>8, <1>9, <2>7 DEF MatchesRules
<1> QED
  BY <1>12, <1>13

-----------------------------------------------------------------------------
(* The best plan offered.                                                  *)

\* At the end, b has what every strategy reads before.
LEMMA BestIsThere ==
    ASSUME NEW p \in Problems, NEW b, AllAreBest(p, b, Cardinality(Narrowing(p))), NEW v
    PROVE  LET S == ReadBefore(p, v)
           IN  /\ CanBeRead(p, S) => S \in DOMAIN b
               /\ S \in DOMAIN b => IsBest(p, S, b[S])
<1>1. ReadBefore(p, v) \in SUBSET Narrowing(p) /\ Cardinality(ReadBefore(p, v)) <= Cardinality(Narrowing(p))
  BY ReadBeforeNarrows
<1> QED
  BY <1>1 DEF AllAreBest

\* What is offered is feasible ...
LEMMA OfferIsFeasible ==
    ASSUME NEW p \in Problems, NEW b, AllAreBest(p, b, Cardinality(Narrowing(p)))
    PROVE  Offered(p, b) \subseteq Feasible(p)
<1> SUFFICES ASSUME NEW x \in Offered(p, b) PROVE x \in Feasible(p)
  OBVIOUS
<1>1. PICK v \in Variants(p) : \E r \in LastReads(p, v) :
          LET S == ReadBefore(p, v)
          IN  /\ S \in DOMAIN b /\ CanFinish(p, r.candidates, v)
              /\ x = Ended(p, b[S].cost, b[S].order, v, r) /\ WithinLimits(p, x)
  BY OfferedParts
<1> DEFINE S == ReadBefore(p, v)
<1>2. PICK r \in LastReads(p, v) : /\ S \in DOMAIN b /\ CanFinish(p, r.candidates, v)
                                   /\ x = Ended(p, b[S].cost, b[S].order, v, r) /\ WithinLimits(p, x)
  BY <1>1
<1> DEFINE o == b[S].order
<1>3. o \in Readings(S) /\ Runs(p, o) /\ RunLatency(p, o) = b[S].cost
  BY <1>2, BestIsThere DEF IsBest
<1>4. x = Ended(p, RunLatency(p, o), o, v, r)
  BY <1>2, <1>3
<1> HIDE DEF o
<1> QED
  BY <1>2, <1>3, <1>4, FeasibleParts

\* ... and for every feasible plan one of the same strategy is offered that is
\* as good, and the rules' own if that is.
LEMMA OfferIsAsGood ==
    ASSUME NEW p \in Problems, NEW b, AllAreBest(p, b, Cardinality(Narrowing(p))), NEW y \in Feasible(p)
    PROVE  \E x \in Offered(p, b) :
              /\ Objective(x) \in Nat /\ Objective(y) \in Nat /\ Objective(x) <= Objective(y)
              /\ Objective(x) = Objective(y) /\ MatchesRules(p, y) => MatchesRules(p, x)
<1>1. PICK v \in Variants(p) : \E r \in LastReads(p, v) : \E o \in Readings(ReadBefore(p, v)) :
          /\ Runs(p, o) /\ CanFinish(p, r.candidates, v)
          /\ y = Ended(p, RunLatency(p, o), o, v, r) /\ WithinLimits(p, y)
  BY FeasibleParts
<1>2. PICK r \in LastReads(p, v) : \E o \in Readings(ReadBefore(p, v)) :
          /\ Runs(p, o) /\ CanFinish(p, r.candidates, v)
          /\ y = Ended(p, RunLatency(p, o), o, v, r) /\ WithinLimits(p, y)
  BY <1>1
<1> DEFINE S == ReadBefore(p, v)
<1>3. PICK o \in Readings(S) : /\ Runs(p, o) /\ CanFinish(p, r.candidates, v)
                               /\ y = Ended(p, RunLatency(p, o), o, v, r) /\ WithinLimits(p, y)
  BY <1>2
<1> DEFINE w == b[S]
           x == Ended(p, w.cost, w.order, v, r)
<1>4. S \in SUBSET Narrowing(p) /\ S \in DOMAIN b /\ IsBest(p, S, w)
  BY <1>3, BestIsThere, ReadBeforeNarrows DEF CanBeRead
<1> HIDE DEF S
<1>5. /\ w.order \in Readings(S) /\ w.cost \in Nat /\ w.cost <= RunLatency(p, o)
      /\ RunLatency(p, o) = w.cost /\ KeepsRules(p, o) => KeepsRules(p, w.order)
  BY <1>3, <1>4 DEF IsBest
<1>6. RunLatency(p, o) \in Nat
  BY <1>3, <1>4, RunIsSummed
<1>7. /\ Objective(x) \in Nat /\ Objective(y) \in Nat /\ Objective(x) <= Objective(y)
      /\ Objective(x) = Objective(y) => w.cost = RunLatency(p, o)
      /\ WithinLimits(p, x)
  BY <1>3, <1>5, <1>6, CheaperReadsAreBetter
<1>8. x \in Offered(p, b)
  BY <1>3, <1>4, <1>7, OfferedParts DEF S
<1>9. x.variant = v /\ x.order = w.order \o r.steps /\ y.variant = v /\ y.order = o \o r.steps
  <2>1. x.variant = v /\ x.order = w.order \o r.steps
    <3> DEFINE c == w.cost
               q == w.order
    <3>1. x = Ended(p, c, q, v, r)
      OBVIOUS
    <3> HIDE DEF c, q, x, w
    <3>2. x.variant = v /\ x.order = q \o r.steps
      BY <3>1, EndedParts
    <3> QED
      BY <3>2 DEF q
  <2> DEFINE z == RunLatency(p, o)
  <2>2. y = Ended(p, z, o, v, r)
    BY <1>3
  <2> HIDE DEF x, z
  <2>3. y.variant = v /\ y.order = o \o r.steps
    BY <2>2, EndedParts
  <2> QED
    BY <2>1, <2>3
<1>10. ASSUME Objective(x) = Objective(y), MatchesRules(p, y) PROVE MatchesRules(p, x)
  <2>1. o \in Readings(ReadBefore(p, v)) /\ w.order \in Readings(ReadBefore(p, v))
    BY <1>3, <1>5 DEF S
  <2> HIDE DEF x, w
  <2>2. KeepsRules(p, o) /\ (KeepsRules(p, w.order) => MatchesRules(p, x))
    BY <1>9, <1>10, <2>1, MatchIsOfReads
  <2> QED
    BY <1>5, <1>7, <1>10, <2>2
<1> QED
  BY <1>7, <1>8, <1>10

\* What is offered has an objective and a size, which no two plans share.
LEMMA OfferIsTyped ==
    ASSUME NEW p \in Problems, NEW b, AllAreBest(p, b, Cardinality(Narrowing(p)))
    PROVE  /\ \A x \in Offered(p, b) : Objective(x) \in Nat /\ x.variant.size \in Nat
           /\ \A x, y \in Offered(p, b) : x.variant.size = y.variant.size => x = y
<1> DEFINE Of(x, v, r) == LET S == ReadBefore(p, v)
                          IN  /\ S \in DOMAIN b /\ CanFinish(p, r.candidates, v)
                              /\ x = Ended(p, b[S].cost, b[S].order, v, r)
<1>1. \A x \in Offered(p, b) : \E v \in Variants(p) : \E r \in LastReads(p, v) : Of(x, v, r)
  BY OfferedParts
<1>2. ASSUME NEW x, NEW v \in Variants(p), NEW r \in LastReads(p, v), Of(x, v, r)
      PROVE  Objective(x) \in Nat /\ x.variant = v /\ v.size \in Nat
  <2> DEFINE c == b[ReadBefore(p, v)].cost
             o == b[ReadBefore(p, v)].order
  <2>1. c \in Nat
    BY <1>2, BestIsThere DEF IsBest
  <2>2. x = Ended(p, c, o, v, r) /\ CanFinish(p, r.candidates, v)
    BY <1>2
  <2> HIDE DEF c, o
  <2>3. x.variant = v
    BY <2>1, <2>2, PlanIsTyped
  <2>4. c <= c
    BY <2>1, NatIsOrdered
  <2>5. Objective(x) \in Nat
    BY <2>1, <2>2, <2>4, CheaperReadsAreBetter
  <2> QED
    BY <2>3, <2>5, VariantIsTyped
<1>3. \A v \in Variants(p) : \A r, t \in LastReads(p, v) : r = t
  BY EndIsTyped
<1>4. \A x, y, v, r : Of(x, v, r) /\ Of(y, v, r) => x = y
  OBVIOUS
<1> HIDE DEF Of
<1>5. ASSUME NEW x \in Offered(p, b), NEW y \in Offered(p, b), x.variant.size = y.variant.size PROVE x = y
  <2>1. PICK v \in Variants(p) : \E r \in LastReads(p, v) : Of(x, v, r)
    BY <1>1
  <2>2. PICK r \in LastReads(p, v) : Of(x, v, r)
    BY <2>1
  <2>3. PICK u \in Variants(p) : \E t \in LastReads(p, u) : Of(y, u, t)
    BY <1>1
  <2>4. PICK t \in LastReads(p, u) : Of(y, u, t)
    BY <2>3
  <2>5. v.size = u.size
    BY <1>2, <1>5, <2>2, <2>4
  <2>6. u = v
    BY <2>5, VariantIsTyped
  <2>7. t = r
    BY <1>3, <2>2, <2>4, <2>6
  <2> QED
    BY <1>4, <2>2, <2>4, <2>6, <2>7
<1>6. ASSUME NEW x \in Offered(p, b) PROVE Objective(x) \in Nat /\ x.variant.size \in Nat
  BY <1>1, <1>2
<1> QED
  BY <1>5, <1>6

\* So exactly one of them is kept.
LEMMA OneIsKept ==
    ASSUME NEW p \in Problems, NEW P, P # {},
           \A x \in P : Objective(x) \in Nat /\ x.variant.size \in Nat,
           \A x, y \in P : x.variant.size = y.variant.size => x = y
    PROVE  \E x \in P : Kept(p, P) = {x}
<1> DEFINE O == {Objective(x) : x \in P}
<1>1. O \in SUBSET Nat /\ O # {}
  <2>1. \A x \in P : Objective(x) \in O
    OBVIOUS
  <2> QED
    BY <2>1
<1> HIDE DEF O
<1>2. PICK m \in O : \A n \in O : m <= n
  BY <1>1, LeastNumber
<1> DEFINE A == {x \in P : Objective(x) = m}
           B == IF \E x \in A : MatchesRules(p, x) THEN {x \in A : MatchesRules(p, x)} ELSE A
           Z == {x.variant.size : x \in B}
<1>3. B # {} /\ B \subseteq A /\ A \subseteq P
  <2>1. A # {}
    BY <1>2 DEF O
  <2> QED
    BY <2>1
<1>4. Z \in SUBSET Nat /\ Z # {}
  <2>1. \A x \in B : x.variant.size \in Nat /\ x.variant.size \in Z
    BY <1>3
  <2> QED
    BY <1>3, <2>1
<1> HIDE DEF Z
<1>5. PICK l \in Z : \A n \in Z : l <= n
  BY <1>4, LeastNumber
<1>6. PICK x \in B : x.variant.size = l
  BY <1>5 DEF Z
<1>7. x \in P /\ Objective(x) = m /\ m \in Nat
  BY <1>1, <1>2, <1>3, <1>6
<1>8. ASSUME NEW y \in P PROVE Preferred(p, x, y)
  <2>1. Objective(y) \in O /\ Objective(y) \in Nat
    BY DEF O
  <2>2. m <= Objective(y)
    BY <1>2, <2>1
  <2>3. CASE Objective(y) # m
    <3>1. Objective(x) < Objective(y)
      BY <1>7, <2>1, <2>2, <2>3
    <3> QED
      BY <3>1 DEF Preferred
  <2>4. CASE Objective(y) = m
    <3>1. y \in A
      BY <2>4
    <3>2. MatchesRules(p, y) => MatchesRules(p, x)
      BY <1>6, <3>1
    <3>3. MatchesRules(p, x) = MatchesRules(p, y) => y \in B
      BY <1>6, <3>1
    <3>4. y \in B => x.variant.size <= y.variant.size
      BY <1>5, <1>6 DEF Z
    <3>5. MatchesRules(p, x) \in BOOLEAN /\ MatchesRules(p, y) \in BOOLEAN
      BY DEF MatchesRules
    <3> QED
      BY <1>7, <2>4, <3>2, <3>3, <3>4, <3>5 DEF Preferred
  <2> QED
    BY <2>3, <2>4
<1>9. ASSUME NEW y \in P, \A z \in P : Preferred(p, y, z) PROVE y = x
  <2>1. Preferred(p, x, y) /\ Preferred(p, y, x)
    BY <1>7, <1>8, <1>9
  <2>2. Objective(x) \in Nat /\ Objective(y) \in Nat /\ x.variant.size \in Nat /\ y.variant.size \in Nat
    BY <1>7
  <2>3. Objective(x) = Objective(y)
    BY <2>1, <2>2 DEF Preferred
  <2>4. MatchesRules(p, x) \in BOOLEAN /\ MatchesRules(p, y) \in BOOLEAN
    BY DEF MatchesRules
  <2>5. MatchesRules(p, x) = MatchesRules(p, y)
    BY <2>1, <2>2, <2>3, <2>4 DEF Preferred
  <2>6. x.variant.size <= y.variant.size /\ y.variant.size <= x.variant.size
    BY <2>1, <2>2, <2>3, <2>5 DEF Preferred
  <2>7. x.variant.size = y.variant.size
    BY <2>2, <2>6
  <2> QED
    BY <1>7, <2>7
<1>10. Kept(p, P) = {x}
  BY <1>7, <1>8, <1>9 DEF Kept
<1> QED
  BY <1>7, <1>10

-----------------------------------------------------------------------------
(* The theorems.                                                           *)

\* What the fixed rule runs is looked up among the strategies and found there,
\* and no strategy shortlists more than the verifier takes.
THEOREM RuleIsFound == Spec => []RuleIsAStrategy
<1>1. SearchInv => RuleIsAStrategy
  BY RuleIsThere DEF SearchInv, RuleIsAStrategy
<1> QED
  BY <1>1, SearchIsKnown, PTL

\* The one plan handed to the executor is a plan that trying everything finds,
\* so what was reported of it is what reading in its order with its flags is
\* estimated to cost.
THEOREM EstimateIsHonest == Spec => []EstimateIsOfTheSchedule
<1>1. SearchInv => EstimateIsOfTheSchedule
  <2> SUFFICES ASSUME SearchInv, outcome = "cost_based"
               PROVE  Cardinality(options) = 1 /\ options \subseteq Feasible(problem)
    BY DEF EstimateIsOfTheSchedule
  <2> DEFINE P == Offered(problem, best)
  <2>1. /\ problem \in Problems /\ AllAreBest(problem, best, Cardinality(Narrowing(problem)))
        /\ P # {} /\ options = Kept(problem, P)
    BY DEF SearchInv
  <2>2. /\ P \subseteq Feasible(problem)
        /\ \A x \in P : Objective(x) \in Nat /\ x.variant.size \in Nat
        /\ \A x, y \in P : x.variant.size = y.variant.size => x = y
    BY <2>1, OfferIsFeasible, OfferIsTyped
  <2> HIDE DEF P
  <2>3. PICK x \in P : options = {x}
    BY <2>1, <2>2, OneIsKept
  <2> QED
    BY <2>2, <2>3, FS_Singleton
<1> QED
  BY <1>1, SearchIsKnown, PTL

\* The dynamic programme finds what trying every order, every flag and every
\* strategy would: nothing within the limits is cheaper than what it chooses,
\* and if it chooses nothing there is nothing (or the search was declined).
THEOREM ChoiceIsBest == Spec => []ChoiceIsOptimal
<1>1. SearchInv => ChoiceIsOptimal
  <2> SUFFICES ASSUME SearchInv PROVE ChoiceIsOptimal
    OBVIOUS
  <2> DEFINE P == Offered(problem, best)
             full == AllAreBest(problem, best, Cardinality(Narrowing(problem)))
  <2>1. ASSUME full, NEW y \in Feasible(problem)
        PROVE  \E x \in P : Objective(x) \in Nat /\ Objective(y) \in Nat /\ Objective(x) <= Objective(y)
    BY <2>1, OfferIsAsGood DEF SearchInv
  <2>2. ASSUME outcome = "cost_based", NEW x \in options, NEW y \in Feasible(problem)
        PROVE  Objective(x) <= Objective(y)
    <3>1. full /\ options = Kept(problem, P) /\ problem \in Problems
      BY <2>2 DEF SearchInv
    <3>2. PICK z \in P : Objective(z) \in Nat /\ Objective(y) \in Nat /\ Objective(z) <= Objective(y)
      BY <2>1, <3>1
    <3>3. x \in P /\ Preferred(problem, x, z)
      BY <2>2, <3>1, <3>2 DEF Kept
    <3>4. Objective(x) \in Nat
      BY <3>1, <3>3, OfferIsTyped
    <3>5. Objective(x) < Objective(z) \/ Objective(x) = Objective(z)
      BY <3>3 DEF Preferred
    <3> QED
      BY <3>2, <3>4, <3>5
  <2>3. ASSUME outcome = "rules" PROVE Feasible(problem) = {} \/ Declines(problem)
    <3>1. Declines(problem) \/ (full /\ P = {})
      BY <2>3 DEF SearchInv
    <3> QED
      BY <2>1, <3>1
  <2> QED
    BY <2>2, <2>3 DEF ChoiceIsOptimal
<1> QED
  BY <1>1, SearchIsKnown, PTL

\* The optimizer deviates from the fixed rules only for something strictly
\* cheaper: if a plan in their order and of their strategy is as good as what is
\* chosen, what is chosen is in their order and of their strategy too.
THEOREM RulesAreKeptOnTies == Spec => []TiesKeepTheRules
<1>1. SearchInv => TiesKeepTheRules
  <2> SUFFICES ASSUME SearchInv, outcome = "cost_based", NEW x \in options, NEW y \in Feasible(problem),
                      MatchesRules(problem, y), Objective(y) = Objective(x)
               PROVE  MatchesRules(problem, x)
    BY DEF TiesKeepTheRules
  <2> DEFINE P == Offered(problem, best)
  <2>1. /\ problem \in Problems /\ AllAreBest(problem, best, Cardinality(Narrowing(problem)))
        /\ options = Kept(problem, P)
    BY DEF SearchInv
  <2>2. PICK z \in P : /\ Objective(z) \in Nat /\ Objective(y) \in Nat /\ Objective(z) <= Objective(y)
                       /\ Objective(z) = Objective(y) /\ MatchesRules(problem, y) => MatchesRules(problem, z)
    BY <2>1, OfferIsAsGood
  <2>3. Preferred(problem, x, z)
    BY <2>1, <2>2 DEF Kept
  <2>4. ~(Objective(x) < Objective(z))
    BY <2>2
  <2>5. Objective(x) = Objective(z)
    BY <2>3, <2>4 DEF Preferred
  <2>6. MatchesRules(problem, z)
    BY <2>2, <2>5
  <2>7. MatchesRules(problem, x) \in BOOLEAN /\ MatchesRules(problem, z) \in BOOLEAN
    BY DEF MatchesRules
  <2>8. IF MatchesRules(problem, x) = MatchesRules(problem, z) THEN x.variant.size <= z.variant.size
        ELSE MatchesRules(problem, x)
    BY <2>3, <2>4 DEF Preferred
  <2> QED
    BY <2>6, <2>7, <2>8, Zenon
<1> QED
  BY <1>1, SearchIsKnown, PTL

=============================================================================
