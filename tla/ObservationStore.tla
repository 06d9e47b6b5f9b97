-------------------------- MODULE ObservationStore --------------------------
(***************************************************************************)
(* What scans really returned, remembered for the planner                  *)
(* (planning/statistics.py, ObservationStore).  Any thread records the     *)
(* rows of a full scan and looks up earlier ones; each operation runs      *)
(* under one lock.  A remembered number moves halfway to each new one, and *)
(* past the capacity the least recently used key goes.                     *)
(*                                                                         *)
(* A key is a source's name, its resource and its filter: neither the      *)
(* connection nor the catalog is part of it, so the numbers recorded under *)
(* a key may be of one table at first and of another one later.            *)
(*                                                                         *)
(* Numbers are in units of 1/2^MaxHalvings, in which no halving rounds.    *)
(***************************************************************************)
EXTENDS Integers, Sequences, FiniteSets

CONSTANTS
    ScanKeys,       \* what is remembered separately
    Counts,         \* the row counts scans return
    Capacity,       \* capacity
    MaxHalvings,    \* bound on the observations of a key while it is remembered
    MaxUses         \* bound on the uses of the store

ASSUME StoreAssumption ==
    /\ Counts \subseteq Nat
    /\ \E most \in Counts : \A rows \in Counts : rows <= most
    /\ Capacity \in Nat \ {0}
    /\ MaxHalvings \in Nat /\ MaxUses \in Nat
    /\ IsFiniteSet(ScanKeys)

Unit == 2 ^ MaxHalvings

VARIABLES
    order,      \* the keys of the OrderedDict, in its order
    value,      \* value[k]: the number remembered of k, in units
    uses,       \* how often a key was recorded or found
    last_use,   \* last_use[k]: the latest of these that was of k, or 0
    streak      \* streak[k]: the latest count of k and how often it came in a row

store_vars == <<order, value, uses, last_use, streak>>

-----------------------------------------------------------------------------
Remembered == {order[n] : n \in DOMAIN order}

Place(k) == CHOOSE n \in DOMAIN order : order[n] = k

\* The order without key k, which it holds once at most.
Without(k) ==
    IF k \in Remembered
    THEN [n \in 1 .. Len(order) - 1 |-> order[IF n < Place(k) THEN n ELSE n + 1]]
    ELSE order

\* (mutant: the newest key goes, the one just learned)
DropsNewest(s) == IF Len(s) > Capacity THEN SubSeq(s, 1, Capacity) ELSE s

\* The least recently used key goes while there are too many.
Evicted(s) == IF Len(s) > Capacity THEN Tail(s) ELSE s

\* (mutant: a smaller number never takes the place of a larger one)
KeepsHighest(k, rows) ==
    IF k \in Remembered /\ value[k] > rows * Unit THEN value[k] ELSE rows * Unit

\* A first observation is taken as it is, a later one moves the number halfway.
Moved(k, rows) ==
    IF k \in Remembered THEN value[k] + (rows * Unit - value[k]) \div 2 ELSE rows * Unit

\* record
RecordRows(k, rows) ==
    /\ uses < MaxUses
    /\ k \in Remembered => streak[k].halvings < MaxHalvings
    /\ order' = Evicted(Append(Without(k), k))
    /\ value' = [value EXCEPT ![k] = Moved(k, rows)]
    /\ uses' = uses + 1
    /\ last_use' = [last_use EXCEPT ![k] = uses + 1]
    /\ streak' = [streak EXCEPT ![k] =
                     IF k \notin Remembered THEN [rows |-> rows, times |-> 1, halvings |-> 0]
                     ELSE [rows |-> rows, halvings |-> @.halvings + 1,
                           times |-> IF @.rows = rows THEN @.times + 1 ELSE 1]]

\* (mutant: a look-up does not count as a use)
StaysWhereItIs(k) == order

\* move_to_end
MovedToEnd(k) == Append(Without(k), k)

\* lookup of a key that is remembered; any other look-up changes nothing.
Find(k) ==
    /\ uses < MaxUses
    /\ k \in Remembered
    /\ order' = MovedToEnd(k)
    /\ uses' = uses + 1
    /\ last_use' = [last_use EXCEPT ![k] = uses + 1]
    /\ UNCHANGED <<value, streak>>

StoreInit ==
    /\ order = <<>>
    /\ value = [k \in ScanKeys |-> 0]
    /\ uses = 0
    /\ last_use = [k \in ScanKeys |-> 0]
    /\ streak = [k \in ScanKeys |-> [rows |-> 0, times |-> 0, halvings |-> 0]]

StoreNext == \/ \E k \in ScanKeys, rows \in Counts : RecordRows(k, rows)
             \/ \E k \in ScanKeys : Find(k)

StoreSpec == StoreInit /\ [][StoreNext]_store_vars

-----------------------------------------------------------------------------
(* Properties.                                                             *)

Largest(S) == CHOOSE n \in S : \A m \in S : m <= n

\* Whatever was recorded and looked up in whatever order: the store holds the
\* keys used most recently, as many as it can, each of them once.
KeepsTheMostRecent ==
    LET used == {k \in ScanKeys : last_use[k] > 0}
        newer(k) == {j \in used : last_use[j] > last_use[k]}
    IN  /\ Remembered = {k \in used : Cardinality(newer(k)) < Capacity}
        /\ Len(order) = Cardinality(Remembered)

\* After the same count came n times in a row, what is remembered is within
\* 1/2^(n-1) of the largest error there can be: whatever the key stood for
\* before (a table that was emptied, another database behind the same name),
\* the estimate follows.  And it never leaves the range of what was observed.
TracksChange ==
    \A k \in Remembered :
        LET error == value[k] - streak[k].rows * Unit
            most  == Largest(Counts) * Unit
        IN  /\ 0 <= value[k] /\ value[k] <= most
            /\ (IF error < 0 THEN -error ELSE error) * 2 ^ (streak[k].times - 1) <= most
=============================================================================
