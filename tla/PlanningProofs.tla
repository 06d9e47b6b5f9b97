--------------------------- MODULE PlanningProofs ---------------------------
(* What the planner learns of the tables, what it makes the sources do, and  *)
(* the time a query takes.  What the cache of table statistics serves is     *)
(* fresh, for any threads, tables, columns and time to live; what the store  *)
(* of observations remembers are the latest keys, and follows their tables,  *)
(* for any keys, counts and capacity; how far a query can overrun its        *)
(* budget, for every budget and limit; and whichever source answers which    *)
(* part of a query, its answer is SQL's, for every filter, order, page size, *)
(* capability and dataset.  The four share no state.                         *)
EXTENDS QueryDeadline, StatisticsCache, ObservationStore, Pushdown,
        FiniteSetTheorems, WellFoundedInduction, TLAPS

-----------------------------------------------------------------------------
(* The invariant.  What is known of a table is spoken of with its history h,  *)
(* the clock and the tick after its last failure as arguments.                *)

\* The version v was the table's at tick n or later.
SeenSince(h, end, v, n) == \E at \in n .. end : <<v, at>> \in h

\* All of f was: or nothing was to be had.
TrueSince(h, end, failure, f, n) ==
    IF f = Unknown
    THEN SeenSince(h, end, Never, n) \/ failure > n
    ELSE /\ SeenSince(h, end, f.rows, n)
         /\ \A c \in Columns : SeenSince(h, end, f.columns[c], n)

\* A row count was read, and then all that thread t will store.
ReadsAreRecent ==
    \A t \in Planners :
        /\ step[t] = "counted" =>
              /\ facts[t] \in Facts
              /\ SeenSince(history[table[t]], clock, facts[t].rows, asked[t])
        /\ step[t] = "read" =>
              TrueSince(history[table[t]], clock, failed[table[t]], facts[t], asked[t])

\* An entry was true within its time to live.
EntriesAreRecent ==
    \A k \in Tables : cache[k] # Missing =>
        /\ cache[k].expires - Ttl \in Nat
        /\ TrueSince(history[k], clock, failed[k], cache[k].facts, cache[k].expires - Ttl)

\* Clocks and history: nothing is of the future.
TimeIsSound ==
    /\ told = [t \in Planners |-> told[t]]
    /\ \A k \in Tables : <<analyzed[k], clock>> \in history[k] /\ failed[k] <= clock + 1
    /\ \A t \in Planners : asked[t] <= clock

IInv == CacheTypeOK /\ TimeIsSound /\ ReadsAreRecent /\ EntriesAreRecent /\ ServedStatisticsAreFresh

\* The body of ServedStatisticsAreFresh, of one answer to a lookup begun at a.
ToldRightly(h, end, failure, answer, columns, a) ==
    LET was(v) == \E at \in 0 .. end : Recent(at, a) /\ <<v, at>> \in h
    IN  IF answer = Unknown
        THEN was(Never) \/ (failure > 0 /\ Recent(failure - 1, a))
        ELSE /\ was(answer.rows)
             /\ DOMAIN answer.columns = columns
             /\ \A c \in columns : was(answer.columns[c])

-----------------------------------------------------------------------------
(* Lemmas: what was once true of the past stays true.                        *)

\* What was seen since a tick stays seen as history and clock grow.
LEMMA SeenLater ==
    ASSUME NEW h, NEW h2, h \subseteq h2, NEW end \in Nat, NEW later \in Nat, end <= later,
           NEW v, NEW n \in Nat, SeenSince(h, end, v, n)
    PROVE  SeenSince(h2, later, v, n)
BY SMT DEF SeenSince

\* So does everything read of a table.
LEMMA TrueLater ==
    ASSUME NEW h, NEW h2, h \subseteq h2, NEW end \in Nat, NEW later \in Nat, end <= later,
           NEW failure \in Nat, NEW failure2 \in Nat, failure <= failure2,
           NEW f, NEW n \in Nat, TrueSince(h, end, failure, f, n)
    PROVE  TrueSince(h2, later, failure2, f, n)
<1>1. \A v : SeenSince(h, end, v, n) => SeenSince(h2, later, v, n)
  BY SeenLater
<1> QED  BY <1>1, SMT DEF TrueSince

\* And so does an answer, once it was right.
LEMMA RightLater ==
    ASSUME NEW h, NEW h2, h \subseteq h2, NEW end \in Nat, NEW later \in Nat, end <= later,
           NEW failure \in Nat, NEW failure2 \in Nat, failure <= failure2,
           NEW answer, NEW columns, NEW a \in Nat, ToldRightly(h, end, failure, answer, columns, a)
    PROVE  ToldRightly(h2, later, failure2, answer, columns, a)
<1>1. \A v : (\E at \in 0 .. end : Recent(at, a) /\ <<v, at>> \in h)
                => \E at \in 0 .. later : Recent(at, a) /\ <<v, at>> \in h2
  BY SMT DEF Recent
<1>2. failure > 0 /\ Recent(failure - 1, a) => failure2 > 0 /\ Recent(failure2 - 1, a)
  BY CacheAssumption, SMT DEF Recent
<1> QED  BY <1>1, <1>2 DEF ToldRightly

\* What was true since a recent tick is, cut down to its columns, a right answer.
LEMMA ServesRightly ==
    ASSUME NEW h, NEW end \in Nat, NEW failure \in Nat, NEW f \in Facts \cup {Unknown}, NEW n \in Nat,
           TrueSince(h, end, failure, f, n), NEW a \in Nat, n >= a \/ n > a - Ttl,
           NEW t \in Planners
    PROVE  ToldRightly(h, end, failure, For(View[t], f), View[t], a)
<1>1. \A v : SeenSince(h, end, v, n) => \E at \in 0 .. end : Recent(at, a) /\ <<v, at>> \in h
  BY CacheAssumption, SMT DEF SeenSince, Recent
<1>2. CASE f = Unknown
  <2>1. failure > n => failure > 0 /\ Recent(failure - 1, a)
    BY CacheAssumption, SMT DEF Recent
  <2> QED  BY <1>1, <1>2, <2>1 DEF ToldRightly, For, TrueSince
<1>3. CASE f # Unknown
  <2>1. f \in Facts /\ View[t] \subseteq Columns
    BY <1>3, CacheAssumption
  <2> DEFINE g == [rows |-> f.rows, columns |-> [c \in View[t] |-> f.columns[c]]]
  <2>2. g \in Told(View[t])
    BY <2>1 DEF Facts, Told
  <2>3. For(View[t], f) = g /\ g # Unknown
    BY <1>3, <2>2, CacheAssumption DEF For
  <2>4. /\ SeenSince(h, end, g.rows, n)
        /\ DOMAIN g.columns = View[t]
        /\ \A c \in View[t] : SeenSince(h, end, g.columns[c], n)
    BY <1>3, <2>1 DEF TrueSince
  <2> QED  BY <1>1, <2>3, <2>4 DEF ToldRightly
<1> QED  BY <1>2, <1>3

\* The property, answer by answer.
LEMMA RightnessIsFreshness ==
    ServedStatisticsAreFresh <=>
        \A t \in Planners : step[t] = "told" =>
            ToldRightly(history[table[t]], clock, failed[table[t]], told[t], View[t], asked[t])
BY DEF ServedStatisticsAreFresh, ToldRightly, WasUnknown, Was

-----------------------------------------------------------------------------
(* Steps.                                                                    *)

\* Every step keeps the types.
LEMMA TypeStep == IInv /\ CacheNext => CacheTypeOK'
<1> SUFFICES ASSUME IInv, CacheNext PROVE CacheTypeOK'
  OBVIOUS
<1> USE CacheAssumption DEF IInv, CacheTypeOK, Entries
<1>1. ASSUME NEW t \in Planners, NEW k \in Tables, Ask(t, k) PROVE CacheTypeOK'
  BY <1>1 DEF Ask
<1>2. ASSUME NEW t \in Planners, LookUp(t) PROVE CacheTypeOK'
  BY <1>2 DEF LookUp, Return
<1>3. ASSUME NEW t \in Planners, ReadRows(t) PROVE CacheTypeOK'
  <2>1. analyzed[table[t]] # Never => [rows |-> analyzed[table[t]], columns |-> [c \in Columns |-> Never]] \in Facts
    BY DEF Facts, Told, Versions
  <2> QED  BY <1>3, <2>1 DEF ReadRows
<1>4. ASSUME NEW t \in Planners, ReadColumns(t) PROVE CacheTypeOK'
  <2>1. facts[t] \in Facts
    BY <1>4 DEF ReadColumns, ReadsAreRecent
  <2>2. [facts[t] EXCEPT !.columns = [c \in Columns |-> analyzed[table[t]]]] \in Facts
    BY <2>1 DEF Facts, Told
  <2> QED  BY <1>4, <2>2 DEF ReadColumns
<1>5. ASSUME NEW t \in Planners, ReadFails(t) PROVE CacheTypeOK'
  BY <1>5 DEF ReadFails
<1>6. ASSUME NEW t \in Planners, StoreEntry(t) PROVE CacheTypeOK'
  BY <1>6 DEF StoreEntry, Return, Expiry
<1>7. ASSUME NEW t \in Planners, GoOn(t) PROVE CacheTypeOK'
  BY <1>7 DEF GoOn
<1>8. CASE Invalidate
  BY <1>8 DEF Invalidate, lookup_vars
<1>9. ASSUME NEW k \in Tables, Analyze(k) PROVE CacheTypeOK'
  BY <1>9 DEF Analyze, lookup_vars, Versions
<1>10. CASE ClockTick
  BY <1>10 DEF ClockTick, lookup_vars
<1> QED  BY <1>1, <1>2, <1>3, <1>4, <1>5, <1>6, <1>7, <1>8, <1>9, <1>10 DEF CacheNext

\* Time only goes on: nothing that was so is forgotten.
LEMMA TimeGrows ==
    IInv /\ CacheNext =>
        /\ clock <= clock'
        /\ \A k \in Tables : history[k] \subseteq history'[k] /\ failed[k] <= failed'[k]
<1> SUFFICES ASSUME IInv, CacheNext
             PROVE  /\ clock <= clock'
                    /\ \A k \in Tables : history[k] \subseteq history'[k] /\ failed[k] <= failed'[k]
  OBVIOUS
<1> USE DEF IInv, CacheTypeOK, TimeIsSound
<1>1. ASSUME NEW t \in Planners, ReadFails(t)
      PROVE  UNCHANGED <<clock, history>> /\ \A k \in Tables : failed[k] <= failed'[k]
  <2>1. failed' = [failed EXCEPT ![table[t]] = clock + 1] /\ UNCHANGED <<clock, history>>
    BY <1>1 DEF ReadFails
  <2>2. ASSUME NEW k \in Tables PROVE failed[k] <= failed'[k]
    <3>1. failed'[k] = IF k = table[t] THEN clock + 1 ELSE failed[k]
      BY <2>1
    <3>2. failed[k] <= clock + 1 /\ failed[k] \in Nat
      OBVIOUS
    <3> QED  BY <3>1, <3>2
  <2> QED  BY <2>1, <2>2
<1>2. ASSUME NEW k \in Tables, Analyze(k)
      PROVE  UNCHANGED <<clock, failed>> /\ \A j \in Tables : history[j] \subseteq history'[j]
  BY <1>2 DEF Analyze
<1>3. CASE ClockTick
  BY <1>3 DEF ClockTick
<1>4. ASSUME NEW t \in Planners,
             \/ \E k \in Tables : Ask(t, k)
             \/ LookUp(t) \/ ReadRows(t) \/ ReadColumns(t) \/ StoreEntry(t) \/ GoOn(t)
      PROVE  UNCHANGED <<clock, history, failed>>
  BY <1>4 DEF Ask, LookUp, ReadRows, ReadColumns, StoreEntry, GoOn
<1>5. CASE Invalidate
  BY <1>5 DEF Invalidate
<1> QED  BY <1>1, <1>2, <1>3, <1>4, <1>5 DEF CacheNext

\* A function stays one, over the same arguments, when a value of it changes.
LEMMA FunctionStays ==
    ASSUME NEW S, NEW f, f = [x \in S |-> f[x]], NEW t, NEW v
    PROVE  [f EXCEPT ![t] = v] = [x \in S |-> [f EXCEPT ![t] = v][x]]
<1>1. DOMAIN f = S
  OBVIOUS
<1> QED  BY <1>1, Zenon

\* Nothing recorded is of the future.
LEMMA TimeStep == IInv /\ CacheNext => TimeIsSound'
<1> SUFFICES ASSUME IInv, CacheNext PROVE TimeIsSound'
  OBVIOUS
<1> USE DEF IInv, CacheTypeOK, TimeIsSound
<1>1. ASSUME NEW t \in Planners, NEW k \in Tables, Ask(t, k) PROVE TimeIsSound'
  BY <1>1 DEF Ask
<1>2. ASSUME NEW t \in Planners, LookUp(t) \/ StoreEntry(t) PROVE TimeIsSound'
  <2>1. told' = told \/ \E v : told' = [told EXCEPT ![t] = v]
    BY <1>2, Zenon DEF LookUp, StoreEntry, Return
  <2>2. told' = [u \in Planners |-> told'[u]]
    BY <2>1, FunctionStays
  <2>3. UNCHANGED <<clock, analyzed, history, failed, asked>>
    BY <1>2 DEF LookUp, StoreEntry
  <2> QED  BY <2>2, <2>3
<1>3. ASSUME NEW t \in Planners, ReadRows(t) \/ ReadColumns(t) PROVE TimeIsSound'
  BY <1>3 DEF ReadRows, ReadColumns
<1>4. ASSUME NEW t \in Planners, ReadFails(t) PROVE TimeIsSound'
  <2>1. ASSUME NEW k \in Tables
        PROVE  failed'[k] <= clock' + 1 /\ <<analyzed'[k], clock'>> \in history'[k]
    <3>1. failed'[k] = IF k = table[t] THEN clock + 1 ELSE failed[k]
      BY <1>4 DEF ReadFails
    <3> QED  BY <1>4, <3>1 DEF ReadFails
  <2>2. UNCHANGED <<told, asked, clock>>
    BY <1>4 DEF ReadFails
  <2> QED  BY <2>1, <2>2
<1>5. ASSUME NEW t \in Planners, GoOn(t) PROVE TimeIsSound'
  <2>1. told' = [u \in Planners |-> told'[u]]
    BY <1>5, FunctionStays DEF GoOn
  <2>2. \A u \in Planners : asked'[u] <= clock
    BY <1>5 DEF GoOn
  <2> QED  BY <1>5, <2>1, <2>2 DEF GoOn
<1>6. CASE Invalidate
  BY <1>6 DEF Invalidate, lookup_vars
<1>7. ASSUME NEW k \in Tables, Analyze(k) PROVE TimeIsSound'
  BY <1>7 DEF Analyze, lookup_vars
<1>8. CASE ClockTick
  <2>1. clock' = clock + 1 /\ UNCHANGED <<analyzed, failed, told, asked>>
    BY <1>8 DEF ClockTick, lookup_vars
  <2>2. \A k \in Tables : <<analyzed[k], clock'>> \in history'[k]
    BY <1>8 DEF ClockTick
  <2>3. \A k \in Tables : failed[k] <= clock + 1 /\ failed[k] \in Nat
    OBVIOUS
  <2> QED  BY <2>1, <2>2, <2>3
<1> QED  BY <1>1, <1>2, <1>3, <1>4, <1>5, <1>6, <1>7, <1>8 DEF CacheNext

\* What a thread has read so far stays true, and what it reads now is.
LEMMA ReadsStep == IInv /\ CacheNext => ReadsAreRecent'
<1> SUFFICES ASSUME IInv, CacheNext, NEW t \in Planners
             PROVE  /\ step'[t] = "counted" =>
                          /\ facts'[t] \in Facts
                          /\ SeenSince(history'[table'[t]], clock', facts'[t].rows, asked'[t])
                    /\ step'[t] = "read" =>
                          TrueSince(history'[table'[t]], clock', failed'[table'[t]], facts'[t], asked'[t])
  BY DEF ReadsAreRecent
<1> DEFINE k == table[t]
<1>1. /\ CacheTypeOK /\ TimeIsSound /\ ReadsAreRecent /\ k \in Tables
      /\ clock \in Nat /\ clock' \in Nat /\ failed[k] \in Nat /\ failed'[k] \in Nat
      /\ asked[t] \in Nat /\ asked[t] <= clock
      /\ clock <= clock' /\ history[k] \subseteq history'[k] /\ failed[k] <= failed'[k]
  BY TypeStep, TimeGrows DEF IInv, CacheTypeOK, TimeIsSound
<1>2. ASSUME step'[t] = step[t], table'[t] = k, facts'[t] = facts[t], asked'[t] = asked[t]
      PROVE  /\ step'[t] = "counted" =>
                   /\ facts'[t] \in Facts
                   /\ SeenSince(history'[table'[t]], clock', facts'[t].rows, asked'[t])
             /\ step'[t] = "read" =>
                   TrueSince(history'[table'[t]], clock', failed'[table'[t]], facts'[t], asked'[t])
  <2>1. CASE step[t] = "counted"
    <3>1. facts[t] \in Facts /\ SeenSince(history[k], clock, facts[t].rows, asked[t])
      BY <1>1, <2>1 DEF ReadsAreRecent
    <3>2. SeenSince(history'[k], clock', facts[t].rows, asked[t])
      BY <1>1, <3>1, SeenLater
    <3> QED  BY <1>2, <2>1, <3>1, <3>2
  <2>2. CASE step[t] = "read"
    <3>1. TrueSince(history[k], clock, failed[k], facts[t], asked[t])
      BY <1>1, <2>2 DEF ReadsAreRecent
    <3>2. TrueSince(history'[k], clock', failed'[k], facts[t], asked[t])
      BY <1>1, <3>1, TrueLater
    <3> QED  BY <1>2, <2>2, <3>2
  <2> QED  BY <1>2, <2>1, <2>2
<1>3. SeenSince(history[k], clock, analyzed[k], asked[t])
  BY <1>1 DEF SeenSince, TimeIsSound
<1>4. CASE ReadRows(t)
  <2>1. table' = table /\ asked' = asked /\ history' = history /\ clock' = clock /\ failed' = failed
    BY <1>4 DEF ReadRows
  <2>2. CASE analyzed[k] = Never
    <3>1. step'[t] = "read" /\ facts'[t] = Unknown
      BY <1>1, <1>4, <2>2 DEF ReadRows, CacheTypeOK
    <3> QED  BY <1>3, <2>1, <2>2, <3>1 DEF TrueSince
  <2>3. CASE analyzed[k] # Never
    <3> DEFINE f == [rows |-> analyzed[k], columns |-> [c \in Columns |-> Never]]
    <3>1. step'[t] = "counted" /\ facts'[t] = f
      BY <1>1, <1>4, <2>3 DEF ReadRows, CacheTypeOK
    <3>2. f \in Facts /\ f.rows = analyzed[k]
      BY <1>1 DEF Facts, Told, Versions, CacheTypeOK
    <3> HIDE DEF f
    <3> QED  BY <1>3, <2>1, <3>1, <3>2
  <2> QED  BY <2>2, <2>3
<1>5. CASE ReadColumns(t)
  <2> DEFINE f == [facts[t] EXCEPT !.columns = [c \in Columns |-> analyzed[k]]]
  <2>1. table' = table /\ asked' = asked /\ history' = history /\ clock' = clock /\ failed' = failed
    BY <1>5 DEF ReadColumns
  <2>2. facts[t] \in Facts /\ SeenSince(history[k], clock, facts[t].rows, asked[t])
    BY <1>1, <1>5 DEF ReadsAreRecent, ReadColumns
  <2>3. step'[t] = "read" /\ facts'[t] = f
    BY <1>1, <1>5 DEF ReadColumns, CacheTypeOK
  <2>4. f \in Facts /\ f.rows = facts[t].rows /\ \A c \in Columns : f.columns[c] = analyzed[k]
    BY <1>1, <2>2 DEF Facts, Told, Versions, CacheTypeOK
  <2>5. f # Unknown
    BY <2>4, CacheAssumption DEF Facts
  <2> HIDE DEF f
  <2> QED  BY <1>3, <2>1, <2>2, <2>3, <2>4, <2>5 DEF TrueSince
<1>6. CASE ReadFails(t)
  <2>1. step'[t] = "read" /\ facts'[t] = Unknown /\ table' = table /\ asked' = asked
    BY <1>1, <1>6 DEF ReadFails, CacheTypeOK
  <2>2. failed'[k] > asked[t]
    BY <1>1, <1>6 DEF ReadFails, CacheTypeOK
  <2> QED  BY <2>1, <2>2 DEF TrueSince
<1>7. CASE (\E j \in Tables : Ask(t, j)) \/ LookUp(t) \/ StoreEntry(t) \/ GoOn(t)
  <2>1. step'[t] \in {"asked", "reading", "told", "idle"}
    BY <1>1, <1>7 DEF Ask, LookUp, StoreEntry, GoOn, Return, CacheTypeOK
  <2> QED  BY <2>1
<1>8. ASSUME NEW u \in Planners, u # t,
             \/ \E j \in Tables : Ask(u, j)
             \/ LookUp(u) \/ ReadRows(u) \/ ReadColumns(u) \/ ReadFails(u) \/ StoreEntry(u) \/ GoOn(u)
      PROVE  step'[t] = step[t] /\ table'[t] = k /\ facts'[t] = facts[t] /\ asked'[t] = asked[t]
  BY <1>1, <1>8 DEF Ask, LookUp, ReadRows, ReadColumns, ReadFails, StoreEntry, GoOn, Return, CacheTypeOK
<1>9. CASE Invalidate \/ ClockTick \/ \E j \in Tables : Analyze(j)
  <2>1. UNCHANGED lookup_vars
    BY <1>9 DEF Invalidate, ClockTick, Analyze
  <2> QED  BY <1>2, <2>1 DEF lookup_vars
<1> QED  BY <1>2, <1>4, <1>5, <1>6, <1>7, <1>8, <1>9 DEF CacheNext

\* An entry stays within its time to live; a new one was read since its lookup.
LEMMA EntriesStep == IInv /\ CacheNext => EntriesAreRecent'
<1> SUFFICES ASSUME IInv, CacheNext, NEW k \in Tables, cache'[k] # Missing
             PROVE  /\ cache'[k].expires - Ttl \in Nat
                    /\ TrueSince(history'[k], clock', failed'[k], cache'[k].facts, cache'[k].expires - Ttl)
  BY DEF EntriesAreRecent
<1>1. /\ CacheTypeOK /\ EntriesAreRecent /\ ReadsAreRecent
      /\ clock \in Nat /\ clock' \in Nat /\ failed[k] \in Nat /\ failed'[k] \in Nat
      /\ clock <= clock' /\ history[k] \subseteq history'[k] /\ failed[k] <= failed'[k]
  BY TypeStep, TimeGrows DEF IInv, CacheTypeOK
<1>2. CASE cache'[k] = cache[k]
  <2>1. /\ cache[k].expires - Ttl \in Nat
        /\ TrueSince(history[k], clock, failed[k], cache[k].facts, cache[k].expires - Ttl)
    BY <1>1, <1>2 DEF EntriesAreRecent
  <2>2. TrueSince(history'[k], clock', failed'[k], cache[k].facts, cache[k].expires - Ttl)
    BY <1>1, <2>1, TrueLater
  <2> QED  BY <1>2, <2>1, <2>2
<1>3. ASSUME NEW t \in Planners, StoreEntry(t), cache'[k] # cache[k]
      PROVE  /\ cache'[k].expires - Ttl \in Nat
             /\ TrueSince(history'[k], clock', failed'[k], cache'[k].facts, cache'[k].expires - Ttl)
  <2>1. k = table[t] /\ cache'[k] = [expires |-> asked[t] + Ttl, facts |-> facts[t]]
    BY <1>1, <1>3 DEF StoreEntry, Expiry, CacheTypeOK
  <2>2. cache'[k].expires - Ttl = asked[t] /\ cache'[k].facts = facts[t] /\ asked[t] \in Nat
    BY <1>1, <1>3, <2>1, CacheAssumption DEF CacheTypeOK
  <2>3. UNCHANGED <<clock, history, failed>>
    BY <1>3 DEF StoreEntry
  <2>4. TrueSince(history[k], clock, failed[k], facts[t], asked[t])
    BY <1>1, <1>3, <2>1 DEF ReadsAreRecent, StoreEntry
  <2> QED  BY <2>1, <2>2, <2>3, <2>4
<1>4. CASE Invalidate
  BY <1>4 DEF Invalidate
<1>5. CASE \/ ClockTick \/ \E j \in Tables : Analyze(j)
           \/ \E t \in Planners : \/ \E j \in Tables : Ask(t, j)
                                  \/ LookUp(t) \/ ReadRows(t) \/ ReadColumns(t) \/ ReadFails(t) \/ GoOn(t)
  <2>1. cache' = cache
    BY <1>5 DEF Ask, LookUp, ReadRows, ReadColumns, ReadFails, GoOn, Analyze, ClockTick
  <2> QED  BY <1>2, <2>1
<1> QED  BY <1>2, <1>3, <1>4, <1>5 DEF CacheNext

\* What a thread was told stays right, and what it is told now is.
LEMMA ServedStep == IInv /\ CacheNext => ServedStatisticsAreFresh'
<1> SUFFICES ASSUME IInv, CacheNext, NEW t \in Planners, step'[t] = "told"
             PROVE  ToldRightly(history'[table'[t]], clock', failed'[table'[t]], told'[t], View[t], asked'[t])
  BY RightnessIsFreshness DEF ServedStatisticsAreFresh, ToldRightly, WasUnknown, Was
<1> DEFINE k == table[t]
<1>1. /\ CacheTypeOK /\ TimeIsSound /\ EntriesAreRecent /\ ReadsAreRecent /\ k \in Tables
      /\ clock \in Nat /\ clock' \in Nat /\ failed[k] \in Nat /\ failed'[k] \in Nat /\ asked[t] \in Nat
      /\ clock <= clock' /\ history[k] \subseteq history'[k] /\ failed[k] <= failed'[k]
  BY TypeStep, TimeGrows DEF IInv, CacheTypeOK
<1>2. CASE step[t] = "told" /\ table'[t] = k /\ told'[t] = told[t] /\ asked'[t] = asked[t]
  <2>1. ToldRightly(history[k], clock, failed[k], told[t], View[t], asked[t])
    BY <1>2, RightnessIsFreshness DEF IInv
  <2>2. ToldRightly(history'[k], clock', failed'[k], told[t], View[t], asked[t])
    BY <1>1, <2>1, RightLater
  <2> QED  BY <1>2, <2>2
<1>3. CASE LookUp(t)
  <2>1. step[t] = "asked" /\ UNCHANGED <<clock, history, failed, table, asked>>
    BY <1>3 DEF LookUp
  <2>2. Serves(t) /\ Return(t, cache[k].facts)
    BY <1>1, <1>3 DEF LookUp, CacheTypeOK
  <2>3. told'[t] = For(View[t], cache[k].facts)
    BY <1>1, <2>2 DEF Return, TimeIsSound
  <2>4. cache[k] \in Entries /\ cache[k].expires > asked[t]
    BY <1>1, <2>2 DEF Serves, CacheTypeOK
  <2>5. /\ cache[k].facts \in Facts \cup {Unknown}
        /\ cache[k].expires - Ttl \in Nat
        /\ cache[k].expires - Ttl > asked[t] - Ttl
        /\ TrueSince(history[k], clock, failed[k], cache[k].facts, cache[k].expires - Ttl)
    BY <1>1, <2>2, <2>4, CacheAssumption DEF Entries, EntriesAreRecent, Serves
  <2>6. ToldRightly(history[k], clock, failed[k], For(View[t], cache[k].facts), View[t], asked[t])
    BY <1>1, <2>5, ServesRightly
  <2> QED  BY <2>1, <2>3, <2>6
<1>4. CASE StoreEntry(t)
  <2>1. UNCHANGED <<clock, history, failed, table, asked>> /\ Return(t, facts[t]) /\ step[t] = "read"
    BY <1>4 DEF StoreEntry
  <2>2. told'[t] = For(View[t], facts[t])
    BY <1>1, <2>1 DEF Return, TimeIsSound
  <2>3. /\ facts[t] \in Facts \cup {Unknown}
        /\ asked[t] >= asked[t]
        /\ TrueSince(history[k], clock, failed[k], facts[t], asked[t])
    BY <1>1, <2>1 DEF ReadsAreRecent, CacheTypeOK
  <2>4. ToldRightly(history[k], clock, failed[k], For(View[t], facts[t]), View[t], asked[t])
    BY <1>1, <2>3, ServesRightly
  <2> QED  BY <2>1, <2>2, <2>4
<1>5. CASE (\E j \in Tables : Ask(t, j)) \/ ReadRows(t) \/ ReadColumns(t) \/ ReadFails(t) \/ GoOn(t)
  <2>1. step'[t] \in {"asked", "counted", "read", "idle"}
    BY <1>1, <1>5 DEF Ask, ReadRows, ReadColumns, ReadFails, GoOn, CacheTypeOK
  <2> QED  BY <2>1
<1>6. ASSUME NEW u \in Planners, u # t,
             \/ \E j \in Tables : Ask(u, j)
             \/ LookUp(u) \/ ReadRows(u) \/ ReadColumns(u) \/ ReadFails(u) \/ StoreEntry(u) \/ GoOn(u)
      PROVE  step'[t] = step[t] /\ table'[t] = k /\ told'[t] = told[t] /\ asked'[t] = asked[t]
  BY <1>1, <1>6 DEF Ask, LookUp, ReadRows, ReadColumns, ReadFails, StoreEntry, GoOn, Return, CacheTypeOK, TimeIsSound
<1>7. CASE Invalidate \/ ClockTick \/ \E j \in Tables : Analyze(j)
  <2>1. UNCHANGED lookup_vars
    BY <1>7 DEF Invalidate, ClockTick, Analyze
  <2> QED  BY <1>2, <2>1 DEF lookup_vars
<1> QED  BY <1>2, <1>3, <1>4, <1>5, <1>6, <1>7 DEF CacheNext

-----------------------------------------------------------------------------
(* The theorem.                                                              *)

\* Lookups find the cache empty, and tables with what ANALYZE left before.
LEMMA InitIsSound == CacheInit => IInv
<1> SUFFICES ASSUME CacheInit PROVE IInv
  OBVIOUS
<1>1. CacheTypeOK
  <2>1. \A k \in Tables : {<<analyzed[k], 0>>} \in SUBSET (Versions \X Nat)
    BY DEF CacheInit, Versions
  <2>2. analyzed \in [Tables -> Versions] /\ history \in [Tables -> SUBSET (Versions \X Nat)]
    BY <2>1 DEF CacheInit, Versions
  <2> QED  BY <2>2 DEF CacheInit, CacheTypeOK
<1>2. TimeIsSound
  BY DEF CacheInit, TimeIsSound
<1>3. ReadsAreRecent /\ ServedStatisticsAreFresh
  BY DEF CacheInit, ReadsAreRecent, ServedStatisticsAreFresh
<1>4. EntriesAreRecent
  BY DEF CacheInit, EntriesAreRecent
<1> QED  BY <1>1, <1>2, <1>3, <1>4 DEF IInv

\* Whatever threads look up together, whatever fails, is analyzed or invalidated
\* meanwhile: what a thread is told of a table was true within the time to live.
THEOREM FreshStatistics == CacheSpec => []ServedStatisticsAreFresh
<1>1. IInv /\ [CacheNext]_cache_vars => IInv'
  <2>1. CASE CacheNext
    BY <2>1, TypeStep, TimeStep, ReadsStep, EntriesStep, ServedStep DEF IInv
  <2>2. CASE UNCHANGED cache_vars
    BY <2>2 DEF cache_vars, lookup_vars, IInv, CacheTypeOK, TimeIsSound, ReadsAreRecent,
                EntriesAreRecent, ServedStatisticsAreFresh, WasUnknown, Was
  <2> QED  BY <2>1, <2>2
<1>2. IInv => ServedStatisticsAreFresh
  BY DEF IInv
<1> QED  BY InitIsSound, <1>1, <1>2, PTL DEF CacheSpec

-----------------------------------------------------------------------------
(* Powers of two: as many as a set of that size has subsets.                 *)

\* A set with one more element has twice as many subsets.
LEMMA TwiceAsManySubsets ==
    ASSUME NEW S, IsFiniteSet(S), NEW x, x \notin S
    PROVE  Cardinality(SUBSET (S \cup {x})) = 2 * Cardinality(SUBSET S)
<1> DEFINE with == {T \cup {x} : T \in SUBSET S}
           add  == [T \in SUBSET S |-> T \cup {x}]
<1>1. IsFiniteSet(SUBSET S) /\ Cardinality(SUBSET S) \in Nat
  BY FS_SUBSET, FS_CardinalityType
<1>2. add \in Bijection(SUBSET S, with)
  <2>1. add \in [SUBSET S -> with]
    OBVIOUS
  <2>2. \A T, U \in SUBSET S : add[T] = add[U] => T = U
    <3> SUFFICES ASSUME NEW T \in SUBSET S, NEW U \in SUBSET S, T \cup {x} = U \cup {x}
                 PROVE  T = U
      OBVIOUS
    <3>1. x \notin T /\ x \notin U
      OBVIOUS
    <3> QED
      BY <3>1
  <2>3. \A V \in with : \E T \in SUBSET S : add[T] = V
    OBVIOUS
  <2> QED
    BY <2>1, <2>2, <2>3 DEF Bijection, Injection, Surjection, IsInjective
<1>3. IsFiniteSet(with) /\ Cardinality(with) = Cardinality(SUBSET S)
  BY <1>1, <1>2, FS_Bijection DEF ExistsBijection
<1>4. SUBSET (S \cup {x}) = (SUBSET S) \cup with
  <2>1. ASSUME NEW V \in SUBSET (S \cup {x}) PROVE V \in (SUBSET S) \cup with
    <3>1. CASE x \in V
      <4>1. V \ {x} \in SUBSET S /\ V = (V \ {x}) \cup {x}
        BY <3>1
      <4> QED
        BY <4>1
    <3>2. CASE x \notin V
      BY <3>2
    <3> QED
      BY <3>1, <3>2
  <2> QED
    BY <2>1
<1>5. (SUBSET S) \cap with = {}
  OBVIOUS
<1> HIDE DEF with, add
<1>6. Cardinality((SUBSET S) \cup with) = Cardinality(SUBSET S) + Cardinality(with)
  <2>1. Cardinality((SUBSET S) \cup with)
            = Cardinality(SUBSET S) + Cardinality(with) - Cardinality((SUBSET S) \cap with)
    BY <1>1, <1>3, FS_Union
  <2>2. Cardinality((SUBSET S) \cap with) = 0
    BY <1>5, FS_EmptySet
  <2> QED
    BY <1>1, <1>3, <2>1, <2>2
<1>7. Cardinality(SUBSET (S \cup {x})) = Cardinality(SUBSET S) + Cardinality(SUBSET S)
  BY <1>3, <1>4, <1>6
<1> DEFINE c == Cardinality(SUBSET S)
<1>8. c \in Nat
  BY <1>1
<1> HIDE DEF c
<1>9. c + c = 2 * c
  BY <1>8
<1> QED
  BY <1>7, <1>9 DEF c

LEMMA PowersOfTwo ==
    /\ 2 ^ 0 = 1
    /\ \A n \in Nat : 2 ^ n \in Nat /\ 2 ^ n > 0 /\ 2 ^ (n + 1) = 2 * 2 ^ n
<1>1. 2 ^ 0 = 1
  <2>1. Cardinality(SUBSET {}) = 2 ^ 0
    BY FS_SUBSET, FS_EmptySet
  <2>2. SUBSET {} = {{}}
    OBVIOUS
  <2>3. Cardinality({{}}) = 1
    BY FS_Singleton
  <2> QED
    BY <2>1, <2>2, <2>3
<1>2. ASSUME NEW n \in Nat PROVE 2 ^ n \in Nat /\ 2 ^ n > 0 /\ 2 ^ (n + 1) = 2 * 2 ^ n
  <2> DEFINE S == 1 .. n
  <2>1. IsFiniteSet(S) /\ Cardinality(S) = n
    BY FS_Interval
  <2>0. n + 1 \notin S
    OBVIOUS
  <2> HIDE DEF S
  <2>2. IsFiniteSet(S \cup {n + 1}) /\ Cardinality(S \cup {n + 1}) = n + 1
    BY <2>0, <2>1, FS_AddElement
  <2>3. IsFiniteSet(SUBSET S) /\ Cardinality(SUBSET S) = 2 ^ n /\ Cardinality(SUBSET S) \in Nat
    BY <2>1, FS_SUBSET, FS_CardinalityType
  <2>4. Cardinality(SUBSET (S \cup {n + 1})) = 2 ^ (n + 1)
    BY <2>2, FS_SUBSET
  <2>5. Cardinality(SUBSET (S \cup {n + 1})) = 2 * Cardinality(SUBSET S)
    BY <2>0, <2>1, TwiceAsManySubsets
  <2>6. Cardinality(SUBSET S) # 0
    BY <2>3, FS_EmptySet
  <2> QED
    BY <2>3, <2>4, <2>5, <2>6
<1> QED
  BY <1>1, <1>2

-----------------------------------------------------------------------------
(* The store of observations: which keys it remembers.                       *)

StoreType ==
    /\ order \in Seq(ScanKeys)
    /\ value \in [ScanKeys -> Int]
    /\ uses \in Nat
    /\ last_use \in [ScanKeys -> Nat]
    /\ streak \in [ScanKeys -> [rows : Nat, times : Nat, halvings : Nat]]

\* The keys are in the order of their latest use, each of them once; and only a
\* full store forgets, those that were used before all it remembers.
UseOrder ==
    /\ \A m, n \in 1 .. Len(order) : m < n => last_use[order[m]] < last_use[order[n]]
    /\ \A k \in ScanKeys : last_use[k] <= uses
    /\ \A k \in Remembered : last_use[k] > 0
    /\ Len(order) <= Capacity
    /\ \A k \in ScanKeys \ Remembered : last_use[k] > 0 =>
           Len(order) = Capacity /\ \A j \in Remembered : last_use[k] < last_use[j]

\* A key in use moves to the end of the order; when it is new to a full store,
\* the first one makes room.
LEMMA UsedNow ==
    ASSUME StoreType, UseOrder, NEW k \in ScanKeys,
           order' = Evicted(Append(Without(k), k)),
           uses' = uses + 1, last_use' = [last_use EXCEPT ![k] = uses + 1]
    PROVE  order' \in Seq(ScanKeys) /\ UseOrder' /\ Remembered' \subseteq Remembered \cup {k}
<1> DEFINE L == Len(order)
<1>1. /\ L \in Nat /\ L <= Capacity /\ Capacity \in Nat \ {0} /\ uses \in Nat
      /\ DOMAIN order = 1 .. L
      /\ \A n \in 1 .. L : order[n] \in ScanKeys /\ order[n] \in Remembered
      /\ \A j \in Remembered : j \in ScanKeys /\ \E n \in 1 .. L : j = order[n]
  <2>1. L \in Nat /\ DOMAIN order = 1 .. L /\ \A n \in 1 .. L : order[n] \in ScanKeys
    BY DEF StoreType
  <2>2. L <= Capacity /\ Capacity \in Nat \ {0} /\ uses \in Nat
    BY StoreAssumption DEF StoreType, UseOrder
  <2> HIDE DEF L
  <2> QED
    BY <2>1, <2>2 DEF Remembered
<1>L. L = Len(order)
  OBVIOUS
<1> HIDE DEF L
<1>2. /\ last_use'[k] = uses + 1 /\ uses' \in Nat
      /\ \A j \in ScanKeys : /\ last_use[j] \in Nat /\ last_use[j] <= uses
                             /\ j # k => last_use'[j] = last_use[j]
  BY DEF StoreType, UseOrder
<1>3. \A j \in ScanKeys : last_use'[j] <= uses'
  BY <1>1, <1>2
\* The two shapes of the new order.
<1>4. CASE k \in Remembered
  <2> DEFINE p == Place(k)
             w == [n \in 1 .. L - 1 |-> order[IF n < p THEN n ELSE n + 1]]
  <2>1. p \in 1 .. L /\ order[p] = k
    BY <1>1, <1>4 DEF Place
  <2> HIDE DEF p
  <2>2. w \in Seq(ScanKeys) /\ Len(w) = L - 1
    <3>1. \A n \in 1 .. L - 1 : order[IF n < p THEN n ELSE n + 1] \in ScanKeys
      BY <1>1, <2>1
    <3>2. w \in [1 .. L - 1 -> ScanKeys] /\ L - 1 \in Nat
      BY <3>1, <1>1, <2>1
    <3> QED
      BY <3>2
  <2>3. order' = Append(w, k)
    <3>1. Without(k) = w
      BY <1>4, <1>L DEF Without, p
    <3> HIDE DEF w
    <3>2. Len(Append(w, k)) = Len(w) + 1
      BY <2>2
    <3>3. ~(Len(Append(w, k)) > Capacity)
      BY <2>2, <3>2, <1>1
    <3> QED
      BY <3>1, <3>3 DEF Evicted
  <2>4. /\ order' \in Seq(ScanKeys) /\ Len(order') = L /\ order'[L] = k
        /\ \A n \in 1 .. L - 1 : order'[n] = order[IF n < p THEN n ELSE n + 1]
    <3>1. \A n \in 1 .. L - 1 : Append(w, k)[n] = w[n]
      <4> HIDE DEF w
      <4>1. \A n \in 1 .. Len(w) : Append(w, k)[n] = w[n]
        BY <2>2
      <4> QED
        BY <4>1, <2>2
    <3>2. Append(w, k) \in Seq(ScanKeys) /\ Len(Append(w, k)) = L /\ Append(w, k)[L] = k
      <4> HIDE DEF w
      <4>1. /\ Append(w, k) \in Seq(ScanKeys) /\ Len(Append(w, k)) = Len(w) + 1
            /\ Append(w, k)[Len(w) + 1] = k
        BY <2>2
      <4>2. Len(w) + 1 = L
        BY <2>2, <1>1
      <4> QED
        BY <4>1, <4>2
    <3> QED
      BY <2>3, <3>1, <3>2
  <2> HIDE DEF w
  <2>5. \A n \in 1 .. L : n # p => order[n] # k
    <3> SUFFICES ASSUME NEW n \in 1 .. L, n # p, order[n] = k PROVE FALSE
      OBVIOUS
    <3>1. last_use[k] \in Nat
      BY <1>2
    <3>2. n < p \/ p < n
      BY <2>1, <1>1
    <3> QED
      BY <3>1, <3>2, <2>1, <1>L DEF UseOrder
  <2>6. \A n \in 1 .. L - 1 : order'[n] \in ScanKeys /\ order'[n] # k
                              /\ last_use'[order'[n]] = last_use[order'[n]]
    <3> SUFFICES ASSUME NEW n \in 1 .. L - 1
                 PROVE  order'[n] \in ScanKeys /\ order'[n] # k
      BY <1>2
    <3> DEFINE n2 == IF n < p THEN n ELSE n + 1
    <3>1. n2 \in 1 .. L /\ n2 # p
      BY <1>1, <2>1
    <3> QED
      BY <3>1, <1>1, <2>4, <2>5
  <2>7. \A m, n \in 1 .. Len(order') : m < n => last_use'[order'[m]] < last_use'[order'[n]]
    <3> SUFFICES ASSUME NEW m \in 1 .. L, NEW n \in 1 .. L, m < n
                 PROVE  last_use'[order'[m]] < last_use'[order'[n]]
      BY <2>4
    <3>1. m \in 1 .. L - 1
      BY <1>1
    <3>2. CASE n = L
      <4>1. last_use[order'[m]] <= uses /\ last_use[order'[m]] \in Nat
        BY <3>1, <2>6, <1>2
      <4> QED
        BY <3>1, <3>2, <4>1, <2>4, <2>6, <1>1, <1>2
    <3>3. CASE n # L
      <4>1. n \in 1 .. L - 1
        BY <3>3, <1>1
      <4> DEFINE m2 == IF m < p THEN m ELSE m + 1
                 n2 == IF n < p THEN n ELSE n + 1
      <4>2. m2 \in 1 .. L /\ n2 \in 1 .. L /\ m2 < n2
        BY <1>1, <2>1, <3>1, <4>1
      <4>3. last_use[order[m2]] < last_use[order[n2]]
        BY <4>2, <1>L DEF UseOrder
      <4> QED
        BY <4>1, <4>3, <3>1, <2>4, <2>6
    <3> QED
      BY <3>2, <3>3
  <2>8. Remembered' = Remembered
    <3>1. DOMAIN order' = 1 .. L
      BY <2>4
    <3>2. ASSUME NEW n \in 1 .. L PROVE order'[n] \in Remembered
      <4>1. CASE n = L
        BY <1>4, <2>4, <4>1
      <4>2. CASE n # L
        <5>1. n \in 1 .. L - 1 /\ (IF n < p THEN n ELSE n + 1) \in 1 .. L
          BY <4>2, <1>1
        <5> QED
          BY <5>1, <1>1, <2>4
      <4> QED
        BY <4>1, <4>2
    <3>3. ASSUME NEW n \in 1 .. L PROVE \E m \in 1 .. L : order'[m] = order[n]
      <4>1. CASE n < p
        <5>1. n \in 1 .. L - 1
          BY <4>1, <1>1, <2>1
        <5> QED
          BY <4>1, <5>1, <2>4, <1>1
      <4>2. CASE n = p
        BY <4>2, <2>1, <2>4, <1>1
      <4>3. CASE n > p
        <5>1. n - 1 \in 1 .. L - 1 /\ ~(n - 1 < p) /\ (n - 1) + 1 = n
          BY <4>3, <1>1, <2>1
        <5> QED
          BY <5>1, <2>4, <1>1
      <4> QED
        BY <4>1, <4>2, <4>3, <1>1, <2>1
    <3>4. Remembered = {order[n] : n \in 1 .. L} /\ Remembered' = {order'[n] : n \in 1 .. L}
      BY <3>1, <1>1 DEF Remembered
    <3>5. Remembered' \subseteq Remembered
      BY <3>2, <3>4
    <3>6. Remembered \subseteq Remembered'
      BY <3>3, <3>4
    <3> QED
      BY <3>5, <3>6
  <2>9. \A j \in ScanKeys \ Remembered : last_use'[j] > 0 =>
            L = Capacity /\ \A i \in Remembered : last_use'[j] < last_use'[i]
    <3> SUFFICES ASSUME NEW j \in ScanKeys \ Remembered, last_use'[j] > 0
                 PROVE  L = Capacity /\ \A i \in Remembered : last_use'[j] < last_use'[i]
      OBVIOUS
    <3>1. j # k /\ last_use'[j] = last_use[j]
      BY <1>2, <1>4
    <3>2. L = Capacity /\ \A i \in Remembered : last_use[j] < last_use[i]
      BY <3>1, <1>L DEF UseOrder
    <3> QED
      BY <3>1, <3>2, <1>1, <1>2
  <2>10. \A i \in Remembered : last_use'[i] > 0
    <3> SUFFICES ASSUME NEW i \in Remembered PROVE last_use'[i] > 0
      OBVIOUS
    <3>1. i \in ScanKeys /\ last_use[i] > 0
      BY <1>1 DEF UseOrder
    <3> QED
      BY <3>1, <1>1, <1>2
  <2> QED
    BY <1>1, <1>3, <2>4, <2>7, <2>8, <2>9, <2>10 DEF UseOrder
<1>5. CASE k \notin Remembered
  <2> DEFINE s == Append(order, k)
  <2>1. /\ s \in Seq(ScanKeys) /\ Len(s) = L + 1 /\ s[L + 1] = k
        /\ \A n \in 1 .. L : s[n] = order[n]
    BY <1>L DEF StoreType
  <2>2. order' = IF L + 1 > Capacity THEN Tail(s) ELSE s
    BY <1>5, <2>1 DEF Without, Evicted
  <2>3. \A n \in 1 .. L : order[n] # k /\ last_use'[order[n]] = last_use[order[n]]
    BY <1>1, <1>2, <1>5
  <2>4. \A m, n \in 1 .. L + 1 : m < n => last_use'[s[m]] < last_use'[s[n]]
    <3> SUFFICES ASSUME NEW m \in 1 .. L + 1, NEW n \in 1 .. L + 1, m < n
                 PROVE  last_use'[s[m]] < last_use'[s[n]]
      OBVIOUS
    <3>1. m \in 1 .. L /\ last_use'[s[m]] = last_use[order[m]] /\ last_use[order[m]] \in Nat
          /\ last_use[order[m]] <= uses
      BY <1>1, <1>2, <2>1, <2>3
    <3>2. CASE n = L + 1
      BY <3>1, <3>2, <2>1, <1>1, <1>2
    <3>3. CASE n # L + 1
      <4>1. n \in 1 .. L /\ last_use'[s[n]] = last_use[order[n]]
        BY <3>3, <1>1, <2>1, <2>3
      <4> QED
        BY <3>1, <4>1, <1>L DEF UseOrder
    <3> QED
      BY <3>2, <3>3
  <2>5. \A n \in 1 .. L + 1 : s[n] \in ScanKeys /\ last_use'[s[n]] > 0
    <3> SUFFICES ASSUME NEW n \in 1 .. L + 1 PROVE s[n] \in ScanKeys /\ last_use'[s[n]] > 0
      OBVIOUS
    <3>1. CASE n = L + 1
      BY <3>1, <2>1, <1>1, <1>2
    <3>2. CASE n # L + 1
      <4>1. n \in 1 .. L
        BY <3>2, <1>1
      <4> QED
        BY <4>1, <2>1, <2>3, <1>1 DEF UseOrder
    <3> QED
      BY <3>1, <3>2
  <2> HIDE DEF s
  <2>6. CASE L < Capacity
    <3>1. order' = s /\ DOMAIN s = 1 .. L + 1
      BY <2>1, <2>2, <2>6, <1>1
    <3>2. Remembered' = Remembered \cup {k}
      <4>1. Remembered' = {s[n] : n \in 1 .. L + 1}
        BY <3>1 DEF Remembered
      <4>2. \A n \in 1 .. L + 1 : n = L + 1 \/ n \in 1 .. L
        BY <1>1
      <4>3. L + 1 \in 1 .. L + 1 /\ \A n \in 1 .. L : n \in 1 .. L + 1
        BY <1>1
      <4>4. Remembered = {order[n] : n \in 1 .. L}
        BY <1>1 DEF Remembered
      <4>5. \A n \in 1 .. L : s[n] = order[n]
        BY <2>1
      <4>6. s[L + 1] = k
        BY <2>1
      <4> QED
        BY <4>1, <4>2, <4>3, <4>4, <4>5, <4>6
    <3>3. \A j \in ScanKeys \ Remembered' : ~(last_use'[j] > 0)
      <4> SUFFICES ASSUME NEW j \in ScanKeys \ Remembered', last_use'[j] > 0 PROVE FALSE
        OBVIOUS
      <4>1. j # k /\ j \notin Remembered /\ last_use[j] > 0
        BY <3>2, <1>2
      <4>2. j \in ScanKeys \ Remembered /\ L # Capacity
        BY <4>1, <2>6, <1>1
      <4> QED
        BY <4>1, <4>2, <1>L DEF UseOrder
    <3>4. \A j \in Remembered' : last_use'[j] > 0
      BY <3>1, <2>5 DEF Remembered
    <3>5. Len(order') <= Capacity /\ Len(order') = L + 1 /\ order' \in Seq(ScanKeys)
      BY <3>1, <2>1, <2>6, <1>1
    <3> QED
      BY <1>3, <2>4, <3>1, <3>2, <3>3, <3>4, <3>5 DEF UseOrder
  <2>7. CASE L = Capacity
    <3>1. order' = Tail(s) /\ L \in Nat \ {0}
      BY <2>2, <2>7, <1>1
    <3>2. /\ order' \in Seq(ScanKeys) /\ Len(order') = L /\ DOMAIN order' = 1 .. L
          /\ \A n \in 1 .. L : order'[n] = s[n + 1]
      <4>1. Len(Tail(s)) = L /\ Tail(s) \in Seq(ScanKeys)
            /\ \A n \in 1 .. L : Tail(s)[n] = s[n + 1]
        BY <2>1, <3>1
      <4> QED
        BY <4>1, <3>1
    <3>3. \A m, n \in 1 .. Len(order') : m < n => last_use'[order'[m]] < last_use'[order'[n]]
      <4> SUFFICES ASSUME NEW m \in 1 .. L, NEW n \in 1 .. L, m < n
                   PROVE  last_use'[s[m + 1]] < last_use'[s[n + 1]]
        BY <3>2
      <4>1. m + 1 \in 1 .. L + 1 /\ n + 1 \in 1 .. L + 1 /\ m + 1 < n + 1
        BY <1>1
      <4> QED
        BY <4>1, <2>4
    <3>4. \A j \in Remembered' : last_use'[j] > 0
      <4>1. \A n \in 1 .. L : n + 1 \in 1 .. L + 1
        BY <1>1
      <4> QED
        BY <4>1, <3>2, <2>5 DEF Remembered
    <3>5. ASSUME NEW j \in ScanKeys \ Remembered', last_use'[j] > 0, NEW i \in Remembered'
          PROVE  last_use'[j] < last_use'[i]
      <4>1. PICK n \in 1 .. L : i = s[n + 1]
        BY <3>2 DEF Remembered
      <4>2. n + 1 \in 1 .. L + 1 /\ 1 \in 1 .. L + 1 /\ 1 < n + 1
        BY <1>1
      <4>3. k \in Remembered'
        <5>1. L \in 1 .. L
          BY <3>1
        <5> QED
          BY <5>1, <3>2, <2>1 DEF Remembered
      <4>4. j # k /\ last_use'[j] = last_use[j] /\ last_use[j] > 0
        BY <3>5, <4>3, <1>2
      <4>5. CASE j \in Remembered
        <5>1. PICK m \in 1 .. L : j = order[m]
          BY <4>5, <1>1
        <5>2. m = 1
          <6> SUFFICES ASSUME m # 1 PROVE FALSE
            OBVIOUS
          <6>1. m - 1 \in 1 .. L /\ (m - 1) + 1 = m
            BY <5>1, <1>1
          <6>2. order'[m - 1] = j
            BY <6>1, <5>1, <3>2, <2>1
          <6> QED
            BY <6>1, <6>2, <3>2, <3>5 DEF Remembered
        <5>3. j = s[1]
          BY <5>1, <5>2, <2>1
        <5> QED
          BY <4>1, <4>2, <5>3, <2>4
      <4>6. CASE j \notin Remembered
        <5>1. \A m \in 1 .. L : last_use[j] < last_use[order[m]]
          BY <4>4, <4>6, <1>1 DEF UseOrder
        <5>2. CASE n = L
          <6>1. i = k /\ last_use[j] <= uses /\ last_use[j] \in Nat
            BY <5>2, <4>1, <2>1, <1>2
          <6> QED
            BY <6>1, <4>4, <1>1, <1>2
        <5>3. CASE n # L
          <6>1. n + 1 \in 1 .. L
            BY <5>3, <1>1
          <6> QED
            BY <5>1, <6>1, <4>1, <4>4, <2>1, <2>3
        <5> QED
          BY <5>2, <5>3
      <4> QED
        BY <4>5, <4>6
    <3>6. Remembered' \subseteq Remembered \cup {k}
      <4>1. \A n \in 1 .. L : (n + 1 \in 1 .. L /\ order'[n] = order[n + 1]) \/ order'[n] = k
        <5> SUFFICES ASSUME NEW n \in 1 .. L
                     PROVE  (n + 1 \in 1 .. L /\ order'[n] = order[n + 1]) \/ order'[n] = k
          OBVIOUS
        <5>1. n = L \/ n + 1 \in 1 .. L
          BY <1>1
        <5> QED
          BY <5>1, <2>1, <3>2
      <4>2. Remembered' = {order'[n] : n \in 1 .. L}
        BY <3>2 DEF Remembered
      <4> QED
        BY <4>1, <4>2, <1>1
    <3> QED
      BY <1>1, <1>3, <2>7, <3>2, <3>3, <3>4, <3>5, <3>6 DEF UseOrder
  <2> QED
    BY <2>6, <2>7, <1>1
<1> QED
  BY <1>4, <1>5
\* The order without a key it holds is a place shorter.
LEMMA WithoutOne ==
    ASSUME StoreType, NEW k \in Remembered
    PROVE  Without(k) \in Seq(ScanKeys) /\ Len(Without(k)) = Len(order) - 1
<1> DEFINE L == Len(order)
           w == [n \in 1 .. L - 1 |-> order[IF n < Place(k) THEN n ELSE n + 1]]
<1>1. L \in Nat /\ DOMAIN order = 1 .. L /\ \A n \in 1 .. L : order[n] \in ScanKeys
  BY DEF StoreType
<1>2. Place(k) \in 1 .. L
  BY <1>1 DEF Place, Remembered
<1>3. Without(k) = w
  BY DEF Without
<1> HIDE DEF L
<1>4. w \in [1 .. L - 1 -> ScanKeys] /\ L - 1 \in Nat
  BY <1>1, <1>2
<1>5. w \in Seq(ScanKeys) /\ Len(w) = L - 1
  BY <1>4
<1> QED
  BY <1>3, <1>5 DEF L

\* A key that is found moves to the end of the order; none goes.
LEMMA FoundIsUsed ==
    ASSUME StoreType, UseOrder, NEW k \in ScanKeys, Find(k)
    PROVE  order' \in Seq(ScanKeys) /\ UseOrder' /\ Remembered' \subseteq Remembered
<1>1. Evicted(MovedToEnd(k)) = MovedToEnd(k)
  <2>1. Len(order) \in Nat /\ DOMAIN order = 1 .. Len(order)
    BY DEF StoreType
  <2>2. Without(k) \in Seq(ScanKeys) /\ Len(Without(k)) = Len(order) - 1
    BY WithoutOne DEF Find
  <2>3. Len(Append(Without(k), k)) = Len(Without(k)) + 1
    BY <2>2
  <2>4. Len(order) <= Capacity /\ Capacity \in Nat
    BY StoreAssumption DEF UseOrder
  <2>5. ~(Len(Append(Without(k), k)) > Capacity)
    BY <2>1, <2>2, <2>3, <2>4
  <2> QED
    BY <2>5 DEF Evicted, MovedToEnd
<1>2. order' \in Seq(ScanKeys) /\ UseOrder' /\ Remembered' \subseteq Remembered \cup {k}
  BY <1>1, UsedNow DEF Find, MovedToEnd
<1> QED
  BY <1>2 DEF Find

\* Every operation keeps the keys in the order of their use.
LEMMA StoreStep ==
    ASSUME StoreType, UseOrder, [StoreNext]_store_vars
    PROVE  StoreType' /\ UseOrder'
<1> USE StoreAssumption
<1>1. ASSUME NEW k \in ScanKeys, NEW count \in Counts, RecordRows(k, count)
      PROVE  StoreType' /\ UseOrder'
  <2>1. order' \in Seq(ScanKeys) /\ UseOrder'
    BY <1>1, UsedNow DEF RecordRows
  <2>2. uses' \in Nat /\ last_use' \in [ScanKeys -> Nat]
    BY <1>1 DEF RecordRows, StoreType
  <2>3. Unit \in Int /\ Moved(k, count) \in Int
    <3>1. Unit \in Nat
      BY PowersOfTwo DEF Unit
    <3>2. value[k] \in Int /\ count * Unit \in Int
      BY <3>1 DEF StoreType
    <3> QED
      BY <3>1, <3>2 DEF Moved
  <2>4. value' \in [ScanKeys -> Int]
    BY <1>1, <2>3 DEF RecordRows, StoreType
  <2>5. streak' \in [ScanKeys -> [rows : Nat, times : Nat, halvings : Nat]]
    <3>1. streak[k] \in [rows : Nat, times : Nat, halvings : Nat] /\ count \in Nat
      BY DEF StoreType
    <3> DEFINE s == IF k \notin Remembered THEN [rows |-> count, times |-> 1, halvings |-> 0]
                    ELSE [rows |-> count, halvings |-> streak[k].halvings + 1,
                          times |-> IF streak[k].rows = count THEN streak[k].times + 1 ELSE 1]
    <3>2. s \in [rows : Nat, times : Nat, halvings : Nat]
      BY <3>1
    <3>3. streak' = [streak EXCEPT ![k] = s]
      BY <1>1 DEF RecordRows, StoreType
    <3> HIDE DEF s
    <3> QED
      BY <3>2, <3>3 DEF StoreType
  <2> QED
    BY <2>1, <2>2, <2>4, <2>5 DEF StoreType
<1>2. ASSUME NEW k \in ScanKeys, Find(k) PROVE StoreType' /\ UseOrder'
  <2>1. order' \in Seq(ScanKeys) /\ UseOrder'
    BY <1>2, FoundIsUsed
  <2> QED
    BY <1>2, <2>1 DEF Find, StoreType
<1>3. CASE UNCHANGED store_vars
  <2>1. order' = order /\ value' = value /\ uses' = uses /\ last_use' = last_use /\ streak' = streak
    BY <1>3 DEF store_vars
  <2>2. Remembered' = Remembered
    BY <2>1 DEF Remembered
  <2>3. StoreType'
    BY <2>1 DEF StoreType
  <2>4. /\ \A m, n \in 1 .. Len(order') : m < n => last_use'[order'[m]] < last_use'[order'[n]]
        /\ Len(order') <= Capacity
    BY <2>1 DEF UseOrder
  <2>5. /\ \A k \in ScanKeys : last_use'[k] <= uses'
        /\ \A k \in Remembered' : last_use'[k] > 0
    BY <2>1, <2>2 DEF UseOrder
  <2>6. \A k \in ScanKeys \ Remembered' : last_use'[k] > 0 =>
            Len(order') = Capacity /\ \A j \in Remembered' : last_use'[k] < last_use'[j]
    BY <2>1, <2>2 DEF UseOrder
  <2>7. UseOrder'
    BY <2>4, <2>5, <2>6 DEF UseOrder
  <2> QED
    BY <2>3, <2>7
<1> QED
  BY <1>1, <1>2, <1>3 DEF StoreNext

\* An empty store has nothing in the wrong order.
LEMMA StoreInitially == StoreInit => StoreType /\ UseOrder
<1> SUFFICES ASSUME StoreInit PROVE StoreType /\ UseOrder
  OBVIOUS
<1>1. order = <<>> /\ order \in Seq(ScanKeys) /\ Len(order) = 0 /\ Remembered = {}
  BY DEF StoreInit, Remembered
<1>2. StoreType
  BY <1>1 DEF StoreInit, StoreType
<1> QED
  BY <1>1, <1>2, StoreAssumption DEF StoreInit, UseOrder

\* As many keys are remembered as there are places in the order.
LEMMA EachOnce ==
    ASSUME StoreType, UseOrder
    PROVE  IsFiniteSet(Remembered) /\ Cardinality(Remembered) = Len(order)
<1> DEFINE L == Len(order)
           place == [n \in 1 .. L |-> order[n]]
<1>1. L \in Nat /\ DOMAIN order = 1 .. L /\ \A n \in 1 .. L : order[n] \in ScanKeys
  BY DEF StoreType
<1>2. \A m, n \in 1 .. L : order[m] = order[n] => m = n
  <2> SUFFICES ASSUME NEW m \in 1 .. L, NEW n \in 1 .. L, order[m] = order[n], m # n PROVE FALSE
    OBVIOUS
  <2>1. last_use[order[m]] \in Nat /\ (m < n \/ n < m)
    BY <1>1 DEF StoreType
  <2> QED
    BY <2>1 DEF UseOrder
<1>3. place \in Bijection(1 .. L, Remembered)
  <2>1. place \in [1 .. L -> Remembered]
    BY <1>1 DEF Remembered
  <2>2. \A k \in Remembered : \E n \in 1 .. L : place[n] = k
    BY <1>1 DEF Remembered
  <2>3. \A m, n \in 1 .. L : place[m] = place[n] => m = n
    BY <1>2
  <2> HIDE DEF place
  <2>4. place \in Injection(1 .. L, Remembered)
    BY <2>1, <2>3 DEF Injection, IsInjective
  <2>5. place \in Surjection(1 .. L, Remembered)
    BY <2>1, <2>2 DEF Surjection
  <2> QED
    BY <2>4, <2>5 DEF Bijection
<1>4. IsFiniteSet(1 .. L) /\ Cardinality(1 .. L) = L
  BY <1>1, FS_Interval
<1> HIDE DEF place
<1> QED
  BY <1>3, <1>4, FS_Bijection DEF ExistsBijection

\* Whatever was recorded and looked up, by whatever threads: the keys used most
\* recently are remembered, as many as there is room for.
THEOREM MostRecentRemembered == StoreSpec => []KeepsTheMostRecent
<1> DEFINE used     == {k \in ScanKeys : last_use[k] > 0}
           newer(k) == {j \in used : last_use[j] > last_use[k]}
<1>1. ASSUME StoreType, UseOrder PROVE KeepsTheMostRecent
  <2>1. /\ Len(order) \in Nat /\ Len(order) <= Capacity /\ Capacity \in Nat
        /\ DOMAIN order = 1 .. Len(order)
        /\ \A n \in 1 .. Len(order) : order[n] \in ScanKeys
    <3>1. Len(order) <= Capacity /\ Capacity \in Nat
      BY <1>1, StoreAssumption DEF UseOrder
    <3>2. /\ Len(order) \in Nat /\ DOMAIN order = 1 .. Len(order)
          /\ \A n \in 1 .. Len(order) : order[n] \in ScanKeys
      BY <1>1 DEF StoreType
    <3> QED
      BY <3>1, <3>2
  <2>2. IsFiniteSet(Remembered) /\ Cardinality(Remembered) = Len(order)
    BY <1>1, EachOnce
  <2>3. Remembered \subseteq used
    BY <1>1, <2>1 DEF UseOrder, Remembered
  <2>4. \A k \in ScanKeys : last_use[k] \in Nat
    BY <1>1 DEF StoreType
  <2>5. \A k \in used : IsFiniteSet(newer(k)) /\ Cardinality(newer(k)) \in Nat
    <3> SUFFICES ASSUME NEW k \in used PROVE IsFiniteSet(newer(k))
      BY FS_CardinalityType
    <3>1. newer(k) \in SUBSET ScanKeys
      OBVIOUS
    <3> HIDE DEF used
    <3> QED
      BY <3>1, FS_Subset, StoreAssumption
  <2>6. ASSUME NEW k \in Remembered PROVE Cardinality(newer(k)) < Capacity
    <3>1. newer(k) \in SUBSET (Remembered \ {k})
      <4> SUFFICES ASSUME NEW j \in newer(k) PROVE j \in Remembered /\ j # k
        OBVIOUS
      <4>1. j \in ScanKeys /\ last_use[j] > 0 /\ last_use[j] > last_use[k] /\ k \in ScanKeys
        BY <2>3
      <4>2. j # k
        BY <4>1, <2>4
      <4>3. j \in Remembered
        BY <1>1, <2>4, <4>1 DEF UseOrder
      <4> QED
        BY <4>2, <4>3
    <3>2. IsFiniteSet(Remembered \ {k}) /\ Cardinality(Remembered \ {k}) = Len(order) - 1
      BY <2>2, FS_RemoveElement
    <3>3. Cardinality(newer(k)) <= Len(order) - 1
      <4> HIDE DEF newer
      <4> QED
        BY <3>1, <3>2, FS_Subset
    <3>4. Cardinality(newer(k)) \in Nat
      BY <2>3, <2>5
    <3> HIDE DEF newer, used
    <3> QED
      BY <2>1, <3>3, <3>4
  <2>7. ASSUME NEW k \in used, k \notin Remembered PROVE ~(Cardinality(newer(k)) < Capacity)
    <3>1. Len(order) = Capacity /\ \A j \in Remembered : last_use[k] < last_use[j]
      BY <1>1, <2>7 DEF UseOrder
    <3>2. Remembered \in SUBSET newer(k)
      <4> SUFFICES ASSUME NEW j \in Remembered PROVE j \in newer(k)
        OBVIOUS
      <4>1. j \in used /\ j \in ScanKeys /\ k \in ScanKeys /\ last_use[k] < last_use[j]
        BY <2>3, <3>1
      <4>2. last_use[j] > last_use[k]
        BY <2>4, <4>1
      <4> QED
        BY <4>1, <4>2
    <3>3. Cardinality(Remembered) <= Cardinality(newer(k)) /\ Cardinality(newer(k)) \in Nat
      <4>1. IsFiniteSet(newer(k)) /\ Cardinality(newer(k)) \in Nat
        BY <2>5
      <4> HIDE DEF newer
      <4> QED
        BY <3>2, <4>1, FS_Subset
    <3> HIDE DEF newer, used
    <3> QED
      BY <2>1, <2>2, <3>1, <3>3
  <2>8. Remembered = {k \in used : Cardinality(newer(k)) < Capacity}
    BY <2>3, <2>6, <2>7
  <2> QED
    BY <2>2, <2>8 DEF KeepsTheMostRecent
<1>2. StoreInit => StoreType /\ UseOrder
  BY StoreInitially
<1>3. StoreType /\ UseOrder /\ [StoreNext]_store_vars => (StoreType /\ UseOrder)'
  BY StoreStep
<1> QED
  BY <1>1, <1>2, <1>3, PTL DEF StoreSpec

-----------------------------------------------------------------------------
(* The store of observations: what it remembers of a key.                    *)

Most == Largest(Counts) * Unit

Size(n) == IF n < 0 THEN -n ELSE n

\* What is remembered of a key was observed at least once, within the range of
\* the counts; each time the latest count came again, the distance to it halved;
\* and the number can be halved as often as the bound still allows, without a
\* rest.
KeyFollows(k) ==
    LET rest == 2 ^ (MaxHalvings - streak[k].halvings)
    IN  /\ streak[k].rows \in Counts /\ streak[k].times > 0
        /\ streak[k].halvings <= MaxHalvings
        /\ 0 <= value[k] /\ value[k] <= Most
        /\ \E n \in Int : value[k] = n * rest
        /\ \E n \in Int : Unit = n * rest
        /\ Size(value[k] - streak[k].rows * Unit) * 2 ^ (streak[k].times - 1) <= Most

Follows == \A k \in Remembered : KeyFollows(k)

LEMMA CountsAreBounded ==
    /\ Unit \in Nat /\ Most \in Nat
    /\ \A count \in Counts : count \in Nat /\ count * Unit \in Nat /\ count * Unit <= Most
<1>1. Unit \in Nat
  BY PowersOfTwo, StoreAssumption DEF Unit
<1>2. Largest(Counts) \in Counts /\ \A count \in Counts : count <= Largest(Counts)
  BY StoreAssumption DEF Largest
<1>3. Counts \subseteq Nat
  BY StoreAssumption
<1>4. \A m, n \in Nat : m <= n => m * Unit \in Nat /\ m * Unit <= n * Unit
  BY <1>1, SMTT(30)
<1> QED
  BY <1>1, <1>2, <1>3, <1>4 DEF Most

\* An observation of a key that is remembered.
LEMMA HalfwayToTheCount ==
    ASSUME StoreType, NEW k \in Remembered, NEW count \in Counts, KeyFollows(k),
           RecordRows(k, count)
    PROVE  KeyFollows(k)'
<1> DEFINE h == streak[k].halvings
           s == streak[k].times
           a == 2 ^ (MaxHalvings - (h + 1))
<1>1. /\ k \in ScanKeys /\ h \in Nat /\ h < MaxHalvings /\ MaxHalvings \in Nat
      /\ s \in Nat \ {0} /\ value[k] \in Int
  <2>1. k \in ScanKeys
    <3>1. DOMAIN order = 1 .. Len(order) /\ \A n \in 1 .. Len(order) : order[n] \in ScanKeys
      BY DEF StoreType
    <3> QED
      BY <3>1 DEF Remembered
  <2>2. h \in Nat /\ s \in Nat /\ value[k] \in Int
    BY <2>1 DEF StoreType
  <2>3. h < MaxHalvings /\ s > 0
    BY DEF RecordRows, KeyFollows
  <2> QED
    BY <2>1, <2>2, <2>3, StoreAssumption
<1>2. /\ value'[k] = value[k] + (count * Unit - value[k]) \div 2
      /\ streak'[k] = [rows |-> count, halvings |-> h + 1,
                       times |-> IF streak[k].rows = count THEN s + 1 ELSE 1]
  BY <1>1 DEF RecordRows, StoreType, Moved
<1>3. a \in Nat /\ 2 ^ (MaxHalvings - h) = 2 * a
  <2>1. MaxHalvings - (h + 1) \in Nat /\ (MaxHalvings - (h + 1)) + 1 = MaxHalvings - h
    BY <1>1
  <2> QED
    BY <2>1, PowersOfTwo
<1> HIDE DEF a
<1>4. PICK m \in Int : value[k] = m * (2 * a)
  BY <1>3 DEF KeyFollows
<1>5. PICK u \in Int : Unit = u * (2 * a)
  BY <1>3 DEF KeyFollows
<1> DEFINE v == m * a
           c == (count * u) * a
<1>6. v \in Int /\ c \in Int /\ count \in Nat /\ Unit \in Nat /\ Most \in Nat /\ count * Unit <= Most
  BY <1>3, CountsAreBounded
<1>7. value[k] = 2 * v /\ count * Unit = 2 * c
  BY <1>3, <1>4, <1>5, <1>6, SMTT(30)
<1>8. v + c = (m + count * u) * a
  BY <1>3, <1>6, SMTT(30)
<1>9. Unit = (2 * u) * a
  BY <1>3, <1>5, SMTT(30)
<1> HIDE DEF v, c
<1>10. value'[k] = v + c
  BY <1>2, <1>6, <1>7
<1>11. 0 <= value'[k] /\ value'[k] <= Most
  <2>1. 0 <= 2 * v /\ 2 * v <= Most /\ 0 <= 2 * c /\ 2 * c <= Most
    BY <1>6, <1>7, CountsAreBounded DEF KeyFollows
  <2> QED
    BY <1>6, <1>10, <2>1
<1>12. /\ \E n \in Int : value'[k] = n * 2 ^ (MaxHalvings - streak'[k].halvings)
       /\ \E n \in Int : Unit = n * 2 ^ (MaxHalvings - streak'[k].halvings)
  <2>1. 2 ^ (MaxHalvings - streak'[k].halvings) = a
    BY <1>2 DEF a
  <2>2. m + count * u \in Int /\ 2 * u \in Int
    BY <1>6
  <2> QED
    BY <1>8, <1>9, <1>10, <2>1, <2>2
<1>13. Size(value'[k] - streak'[k].rows * Unit) * 2 ^ (streak'[k].times - 1) <= Most
  <2>1. value'[k] - streak'[k].rows * Unit = v - c
    BY <1>2, <1>6, <1>7, <1>10
  <2>2. CASE streak[k].rows = count
    <3>1. value[k] - streak[k].rows * Unit = 2 * (v - c)
      BY <1>6, <1>7, <2>2
    <3>2. Size(2 * (v - c)) = 2 * Size(v - c) /\ Size(v - c) \in Nat
      BY <1>6 DEF Size
    <3> DEFINE p == 2 ^ (s - 1)
    <3>3. p \in Nat /\ 2 ^ s = 2 * p
      <4>1. s - 1 \in Nat /\ (s - 1) + 1 = s
        BY <1>1
      <4> QED
        BY <4>1, PowersOfTwo
    <3>4. (2 * Size(v - c)) * p <= Most
      BY <3>1, <3>2 DEF KeyFollows
    <3>5. streak'[k].times - 1 = s
      BY <1>1, <1>2, <2>2
    <3> HIDE DEF p
    <3>6. Size(v - c) * (2 * p) = (2 * Size(v - c)) * p
      BY <3>2, <3>3, SMTT(30)
    <3> QED
      BY <2>1, <3>3, <3>4, <3>5, <3>6
  <2>3. CASE streak[k].rows # count
    <3>1. streak'[k].times - 1 = 0
      BY <1>2, <2>3
    <3>2. Size(v - c) <= Most /\ Size(v - c) \in Nat
      <4>1. 0 <= 2 * v /\ 2 * v <= Most /\ 0 <= 2 * c /\ 2 * c <= Most
        BY <1>6, <1>7, CountsAreBounded DEF KeyFollows
      <4> QED
        BY <4>1, <1>6 DEF Size
    <3>3. 2 ^ (streak'[k].times - 1) = 1
      BY <3>1, PowersOfTwo
    <3> QED
      BY <2>1, <3>2, <3>3
  <2> QED
    BY <2>2, <2>3
<1>14. /\ streak'[k].rows \in Counts /\ streak'[k].times > 0
       /\ streak'[k].halvings <= MaxHalvings
  BY <1>1, <1>2
<1> QED
  BY <1>11, <1>12, <1>13, <1>14 DEF KeyFollows, Most, Unit, Size

\* The first observation of a key, or the first since it was forgotten.
LEMMA TakenAsItIs ==
    ASSUME StoreType, NEW k \in ScanKeys \ Remembered, NEW count \in Counts, RecordRows(k, count)
    PROVE  KeyFollows(k)'
<1>1. /\ value'[k] = count * Unit
      /\ streak'[k] = [rows |-> count, times |-> 1, halvings |-> 0]
  BY DEF RecordRows, StoreType, Moved
<1>2. /\ count \in Nat /\ Unit \in Nat /\ Most \in Nat /\ MaxHalvings \in Nat
      /\ count * Unit \in Nat /\ count * Unit <= Most
  BY CountsAreBounded, StoreAssumption
<1>3. 2 ^ (MaxHalvings - streak'[k].halvings) = Unit
  <2>1. MaxHalvings - streak'[k].halvings = MaxHalvings
    BY <1>1, <1>2
  <2> QED
    BY <2>1 DEF Unit
<1>4. /\ \E n \in Int : value'[k] = n * 2 ^ (MaxHalvings - streak'[k].halvings)
      /\ \E n \in Int : Unit = n * 2 ^ (MaxHalvings - streak'[k].halvings)
  <2>1. Unit = 1 * Unit /\ 1 \in Int /\ count \in Int
    BY <1>2
  <2> QED
    BY <1>1, <1>3, <2>1
<1>5. Size(value'[k] - streak'[k].rows * Unit) * 2 ^ (streak'[k].times - 1) <= Most
  <2>1. value'[k] - streak'[k].rows * Unit = 0
    BY <1>1, <1>2
  <2>2. streak'[k].times - 1 = 0
    BY <1>1
  <2>3. Size(0) = 0 /\ 2 ^ 0 = 1
    BY PowersOfTwo DEF Size
  <2> QED
    BY <1>2, <2>1, <2>2, <2>3
<1>6. /\ streak'[k].rows \in Counts /\ streak'[k].times > 0
      /\ streak'[k].halvings <= MaxHalvings /\ 0 <= value'[k] /\ value'[k] <= Most
  BY <1>1, <1>2
<1> QED
  BY <1>4, <1>5, <1>6 DEF KeyFollows, Most, Unit, Size

LEMMA FollowsStep ==
    ASSUME StoreType, UseOrder, Follows, [StoreNext]_store_vars
    PROVE  Follows'
<1>1. ASSUME NEW k \in ScanKeys, NEW count \in Counts, RecordRows(k, count)
      PROVE  Follows'
  <2>1. KeyFollows(k)'
    BY <1>1, HalfwayToTheCount, TakenAsItIs DEF Follows
  <2>2. Remembered' \subseteq Remembered \cup {k}
    BY <1>1, UsedNow DEF RecordRows
  <2>3. ASSUME NEW j \in Remembered, j # k PROVE KeyFollows(j)'
    <3>1. value'[j] = value[j] /\ streak'[j] = streak[j]
      BY <1>1, <2>3 DEF RecordRows, StoreType, Remembered
    <3> QED
      BY <3>1 DEF Follows, KeyFollows, Most, Unit, Size
  <2> QED
    BY <2>1, <2>2, <2>3 DEF Follows
<1>2. ASSUME NEW k \in ScanKeys, Find(k) PROVE Follows'
  <2>1. k \in Remembered /\ UNCHANGED <<value, streak>>
    BY <1>2 DEF Find
  <2>2. Remembered' \subseteq Remembered
    BY <1>2, <2>1, FoundIsUsed
  <2> QED
    BY <2>1, <2>2 DEF Follows, KeyFollows, Most, Unit, Size
<1>3. CASE UNCHANGED store_vars
  BY <1>3 DEF store_vars, Follows, KeyFollows, Remembered, Most, Unit, Size
<1> QED
  BY <1>1, <1>2, <1>3 DEF StoreNext

\* What the planner is told of a scan follows what the scans return: it stays in
\* the range of what was observed, and with each repetition of a count it comes
\* twice as near to it, however the keys are recorded, looked up and forgotten.
THEOREM EstimatesFollow == StoreSpec => []TracksChange
<1>1. ASSUME Follows PROVE TracksChange
  BY <1>1 DEF Follows, KeyFollows, TracksChange, Most, Size
<1>2. StoreInit => StoreType /\ UseOrder /\ Follows
  <2>1. StoreInit => Follows
    BY DEF StoreInit, Follows, Remembered
  <2> QED
    BY <2>1, StoreInitially
<1>3. StoreType /\ UseOrder /\ Follows /\ [StoreNext]_store_vars
          => (StoreType /\ UseOrder /\ Follows)'
  BY StoreStep, FollowsStep
<1> QED
  BY <1>1, <1>2, <1>3, PTL DEF StoreSpec

-----------------------------------------------------------------------------
(* The time a query takes, whatever its budget and the limits.                *)

\* A read that starts with left ticks of the budget begins its wait at most a
\* probe later, and its statement at most the wait after that; no phase
\* outlives its limit.
ReadTimes ==
    budget # None =>
        /\ phase = "probe" =>
              left # None /\ left <= budget /\ begun <= budget - left /\ now <= begun + ProbeLimit
        /\ phase = "wait" =>
              /\ left # None /\ left <= budget
              /\ begun <= budget - left + ProbeLimit /\ now <= begun + left
        /\ phase = "statement" =>
              left # None /\ left <= budget /\ begun <= budget + ProbeLimit /\ now <= begun + left

LEMMA TimerTypeInit == Init => TypeOK
BY DeadlineAssumption DEF Init, TypeOK

LEMMA TimerTypeStep == TypeOK /\ [Next]_vars => TypeOK'
<1> SUFFICES ASSUME TypeOK, [Next]_vars PROVE TypeOK'
  OBVIOUS
<1> USE DeadlineAssumption DEF TypeOK, Enter, Reading, Over
<1>1. CASE StartRead
  <2>1. left' \in (Nat \ {0}) \cup {None}
    <3>1. CASE budget = None
      BY <1>1, <3>1 DEF StartRead
    <3>2. CASE budget # None
      <4>1. budget \in Nat /\ budget - now > 0
        BY <1>1, <3>2 DEF StartRead, Spent
      <4>2. left' = budget - now
        BY <1>1, <3>2 DEF StartRead
      <4> QED
        BY <4>1, <4>2
    <3> QED
      BY <3>1, <3>2
  <2> QED
    BY <1>1, <2>1 DEF StartRead
<1>2. CASE Expire \/ Answer \/ Probed \/ Waited \/ Executed \/ CutOff
  BY <1>2 DEF Expire, Answer, Probed, Waited, Executed, CutOff
<1>3. CASE Tick
  BY <1>3 DEF Tick
<1>4. CASE UNCHANGED vars
  BY <1>4 DEF vars
<1> QED
  BY <1>1, <1>2, <1>3, <1>4 DEF Next

LEMMA ReadTimesStep == TypeOK /\ ReadTimes /\ [Next]_vars => ReadTimes'
<1> SUFFICES ASSUME TypeOK, ReadTimes, [Next]_vars PROVE ReadTimes'
  OBVIOUS
<1>0. budget' = budget
  BY DEF Next, StartRead, Expire, Answer, Probed, Waited, Executed, CutOff, Tick, vars
<1> SUFFICES ASSUME budget # None PROVE ReadTimes'
  BY <1>0 DEF ReadTimes
<1> USE DeadlineAssumption DEF TypeOK, Enter, Reading, Over, ReadTimes
<1>1. budget \in Nat /\ (left # None => left \in Nat)
  OBVIOUS
<1>2. CASE StartRead
  <2>1. left' = budget - now /\ budget' = budget /\ now' = now /\ begun' = now
        /\ (phase' = "probe" \/ phase' = "wait") /\ left' > 0 /\ left' # None
    BY <1>1, <1>2 DEF StartRead, Spent
  <2> QED
    BY <1>1, <2>1
<1>3. CASE Probed
  BY <1>1, <1>3 DEF Probed
<1>4. CASE Waited
  <2>1. left \in Nat /\ phase = "wait"
    BY <1>1, <1>4 DEF Waited
  <2>2. begun <= budget - left + ProbeLimit /\ now <= begun + left
    BY <1>4 DEF Waited
  <2>3. left <= budget
    BY <1>4 DEF Waited
  <2> QED
    BY <1>1, <1>4, <2>1, <2>2, <2>3 DEF Waited
<1>5. CASE Expire \/ Answer \/ Executed \/ CutOff
  BY <1>5 DEF Expire, Answer, Executed, CutOff
<1>6. CASE Tick
  BY <1>1, <1>6 DEF Tick, WaitLimit, StatementLimit
<1>7. CASE UNCHANGED vars
  BY <1>7 DEF vars
<1> QED
  BY <1>2, <1>3, <1>4, <1>5, <1>6, <1>7 DEF Next

\* A query under a budget overruns it, while it reads, by at most the budget
\* once more and the time of one probe.
THEOREM BoundedOvershoot == Spec => []OvershootIsBounded
<1>1. Init => TypeOK /\ ReadTimes
  BY TimerTypeInit DEF Init, ReadTimes
<1>2. TypeOK /\ ReadTimes /\ [Next]_vars => (TypeOK /\ ReadTimes)'
  BY TimerTypeStep, ReadTimesStep
<1>3. TypeOK /\ ReadTimes => OvershootIsBounded
  <2> SUFFICES ASSUME TypeOK, ReadTimes, budget # None, phase \in Reading
               PROVE  now <= ProbeLimit + 2 * budget
    BY DEF OvershootIsBounded
  <2>1. left \in Nat /\ left <= budget /\ budget \in Nat /\ now \in Nat /\ begun \in Nat
    BY DeadlineAssumption DEF TypeOK, ReadTimes, Reading
  <2> QED
    BY <2>1, DeadlineAssumption DEF ReadTimes, Reading
<1> QED
  BY <1>1, <1>2, <1>3, PTL DEF Spec

-----------------------------------------------------------------------------
(* Pushdown.  Filters are trees: what holds of a filter is shown by its parts. *)

\* A set of natural numbers that is not empty has a least element.
LEMMA LeastNumber ==
    ASSUME NEW S \in SUBSET Nat, S # {}
    PROVE  \E m \in S : \A n \in S : m <= n
<1> DEFINE R == OpToRel(<, Nat)
<1>1. IsWellFoundedOn(R, Nat)
  BY NatLessThanWellFounded
<1>2. R = {p \in Nat \X Nat : p[1] < p[2]}
  BY DEF OpToRel
<1> HIDE DEF R
<1>3. PICK m \in S : \A n \in S : ~(<<n, m>> \in R)
  BY <1>1, WFMin
<1>4. \A n \in S : m <= n
  <2> SUFFICES ASSUME NEW n \in S PROVE m <= n
    OBVIOUS
  <2>1. <<n, m>> \notin R /\ <<n, m>> \in Nat \X Nat
    BY <1>3
  <2>2. ~(<<n, m>>[1] < <<n, m>>[2])
    BY <1>2, <2>1
  <2> QED
    BY <2>2
<1> QED
  BY <1>4

-----------------------------------------------------------------------------
(* Filters are trees.                                                      *)

\* What holds of a filter whenever it holds of its parts, holds of all.
LEMMA OfEveryFilter ==
    ASSUME NEW S,
           \A e \in Filters : (\A p \in Parts(e) : p \in S) => e \in S
    PROVE  \A e \in Filters : e \in S
<1>1. SUFFICES ASSUME NEW b \in Filters, b \notin S  PROVE FALSE
  OBVIOUS
<1> DEFINE Bad == {n \in Nat : \E e \in Filters : e \notin S /\ Depth[e] = n}
<1>2. \A e \in Filters : Depth[e] \in Nat
  BY FilterAssumption
<1>3. Bad \in SUBSET Nat /\ Bad # {}
  BY <1>1, <1>2
<1>4. PICK n \in Bad : \A m \in Bad : n <= m
  <2> HIDE DEF Bad
  <2> QED  BY <1>3, LeastNumber
<1>5. PICK e \in Filters : e \notin S /\ Depth[e] = n
  BY <1>4
<1>6. \A p \in Parts(e) : p \in Filters /\ Depth[p] < n
  BY <1>5, FilterAssumption
<1>7. \A p \in Parts(e) : p \in S
  BY <1>2, <1>4, <1>6
<1> QED  BY <1>5, <1>7

\* The kinds of filters, and their parts.
LEMMA FilterKinds ==
    ASSUME NEW e \in Filters
    PROVE  /\ e.kind \in {"leaf", "all", "any", "not"}
           /\ e.kind = "leaf" => e.field \in Named /\ e.op \in Operators
           /\ e.kind = "not" => Parts(e) = {e.parts[1]} /\ e.parts[1] \in Filters
           /\ Parts(e) \subseteq Filters
<1>1. /\ \/ e.kind = "leaf" /\ e.field \in Named /\ e.op \in Operators
         \/ e.kind \in {"all", "any"}
         \/ e.kind = "not" /\ DOMAIN e.parts = {1}
      /\ \A p \in Parts(e) : p \in Filters
  BY FilterAssumption
<1>2. e.kind = "not" => Parts(e) = {e.parts[1]}
  BY <1>1 DEF Parts
<1> QED  BY <1>1, <1>2

\* The rule gives a value in V to a filter whose parts have values in V.
GivesValues(rule, V) ==
    \A e \in Filters, S \in SUBSET V : (Parts(e) # {} => S # {}) => rule[<<e, S>>] \in V

\* A value of a filter may be defined by those of its parts.
LEMMA ValuesExist ==
    ASSUME NEW V, NEW rule, GivesValues(rule, V)
    PROVE  \E g \in [Filters -> V] : \A e \in Filters : g[e] = rule[<<e, {g[p] : p \in Parts(e)}>>]
<1> DEFINE Of(g, e) == rule[<<e, {g[p] : p \in Parts(e)}>>]
           Upto == {n \in Nat : \E g \in [Filters -> V] : \A e \in Filters : Depth[e] < n => g[e] = Of(g, e)}
<1>1. \A e \in Filters : Depth[e] \in 0 .. MaxDepth /\ \A p \in Parts(e) : p \in Filters /\ Depth[p] < Depth[e]
  BY FilterAssumption
<1>2. \A g \in [Filters -> V], e \in Filters : Of(g, e) \in V
  <2> TAKE g \in [Filters -> V], e \in Filters
  <2>1. {g[p] : p \in Parts(e)} \in SUBSET V
    BY <1>1
  <2>2. Parts(e) # {} => {g[p] : p \in Parts(e)} # {}
    OBVIOUS
  <2> QED  BY <2>1, <2>2 DEF GivesValues
<1>3. 0 \in Upto
  <2>1. \E g : g \in [Filters -> V]
    <3>1. CASE Filters = {}
      <4>1. [e \in Filters |-> {}] \in [Filters -> V]
        BY <3>1
      <4> QED  BY <4>1
    <3>2. CASE Filters # {}
      <4>1. V # {}
        <5>1. PICK e \in Filters : \A f \in Filters : Depth[e] <= Depth[f]
          <6> DEFINE D == {Depth[f] : f \in Filters}
          <6>1. D \in SUBSET Nat /\ D # {}
            BY <1>1, <3>2
          <6> HIDE DEF D
          <6>2. PICK d \in D : \A n \in D : d <= n
            BY <6>1, LeastNumber
          <6> QED  BY <6>2 DEF D
        <5>2. Parts(e) = {}
          <6> SUFFICES ASSUME NEW p \in Parts(e)  PROVE FALSE
            OBVIOUS
          <6>1. p \in Filters /\ Depth[p] < Depth[e] /\ Depth[p] \in Nat /\ Depth[e] \in Nat
            BY <1>1
          <6> QED  BY <5>1, <6>1
        <5> QED  BY <5>2 DEF GivesValues
      <4>2. PICK v \in V : TRUE
        BY <4>1
      <4>3. [e \in Filters |-> v] \in [Filters -> V]
        OBVIOUS
      <4> QED  BY <4>3
    <3> QED  BY <3>1, <3>2
  <2>2. \A e \in Filters : ~(Depth[e] < 0)
    BY <1>1
  <2> QED  BY <2>1, <2>2
<1>4. \A n \in Upto : n + 1 \in Upto
  <2> TAKE n \in Upto
  <2>1. PICK g \in [Filters -> V] : \A e \in Filters : Depth[e] < n => g[e] = Of(g, e)
    OBVIOUS
  <2> DEFINE h == [e \in Filters |-> Of(g, e)]
  <2>2. h \in [Filters -> V]
    BY <1>2
  <2>3. ASSUME NEW e \in Filters, Depth[e] < n + 1  PROVE h[e] = Of(h, e)
    <3>1. \A p \in Parts(e) : p \in Filters /\ Depth[p] < n
      BY <1>1, <2>3
    <3>2. \A p \in Parts(e) : h[p] = g[p]
      BY <3>1, <2>1
    <3>3. {h[p] : p \in Parts(e)} = {g[p] : p \in Parts(e)}
      <4> HIDE DEF h
      <4> QED  BY <3>2
    <3> QED  BY <3>3
  <2> HIDE DEF h, Of
  <2> QED  BY <2>2, <2>3
<1>5. \A n \in Nat : n \in Upto
  <2> DEFINE Bad == Nat \ Upto
  <2>1. SUFFICES ASSUME Bad # {}  PROVE FALSE
    OBVIOUS
  <2>2. Bad \in SUBSET Nat
    OBVIOUS
  <2>3. PICK n \in Bad : \A m \in Bad : n <= m
    <3> HIDE DEF Bad
    <3> QED  BY <2>1, <2>2, LeastNumber
  <2> HIDE DEF Upto
  <2>4. n # 0 /\ n \in Nat
    BY <1>3, <2>3
  <2>5. n - 1 \in Nat /\ ~(n <= n - 1)
    BY <2>4
  <2>6. n - 1 \in Upto
    BY <2>3, <2>5
  <2>7. (n - 1) + 1 \in Upto
    BY <2>6, <1>4
  <2> QED  BY <2>3, <2>4, <2>7
<1>6. MaxDepth + 1 \in Upto
  <2> HIDE DEF Upto
  <2> QED  BY <1>5, FilterAssumption
<1>7. PICK g \in [Filters -> V] : \A e \in Filters : Depth[e] < MaxDepth + 1 => g[e] = Of(g, e)
  BY <1>6
<1>8. \A e \in Filters : Depth[e] < MaxDepth + 1
  BY <1>1, FilterAssumption
<1> QED  BY <1>7, <1>8

\* And so defined it is such a value.
LEMMA ValuesAreTyped ==
    ASSUME NEW V, NEW rule, GivesValues(rule, V), NEW g,
           \A e \in Filters : {g[p] : p \in Parts(e)} \in SUBSET V
                                  => g[e] = rule[<<e, {g[p] : p \in Parts(e)}>>]
    PROVE  \A e \in Filters : g[e] \in V
<1> DEFINE S == {e \in Filters : g[e] \in V}
<1>1. ASSUME NEW e \in Filters, \A p \in Parts(e) : p \in S  PROVE e \in S
  <2>1. {g[p] : p \in Parts(e)} \in SUBSET V
    BY <1>1
  <2>2. Parts(e) # {} => {g[p] : p \in Parts(e)} # {}
    OBVIOUS
  <2>3. g[e] \in V
    BY <2>1, <2>2 DEF GivesValues
  <2> QED  BY <2>3
<1> HIDE DEF S
<1>2. \A e \in Filters : e \in S
  BY <1>1, OfEveryFilter
<1> QED  BY <1>2 DEF S

-----------------------------------------------------------------------------
(* The recursions over filters are what they say.                          *)

\* The least of a set is the least of it.
LEMMA LeastIs ==
    ASSUME NEW S \in SUBSET Nat, S # {}
    PROVE  Least(S) \in S /\ \A y \in S : Least(S) <= y
BY LeastNumber DEF Least

\* The greatest of a set is the greatest of it.
LEMMA GreatestIs ==
    ASSUME NEW S \in SUBSET (0 .. 2), S # {}
    PROVE  Greatest(S) \in S /\ \A y \in S : Greatest(S) >= y
<1>1. \E x \in S : \A y \in S : x >= y
  <2>1. \A y \in S : y = 0 \/ y = 1 \/ y = 2
    OBVIOUS
  <2>2. CASE 2 \in S
    <3>1. \A y \in S : 2 >= y
      BY <2>1
    <3> QED  BY <2>2, <3>1
  <2>3. CASE 2 \notin S /\ 1 \in S
    <3>1. \A y \in S : 1 >= y
      BY <2>1, <2>3
    <3> QED  BY <2>3, <3>1
  <2>4. CASE 2 \notin S /\ 1 \notin S
    <3>1. \A y \in S : y = 0
      BY <2>1, <2>4
    <3>2. PICK x \in S : x = 0
      BY <3>1
    <3>3. \A y \in S : x >= y
      BY <3>1, <3>2
    <3> QED  BY <3>3
  <2> QED  BY <2>2, <2>3, <2>4
<1> QED  BY <1>1 DEF Greatest

\* A connective gives a truth value of SQL.
LEMMA SqlOfIsTyped ==
    ASSUME NEW S \in SUBSET (0 .. 2)
    PROVE  /\ SqlOf("all", S) \in 0 .. 2
           /\ SqlOf("any", S) \in 0 .. 2
           /\ S # {} => SqlOf("not", S) \in 0 .. 2
<1>1. {2} \cup S \in SUBSET Nat /\ {2} \cup S # {} /\ {2} \cup S \subseteq 0 .. 2
  OBVIOUS
<1>2. Least({2} \cup S) \in 0 .. 2
  BY <1>1, LeastIs
<1>3. {0} \cup S \in SUBSET (0 .. 2) /\ {0} \cup S # {}
  OBVIOUS
<1>4. Greatest({0} \cup S) \in 0 .. 2
  BY <1>3, GreatestIs
<1>5. S # {} => Only(S) \in 0 .. 2
  BY DEF Only
<1> QED  BY <1>2, <1>4, <1>5 DEF SqlOf

\* Sql is what its recursion says.
LEMMA SqlIs ==
    ASSUME NEW cell, NEW e \in Filters
    PROVE  /\ Sql(e, cell) \in 0 .. 2
           /\ Sql(e, cell) = IF e.kind = "leaf" THEN SqlLeaf(e, cell[e.field]) ELSE SqlOf(e.kind, {Sql(p, cell) : p \in Parts(e)})
<1> DEFINE Rule(f, S) == IF f.kind = "leaf" THEN SqlLeaf(f, cell[f.field]) ELSE SqlOf(f.kind, S)
           Of(g) == [f \in Filters |-> IF f.kind = "leaf" THEN SqlLeaf(f, cell[f.field]) ELSE SqlOf(f.kind, {g[p] : p \in Parts(f)})]
           sql == CHOOSE g : g = Of(g)
           rule == [x \in Filters \X SUBSET (0 .. 2) |-> Rule(x[1], x[2])]
           V == 0 .. 2
<1>1. \A f \in Filters : Sql(f, cell) = sql[f]
  BY DEF Sql
<1>2. ASSUME NEW f \in Filters, NEW S \in SUBSET V, Parts(f) # {} => S # {}  PROVE Rule(f, S) \in V
  <2>1. SqlLeaf(f, cell[f.field]) \in 0 .. 2
    BY DEF SqlLeaf
  <2>2. f.kind = "not" => S # {}
    BY <1>2, FilterKinds
  <2> QED  BY <2>1, <2>2, SqlOfIsTyped, FilterKinds
<1>3. \A f \in Filters, S \in SUBSET V : rule[<<f, S>>] = Rule(f, S)
  <2> HIDE DEF Rule
  <2> QED  OBVIOUS
<1> HIDE DEF rule, V
<1>4. GivesValues(rule, V)
  <2> HIDE DEF Rule
  <2> QED  BY <1>2, <1>3 DEF GivesValues
<1>5. PICK g \in [Filters -> V] : \A f \in Filters : g[f] = rule[<<f, {g[p] : p \in Parts(f)}>>]
  BY <1>4, ValuesExist
<1>6. ASSUME NEW f \in Filters  PROVE g[f] = Of(g)[f]
  <2>1. {g[p] : p \in Parts(f)} \in SUBSET V
    BY FilterKinds
  <2> QED  BY <1>3, <1>5, <2>1
<1>7. g = Of(g)
  BY <1>6
<1> HIDE DEF Of
<1>8. sql = Of(sql)
  BY <1>7
<1> HIDE DEF sql
<1>9. \A f \in Filters : sql[f] = Rule(f, {sql[p] : p \in Parts(f)})
  BY <1>8 DEF Of
<1>10. \A f \in Filters : sql[f] \in V
  <2>1. \A f \in Filters : {sql[p] : p \in Parts(f)} \in SUBSET V
                              => sql[f] = rule[<<f, {sql[p] : p \in Parts(f)}>>]
    <3> HIDE DEF Rule
    <3> QED  BY <1>3, <1>9
  <2> HIDE DEF Rule
  <2> QED  BY <1>4, <2>1, ValuesAreTyped
<1>11. {Sql(p, cell) : p \in Parts(e)} = {sql[p] : p \in Parts(e)}
  BY <1>1, FilterKinds
<1> QED  BY <1>1, <1>9, <1>10, <1>11 DEF V

\* The truth values of YoDb.
Truths == {"true", "false", "none"}

\* A connective gives a truth value of YoDb.
LEMMA TruthOfIsTyped ==
    ASSUME NEW S \in SUBSET Truths
    PROVE  /\ TruthOf("all", S) \in Truths
           /\ TruthOf("any", S) \in Truths
           /\ S # {} => TruthOf("not", S) \in Truths
<1>1. S # {} => Only(S) \in Truths
  BY DEF Only
<1> QED  BY <1>1 DEF TruthOf, Truths, Conjunction, Disjunction, Negation

\* So does a condition,
LEMMA PredicateTruthIsTyped == \A l, v : PredicateTruth(l, v) \in Truths
BY DEF PredicateTruth, Truths

\* and a condition on NULL.
LEMMA NullLeafIsTyped == \A l : NullLeaf(l) \in Truths
BY DEF NullLeaf, Truths

\* Truth is what its recursion says.
LEMMA TruthIs ==
    ASSUME NEW cell, NEW e \in Filters
    PROVE  /\ Truth(e, cell) \in Truths
           /\ Truth(e, cell) = IF e.kind = "leaf" THEN PredicateTruth(e, cell[e.field]) ELSE TruthOf(e.kind, {Truth(p, cell) : p \in Parts(e)})
<1> DEFINE Rule(f, S) == IF f.kind = "leaf" THEN PredicateTruth(f, cell[f.field]) ELSE TruthOf(f.kind, S)
           Of(g) == [f \in Filters |-> IF f.kind = "leaf" THEN PredicateTruth(f, cell[f.field]) ELSE TruthOf(f.kind, {g[p] : p \in Parts(f)})]
           truth == CHOOSE g : g = Of(g)
           rule == [x \in Filters \X SUBSET (Truths) |-> Rule(x[1], x[2])]
           V == Truths
<1>1. \A f \in Filters : Truth(f, cell) = truth[f]
  BY DEF Truth
<1>2. ASSUME NEW f \in Filters, NEW S \in SUBSET V, Parts(f) # {} => S # {}  PROVE Rule(f, S) \in V
  <2>1. f.kind = "not" => S # {}
    BY <1>2, FilterKinds
  <2> QED  BY <2>1, PredicateTruthIsTyped, TruthOfIsTyped, FilterKinds
<1>3. \A f \in Filters, S \in SUBSET V : rule[<<f, S>>] = Rule(f, S)
  <2> HIDE DEF Rule
  <2> QED  OBVIOUS
<1> HIDE DEF rule, V
<1>4. GivesValues(rule, V)
  <2> HIDE DEF Rule
  <2> QED  BY <1>2, <1>3 DEF GivesValues
<1>5. PICK g \in [Filters -> V] : \A f \in Filters : g[f] = rule[<<f, {g[p] : p \in Parts(f)}>>]
  BY <1>4, ValuesExist
<1>6. ASSUME NEW f \in Filters  PROVE g[f] = Of(g)[f]
  <2>1. {g[p] : p \in Parts(f)} \in SUBSET V
    BY FilterKinds
  <2> QED  BY <1>3, <1>5, <2>1
<1>7. g = Of(g)
  BY <1>6
<1> HIDE DEF Of
<1>8. truth = Of(truth)
  BY <1>7
<1> HIDE DEF truth
<1>9. \A f \in Filters : truth[f] = Rule(f, {truth[p] : p \in Parts(f)})
  BY <1>8 DEF Of
<1>10. \A f \in Filters : truth[f] \in V
  <2>1. \A f \in Filters : {truth[p] : p \in Parts(f)} \in SUBSET V
                              => truth[f] = rule[<<f, {truth[p] : p \in Parts(f)}>>]
    <3> HIDE DEF Rule
    <3> QED  BY <1>3, <1>9
  <2> HIDE DEF Rule
  <2> QED  BY <1>4, <2>1, ValuesAreTyped
<1>11. {Truth(p, cell) : p \in Parts(e)} = {truth[p] : p \in Parts(e)}
  BY <1>1, FilterKinds
<1> QED  BY <1>1, <1>9, <1>10, <1>11 DEF V

\* OnNulls is what its recursion says.
LEMMA OnNullsIs ==
    ASSUME NEW e \in Filters
    PROVE  /\ OnNulls[e] \in Truths
           /\ OnNulls[e] = IF e.kind = "leaf" THEN NullLeaf(e) ELSE TruthOf(e.kind, {OnNulls[p] : p \in Parts(e)})
<1> DEFINE Rule(f, S) == IF f.kind = "leaf" THEN NullLeaf(f) ELSE TruthOf(f.kind, S)
           Of(g) == [f \in Filters |-> IF f.kind = "leaf" THEN NullLeaf(f) ELSE TruthOf(f.kind, {g[p] : p \in Parts(f)})]
           on_nulls == CHOOSE g : g = Of(g)
           rule == [x \in Filters \X SUBSET (Truths) |-> Rule(x[1], x[2])]
           V == Truths
<1>1. \A f \in Filters : OnNulls[f] = on_nulls[f]
  BY DEF OnNulls
<1>2. ASSUME NEW f \in Filters, NEW S \in SUBSET V, Parts(f) # {} => S # {}  PROVE Rule(f, S) \in V
  <2>1. f.kind = "not" => S # {}
    BY <1>2, FilterKinds
  <2> QED  BY <2>1, NullLeafIsTyped, TruthOfIsTyped, FilterKinds
<1>3. \A f \in Filters, S \in SUBSET V : rule[<<f, S>>] = Rule(f, S)
  <2> HIDE DEF Rule
  <2> QED  OBVIOUS
<1> HIDE DEF rule, V
<1>4. GivesValues(rule, V)
  <2> HIDE DEF Rule
  <2> QED  BY <1>2, <1>3 DEF GivesValues
<1>5. PICK g \in [Filters -> V] : \A f \in Filters : g[f] = rule[<<f, {g[p] : p \in Parts(f)}>>]
  BY <1>4, ValuesExist
<1>6. ASSUME NEW f \in Filters  PROVE g[f] = Of(g)[f]
  <2>1. {g[p] : p \in Parts(f)} \in SUBSET V
    BY FilterKinds
  <2> QED  BY <1>3, <1>5, <2>1
<1>7. g = Of(g)
  BY <1>6
<1> HIDE DEF Of
<1>8. on_nulls = Of(on_nulls)
  BY <1>7
<1> HIDE DEF on_nulls
<1>9. \A f \in Filters : on_nulls[f] = Rule(f, {on_nulls[p] : p \in Parts(f)})
  BY <1>8 DEF Of
<1>10. \A f \in Filters : on_nulls[f] \in V
  <2>1. \A f \in Filters : {on_nulls[p] : p \in Parts(f)} \in SUBSET V
                              => on_nulls[f] = rule[<<f, {on_nulls[p] : p \in Parts(f)}>>]
    <3> HIDE DEF Rule
    <3> QED  BY <1>3, <1>9
  <2> HIDE DEF Rule
  <2> QED  BY <1>4, <2>1, ValuesAreTyped
<1>11. {OnNulls[p] : p \in Parts(e)} = {on_nulls[p] : p \in Parts(e)}
  BY <1>1, FilterKinds
<1> QED  BY <1>1, <1>9, <1>10, <1>11 DEF V

\* The conditions of a filter are filters.
LEMMA ConjunctsAre ==
    ASSUME NEW e \in Filters
    PROVE  /\ TopLevelConjuncts[e] \in SUBSET Filters
           /\ TopLevelConjuncts[e] = IF e.kind = "all" THEN UNION {TopLevelConjuncts[p] : p \in Parts(e)} ELSE {e}
<1> DEFINE Rule(f, S) == IF f.kind = "all" THEN UNION S ELSE {f}
           Of(g) == [f \in Filters |-> IF f.kind = "all" THEN UNION {g[p] : p \in Parts(f)} ELSE {f}]
           conjuncts == CHOOSE g : g = Of(g)
           rule == [x \in Filters \X SUBSET (SUBSET Filters) |-> Rule(x[1], x[2])]
           V == SUBSET Filters
<1>1. \A f \in Filters : TopLevelConjuncts[f] = conjuncts[f]
  BY DEF TopLevelConjuncts
<1>2. ASSUME NEW f \in Filters, NEW S \in SUBSET V, Parts(f) # {} => S # {}  PROVE Rule(f, S) \in V
  <2> QED  OBVIOUS
<1>3. \A f \in Filters, S \in SUBSET V : rule[<<f, S>>] = Rule(f, S)
  <2> HIDE DEF Rule
  <2> QED  OBVIOUS
<1> HIDE DEF rule, V
<1>4. GivesValues(rule, V)
  <2> HIDE DEF Rule
  <2> QED  BY <1>2, <1>3 DEF GivesValues
<1>5. PICK g \in [Filters -> V] : \A f \in Filters : g[f] = rule[<<f, {g[p] : p \in Parts(f)}>>]
  BY <1>4, ValuesExist
<1>6. ASSUME NEW f \in Filters  PROVE g[f] = Of(g)[f]
  <2>1. {g[p] : p \in Parts(f)} \in SUBSET V
    BY FilterKinds
  <2> QED  BY <1>3, <1>5, <2>1
<1>7. g = Of(g)
  BY <1>6
<1> HIDE DEF Of
<1>8. conjuncts = Of(conjuncts)
  BY <1>7
<1> HIDE DEF conjuncts
<1>9. \A f \in Filters : conjuncts[f] = Rule(f, {conjuncts[p] : p \in Parts(f)})
  BY <1>8 DEF Of
<1>10. \A f \in Filters : conjuncts[f] \in V
  <2>1. \A f \in Filters : {conjuncts[p] : p \in Parts(f)} \in SUBSET V
                              => conjuncts[f] = rule[<<f, {conjuncts[p] : p \in Parts(f)}>>]
    <3> HIDE DEF Rule
    <3> QED  BY <1>3, <1>9
  <2> HIDE DEF Rule
  <2> QED  BY <1>4, <2>1, ValuesAreTyped
<1>11. {TopLevelConjuncts[p] : p \in Parts(e)} = {conjuncts[p] : p \in Parts(e)}
  BY <1>1, FilterKinds
<1> QED  BY <1>1, <1>9, <1>10, <1>11 DEF V

\* The leaves of a filter are conditions.
LEMMA LeavesAre ==
    ASSUME NEW e \in Filters
    PROVE  /\ Leaves[e] \in SUBSET {l \in Filters : l.kind = "leaf"}
           /\ Leaves[e] = IF e.kind = "leaf" THEN {e} ELSE UNION {Leaves[p] : p \in Parts(e)}
<1> DEFINE Rule(f, S) == IF f.kind = "leaf" THEN {f} ELSE UNION S
           Of(g) == [f \in Filters |-> IF f.kind = "leaf" THEN {f} ELSE UNION {g[p] : p \in Parts(f)}]
           leaves == CHOOSE g : g = Of(g)
           rule == [x \in Filters \X SUBSET (SUBSET {l \in Filters : l.kind = "leaf"}) |-> Rule(x[1], x[2])]
           V == SUBSET {l \in Filters : l.kind = "leaf"}
<1>1. \A f \in Filters : Leaves[f] = leaves[f]
  BY DEF Leaves
<1>2. ASSUME NEW f \in Filters, NEW S \in SUBSET V, Parts(f) # {} => S # {}  PROVE Rule(f, S) \in V
  <2> QED  OBVIOUS
<1>3. \A f \in Filters, S \in SUBSET V : rule[<<f, S>>] = Rule(f, S)
  <2> HIDE DEF Rule
  <2> QED  OBVIOUS
<1> HIDE DEF rule, V
<1>4. GivesValues(rule, V)
  <2> HIDE DEF Rule
  <2> QED  BY <1>2, <1>3 DEF GivesValues
<1>5. PICK g \in [Filters -> V] : \A f \in Filters : g[f] = rule[<<f, {g[p] : p \in Parts(f)}>>]
  BY <1>4, ValuesExist
<1>6. ASSUME NEW f \in Filters  PROVE g[f] = Of(g)[f]
  <2>1. {g[p] : p \in Parts(f)} \in SUBSET V
    BY FilterKinds
  <2> QED  BY <1>3, <1>5, <2>1
<1>7. g = Of(g)
  BY <1>6
<1> HIDE DEF Of
<1>8. leaves = Of(leaves)
  BY <1>7
<1> HIDE DEF leaves
<1>9. \A f \in Filters : leaves[f] = Rule(f, {leaves[p] : p \in Parts(f)})
  BY <1>8 DEF Of
<1>10. \A f \in Filters : leaves[f] \in V
  <2>1. \A f \in Filters : {leaves[p] : p \in Parts(f)} \in SUBSET V
                              => leaves[f] = rule[<<f, {leaves[p] : p \in Parts(f)}>>]
    <3> HIDE DEF Rule
    <3> QED  BY <1>3, <1>9
  <2> HIDE DEF Rule
  <2> QED  BY <1>4, <2>1, ValuesAreTyped
<1>11. {Leaves[p] : p \in Parts(e)} = {leaves[p] : p \in Parts(e)}
  BY <1>1, FilterKinds
<1> QED  BY <1>1, <1>9, <1>10, <1>11 DEF V

-----------------------------------------------------------------------------
(* What the recursions say of each other.                                  *)

\* The conditions of a part are conditions of the filter.
LEMMA LeavesOfParts ==
    ASSUME NEW e \in Filters
    PROVE  \A p \in Parts(e) : Leaves[p] \subseteq Leaves[e]
<1>1. Leaves[e] = IF e.kind = "leaf" THEN {e} ELSE UNION {Leaves[p] : p \in Parts(e)}
  BY LeavesAre
<1>2. e.kind = "leaf" => Parts(e) = {}
  BY DEF Parts
<1> QED  BY <1>1, <1>2

\* SQL's connectives, by what the parts are.
LEMMA SqlConnectives ==
    ASSUME NEW S \in SUBSET (0 .. 2)
    PROVE  /\ SqlOf("all", S) = 0 <=> 0 \in S
           /\ SqlOf("all", S) = 2 <=> \A x \in S : x = 2
           /\ SqlOf("any", S) = 2 <=> 2 \in S
           /\ SqlOf("any", S) = 0 <=> \A x \in S : x = 0
<1>1. {2} \cup S \in SUBSET Nat /\ {2} \cup S # {} /\ \A x \in S : x \in 0 .. 2
  OBVIOUS
<1> DEFINE l == Least({2} \cup S)
           g == Greatest({0} \cup S)
<1>2. l \in {2} \cup S /\ \A y \in {2} \cup S : l <= y
  BY <1>1, LeastIs
<1>3. {0} \cup S \in SUBSET (0 .. 2) /\ {0} \cup S # {}
  OBVIOUS
<1>4. g \in {0} \cup S /\ \A y \in {0} \cup S : g >= y
  BY <1>3, GreatestIs
<1>5. SqlOf("all", S) = l /\ SqlOf("any", S) = g
  BY DEF SqlOf
<1> HIDE DEF l, g
<1>6. l = 0 <=> 0 \in S
  <2>1. 0 \in S => l <= 0 /\ l \in 0 .. 2
    BY <1>1, <1>2
  <2> QED  BY <1>2, <2>1
<1>7. l = 2 <=> \A x \in S : x = 2
  <2>1. ASSUME l = 2, NEW x \in S  PROVE x = 2
    BY <1>1, <1>2, <2>1
  <2> QED  BY <1>2, <2>1
<1>8. g = 2 <=> 2 \in S
  <2>1. 2 \in S => g >= 2 /\ g \in 0 .. 2
    BY <1>1, <1>4
  <2> QED  BY <1>4, <2>1
<1>9. g = 0 <=> \A x \in S : x = 0
  <2>1. ASSUME g = 0, NEW x \in S  PROVE x = 0
    BY <1>1, <1>4, <2>1
  <2> QED  BY <1>4, <2>1
<1> QED  BY <1>5, <1>6, <1>7, <1>8, <1>9

\* YoDb's connectives, by what the parts are.
LEMMA TruthConnectives ==
    ASSUME NEW S \in SUBSET Truths
    PROVE  /\ TruthOf("all", S) = "false" <=> "false" \in S
           /\ TruthOf("all", S) = "true" <=> \A x \in S : x = "true"
           /\ TruthOf("any", S) = "true" <=> "true" \in S
           /\ TruthOf("any", S) = "false" <=> \A x \in S : x = "false"
<1>1. \A x \in S : x = "true" \/ x = "false" \/ x = "none"
  BY DEF Truths
<1> QED  BY <1>1 DEF TruthOf, Conjunction, Disjunction

\* Python and PostgreSQL read a comparison with value v alike.
ReadAlike(l, v) == v # Null => (HoldsInPython(l, v) <=> Satisfies(l, v))

\* SQL and YoDb agree on one condition that Python reads as PostgreSQL does.
LEMMA LeavesAgree ==
    ASSUME NEW l, l.op \in Operators, NEW v, ReadAlike(l, v)
    PROVE  /\ SqlLeaf(l, v) = 2 <=> PredicateTruth(l, v) = "true"
           /\ SqlLeaf(l, v) = 0 <=> PredicateTruth(l, v) = "false"
<1>1. CASE l.op = "is_null"
  BY <1>1 DEF SqlLeaf, PredicateTruth, Satisfies
<1>2. CASE l.op = "is_not_null"
  BY <1>2 DEF SqlLeaf, PredicateTruth, Satisfies
<1>3. CASE l.op \notin {"is_null", "is_not_null"}
  <2> DEFINE s == Satisfies(l, v)
             h == HoldsInPython(l, v)
  <2>1. SqlLeaf(l, v) = IF v = Null THEN 1 ELSE IF s THEN 2 ELSE 0
    <3> HIDE DEF s
    <3>1. SqlLeaf(l, v) = IF v = Null THEN 1 ELSE IF v # Null /\ s THEN 2 ELSE 0
      BY <1>3 DEF SqlLeaf, s
    <3> QED  BY <3>1
  <2>2. PredicateTruth(l, v) = IF v = Null THEN "none" ELSE IF h THEN "true" ELSE "false"
    BY <1>3 DEF PredicateTruth
  <2>3. v # Null => (h <=> s)
    BY DEF ReadAlike
  <2> HIDE DEF s, h
  <2> QED  BY <2>1, <2>2, <2>3
<1> QED  BY <1>1, <1>2, <1>3

\* SQL and YoDb make the same of filter e.
Agree(e, cell) ==
    /\ Sql(e, cell) = 2 <=> Truth(e, cell) = "true"
    /\ Sql(e, cell) = 0 <=> Truth(e, cell) = "false"

\* Python reads every comparison of filter e as PostgreSQL does.
AllReadAlike(e, cell) == \A l \in Leaves[e] : ReadAlike(l, cell[l.field])

\* The logic of YoDb is the logic of SQL.
LEMMA SqlIsTruth ==
    ASSUME NEW cell
    PROVE  \A e \in Filters : AllReadAlike(e, cell) => Agree(e, cell)
<1> DEFINE Agreed == {e \in Filters : AllReadAlike(e, cell) => Agree(e, cell)}
<1>1. ASSUME NEW e \in Filters, \A p \in Parts(e) : p \in Agreed  PROVE e \in Agreed
  <2> SUFFICES ASSUME AllReadAlike(e, cell)  PROVE Agree(e, cell)
    OBVIOUS
  <2>a. \A p \in Parts(e) : AllReadAlike(p, cell)
    <3>1. \A p \in Parts(e) : Leaves[p] \subseteq Leaves[e]
      BY LeavesOfParts
    <3> QED  BY <3>1 DEF AllReadAlike
  <2>b. e.kind = "leaf" => ReadAlike(e, cell[e.field])
    BY LeavesAre DEF AllReadAlike
  <2> DEFINE S == {Sql(p, cell) : p \in Parts(e)}
             T == {Truth(p, cell) : p \in Parts(e)}
  <2>1. \A p \in Parts(e) : /\ p \in Filters
                            /\ Sql(p, cell) \in 0 .. 2 /\ Truth(p, cell) \in Truths
                            /\ Sql(p, cell) = 2 <=> Truth(p, cell) = "true"
                            /\ Sql(p, cell) = 0 <=> Truth(p, cell) = "false"
    BY <1>1, <2>a, SqlIs, TruthIs, FilterKinds DEF Agree
  <2>2. S \in SUBSET (0 .. 2) /\ T \in SUBSET Truths
    BY <2>1
  <2>3. /\ (\A x \in S : x = 2) <=> (\A t \in T : t = "true")
        /\ (\A x \in S : x = 0) <=> (\A t \in T : t = "false")
        /\ 0 \in S <=> "false" \in T
        /\ 2 \in S <=> "true" \in T
    BY <2>1
  <2>4. /\ e.kind = "leaf" => Sql(e, cell) = SqlLeaf(e, cell[e.field]) /\ Truth(e, cell) = PredicateTruth(e, cell[e.field])
        /\ e.kind # "leaf" => Sql(e, cell) = SqlOf(e.kind, S) /\ Truth(e, cell) = TruthOf(e.kind, T)
    BY SqlIs, TruthIs
  <2>5. e.kind = "not" => \E p \in Parts(e) : S = {Sql(p, cell)} /\ T = {Truth(p, cell)}
    BY FilterKinds
  <2> HIDE DEF S, T
  <2>6. CASE e.kind = "leaf"
    BY <2>b, <2>4, <2>6, LeavesAgree, FilterKinds DEF Agree
  <2>7. CASE e.kind = "all"
    BY <2>2, <2>3, <2>4, <2>7, SqlConnectives, TruthConnectives DEF Agree
  <2>8. CASE e.kind = "any"
    BY <2>2, <2>3, <2>4, <2>8, SqlConnectives, TruthConnectives DEF Agree
  <2>9. CASE e.kind = "not"
    <3>1. PICK p \in Parts(e) : S = {Sql(p, cell)} /\ T = {Truth(p, cell)}
      BY <2>5, <2>9
    <3>2. Sql(e, cell) = 2 - Sql(p, cell) /\ Truth(e, cell) = Negation(Truth(p, cell))
      BY <2>4, <2>9, <3>1 DEF SqlOf, TruthOf, Only
    <3>3. Truth(p, cell) \in Truths /\ Sql(p, cell) \in {0, 1, 2}
      BY <2>1
    <3> QED  BY <2>1, <3>2, <3>3 DEF Agree, Negation, Truths
  <2> QED  BY <2>6, <2>7, <2>8, <2>9, FilterKinds
<1> HIDE DEF Agreed
<1>2. \A e \in Filters : e \in Agreed
  BY <1>1, OfEveryFilter
<1> QED  BY <1>2 DEF Agreed

\* The fields of a filter are those of its parts.
LEMMA FieldsOfParts ==
    ASSUME NEW e \in Filters
    PROVE  /\ e.kind = "leaf" => FilterFields(e) = {e.field}
           /\ \A p \in Parts(e) : FilterFields(p) \subseteq FilterFields(e)
           /\ FilterFields(e) \subseteq Named
<1>1. Leaves[e] = IF e.kind = "leaf" THEN {e} ELSE UNION {Leaves[p] : p \in Parts(e)}
  BY LeavesAre
<1>2. \A p \in Parts(e) : Leaves[p] \subseteq Leaves[e]
  BY LeavesOfParts
<1>3. \A l \in Leaves[e] : l.field \in Named
  BY LeavesAre, FilterKinds
<1> QED  BY <1>1, <1>2, <1>3 DEF FilterFields

\* The truth of a filter is that of its fields.
LEMMA SameFieldsSameTruth ==
    ASSUME NEW c, NEW d
    PROVE  \A e \in Filters : (\A f \in FilterFields(e) : c[f] = d[f]) => Truth(e, c) = Truth(e, d)
<1> DEFINE Same == {e \in Filters : (\A f \in FilterFields(e) : c[f] = d[f]) => Truth(e, c) = Truth(e, d)}
<1>1. ASSUME NEW e \in Filters, \A p \in Parts(e) : p \in Same  PROVE e \in Same
  <2> SUFFICES ASSUME \A f \in FilterFields(e) : c[f] = d[f]  PROVE Truth(e, c) = Truth(e, d)
    OBVIOUS
  <2>1. \A p \in Parts(e) : Truth(p, c) = Truth(p, d)
    BY <1>1, FieldsOfParts
  <2>2. {Truth(p, c) : p \in Parts(e)} = {Truth(p, d) : p \in Parts(e)}
    BY <2>1
  <2>3. e.kind = "leaf" => c[e.field] = d[e.field]
    BY FieldsOfParts
  <2> QED  BY <2>2, <2>3, TruthIs
<1> HIDE DEF Same
<1>2. \A e \in Filters : e \in Same
  BY <1>1, OfEveryFilter
<1> QED  BY <1>2 DEF Same

\* _on_nulls is the truth of a filter of which every field is NULL.
LEMMA NoFieldsNullTruth ==
    ASSUME NEW c
    PROVE  \A e \in Filters : (\A f \in FilterFields(e) : c[f] = Null) => Truth(e, c) = OnNulls[e]
<1> DEFINE Same == {e \in Filters : (\A f \in FilterFields(e) : c[f] = Null) => Truth(e, c) = OnNulls[e]}
<1>1. ASSUME NEW e \in Filters, \A p \in Parts(e) : p \in Same  PROVE e \in Same
  <2> SUFFICES ASSUME \A f \in FilterFields(e) : c[f] = Null  PROVE Truth(e, c) = OnNulls[e]
    OBVIOUS
  <2>1. \A p \in Parts(e) : Truth(p, c) = OnNulls[p]
    BY <1>1, FieldsOfParts
  <2>2. {Truth(p, c) : p \in Parts(e)} = {OnNulls[p] : p \in Parts(e)}
    BY <2>1
  <2>3. e.kind = "leaf" => c[e.field] = Null
    BY FieldsOfParts
  <2>4. PredicateTruth(e, Null) = NullLeaf(e)
    BY DEF PredicateTruth, NullLeaf
  <2> QED  BY <2>2, <2>3, <2>4, TruthIs, OnNullsIs
<1> HIDE DEF Same
<1>2. \A e \in Filters : e \in Same
  BY <1>1, OfEveryFilter
<1> QED  BY <1>2 DEF Same

\* A filter holds when all conditions that it joins by AND do.
LEMMA ConjunctsDecide ==
    ASSUME NEW c
    PROVE  \A e \in Filters : Sql(e, c) = 2 <=> \A d \in TopLevelConjuncts[e] : Sql(d, c) = 2
<1> DEFINE Decided == {e \in Filters : Sql(e, c) = 2 <=> \A d \in TopLevelConjuncts[e] : Sql(d, c) = 2}
<1>1. ASSUME NEW e \in Filters, \A p \in Parts(e) : p \in Decided  PROVE e \in Decided
  <2>1. CASE e.kind = "all"
    <3> DEFINE S == {Sql(p, c) : p \in Parts(e)}
    <3>1. Sql(e, c) = SqlOf("all", S)
      BY <2>1, SqlIs
    <3>2. S \in SUBSET (0 .. 2)
      <4>1. \A p \in Parts(e) : Sql(p, c) \in 0 .. 2
        BY SqlIs, FilterKinds
      <4> QED  BY <4>1
    <3>3. (\A x \in S : x = 2) <=> \A p \in Parts(e) : Sql(p, c) = 2
      OBVIOUS
    <3> HIDE DEF S
    <3>4. Sql(e, c) = 2 <=> \A p \in Parts(e) : Sql(p, c) = 2
      BY <3>1, <3>2, <3>3, SqlConnectives
    <3>5. TopLevelConjuncts[e] = UNION {TopLevelConjuncts[p] : p \in Parts(e)}
      BY <2>1, ConjunctsAre
    <3>6. \A p \in Parts(e) : Sql(p, c) = 2 <=> \A d \in TopLevelConjuncts[p] : Sql(d, c) = 2
      BY <1>1
    <3> QED  BY <3>4, <3>5, <3>6
  <2>2. CASE e.kind # "all"
    BY <2>2, ConjunctsAre
  <2> QED  BY <2>1, <2>2
<1> HIDE DEF Decided
<1>2. \A e \in Filters : e \in Decided
  BY <1>1, OfEveryFilter
<1> QED  BY <1>2 DEF Decided

-----------------------------------------------------------------------------
(* The order of records.                                                   *)

\* What a field of a record may hold.
Cell     == Nat \cup {Null}
\* The fields of a record.
IsRow(a) == \A f \in Named : a[f] \in Cell

\* One term, as SQL and as YoDb read it, is the same strict order of values.
LEMMA TermIsStrict ==
    ASSUME NEW t, t.dir \in {"asc", "desc"}, NEW u \in Cell, NEW v \in Cell, NEW w \in Cell
    PROVE  /\ SqlTerm(t, u, v) <=> CompareTerm(t, u, v)
           /\ ~SqlTerm(t, u, u)
           /\ SqlTerm(t, u, v) /\ SqlTerm(t, v, w) => SqlTerm(t, u, w)
           /\ u # v => SqlTerm(t, u, v) \/ SqlTerm(t, v, u)
<1>1. /\ SqlLess(u, v) <=> (u # Null /\ v = Null) \/ (u # Null /\ v # Null /\ u < v)
      /\ SqlLess(v, u) <=> (v # Null /\ u = Null) \/ (u # Null /\ v # Null /\ v < u)
  BY DEF SqlLess
<1>2. SqlTerm(t, u, v) <=> CompareTerm(t, u, v)
  <2>1. CASE u = Null
    BY <1>1, <2>1 DEF SqlTerm, CompareTerm
  <2>2. CASE u # Null
    BY <1>1, <2>2 DEF SqlTerm, CompareTerm
  <2> QED  BY <2>1, <2>2
<1>3. ~SqlTerm(t, u, u)
  BY DEF SqlTerm, SqlLess, Cell
<1>4. \A x, y, z \in Cell : SqlLess(x, y) /\ SqlLess(y, z) => SqlLess(x, z)
  BY PushdownAssumption DEF SqlLess, Cell
<1>5. SqlTerm(t, u, v) /\ SqlTerm(t, v, w) => SqlTerm(t, u, w)
  BY <1>4 DEF SqlTerm
<1>6. u # v => SqlTerm(t, u, v) \/ SqlTerm(t, v, u)
  BY <1>1 DEF SqlTerm, Cell
<1> QED  BY <1>2, <1>3, <1>5, <1>6

\* The terms of an order name fields, and the last is the ID.
LEMMA OrderIsTyped ==
    ASSUME NEW o \in Orders
    PROVE  /\ o \in Seq([field : Named, dir : {"asc", "desc"}])
           /\ Len(o) \in Nat \ {0} /\ DOMAIN o = 1 .. Len(o)
           /\ \A n \in DOMAIN o : o[n].field \in Named /\ o[n].dir \in {"asc", "desc"}
           /\ o[Len(o)].field = "id"
<1> DEFINE Terms == [field : Named, dir : {"asc", "desc"}]
<1>1. o \in Seq(Terms) /\ Len(o) > 0 /\ o[Len(o)].field = "id"
  BY PushdownAssumption
<1>2. \A t \in Terms : t.field \in Named /\ t.dir \in {"asc", "desc"}
  OBVIOUS
<1>3. o \in Seq(Terms)
  BY <1>1
<1> HIDE DEF Terms
<1>4. Len(o) \in Nat /\ DOMAIN o = 1 .. Len(o) /\ \A n \in DOMAIN o : o[n] \in Terms
  BY <1>3
<1> QED  BY <1>1, <1>2, <1>4 DEF Terms

\* Whoever reads it, an order of the same values is the same.
LEMMA SamePrecedence ==
    ASSUME NEW o \in Orders, NEW a, NEW b, IsRow(a), IsRow(b), NEW c, NEW d,
           \A n \in DOMAIN o : a[o[n].field] = c[o[n].field] /\ b[o[n].field] = d[o[n].field]
    PROVE  Precedes("sql", o, a, b) <=> Precedes("yodb", o, c, d)
<1>1. \A n \in DOMAIN o :
          ReadTerm("sql", o[n], a[o[n].field], b[o[n].field]) <=> ReadTerm("yodb", o[n], c[o[n].field], d[o[n].field])
  <2> TAKE n \in DOMAIN o
  <2>1. a[o[n].field] \in Cell /\ b[o[n].field] \in Cell /\ o[n].dir \in {"asc", "desc"}
    BY OrderIsTyped DEF IsRow
  <2>2. SqlTerm(o[n], a[o[n].field], b[o[n].field]) <=> CompareTerm(o[n], a[o[n].field], b[o[n].field])
    BY <2>1, TermIsStrict
  <2> QED  BY <2>2 DEF ReadTerm
<1>2. \A n \in DOMAIN o : \A m \in 1 .. n - 1 : m \in DOMAIN o
  BY OrderIsTyped
<1>3. \A n \in DOMAIN o : \A m \in 1 .. n - 1 : a[o[m].field] = b[o[m].field] <=> c[o[m].field] = d[o[m].field]
  BY <1>2
<1> QED  BY <1>1, <1>3 DEF Precedes

\* Records of different IDs come one after the other, in one way.
LEMMA PrecedenceIsStrict ==
    ASSUME NEW o \in Orders, NEW a, NEW b, NEW c, IsRow(a), IsRow(b), IsRow(c)
    PROVE  /\ ~Precedes("sql", o, a, a)
           /\ Precedes("sql", o, a, b) /\ Precedes("sql", o, b, c) => Precedes("sql", o, a, c)
           /\ a.id # b.id => Precedes("sql", o, a, b) \/ Precedes("sql", o, b, a)
<1> DEFINE D == DOMAIN o
           A(n) == a[o[n].field]
           B(n) == b[o[n].field]
           C(n) == c[o[n].field]
           T(n, u, v) == SqlTerm(o[n], u, v)
<1>1. \A n \in D : A(n) \in Cell /\ B(n) \in Cell /\ C(n) \in Cell /\ o[n].dir \in {"asc", "desc"}
  BY OrderIsTyped DEF IsRow
<1>2. D = 1 .. Len(o) /\ Len(o) \in Nat
  BY OrderIsTyped
<1>3. /\ Precedes("sql", o, a, a) <=> \E n \in D : T(n, A(n), A(n)) /\ \A m \in 1 .. n - 1 : A(m) = A(m)
      /\ Precedes("sql", o, a, b) <=> \E n \in D : T(n, A(n), B(n)) /\ \A m \in 1 .. n - 1 : A(m) = B(m)
      /\ Precedes("sql", o, b, a) <=> \E n \in D : T(n, B(n), A(n)) /\ \A m \in 1 .. n - 1 : B(m) = A(m)
      /\ Precedes("sql", o, b, c) <=> \E n \in D : T(n, B(n), C(n)) /\ \A m \in 1 .. n - 1 : B(m) = C(m)
      /\ Precedes("sql", o, a, c) <=> \E n \in D : T(n, A(n), C(n)) /\ \A m \in 1 .. n - 1 : A(m) = C(m)
  BY DEF Precedes, ReadTerm
<1>4. \A n \in D : /\ ~T(n, A(n), A(n))
                   /\ T(n, A(n), B(n)) /\ T(n, B(n), C(n)) => T(n, A(n), C(n))
                   /\ A(n) # B(n) => T(n, A(n), B(n)) \/ T(n, B(n), A(n))
  <2> TAKE n \in D
  <2> QED  BY <1>1, TermIsStrict
<1>5. a.id # b.id => A(Len(o)) # B(Len(o)) /\ Len(o) \in D
  BY OrderIsTyped
<1> HIDE DEF A, B, C, T, D
<1>6. ~Precedes("sql", o, a, a)
  BY <1>3, <1>4
<1>7. ASSUME Precedes("sql", o, a, b), Precedes("sql", o, b, c)  PROVE Precedes("sql", o, a, c)
  <2>1. PICK n \in D : T(n, A(n), B(n)) /\ \A m \in 1 .. n - 1 : A(m) = B(m)
    BY <1>3, <1>7
  <2>2. PICK k \in D : T(k, B(k), C(k)) /\ \A m \in 1 .. k - 1 : B(m) = C(m)
    BY <1>3, <1>7
  <2>3. n \in Nat /\ k \in Nat /\ n >= 1 /\ k >= 1
    BY <1>2
  <2>4. CASE n < k
    <3>1. n \in 1 .. k - 1 /\ \A m \in 1 .. n - 1 : m \in 1 .. k - 1
      BY <2>3, <2>4
    <3>2. T(n, A(n), C(n)) /\ \A m \in 1 .. n - 1 : A(m) = C(m)
      BY <2>1, <2>2, <3>1
    <3> QED  BY <1>3, <3>2
  <2>5. CASE k < n
    <3>1. k \in 1 .. n - 1 /\ \A m \in 1 .. k - 1 : m \in 1 .. n - 1
      BY <2>3, <2>5
    <3>2. T(k, A(k), C(k)) /\ \A m \in 1 .. k - 1 : A(m) = C(m)
      BY <2>1, <2>2, <3>1
    <3> QED  BY <1>3, <3>2
  <2>6. CASE n = k
    <3>1. T(n, A(n), C(n)) /\ \A m \in 1 .. n - 1 : A(m) = C(m)
      BY <2>1, <2>2, <2>6, <1>4
    <3> QED  BY <1>3, <3>1
  <2> QED  BY <2>3, <2>4, <2>5, <2>6
<1>8. ASSUME a.id # b.id  PROVE Precedes("sql", o, a, b) \/ Precedes("sql", o, b, a)
  <2> DEFINE S == {n \in D : A(n) # B(n)}
  <2>1. S \in SUBSET Nat /\ S # {}
    BY <1>2, <1>5, <1>8
  <2>2. \A n \in S : n \in D /\ A(n) # B(n)
    OBVIOUS
  <2>3. \A n \in D : n \notin S => A(n) = B(n)
    OBVIOUS
  <2> HIDE DEF S
  <2>4. PICK n \in S : \A m \in S : n <= m
    BY <2>1, LeastNumber
  <2>5. \A m \in 1 .. n - 1 : A(m) = B(m)
    <3> TAKE m \in 1 .. n - 1
    <3>1. n \in Nat /\ n \in 1 .. Len(o)
      BY <1>2, <2>1, <2>2
    <3>2. m \in D /\ ~(n <= m)
      BY <1>2, <3>1
    <3> QED  BY <2>3, <2>4, <3>2
  <2>6. T(n, A(n), B(n)) \/ T(n, B(n), A(n))
    BY <1>4, <2>2
  <2> QED  BY <1>3, <2>2, <2>5, <2>6
<1> QED  BY <1>6, <1>7, <1>8

-----------------------------------------------------------------------------
(* Ranks.                                                                  *)

\* R orders S, each before or after the other.
IsStrict(R, S) ==
    /\ \A i \in S : <<i, i>> \notin R
    /\ \A i, j, k \in S : <<i, j>> \in R /\ <<j, k>> \in R => <<i, k>> \in R
    /\ \A i, j \in S : i # j => <<i, j>> \in R \/ <<j, i>> \in R

\* How many come before i, and the first m by that.
RankIn(R, S, i) == Cardinality({j \in S : <<j, i>> \in R})
ByPlace(R, S, m) == [n \in 1 .. m |-> CHOOSE i \in S : RankIn(R, S, i) = n - 1]

\* Every place is taken, and by one.
LEMMA PlacesAreTaken ==
    ASSUME NEW S, IsFiniteSet(S), NEW R, IsStrict(R, S)
    PROVE  /\ Cardinality(S) \in Nat
           /\ \A i \in S : RankIn(R, S, i) \in 0 .. Cardinality(S) - 1
           /\ \A i, j \in S : RankIn(R, S, i) = RankIn(R, S, j) => i = j
           /\ \A n \in 0 .. Cardinality(S) - 1 : \E i \in S : RankIn(R, S, i) = n
           /\ \A i, j \in S : <<i, j>> \in R <=> RankIn(R, S, i) < RankIn(R, S, j)
<1> DEFINE Below(i) == {j \in S : <<j, i>> \in R}
           N == Cardinality(S)
<1>1. N \in Nat
  BY FS_CardinalityType
<1>2. \A i \in S : Below(i) \in SUBSET (S \ {i})
  BY DEF IsStrict
<1>3. \A i \in S : IsFiniteSet(S \ {i}) /\ Cardinality(S \ {i}) = N - 1
  BY FS_RemoveElement
<1>4. \A i \in S : /\ IsFiniteSet(Below(i)) /\ Cardinality(Below(i)) \in Nat
                   /\ Cardinality(Below(i)) <= N - 1
  <2> TAKE i \in S
  <2> DEFINE B == Below(i)
             U == S \ {i}
  <2>1. B \in SUBSET U /\ IsFiniteSet(U) /\ Cardinality(U) = N - 1
    BY <1>2, <1>3
  <2> HIDE DEF B, U, N
  <2>2. IsFiniteSet(B) /\ Cardinality(B) <= Cardinality(U)
    BY <2>1, FS_Subset
  <2>3. Cardinality(B) \in Nat
    BY <2>2, FS_CardinalityType
  <2> QED  BY <2>1, <2>2, <2>3 DEF B
<1>5. \A i \in S : RankIn(R, S, i) = Cardinality(Below(i))
  BY DEF RankIn
<1>6. \A i \in S : RankIn(R, S, i) \in 0 .. N - 1
  <2> HIDE DEF Below, N
  <2> QED  BY <1>1, <1>4, <1>5
<1>7. ASSUME NEW i \in S, NEW j \in S, <<i, j>> \in R  PROVE RankIn(R, S, i) < RankIn(R, S, j)
  <2>1. Below(i) \in SUBSET Below(j) /\ i \in Below(j) /\ i \notin Below(i)
    BY <1>7 DEF IsStrict
  <2> HIDE DEF Below
  <2>2. /\ Cardinality(Below(i)) <= Cardinality(Below(j))
        /\ Cardinality(Below(j)) = Cardinality(Below(i)) => Below(j) = Below(i)
    BY <1>4, <2>1, FS_Subset
  <2>3. Cardinality(Below(i)) # Cardinality(Below(j))
    BY <2>1, <2>2
  <2>4. Cardinality(Below(i)) \in Nat /\ Cardinality(Below(j)) \in Nat
    BY <1>4
  <2> QED  BY <1>5, <2>2, <2>3, <2>4
<1>8. \A i, j \in S : RankIn(R, S, i) = RankIn(R, S, j) => i = j
  <2> SUFFICES ASSUME NEW i \in S, NEW j \in S, RankIn(R, S, i) = RankIn(R, S, j), i # j  PROVE FALSE
    OBVIOUS
  <2>1. <<i, j>> \in R \/ <<j, i>> \in R
    BY DEF IsStrict
  <2>2. RankIn(R, S, i) < RankIn(R, S, j) \/ RankIn(R, S, j) < RankIn(R, S, i)
    BY <1>7, <2>1
  <2>3. RankIn(R, S, i) \in Nat /\ RankIn(R, S, j) \in Nat
    BY <1>1, <1>6
  <2> QED  BY <2>2, <2>3
<1>9. ASSUME NEW n \in 0 .. N - 1  PROVE \E i \in S : RankIn(R, S, i) = n
  <2> DEFINE P == 0 .. N - 1
             f == [i \in S |-> RankIn(R, S, i)]
  <2>1. f \in [S -> P] /\ \A i, j \in S : f[i] = f[j] => i = j
    BY <1>6, <1>8
  <2>2. f \in Injection(S, P)
    BY <2>1 DEF Injection, IsInjective
  <2>3. IsFiniteSet(P) /\ Cardinality(P) = N
    BY <1>1, FS_Interval
  <2> HIDE DEF f, P
  <2>4. f \in Surjection(S, P)
    BY <2>2, <2>3, FS_Injection DEF N
  <2>5. \E i \in S : f[i] = n
    BY <2>4, <1>9 DEF Surjection, P
  <2> QED  BY <2>5 DEF f
<1>10. \A i, j \in S : RankIn(R, S, i) < RankIn(R, S, j) => <<i, j>> \in R
  <2> SUFFICES ASSUME NEW i \in S, NEW j \in S, RankIn(R, S, i) < RankIn(R, S, j)  PROVE <<i, j>> \in R
    OBVIOUS
  <2>1. RankIn(R, S, i) \in Nat /\ RankIn(R, S, j) \in Nat
    BY <1>1, <1>6
  <2>2. i # j
    BY <2>1
  <2>3. <<j, i>> \in R => RankIn(R, S, j) < RankIn(R, S, i)
    BY <1>7
  <2> QED  BY <2>1, <2>2, <2>3 DEF IsStrict
<1> QED  BY <1>1, <1>6, <1>7, <1>8, <1>9, <1>10

\* The first m, put in order again, are the first m.
LEMMA FirstOfFirst ==
    ASSUME NEW S, IsFiniteSet(S), NEW R, IsStrict(R, S), NEW m \in Nat, m <= Cardinality(S),
           NEW T, T = Elements(ByPlace(R, S, m))
    PROVE  /\ T \in SUBSET S
           /\ Cardinality(T) = m
           /\ ByPlace(R, T, m) = ByPlace(R, S, m)
<1> DEFINE s == ByPlace(R, S, m)
<1>1. /\ Cardinality(S) \in Nat
      /\ \A i \in S : RankIn(R, S, i) \in 0 .. Cardinality(S) - 1
      /\ \A i, j \in S : RankIn(R, S, i) = RankIn(R, S, j) => i = j
      /\ \A n \in 0 .. Cardinality(S) - 1 : \E i \in S : RankIn(R, S, i) = n
      /\ \A i, j \in S : <<i, j>> \in R <=> RankIn(R, S, i) < RankIn(R, S, j)
  BY PlacesAreTaken
<1>2. ASSUME NEW n \in 1 .. m  PROVE s[n] \in S /\ RankIn(R, S, s[n]) = n - 1
  <2>1. n - 1 \in 0 .. Cardinality(S) - 1
    BY <1>1
  <2>2. \E i \in S : RankIn(R, S, i) = n - 1
    BY <1>1, <2>1
  <2>3. s[n] = CHOOSE i \in S : RankIn(R, S, i) = n - 1
    BY DEF ByPlace
  <2> QED  BY <2>2, <2>3
<1>3. DOMAIN s = 1 .. m /\ s = [n \in 1 .. m |-> s[n]]
  BY DEF ByPlace
<1>4. T = {s[n] : n \in 1 .. m}
  BY <1>3 DEF Elements
<1> HIDE DEF s
<1>5. T \in SUBSET S
  BY <1>2, <1>4
<1>6. ASSUME NEW i \in S  PROVE i \in T <=> RankIn(R, S, i) < m
  <2>1. ASSUME RankIn(R, S, i) < m  PROVE i \in T
    <3>1. RankIn(R, S, i) + 1 \in 1 .. m /\ (RankIn(R, S, i) + 1) - 1 = RankIn(R, S, i)
      BY <1>1, <2>1
    <3>2. RankIn(R, S, s[RankIn(R, S, i) + 1]) = RankIn(R, S, i) /\ s[RankIn(R, S, i) + 1] \in S
      BY <1>2, <3>1
    <3>3. s[RankIn(R, S, i) + 1] = i
      BY <1>1, <3>2
    <3> QED  BY <1>4, <3>1, <3>3
  <2>2. ASSUME i \in T  PROVE RankIn(R, S, i) < m
    <3>1. PICK n \in 1 .. m : i = s[n]
      BY <1>4, <2>2
    <3> QED  BY <1>2, <3>1
  <2> QED  BY <2>1, <2>2
<1>7. ASSUME NEW i \in T  PROVE RankIn(R, T, i) = RankIn(R, S, i)
  <2>1. {j \in T : <<j, i>> \in R} = {j \in S : <<j, i>> \in R}
    <3> SUFFICES ASSUME NEW j \in S, <<j, i>> \in R  PROVE j \in T
      BY <1>5
    <3>1. i \in S /\ RankIn(R, S, i) < m /\ RankIn(R, S, j) < RankIn(R, S, i)
      BY <1>1, <1>5, <1>6, <1>7
    <3>2. RankIn(R, S, i) \in Nat /\ RankIn(R, S, j) \in Nat
      BY <1>1, <3>1
    <3>3. RankIn(R, S, j) < m
      BY <3>1, <3>2
    <3> QED  BY <1>6, <3>3
  <2> QED  BY <2>1 DEF RankIn
<1>8. Cardinality(T) = m
  <2> DEFINE D == 1 .. m
  <2>1. s \in [D -> T] /\ \A t \in T : \E n \in D : s[n] = t
    BY <1>3, <1>4
  <2>2. \A n, k \in D : s[n] = s[k] => n = k
    <3> SUFFICES ASSUME NEW n \in D, NEW k \in D, s[n] = s[k]  PROVE n = k
      OBVIOUS
    <3>1. n - 1 = k - 1
      BY <1>2
    <3> QED  BY <3>1
  <2>3. IsFiniteSet(D) /\ Cardinality(D) = m
    BY FS_Interval
  <2> HIDE DEF D
  <2>4. s \in Surjection(D, T) /\ s \in Injection(D, T)
    BY <2>1, <2>2 DEF Surjection, Injection, IsInjective
  <2> QED  BY <2>3, <2>4, FS_Surjection
<1>9. ASSUME NEW n \in 1 .. m
      PROVE  (CHOOSE i \in T : RankIn(R, T, i) = n - 1) = s[n]
  <2> DEFINE c == CHOOSE i \in T : RankIn(R, T, i) = n - 1
  <2>1. s[n] \in T /\ RankIn(R, T, s[n]) = n - 1
    BY <1>2, <1>4, <1>7
  <2>2. c \in T /\ RankIn(R, T, c) = n - 1
    BY <2>1
  <2> HIDE DEF c
  <2>3. RankIn(R, S, c) = RankIn(R, S, s[n]) /\ c \in S /\ s[n] \in S
    BY <1>2, <1>5, <1>7, <2>2
  <2>4. c = s[n]
    BY <1>1, <2>3
  <2> QED  BY <2>4 DEF c
<1>10. ByPlace(R, T, m) = s
  BY <1>3, <1>9 DEF ByPlace
<1> QED  BY <1>5, <1>8, <1>10 DEF s

-----------------------------------------------------------------------------
(* The invariant.                                                          *)

\* What was given stays what it is.
PushdownType ==
    /\ query \in [where : Wheres, order_by : Orders, select : Selects]
    /\ caps \in Kinds
    /\ stored \in [Fields -> [Ids -> Vals \cup {Null, Absent}]]
    /\ stage \in {"planning", "reading", "combined", "filtered", "answered", "refused"}

\* The plan is what planning makes of the query.
PlanIsMade ==
    stage # "planning" =>
        plan = [scans |-> [s \in Participants |-> Scan(s)],
                fully_pushed |-> FullyPushed,
                page_pushed |-> Complete /\ AcceptsLimit(Identity)]

\* The records all narrowing sources hold and pass, those the query is about,
\* and the first of them.
Joined   == {i \in Ids : \A s \in NarrowingSources : i \in Passing(s)}
Matching == {i \in Held[Identity] : Sql(query.where, Cells(Held, i)) = 2}
Top      == Elements(Sorted("sql", Matching, Held, query.order_by, First))

\* A source returned what it holds and passes, of all records that all do, or
\* the first of the records the query is about.
ReadsFollowThePlan ==
    /\ stage = "planning" => DOMAIN received = {}
    /\ \A s \in DOMAIN received :
          /\ s \in Participants
          /\ received[s] \subseteq Passing(s)
          /\ ~plan.page_pushed => Joined \cap Passing(s) \subseteq received[s]
          /\ plan.page_pushed => received[s] = Top

\* The records handed on, after each operator.
RowsFollowTheReads ==
    /\ stage \in {"combined", "filtered"} =>
          /\ plan.page_pushed => rows = Top
          /\ DOMAIN received = Participants \/ rows = {}
    /\ stage = "combined" /\ ~plan.page_pushed => rows = Joined
    /\ stage = "filtered" /\ ~plan.page_pushed => rows = Matching \/ Misread

\* The invariant that every step keeps.
PushdownInv ==
    /\ PushdownType /\ PlanIsMade /\ ReadsFollowThePlan /\ RowsFollowTheReads
    /\ stage = "refused" => ~plan.page_pushed
    /\ AnswerIsReference

-----------------------------------------------------------------------------
(* What the plan is made of.                                               *)

\* The fields a query uses have owners, the identity source among them.
LEMMA SourcesUsed ==
    ASSUME PushdownType
    PROVE  /\ query.where \in Filters /\ query.order_by \in Orders
           /\ FieldsUsed \subseteq Named /\ "id" \in FieldsUsed
           /\ FilterFields(query.where) \subseteq FieldsUsed
           /\ \A n \in DOMAIN query.order_by : query.order_by[n].field \in FieldsUsed
           /\ Identity \in Participants /\ Participants \subseteq Sources
           /\ \A f \in FieldsUsed : OwnerOf(f) \in Participants
           /\ \A f \in Named : OwnerOf(f) \in Sources
<1>1. query.where \in Filters /\ query.order_by \in Orders /\ query.select \subseteq Named
  BY FilterAssumption, PushdownAssumption DEF PushdownType
<1>2. FilterFields(query.where) \subseteq Named
  BY <1>1, FieldsOfParts
<1>3. \A n \in DOMAIN query.order_by : query.order_by[n].field \in Named
  BY <1>1, OrderIsTyped
<1>4. FieldsUsed \subseteq Named /\ "id" \in FieldsUsed
  BY <1>1, <1>2, <1>3 DEF FieldsUsed, Named
<1>5. \A f \in Named : OwnerOf(f) \in Sources
  BY DEF OwnerOf, Sources, Named
<1>6. OwnerOf("id") = Identity
  BY DEF OwnerOf
<1> QED  BY <1>1, <1>4, <1>5, <1>6 DEF FieldsUsed, Participants

\* The values of a record's fields, as the sources hold them.
LEMMA HeldRows ==
    ASSUME PushdownType, NEW i \in Ids
    PROVE  /\ IsRow(Cells(Held, i))
           /\ Cells(Held, i).id = i
           /\ \A f \in Fields : i \notin Held[Owner[f]] => Cells(Held, i)[f] = Null
           /\ \A s \in Sources : Held[s] \subseteq Ids
<1>1. "id" \notin Fields /\ Ids \subseteq Nat /\ Vals \subseteq Nat
  BY PushdownAssumption
<1>2. \A f \in Fields : Owner[f] \in Sources
  BY DEF Sources
<1>3. \A s \in Sources : Held[s] = {j \in Ids : \A f \in Fields : Owner[f] = s => stored[f][j] # Absent}
  BY DEF Held
<1>4. \A f \in Fields : i \in Held[Owner[f]] => stored[f][i] \in Vals \cup {Null}
  BY <1>2, <1>3 DEF PushdownType
<1>5. \A f \in Named : Cells(Held, i)[f] = IF f = "id" THEN i
                            ELSE IF i \in Held[Owner[f]] THEN stored[f][i] ELSE Null
  BY DEF Cells
<1>6. ASSUME NEW f \in Named  PROVE Cells(Held, i)[f] \in Cell
  <2>1. CASE f = "id"
    BY <1>1, <1>5, <2>1 DEF Cell
  <2>2. CASE f # "id"
    BY <1>1, <1>4, <1>5, <2>2 DEF Cell, Named
  <2> QED  BY <2>1, <2>2
<1> QED  BY <1>1, <1>3, <1>5, <1>6 DEF IsRow, Named

\* What a source can decide of a condition.
LEMMA LocalConditionsNeedRows ==
    ASSUME PushdownType, NEW s \in Sources, s # Identity, NEW c \in Filters, Local(c, s),
           NEW i \in Ids, Sql(c, Cells(Held, i)) = 2
    PROVE  i \in Held[s]
<1> SUFFICES ASSUME i \notin Held[s]  PROVE FALSE
  OBVIOUS
<1>1. \A f \in FilterFields(c) : f \in Fields /\ Owner[f] = s
  BY FieldsOfParts DEF Local, OwnerOf, Named
<1>2. \A f \in FilterFields(c) : Cells(Held, i)[f] = Null
  BY <1>1, HeldRows
<1>3. Truth(c, Cells(Held, i)) = OnNulls[c]
  BY <1>2, NoFieldsNullTruth
<1>4. Truth(c, Cells(Held, i)) = "true"
  <2>1. \A l \in Leaves[c] : Cells(Held, i)[l.field] = Null
    BY <1>2 DEF FilterFields
  <2>2. AllReadAlike(c, Cells(Held, i))
    BY <2>1 DEF AllReadAlike, ReadAlike
  <2> QED  BY <2>2, SqlIsTruth DEF Agree
<1> QED  BY <1>3, <1>4 DEF Local, HoldsWhenEveryFieldIsNull

\* The plan, part by part.
LEMMA PlannedScans ==
    ASSUME PushdownType, PlanIsMade, stage # "planning"
    PROVE  /\ \A s \in Participants : plan.scans[s] = Scan(s)
           /\ plan.fully_pushed <=> FullyPushed
           /\ plan.page_pushed <=> Complete /\ AcceptsLimit(Identity)
<1> DEFINE scans == [s \in Participants |-> Scan(s)]
           fully == FullyPushed
           paged == Complete /\ AcceptsLimit(Identity)
<1>1. plan = [scans |-> scans, fully_pushed |-> fully, page_pushed |-> paged]
  BY DEF PlanIsMade
<1> HIDE DEF scans, fully, paged
<1>2. plan.scans = scans
  BY <1>1
<1>3. plan.fully_pushed = fully
  BY <1>1
<1>4. plan.page_pushed = paged
  BY <1>1
<1>5. \A s \in Participants : plan.scans[s] = Scan(s)
  BY <1>2 DEF scans
<1>6. plan.fully_pushed <=> FullyPushed
  BY <1>3, Zenon DEF fully
<1>7. plan.page_pushed <=> Complete /\ AcceptsLimit(Identity)
  BY <1>4, Zenon DEF paged
<1> QED  BY <1>5, <1>6, <1>7

\* Nobody narrows a record away that the query is about, and if the sources
\* decide everything, nobody lets another one pass.
LEMMA JoinedMatches ==
    ASSUME PushdownType, PlanIsMade, stage # "planning"
    PROVE  /\ Joined \subseteq Held[Identity]
           /\ Matching = {i \in Joined : Sql(query.where, Cells(Held, i)) = 2}
           /\ plan.fully_pushed => Joined = Matching
<1> DEFINE w == query.where
           Holds(c, i) == Sql(c, Cells(Held, i)) = 2
<1>1. /\ w \in Filters /\ Identity \in Participants /\ Participants \subseteq Sources
      /\ \A s \in Sources : Held[s] \subseteq Ids
  <2>1. \A s \in Sources : Held[s] = {j \in Ids : \A f \in Fields : Owner[f] = s => stored[f][j] # Absent}
    BY DEF Held
  <2> QED  BY <2>1, SourcesUsed
<1>2. TopLevelConjuncts[w] \subseteq Filters
  BY <1>1, ConjunctsAre
<1>3. \A i : Holds(w, i) <=> \A c \in TopLevelConjuncts[w] : Holds(c, i)
  BY <1>1, ConjunctsDecide
<1>4. \A s \in Participants : plan.scans[s].filter = IF AcceptsRequest(s) THEN Requested(s) ELSE {}
  <2> TAKE s \in Participants
  <2>1. plan.scans[s] = Scan(s)
    BY PlannedScans
  <2> QED  BY <2>1 DEF Scan
<1>5. \A s, i : i \in Passing(s) <=> i \in Held[s] /\ \A c \in plan.scans[s].filter : Holds(c, i)
  BY DEF Passing
<1>6. Identity \in NarrowingSources /\ NarrowingSources \subseteq Participants
  BY <1>1 DEF NarrowingSources
<1>7. \A s : Requested(s) \subseteq TopLevelConjuncts[w]
  BY DEF Requested, LocalConditions
<1>8. Joined \subseteq Held[Identity]
  BY <1>5, <1>6 DEF Joined
<1> HIDE DEF Holds, w
<1>9. ASSUME NEW i \in Held[Identity], Holds(w, i), NEW s \in NarrowingSources  PROVE i \in Passing(s)
  <2>1. \A c \in plan.scans[s].filter : c \in TopLevelConjuncts[w] /\ Holds(c, i)
    BY <1>3, <1>4, <1>6, <1>7, <1>9
  <2>2. CASE s = Identity
    BY <1>5, <1>9, <2>1, <2>2
  <2>3. CASE s # Identity
    <3>1. ~Complete /\ plan.scans[s].filter # {} /\ s \in Sources
      BY <1>1, <1>6, <2>3 DEF Complete, NarrowingSources
    <3>2. PICK c \in plan.scans[s].filter : TRUE
      BY <3>1
    <3>3. c \in LocalConditions(s)
      BY <1>4, <1>6, <3>1, <3>2 DEF Requested
    <3>4. Local(c, s) /\ c \in Filters /\ Holds(c, i) /\ i \in Ids
      BY <1>1, <1>2, <1>9, <2>1, <3>3 DEF LocalConditions
    <3>5. i \in Held[s]
      BY <2>3, <3>1, <3>4, LocalConditionsNeedRows DEF Holds
    <3> QED  BY <1>5, <2>1, <3>5
  <2> QED  BY <2>2, <2>3
<1>10. \A i : i \in Matching <=> i \in Held[Identity] /\ Holds(w, i)
  BY DEF Matching, Holds, w
<1>11. \A i : i \in Matching <=> i \in Joined /\ Holds(w, i)
  <2>1. \A i \in Held[Identity] : i \in Ids
    BY <1>1
  <2> QED  BY <1>8, <1>9, <1>10, <2>1 DEF Joined
<1>12. ASSUME plan.fully_pushed, NEW i \in Joined  PROVE Holds(w, i)
  <2>1. FullyPushed /\ \A s \in Participants : AcceptsRequest(s)
    BY <1>12, PlannedScans DEF FullyPushed
  <2>2. \A s \in Participants : plan.scans[s].filter = Requested(s)
    BY <1>4, <2>1
  <2>3. ASSUME NEW c \in TopLevelConjuncts[w]  PROVE Holds(c, i)
    <3>1. \E s \in Participants : c \in Requested(s)
      <4>1. CASE Complete
        BY <1>1, <2>3, <4>1 DEF Requested, w
      <4>2. CASE ~Complete
        BY <2>1, <2>3, <4>2 DEF FullyPushed, Requested, w
      <4> QED  BY <4>1, <4>2
    <3>2. PICK s \in Participants : c \in plan.scans[s].filter
      BY <2>2, <3>1
    <3>3. i \in Passing(s)
      BY <1>12, <3>2 DEF Joined, NarrowingSources
    <3> QED  BY <1>5, <3>2, <3>3
  <2> QED  BY <1>3, <2>3
<1>13. Matching = {i \in Joined : Holds(w, i)}
  BY <1>11
<1>14. plan.fully_pushed => Joined = Matching
  BY <1>11, <1>12
<1> QED  BY <1>8, <1>13, <1>14 DEF Holds, w

\* A page is pushed to the one source that answers the whole query.
LEMMA PagePushed ==
    ASSUME PushdownType, PlanIsMade, stage # "planning", plan.page_pushed
    PROVE  /\ Participants = {Identity} /\ NarrowingSources = {Identity} /\ Complete
           /\ plan.scans[Identity].limit = First
           /\ plan.scans[Identity].order_by = query.order_by
           /\ plan.scans[Identity].maximum_rows = NoLimit
           /\ plan.fully_pushed
           /\ Passing(Identity) = Matching
<1>1. Complete /\ AcceptsLimit(Identity)
  BY PlannedScans
<1>2. Participants = {Identity} /\ NarrowingSources = {Identity}
  BY <1>1 DEF Complete, NarrowingSources
<1>3. AcceptsOrder(Identity) /\ AcceptsRequest(Identity) /\ ~NeedsGuard(Identity)
  BY <1>1 DEF AcceptsLimit, AcceptsOrder, NeedsGuard
<1>4. plan.scans[Identity] = Scan(Identity)
  BY <1>2, PlannedScans
<1>5. /\ plan.scans[Identity].filter = Requested(Identity)
      /\ plan.scans[Identity].limit = First
      /\ plan.scans[Identity].order_by = query.order_by
      /\ plan.scans[Identity].maximum_rows = NoLimit
  BY <1>1, <1>3, <1>4 DEF Scan
<1>6. FullyPushed
  BY <1>1, <1>2, <1>3 DEF FullyPushed
<1>7. plan.fully_pushed
  BY <1>6, PlannedScans
<1>8. plan.scans[Identity].filter = TopLevelConjuncts[query.where]
  BY <1>1, <1>5 DEF Requested
<1>9. query.where \in Filters
  BY SourcesUsed
<1>10. \A i : Sql(query.where, Cells(Held, i)) = 2
                <=> \A c \in TopLevelConjuncts[query.where] : Sql(c, Cells(Held, i)) = 2
  BY <1>9, ConjunctsDecide
<1>11. Passing(Identity) = Matching
  BY <1>8, <1>10 DEF Passing, Matching
<1> QED  BY <1>1, <1>2, <1>5, <1>7, <1>11

\* Otherwise no source cuts what it returns.
LEMMA NothingIsCut ==
    ASSUME PushdownType, PlanIsMade, stage # "planning", ~plan.page_pushed
    PROVE  \A s \in Participants : plan.scans[s].limit = NoLimit
<1> TAKE s \in Participants
<1>1. plan.scans[s] = Scan(s)
  BY PlannedScans
<1>2. ~(Complete /\ AcceptsLimit(Identity))
  BY PlannedScans
<1>3. ~AcceptsLimit(s)
  BY <1>2 DEF AcceptsLimit, AcceptsOrder, Complete
<1> QED  BY <1>1, <1>3 DEF Scan

-----------------------------------------------------------------------------
(* Sorting.                                                                *)

\* Which record SQL puts before which.
Before == {p \in Ids \X Ids : Precedes("sql", query.order_by, Cells(Held, p[1]), Cells(Held, p[2]))}

\* It puts any two IDs one after the other, in one way.
LEMMA BeforeIsStrict ==
    ASSUME PushdownType, NEW S \in SUBSET Ids
    PROVE  IsFiniteSet(S) /\ IsStrict(Before, S)
<1> DEFINE o == query.order_by
           row(i) == Cells(Held, i)
<1>1. o \in Orders
  BY SourcesUsed
<1>2. \A i \in Ids : IsRow(row(i)) /\ row(i).id = i
  BY HeldRows
<1>3. \A i, j : <<i, j>> \in Before <=> i \in Ids /\ j \in Ids /\ Precedes("sql", o, row(i), row(j))
  BY DEF Before
<1> HIDE DEF o, row
<1>4. \A i, j, k \in Ids :
          /\ ~Precedes("sql", o, row(i), row(i))
          /\ Precedes("sql", o, row(i), row(j)) /\ Precedes("sql", o, row(j), row(k)) => Precedes("sql", o, row(i), row(k))
          /\ row(i).id # row(j).id => Precedes("sql", o, row(i), row(j)) \/ Precedes("sql", o, row(j), row(i))
  <2> TAKE i, j, k \in Ids
  <2> QED  BY <1>1, <1>2, PrecedenceIsStrict
<1>5. IsStrict(Before, S)
  BY <1>2, <1>3, <1>4 DEF IsStrict
<1> QED  BY <1>5, PushdownAssumption, FS_Subset

\* Sorting puts records in their places.
LEMMA SortedByPlace ==
    ASSUME NEW S, IsFiniteSet(S), NEW R, IsStrict(R, S), NEW reader, NEW present, NEW o,
           NEW limit \in Nat,
           \A i, j \in S : Precedes(reader, o, Cells(present, j), Cells(present, i)) <=> <<j, i>> \in R
    PROVE  Sorted(reader, S, present, o, limit) = ByPlace(R, S, Least({limit, Cardinality(S)}))
<1> DEFINE Rank(i) == Cardinality({j \in S : Precedes(reader, o, Cells(present, j), Cells(present, i))})
           m == Least({limit, Cardinality(S)})
<1>1. \A i \in S : Rank(i) = RankIn(R, S, i)
  <2> TAKE i \in S
  <2>1. {j \in S : Precedes(reader, o, Cells(present, j), Cells(present, i))} = {j \in S : <<j, i>> \in R}
    OBVIOUS
  <2> QED  BY <2>1 DEF RankIn
<1>2. Sorted(reader, S, present, o, limit) = [n \in 1 .. m |-> CHOOSE i \in S : Rank(i) = n - 1]
  BY DEF Sorted
<1>3. /\ Cardinality(S) \in Nat
      /\ \A i, j \in S : RankIn(R, S, i) = RankIn(R, S, j) => i = j
      /\ \A n \in 0 .. Cardinality(S) - 1 : \E i \in S : RankIn(R, S, i) = n
  BY PlacesAreTaken
<1>4. {limit, Cardinality(S)} \in SUBSET Nat /\ {limit, Cardinality(S)} # {}
  BY <1>3
<1>5. m \in Nat /\ m <= Cardinality(S)
  BY <1>4, LeastIs
<1> HIDE DEF Rank, m
<1>6. ASSUME NEW n \in 1 .. m
      PROVE  (CHOOSE i \in S : Rank(i) = n - 1) = (CHOOSE i \in S : RankIn(R, S, i) = n - 1)
  <2> DEFINE c == CHOOSE i \in S : Rank(i) = n - 1
             d == CHOOSE i \in S : RankIn(R, S, i) = n - 1
  <2>1. n - 1 \in 0 .. Cardinality(S) - 1
    BY <1>3, <1>5
  <2>2. PICK i \in S : RankIn(R, S, i) = n - 1
    BY <1>3, <2>1
  <2>3. c \in S /\ Rank(c) = n - 1
    BY <1>1, <2>2
  <2>4. d \in S /\ RankIn(R, S, d) = n - 1
    BY <2>2
  <2> HIDE DEF c, d
  <2>5. c = d
    BY <1>1, <1>3, <2>3, <2>4
  <2> QED  BY <2>5 DEF c, d
<1> QED  BY <1>2, <1>6 DEF ByPlace, m

\* What SQL returns of the first records is what it returns of all.
LEMMA TopIsFirst ==
    ASSUME PushdownType
    PROVE  /\ Matching \in SUBSET Ids /\ Top \in SUBSET Matching
           /\ Sorted("sql", Top, Held, query.order_by, Cardinality(Top)) = Reference
<1> DEFINE n == Cardinality(Matching)
           m == Least({First, n})
           o == query.order_by
<1>1. Matching \in SUBSET Ids
  BY SourcesUsed, HeldRows DEF Matching, Held
<1>2. IsFiniteSet(Matching) /\ IsStrict(Before, Matching)
  BY <1>1, BeforeIsStrict
<1>3. \A i, j \in Ids : Precedes("sql", o, Cells(Held, j), Cells(Held, i)) <=> <<j, i>> \in Before
  BY DEF Before
<1>4. n \in Nat /\ First \in Nat
  BY <1>2, FS_CardinalityType, PushdownAssumption
<1>5. {First, n} \in SUBSET Nat /\ {First, n} # {}
  BY <1>4
<1>6. m \in Nat /\ m <= n
  BY <1>5, LeastIs
<1> HIDE DEF m, n, o
<1>7. Sorted("sql", Matching, Held, o, First) = ByPlace(Before, Matching, Least({First, Cardinality(Matching)}))
  BY <1>1, <1>2, <1>3, <1>4, SortedByPlace
<1>8. Reference = ByPlace(Before, Matching, m)
  <2>1. Reference = Sorted("sql", Matching, Held, o, First)
    BY DEF Reference, Matching, o
  <2> QED  BY <1>7, <2>1 DEF m, n
<1>9. Top = Elements(ByPlace(Before, Matching, m))
  BY <1>7 DEF Top, o, m, n
<1> DEFINE T == Top
<1>10. T = Elements(ByPlace(Before, Matching, m))
  BY <1>9
<1> HIDE DEF T
<1>11. /\ T \in SUBSET Matching /\ Cardinality(T) = m
       /\ ByPlace(Before, T, m) = ByPlace(Before, Matching, m)
  BY <1>2, <1>6, <1>10, FirstOfFirst DEF n
<1>12. IsFiniteSet(T) /\ IsStrict(Before, T) /\ T \in SUBSET Ids
  BY <1>1, <1>11, BeforeIsStrict
<1>13. Sorted("sql", T, Held, o, m) = ByPlace(Before, T, Least({m, Cardinality(T)}))
  BY <1>3, <1>6, <1>12, SortedByPlace
<1>14. Least({m, Cardinality(T)}) = m
  <2>1. {m, Cardinality(T)} = {m}
    BY <1>11
  <2>2. {m} \in SUBSET Nat /\ {m} # {}
    BY <1>6
  <2> QED  BY <2>1, <2>2, LeastIs
<1>15. Sorted("sql", T, Held, o, Cardinality(T)) = Reference
  BY <1>8, <1>11, <1>13, <1>14
<1> QED  BY <1>1, <1>11, <1>15 DEF T, o

-----------------------------------------------------------------------------
(* What the coordinator knows of the records it joined.                    *)

\* Of a record it joined, the coordinator knows what the sources hold.
LEMMA KnownRows ==
    ASSUME PushdownInv, stage # "planning", ~plan.page_pushed, DOMAIN received = Participants,
           NEW i \in Joined, NEW f \in FieldsUsed
    PROVE  Cells(Known, i)[f] = Cells(Held, i)[f]
<1>1. /\ f \in Named /\ OwnerOf(f) \in Participants /\ Participants \subseteq Sources
      /\ i \in Ids
  BY SourcesUsed DEF PushdownInv, Joined
<1>2. CASE f = "id"
  BY <1>1, <1>2 DEF Cells, Named
<1>3. CASE f # "id"
  <2> DEFINE s == Owner[f]
  <2>1. f \in Fields /\ s \in Participants
    BY <1>1, <1>3 DEF Named, OwnerOf
  <2>2. Known[s] = received[s]
    BY <1>1, <2>1 DEF Known, WasRead
  <2>3. received[s] \subseteq Passing(s) /\ Joined \cap Passing(s) \subseteq received[s]
    BY <2>1 DEF PushdownInv, ReadsFollowThePlan
  <2>4. Passing(s) \subseteq Held[s]
    BY DEF Passing
  <2>5. i \in Held[s] => i \in Passing(s)
    <3>1. CASE s \in NarrowingSources
      BY <3>1 DEF Joined
    <3>2. CASE s \notin NarrowingSources
      BY <2>1, <3>2 DEF NarrowingSources, Passing
    <3> QED  BY <3>1, <3>2
  <2>6. i \in Known[s] <=> i \in Held[s]
    BY <2>2, <2>3, <2>4, <2>5
  <2>7. \A present : Cells(present, i)[f] = IF i \in present[s] THEN stored[f][i] ELSE Null
    BY <1>1, <1>3 DEF Cells
  <2> HIDE DEF s
  <2> QED  BY <2>6, <2>7
<1> QED  BY <1>2, <1>3

-----------------------------------------------------------------------------
(* The steps.                                                              *)

\* What follows from the query and its plan stays while both do.
LEMMA GivenStays ==
    ASSUME UNCHANGED given, plan' = plan
    PROVE  /\ Held' = Held /\ Participants' = Participants
           /\ Joined' = Joined /\ Matching' = Matching /\ Top' = Top
           /\ Reference' = Reference /\ Misread' = Misread
           /\ \A s : Passing(s)' = Passing(s)
           /\ PlanIsMade /\ stage # "planning" => PlanIsMade'
           /\ PushdownType /\ stage' \in {"reading", "combined", "filtered", "answered", "refused"} => PushdownType'
<1>1. query' = query /\ caps' = caps /\ python' = python /\ stored' = stored /\ plan' = plan
  BY DEF given
<1>2. Held' = Held
  BY <1>1 DEF Held
<1>3. Participants' = Participants
  BY <1>1 DEF Participants, FieldsUsed
<1>4. \A s : Passing(s)' = Passing(s)
  BY <1>1 DEF Passing, Held, Cells
<1>5. Reference' = Reference
  BY <1>1 DEF Reference, Held, Cells, Sorted
<1>6. Matching' = Matching
  BY <1>1 DEF Matching, Held, Cells
<1>7. Top' = Top
  BY <1>1 DEF Top, Matching, Held, Cells, Sorted
<1>8. Joined' = Joined
  BY <1>1 DEF Joined, NarrowingSources, Participants, FieldsUsed, Passing, Held, Cells
<1>9. FullyPushed' = FullyPushed
  BY <1>1 DEF FullyPushed, Participants, FieldsUsed, LocalConditions, AcceptsRequest, Accepts, Requested, Complete
<1>10. \A s : Scan(s)' = Scan(s)
  BY <1>1 DEF Scan, Participants, FieldsUsed, LocalConditions, AcceptsRequest, Accepts, Requested, Complete,
              AcceptsOrder, AcceptsLimit, NeedsGuard, Orderable
<1>11. (Complete /\ AcceptsLimit(Identity))' = (Complete /\ AcceptsLimit(Identity))
  BY <1>1 DEF Participants, FieldsUsed, LocalConditions, AcceptsRequest, Accepts, Requested, Complete,
              AcceptsOrder, AcceptsLimit, Orderable
<1>12. PlanIsMade /\ stage # "planning" => PlanIsMade'
  <2> SUFFICES ASSUME PlanIsMade, stage # "planning"
               PROVE  plan' = [scans |-> [s \in Participants' |-> Scan(s)'],
                               fully_pushed |-> FullyPushed',
                               page_pushed |-> (Complete /\ AcceptsLimit(Identity))']
    BY DEF PlanIsMade
  <2>1. plan = [scans |-> [s \in Participants |-> Scan(s)],
                fully_pushed |-> FullyPushed,
                page_pushed |-> Complete /\ AcceptsLimit(Identity)]
    BY DEF PlanIsMade
  <2>2. [s \in Participants' |-> Scan(s)'] = [s \in Participants |-> Scan(s)]
    BY <1>3, <1>10
  <2> QED  BY <1>1, <1>9, <1>11, <2>1, <2>2
<1>13. PushdownType /\ stage' \in {"reading", "combined", "filtered", "answered", "refused"} => PushdownType'
  BY <1>1 DEF PushdownType
<1>14. Misread' = Misread
  BY <1>1 DEF Misread, Held, Cells, HoldsInPython
<1> QED  BY <1>2, <1>3, <1>4, <1>5, <1>6, <1>7, <1>8, <1>12, <1>13, <1>14

\* Before planning there is nothing to be wrong.
LEMMA PushdownInitially == PushdownInit => PushdownInv
BY DEF PushdownInit, PushdownInv, PushdownType, PlanIsMade, ReadsFollowThePlan, RowsFollowTheReads, AnswerIsReference

\* Planning makes the plan.
LEMMA PlanQueryStep ==
    ASSUME PushdownInv, PlanQuery
    PROVE  PushdownInv'
<1>1. /\ UNCHANGED given /\ stage' = "reading" /\ received' = received
      /\ plan' = [scans |-> [s \in Participants |-> Scan(s)],
                  fully_pushed |-> FullyPushed,
                  page_pushed |-> Complete /\ AcceptsLimit(Identity)]
  BY DEF PlanQuery
<1>2. query' = query /\ caps' = caps /\ stored' = stored
  BY <1>1 DEF given
<1>3. Participants' = Participants
  BY <1>2 DEF Participants, FieldsUsed
<1>4. FullyPushed' = FullyPushed
  BY <1>2 DEF FullyPushed, Participants, FieldsUsed, LocalConditions, AcceptsRequest, Accepts, Requested, Complete
<1>5. \A s : Scan(s)' = Scan(s)
  BY <1>2 DEF Scan, Participants, FieldsUsed, LocalConditions, AcceptsRequest, Accepts, Requested, Complete,
              AcceptsOrder, AcceptsLimit, NeedsGuard, Orderable
<1>6. (Complete /\ AcceptsLimit(Identity))' = (Complete /\ AcceptsLimit(Identity))
  BY <1>2 DEF Participants, FieldsUsed, LocalConditions, AcceptsRequest, Accepts, Requested, Complete,
              AcceptsOrder, AcceptsLimit, Orderable
<1>7. [s \in Participants' |-> Scan(s)'] = [s \in Participants |-> Scan(s)]
  BY <1>3, <1>5
<1>8. plan' = [scans |-> [s \in Participants' |-> Scan(s)'],
               fully_pushed |-> FullyPushed',
               page_pushed |-> (Complete /\ AcceptsLimit(Identity))']
  BY <1>1, <1>4, <1>6, <1>7
<1>9. PlanIsMade'
  BY <1>8 DEF PlanIsMade
<1>10. PushdownType'
  BY <1>1, <1>2 DEF PushdownInv, PushdownType
<1>11. DOMAIN received' = {}
  BY <1>1 DEF PushdownInv, ReadsFollowThePlan, PlanQuery
<1>12. ReadsFollowThePlan'
  BY <1>11 DEF ReadsFollowThePlan
<1> QED  BY <1>1, <1>9, <1>10, <1>12 DEF PushdownInv, RowsFollowTheReads, AnswerIsReference

\* Everything joined is in what the narrowing sources read so far returned.
LEMMA JoinedAreKeys ==
    ASSUME PushdownInv, ~plan.page_pushed
    PROVE  Joined \subseteq Keys
<1>1. ASSUME NEW i \in Joined, NEW s \in NarrowingSources, WasRead(s)  PROVE i \in received[s]
  <2>1. Joined \cap Passing(s) \subseteq received[s]
    BY <1>1 DEF PushdownInv, ReadsFollowThePlan, WasRead
  <2> QED  BY <1>1, <2>1 DEF Joined
<1>2. Joined \subseteq Ids
  BY DEF Joined
<1> QED  BY <1>1, <1>2 DEF Keys

\* A read returns what its scan asks for, of the records joined at least.
LEMMA ReadSourceStep ==
    ASSUME PushdownInv, NEW s \in Sources, NEW restrict \in BOOLEAN, ReadSource(s, restrict)
    PROVE  PushdownInv'
<1> DEFINE found == Passing(s) \cap (IF restrict THEN Keys ELSE Ids)
           taken == IF plan.scans[s].limit = NoLimit THEN found
                    ELSE Elements(Sorted("sql", found, Held, plan.scans[s].order_by, plan.scans[s].limit))
           guarded == plan.scans[s].maximum_rows # NoLimit
           next == [x \in DOMAIN received \cup {s} |-> IF x = s THEN taken ELSE received[x]]
<1>1. /\ stage = "reading" /\ s \in Participants /\ ~WasRead(s)
      /\ restrict => \E n \in NarrowingSources : WasRead(n)
      /\ UNCHANGED given /\ plan' = plan
      /\ \/ guarded /\ stage' = "refused" /\ received' = received
         \/ received' = next /\ stage' = stage
  BY DEF ReadSource
<1>2. PushdownType /\ PlanIsMade /\ stage # "planning"
  BY <1>1 DEF PushdownInv
<1>3. /\ Participants' = Participants /\ Joined' = Joined /\ Top' = Top
      /\ \A x : Passing(x)' = Passing(x)
      /\ PlanIsMade' /\ PushdownType'
  BY <1>1, <1>2, GivenStays
<1>4. /\ taken \subseteq Passing(s)
      /\ ~plan.page_pushed => Joined \cap Passing(s) \subseteq taken
      /\ plan.page_pushed => taken = Top
  <2>1. CASE plan.page_pushed
    <3>1. /\ NarrowingSources = {Identity} /\ s = Identity /\ Passing(s) = Matching
          /\ plan.scans[s].limit = First /\ plan.scans[s].order_by = query.order_by
      BY <1>1, <1>2, <2>1, PagePushed
    <3>2. ~restrict
      BY <1>1, <3>1
    <3>3. Matching \in SUBSET Ids /\ Top \in SUBSET Matching
      BY <1>2, TopIsFirst
    <3>4. found = Matching
      BY <3>1, <3>2, <3>3
    <3>5. First # NoLimit
      BY PushdownAssumption
    <3> HIDE DEF found
    <3>6. taken = Top
      BY <3>1, <3>4, <3>5 DEF Top
    <3> QED  BY <2>1, <3>1, <3>3, <3>6
  <2>2. CASE ~plan.page_pushed
    <3>1. plan.scans[s].limit = NoLimit
      BY <1>1, <1>2, <2>2, NothingIsCut
    <3>2. Joined \subseteq Keys /\ Joined \subseteq Ids
      BY <2>2, JoinedAreKeys DEF Joined
    <3> QED  BY <2>2, <3>1, <3>2
  <2> QED  BY <2>1, <2>2
<1> HIDE DEF taken, found, guarded
<1>5. CASE guarded /\ stage' = "refused" /\ received' = received
  <2>1. ~plan.page_pushed
    <3>1. plan.page_pushed => s = Identity /\ plan.scans[s].maximum_rows = NoLimit
      BY <1>1, <1>2, PagePushed
    <3> QED  BY <1>5, <3>1 DEF guarded
  <2>2. ReadsFollowThePlan'
    BY <1>1, <1>3, <1>5 DEF PushdownInv, ReadsFollowThePlan
  <2>3. ~plan'.page_pushed
    BY <1>1, <2>1
  <2> QED  BY <1>3, <1>5, <2>2, <2>3 DEF PushdownInv, RowsFollowTheReads, AnswerIsReference
<1>6. CASE received' = next /\ stage' = stage
  <2>1. DOMAIN received' = DOMAIN received \cup {s} /\ received'[s] = taken
        /\ \A x \in DOMAIN received : x # s => received'[x] = received[x]
    BY <1>6
  <2>2. s \notin DOMAIN received
    BY <1>1 DEF WasRead
  <2>3. \A x \in DOMAIN received :
            /\ x \in Participants
            /\ received[x] \subseteq Passing(x)
            /\ ~plan.page_pushed => Joined \cap Passing(x) \subseteq received[x]
            /\ plan.page_pushed => received[x] = Top
    BY DEF PushdownInv, ReadsFollowThePlan
  <2>4. \A x \in DOMAIN received' :
            /\ x \in Participants
            /\ received'[x] \subseteq Passing(x)
            /\ ~plan.page_pushed => Joined \cap Passing(x) \subseteq received'[x]
            /\ plan.page_pushed => received'[x] = Top
    BY <1>1, <1>4, <2>1, <2>2, <2>3
  <2> HIDE DEF next
  <2>5. ReadsFollowThePlan'
    BY <1>1, <1>3, <1>6, <2>4 DEF ReadsFollowThePlan
  <2> QED  BY <1>1, <1>3, <1>6, <2>5 DEF PushdownInv, RowsFollowTheReads, AnswerIsReference
<1> QED  BY <1>1, <1>5, <1>6

\* What is combined was joined.
LEMMA CombineStep ==
    ASSUME PushdownInv, Combine
    PROVE  PushdownInv'
<1>1. /\ stage = "reading" /\ (DOMAIN received = Participants \/ OutOfKeys)
      /\ rows' = Keys /\ stage' = "combined"
      /\ UNCHANGED given /\ plan' = plan /\ received' = received
  BY DEF Combine
<1>2. PushdownType /\ PlanIsMade /\ stage # "planning"
  BY <1>1 DEF PushdownInv
<1>3. /\ Participants' = Participants /\ Joined' = Joined /\ Top' = Top
      /\ \A x : Passing(x)' = Passing(x)
      /\ PlanIsMade' /\ PushdownType'
  BY <1>1, <1>2, GivenStays
<1>4. ReadsFollowThePlan'
  BY <1>1, <1>3 DEF PushdownInv, ReadsFollowThePlan
<1>5. ASSUME plan.page_pushed  PROVE DOMAIN received = Participants /\ Keys = Top
  <2>1. Participants = {Identity} /\ NarrowingSources = {Identity} /\ Complete
    BY <1>2, <1>5, PagePushed
  <2>2. DOMAIN received = Participants
    BY <1>1, <2>1 DEF OutOfKeys
  <2>3. received[Identity] = Top
    BY <1>5, <2>1, <2>2 DEF PushdownInv, ReadsFollowThePlan
  <2>4. Top \subseteq Ids
    BY <1>2, TopIsFirst
  <2> QED  BY <2>1, <2>2, <2>3, <2>4 DEF Keys, WasRead
<1>6. ASSUME ~plan.page_pushed  PROVE Keys = Joined /\ (DOMAIN received = Participants \/ Keys = {})
  <2>1. Joined \subseteq Keys
    BY <1>6, JoinedAreKeys
  <2>2. CASE DOMAIN received = Participants
    <3>1. ASSUME NEW i \in Keys, NEW s \in NarrowingSources  PROVE i \in Passing(s)
      <4>1. s \in DOMAIN received
        BY <2>2 DEF NarrowingSources
      <4>2. received[s] \subseteq Passing(s)
        BY <4>1 DEF PushdownInv, ReadsFollowThePlan
      <4> QED  BY <4>1, <4>2 DEF Keys, WasRead
    <3>2. Keys \subseteq Ids
      BY DEF Keys
    <3>3. Keys \subseteq Joined
      BY <3>1, <3>2 DEF Joined
    <3> QED  BY <2>1, <2>2, <3>3
  <2>3. CASE OutOfKeys
    <3>1. Keys = {}
      BY <2>3 DEF OutOfKeys
    <3> QED  BY <2>1, <3>1
  <2> QED  BY <1>1, <2>2, <2>3
<1>7. RowsFollowTheReads'
  BY <1>1, <1>3, <1>5, <1>6 DEF RowsFollowTheReads
<1> QED  BY <1>1, <1>3, <1>4, <1>7 DEF PushdownInv, AnswerIsReference

\* What the coordinator makes of a record it joined.
LEMMA FilteredRightly ==
    ASSUME PushdownInv, stage # "planning", ~plan.page_pushed,
           DOMAIN received = Participants \/ Joined = {}, ~plan.fully_pushed, ~Misread
    PROVE  Matching = {i \in Joined : Truth(query.where, Cells(Known, i)) = "true"}
<1>1. PushdownType /\ PlanIsMade
  BY DEF PushdownInv
<1>2. Matching = {i \in Joined : Sql(query.where, Cells(Held, i)) = 2}
  BY <1>1, JoinedMatches
<1>3. ASSUME NEW i \in Joined
      PROVE  Truth(query.where, Cells(Known, i)) = "true" <=> Sql(query.where, Cells(Held, i)) = 2
  <2>1. query.where \in Filters /\ FilterFields(query.where) \subseteq FieldsUsed
    BY <1>1, SourcesUsed
  <2>2. \A f \in FilterFields(query.where) : Cells(Known, i)[f] = Cells(Held, i)[f]
    BY <1>3, <2>1, KnownRows
  <2>3. Truth(query.where, Cells(Known, i)) = Truth(query.where, Cells(Held, i))
    BY <2>1, <2>2, SameFieldsSameTruth
  <2>4. i \in Held[Identity]
    BY <1>1, <1>3, JoinedMatches
  <2>5. AllReadAlike(query.where, Cells(Held, i))
    BY <2>4 DEF Misread, AllReadAlike, ReadAlike
  <2>6. Agree(query.where, Cells(Held, i))
    BY <2>1, <2>5, SqlIsTruth
  <2> QED  BY <2>3, <2>6 DEF Agree
<1>4. {i \in Joined : Sql(query.where, Cells(Held, i)) = 2}
          = {i \in Joined : Truth(query.where, Cells(Known, i)) = "true"}
  BY <1>3
<1> QED  BY <1>2, <1>4

\* What the operators leave is what the query is about.
LEMMA FilterStep ==
    ASSUME PushdownInv, Filter
    PROVE  PushdownInv'
<1>1. /\ stage = "combined" /\ stage' = "filtered"
      /\ rows' = IF plan.fully_pushed THEN rows
                 ELSE {i \in rows : Truth(query.where, Cells(Known, i)) = "true"}
      /\ UNCHANGED given /\ plan' = plan /\ received' = received
  BY DEF Filter
<1>2. PushdownType /\ PlanIsMade /\ stage # "planning"
  BY <1>1 DEF PushdownInv
<1>3. /\ Participants' = Participants /\ Joined' = Joined /\ Top' = Top /\ Matching' = Matching
      /\ Misread' = Misread
      /\ \A x : Passing(x)' = Passing(x)
      /\ PlanIsMade' /\ PushdownType'
  BY <1>1, <1>2, GivenStays
<1>4. ReadsFollowThePlan'
  BY <1>1, <1>3 DEF PushdownInv, ReadsFollowThePlan
<1>5. /\ plan.page_pushed => rows = Top
      /\ DOMAIN received = Participants \/ rows = {}
      /\ ~plan.page_pushed => rows = Joined
  BY <1>1 DEF PushdownInv, RowsFollowTheReads
<1>6. plan.page_pushed => rows' = Top
  <2>1. plan.page_pushed => plan.fully_pushed
    BY <1>2, PagePushed
  <2> QED  BY <1>1, <1>5, <2>1
<1>7. ASSUME ~plan.page_pushed, ~Misread  PROVE rows' = Matching
  <2>1. CASE plan.fully_pushed
    <3>1. Joined = Matching
      BY <1>2, <2>1, JoinedMatches
    <3> QED  BY <1>1, <1>5, <1>7, <2>1, <3>1
  <2>2. CASE ~plan.fully_pushed
    <3>1. Matching = {i \in Joined : Truth(query.where, Cells(Known, i)) = "true"}
      BY <1>2, <1>5, <1>7, <2>2, FilteredRightly
    <3> QED  BY <1>1, <1>5, <1>7, <2>2, <3>1
  <2> QED  BY <2>1, <2>2
<1>8. rows = {} => rows' = {}
  BY <1>1
<1>9. RowsFollowTheReads'
  BY <1>1, <1>3, <1>5, <1>6, <1>7, <1>8 DEF RowsFollowTheReads
<1> QED  BY <1>1, <1>3, <1>4, <1>9 DEF PushdownInv, AnswerIsReference

\* YoDb's order of what it knows is SQL's order of what there is.
LEMMA SortedRightly ==
    ASSUME PushdownInv, stage = "filtered", ~plan.page_pushed, ~Misread
    PROVE  SortedPage = Reference
<1> DEFINE o == query.order_by
           S == Matching
<1>1. /\ PushdownType /\ PlanIsMade /\ rows = S /\ stage # "planning"
      /\ DOMAIN received = Participants \/ S = {}
  BY DEF PushdownInv, RowsFollowTheReads
<1>2. S \in SUBSET Ids /\ S \subseteq Joined
  BY <1>1, TopIsFirst, JoinedMatches
<1>3. IsFiniteSet(S) /\ IsStrict(Before, S) /\ First \in Nat
  BY <1>1, <1>2, BeforeIsStrict, PushdownAssumption
<1>4. \A i, j \in S : Precedes("sql", o, Cells(Held, j), Cells(Held, i)) <=> <<j, i>> \in Before
  BY <1>2 DEF Before
<1>5. \A i, j \in S : Precedes("yodb", o, Cells(Known, j), Cells(Known, i)) <=> <<j, i>> \in Before
  <2> TAKE i, j \in S
  <2>1. DOMAIN received = Participants
    BY <1>1
  <2>2. o \in Orders /\ \A n \in DOMAIN o : o[n].field \in FieldsUsed
    BY <1>1, SourcesUsed
  <2>3. \A n \in DOMAIN o : /\ Cells(Held, j)[o[n].field] = Cells(Known, j)[o[n].field]
                            /\ Cells(Held, i)[o[n].field] = Cells(Known, i)[o[n].field]
    BY <1>1, <1>2, <2>1, <2>2, KnownRows
  <2>4. IsRow(Cells(Held, j)) /\ IsRow(Cells(Held, i))
    BY <1>1, <1>2, HeldRows
  <2> HIDE DEF o
  <2>5. Precedes("sql", o, Cells(Held, j), Cells(Held, i)) <=> Precedes("yodb", o, Cells(Known, j), Cells(Known, i))
    BY <2>2, <2>3, <2>4, SamePrecedence
  <2> QED  BY <1>4, <2>5
<1> HIDE DEF o, S
<1>6. Sorted("sql", S, Held, o, First) = ByPlace(Before, S, Least({First, Cardinality(S)}))
  BY <1>3, <1>4, SortedByPlace
<1>7. Sorted("yodb", S, Known, o, First) = ByPlace(Before, S, Least({First, Cardinality(S)}))
  BY <1>3, <1>5, SortedByPlace
<1>8. Reference = Sorted("sql", S, Held, o, First)
  BY DEF Reference, Matching, S, o
<1> QED  BY <1>1, <1>6, <1>7, <1>8 DEF SortedPage, o

\* The page is that of SQL.
LEMMA OrderPageStep ==
    ASSUME PushdownInv, OrderPage
    PROVE  PushdownInv'
<1>1. /\ stage = "filtered" /\ UNCHANGED given /\ plan' = plan /\ received' = received /\ rows' = rows
      /\ \/ /\ plan.page_pushed /\ stage' = "answered"
            /\ page' = Sorted("sql", rows, Held, plan.scans[Identity].order_by, Cardinality(rows))
         \/ ~plan.page_pushed /\ stage' = "refused"
         \/ ~plan.page_pushed /\ stage' = "answered" /\ page' = SortedPage
  BY DEF OrderPage
<1>2. PushdownType /\ PlanIsMade /\ stage # "planning"
  BY <1>1 DEF PushdownInv
<1>3. /\ Participants' = Participants /\ Joined' = Joined /\ Top' = Top
      /\ Reference' = Reference /\ Misread' = Misread
      /\ \A x : Passing(x)' = Passing(x)
      /\ PlanIsMade' /\ PushdownType'
  BY <1>1, <1>2, GivenStays
<1>4. ReadsFollowThePlan'
  BY <1>1, <1>3 DEF PushdownInv, ReadsFollowThePlan
<1>5. stage' = "answered" => page' = Reference \/ Misread
  <2>1. CASE plan.page_pushed
    <3>1. rows = Top
      BY <1>1, <2>1 DEF PushdownInv, RowsFollowTheReads
    <3>2. plan.scans[Identity].order_by = query.order_by
      BY <1>2, <2>1, PagePushed
    <3>3. Sorted("sql", Top, Held, query.order_by, Cardinality(Top)) = Reference
      BY <1>2, TopIsFirst
    <3> QED  BY <1>1, <2>1, <3>1, <3>2, <3>3
  <2>2. CASE ~plan.page_pushed
    BY <1>1, <2>2, SortedRightly
  <2> QED  BY <2>1, <2>2
<1>6. stage' \in {"answered", "refused"} /\ (stage' = "refused" => ~plan'.page_pushed)
  BY <1>1
<1> QED  BY <1>3, <1>4, <1>5, <1>6 DEF PushdownInv, RowsFollowTheReads, AnswerIsReference

\* The invariant holds throughout.
LEMMA PushdownInvariant == PushdownSpec => []PushdownInv
<1>1. PushdownInv /\ [PushdownNext]_pushdown_vars => PushdownInv'
  <2> SUFFICES ASSUME PushdownInv, [PushdownNext]_pushdown_vars  PROVE PushdownInv'
    OBVIOUS
  <2>1. CASE PlanQuery
    BY <2>1, PlanQueryStep
  <2>2. ASSUME NEW s \in Sources, NEW restrict \in BOOLEAN, ReadSource(s, restrict)  PROVE PushdownInv'
    BY <2>2, ReadSourceStep
  <2>3. CASE Combine
    BY <2>3, CombineStep
  <2>4. CASE Filter
    BY <2>4, FilterStep
  <2>5. CASE OrderPage
    BY <2>5, OrderPageStep
  <2>6. CASE UNCHANGED pushdown_vars
    <3>1. UNCHANGED given /\ plan' = plan /\ stage' = stage /\ received' = received /\ rows' = rows /\ page' = page
      BY <2>6 DEF pushdown_vars, given
    <3>2. CASE stage = "planning"
      <4>1. PushdownType' /\ PlanIsMade' /\ ReadsFollowThePlan'
        BY <3>1, <3>2 DEF given, PushdownInv, PushdownType, PlanIsMade, ReadsFollowThePlan
      <4> QED  BY <3>1, <3>2, <4>1 DEF PushdownInv, RowsFollowTheReads, AnswerIsReference
    <3>3. CASE stage # "planning"
      <4>1. PushdownType /\ PlanIsMade /\ stage' \in {"reading", "combined", "filtered", "answered", "refused"}
        BY <3>1, <3>3 DEF PushdownInv, PushdownType
      <4>2. /\ Participants' = Participants /\ Joined' = Joined /\ Matching' = Matching /\ Top' = Top
            /\ Reference' = Reference /\ Misread' = Misread
            /\ \A x : Passing(x)' = Passing(x)
            /\ PlanIsMade' /\ PushdownType'
        BY <3>1, <3>3, <4>1, GivenStays
      <4>3. ReadsFollowThePlan' /\ RowsFollowTheReads' /\ AnswerIsReference'
        BY <3>1, <4>2 DEF PushdownInv, ReadsFollowThePlan, RowsFollowTheReads, AnswerIsReference
      <4> QED  BY <3>1, <4>2, <4>3 DEF PushdownInv
    <3> QED  BY <3>2, <3>3
  <2> QED  BY <2>1, <2>2, <2>3, <2>4, <2>5, <2>6 DEF PushdownNext
<1> QED  BY <1>1, PushdownInitially, PTL DEF PushdownSpec

\* Whoever filters, orders and pages what, for every filter, order, page and
\* capability, every content of the sources and however Python compares: the
\* answer is SQL's, unless YoDb filters and Python disagrees with SQL about a
\* comparison of a record.
THEOREM SameAnswer == PushdownSpec => []AnswerIsReference
<1>1. PushdownInv => AnswerIsReference
  BY DEF PushdownInv
<1> QED  BY <1>1, PushdownInvariant, PTL

\* A query that its one source can answer is never refused.
THEOREM WholeQueriesAreAnswered == PushdownSpec => []WholeQueriesAreNeverRefused
<1>1. PushdownInv => WholeQueriesAreNeverRefused
  <2> SUFFICES ASSUME PushdownInv, stage = "refused",
                      \A f \in FieldsUsed : OwnerOf(f) = Identity,
                      caps.supports_order, caps.supports_limit, Orderable,
                      \A l \in Leaves[query.where] : l.op \in caps.operators /\ l.field \in caps.filterable,
                      Connectives[query.where] \subseteq caps.operators
               PROVE  FALSE
    BY DEF WholeQueriesAreNeverRefused
  <2>1. PushdownType /\ PlanIsMade /\ stage # "planning" /\ ~plan.page_pushed
    BY DEF PushdownInv
  <2>2. Complete
    BY <2>1, SourcesUsed DEF Complete, Participants
  <2>3. Accepts(query.where)
    BY DEF Accepts, FilterFields
  <2>4. AcceptsLimit(Identity)
    BY <2>2, <2>3 DEF AcceptsLimit, AcceptsOrder, AcceptsRequest
  <2> QED  BY <2>1, <2>2, <2>4, PlannedScans
<1> QED  BY <1>1, PushdownInvariant, PTL
=============================================================================
