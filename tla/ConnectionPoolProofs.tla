------------------------ MODULE ConnectionPoolProofs ------------------------
(***************************************************************************)
(* What the connection adapter guarantees for any number of threads,       *)
(* closers, references and pool objects.                                   *)
(***************************************************************************)
EXTENDS ConnectionPool, FiniteSetTheorems, TLAPS

-----------------------------------------------------------------------------
(* The inductive invariant.                                                *)

\* A pool object, once created, serves the reference it was created for until
\* the adapter is closed: so no reference ever has a second one.
PoolsAreRegistered ==
    \A p \in Pools : owner[p] # None => pool_of[owner[p]] = p \/ closed
OneOwnerEach ==
    \A p, q \in Pools : owner[p] = owner[q] /\ owner[p] # None => p = q
RegisteredPools ==
    \A r \in Refs : pool_of[r] # None => owner[pool_of[r]] = r /\ ~closed

\* Only created pools are open, and an open pool of a closed adapter waits to be closed.
OpenPools ==
    \A p \in Pools : open[p] => owner[p] # None /\ (closed => p \in to_close)

\* A thread that waits for a connection, or has one, was given a created pool.
PoolsInUse ==
    \A t \in Threads : pc[t] \in {"waiting", "leased"} => owner[mine[t]] # None

\* One pool never leases more than its size.
LeasesOfOnePool == \A p \in Pools : Cardinality(Leased(p)) <= MaxSize

\* The closer owns the pools still to be closed; it returns when there are none.
ClosingIsOwned ==
    /\ closed <=> closer # None
    /\ ~closed => to_close = {}
    /\ closer # None => closing[closer] \in {"closing", "returned"}
    /\ closer # None /\ closing[closer] = "returned" => to_close = {}
    /\ \A c \in Closers : closing[c] = "closing" => c = closer

IInv == /\ PoolsAreRegistered
        /\ OneOwnerEach
        /\ RegisteredPools
        /\ OpenPools
        /\ PoolsInUse
        /\ LeasesOfOnePool
        /\ ClosingIsOwned

-----------------------------------------------------------------------------
(* Type correctness.                                                       *)

LEMMA TypeInit == Init => TypeOK
<1> SUFFICES ASSUME Init PROVE TypeOK
  OBVIOUS
<1>1. /\ now \in Nat /\ closed \in BOOLEAN /\ to_close \in SUBSET Pools
      /\ pool_of \in [Refs -> Pools \cup {None}] /\ until \in [Refs -> Nat]
      /\ owner \in [Pools -> Refs \cup {None}] /\ open \in [Pools -> BOOLEAN]
  BY DEF Init
<1>2. /\ pc \in [Threads -> {"idle", "probing", "probed", "refused", "waiting", "leased"}]
      /\ ref \in [Threads -> Refs \cup {None}] /\ mine \in [Threads -> Pools \cup {None}]
      /\ began \in [Threads -> Nat]
  BY DEF Init
<1>3. closing \in [Closers -> {"no", "closing", "returned"}] /\ closer \in Closers \cup {None}
  BY DEF Init
<1>4. \A t \in Threads : pc[t] = "idle"
  BY DEF Init
<1> QED
  BY <1>1, <1>2, <1>3, <1>4 DEF TypeOK

LEMMA TypeStep == TypeOK /\ [Next]_vars => TypeOK'
<1> SUFFICES ASSUME TypeOK, [Next]_vars PROVE TypeOK'
  OBVIOUS
<1> USE PoolAssumption
<1>1. ASSUME NEW t \in Threads, NEW r \in Refs, LookUp(t, r) PROVE TypeOK'
  BY <1>1 DEF LookUp, TypeOK, thread_vars, close_vars
<1>2. ASSUME NEW t \in Threads, Probe(t) PROVE TypeOK'
  BY <1>2 DEF Probe, TypeOK, close_vars
<1>3. ASSUME NEW t \in Threads, ProbeBreaks(t) PROVE TypeOK'
  BY <1>3 DEF ProbeBreaks, Leave, TypeOK, close_vars
<1>4. ASSUME NEW t \in Threads, RecordFailure(t) PROVE TypeOK'
  BY <1>4 DEF RecordFailure, ForgottenAt, Leave, TypeOK, close_vars
<1>5. ASSUME NEW t \in Threads, Obtain(t) PROVE TypeOK'
  <2>1. CASE ClosedMeanwhile
    BY <1>5, <2>1 DEF Obtain, Leave, TypeOK, close_vars
  <2>2. CASE ~ClosedMeanwhile
    <3>1. /\ ref[t] \in Refs /\ UNCHANGED <<now, closed, close_vars>>
          /\ until' = [until EXCEPT ![ref[t]] = 0]
      BY <1>5, <2>2 DEF Obtain, TypeOK
    <3>2. ASSUME PoolNeeded(ref[t]), NEW p \in Pools, GoesOn(t, p),
                 owner' = [owner EXCEPT ![p] = ref[t]], open' = [open EXCEPT ![p] = TRUE],
                 pool_of' = [pool_of EXCEPT ![ref[t]] = p]
          PROVE  TypeOK'
      BY <3>1, <3>2 DEF GoesOn, TypeOK, close_vars
    <3>3. CASE Leave(t) /\ UNCHANGED <<owner, open, pool_of>>
      BY <3>1, <3>3 DEF Leave, TypeOK, close_vars
    <3>4. CASE /\ ~PoolNeeded(ref[t])
               /\ GoesOn(t, pool_of[ref[t]]) /\ UNCHANGED <<owner, open, pool_of>>
      BY <3>1, <3>4 DEF PoolNeeded, GoesOn, TypeOK, close_vars
    <3> QED
      BY <1>5, <2>2, <3>2, <3>3, <3>4 DEF Obtain
  <2> QED
    BY <2>1, <2>2
<1>6. ASSUME NEW t \in Threads, Lease(t) PROVE TypeOK'
  BY <1>6 DEF Lease, TypeOK, close_vars
<1>7. ASSUME NEW t \in Threads, GiveUp(t) PROVE TypeOK'
  BY <1>7 DEF GiveUp, Leave, TypeOK, close_vars
<1>8. ASSUME NEW t \in Threads, Return(t) PROVE TypeOK'
  BY <1>8 DEF Return, Leave, TypeOK, close_vars
<1>9. ASSUME NEW c \in Closers, Close(c) PROVE TypeOK'
  <2>1. {pool_of[r] : r \in Refs} \ {None} \in SUBSET Pools
    BY DEF TypeOK
  <2>2. /\ closed' \in BOOLEAN /\ closer' \in Closers \cup {None} /\ to_close' \in SUBSET Pools
        /\ pool_of' \in [Refs -> Pools \cup {None}]
        /\ closing' \in [Closers -> {"no", "closing", "returned"}]
    <3>1. CASE closed
      <4>1. /\ closing' = [closing EXCEPT ![c] = "returned"]
            /\ UNCHANGED <<closed, pool_of, to_close, closer>>
        BY <1>9, <3>1 DEF Close
      <4> QED
        BY <4>1 DEF TypeOK
    <3>2. CASE ~closed
      <4>1. /\ closed' = TRUE /\ closer' = c /\ to_close' = {pool_of[r] : r \in Refs} \ {None}
            /\ pool_of' = [r \in Refs |-> None] /\ closing' = [closing EXCEPT ![c] = "closing"]
        BY <1>9, <3>2 DEF Close
      <4>2. closing' \in [Closers -> {"no", "closing", "returned"}]
        BY <4>1 DEF TypeOK
      <4>3. to_close' \in SUBSET Pools
        BY <2>1, <4>1
      <4> QED
        BY <4>1, <4>2, <4>3
    <3> QED
      BY <3>1, <3>2
  <2> QED
    BY <1>9, <2>2 DEF Close, TypeOK, thread_vars
<1>10. ASSUME NEW c \in Closers, NEW p \in Pools, ClosePool(c, p) PROVE TypeOK'
  BY <1>10 DEF ClosePool, TypeOK, thread_vars
<1>11. ASSUME NEW c \in Closers, CloseReturns(c) PROVE TypeOK'
  BY <1>11 DEF CloseReturns, TypeOK, thread_vars
<1>12. CASE Tick
  BY <1>12 DEF Tick, TypeOK, thread_vars, close_vars
<1>13. CASE UNCHANGED vars
  BY <1>13 DEF vars, TypeOK
<1> QED
  BY <1>1, <1>2, <1>3, <1>4, <1>5, <1>6, <1>7, <1>8, <1>9, <1>10, <1>11, <1>12, <1>13
  DEF Next, Inside, CloseStep

-----------------------------------------------------------------------------
(* The invariant.                                                          *)

\* The threads that lease a connection of p are some of the threads.
LEMMA LeasedIsFinite ==
    ASSUME NEW p \in Pools
    PROVE  IsFiniteSet(Leased(p)) /\ Cardinality(Leased(p)) \in Nat
BY PoolAssumption, FS_Subset, FS_CardinalityType DEF Leased

LEMMA InvInit == Init => IInv
<1> SUFFICES ASSUME Init PROVE IInv
  OBVIOUS
<1>1. LeasesOfOnePool
  <2> SUFFICES ASSUME NEW p \in Pools PROVE Cardinality(Leased(p)) <= MaxSize
    BY DEF LeasesOfOnePool
  <2>1. Leased(p) = {}
    BY DEF Init, Leased
  <2> QED
    BY <2>1, FS_EmptySet, PoolAssumption
<1> QED
  BY <1>1, PoolAssumption DEF Init, IInv, PoolsAreRegistered, OneOwnerEach, RegisteredPools, OpenPools,
     PoolsInUse, ClosingIsOwned

\* A step in which nobody newly leases a connection leases no more than before.
LEMMA NoNewLease ==
    ASSUME LeasesOfOnePool,
           \A t \in Threads : pc'[t] = "leased" => pc[t] = "leased" /\ mine'[t] = mine[t]
    PROVE  LeasesOfOnePool'
<1> SUFFICES ASSUME NEW p \in Pools PROVE Cardinality(Leased(p)') <= MaxSize
  BY DEF LeasesOfOnePool
<1>1. Leased(p)' \subseteq Leased(p)
  BY DEF Leased
<1>2. Cardinality(Leased(p)') <= Cardinality(Leased(p)) /\ Cardinality(Leased(p)') \in Nat
  BY <1>1, LeasedIsFinite, FS_Subset, FS_CardinalityType
<1> QED
  BY <1>2, LeasedIsFinite, PoolAssumption DEF LeasesOfOnePool

LEMMA InvStep == TypeOK /\ IInv /\ [Next]_vars => IInv'
<1> SUFFICES ASSUME TypeOK, IInv, [Next]_vars PROVE IInv'
  OBVIOUS
<1> USE PoolAssumption DEF thread_vars, close_vars
\* The steps that leave the pools and the closing alone.
<1>1. ASSUME UNCHANGED <<closed, pool_of, owner, open, close_vars>>,
             \A t \in Threads : pc'[t] \in {"waiting", "leased"} => owner[mine'[t]] # None,
             LeasesOfOnePool'
      PROVE  IInv'
  BY <1>1 DEF IInv, PoolsAreRegistered, OneOwnerEach, RegisteredPools, OpenPools, PoolsInUse, ClosingIsOwned
<1>2. ASSUME NEW t \in Threads, NEW r \in Refs, LookUp(t, r) PROVE IInv'
  <2>1. \A u \in Threads : pc'[u] = "leased" => pc[u] = "leased" /\ mine'[u] = mine[u]
    BY <1>2 DEF LookUp, TypeOK
  <2>2. \A u \in Threads : pc'[u] \in {"waiting", "leased"} => owner[mine'[u]] # None
    BY <1>2 DEF LookUp, TypeOK, IInv, PoolsInUse, RegisteredPools
  <2> QED
    BY <2>1, <2>2, <1>1, <1>2, NoNewLease DEF LookUp, IInv
<1>3. ASSUME NEW t \in Threads, Probe(t) \/ ProbeBreaks(t) \/ RecordFailure(t) \/ GiveUp(t) \/ Return(t)
      PROVE  IInv'
  <2>1. /\ UNCHANGED <<closed, pool_of, owner, open, close_vars>>
        /\ \A u \in Threads : pc'[u] \in {"waiting", "leased"} => pc'[u] = pc[u] /\ mine'[u] = mine[u]
    BY <1>3 DEF Probe, ProbeBreaks, RecordFailure, GiveUp, Return, Leave, TypeOK
  <2> QED
    BY <2>1, <1>1, NoNewLease DEF IInv, PoolsInUse
<1>4. ASSUME NEW t \in Threads, Lease(t) PROVE IInv'
  <2>1. UNCHANGED <<closed, pool_of, owner, open, close_vars, mine>> /\ pc[t] = "waiting"
        /\ pc' = [pc EXCEPT ![t] = "leased"] /\ Cardinality(Leased(mine[t])) < MaxSize
        /\ mine[t] \in Pools
    BY <1>4 DEF Lease, TypeOK
  <2>2. LeasesOfOnePool'
    <3> SUFFICES ASSUME NEW p \in Pools PROVE Cardinality(Leased(p)') <= MaxSize
      BY DEF LeasesOfOnePool
    <3>1. CASE p = mine[t]
      <4>1. Leased(p)' = Leased(p) \cup {t} /\ t \notin Leased(p)
        BY <2>1, <3>1 DEF Leased, TypeOK
      <4>2. Cardinality(Leased(p)') = Cardinality(Leased(p)) + 1
        BY <4>1, LeasedIsFinite, FS_AddElement
      <4> QED
        BY <2>1, <3>1, <4>2, LeasedIsFinite
    <3>2. CASE p # mine[t]
      <4>1. Leased(p)' = Leased(p)
        BY <2>1, <3>2 DEF Leased, TypeOK
      <4> QED
        BY <4>1 DEF IInv, LeasesOfOnePool
    <3> QED
      BY <3>1, <3>2
  <2>3. \A u \in Threads : pc'[u] \in {"waiting", "leased"} => owner[mine'[u]] # None
    BY <2>1 DEF TypeOK, IInv, PoolsInUse
  <2> QED
    BY <2>1, <2>2, <2>3, <1>1
<1>5. ASSUME NEW t \in Threads, Obtain(t) PROVE IInv'
  <2>1. pc[t] = "probed" /\ ref[t] \in Refs /\ UNCHANGED <<closed, close_vars>>
    BY <1>5 DEF Obtain, TypeOK
  <2>2. CASE Leave(t) /\ UNCHANGED <<pool_of, owner, open>>
    <3>1. /\ UNCHANGED <<closed, pool_of, owner, open, close_vars>>
          /\ \A u \in Threads : pc'[u] \in {"waiting", "leased"} => pc'[u] = pc[u] /\ mine'[u] = mine[u]
      BY <2>1, <2>2 DEF Leave, TypeOK
    <3> QED
      BY <3>1, <1>1, NoNewLease DEF IInv, PoolsInUse
  <2>3. CASE /\ ~PoolNeeded(ref[t])
             /\ GoesOn(t, pool_of[ref[t]]) /\ UNCHANGED <<owner, open, pool_of>>
    <3>1. /\ UNCHANGED <<closed, pool_of, owner, open, close_vars>>
          /\ pc' = [pc EXCEPT ![t] = "waiting"] /\ mine' = [mine EXCEPT ![t] = pool_of[ref[t]]]
          /\ pool_of[ref[t]] # None
      BY <2>1, <2>3 DEF GoesOn, PoolNeeded
    <3>2. \A u \in Threads : pc'[u] \in {"waiting", "leased"} => owner[mine'[u]] # None
      BY <2>1, <3>1 DEF TypeOK, IInv, PoolsInUse, RegisteredPools
    <3>3. \A u \in Threads : pc'[u] = "leased" => pc[u] = "leased" /\ mine'[u] = mine[u]
      BY <3>1 DEF TypeOK
    <3> QED
      BY <3>1, <3>2, <3>3, <1>1, NoNewLease DEF IInv
  <2>4. ASSUME ~ClosedMeanwhile, PoolNeeded(ref[t]), NEW p \in Pools, owner[p] = None,
               owner' = [owner EXCEPT ![p] = ref[t]], open' = [open EXCEPT ![p] = TRUE],
               pool_of' = [pool_of EXCEPT ![ref[t]] = p], GoesOn(t, p)
        PROVE  IInv'
    <3>1. /\ owner[p] = None
          /\ owner' = [owner EXCEPT ![p] = ref[t]]
          /\ open' = [open EXCEPT ![p] = TRUE]
          /\ pool_of' = [pool_of EXCEPT ![ref[t]] = p]
          /\ mine' = [mine EXCEPT ![t] = p]
          /\ pc' = [pc EXCEPT ![t] = "waiting"]
      BY <2>4 DEF GoesOn
    <3>2. ~closed /\ pool_of[ref[t]] = None
      BY <2>4 DEF ClosedMeanwhile, PoolNeeded
    <3>3. /\ owner'[p] = ref[t] /\ pool_of'[ref[t]] = p
          /\ \A q \in Pools : q # p => owner'[q] = owner[q] /\ open'[q] = open[q]
          /\ \A r \in Refs : r # ref[t] => pool_of'[r] = pool_of[r]
      BY <2>1, <3>1 DEF TypeOK
    <3>4. \A q \in Pools : owner[q] # ref[t]
      BY <2>1, <3>2 DEF IInv, PoolsAreRegistered
    <3>5. PoolsAreRegistered' /\ OneOwnerEach' /\ RegisteredPools'
      BY <2>1, <3>1, <3>2, <3>3, <3>4 DEF TypeOK, IInv, PoolsAreRegistered, OneOwnerEach, RegisteredPools
    <3>6. OpenPools'
      BY <2>1, <3>2, <3>3 DEF IInv, OpenPools
    <3>7. PoolsInUse'
      BY <2>1, <3>1, <3>3 DEF TypeOK, IInv, PoolsInUse
    <3>8. LeasesOfOnePool'
      BY <3>1, NoNewLease DEF TypeOK, IInv
    <3>9. ClosingIsOwned'
      BY <2>1 DEF IInv, ClosingIsOwned
    <3> QED
      BY <3>5, <3>6, <3>7, <3>8, <3>9 DEF IInv
  <2> QED
    BY <1>5, <2>2, <2>3, <2>4 DEF Obtain
<1>6. ASSUME NEW c \in Closers, Close(c) PROVE IInv'
  <2>1. UNCHANGED <<owner, open, thread_vars>> /\ closing[c] = "no"
    BY <1>6 DEF Close
  <2>2. CASE closed
    <3>1. UNCHANGED <<closed, pool_of, to_close, closer>>
          /\ closing' = [closing EXCEPT ![c] = "returned"]
      BY <1>6, <2>2 DEF Close
    <3>2. ClosingIsOwned'
      BY <2>1, <2>2, <3>1 DEF TypeOK, IInv, ClosingIsOwned
    <3> QED
      BY <2>1, <3>1, <3>2, NoNewLease DEF IInv, PoolsAreRegistered, OneOwnerEach, RegisteredPools, OpenPools,
         PoolsInUse
  <2>3. CASE ~closed
    <3>1. /\ closed' = TRUE /\ closer' = c
          /\ to_close' = {pool_of[r] : r \in Refs} \ {None}
          /\ pool_of' = [r \in Refs |-> None]
          /\ closing' = [closing EXCEPT ![c] = "closing"]
      BY <1>6, <2>3 DEF Close
    <3>2. OpenPools'
      BY <2>1, <2>3, <3>1 DEF TypeOK, IInv, OpenPools, PoolsAreRegistered
    <3>3. ClosingIsOwned'
      BY <2>3, <3>1 DEF TypeOK, IInv, ClosingIsOwned
    <3> QED
      BY <2>1, <3>1, <3>2, <3>3, NoNewLease DEF IInv, PoolsAreRegistered, OneOwnerEach, RegisteredPools,
         PoolsInUse
  <2> QED
    BY <2>2, <2>3
<1>7. ASSUME NEW c \in Closers, NEW p \in Pools, ClosePool(c, p) PROVE IInv'
  BY <1>7, NoNewLease DEF ClosePool, TypeOK, IInv, PoolsAreRegistered, OneOwnerEach, RegisteredPools,
     OpenPools, PoolsInUse, ClosingIsOwned
<1>8. ASSUME NEW c \in Closers, CloseReturns(c) PROVE IInv'
  BY <1>8, NoNewLease DEF CloseReturns, TypeOK, IInv, PoolsAreRegistered, OneOwnerEach, RegisteredPools,
     OpenPools, PoolsInUse, ClosingIsOwned
<1>9. CASE Tick \/ UNCHANGED vars
  <2>1. UNCHANGED <<closed, pool_of, owner, open, close_vars, thread_vars>>
    BY <1>9 DEF Tick, vars
  <2> QED
    BY <2>1, <1>1, NoNewLease DEF IInv, PoolsInUse
<1> QED
  BY <1>2, <1>3, <1>4, <1>5, <1>6, <1>7, <1>8, <1>9 DEF Next, Inside, CloseStep

LEMMA Invariance == Spec => [](TypeOK /\ IInv)
<1>1. Init => TypeOK /\ IInv
  BY TypeInit, InvInit
<1>2. TypeOK /\ IInv /\ [Next]_vars => (TypeOK /\ IInv)'
  BY TypeStep, InvStep
<1> QED
  BY <1>1, <1>2, PTL DEF Spec

-----------------------------------------------------------------------------
(* The guarantees.                                                         *)

\* However many threads meet a source for the first time together, its leased
\* connections are those of one pool of at most max_size.
THEOREM BoundedLeases == Spec => []LeasesAreBounded
<1>1. TypeOK /\ IInv => LeasesAreBounded
  <2> SUFFICES ASSUME TypeOK, IInv, NEW r \in Refs
               PROVE  Cardinality({t \in Threads : pc[t] = "leased" /\ owner[mine[t]] = r}) <= MaxSize
    BY DEF LeasesAreBounded
  <2> DEFINE L == {t \in Threads : pc[t] = "leased" /\ owner[mine[t]] = r}
  <2>1. CASE L = {}
    BY <2>1, FS_EmptySet, PoolAssumption
  <2>2. CASE L # {}
    <3>1. PICK u \in L : TRUE
      BY <2>2
    <3>2. mine[u] \in Pools /\ owner[mine[u]] = r /\ r # None
      BY <3>1, PoolAssumption DEF TypeOK
    <3>3. L = Leased(mine[u])
      BY <3>2 DEF TypeOK, IInv, OneOwnerEach, Leased
    <3> QED
      BY <3>2, <3>3 DEF IInv, LeasesOfOnePool
  <2> QED
    BY <2>1, <2>2
<1> QED
  BY <1>1, Invariance, PTL

\* After the effective close() returned, no pool is open, whatever probes and
\* pool creations it raced with.
THEOREM CloseIsFinal == Spec => []NoPoolOutlivesClose
<1>1. TypeOK /\ IInv => NoPoolOutlivesClose
  BY DEF IInv, OpenPools, ClosingIsOwned, NoPoolOutlivesClose
<1> QED
  BY <1>1, Invariance, PTL

\* No open pool is ever out of reach of close().
THEOREM NoLostPool == Spec => []NoPoolIsLost
<1>1. TypeOK /\ IInv => NoPoolIsLost
  BY DEF IInv, OpenPools, PoolsAreRegistered, NoPoolIsLost
<1> QED
  BY <1>1, Invariance, PTL
-----------------------------------------------------------------------------
(* The memory of failures.                                                 *)

\* No memory of a failure reaches further than one span from now, and no probe
\* under way has begun later than now.
MemoryIsShort == \A r \in Refs : until[r] <= now + Memory
ProbesBegan   == \A t \in Threads : began[t] <= now

\* Whoever probes a reference whose failure is remembered began before it was
\* recorded.
NoneBeginsMeanwhile ==
    \A r \in Refs, t \in Threads : until[r] > now /\ Probes(t, r) => began[t] + Memory <= until[r]

FInv == MemoryIsShort /\ ProbesBegan /\ NoneBeginsMeanwhile

\* The memory of a failure only shrinks by a probe that succeeded.
OnlyForgivenEarly ==
    \A r \in Refs : until'[r] < until[r] => \E t \in Threads : pc[t] = "probed" /\ ref[t] = r

\* A step after which the same threads probe, or fewer of them, and nothing is
\* recorded.
LEMMA FewerProbes ==
    ASSUME TypeOK, FInv, until' = until, now' >= now, now' \in Nat,
           \A t \in Threads : began'[t] \in {0, began[t]},
           \A t \in Threads, r \in Refs : Probes(t, r)' => Probes(t, r) /\ began'[t] = began[t]
    PROVE  FInv' /\ OnlyForgivenEarly
<1> USE PoolAssumption
<1>1. /\ \A r \in Refs : until[r] \in Nat
      /\ \A t \in Threads : began[t] \in Nat /\ began'[t] \in Nat
      /\ now \in Nat
  BY DEF TypeOK
<1>2. MemoryIsShort' /\ ProbesBegan'
  BY <1>1 DEF FInv, MemoryIsShort, ProbesBegan
<1>3. NoneBeginsMeanwhile'
  <2> SUFFICES ASSUME NEW r \in Refs, NEW t \in Threads, until[r] > now', Probes(t, r)'
               PROVE  began'[t] + Memory <= until[r]
    BY DEF NoneBeginsMeanwhile
  <2>1. until[r] > now /\ Probes(t, r) /\ began'[t] = began[t]
    BY <1>1
  <2> QED
    BY <2>1 DEF FInv, NoneBeginsMeanwhile
<1>4. OnlyForgivenEarly
  BY <1>1 DEF OnlyForgivenEarly
<1> QED
  BY <1>2, <1>3, <1>4 DEF FInv

LEMMA MemoryStep == TypeOK /\ FInv /\ [Next]_vars => FInv' /\ OnlyForgivenEarly
<1> SUFFICES ASSUME TypeOK, FInv, [Next]_vars PROVE FInv' /\ OnlyForgivenEarly
  OBVIOUS
<1> USE PoolAssumption
<1>1. /\ now \in Nat /\ \A r \in Refs : until[r] \in Nat
      /\ \A t \in Threads : began[t] \in Nat
  BY DEF TypeOK
<1>2. ASSUME UNCHANGED <<now, until>>,
             \A t \in Threads : UNCHANGED <<pc[t], ref[t], began[t]>>
                \/ (began'[t] \in {0, began[t]} /\ pc'[t] \in {"idle", "waiting", "leased"})
                \/ (pc[t] = "probing" /\ UNCHANGED <<ref[t], began[t]>>)
      PROVE  FInv' /\ OnlyForgivenEarly
  BY <1>1, <1>2, FewerProbes DEF Probes
<1>3. ASSUME NEW t \in Threads, NEW r \in Refs, LookUp(t, r) PROVE FInv' /\ OnlyForgivenEarly
  <2>1. CASE UNCHANGED <<pc, ref, began>> \/ pool_of[r] # None
    BY <1>2, <1>3, <2>1 DEF LookUp, thread_vars, TypeOK
  <2>2. CASE /\ ~Remembered(r)
             /\ pc' = [pc EXCEPT ![t] = "probing"]
             /\ ref' = [ref EXCEPT ![t] = r]
             /\ began' = [began EXCEPT ![t] = now]
    <3>1. UNCHANGED <<now, until>>
      BY <1>3 DEF LookUp
    <3>2. MemoryIsShort' /\ ProbesBegan' /\ OnlyForgivenEarly
      BY <1>1, <2>2, <3>1 DEF FInv, MemoryIsShort, ProbesBegan, OnlyForgivenEarly, TypeOK
    <3>3. NoneBeginsMeanwhile'
      <4> SUFFICES ASSUME NEW q \in Refs, NEW u \in Threads, until[q] > now, Probes(u, q)'
                   PROVE  began'[u] + Memory <= until[q]
        BY <3>1 DEF NoneBeginsMeanwhile
      <4>1. CASE u = t
        <5>1. q = r
          BY <2>2, <4>1 DEF Probes, TypeOK
        <5> QED
          BY <1>1, <2>2, <5>1 DEF Remembered
      <4>2. CASE u # t
        BY <2>2, <4>2 DEF Probes, TypeOK, FInv, NoneBeginsMeanwhile
      <4> QED
        BY <4>1, <4>2
    <3> QED
      BY <3>2, <3>3 DEF FInv
  <2> QED
    BY <1>3, <2>1, <2>2 DEF LookUp, thread_vars
<1>4. ASSUME NEW t \in Threads, RecordFailure(t) PROVE FInv' /\ OnlyForgivenEarly
  <2>1. /\ ref[t] \in Refs /\ now' = now
        /\ until' = [until EXCEPT ![ref[t]] = now + Memory]
        /\ pc' = [pc EXCEPT ![t] = "idle"] /\ ref' = [ref EXCEPT ![t] = None]
        /\ began' = [began EXCEPT ![t] = 0]
    BY <1>4 DEF RecordFailure, ForgottenAt, Leave, TypeOK
  <2>2. \A q \in Refs : until'[q] >= until[q] /\ until'[q] <= now + Memory
    BY <1>1, <2>1 DEF FInv, MemoryIsShort, TypeOK
  <2>3. MemoryIsShort' /\ ProbesBegan'
    BY <1>1, <2>1, <2>2 DEF FInv, MemoryIsShort, ProbesBegan, TypeOK
  <2>4. OnlyForgivenEarly
    <3>1. \A q \in Refs : until'[q] \in Nat
      BY <1>1, <2>1 DEF TypeOK
    <3> QED
      BY <1>1, <2>2, <3>1 DEF OnlyForgivenEarly
  <2>5. NoneBeginsMeanwhile'
    <3> SUFFICES ASSUME NEW q \in Refs, NEW u \in Threads, until'[q] > now, Probes(u, q)'
                 PROVE  began'[u] + Memory <= until'[q]
      BY <2>1 DEF NoneBeginsMeanwhile
    <3>1. u # t /\ Probes(u, q) /\ began'[u] = began[u]
      BY <2>1 DEF Probes, TypeOK
    <3>2. CASE q = ref[t]
      BY <1>1, <2>1, <3>1, <3>2 DEF FInv, ProbesBegan, TypeOK
    <3>3. CASE q # ref[t]
      <4>1. until'[q] = until[q]
        BY <2>1, <3>3 DEF TypeOK
      <4> QED
        BY <3>1, <4>1 DEF FInv, NoneBeginsMeanwhile
    <3> QED
      BY <3>2, <3>3
  <2> QED
    BY <2>3, <2>4, <2>5 DEF FInv
<1>5. ASSUME NEW t \in Threads, Obtain(t) PROVE FInv' /\ OnlyForgivenEarly
  <2>1. /\ now' = now /\ ref[t] \in Refs /\ pc[t] = "probed"
        /\ pc'[t] \in {"idle", "waiting"} /\ began'[t] = 0
        /\ \A u \in Threads \ {t} : UNCHANGED <<pc[u], ref[u], began[u]>>
    BY <1>5 DEF Obtain, Leave, GoesOn, TypeOK
  <2>2. CASE until' = until
    BY <1>2, <2>1, <2>2
  <2>3. CASE until' = [until EXCEPT ![ref[t]] = 0]
    <3>1. \A q \in Refs : until'[q] = until[q] \/ (q = ref[t] /\ until'[q] = 0)
      BY <2>3 DEF TypeOK
    <3>2. MemoryIsShort' /\ ProbesBegan'
      <4>1. \A u \in Threads : began'[u] \in {0, began[u]}
        BY <2>1
      <4> QED
        BY <1>1, <2>1, <3>1, <4>1 DEF FInv, MemoryIsShort, ProbesBegan
    <3>3. OnlyForgivenEarly
      <4> SUFFICES ASSUME NEW q \in Refs, until'[q] < until[q]
                   PROVE  pc[t] = "probed" /\ ref[t] = q
        BY DEF OnlyForgivenEarly
      <4> QED
        BY <1>1, <2>1, <3>1
    <3>4. NoneBeginsMeanwhile'
      <4> SUFFICES ASSUME NEW q \in Refs, NEW u \in Threads, until'[q] > now, Probes(u, q)'
                   PROVE  began'[u] + Memory <= until'[q]
        BY <2>1 DEF NoneBeginsMeanwhile
      <4>1. until'[q] = until[q] /\ u # t /\ Probes(u, q) /\ began'[u] = began[u]
        BY <1>1, <2>1, <3>1 DEF Probes
      <4> QED
        BY <4>1 DEF FInv, NoneBeginsMeanwhile
    <3> QED
      BY <3>2, <3>3, <3>4 DEF FInv
  <2> QED
    BY <1>5, <2>2, <2>3 DEF Obtain
<1>6. CASE Tick
  <2>1. until' = until /\ now' = now + 1 /\ UNCHANGED <<pc, ref, began>>
    BY <1>6 DEF Tick, thread_vars
  <2> QED
    BY <1>1, <2>1, FewerProbes DEF Probes
<1>7. ASSUME NEW t \in Threads, Probe(t) \/ ProbeBreaks(t) \/ Lease(t) \/ GiveUp(t) \/ Return(t)
      PROVE  FInv' /\ OnlyForgivenEarly
  <2>1. UNCHANGED <<now, until>> /\ \A u \in Threads \ {t} : UNCHANGED <<pc[u], ref[u], began[u]>>
    BY <1>7 DEF Probe, ProbeBreaks, Lease, GiveUp, Return, Leave, TypeOK
  <2>2. \/ began'[t] \in {0, began[t]} /\ pc'[t] \in {"idle", "waiting", "leased"}
        \/ pc[t] = "probing" /\ UNCHANGED <<ref[t], began[t]>>
    BY <1>7 DEF Probe, ProbeBreaks, Lease, GiveUp, Return, Leave, TypeOK
  <2> QED
    BY <1>2, <2>1, <2>2
<1>8. ASSUME NEW c \in Closers, Close(c) \/ CloseStep(c) PROVE FInv' /\ OnlyForgivenEarly
  BY <1>2, <1>8 DEF Close, CloseStep, ClosePool, CloseReturns, thread_vars
<1>9. CASE UNCHANGED vars
  BY <1>2, <1>9 DEF vars
<1> QED
  BY <1>3, <1>4, <1>5, <1>6, <1>7, <1>8, <1>9 DEF Next, Inside

\* A failure is heard by all: while it is remembered nobody begins to probe its
\* reference, and it is forgotten early only after a probe that succeeded.
THEOREM FailuresStayRemembered == Spec => FailuresAreRemembered
<1>1. Init => FInv
  BY PoolAssumption DEF Init, FInv, MemoryIsShort, ProbesBegan, NoneBeginsMeanwhile
<1>2. TypeOK /\ FInv /\ [Next]_vars => FInv' /\ OnlyForgivenEarly
  BY MemoryStep
<1>3. FInv' /\ OnlyForgivenEarly
      => /\ \A r \in Refs, t \in Threads :
              until'[r] > now' /\ Probes(t, r)' => began'[t] + Memory <= until'[r]
         /\ \A r \in Refs :
              until'[r] < until[r] => \E t \in Threads : pc[t] = "probed" /\ ref[t] = r
  BY DEF FInv, NoneBeginsMeanwhile, OnlyForgivenEarly
<1> QED
  BY <1>1, <1>2, <1>3, Invariance, PTL DEF Spec, FailuresAreRemembered
=============================================================================
