--------------------------- MODULE ConnectionPool ---------------------------
(***************************************************************************)
(* The PostgreSQL connection adapter shared by every thread of a client    *)
(* (connections/postgres.py): one bounded pool per connection reference,   *)
(* created on first use after a probe connection succeeded, a short memory *)
(* of references that just failed, and close() racing all of it.           *)
(*                                                                         *)
(* The two sections under the adapter's lock are one action each; the      *)
(* probe, the wait for a connection and the closing of the pools happen    *)
(* outside the lock, so every other thread may act in between.  The pool   *)
(* itself is psycopg_pool's: it is modelled by what the adapter relies on. *)
(***************************************************************************)
EXTENDS Integers, FiniteSets

CONSTANTS
    Threads,    \* the callers of acquire()
    Closers,    \* the callers of close()
    Refs,       \* connection references
    Unknown,    \* the references the resolver has no settings for
    Pools,      \* pool objects the factory may create
    None,       \* no pool, no reference, no closer
    MaxSize,    \* max_size of a pool
    Memory,     \* _FAILURE_MEMORY_SECONDS, in ticks
    MaxTime     \* bound on the clock

ASSUME PoolAssumption ==
    /\ None \notin Pools \cup Refs \cup Closers
    /\ Unknown \subseteq Refs
    /\ MaxSize \in Nat \ {0}
    /\ Memory \in Nat
    /\ MaxTime \in Nat
    /\ IsFiniteSet(Threads)

VARIABLES
    now,        \* time.monotonic()
    closed,     \* _closed
    pool_of,    \* _pools: the pool of a reference, or None
    until,      \* _failures: when the memory of a failure ends (0: none)
    owner,      \* owner[p]: the reference pool object p was created for, or None
    open,       \* open[p]: p accepts requests for a connection
    pc,         \* where each thread is
    ref,        \* the reference it asks for
    began,      \* when it began to probe (kept only for what is said of it)
    mine,       \* the pool it was given
    closing,    \* closing[c]: "no", "closing" or "returned"
    to_close,   \* the pools a closer has still to close
    closer      \* the caller that found the adapter open and closes it

vars == <<now, closed, pool_of, until, owner, open, pc, ref, began, mine,
          closing, to_close, closer>>

thread_vars == <<pc, ref, began, mine>>
close_vars  == <<closing, to_close, closer>>

-----------------------------------------------------------------------------
Leased(p) == {t \in Threads : pc[t] = "leased" /\ mine[t] = p}

\* A thread leaves acquire() or its with block, with a result or an error.
Leave(t) == /\ pc' = [pc EXCEPT ![t] = "idle"]
            /\ ref' = [ref EXCEPT ![t] = None]
            /\ began' = [began EXCEPT ![t] = 0]
            /\ mine' = [mine EXCEPT ![t] = None]

\* (mutant: a remembered failure is not looked at)
ForgetsFailures(r) == FALSE

\* A reference that just failed is not retried at once.
Remembered(r) == until[r] > now

\* The first locked section of _pool_for: the adapter is closed, the pool
\* exists, the reference just failed or has no settings, or it is probed.
LookUp(t, r) ==
    /\ pc[t] = "idle"
    /\ IF closed THEN UNCHANGED thread_vars
       ELSE IF pool_of[r] # None
       THEN /\ pc' = [pc EXCEPT ![t] = "waiting"]
            /\ ref' = [ref EXCEPT ![t] = r]
            /\ mine' = [mine EXCEPT ![t] = pool_of[r]]
            /\ UNCHANGED began
       ELSE IF Remembered(r) \/ r \in Unknown THEN UNCHANGED thread_vars
       ELSE /\ pc' = [pc EXCEPT ![t] = "probing"]
            /\ ref' = [ref EXCEPT ![t] = r]
            /\ began' = [began EXCEPT ![t] = now]
            /\ UNCHANGED mine
    /\ UNCHANGED <<now, closed, pool_of, until, owner, open, close_vars>>

\* The probe connection is opened (and closed again), or refused.
Probe(t) ==
    /\ pc[t] = "probing"
    /\ pc' = [pc EXCEPT ![t] = "probed"] \/ pc' = [pc EXCEPT ![t] = "refused"]
    /\ UNCHANGED <<now, closed, pool_of, until, owner, open, ref, began, mine, close_vars>>

\* The probe fails in another way (the driver is not installed): the error is
\* raised as it is, and not remembered.
ProbeBreaks(t) ==
    /\ pc[t] = "probing"
    /\ Leave(t)
    /\ UNCHANGED <<now, closed, pool_of, until, owner, open, close_vars>>

\* (mutant: the memory is counted from the start of the probe)
CountedFromTheStart(t) == began[t] + Memory

\* When the failure of a probe that is recorded now will be forgotten.
ForgottenAt(t) == now + Memory

\* A refused probe is remembered, under the lock, and the error raised.
RecordFailure(t) ==
    /\ pc[t] = "refused"
    /\ until' = [until EXCEPT ![ref[t]] = ForgottenAt(t)]
    /\ Leave(t)
    /\ UNCHANGED <<now, closed, pool_of, owner, open, close_vars>>

\* (mutant: close() is not looked at again after the probe)
ClosedIsForgotten == FALSE

\* _raise_if_closed, in the second locked section.
ClosedMeanwhile == closed

\* (mutant: the pool another thread made meanwhile is overwritten)
OwnPoolNeeded(r) == TRUE

\* No other thread created the pool while this one probed.
PoolNeeded(r) == pool_of[r] = None

\* The thread goes on to wait for a connection of pool p.
GoesOn(t, p) == /\ pc' = [pc EXCEPT ![t] = "waiting"]
                /\ mine' = [mine EXCEPT ![t] = p]
                /\ began' = [began EXCEPT ![t] = 0]
                /\ UNCHANGED ref

\* The second locked section of _pool_for: closed meanwhile, or the pool that
\* another thread created meanwhile, or a new one.  The factory may raise (the
\* pool's driver is not installed): by then the failure is forgotten.
Obtain(t) ==
    /\ pc[t] = "probed"
    /\ IF ClosedMeanwhile
       THEN Leave(t) /\ UNCHANGED <<until, pool_of, owner, open>>
       ELSE /\ until' = [until EXCEPT ![ref[t]] = 0]
            /\ IF PoolNeeded(ref[t])
               THEN \/ \E p \in Pools :
                          /\ owner[p] = None
                          /\ owner' = [owner EXCEPT ![p] = ref[t]]
                          /\ open' = [open EXCEPT ![p] = TRUE]
                          /\ pool_of' = [pool_of EXCEPT ![ref[t]] = p]
                          /\ GoesOn(t, p)
                    \/ Leave(t) /\ UNCHANGED <<owner, open, pool_of>>
               ELSE GoesOn(t, pool_of[ref[t]]) /\ UNCHANGED <<owner, open, pool_of>>
    /\ UNCHANGED <<now, closed, close_vars>>

\* The pool hands out a connection that is free.
Lease(t) ==
    /\ pc[t] = "waiting"
    /\ open[mine[t]] /\ Cardinality(Leased(mine[t])) < MaxSize
    /\ pc' = [pc EXCEPT ![t] = "leased"]
    /\ UNCHANGED <<now, closed, pool_of, until, owner, open, ref, began, mine, close_vars>>

\* The wait ends without a connection: every one is leased, or none can be
\* opened, until the timeout (connection_pool_timeout), or the pool is closed.
GiveUp(t) ==
    /\ pc[t] = "waiting"
    /\ Leave(t)
    /\ UNCHANGED <<now, closed, pool_of, until, owner, open, close_vars>>

\* The statement is over, well or badly, and the connection goes back.
Return(t) ==
    /\ pc[t] = "leased"
    /\ Leave(t)
    /\ UNCHANGED <<now, closed, pool_of, until, owner, open, close_vars>>

\* close(): the locked section.  A second caller returns at once.
Close(c) ==
    /\ closing[c] = "no"
    /\ IF closed
       THEN /\ closing' = [closing EXCEPT ![c] = "returned"]
            /\ UNCHANGED <<closed, pool_of, to_close, closer>>
       ELSE /\ closed' = TRUE
            /\ closer' = c
            /\ to_close' = {pool_of[r] : r \in Refs} \ {None}
            /\ pool_of' = [r \in Refs |-> None]
            /\ closing' = [closing EXCEPT ![c] = "closing"]
    /\ UNCHANGED <<now, until, owner, open, thread_vars>>

\* Outside the lock: one pool after the other is closed.
ClosePool(c, p) ==
    /\ closing[c] = "closing" /\ p \in to_close
    /\ open' = [open EXCEPT ![p] = FALSE]
    /\ to_close' = to_close \ {p}
    /\ UNCHANGED <<now, closed, pool_of, until, owner, thread_vars, closing, closer>>

CloseReturns(c) ==
    /\ closing[c] = "closing" /\ to_close = {}
    /\ closing' = [closing EXCEPT ![c] = "returned"]
    /\ UNCHANGED <<now, closed, pool_of, until, owner, open, thread_vars, to_close, closer>>

Tick ==
    /\ now < MaxTime
    /\ now' = now + 1
    /\ UNCHANGED <<closed, pool_of, until, owner, open, thread_vars, close_vars>>

Init ==
    /\ now = 0 /\ closed = FALSE
    /\ pool_of = [r \in Refs |-> None]
    /\ until = [r \in Refs |-> 0]
    /\ owner = [p \in Pools |-> None]
    /\ open = [p \in Pools |-> FALSE]
    /\ pc = [t \in Threads |-> "idle"]
    /\ ref = [t \in Threads |-> None]
    /\ began = [t \in Threads |-> 0]
    /\ mine = [t \in Threads |-> None]
    /\ closing = [c \in Closers |-> "no"]
    /\ to_close = {}
    /\ closer = None

\* What a thread does inside acquire() and its with block.
Inside(t) == \/ Probe(t) \/ ProbeBreaks(t) \/ RecordFailure(t) \/ Obtain(t)
             \/ Lease(t) \/ GiveUp(t) \/ Return(t)

CloseStep(c) == CloseReturns(c) \/ \E p \in Pools : ClosePool(c, p)

Next == \/ \E t \in Threads : Inside(t) \/ \E r \in Refs : LookUp(t, r)
        \/ \E c \in Closers : Close(c) \/ CloseStep(c)
        \/ Tick

Spec == Init /\ [][Next]_vars

-----------------------------------------------------------------------------
(* Properties.                                                             *)

TypeOK ==
    /\ now \in Nat
    /\ closed \in BOOLEAN
    /\ pool_of \in [Refs -> Pools \cup {None}]
    /\ until \in [Refs -> Nat]
    /\ owner \in [Pools -> Refs \cup {None}]
    /\ open \in [Pools -> BOOLEAN]
    /\ pc \in [Threads -> {"idle", "probing", "probed", "refused", "waiting", "leased"}]
    /\ ref \in [Threads -> Refs \cup {None}]
    /\ began \in [Threads -> Nat]
    /\ mine \in [Threads -> Pools \cup {None}]
    /\ closing \in [Closers -> {"no", "closing", "returned"}]
    /\ to_close \in SUBSET Pools
    /\ closer \in Closers \cup {None}
    /\ \A t \in Threads : pc[t] \in {"waiting", "leased"} => mine[t] \in Pools
    /\ \A t \in Threads : pc[t] \in {"probing", "probed", "refused"} => ref[t] \in Refs

\* A source never sees more leased connections than one pool holds, however
\* many threads meet its reference for the first time together.
LeasesAreBounded ==
    \A r \in Refs :
        Cardinality({t \in Threads : pc[t] = "leased" /\ owner[mine[t]] = r}) <= MaxSize

\* Once the close() that found the adapter open has returned, no pool is open:
\* not even one that a thread was about to create when it was called.
NoPoolOutlivesClose ==
    closer # None /\ closing[closer] = "returned" => \A p \in Pools : ~open[p]

\* An open pool is reachable: close() will find it.  No pool is ever lost by
\* two threads creating one for the same reference.
NoPoolIsLost ==
    \A p \in Pools : open[p] => pool_of[owner[p]] = p \/ p \in to_close

\* Thread t is between the two locked sections, for reference r.
Probes(t, r) == ref[t] = r /\ pc[t] \in {"probing", "probed", "refused"}

\* A failure is heard by all.  While it is remembered, the only probes of its
\* reference under way are those that had begun when it was recorded: nobody
\* begins one, in whatever order slower and faster probes end.  And the memory
\* ends before its time only after a probe that succeeded; the failure of a
\* probe that began earlier and ends later never shortens it.
FailuresAreRemembered ==
    [][/\ \A r \in Refs, t \in Threads :
             until'[r] > now' /\ Probes(t, r)' => began'[t] + Memory <= until'[r]
       /\ \A r \in Refs :
             until'[r] < until[r] => \E t \in Threads : pc[t] = "probed" /\ ref[t] = r]_vars
=============================================================================
