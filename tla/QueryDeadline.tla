--------------------------- MODULE QueryDeadline ---------------------------
(***************************************************************************)
(* How timeout_seconds bounds one query.  The coordinator hands each read  *)
(* what is left of the budget (Run.remaining, execution/operators/base.py),*)
(* and the read spends it twice: as the longest wait for a pooled          *)
(* connection and as the statement_timeout of the database                 *)
(* (execution/postgres.py).  Before the wait, the first use of a reference *)
(* probes it under a limit of its own (connections/postgres.py).           *)
(*                                                                         *)
(* Time is counted in ticks from the start of the query.                   *)
(***************************************************************************)
EXTENDS Integers

CONSTANTS
    Budgets,            \* the values of timeout_seconds to look at
    None,               \* "no timeout_seconds"
    ProbeLimit,         \* min(acquire_timeout_seconds, _PROBE_TIMEOUT_SECONDS)
    AcquireTimeout,     \* acquire_timeout_seconds
    StatementTimeout,   \* default_statement_timeout_seconds
    MaxReads,           \* bound on the reads of one query
    MaxWork             \* bound on the coordinator's own time

ASSUME DeadlineAssumption ==
    /\ Budgets \subseteq (Nat \ {0}) \cup {None}
    /\ None \notin Nat
    /\ ProbeLimit \in Nat \ {0}
    /\ AcquireTimeout \in Nat \ {0}
    /\ StatementTimeout \in Nat \ {0}
    /\ MaxReads \in Nat
    /\ MaxWork \in Nat

VARIABLES
    now,        \* time since the query started
    budget,     \* timeout_seconds
    phase,      \* what the query is doing
    begun,      \* when that phase began
    left,       \* timeout_seconds of the current read
    reads,      \* how many reads were started
    worked      \* ticks the coordinator itself took

vars == <<now, budget, phase, begun, left, reads, worked>>

Reading == {"probe", "wait", "statement"}
Over    == {"answered", "timeout", "failed"}

-----------------------------------------------------------------------------
\* Run.remaining() finds nothing left.
Spent == budget # None /\ budget - now <= 0

WaitLimit == IF left = None THEN AcquireTimeout ELSE left

\* (mutant: the statement always gets the adapter's default limit)
DefaultLimit == StatementTimeout

StatementLimit == IF left = None THEN StatementTimeout ELSE left

Enter(p) == phase' = p /\ begun' = now

\* The coordinator starts a read with what is left of the budget.  The source
\* is probed first when its pool does not exist yet.
StartRead ==
    /\ phase = "coordinator" /\ reads < MaxReads
    /\ ~Spent
    /\ left' = IF budget = None THEN None ELSE budget - now
    /\ reads' = reads + 1
    /\ Enter("probe") \/ Enter("wait")
    /\ UNCHANGED <<now, budget, worked>>

\* The budget is spent before a read that is still needed.
Expire ==
    /\ phase = "coordinator" /\ reads < MaxReads
    /\ Spent
    /\ Enter("timeout")
    /\ UNCHANGED <<now, budget, left, reads, worked>>

\* The coordinator has all it needs: nothing looks at the clock any more.
Answer ==
    /\ phase = "coordinator" /\ reads > 0
    /\ Enter("answered")
    /\ UNCHANGED <<now, budget, left, reads, worked>>

Probed ==
    /\ phase = "probe"
    /\ Enter("wait") \/ Enter("failed")
    /\ UNCHANGED <<now, budget, left, reads, worked>>

\* A connection became free.
Waited ==
    /\ phase = "wait"
    /\ Enter("statement")
    /\ UNCHANGED <<now, budget, left, reads, worked>>

\* The statement ends, or fails.
Executed ==
    /\ phase = "statement"
    /\ Enter("coordinator") \/ Enter("failed")
    /\ UNCHANGED <<now, budget, left, reads, worked>>

Overdue(p, limit) == phase = p /\ now - begun >= limit

\* The driver, the pool or the database enforces the limit it was given.
CutOff ==
    /\ \/ Overdue("probe", ProbeLimit) /\ Enter("failed")
       \/ Overdue("wait", WaitLimit) /\ Enter("failed")
       \/ Overdue("statement", StatementLimit) /\ Enter("timeout")
    /\ UNCHANGED <<now, budget, left, reads, worked>>

\* Time passes; a phase with a limit does not outlive it.
Tick ==
    /\ phase = "probe"       => now - begun < ProbeLimit
    /\ phase = "wait"        => now - begun < WaitLimit
    /\ phase = "statement"   => now - begun < StatementLimit
    /\ phase = "coordinator" => worked < MaxWork
    /\ phase \notin Over
    /\ now' = now + 1
    /\ worked' = IF phase = "coordinator" THEN worked + 1 ELSE worked
    /\ UNCHANGED <<budget, phase, begun, left, reads>>

Init ==
    /\ now = 0 /\ budget \in Budgets
    /\ phase = "coordinator" /\ begun = 0
    /\ left = None
    /\ reads = 0 /\ worked = 0

Next == StartRead \/ Expire \/ Answer \/ Probed \/ Waited \/ Executed \/ CutOff \/ Tick

Spec == Init /\ [][Next]_vars

-----------------------------------------------------------------------------
(* Properties.                                                             *)

TypeOK ==
    /\ now \in Nat
    /\ budget \in Budgets
    /\ phase \in {"coordinator"} \cup Reading \cup Over
    /\ begun \in 0 .. now
    /\ left \in (Nat \ {0}) \cup {None}
    /\ reads \in 0 .. MaxReads
    /\ worked \in 0 .. MaxWork

\* The most a query under a budget can overrun it while it reads: a read that
\* starts at once probes, waits for the whole budget and runs for all of it
\* again.  (The coordinator's own work is not bounded by anything.)
OvershootIsBounded ==
    budget # None /\ phase \in Reading => now <= ProbeLimit + 2 * budget

\* What docs/reference/python.mdx promises of timeout_seconds: "a limit for the
\* whole query, across every database it reads.  When it runs out the query
\* fails with query_timeout".  Checked without coordinator time (MaxWork = 0).
AnswersWithinItsBudget ==
    phase = "answered" /\ budget # None => now <= budget
=============================================================================
