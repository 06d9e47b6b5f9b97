-------------------------- MODULE MCQueryDeadline ---------------------------
(* Queries of up to three reads under budgets shorter and longer than the    *)
(* adapter's own limits, or under none.                                      *)
EXTENDS QueryDeadline

MCBudgets == {1, 2, 4, None}
=============================================================================
