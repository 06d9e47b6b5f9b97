-------------------------- MODULE MCConnectionPool --------------------------
(* Three threads meet one source for the first time, and a reference that    *)
(* nobody configured; two callers close the adapter meanwhile.               *)
EXTENDS ConnectionPool
=============================================================================
