-------------------------- MODULE MCSemanticVerify --------------------------
(* Plain: up to three of four records judged in batches of two for a page of *)
(* one (four are refused), so that judging can stop early, overshoot the     *)
(* page, and end on a partial batch.  Join: the traversed side is judged, in *)
(* two passes over three records.                                            *)
EXTENDS SemanticVerify

MCNoShortlist == -1

Plain  == [passes |-> <<"left">>, joined |-> FALSE, ids |-> 1 .. 4, shortlists |-> TRUE,
           first |-> 1, max_cost |-> 1, max_latency |-> 2]
Probes == [passes |-> <<"right", "right">>, joined |-> TRUE, ids |-> 1 .. 3,
           shortlists |-> TRUE, first |-> 3, max_cost |-> 0, max_latency |-> 2]

MCQueries == {Plain, Probes}
MCProbes  == {[Probes EXCEPT !.shortlists = FALSE]}
=============================================================================
