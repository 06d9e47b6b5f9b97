---------------------------- MODULE MCOptimizer ----------------------------
(* An anchor of four rows, up to two required contributors, an enricher and  *)
(* a vector store; sources that are cheap or dear to call, with and without  *)
(* key lookup and guards; and each semantic strategy.                        *)
EXTENDS Optimizer

MCNone == -1
MCRates == [batch |-> 2, call |-> 3, per_row |-> 1, embed |-> 1, money_per_call |-> 1,
            money_per_row |-> 1, embed_money |-> 1, rank |-> 1, per_match |-> 2]

Profile(f, t, c, k, l, g) ==
    [filtered |-> f, total |-> t, call |-> c, per_key |-> k, per_row |-> 1, key_limit |-> l, row_cap |-> g]

Anchors   == {Profile(f, 4, 1, 1, l, g) : f \in {1, 4}, l \in {MCNone, 1, 4}, g \in {MCNone, 2}}
Firsts    == {Profile(f, 8, c, 0, l, MCNone) : f \in {1, 2}, c \in {1, 6}, l \in {MCNone, 2}}
Seconds   == {Profile(f, 4, 1, 1, 2, g) : f \in {2, 8}, g \in {MCNone, 4}}
Enrichers == {Profile(4, 4, 1, 1, 2, 2), Profile(2, 2, 2, 0, MCNone, MCNone)}
Stores    == {Profile(t, t, 1, 1, l, MCNone) : t \in {2, 8}, l \in {MCNone, 2}}

Ask(p, able, via, first, unpushed, cap) ==
    [preference |-> p, able |-> able, via_store |-> via, first |-> first, unpushed |-> unpushed,
     maximum_candidates |-> cap, maximum_shortlist |-> 3, minimum_shortlist |-> 1, oversample |-> 2,
     share |-> <<1, 2>>]
Asks == {Ask("none", FALSE, FALSE, 1, 1, 4), Ask("verify_all", TRUE, FALSE, 1, 1, 2),
         Ask("auto", FALSE, FALSE, 1, 2, 1), Ask("auto", TRUE, FALSE, 1, 1, 4)}
        \cup {Ask("auto", TRUE, TRUE, f, 1, 4) : f \in {1, 2}} \cup {Ask("shortlist", TRUE, FALSE, 1, 1, 2)}

\* maximum_transfer_keys, maximum_key_batches, maximum_cost, maximum_latency_ms,
\* whether every size is known, maximum_dp_sources.
Limits == {<<2, 2, MCNone, MCNone, TRUE, 3>>, <<4, 1, 3, 12, TRUE, 3>>, <<MCNone, 1, MCNone, 20, TRUE, 3>>,
           <<2, 1, MCNone, MCNone, FALSE, 3>>, <<4, 1, MCNone, MCNone, TRUE, 2>>}

Given(required, optional, a, b, c, o, w, ask, lim) ==
    [required |-> required, optional |-> optional,
     source |-> [s \in {"anchor", "r1", "r2", "o", "store"} |->
                    CASE s = "anchor" -> a [] s = "r1" -> b [] s = "r2" -> c [] s = "o" -> o [] OTHER -> w],
     semantic |-> ask,
     transfer_bound |-> lim[1], key_batches |-> lim[2], maximum_money |-> lim[3], maximum_latency |-> lim[4],
     known |-> lim[5], maximum_dp_sources |-> lim[6]]

MCProblems ==
    {Given(<<"r1", "r2">>, {"o"}, a, b, c, Profile(4, 4, 1, 1, 2, 2), w, ask, lim) :
        a \in Anchors, b \in Firsts, c \in Seconds, w \in {Profile(8, 8, 1, 1, 2, MCNone)}, ask \in Asks, lim \in Limits}
    \cup {Given(required, optional, a, b, b, o, w, ask, lim) :
        required \in {<<>>, <<"r1">>}, optional \in {{}, {"o"}}, a \in Anchors, b \in Firsts, o \in Enrichers,
        w \in Stores, ask \in {k \in Asks : k.via_store}, lim \in Limits}
=============================================================================
