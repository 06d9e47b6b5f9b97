----------------------------- MODULE MCAssembly -----------------------------
(* Small instances of Assembly: an anchor "a", a required contributor "r",  *)
(* an enricher "o" and a vector store "st", over three logical IDs.         *)
EXTENDS Assembly

MCDistance == [i \in Ids |-> i]
\* Rows without an embedding are explored with one write, the others with all.
BareOnceWritten ==
    writes <= 1 \/ \A s \in Sources, i \in Ids : was[s][i] \cap Bare = {}

MCMaxRows  == [s \in Sources |-> IF s = "a" THEN 2 ELSE 3]
MCBound    == [s \in Sources |-> IF s = "a" THEN 2 ELSE 1]
=============================================================================
