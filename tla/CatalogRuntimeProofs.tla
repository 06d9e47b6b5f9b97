------------------------ MODULE CatalogRuntimeProofs ------------------------
(***************************************************************************)
(* Proofs about the catalog runtime, for any number of refreshing threads, *)
(* queries, files and sources.                                             *)
(***************************************************************************)
EXTENDS CatalogRuntime, TLAPS

\* What the steps of a refresh have established: every file it has read was
\* read from the disk after the refresh began.
LoadedInOrder ==
    \A r \in Refreshers : \A f \in DOMAIN loaded[r] :
        begun[r][f] <= loaded[r][f] /\ loaded[r][f] <= disk[f]

\* What a refresh saw when it began is no newer than the disk.
BegunBefore == \A r \in Refreshers : \A f \in Files : begun[r][f] <= disk[f]

\* A catalog that may be served over the files d.
Served(c, d) ==
    /\ \A s \in Sources : c.sources[s] = "valid"
    /\ \A f \in Files : c.since[f] <= c.files[f] /\ c.files[f] <= d[f]

ServedInv ==
    /\ active # None => Served(active, disk)
    /\ \A q \in Queries : snapshot[q] # None => Served(snapshot[q], disk)

IInv == TypeOK /\ LoadedInOrder /\ BegunBefore /\ ServedInv /\ QueryUsesOneSnapshot

-----------------------------------------------------------------------------
(* Partial functions.                                                      *)

LEMMA PartialIsFunction ==
    ASSUME NEW S, NEW T, NEW f \in Partial(S, T)
    PROVE  /\ DOMAIN f \subseteq S
           /\ \A x \in DOMAIN f : f[x] \in T
           /\ f \in [DOMAIN f -> T]
BY DEF Partial

LEMMA NothingIsPartial ==
    ASSUME NEW S, NEW T
    PROVE  Nothing \in Partial(S, T) /\ DOMAIN Nothing = {}
<1>1. Nothing \in [{} -> T] /\ {} \in SUBSET S
  BY DEF Nothing
<1> QED
  BY <1>1 DEF Partial, Nothing

LEMMA ExtendedIsPartial ==
    ASSUME NEW S, NEW T, NEW f \in Partial(S, T), NEW x \in S, NEW y \in T
    PROVE  /\ Extended(f, x, y) \in Partial(S, T)
           /\ DOMAIN Extended(f, x, y) = DOMAIN f \cup {x}
           /\ Extended(f, x, y)[x] = y
           /\ \A z \in DOMAIN f \ {x} : Extended(f, x, y)[z] = f[z]
<1>1. DOMAIN f \cup {x} \in SUBSET S /\ \A z \in DOMAIN f : f[z] \in T
  BY PartialIsFunction
<1>2. Extended(f, x, y) \in [DOMAIN f \cup {x} -> T]
  BY <1>1 DEF Extended
<1> QED
  BY <1>1, <1>2 DEF Partial, Extended

\* A complete candidate is an evaluation; with all its sources valid it may be
\* served.
LEMMA CandidateServed ==
    ASSUME TypeOK, LoadedInOrder, NEW r \in Refreshers,
           DOMAIN loaded[r] = Files, Complete(Candidate(r))
    PROVE  /\ Candidate(r) \in Evaluation
           /\ IsActivatable(Candidate(r)) => Served(Candidate(r), disk)
<1>1. /\ Candidate(r).files = loaded[r]
      /\ Candidate(r).sources = states[r]
      /\ Candidate(r).since = begun[r]
  BY DEF Candidate
<1>2. DOMAIN states[r] = Sources
  BY <1>1 DEF Complete
<1>3. loaded[r] \in Contents /\ states[r] \in [Sources -> Statuses] /\ begun[r] \in Contents
  <2>1. loaded[r] \in Partial(Files, Version) /\ states[r] \in Partial(Sources, Statuses)
    BY DEF TypeOK
  <2>2. loaded[r] \in [Files -> Version] /\ states[r] \in [Sources -> Statuses]
    BY <1>2, <2>1, PartialIsFunction
  <2> QED
    BY <2>2 DEF TypeOK, Contents
<1>4. Candidate(r) \in Evaluation
  BY <1>3 DEF Candidate, Evaluation
<1>5. IsActivatable(Candidate(r)) => Served(Candidate(r), disk)
  BY <1>1, <1>2, LoadedInOrder DEF IsActivatable, Served, LoadedInOrder
<1> QED
  BY <1>4, <1>5

\* A newer disk serves what an older one served.
LEMMA ServedLater ==
    ASSUME NEW d \in Contents, NEW e \in Contents, \A f \in Files : d[f] <= e[f],
           NEW c \in Evaluation, Served(c, d)
    PROVE  Served(c, e)
BY RuntimeAssumption DEF Served, Evaluation, Contents, Version

-----------------------------------------------------------------------------
(* Type correctness.                                                       *)

LEMMA TypeInit == Init => TypeOK
<1> SUFFICES ASSUME Init PROVE TypeOK
  OBVIOUS
<1>1. Nothing \in Partial(Files, Version) /\ Nothing \in Partial(Sources, Statuses)
  BY NothingIsPartial
<1>2. disk \in Contents
  BY RuntimeAssumption DEF Init, Contents, Version
<1> QED
  BY <1>1, <1>2 DEF Init, TypeOK

LEMMA TypeStep == TypeOK /\ LoadedInOrder /\ [Next]_vars => TypeOK'
<1> SUFFICES ASSUME TypeOK, LoadedInOrder, [Next]_vars PROVE TypeOK'
  OBVIOUS
<1>1. ASSUME NEW r \in Refreshers, Begin(r) PROVE TypeOK'
  <2>1. Nothing \in Partial(Files, Version) /\ Nothing \in Partial(Sources, Statuses)
    BY NothingIsPartial
  <2> QED
    BY <1>1, <2>1 DEF TypeOK, Begin, query_vars
<1>2. ASSUME NEW r \in Refreshers, NEW f \in Files, ReadFile(r, f) PROVE TypeOK'
  <2>1. disk[f] \in Version /\ loaded[r] \in Partial(Files, Version)
    BY DEF TypeOK, Contents
  <2>2. Extended(loaded[r], f, disk[f]) \in Partial(Files, Version)
    BY <2>1, ExtendedIsPartial
  <2> QED
    BY <1>2, <2>2 DEF TypeOK, ReadFile, query_vars
<1>3. ASSUME NEW r \in Refreshers, LoadFails(r) PROVE TypeOK'
  <2>1. [status |-> "load_failed", active |-> active] \in Results
    BY DEF TypeOK, Results
  <2> QED
    BY <1>3, <2>1 DEF TypeOK, LoadFails, query_vars
<1>4. ASSUME NEW r \in Refreshers, LoadRaises(r) PROVE TypeOK'
  BY <1>4 DEF TypeOK, LoadRaises, query_vars
<1>5. ASSUME NEW r \in Refreshers, NEW s \in Sources, NEW status \in Statuses,
             Inspect(r, s, status)
      PROVE  TypeOK'
  <2>1. Extended(states[r], s, status) \in Partial(Sources, Statuses)
    BY ExtendedIsPartial DEF TypeOK
  <2> QED
    BY <1>5, <2>1 DEF TypeOK, Inspect, query_vars
<1>6. ASSUME NEW r \in Refreshers, Conclude(r) PROVE TypeOK'
  <2>1. DOMAIN loaded[r] = Files /\ Complete(Candidate(r))
    BY <1>6 DEF Conclude
  <2>2. Candidate(r) \in Evaluation
    BY <2>1, CandidateServed
  <2>3. active' \in Evaluation \cup {None}
    BY <1>6, <2>2 DEF Conclude, TypeOK
  <2>4. result' \in [Refreshers -> Results \cup {None}]
    <3>1. /\ [status |-> "activated", active |-> Candidate(r)] \in Results
          /\ [status |-> "rejected", active |-> active] \in Results
      BY <2>2 DEF TypeOK, Results
    <3> QED
      BY <1>6, <3>1 DEF Conclude, TypeOK, Retained
  <2> QED
    BY <1>6, <2>3, <2>4 DEF TypeOK, Conclude, query_vars
<1>7. ASSUME NEW r \in Refreshers, Record(r) PROVE TypeOK'
  BY <1>7 DEF TypeOK, Record, query_vars
<1>8. ASSUME NEW q \in Queries, Bind(q) PROVE TypeOK'
  BY <1>8 DEF TypeOK, Bind, refresh_vars
<1>9. ASSUME NEW q \in Queries, ProbeFor(q) PROVE TypeOK'
  <2>1. snapshot[q] \in Evaluation /\ batches[q] \in Nat
    BY <1>9 DEF TypeOK, ProbeFor
  <2> QED
    BY <1>9, <2>1 DEF TypeOK, ProbeFor, BatchCatalog, refresh_vars
<1>10. ASSUME NEW f \in Files, Edit(f) PROVE TypeOK'
  BY <1>10, RuntimeAssumption DEF TypeOK, Edit, Contents, Version, refresh_vars, query_vars
<1>11. CASE UNCHANGED vars
  BY <1>11 DEF TypeOK, vars, refresh_vars, query_vars
<1> QED
  BY <1>1, <1>2, <1>3, <1>4, <1>5, <1>6, <1>7, <1>8, <1>9, <1>10, <1>11 DEF Next, Advance

-----------------------------------------------------------------------------
(* The catalogs that are served.                                           *)

LEMMA LoadedInit == Init => LoadedInOrder
BY NothingIsPartial DEF Init, LoadedInOrder, Nothing

LEMMA BegunInit == Init => BegunBefore
BY RuntimeAssumption DEF Init, BegunBefore

\* Files only get newer.
LEMMA DiskGrows ==
    ASSUME TypeOK, [Next]_vars
    PROVE  \A f \in Files : disk[f] \in Version /\ disk'[f] \in Int /\ disk[f] <= disk'[f]
<1>0. \A f \in Files : disk[f] \in Version /\ disk[f] \in Int
  BY RuntimeAssumption DEF TypeOK, Contents, Version
<1>1. CASE UNCHANGED disk
  BY <1>0, <1>1 DEF Version
<1>2. ASSUME NEW g \in Files, Edit(g) PROVE \A f \in Files : disk'[f] \in Int /\ disk[f] <= disk'[f]
  BY <1>0, <1>2 DEF Edit, TypeOK, Contents
<1>3. ASSUME NEW r \in Refreshers, Begin(r) \/ Advance(r) PROVE UNCHANGED disk
  BY <1>3 DEF Begin, Advance, ReadFile, LoadFails, LoadRaises, Inspect, Conclude, Record
<1>4. ASSUME NEW q \in Queries, Bind(q) \/ ProbeFor(q) PROVE UNCHANGED disk
  BY <1>4 DEF Bind, ProbeFor
<1>5. CASE UNCHANGED vars
  BY <1>1, <1>5 DEF vars
<1> QED
  BY <1>0, <1>1, <1>2, <1>3, <1>4, <1>5 DEF Next

LEMMA BegunStep == TypeOK /\ BegunBefore /\ [Next]_vars => BegunBefore'
<1> SUFFICES ASSUME TypeOK, BegunBefore, [Next]_vars,
                    NEW r \in Refreshers, NEW f \in Files
             PROVE  begun'[r][f] <= disk'[f]
  BY DEF BegunBefore
<1>1. disk[f] \in Version /\ disk'[f] \in Int /\ disk[f] <= disk'[f]
  BY DiskGrows
<1>2. begun[r][f] <= disk[f] /\ begun[r][f] \in Version
  BY DEF BegunBefore, TypeOK, Contents
<1>3. begun'[r] = begun[r] \/ begun'[r] = disk
  <2>1. ASSUME NEW t \in Refreshers, Begin(t) PROVE begun'[r] = begun[r] \/ begun'[r] = disk
    BY <2>1 DEF Begin, TypeOK
  <2>2. ASSUME NEW t \in Refreshers, Advance(t) PROVE begun' = begun
    BY <2>2 DEF Advance, ReadFile, LoadFails, LoadRaises, Inspect, Conclude, Record
  <2>3. ASSUME NEW q \in Queries, Bind(q) \/ ProbeFor(q) PROVE begun' = begun
    BY <2>3 DEF Bind, ProbeFor, refresh_vars
  <2>4. ASSUME NEW g \in Files, Edit(g) PROVE begun' = begun
    BY <2>4 DEF Edit, refresh_vars
  <2>5. CASE UNCHANGED vars
    BY <2>5 DEF vars, refresh_vars
  <2> QED
    BY <2>1, <2>2, <2>3, <2>4, <2>5 DEF Next
<1> QED
  BY <1>1, <1>2, <1>3, RuntimeAssumption DEF Version

LEMMA LoadedStep == TypeOK /\ LoadedInOrder /\ BegunBefore /\ [Next]_vars => LoadedInOrder'
<1> SUFFICES ASSUME TypeOK, LoadedInOrder, BegunBefore, [Next]_vars,
                    NEW r \in Refreshers, NEW f \in DOMAIN loaded'[r]
             PROVE  begun'[r][f] <= loaded'[r][f] /\ loaded'[r][f] <= disk'[f]
  BY DEF LoadedInOrder
<1>0. loaded[r] \in Partial(Files, Version) /\ begun[r] \in Contents
  BY DEF TypeOK
<1>1. ASSUME begun'[r] = begun[r], loaded'[r] = loaded[r]
      PROVE  begun'[r][f] <= loaded'[r][f] /\ loaded'[r][f] <= disk'[f]
  <2>1. f \in Files /\ loaded[r][f] \in Version
    BY <1>0, <1>1, PartialIsFunction
  <2>2. disk[f] \in Version /\ disk'[f] \in Int /\ disk[f] <= disk'[f]
    BY <2>1, DiskGrows
  <2>3. begun[r][f] <= loaded[r][f] /\ loaded[r][f] <= disk[f]
    BY <1>1 DEF LoadedInOrder
  <2> QED
    BY <1>1, <2>1, <2>2, <2>3, RuntimeAssumption DEF Version
<1>2. ASSUME NEW t \in Refreshers, Begin(t)
      PROVE  begun'[r][f] <= loaded'[r][f] /\ loaded'[r][f] <= disk'[f]
  <2>1. CASE t = r
    <3>1. loaded'[r] = Nothing
      BY <1>2, <2>1 DEF Begin, TypeOK
    <3> QED
      BY <3>1, NothingIsPartial
  <2>2. CASE t # r
    BY <1>1, <1>2, <2>2 DEF Begin, TypeOK
  <2> QED
    BY <2>1, <2>2
<1>3. ASSUME NEW t \in Refreshers, NEW g \in Files, ReadFile(t, g)
      PROVE  begun'[r][f] <= loaded'[r][f] /\ loaded'[r][f] <= disk'[f]
  <2>1. CASE t = r
    <3>1. disk[g] \in Version /\ begun[r][g] \in Version /\ begun[r][g] <= disk[g]
      BY DEF TypeOK, Contents, BegunBefore
    <3>2. /\ loaded'[r] = Extended(loaded[r], g, disk[g])
          /\ begun'[r] = begun[r] /\ disk' = disk
      BY <1>3, <2>1 DEF ReadFile, TypeOK
    <3> DEFINE grown == Extended(loaded[r], g, disk[g])
    <3>a. /\ DOMAIN grown = DOMAIN loaded[r] \cup {g}
          /\ grown[g] = disk[g]
          /\ \A z \in DOMAIN loaded[r] \ {g} : grown[z] = loaded[r][z]
      BY DEF Extended
    <3>b. loaded'[r] = grown /\ f \in DOMAIN grown
      BY <3>2
    <3> HIDE DEF grown
    <3>3. /\ f \in DOMAIN loaded[r] \cup {g}
          /\ loaded'[r][g] = disk[g]
          /\ f # g => loaded'[r][f] = loaded[r][f]
      BY <3>a, <3>b
    <3>4. CASE f = g
      BY <3>1, <3>2, <3>3, <3>4, RuntimeAssumption DEF Version
    <3>5. CASE f # g
      BY <3>2, <3>3, <3>5 DEF LoadedInOrder
    <3> QED
      BY <3>4, <3>5
  <2>2. CASE t # r
    BY <1>1, <1>3, <2>2 DEF ReadFile, TypeOK
  <2> QED
    BY <2>1, <2>2
<1>4. ASSUME NEW t \in Refreshers,
             LoadFails(t) \/ LoadRaises(t) \/ Conclude(t) \/ Record(t)
                \/ \E s \in Sources, status \in Statuses : Inspect(t, s, status)
      PROVE  begun'[r][f] <= loaded'[r][f] /\ loaded'[r][f] <= disk'[f]
  BY <1>1, <1>4 DEF LoadFails, LoadRaises, Conclude, Record, Inspect
<1>5. ASSUME NEW q \in Queries, Bind(q) \/ ProbeFor(q)
      PROVE  begun'[r][f] <= loaded'[r][f] /\ loaded'[r][f] <= disk'[f]
  BY <1>1, <1>5 DEF Bind, ProbeFor, refresh_vars
<1>6. ASSUME NEW g \in Files, Edit(g)
      PROVE  begun'[r][f] <= loaded'[r][f] /\ loaded'[r][f] <= disk'[f]
  BY <1>1, <1>6 DEF Edit, refresh_vars
<1>7. CASE UNCHANGED vars
  BY <1>1, <1>7 DEF vars, refresh_vars
<1> QED
  BY <1>2, <1>3, <1>4, <1>5, <1>6, <1>7 DEF Next, Advance

LEMMA ServedInit == Init => ServedInv /\ QueryUsesOneSnapshot
BY DEF Init, ServedInv, QueryUsesOneSnapshot

LEMMA ServedStep ==
    TypeOK /\ LoadedInOrder /\ BegunBefore /\ ServedInv /\ TypeOK' /\ [Next]_vars => ServedInv'
<1> SUFFICES ASSUME TypeOK, LoadedInOrder, BegunBefore, ServedInv, TypeOK', [Next]_vars
             PROVE  ServedInv'
  OBVIOUS
<1>0. /\ disk \in Contents /\ disk' \in Contents
      /\ \A f \in Files : disk[f] <= disk'[f]
  BY DiskGrows DEF TypeOK
<1>1. \A c \in Evaluation : Served(c, disk) => Served(c, disk')
  BY <1>0, ServedLater
<1>2. /\ active # None => active \in Evaluation /\ Served(active, disk')
      /\ \A q \in Queries : snapshot[q] # None =>
            snapshot[q] \in Evaluation /\ Served(snapshot[q], disk')
  BY <1>1 DEF TypeOK, ServedInv
<1>3. ASSUME UNCHANGED <<active, snapshot>> PROVE ServedInv'
  BY <1>2, <1>3 DEF ServedInv
<1>4. ASSUME NEW r \in Refreshers, Conclude(r) PROVE ServedInv'
  <2>1. DOMAIN loaded[r] = Files /\ Complete(Candidate(r))
    BY <1>4 DEF Conclude
  <2>2. /\ Candidate(r) \in Evaluation
        /\ IsActivatable(Candidate(r)) => Served(Candidate(r), disk')
    BY <1>1, <2>1, CandidateServed
  <2>3. active' # None => Served(active', disk')
    BY <1>2, <1>4, <2>2 DEF Conclude, Swaps
  <2>4. snapshot' = snapshot
    BY <1>4 DEF Conclude, query_vars
  <2> QED
    BY <1>2, <2>3, <2>4 DEF ServedInv
<1>5. ASSUME NEW q \in Queries, Bind(q) PROVE ServedInv'
  <2>1. active' = active /\ active # None /\ snapshot' = [snapshot EXCEPT ![q] = active]
    BY <1>5 DEF Bind
  <2> QED
    BY <1>2, <2>1 DEF ServedInv, TypeOK
<1>6. ASSUME NEW q \in Queries, ProbeFor(q) PROVE ServedInv'
  BY <1>3, <1>6 DEF ProbeFor
<1>7. ASSUME NEW r \in Refreshers,
             Begin(r) \/ LoadFails(r) \/ LoadRaises(r) \/ Record(r)
                \/ (\E f \in Files : ReadFile(r, f))
                \/ (\E s \in Sources, status \in Statuses : Inspect(r, s, status))
      PROVE  ServedInv'
  BY <1>3, <1>7 DEF Begin, LoadFails, LoadRaises, Record, ReadFile, Inspect, query_vars
<1>8. ASSUME NEW f \in Files, Edit(f) PROVE ServedInv'
  BY <1>3, <1>8 DEF Edit, query_vars
<1>9. CASE UNCHANGED vars
  BY <1>3, <1>9 DEF vars, query_vars
<1> QED
  BY <1>4, <1>5, <1>6, <1>7, <1>8, <1>9 DEF Next, Advance

LEMMA UsedStep == TypeOK /\ QueryUsesOneSnapshot /\ [Next]_vars => QueryUsesOneSnapshot'
<1> SUFFICES ASSUME TypeOK, QueryUsesOneSnapshot, [Next]_vars PROVE QueryUsesOneSnapshot'
  OBVIOUS
<1>1. ASSUME NEW q \in Queries, Bind(q) PROVE QueryUsesOneSnapshot'
  BY <1>1 DEF Bind, TypeOK, QueryUsesOneSnapshot
<1>2. ASSUME NEW q \in Queries, ProbeFor(q) PROVE QueryUsesOneSnapshot'
  BY <1>2 DEF ProbeFor, BatchCatalog, TypeOK, QueryUsesOneSnapshot
<1>3. ASSUME NEW r \in Refreshers, Begin(r) \/ Advance(r) PROVE UNCHANGED query_vars
  BY <1>3 DEF Begin, Advance, ReadFile, LoadFails, LoadRaises, Inspect, Conclude, Record
<1>4. ASSUME NEW f \in Files, Edit(f) PROVE UNCHANGED query_vars
  BY <1>4 DEF Edit
<1>5. ASSUME UNCHANGED query_vars PROVE QueryUsesOneSnapshot'
  BY <1>5 DEF query_vars, QueryUsesOneSnapshot
<1>6. CASE UNCHANGED vars
  BY <1>5, <1>6 DEF vars
<1> QED
  BY <1>1, <1>2, <1>3, <1>4, <1>5, <1>6 DEF Next

-----------------------------------------------------------------------------
(* The theorems.                                                           *)

LEMMA Inductive == Spec => []IInv
<1>1. Init => IInv
  BY TypeInit, LoadedInit, BegunInit, ServedInit DEF IInv
<1>2. IInv /\ [Next]_vars => IInv'
  BY TypeStep, LoadedStep, BegunStep, ServedStep, UsedStep DEF IInv
<1> QED
  BY <1>1, <1>2, PTL DEF Spec

\* The variables of refreshes and queries keep the types of the code's
\* attributes and results (InMemoryCatalogRuntime, CatalogRefreshResult).
THEOREM TypeCorrect == Spec => []TypeOK
BY Inductive, PTL DEF IInv

\* Only a catalog all of whose sources validated, read from files that were on
\* disk after its refresh began, is ever active or bound to a query.
THEOREM ServedIsValidated == Spec => []ServedCatalogIsValidated
<1>1. IInv => ServedCatalogIsValidated
  BY DEF IInv, ServedInv, Served, ServedCatalogIsValidated
<1> QED
  BY <1>1, Inductive, PTL

\* Every plan of a query, each probing batch of a join included, is made from
\* the snapshot the query was bound to.
THEOREM OneSnapshotPerQuery == Spec => []QueryUsesOneSnapshot
BY Inductive, PTL DEF IInv

\* The active catalog changes only when a refresh activates a candidate and
\* reports that very candidate.
THEOREM FailureKeepsActive == Spec => FailedRefreshKeepsActive
<1> DEFINE Activation == \E r \in Refreshers :
                            /\ pc[r] = "loading" /\ pc'[r] = "recording"
                            /\ result'[r].status = "activated"
                            /\ result'[r].active = active'
<1>1. TypeOK /\ [Next]_vars => (active' # active => Activation)
  <2> SUFFICES ASSUME TypeOK, [Next]_vars, active' # active PROVE Activation
    OBVIOUS
  <2>1. ASSUME NEW r \in Refreshers, Conclude(r) PROVE Activation
    <3>1. IsActivatable(Candidate(r)) /\ active' = Candidate(r)
      BY <2>1 DEF Conclude, Swaps
    <3>2. result'[r] = [status |-> "activated", active |-> Candidate(r)]
      BY <2>1, <3>1 DEF Conclude, TypeOK
    <3>3. pc[r] = "loading" /\ pc'[r] = "recording"
      BY <2>1 DEF Conclude, TypeOK
    <3> QED
      BY <3>1, <3>2, <3>3
  <2>2. ASSUME NEW r \in Refreshers,
               Begin(r) \/ LoadFails(r) \/ LoadRaises(r) \/ Record(r)
                  \/ (\E f \in Files : ReadFile(r, f))
                  \/ (\E s \in Sources, status \in Statuses : Inspect(r, s, status))
        PROVE  FALSE
    BY <2>2 DEF Begin, LoadFails, LoadRaises, Record, ReadFile, Inspect
  <2>3. ASSUME NEW q \in Queries, Bind(q) \/ ProbeFor(q) PROVE FALSE
    BY <2>3 DEF Bind, ProbeFor
  <2>4. ASSUME NEW f \in Files, Edit(f) PROVE FALSE
    BY <2>4 DEF Edit
  <2>5. CASE UNCHANGED vars
    BY <2>5 DEF vars
  <2> QED
    BY <2>1, <2>2, <2>3, <2>4, <2>5 DEF Next, Advance
<1>2. Spec => []TypeOK
  BY TypeCorrect
<1> QED
  BY <1>1, <1>2, PTL DEF Spec, FailedRefreshKeepsActive
-----------------------------------------------------------------------------
(* The reports, while refreshes do not overlap.                            *)

\* A result about to be recorded names the catalog that is active by then; so
\* does the latest one recorded, when no other is about to be.
ReportInv ==
    /\ \A r \in Refreshers : pc[r] = "recording" => result[r].active = active
    /\ (\A r \in Refreshers : pc[r] # "recording") /\ last_attempt # None =>
           last_attempt.active = active

LEMMA ReportStep == TypeOK /\ OneAtATime /\ ReportInv /\ [Next]_vars => ReportInv'
<1> SUFFICES ASSUME TypeOK, OneAtATime, ReportInv, [Next]_vars PROVE ReportInv'
  OBVIOUS
<1>1. ASSUME UNCHANGED <<result, active, last_attempt>>,
             \A r \in Refreshers : pc'[r] = "recording" <=> pc[r] = "recording"
      PROVE  ReportInv'
  BY <1>1 DEF ReportInv
<1>2. ASSUME NEW r \in Refreshers, pc[r] = "loading" PROVE \A t \in Refreshers : pc[t] # "recording"
  BY <1>2 DEF OneAtATime, Resting
<1>3. ASSUME NEW r \in Refreshers,
             Begin(r) \/ LoadRaises(r) \/ (\E f \in Files : ReadFile(r, f))
                \/ (\E s \in Sources, status \in Statuses : Inspect(r, s, status))
      PROVE  ReportInv'
  <2>1. UNCHANGED <<result, active, last_attempt>>
    BY <1>3 DEF Begin, LoadRaises, ReadFile, Inspect
  <2>2. \A t \in Refreshers : pc'[t] = "recording" <=> pc[t] = "recording"
    BY <1>3 DEF Begin, LoadRaises, ReadFile, Inspect, TypeOK
  <2> QED
    BY <1>1, <2>1, <2>2
<1>4. ASSUME NEW r \in Refreshers, LoadFails(r) PROVE ReportInv'
  <2>1. \A t \in Refreshers : pc'[t] = "recording" <=> t = r
    BY <1>2, <1>4 DEF LoadFails, TypeOK
  <2>2. result'[r].active = active' /\ active' = active
    BY <1>4 DEF LoadFails, TypeOK
  <2> QED
    BY <2>1, <2>2 DEF ReportInv
<1>5. ASSUME NEW r \in Refreshers, Conclude(r) PROVE ReportInv'
  <2>1. \A t \in Refreshers : pc'[t] = "recording" <=> t = r
    BY <1>2, <1>5 DEF Conclude, TypeOK
  <2>2. result'[r].active = active'
    BY <1>5 DEF Conclude, Swaps, Retained, TypeOK
  <2> QED
    BY <2>1, <2>2 DEF ReportInv
<1>6. ASSUME NEW r \in Refreshers, Record(r) PROVE ReportInv'
  <2>1. \A t \in Refreshers : t # r => pc[t] = "idle"
    BY <1>6 DEF Record, OneAtATime, Resting
  <2>2. \A t \in Refreshers : pc'[t] # "recording"
    BY <1>6, <2>1 DEF Record, TypeOK
  <2>3. last_attempt' = result[r] /\ active' = active /\ result[r].active = active
    BY <1>6 DEF Record, ReportInv
  <2> QED
    BY <2>2, <2>3 DEF ReportInv
<1>7. ASSUME NEW q \in Queries, Bind(q) \/ ProbeFor(q) PROVE ReportInv'
  BY <1>1, <1>7 DEF Bind, ProbeFor, refresh_vars
<1>8. ASSUME NEW f \in Files, Edit(f) PROVE ReportInv'
  BY <1>1, <1>8 DEF Edit, refresh_vars
<1>9. CASE UNCHANGED vars
  BY <1>1, <1>9 DEF vars, refresh_vars
<1> QED
  BY <1>3, <1>4, <1>5, <1>6, <1>7, <1>8, <1>9 DEF Next, Advance

\* While no two refreshes overlap, the two steps in which a catalog is swapped
\* and its result recorded do no harm: between refreshes the latest recorded
\* result names the active catalog.
THEOREM ReportsMatch == Spec => ReportMatchesActive
<1>1. Init => ReportInv
  BY DEF Init, ReportInv
<1>2. TypeOK /\ OneAtATime /\ ReportInv /\ [Next]_vars => ReportInv'
  BY ReportStep
<1>3. ReportInv => ((\A r \in Refreshers : Resting(r)) /\ last_attempt # None =>
                        last_attempt.active = active)
  BY DEF ReportInv, Resting
<1>4. Spec => []TypeOK
  BY TypeCorrect
<1> QED
  BY <1>1, <1>2, <1>3, <1>4, PTL DEF Spec, ReportMatchesActive
=============================================================================
