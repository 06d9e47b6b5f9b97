------------------------------- MODULE Answer -------------------------------
(***************************************************************************)
(* What whoever asks is promised of an assembly, without a word on how the *)
(* sources are read (module Assembly implements it): other programs write, *)
(* and at some moment the answer is there, all of it at once and for good, *)
(* or the query fails without one.                                         *)
(*                                                                         *)
(* No moment is promised at which the sources were as the answer has them: *)
(* each part of it was true at some moment while the query ran.            *)
(***************************************************************************)
CONSTANTS
    Ids,            \* logical IDs
    Rows,           \* what a source may hold under an ID,
    Absent,         \*   among it nothing
    Sources,        \* the sources of the query
    Narrowing,      \* those that a record must be in
    Fields,         \* those whose rows make up a record
    Few,            \* the sets of IDs a shortlist may keep; none without one
    NoRecord        \* "the answer holds no record for the ID"

VARIABLES
    db,             \* db[s][i]: the row source s holds for ID i now, if any
    was,            \* was[s][i]: every row s has held for i since the start
    outcome,        \* "running", "answered" or "failed"
    answer          \* answer[i]: the record returned for i, or NoRecord

answer_vars == <<db, was, outcome, answer>>

Held(i) == {s \in Sources : Absent \notin was[s][i]}

\* A record that may be returned for ID i: each part was its source's row, and
\* a source that is merely asked for more may have had none.
Truthful(record, i) ==
    /\ record \in [Fields -> Rows]
    /\ \A s \in Fields : record[s] \in was[s][i]
    /\ \A s \in Fields \cap Narrowing : record[s] # Absent
    /\ \A s \in Narrowing : was[s][i] # {Absent}

\* Answers with a record for each ID of R and for no other.
Returns(R, a) == /\ DOMAIN a = Ids
                 /\ \A i \in R : Truthful(a[i], i)
                 /\ \A i \in Ids \ R : a[i] = NoRecord

\* The answer: no ID that every narrowing source held throughout is left out,
\* unless only the nearest ones were asked for.
Give ==
    /\ outcome = "running"
    /\ outcome' = "answered"
    /\ \E R \in SUBSET Ids :
          /\ Returns(R, answer')
          /\ \/ {i \in Ids : Narrowing \subseteq Held(i)} \subseteq R
             \/ R \in Few
    /\ UNCHANGED <<db, was>>

Refuse ==
    /\ outcome = "running"
    /\ outcome' = "failed"
    /\ UNCHANGED <<db, was, answer>>

Write(s, i, v) ==
    /\ outcome = "running"
    /\ db' = [db EXCEPT ![s][i] = v]
    /\ was' = [was EXCEPT ![s][i] = @ \cup {v}]
    /\ UNCHANGED <<outcome, answer>>

Init ==
    /\ db \in [Sources -> [Ids -> Rows]]
    /\ was = [s \in Sources |-> [i \in Ids |-> {db[s][i]}]]
    /\ outcome = "running"
    /\ answer = [i \in Ids |-> NoRecord]

Next == Give \/ Refuse \/ \E s \in Sources, i \in Ids, v \in Rows : Write(s, i, v)

Spec == Init /\ [][Next]_answer_vars
=============================================================================
