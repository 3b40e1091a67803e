--------------------------- MODULE WriteOnceStore ---------------------------
(***************************************************************************)
(* What a blob store promises to the Relay, with no files, no directory    *)
(* entries and no concurrent writers in sight: a map from ObjectIds to     *)
(* representations in which an id is written at most once, and from which  *)
(* a failure may take away only what was never promised.                   *)
(***************************************************************************)

CONSTANTS
    Ids,        \* ObjectIds
    Reps,       \* canonical representations of candidate objects
    Absent      \* the value of an id that has no blob

VARIABLES
    content,    \* [Ids -> Reps \cup {Absent}]
    promised    \* set of <<id, representation>> the store vouches for

vars == <<content, promised>>

Init ==
    /\ content = [i \in Ids |-> Absent]
    /\ promised = {}

\* An id that has no representation gets one.
Write(i, r) ==
    /\ content[i] = Absent
    /\ content' = [content EXCEPT ![i] = r]
    /\ UNCHANGED promised

\* The store vouches for a representation it holds.
Promise(i, r) ==
    /\ content[i] = r
    /\ promised' = promised \cup {<<i, r>>}
    /\ UNCHANGED content

\* A failure of the machine forgets representations nobody was promised.
Forget(lost) ==
    /\ \A i \in lost : \A r \in Reps : <<i, r>> \notin promised
    /\ content' = [i \in Ids |-> IF i \in lost THEN Absent ELSE content[i]]
    /\ UNCHANGED promised

Next ==
    \/ \E i \in Ids, r \in Reps : Write(i, r) \/ Promise(i, r)
    \/ \E lost \in SUBSET Ids : Forget(lost)

Spec == Init /\ [][Next]_vars
=============================================================================
