------------------------------ MODULE MCRelay ------------------------------
(***************************************************************************)
(* Relay for TLC: one capability that grants the first object and, in one  *)
(* instance, every object whose payload names context x, as r1 does.       *)
(***************************************************************************)
EXTENDS Relay, TLC

CONSTANTS i1, r1, r2, x

MCContextOf == [rep \in Reps |-> IF rep = r1 THEN x ELSE Absent]
MCScopes == [c \in Capabilities |-> {[kind |-> "object", of |-> i1], [kind |-> "context", of |-> x]}]

MCObjectScopes == [c \in Capabilities |-> {[kind |-> "object", of |-> i1]}]

\* Every archive; or two: a blob per id, which may conflict with what is
\* published, and none.
AllArchives == [Ids -> Reps \cup {Absent}]
TwoArchives == {[i \in Ids |-> IF i = i1 THEN r2 ELSE r1], [i \in Ids |-> Absent]}

Symmetry == Permutations(Requests)

\* The history of the blob store, which no action and no property here reads, does
\* not tell states apart.
WithoutStored == <<dir, durable, call, relayVars>>
=============================================================================
