------------------------ MODULE SqliteStoreAtomicity ------------------------
(***************************************************************************)
(* SqliteStore implements AtomicStore: a page or an export takes effect    *)
(* when its first statement fixes the snapshot, although its objects and   *)
(* its coverage are read later, between other processes' writes.           *)
(***************************************************************************)
EXTENDS SqliteStore, StoreAnswers

NoAnswer == [call |-> NoCall]

Decided(c) == IF view[c] = NoView THEN NoAnswer ELSE AnswerOf(call[c], view[c])

Delivered(c) ==
    IF Answered(c, "page") \/ Answered(c, "exportSnapshot") THEN reply[c] ELSE NoAnswer

Atomic == INSTANCE AtomicStore WITH
              Clients <- Readers,
              Requests <- {r \in Reads : r.op \in {"page", "exportSnapshot"}},
              decided <- [c \in Readers |-> Decided(c)],
              answer <- [c \in Readers |-> Delivered(c)]

(* Pages and exports are linearizable: whatever the interleaving of their   *)
(* statements with other connections, each answer is the one function       *)
(* AnswerOf of the database of one instant of the call.                     *)
ImplementsAtomicStore == Atomic!Spec
=============================================================================
