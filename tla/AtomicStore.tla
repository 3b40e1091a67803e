----------------------------- MODULE AtomicStore ----------------------------
(***************************************************************************)
(* What a page or an export promises whoever else writes: the call takes   *)
(* effect at one instant between its start and its end.  Its answer is     *)
(* computed there, in one piece, from the database of that instant; a call *)
(* may fail, and then changes nothing.  Writers change the database        *)
(* revision by revision.  SqliteStore implements this with transactions.   *)
(***************************************************************************)
EXTENDS StoreAnswers

CONSTANTS Clients, Requests, NoAnswer

VARIABLES db, decided, answer

vars == <<db, decided, answer>>

-----------------------------------------------------------------------------
Init ==
    /\ db.revision = 0 /\ db.objects = NoRows /\ db.coverage = NoRows
    /\ decided = [c \in Clients |-> NoAnswer]
    /\ answer = [c \in Clients |-> NoAnswer]

(* A commit: the next revision, with no coverage but its own. *)
CommitRevision ==
    /\ db'.revision = db.revision + 1
    /\ \A s \in DOMAIN db'.coverage : db'.coverage[s].revision = db'.revision
    /\ UNCHANGED <<decided, answer>>

(* A declaration for some revision there has been. *)
DeclareCoverage ==
    \E scope \in Scopes, complete \in BOOLEAN, revision \in 0 .. db.revision :
        /\ db' = [db EXCEPT !.coverage =
                     [s \in DOMAIN db.coverage \cup {scope} |->
                         IF s = scope THEN [complete |-> complete, revision |-> revision]
                         ELSE db.coverage[s]]]
        /\ UNCHANGED <<decided, answer>>

(* The instant a call takes effect. *)
Decide(c, r) ==
    /\ decided[c] = NoAnswer
    /\ decided' = [decided EXCEPT ![c] = AnswerOf(r, db)]
    /\ answer' = [answer EXCEPT ![c] = NoAnswer]
    /\ UNCHANGED db

Deliver(c) ==
    /\ decided[c] # NoAnswer
    /\ answer' = [answer EXCEPT ![c] = decided[c]]
    /\ decided' = [decided EXCEPT ![c] = NoAnswer]
    /\ UNCHANGED db

(* A call that fails, or one of another kind. *)
GiveUp(c) ==
    /\ answer' = [answer EXCEPT ![c] = NoAnswer]
    /\ decided' = [decided EXCEPT ![c] = NoAnswer]
    /\ UNCHANGED db

Next ==
    \/ CommitRevision
    \/ DeclareCoverage
    \/ \E c \in Clients : (\E r \in Requests : Decide(c, r)) \/ Deliver(c) \/ GiveUp(c)

Spec == Init /\ [][Next]_vars
=============================================================================
