---------------------------- MODULE Capabilities ----------------------------
(***************************************************************************)
(* Bearer capabilities: the SQLite table that admin processes issue into   *)
(* and revoke from while the server verifies against it, and the policy    *)
(* that admits a publication afterwards.                                   *)
(*                                                                         *)
(* A call reads the clock first and runs its one statement later (it may   *)
(* wait for the database lock); the policy is awaited between verification *)
(* and admission.  A token is an id and a secret; the HMAC of the two is   *)
(* injective and is represented by the secret itself.                      *)
(***************************************************************************)
EXTENDS Integers, FiniteSets

CONSTANTS
    Admins,         \* admin processes
    Requests,       \* publications the server handles at the same time
    TokenIds,       \* ids a random generator may draw
    Secrets,        \* and secrets
    ScopeLists,     \* scope sets operators issue; the empty one is refused
    Expiries,       \* expiry times, in seconds, operators ask for
    Candidates,     \* [object, context] pairs clients publish; context may be None
    Second,         \* clock ticks per second
    MaxTime,        \* bound of the model: the clock stops there
    None

ASSUME ClockHasTicks == Second \in Nat \ {0} /\ MaxTime \in Nat /\ Expiries \subseteq Nat
ASSUME NoneIsNoToken == None \notin TokenIds /\ None \notin Int

VARIABLES
    clock,          \* the time, in ticks
    rows,           \* relay_capabilities: token id -> row, or None
    command,        \* per admin process: the call that waits for its statement
    request,        \* per publication: what verifyBearer returned, or None
    admitted,       \* history: the last publication the policy admitted, or None
    wins            \* history: revoke calls that answered true, per token

vars == <<clock, rows, command, request, admitted, wins>>

Idle == [op |-> "none"]
Tokens == [id : TokenIds, secret : Secrets]

(* #nowSeconds: the clock, floored *)
nowSeconds == clock \div Second

Init ==
    /\ clock = 0
    /\ rows = [id \in TokenIds |-> None]
    /\ command = [a \in Admins |-> Idle]
    /\ request = [q \in Requests |-> None]
    /\ admitted = None
    /\ wins = [id \in TokenIds |-> 0]

Tick ==
    /\ clock < MaxTime
    /\ clock' = clock + 1
    /\ UNCHANGED <<rows, command, request, admitted, wins>>

-----------------------------------------------------------------------------
(* Variant: an empty list of scopes is accepted. *)
IssuableUnscoped(scopes, expiresAt) == expiresAt > nowSeconds

(* normalizeScopes, normalizeExpiry *)
Issuable(scopes, expiresAt) == scopes # {} /\ expiresAt > nowSeconds

(* create up to its INSERT; a request it refuses changes nothing. *)
Issue(a, scopes, expiresAt) ==
    /\ command[a] = Idle
    /\ Issuable(scopes, expiresAt)
    /\ command' = [command EXCEPT ![a] =
          [op |-> "insert", scopes |-> scopes, expiresAt |-> expiresAt, issuedAt |-> nowSeconds]]
    /\ UNCHANGED <<clock, rows, request, admitted, wins>>

(* The INSERT; a token id that is taken violates the primary key. *)
Insert(a, token) ==
    /\ command[a].op = "insert"
    /\ rows[token.id] = None
    /\ rows' = [rows EXCEPT ![token.id] =
          [secret |-> token.secret, scopes |-> command[a].scopes, issuedAt |-> command[a].issuedAt,
           expiresAt |-> command[a].expiresAt, revokedAt |-> None]]
    /\ command' = [command EXCEPT ![a] = Idle]
    /\ UNCHANGED <<clock, request, admitted, wins>>

(* revoke up to its UPDATE. *)
Revoke(a, id) ==
    /\ command[a] = Idle
    /\ command' = [command EXCEPT ![a] = [op |-> "update", id |-> id, at |-> nowSeconds]]
    /\ UNCHANGED <<clock, rows, request, admitted, wins>>

(* Variant: UPDATE ... WHERE token_id = ?, without revoked_at IS NULL. *)
UpdateAlways(a) ==
    LET id == command[a].id IN
    /\ command[a].op = "update"
    /\ rows[id] # None
    /\ rows' = [rows EXCEPT ![id].revokedAt = command[a].at]
    /\ wins' = [wins EXCEPT ![id] = @ + 1]
    /\ command' = [command EXCEPT ![a] = Idle]
    /\ UNCHANGED <<clock, request, admitted>>

Revocable(id) == rows[id] # None /\ rows[id].revokedAt = None

(* UPDATE ... WHERE token_id = ? AND revoked_at IS NULL; true when it       *)
(* changed a row.                                                           *)
Update(a) ==
    /\ command[a].op = "update"
    /\ LET id == command[a].id IN
          \/ /\ Revocable(id)
             /\ rows' = [rows EXCEPT ![id].revokedAt = command[a].at]
             /\ wins' = [wins EXCEPT ![id] = @ + 1]
          \/ /\ ~Revocable(id)
             /\ UNCHANGED <<rows, wins>>
    /\ command' = [command EXCEPT ![a] = Idle]
    /\ UNCHANGED <<clock, request, admitted>>

(* The statement fails, or the process dies before it. *)
CommandFails(a) ==
    /\ command[a] # Idle
    /\ command' = [command EXCEPT ![a] = Idle]
    /\ UNCHANGED <<clock, rows, request, admitted, wins>>

-----------------------------------------------------------------------------
(* Variant: the second of the expiry is still good. *)
UsableInclusive(token) ==
    /\ rows[token.id] # None
    /\ rows[token.id].secret = token.secret
    /\ rows[token.id].revokedAt = None
    /\ rows[token.id].expiresAt >= nowSeconds

(* Variant: revoked_at is not looked at. *)
UsableRevoked(token) ==
    /\ rows[token.id] # None
    /\ rows[token.id].secret = token.secret
    /\ rows[token.id].expiresAt > nowSeconds

(* What verifyBearer demands of a well-formed token. *)
Usable(token) ==
    /\ rows[token.id] # None
    /\ rows[token.id].secret = token.secret
    /\ rows[token.id].revokedAt = None
    /\ rows[token.id].expiresAt > nowSeconds

(* verifyBearer in publish; a 401 changes nothing.  It is one synchronous   *)
(* call that reads the row and then the clock: what it accepts was usable   *)
(* when the row was read, and a second that ends in between can only turn   *)
(* an acceptance into a 401.                                                *)
VerifyBearer(q, token, candidate) ==
    /\ request[q] = None
    /\ Usable(token)
    /\ request' = [request EXCEPT ![q] =
          [token |-> token, scopes |-> rows[token.id].scopes, candidate |-> candidate, at |-> clock]]
    /\ UNCHANGED <<clock, rows, command, admitted, wins>>

(* isCandidateScopeGranted *)
Granted(scopes, candidate) ==
    \E scope \in scopes :
        \/ scope.kind = "all"
        \/ scope.kind = "object" /\ scope.of = candidate.object
        \/ scope.kind = "context" /\ candidate.context # None /\ scope.of = candidate.context

(* admit returns; until then other requests and processes run. *)
Admit(q) ==
    /\ request[q] # None
    /\ Granted(request[q].scopes, request[q].candidate)
    /\ admitted' = [token |-> request[q].token, candidate |-> request[q].candidate, at |-> request[q].at]
    /\ request' = [request EXCEPT ![q] = None]
    /\ UNCHANGED <<clock, rows, command, wins>>

(* admit throws: no scope grants the candidate, or evaluate rejects it. *)
Reject(q) ==
    /\ request[q] # None
    /\ request' = [request EXCEPT ![q] = None]
    /\ UNCHANGED <<clock, rows, command, admitted, wins>>

Administer(a) ==
    \/ \E scopes \in ScopeLists, expiresAt \in Expiries : Issue(a, scopes, expiresAt)
    \/ \E token \in Tokens : Insert(a, token)
    \/ \E id \in TokenIds : Revoke(a, id)
    \/ Update(a)
    \/ CommandFails(a)

Publish(q) ==
    \/ \E token \in Tokens, candidate \in Candidates : VerifyBearer(q, token, candidate)
    \/ Admit(q)
    \/ Reject(q)

Next == Tick \/ (\E a \in Admins : Administer(a)) \/ (\E q \in Requests : Publish(q))

Spec == Init /\ [][Next]_vars

-----------------------------------------------------------------------------
Rows ==
    [secret : Secrets, scopes : ScopeLists \ {{}}, issuedAt : Nat, expiresAt : Expiries,
     revokedAt : Nat \cup {None}]
Commands ==
    {Idle} \cup [op : {"insert"}, scopes : ScopeLists \ {{}}, expiresAt : Expiries, issuedAt : Nat]
           \cup [op : {"update"}, id : TokenIds, at : Nat]
Verified == [token : Tokens, scopes : ScopeLists \ {{}}, candidate : Candidates, at : Nat]

ASSUME NoneIsNoRow == None \notin Rows

(* The shape of the state. *)
TypeOK ==
    /\ clock \in Nat
    /\ rows \in [TokenIds -> Rows \cup {None}]
    /\ command \in [Admins -> Commands]
    /\ request \in [Requests -> Verified \cup {None}]
    /\ admitted \in [token : Tokens, candidate : Candidates, at : Nat] \cup {None}
    /\ wins \in [TokenIds -> Nat]

(* Every admitted publication was made with an issued token, its secret and *)
(* a scope that token was issued with, and was verified strictly before the *)
(* expiry on the unrounded clock, however long the policy took and whatever *)
(* was issued and revoked meanwhile.  (verifyBearer, LocalPublicationPolicy *)
(* .admit)                                                                  *)
AdmissionsWereAuthorized ==
    admitted # None =>
        LET row == rows[admitted.token.id] IN
        /\ row # None
        /\ row.secret = admitted.token.secret
        /\ Granted(row.scopes, admitted.candidate)
        /\ admitted.at < row.expiresAt * Second

(* Of all revocations of a token, by whichever processes, exactly one is    *)
(* told that it revoked it, and the token is revoked from then on.          *)
(* (revoke: changes === 1)                                                  *)
OneRevocationWins ==
    \A id \in TokenIds :
        wins[id] = (IF rows[id] # None /\ rows[id].revokedAt # None THEN 1 ELSE 0)

(* Once a revoke call has answered true, no publication with that token     *)
(* gets past verification, and no row changes but by its one revocation.    *)
(* (verifyBearer, create, revoke)                                           *)
RevocationIsFinal ==
    [][\A id \in TokenIds :
          /\ wins[id] > 0 =>
                \A q \in Requests :
                    request'[q] # request[q] /\ request'[q] # None => request'[q].token.id # id
          /\ rows[id] # None /\ rows'[id] # rows[id] =>
                rows[id].revokedAt = None /\ rows'[id] = [rows[id] EXCEPT !.revokedAt = rows'[id].revokedAt]]_vars
=============================================================================
