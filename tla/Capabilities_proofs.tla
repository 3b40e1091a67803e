------------------------- MODULE Capabilities_proofs -------------------------
(***************************************************************************)
(* Theorems about Capabilities, for every set of processes, tokens, scopes *)
(* and expiries: what is admitted was authorized, and a revocation is won  *)
(* once and is final.                                                      *)
(***************************************************************************)
EXTENDS Capabilities, TLAPS

-----------------------------------------------------------------------------
(* The inductive invariant. *)

\* What a request holds on to while the policy is awaited is still what its
\* token's row says, and it was verified before the expiry.
RequestsWereVerified ==
    \A q \in Requests : request[q] # None =>
        LET row == rows[request[q].token.id] IN
        /\ row # None
        /\ row.secret = request[q].token.secret
        /\ row.scopes = request[q].scopes
        /\ request[q].at < row.expiresAt * Second

CapInv == TypeOK /\ RequestsWereVerified /\ AdmissionsWereAuthorized /\ OneRevocationWins

-----------------------------------------------------------------------------
(* Helpers. *)

\* A time whose floor to seconds is below an expiry is below the expiry.
LEMMA FlooredBelow ==
    ASSUME NEW c \in Nat, NEW s \in Nat \ {0}, NEW e \in Nat, c \div s < e
    PROVE  c < e * s
<1> DEFINE q == c \div s
<1>1. c = s * q + (c % s) /\ c % s < s /\ q \in Int /\ c % s \in Int
  OBVIOUS
<1>2. q + 1 <= e
  BY <1>1
<1> HIDE DEF q
<1>3. s * (q + 1) <= s * e
  BY <1>1, <1>2
<1> QED
  BY <1>1, <1>3

LEMMA NowTyped == ASSUME TypeOK PROVE nowSeconds \in Nat
BY ClockHasTicks DEF TypeOK, nowSeconds

\* A token that is usable now has a row, and the clock is before its expiry.
LEMMA UsableIsBeforeExpiry ==
    ASSUME TypeOK, NEW token \in Tokens, Usable(token)
    PROVE  /\ rows[token.id] \in Rows /\ rows[token.id] # None
           /\ rows[token.id].secret = token.secret
           /\ rows[token.id].revokedAt = None
           /\ clock < rows[token.id].expiresAt * Second
<1>1. rows[token.id] \in Rows /\ token.id \in TokenIds
  BY DEF TypeOK, Usable, Tokens
<1>2. rows[token.id].expiresAt \in Nat /\ clock \in Nat /\ Second \in Nat \ {0}
  BY <1>1, ClockHasTicks DEF TypeOK, Rows
<1>3. clock \div Second < rows[token.id].expiresAt
  BY <1>2 DEF Usable, nowSeconds
<1> QED
  BY <1>1, <1>2, <1>3, FlooredBelow DEF Usable

-----------------------------------------------------------------------------
(* Types. *)

LEMMA TypeInit == Init => TypeOK
BY ClockHasTicks DEF Init, TypeOK, Commands

LEMMA AdministerTyped ==
    ASSUME TypeOK, NEW a \in Admins, Administer(a)
    PROVE  TypeOK'
<1> USE DEF TypeOK
<1>1. ASSUME NEW scopes \in ScopeLists, NEW expiresAt \in Expiries, Issue(a, scopes, expiresAt)
      PROVE  TypeOK'
  BY <1>1, NowTyped DEF Issue, Issuable, Commands
<1>2. ASSUME NEW token \in Tokens, Insert(a, token)
      PROVE  TypeOK'
  <2>1. command[a] \in [op : {"insert"}, scopes : ScopeLists \ {{}}, expiresAt : Expiries, issuedAt : Nat]
    BY <1>2 DEF Insert, Commands, Idle
  <2>2. [secret |-> token.secret, scopes |-> command[a].scopes, issuedAt |-> command[a].issuedAt,
         expiresAt |-> command[a].expiresAt, revokedAt |-> None] \in Rows
    BY <2>1 DEF Rows, Tokens
  <2>3. rows' \in [TokenIds -> Rows \cup {None}]
    BY <1>2, <2>2 DEF Insert
  <2> QED
    BY <1>2, <2>3 DEF Insert, Commands
<1>3. ASSUME NEW id \in TokenIds, Revoke(a, id)
      PROVE  TypeOK'
  BY <1>3, NowTyped DEF Revoke, Commands
<1>4. CASE Update(a)
  <2>1. command[a].id \in TokenIds /\ command[a].at \in Nat
    BY <1>4 DEF Update, Commands, Idle
  <2>2. rows' \in [TokenIds -> Rows \cup {None}] /\ wins' \in [TokenIds -> Nat]
    <3>1. CASE Revocable(command[a].id)
      <4>1. rows[command[a].id] \in Rows
        BY <2>1, <3>1 DEF Revocable
      <4>2. [rows[command[a].id] EXCEPT !.revokedAt = command[a].at] \in Rows
        BY <2>1, <4>1 DEF Rows
      <4> QED
        BY <1>4, <2>1, <3>1, <4>2 DEF Update
    <3>2. CASE ~Revocable(command[a].id)
      BY <1>4, <3>2 DEF Update
    <3> QED
      BY <3>1, <3>2
  <2> QED
    BY <1>4, <2>2 DEF Update, Commands
<1>5. CASE CommandFails(a)
  BY <1>5 DEF CommandFails, Commands
<1> QED
  BY <1>1, <1>2, <1>3, <1>4, <1>5 DEF Administer

LEMMA PublishTyped ==
    ASSUME TypeOK, NEW q \in Requests, Publish(q)
    PROVE  TypeOK'
<1> USE DEF TypeOK
<1>1. ASSUME NEW token \in Tokens, NEW candidate \in Candidates, VerifyBearer(q, token, candidate)
      PROVE  TypeOK'
  <2>1. rows[token.id] \in Rows
    BY <1>1, UsableIsBeforeExpiry DEF VerifyBearer
  <2>2. [token |-> token, scopes |-> rows[token.id].scopes, candidate |-> candidate, at |-> clock] \in Verified
    BY <2>1 DEF Rows, Verified
  <2> QED
    BY <1>1, <2>2 DEF VerifyBearer
<1>2. CASE Admit(q)
  BY <1>2 DEF Admit, Verified
<1>3. CASE Reject(q)
  BY <1>3 DEF Reject
<1> QED
  BY <1>1, <1>2, <1>3 DEF Publish

LEMMA TypeNext == ASSUME TypeOK, [Next]_vars PROVE TypeOK'
<1>1. CASE Tick
  BY <1>1 DEF Tick, TypeOK
<1>2. CASE UNCHANGED vars
  BY <1>2 DEF vars, TypeOK
<1> QED
  BY <1>1, <1>2, AdministerTyped, PublishTyped DEF Next

\* Every reachable state of the capability table, its admin calls and the
\* publications being verified is well typed.
THEOREM TypeCorrect == Spec => []TypeOK
<1>1. Init => TypeOK
  BY TypeInit
<1>2. TypeOK /\ [Next]_vars => TypeOK'
  BY TypeNext
<1> QED
  BY <1>1, <1>2, PTL DEF Spec

-----------------------------------------------------------------------------
(* Rows. *)

\* What a row may become: itself, or itself revoked for the first time.
RowContinues(row, next) ==
    \/ next = row
    \/ /\ row.revokedAt = None
       /\ next # None
       /\ next = [row EXCEPT !.revokedAt = next.revokedAt]

\* The one step that changes an issued row is its first revocation.
LEMMA RowsContinue ==
    ASSUME TypeOK, [Next]_vars, NEW id \in TokenIds, rows[id] # None
    PROVE  RowContinues(rows[id], rows'[id])
<1> USE DEF RowContinues
<1>1. ASSUME NEW a \in Admins, NEW token \in Tokens, Insert(a, token)
      PROVE  rows'[id] = rows[id]
  BY <1>1 DEF Insert, TypeOK, Tokens
<1>2. ASSUME NEW a \in Admins, Update(a)
      PROVE  RowContinues(rows[id], rows'[id])
  <2>1. CASE Revocable(command[a].id) /\ command[a].id = id
    <3>1. rows[id] \in Rows /\ rows[id].revokedAt = None
      BY <2>1 DEF TypeOK, Revocable
    <3>2. rows'[id] = [rows[id] EXCEPT !.revokedAt = command[a].at]
      BY <1>2, <2>1 DEF Update, TypeOK
    <3>3. command[a].at \in Nat
      BY <1>2 DEF Update, TypeOK, Commands, Idle
    <3>4. rows'[id] \in Rows /\ rows'[id].revokedAt = command[a].at
      BY <3>1, <3>2, <3>3 DEF Rows
    <3> QED
      BY <3>1, <3>2, <3>4, NoneIsNoRow
  <2>2. CASE ~(Revocable(command[a].id) /\ command[a].id = id)
    BY <1>2, <2>2 DEF Update, TypeOK
  <2> QED
    BY <2>1, <2>2
<1>3. CASE UNCHANGED rows
  BY <1>3
<1> QED
  BY <1>1, <1>2, <1>3
  DEF Next, vars, Tick, Administer, Publish, Issue, Revoke, CommandFails, VerifyBearer, Admit, Reject

\* Secret, scopes and expiry of an issued row never change.
LEMMA RowsKeepTheirTerms ==
    ASSUME TypeOK, [Next]_vars, NEW id \in TokenIds, rows[id] # None
    PROVE  /\ rows'[id] # None
           /\ rows'[id].secret = rows[id].secret
           /\ rows'[id].scopes = rows[id].scopes
           /\ rows'[id].expiresAt = rows[id].expiresAt
<1>1. rows[id] \in Rows
  BY DEF TypeOK
<1>2. RowContinues(rows[id], rows'[id])
  BY RowsContinue
<1> QED
  BY <1>1, <1>2 DEF RowContinues, Rows

-----------------------------------------------------------------------------
(* Requests and admissions. *)

LEMMA RequestsStayVerified ==
    ASSUME CapInv, [Next]_vars
    PROVE  RequestsWereVerified'
<1> SUFFICES ASSUME NEW q \in Requests, request'[q] # None
             PROVE  LET row == rows'[request'[q].token.id] IN
                    /\ row # None
                    /\ row.secret = request'[q].token.secret
                    /\ row.scopes = request'[q].scopes
                    /\ request'[q].at < row.expiresAt * Second
  BY DEF RequestsWereVerified
<1>1. CASE request'[q] = request[q]
  <2>1. request[q].token.id \in TokenIds
    BY <1>1 DEF CapInv, TypeOK, Verified, Tokens
  <2> QED
    BY <1>1, <2>1, RowsKeepTheirTerms DEF CapInv, RequestsWereVerified
<1>2. CASE request'[q] # request[q]
  <2>1. PICK token \in Tokens, candidate \in Candidates : VerifyBearer(q, token, candidate)
    BY <1>2 DEF CapInv, TypeOK, Next, vars, Tick, Administer, Publish, Issue, Insert, Revoke, Update,
                CommandFails, VerifyBearer, Admit, Reject
  <2>2. /\ rows[token.id].secret = token.secret
        /\ rows[token.id] # None
        /\ clock < rows[token.id].expiresAt * Second
    BY <2>1, UsableIsBeforeExpiry DEF CapInv, VerifyBearer
  <2>3. /\ rows' = rows
        /\ request'[q] = [token |-> token, scopes |-> rows[token.id].scopes,
                          candidate |-> candidate, at |-> clock]
    BY <2>1 DEF VerifyBearer, CapInv, TypeOK
  <2> QED
    BY <2>2, <2>3
<1> QED
  BY <1>1, <1>2

LEMMA AdmissionsStayAuthorized ==
    ASSUME CapInv, [Next]_vars
    PROVE  AdmissionsWereAuthorized'
<1>1. CASE admitted' = admitted
  <2>1. admitted # None => admitted.token.id \in TokenIds
    BY DEF CapInv, TypeOK, Tokens
  <2> QED
    BY <1>1, <2>1, RowsKeepTheirTerms DEF CapInv, AdmissionsWereAuthorized, Granted
<1>2. CASE admitted' # admitted
  <2>1. PICK q \in Requests : Admit(q)
    BY <1>2 DEF Next, vars, Tick, Administer, Publish, Issue, Insert, Revoke, Update,
                CommandFails, VerifyBearer, Reject
  <2>2. /\ rows' = rows
        /\ admitted'.token = request[q].token
        /\ admitted'.candidate = request[q].candidate
        /\ admitted'.at = request[q].at
    BY <2>1 DEF Admit
  <2>3. LET row == rows[request[q].token.id] IN
        /\ row # None
        /\ row.secret = request[q].token.secret
        /\ row.scopes = request[q].scopes
        /\ request[q].at < row.expiresAt * Second
    BY <2>1 DEF Admit, CapInv, RequestsWereVerified
  <2>4. Granted(request[q].scopes, request[q].candidate)
    BY <2>1 DEF Admit
  <2> QED
    BY <2>2, <2>3, <2>4 DEF AdmissionsWereAuthorized
<1> QED
  BY <1>1, <1>2

-----------------------------------------------------------------------------
(* Revocations. *)

LEMMA OneRevocationStaysTheWinner ==
    ASSUME CapInv, [Next]_vars
    PROVE  OneRevocationWins'
<1> SUFFICES ASSUME NEW id \in TokenIds
             PROVE  wins'[id] = (IF rows'[id] # None /\ rows'[id].revokedAt # None THEN 1 ELSE 0)
  BY DEF OneRevocationWins
<1>0. wins[id] = (IF rows[id] # None /\ rows[id].revokedAt # None THEN 1 ELSE 0)
  BY DEF CapInv, OneRevocationWins
<1>1. ASSUME NEW a \in Admins, NEW token \in Tokens, Insert(a, token)
      PROVE  wins'[id] = (IF rows'[id] # None /\ rows'[id].revokedAt # None THEN 1 ELSE 0)
  <2>1. CASE id = token.id
    <3>1. rows[id] = None /\ rows'[id].revokedAt = None /\ wins' = wins
      BY <1>1, <2>1 DEF Insert, CapInv, TypeOK
    <3> QED
      BY <1>0, <3>1
  <2>2. CASE id # token.id
    BY <1>0, <1>1, <2>2 DEF Insert, CapInv, TypeOK
  <2> QED
    BY <2>1, <2>2
<1>2. ASSUME NEW a \in Admins, Update(a)
      PROVE  wins'[id] = (IF rows'[id] # None /\ rows'[id].revokedAt # None THEN 1 ELSE 0)
  <2>1. CASE Revocable(command[a].id) /\ command[a].id = id
    <3>1. rows[id] \in Rows /\ rows[id].revokedAt = None
      BY <2>1 DEF CapInv, TypeOK, Revocable
    <3>2. rows'[id] = [rows[id] EXCEPT !.revokedAt = command[a].at] /\ wins'[id] = wins[id] + 1
      BY <1>2, <2>1 DEF Update, CapInv, TypeOK
    <3>3. command[a].at \in Nat
      BY <1>2 DEF Update, CapInv, TypeOK, Commands, Idle
    <3>4. rows'[id] \in Rows /\ rows'[id].revokedAt = command[a].at
      BY <3>1, <3>2, <3>3 DEF Rows
    <3> QED
      BY <1>0, <3>1, <3>2, <3>3, <3>4, NoneIsNoRow, NoneIsNoToken
  <2>2. CASE ~(Revocable(command[a].id) /\ command[a].id = id)
    BY <1>0, <1>2, <2>2 DEF Update, CapInv, TypeOK
  <2> QED
    BY <2>1, <2>2
<1>3. CASE UNCHANGED <<rows, wins>>
  BY <1>0, <1>3
<1> QED
  BY <1>1, <1>2, <1>3
  DEF Next, vars, Tick, Administer, Publish, Issue, Revoke, CommandFails, VerifyBearer, Admit, Reject

\* A token whose revocation has been won is not usable.
LEMMA RevokedIsNotUsable ==
    ASSUME CapInv, NEW token \in Tokens, wins[token.id] > 0
    PROVE  ~Usable(token)
BY DEF CapInv, OneRevocationWins, Usable, Tokens

LEMMA RevocationsAreFinalNext ==
    ASSUME CapInv, [Next]_vars, NEW id \in TokenIds
    PROVE  /\ wins[id] > 0 =>
                \A q \in Requests :
                    request'[q] # request[q] /\ request'[q] # None => request'[q].token.id # id
           /\ rows[id] # None /\ rows'[id] # rows[id] =>
                rows[id].revokedAt = None /\ rows'[id] = [rows[id] EXCEPT !.revokedAt = rows'[id].revokedAt]
<1>1. ASSUME wins[id] > 0, NEW q \in Requests, request'[q] # request[q], request'[q] # None
      PROVE  request'[q].token.id # id
  <2>1. PICK token \in Tokens, candidate \in Candidates : VerifyBearer(q, token, candidate)
    BY <1>1 DEF CapInv, TypeOK, Next, vars, Tick, Administer, Publish, Issue, Insert, Revoke, Update,
                CommandFails, VerifyBearer, Admit, Reject
  <2>2. request'[q].token = token
    BY <2>1 DEF VerifyBearer, CapInv, TypeOK
  <2>3. token.id # id
    BY <1>1, <2>1, RevokedIsNotUsable DEF VerifyBearer
  <2> QED
    BY <2>2, <2>3
<1>2. rows[id] # None /\ rows'[id] # rows[id] =>
        rows[id].revokedAt = None /\ rows'[id] = [rows[id] EXCEPT !.revokedAt = rows'[id].revokedAt]
  BY RowsContinue DEF CapInv, RowContinues
<1> QED
  BY <1>1, <1>2

-----------------------------------------------------------------------------
(* The theorems. *)

LEMMA CapInvInvariant == Spec => []CapInv
<1>1. Init => CapInv
  BY TypeInit DEF Init, CapInv, RequestsWereVerified, AdmissionsWereAuthorized, OneRevocationWins
<1>2. CapInv /\ [Next]_vars => CapInv'
  BY TypeNext, RequestsStayVerified, AdmissionsStayAuthorized, OneRevocationStaysTheWinner DEF CapInv
<1> QED
  BY <1>1, <1>2, PTL DEF Spec

\* What the policy admits was published with an issued token, its secret and a
\* scope of it, verified strictly before its expiry on the unrounded clock.
THEOREM AdmittedWasAuthorized == Spec => []AdmissionsWereAuthorized
<1>1. CapInv => AdmissionsWereAuthorized
  BY DEF CapInv
<1> QED
  BY <1>1, CapInvInvariant, PTL

\* Of the revocations of a token, by however many processes, exactly one is
\* told that it won, and the token is revoked from then on.
THEOREM RevocationIsWonOnce == Spec => []OneRevocationWins
<1>1. CapInv => OneRevocationWins
  BY DEF CapInv
<1> QED
  BY <1>1, CapInvInvariant, PTL

\* After a won revocation nothing with that token gets past verification, and
\* an issued row changes by its first revocation only.
THEOREM RevocationsStand == Spec => RevocationIsFinal
<1>1. CapInv /\ [Next]_vars =>
        [\A id \in TokenIds :
          /\ wins[id] > 0 =>
                \A q \in Requests :
                    request'[q] # request[q] /\ request'[q] # None => request'[q].token.id # id
          /\ rows[id] # None /\ rows'[id] # rows[id] =>
                rows[id].revokedAt = None /\ rows'[id] = [rows[id] EXCEPT !.revokedAt = rows'[id].revokedAt]]_vars
  BY RevocationsAreFinalNext
<1> QED
  BY <1>1, CapInvInvariant, PTL DEF Spec, RevocationIsFinal
=============================================================================
