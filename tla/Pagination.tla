----------------------------- MODULE Pagination -----------------------------
(***************************************************************************)
(* Discovery over HTTP: a client lists a scope page by page with signed,   *)
(* expiring cursors (cursor-codec.js, the discovery routes of server.js)   *)
(* while other processes append to the candidate database, declare         *)
(* coverage or replace its content.                                        *)
(*                                                                         *)
(* A scope stands for a route and its query.  A page is read in one        *)
(* transaction, so it is PageOf the database of one moment: that is what   *)
(* SqliteStore implements AtomicStore says.  A cursor that was not signed  *)
(* with the server's secret does not parse; cursors are never forged.      *)
(* The specification's parts are named Listing..., so that one module can  *)
(* extend this one and Discovery.                                          *)
(***************************************************************************)
EXTENDS StoreAnswers, Integers
SetsExt == INSTANCE FiniteSetsExt

CONSTANTS
    Limits,             \* limits clients send; None: none
    defaultPageSize, maximumPageSize,
    Size,               \* [Objects -> the bytes a representation takes]
    maximumResponseBytes,
    Ttl, Second,        \* lifetime of a cursor in seconds, clock ticks per second
    Batches,            \* sets of [id, object] entries that are appended
    Archives,           \* contents that may replace the database
    MaxTime, MaxRevision,   \* bounds of the model: the clock and the writes stop there,
    MaxSecrets              \* and the secret is replaced no more

ASSUME PageSizesAreValid ==
    /\ maximumPageSize \in Nat \ {0} /\ defaultPageSize \in 1 .. maximumPageSize
    /\ Limits \subseteq Nat \cup {None}
ASSUME BatchesAreEntries == Batches \subseteq SUBSET [id : ObjectIds, object : Objects]
ASSUME ArchivesAreRows == \A objects \in Archives : DOMAIN objects \subseteq ObjectIds
ASSUME IdsComeAfterTheStart == 0 \notin ObjectIds       \* after 0: from the start
ASSUME ClockHasTicks == {Ttl, Second} \subseteq Nat \ {0}

VARIABLES
    db,         \* the candidate database: label, revision, objects, coverage
    clock,      \* the time, in ticks
    secret,     \* the cursor secret of the running server, a number
    request,    \* the discovery request the server works on, or None
    client,     \* the listing: state, scope, limit, the cursor it holds, what it has seen
    listing     \* history of the listing: ids there always, ids there ever, declarations since

listingVars == <<db, clock, secret, request, client, listing>>

nowSeconds == clock \div Second

NewListing(scope, limit) ==
    [pc |-> "ready", scope |-> scope, limit |-> limit, cursor |-> None, seen |-> {}, complete |-> FALSE]

HistoryFrom(scope) ==
    [always |-> Selected(scope, db.objects), ever |-> Selected(scope, db.objects), declared |-> FALSE]

ListingInit ==
    /\ db = [label |-> None, revision |-> 0, objects |-> NoRows, coverage |-> NoRows]
    /\ clock = 0
    /\ secret = 1
    /\ request = None
    /\ \E scope \in Scopes, limit \in Limits : client = NewListing(scope, limit)
    /\ listing = HistoryFrom(client.scope)

-----------------------------------------------------------------------------
(* The server.                                                              *)

(* parseLimit; the result is None when it throws. *)
parseLimit(limit) ==
    IF limit = None THEN defaultPageSize
    ELSE IF limit \in 1 .. maximumPageSize THEN limit ELSE None

(* Variants of parse: the query, or the expiry, is not compared.            *)
AcceptedForAnyQuery(cursor, scope) ==
    cursor.secret = secret /\ cursor.expiresAt > nowSeconds
AcceptedForever(cursor, scope) == cursor.secret = secret /\ cursor.scope = scope

(* CursorCodec.parse: signature, route, query and expiry. *)
Accepted(cursor, scope) ==
    /\ cursor.secret = secret
    /\ cursor.scope = scope
    /\ cursor.expiresAt > nowSeconds

(* Variant: the last row read, the witness of the next page, is the mark.   *)
createAfterWitness(scope, page) ==
    [secret |-> secret, scope |-> scope, expiresAt |-> nowSeconds + Ttl, madeAt |-> clock,
     after |-> CHOOSE id \in PageIds(scope, db.objects, page) :
                   \A other \in PageIds(scope, db.objects, page) : other <= id]

(* Variant: the cursor the page was asked with. *)
createAgain(scope, page) ==
    [secret |-> secret, scope |-> scope, expiresAt |-> nowSeconds + Ttl, madeAt |-> clock,
     after |-> page.after]

(* CursorCodec.create for the last object of the page; madeAt is history.   *)
create(scope, page) ==
    LET ids == DOMAIN PageOf([scope |-> scope, page |-> page], db).objects IN
    [secret |-> secret, scope |-> scope, expiresAt |-> nowSeconds + Ttl, madeAt |-> clock,
     after |-> CHOOSE id \in ids : \A other \in ids : other <= id]

(* Up to the await: limit and cursor are parsed.  A client may name another *)
(* scope than its cursor's.                                                 *)
Parse(scope) ==
    /\ client.pc = "ready" /\ request = None
    /\ parseLimit(client.limit) # None
    /\ client.cursor # None => Accepted(client.cursor, scope)
    /\ client.cursor = None => scope = client.scope
    /\ request' = [scope |-> scope,
                   page |-> [limit |-> parseLimit(client.limit),
                             after |-> IF client.cursor = None THEN 0 ELSE client.cursor.after]]
    /\ listing' = IF client.cursor = None THEN HistoryFrom(scope) ELSE listing
    /\ UNCHANGED <<db, clock, secret, client>>

(* 400: the limit or the cursor is refused.  A client without a valid limit *)
(* sends none; one whose cursor is no longer valid for its own scope starts *)
(* over.                                                                    *)
Refuse(scope) ==
    /\ client.pc = "ready" /\ request = None
    /\ \/ /\ parseLimit(client.limit) = None
          /\ client' = [client EXCEPT !.limit = None]
       \/ /\ parseLimit(client.limit) # None
          /\ client.cursor # None /\ ~Accepted(client.cursor, scope)
          /\ client' = IF scope = client.scope THEN NewListing(scope, client.limit) ELSE client
    /\ UNCHANGED <<db, clock, secret, request, listing>>

(* Bytes of an answer. *)
ResponseBytes(objects) == SetsExt!MapThenSumSet(LAMBDA id : Size[objects[id]], DOMAIN objects)

(* paginateEnvelope and send: the page, and a cursor when more follow. *)
AnswerPage ==
    /\ request # None
    /\ LET page == PageOf(request, db) IN
       /\ ResponseBytes(page.objects) <= maximumResponseBytes
       /\ client' = [client EXCEPT
             !.pc = IF page.hasMore THEN "ready" ELSE "done",
             !.cursor = IF page.hasMore THEN create(request.scope, request.page) ELSE None,
             !.seen = @ \cup DOMAIN page.objects,
             !.complete = page.complete]
    /\ request' = None
    /\ UNCHANGED <<db, clock, secret, listing>>

(* 413; a client asks for fewer objects, until it asked for a single one.   *)
TooLarge ==
    /\ request # None
    /\ ResponseBytes(PageOf(request, db).objects) > maximumResponseBytes
    /\ client' = IF request.page.limit = 1 THEN [client EXCEPT !.pc = "failed"]
                 ELSE [client EXCEPT !.limit = request.page.limit - 1]
    /\ request' = None
    /\ UNCHANGED <<db, clock, secret, listing>>

(* The answer is lost; the client repeats the request. *)
LoseAnswer ==
    /\ request # None
    /\ request' = None
    /\ UNCHANGED <<db, clock, secret, client, listing>>

(* The client lists a scope, the same or another, from its start. *)
StartOver(scope, limit) ==
    /\ client.pc \in {"done", "failed"}
    /\ client' = NewListing(scope, limit)
    /\ listing' = HistoryFrom(scope)
    /\ UNCHANGED <<db, clock, secret, request>>

-----------------------------------------------------------------------------
(* Everybody else.                                                          *)

(* The history of a listing ends with the listing. *)
Observe(history) == listing' = IF client.pc = "ready" THEN history ELSE listing

Commit(objects, coverage, declared) ==
    /\ db.revision < MaxRevision
    /\ db' = [db EXCEPT !.revision = @ + 1, !.objects = objects,
                        !.coverage = normalizeCoverage(coverage, db.revision + 1)]
    /\ LET there == Selected(client.scope, objects) IN
       Observe([always |-> listing.always \cap there, ever |-> listing.ever \cup there,
                declared |-> listing.declared \/ declared])
    /\ UNCHANGED <<clock, secret, request, client>>

(* Variant: the declarations of the last revision stay. *)
AppendKeepingCoverage(batch) ==
    /\ ~StoredConflict(normalizeEntries(batch), db.objects)
    /\ DOMAIN normalizeEntries(batch) \ DOMAIN db.objects # {}
    /\ Commit(Insert(normalizeEntries(batch), db.objects),
              {[scope |-> s, complete |-> TRUE] : s \in DOMAIN db.coverage}, FALSE)

(* publishImmutable of candidates that are not stored yet. *)
Append(batch) ==
    /\ ~StoredConflict(normalizeEntries(batch), db.objects)
    /\ DOMAIN normalizeEntries(batch) \ DOMAIN db.objects # {}
    /\ Commit(Insert(normalizeEntries(batch), db.objects), {}, FALSE)

(* restoreSnapshot, while the server is down. *)
Restore(objects, scopes) ==
    /\ request = None
    /\ Commit(objects, {[scope |-> s, complete |-> TRUE] : s \in scopes}, TRUE)

(* setCoverage by the one process that writes. *)
Declare(scope) ==
    /\ db' = [db EXCEPT !.coverage =
                 [s \in DOMAIN @ \cup {scope} |->
                     IF s = scope THEN [complete |-> TRUE, revision |-> db.revision] ELSE @[s]]]
    /\ Observe([listing EXCEPT !.declared = TRUE])
    /\ UNCHANGED <<clock, secret, request, client>>

(* The server is restarted with a new cursor secret. *)
Rotate ==
    /\ secret < MaxSecrets /\ request = None
    /\ secret' = secret + 1
    /\ UNCHANGED <<db, clock, request, client, listing>>

Tick ==
    /\ clock < MaxTime
    /\ clock' = clock + 1
    /\ UNCHANGED <<db, secret, request, client, listing>>

-----------------------------------------------------------------------------
Serve == AnswerPage \/ TooLarge

ListingNext ==
    \/ \E scope \in Scopes : Parse(scope) \/ Refuse(scope) \/ Declare(scope)
    \/ Serve
    \/ LoseAnswer
    \/ \E scope \in Scopes, limit \in Limits : StartOver(scope, limit)
    \/ \E batch \in Batches : Append(batch)
    \/ \E objects \in Archives, scopes \in SUBSET Scopes : Restore(objects, scopes)
    \/ Rotate
    \/ Tick

ListingSpec == ListingInit /\ [][ListingNext]_listingVars

(* The client goes on with its own listing, the server works, and of the    *)
(* answers to a repeated request not every one is lost.                     *)
Ask == Parse(client.scope) \/ Refuse(client.scope)
FairSpec == ListingSpec /\ WF_listingVars(Ask) /\ SF_listingVars(Serve)

-----------------------------------------------------------------------------
Cursors ==
    [secret : Nat, scope : Scopes, expiresAt : Nat, madeAt : Nat, after : ObjectIds]
Requests == [scope : Scopes, page : [limit : 1 .. maximumPageSize, after : ObjectIds \cup {0}]]

ASSUME NoneIsNoValue == None \notin Cursors \cup Requests \cup Int

(* The shape of the state; a request is its client's, and a client past its *)
(* last page holds no cursor.                                               *)
ListingTypeOK ==
    /\ DOMAIN db = {"label", "revision", "objects", "coverage"}
    /\ db.revision \in Nat /\ DOMAIN db.objects \subseteq ObjectIds
    /\ {clock, secret} \subseteq Nat
    /\ request \in Requests \cup {None}
    /\ client \in [pc : {"ready", "done", "failed"}, scope : Scopes, limit : Nat \cup {None},
                   cursor : Cursors \cup {None}, seen : SUBSET ObjectIds, complete : BOOLEAN]
    /\ request # None => client.pc = "ready" /\ request.scope = client.scope
    /\ client.pc = "done" => client.cursor = None
    /\ listing.always \subseteq listing.ever

(* What a client has seen is the scope's: everything that was in the scope  *)
(* all along up to the mark of its cursor, once, and nothing that never was *)
(* in it.  (paginateEnvelope, parse, the pages of the store)                *)
ListingsAreSound ==
    /\ client.seen \subseteq listing.ever
    /\ client.cursor # None =>
          /\ \A id \in client.seen : id <= client.cursor.after
          /\ \A id \in listing.always : id <= client.cursor.after => id \in client.seen

(* A client that was told page.complete has every object that was in the    *)
(* scope all along, whatever was appended, replaced or lost meanwhile.      *)
FullListingsMissNothing == client.pc = "done" => listing.always \subseteq client.seen

(* If the last page also says complete, and no operator declared coverage   *)
(* while the client paged, the pages together are the scope exactly: an     *)
(* append discards the declaration the next page would show.                *)
CompleteListingsAreExact ==
    client.pc = "done" /\ client.complete /\ ~listing.declared =>
        client.seen = listing.ever /\ client.seen = listing.always

(* A cursor is honoured for less than its lifetime and refused for its age  *)
(* only in its last second, as both ends round the clock down.              *)
CursorsLiveTheirLifetime ==
    LET cursor == client.cursor
        age == clock - cursor.madeAt
    IN cursor # None /\ cursor.secret = secret =>
          /\ Accepted(cursor, cursor.scope) => age < Ttl * Second
          /\ ~Accepted(cursor, cursor.scope) => age > (Ttl - 1) * Second

(* A client that follows its cursors reaches the last page, or is told that *)
(* a single object exceeds the limit of an answer, when its cursors do not  *)
(* expire or lose their secret for ever: the model stops its clock.         *)
ListingsEnd == client.pc = "ready" ~> client.pc # "ready"
=============================================================================
