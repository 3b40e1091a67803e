----------------------------- MODULE SqliteStore ----------------------------
(***************************************************************************)
(* src/sqlite-store.js: one SQLite file, several connections (processes).  *)
(*                                                                         *)
(* A connection runs one synchronous call at a time, so the interleaving   *)
(* is between connections and its grain is the SQL statement: outside a    *)
(* transaction each statement reads the committed database of its own      *)
(* moment (WAL); in a deferred transaction (db.transaction) every          *)
(* statement reads the database as of the first; BEGIN IMMEDIATE takes the *)
(* write lock at once, so importSnapshot and appendEntries are one step,   *)
(* which commits or leaves the file as it was.  setCoverage is two         *)
(* statements in no transaction.                                           *)
(*                                                                         *)
(* A process that writes and reads is a writer and a reader here: its      *)
(* calls never overlap, so its behaviours are among those of the two.      *)
(***************************************************************************)
EXTENDS FnsObjects

CONSTANTS
    Writers,        \* connections that write
    Readers,        \* connections that read
    ReadOps,        \* the read methods an instance exercises
    Labels,         \* values of (source, snapshot) in the metadata row
    Batches,        \* sets of [id, object] entries callers pass
    Declarations,   \* sets of [scope, complete] callers pass with an import
    PageRequests,   \* [after, limit] callers page with; after 0: first page
    ChunkSize,      \* RELEASE_LOOKUP_CHUNK_SIZE
    MaxRevision     \* bound of the model: no write past this data revision

ASSUME ConnectionsAreDisjoint == Writers \cap Readers = {}
ASSUME BatchesAreEntries == Batches \subseteq SUBSET [id : ObjectIds, object : Objects]
ASSUME DeclarationsAreScoped ==
    Declarations \subseteq SUBSET [scope : Scopes, complete : BOOLEAN]
ASSUME PageRequestsAreValid ==
    PageRequests \subseteq [after : ObjectIds \cup {0}, limit : Nat \ {0}]
ASSUME BoundsAreCounts == ChunkSize \in Nat \ {0} /\ MaxRevision \in Nat

VARIABLES
    db,         \* the committed file: label, revision, objects, coverage
    pc,         \* per connection: the statement its call executes next
    call,       \* per connection: the call in progress
    view,       \* per connection: the snapshot its read transaction holds
    seen,       \* per connection: what the call has read so far
    reply,      \* per connection: the answer to its last call
    history     \* ghost: what was committed as each data revision

vars == <<db, pc, call, view, seen, reply, history>>
local == <<pc, call, view, seen>>

Conns == Writers \cup Readers

-----------------------------------------------------------------------------
(* Calls that take several statements. *)
Finds == [op : {"find"}, scope : Scopes]
Pages == [op : {"page"}, scope : Scopes, page : PageRequests]
Export == [op |-> "exportSnapshot"]
Verify == [op |-> "verifyIntegrity"]
SetCoverages == [op : {"setCoverage"}, scope : Scopes, complete : BOOLEAN]

Reads == {r \in Finds \cup Pages \cup {Export, Verify} : r.op \in ReadOps}

(* Variants: the pages, or the export, lose their transaction. *)
InTransactionExportOnly(r) == r.op = "exportSnapshot"
InTransactionPagesOnly(r) == r.op = "page"

(* db.transaction(() => ...) *)
InTransaction(r) == r.op \in {"page", "exportSnapshot"}

NoCall == [op |-> "none"]
NoView == [revision |-> None]
NoReply == [call |-> NoCall, status |-> "none"]
Nothing == [label |-> None, revision |-> 0, objects |-> NoRows, rest |-> {}]

(* Answers that carry no data: failures, and the counts a write returns.    *)
Ended(op, status) == [call |-> [op |-> op], status |-> status]

(* The database statement n of c's call reads. *)
Source(c) == IF InTransaction(call[c]) THEN view[c] ELSE db

(* c's call ends with `answer`; a transaction it held is closed. *)
Return(c, answer) ==
    /\ pc' = [pc EXCEPT ![c] = "idle"]
    /\ call' = [call EXCEPT ![c] = NoCall]
    /\ view' = [view EXCEPT ![c] = NoView]
    /\ seen' = [seen EXCEPT ![c] = Nothing]
    /\ reply' = [reply EXCEPT ![c] = answer]

-----------------------------------------------------------------------------
(* A freshly migrated file: revision 0, no rows. *)
Init ==
    /\ \E label \in Labels :
          /\ db = [label |-> label, revision |-> 0, objects |-> NoRows, coverage |-> NoRows]
          /\ history = [r \in {0} |-> [label |-> label, objects |-> NoRows, declared |-> {}]]
    /\ pc = [c \in Conns |-> "idle"]
    /\ call = [c \in Conns |-> NoCall]
    /\ view = [c \in Conns |-> NoView]
    /\ seen = [c \in Conns |-> Nothing]
    /\ reply = [c \in Conns |-> NoReply]

-----------------------------------------------------------------------------
(* Writers: the two IMMEDIATE transactions. *)

(* COMMIT of the next data revision. *)
Commit(label, objects, coverage) ==
    LET next == db.revision + 1 IN
    /\ db' = [label |-> label, revision |-> next, objects |-> objects, coverage |-> coverage]
    /\ history' = [r \in 0 .. next |->
                      IF r < next THEN history[r]
                      ELSE [label |-> label, objects |-> objects,
                            declared |-> {s \in DOMAIN coverage : coverage[s].complete}]]

(* label = None: the caller gives neither source nor snapshot. *)
ImportSnapshot(c, batch, declarations, replace, label) ==
    LET base == IF replace THEN NoRows ELSE db.objects
        entries == normalizeEntries(batch)
        end(status) == Return(c, Ended("write", status))
    IN
    /\ pc[c] = "idle"
    /\ \/ /\ \/ Conflicting(batch)
             \/ ~ContradictoryCoverage(declarations) /\ StoredConflict(entries, base)
          /\ end("E_STORE_INTEGRITY")
          /\ UNCHANGED <<db, history>>
       \/ /\ ~Conflicting(batch)
          /\ ContradictoryCoverage(declarations)
          /\ end("E_STORE_INVALID_REQUEST")
          /\ UNCHANGED <<db, history>>
       \/ /\ ~Conflicting(batch)
          /\ ~ContradictoryCoverage(declarations)
          /\ ~StoredConflict(entries, base)
          /\ db.revision < MaxRevision
          /\ Commit(IF label = None THEN db.label ELSE label,
                    Insert(entries, base),
                    normalizeCoverage(declarations, db.revision + 1))
          /\ end("ok")

(* Variant: rows are inserted but neither the revision nor coverage moves. *)
AppendEntriesSilently(c, batch) ==
    /\ pc[c] = "idle"
    /\ ~StoredConflict(normalizeEntries(batch), db.objects)
    /\ db' = [db EXCEPT !.objects = Insert(normalizeEntries(batch), @)]
    /\ Return(c, Ended("write", "ok"))
    /\ UNCHANGED history

AppendEntries(c, batch) ==
    LET entries == normalizeEntries(batch)
        fresh == DOMAIN entries \ DOMAIN db.objects
        end(status) == Return(c, Ended("write", status))
    IN
    /\ pc[c] = "idle"
    /\ \/ /\ Conflicting(batch) \/ StoredConflict(entries, db.objects)
          /\ end("E_STORE_INTEGRITY")
          /\ UNCHANGED <<db, history>>
       \/ /\ ~Conflicting(batch) /\ ~StoredConflict(entries, db.objects)
          /\ fresh = {}
          /\ end("ok")
          /\ UNCHANGED <<db, history>>
       \/ /\ ~Conflicting(batch) /\ ~StoredConflict(entries, db.objects)
          /\ fresh # {}
          /\ db.revision < MaxRevision
          /\ Commit(db.label, Insert(entries, db.objects), NoRows)
          /\ end("ok")

(* setCoverage, first statement: the revision the declaration is for. *)
ReadRevision(c, r) ==
    /\ pc[c] = "idle"
    /\ pc' = [pc EXCEPT ![c] = "upsert"]
    /\ call' = [call EXCEPT ![c] = r]
    /\ seen' = [seen EXCEPT ![c].revision = db.revision]
    /\ reply' = [reply EXCEPT ![c] = NoReply]
    /\ UNCHANGED <<db, view, history>>

(* setCoverage, second statement: INSERT ... ON CONFLICT DO UPDATE. *)
UpsertCoverage(c) ==
    LET scope == call[c].scope
        row == [complete |-> call[c].complete, revision |-> seen[c].revision]
    IN
    /\ pc[c] = "upsert"
    /\ db' = [db EXCEPT !.coverage =
                 [s \in DOMAIN db.coverage \cup {scope} |->
                     IF s = scope THEN row ELSE db.coverage[s]]]
    /\ history' = IF row.complete
                  THEN [history EXCEPT ![row.revision].declared = @ \cup {scope}]
                  ELSE history
    /\ Return(c, Ended("write", "ok"))

-----------------------------------------------------------------------------
(* Readers.  A call begins with its first statement, readMetadata; in a     *)
(* transaction that statement fixes the snapshot.                           *)

(* Binding ids a releases query still has to look up, chunk by chunk; the   *)
(* paged query looks them up in one statement.                              *)
ChunksOf(r) ==
    IF r.op = "find" /\ r.scope.method = "releases" THEN r.scope.bindingIds ELSE {}

(* findAliasReleases([]) has no chunk to look up. *)
NothingToLookUp(r) ==
    r.op \in {"find", "page"} /\ r.scope.method = "releases" /\ r.scope.bindingIds = {}

ReadMetadata(c, r) ==
    /\ pc[c] = "idle"
    /\ pc' = [pc EXCEPT ![c] = IF NothingToLookUp(r) THEN "coverage" ELSE "objects"]
    /\ call' = [call EXCEPT ![c] = r]
    /\ view' = [view EXCEPT ![c] = IF InTransaction(r) THEN db ELSE NoView]
    /\ seen' = [seen EXCEPT ![c] = [label |-> db.label, revision |-> db.revision,
                                    objects |-> NoRows, rest |-> ChunksOf(r)]]
    /\ reply' = [reply EXCEPT ![c] = NoReply]
    /\ UNCHANGED <<db, history>>

(* The ids one SELECT ... FROM fns_store_objects of call r returns, `chunk` *)
(* being the binding ids it asks for.                                       *)
IdsRead(r, chunk, objects) ==
    CASE r.op = "page" -> PageIds(r.scope, objects, r.page)
      [] r.op = "find" ->
            Selected(IF r.scope.method = "releases"
                     THEN [r.scope EXCEPT !.bindingIds = chunk] ELSE r.scope, objects)
      [] OTHER -> DOMAIN objects

(* Variant: only the first chunk is looked up. *)
ReadFirstChunk(c) ==
    LET objects == Source(c).objects
        chunk == FirstIds(seen[c].rest, ChunkSize)
    IN
    /\ pc[c] = "objects"
    /\ seen' = [seen EXCEPT ![c].objects = Rows(IdsRead(call[c], chunk, objects), objects)]
    /\ pc' = [pc EXCEPT ![c] = "coverage"]
    /\ UNCHANGED <<db, call, view, reply, history>>

ReadObjects(c) ==
    LET objects == Source(c).objects
        chunk == FirstIds(seen[c].rest, ChunkSize)
        rest == seen[c].rest \ chunk
    IN
    /\ pc[c] = "objects"
    /\ seen' = [seen EXCEPT
                   ![c].objects = Insert(Rows(IdsRead(call[c], chunk, objects), objects), @),
                   ![c].rest = rest]
    /\ pc' = [pc EXCEPT ![c] = IF rest = {} THEN "coverage" ELSE "objects"]
    /\ UNCHANGED <<db, call, view, reply, history>>

-----------------------------------------------------------------------------
(* The coverage statement, and what the call makes of it. *)

(* A coverage row from after the metadata row this call read. *)
Ahead(c, row) == row.revision > seen[c].revision

(* readComplete: rows of an earlier revision do not count. *)
readComplete(c, scope, coverage) ==
    /\ scope \in DOMAIN coverage
    /\ coverage[scope].complete
    /\ coverage[scope].revision = seen[c].revision

(* relayPageEnvelope: the witness row is cut off. *)
Envelope(c, coverage) ==
    LET r == call[c]
        ids == DOMAIN seen[c].objects
        kept == IF r.op = "page" THEN FirstIds(ids, r.page.limit) ELSE ids
    IN [call |-> r, status |-> "ok",
        label |-> seen[c].label, revision |-> seen[c].revision,
        objects |-> Rows(kept, seen[c].objects),
        complete |-> readComplete(c, r.scope, coverage),
        hasMore |-> kept # ids]

ReadScopeCoverage(c) ==
    LET scope == call[c].scope
        coverage == Source(c).coverage
    IN
    /\ pc[c] = "coverage"
    /\ call[c].op \in {"find", "page"}
    /\ Return(c, IF scope \in DOMAIN coverage /\ Ahead(c, coverage[scope])
                 THEN Ended(call[c].op, "E_STORE_INTEGRITY")
                 ELSE Envelope(c, coverage))
    /\ UNCHANGED <<db, history>>

SomeAhead(c, coverage) == \E s \in DOMAIN coverage : Ahead(c, coverage[s])

(* Variant: declarations of earlier revisions are exported too. *)
ExportAllCoverage(c) ==
    LET coverage == Source(c).coverage IN
    /\ pc[c] = "coverage"
    /\ call[c].op = "exportSnapshot"
    /\ Return(c, [call |-> Export, status |-> "ok",
                  label |-> seen[c].label, revision |-> seen[c].revision,
                  objects |-> seen[c].objects,
                  coverage |-> {[scope |-> s, complete |-> coverage[s].complete] :
                                   s \in DOMAIN coverage}])
    /\ UNCHANGED <<db, history>>

(* exportSnapshot keeps the declarations of the exported revision. *)
ExportCoverage(c) ==
    LET coverage == Source(c).coverage
        fresh == {s \in DOMAIN coverage : coverage[s].revision = seen[c].revision}
    IN
    /\ pc[c] = "coverage"
    /\ call[c].op = "exportSnapshot"
    /\ Return(c, IF SomeAhead(c, coverage)
                 THEN Ended("exportSnapshot", "E_STORE_INTEGRITY")
                 ELSE [call |-> Export, status |-> "ok",
                       label |-> seen[c].label, revision |-> seen[c].revision,
                       objects |-> seen[c].objects,
                       coverage |-> {[scope |-> s, complete |-> coverage[s].complete] : s \in fresh}])
    /\ UNCHANGED <<db, history>>

VerifyCoverage(c) ==
    /\ pc[c] = "coverage"
    /\ call[c].op = "verifyIntegrity"
    /\ \/ /\ SomeAhead(c, db.coverage)
          /\ Return(c, Ended("verifyIntegrity", "E_STORE_INTEGRITY"))
       \/ /\ ~SomeAhead(c, db.coverage)
          /\ pc' = [pc EXCEPT ![c] = "count"]
          /\ UNCHANGED <<call, view, seen, reply>>
    /\ UNCHANGED <<db, history>>

(* SELECT COUNT( * ), the last statement of verifyIntegrity. *)
CountObjects(c) ==
    /\ pc[c] = "count"
    /\ Return(c, [call |-> Verify, status |-> "ok", revision |-> seen[c].revision,
                  count |-> Cardinality(DOMAIN db.objects)])
    /\ UNCHANGED <<db, history>>

(* A single statement. *)
GetObject(c, id) ==
    /\ pc[c] = "idle"
    /\ Return(c, [call |-> [op |-> "getObject", id |-> id], status |-> "ok",
                  object |-> IF id \in DOMAIN db.objects THEN db.objects[id] ELSE None])
    /\ UNCHANGED <<db, history>>

(* A statement fails (busy timeout, I/O): StoreAccessError, and whatever    *)
(* transaction was open is rolled back.  A process that dies does the same, *)
(* with nobody to read the reply.                                           *)
AccessError(c) ==
    /\ Return(c, Ended(IF c \in Writers THEN "write" ELSE call[c].op, "E_STORE_ACCESS"))
    /\ UNCHANGED <<db, history>>

-----------------------------------------------------------------------------
Write(c) ==
    \/ \E batch \in Batches, declarations \in Declarations, replace \in BOOLEAN,
          label \in Labels \cup {None} : ImportSnapshot(c, batch, declarations, replace, label)
    \/ \E batch \in Batches : AppendEntries(c, batch)
    \/ \E r \in SetCoverages : ReadRevision(c, r)
    \/ UpsertCoverage(c)
    \/ AccessError(c)

Read(c) ==
    \/ \E r \in Reads : ReadMetadata(c, r)
    \/ ReadObjects(c)
    \/ ReadScopeCoverage(c)
    \/ ExportCoverage(c)
    \/ VerifyCoverage(c)
    \/ CountObjects(c)
    \/ \E id \in ObjectIds : GetObject(c, id)
    \/ AccessError(c)

Next == (\E c \in Writers : Write(c)) \/ (\E c \in Readers : Read(c))

Spec == Init /\ [][Next]_vars

-----------------------------------------------------------------------------
(* What the store promises.                                                 *)

PartialFunctions(S, T) == UNION {[D -> T] : D \in SUBSET S}

Revisions == 0 .. MaxRevision

Tables == PartialFunctions(ObjectIds, Objects)

Versions ==
    [label : Labels, revision : Revisions, objects : Tables,
     coverage : PartialFunctions(Scopes, [complete : BOOLEAN, revision : Revisions])]

DatabaseTyped ==
    /\ db \in Versions
    /\ history \in [0 .. db.revision ->
                        [label : Labels, objects : Tables, declared : SUBSET Scopes]]

CallsTyped ==
    /\ pc \in [Conns -> {"idle", "upsert", "objects", "coverage", "count"}]
    /\ call \in [Conns -> Reads \cup SetCoverages \cup {NoCall}]
    /\ view \in [Conns -> Versions \cup {NoView}]
    /\ seen \in [Conns -> [label : Labels \cup {None}, revision : 0 .. db.revision,
                           objects : Tables, rest : SUBSET Nat]]

(* The tables hold well-formed rows, every call is at a statement it has,   *)
(* and the ghost history has one entry per data revision.                   *)
TypeOK == DatabaseTyped /\ CallsTyped

Answered(c, op) == reply[c].status = "ok" /\ reply[c].call.op = op

(* The content the answer's revision was committed with. *)
Committed(c) == history[reply[c].revision]

(* A page is a slice of one data revision, whatever other processes write   *)
(* while it is read: its objects are the next ones of the scope in that     *)
(* revision, none skipped, at most `limit`, hasMore is true exactly when    *)
(* the revision has more of them and then the page is full, and             *)
(* complete:true means the scope was declared complete for that revision.   *)
(* (findAliasBindingsPage, findAliasReleasesPage, findCommuneDocumentsPage) *)
PagesAreSlicesOfOneRevision ==
    \A c \in Conns : Answered(c, "page") =>
        LET page == reply[c]
            wanted == {id \in Selected(page.call.scope, Committed(c).objects) :
                          id > page.call.page.after}
            given == DOMAIN page.objects
            left == wanted \ given
        IN /\ page.label = Committed(c).label
           /\ given \subseteq wanted
           /\ \A id \in given : page.objects[id] = Committed(c).objects[id]
           /\ \A id \in given, later \in left : id < later
           /\ Cardinality(given) <= page.call.page.limit
           /\ page.hasMore <=> left # {}
           /\ page.hasMore => Cardinality(given) = page.call.page.limit
           /\ page.complete => page.call.scope \in Committed(c).declared

(* An export is one data revision: its label, all its objects, and only     *)
(* coverage that was declared for it.  (exportSnapshot)                     *)
ExportsAreOneRevision ==
    \A c \in Conns : Answered(c, "exportSnapshot") =>
        /\ reply[c].label = Committed(c).label
        /\ reply[c].objects = Committed(c).objects
        /\ \A d \in reply[c].coverage : d.complete => d.scope \in Committed(c).declared

(* No page and no export mistakes another process's write for corruption.   *)
(* (readComplete and parseCoverageRow throw E_STORE_INTEGRITY on a coverage *)
(* row from after the metadata they compare it with)                        *)
TransactionsNeverReportCorruption ==
    \A c \in Conns : reply[c].status = "E_STORE_INTEGRITY" => reply[c].call.op \notin {"page", "exportSnapshot"}

(* The data revision tells contents apart: no step changes the label or the *)
(* objects of a revision that a coverage row or a reader may already name,  *)
(* and no step but a commit of the next revision moves it.                  *)
RevisionNamesOneContent ==
    [][/\ db'.revision \in {db.revision, db.revision + 1}
       /\ db'.revision = db.revision => db'.label = db.label /\ db'.objects = db.objects]_vars

-----------------------------------------------------------------------------
(* What it promises when one connection writes, as DEPLOYMENT.md requires.  *)
(* complete:true from a discovery method that reads metadata, objects and   *)
(* coverage in three separate statements: the three are of one revision,    *)
(* and the scope was declared complete for it.  (findAliasBindings,         *)
(* findAliasReleases with its chunks, findCommuneDocuments)                 *)
CompleteFindsAreExact ==
    \A c \in Conns : Answered(c, "find") /\ reply[c].complete =>
        LET scope == reply[c].call.scope
            objects == Committed(c).objects
        IN /\ reply[c].label = Committed(c).label
           /\ reply[c].objects = Rows(Selected(scope, objects), objects)
           /\ scope \in Committed(c).declared

-----------------------------------------------------------------------------
(* What it does not promise.                                                *)

(* A discovery answer, complete or not, is the content of some revision;    *)
(* and since nothing in this model corrupts the file, no read reports that  *)
(* it is corrupt.                                                           *)
ReadsAreOfOneRevision ==
    \A c \in Conns :
        /\ Answered(c, "find") =>
              \E r \in DOMAIN history :
                  LET objects == history[r].objects
                  IN /\ reply[c].label = history[r].label
                     /\ reply[c].objects = Rows(Selected(reply[c].call.scope, objects), objects)
        /\ reply[c].status = "E_STORE_INTEGRITY" => reply[c].call.op = "write"
=============================================================================
