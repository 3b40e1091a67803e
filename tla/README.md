# FNS v0: stores and Relay, specified in TLA+

This directory models the parts of this repository that keep state and run
concurrently: the SQLite candidate database and how it is opened
(`src/sqlite-store.js`), discovery over it (`src/adapter.js`), the filesystem
blob store, the capability store and the local reference Relay
(`relay-v1/packages/relay-local`), the public server with its cursors, startup
and shutdown (`relay-v1/apps/public-relay`), the admin processes, and the
archive jobs of a host (`ops/host-relay/bin`). TLC checks the models on small
instances; TLAPS proves every safety property the passing runs check, and both
refinements, for every instance.

## The system

| Part | State it keeps | Operations | Talks to |
| --- | --- | --- | --- |
| SQLite store, `src/sqlite-store.js` | one file: metadata row (source, snapshot, data revision), entries, derived indexes, coverage rows | `importSnapshot`, `appendEntries`, `setCoverage`, `getObject`, three `find*` methods and their pages, `exportSnapshot`, `verifyIntegrity`, `backup`, open and migrate | other processes on the same file, through SQLite |
| Blob store, `filesystem-blob-store.js` | a directory with one immutable file per ObjectId | `putIfAbsent`, `get`, `exportBlobs`, `restoreBlobs` | other processes on the same directory |
| Candidate store adapter, `sqlite-candidate-store.js` | none of its own | `publishImmutable`, `exportSnapshot`, `restoreSnapshot`, reads | SQLite store |
| Capability store, `sqlite-capability-store.js` | a second SQLite file of token hashes, scopes, expiry, revocation | `create`, `verifyBearer`, `revoke` | admin CLI, server |
| Publication policy, `local-publication-policy.js` | none | `admit`, with an optional asynchronous `evaluate` | Relay |
| Local reference Relay, `local-reference-relay.js` | the publications in flight | `publish`, `exportArchive`, `restoreArchive` | the four parts above |
| Archive contract, `relay-contract/src/archive.js` | none | create and verify an archive | Relay, admin CLI |
| Public server, cursor codec, `apps/public-relay/src` | requests in flight; cursors travel with the client | publication and discovery routes, pages with signed expiring cursors | Relay |
| Admin CLI, `bin/admin.js` | none between runs | export, restore, verify, capability commands, each a process of its own | both databases and the blob directory |
| Startup and shutdown, `bin/start.js` | one drain in progress | assembly, SIGTERM drain with two deadlines | server, stores |
| Adapter, `src/adapter.js` | none | `discoverFromStore`, `resolveAliasFromStore` | any FnsStore |
| Archive pipeline, `ops/host-relay/bin` | staged and verified archives, receipts | hourly archive, off-provider copy, restore drill, freshness check | admin CLI in containers |

What is hard about it:

* Several **processes** share one database file and one directory: the server,
  admin commands, the hourly export. `DEPLOYMENT.md:5-10` asks for a single
  writer but `DEPLOYMENT.md:115-118` lets exports run while it serves.
* The discovery methods of the store read in **several autocommit statements**,
  and the adapter spreads three of them over awaits.
* A publication spans **two stores** that share no transaction, with awaits in
  between, and either may fail after the other has acted.
* A capability is **checked before an await** and used after it.
* A listing is **many requests**; what they list changes between them, and the
  cursor that joins them expires.
* Files are made durable in **two steps** (file, then directory entry), and the
  process or the machine may stop between them.
* A shutdown is a **race** of requests, clients, a callback and two deadlines.
* Archive, copy and drill are **scripts that may stop at any command** and find
  each other's files by modification time or by name.

`PROJECT.json` lists every component with its status, and every hazard at its
line with the properties that guard it or the reason none does yet.

### What makes each part correct

* SQLite store: pages and exports show one data revision; a `complete: true`
  answer is exactly the content it was declared for; a revision number never
  names two contents; concurrent writes are not mistaken for corruption.
* Blob store: an id has at most one content; an acknowledged, synced blob
  survives everything but the disk.
* Relay: no visible candidate without its blob; an acknowledged publication stays
  and is never contradicted by another; exports always find their blobs.
* Capabilities: what is admitted was verified strictly before the expiry, with
  a scope of the token; a revocation is won once and is final.
* Pagination: a client that follows cursors sees every object that was there all
  along, nothing that never was, and comes to an end; complete pages are of one
  content; a cursor lives its lifetime.
* Discovery: nothing that was there is missed, answers that contradict each
  other are refused, and what is reported incomplete was.
* Opening: a file is new or whole, whoever was killed; its first opener names it.
* The process: requests keep their databases, answers are true, nothing is served
  after an error of the server, a drain settles, and exit code 0 means that
  nothing was cut.
* Archive pipeline: what counts as verified was verified; a receipt is of an
  archive that was read back as exported; the latest receipt names the newest
  copy; a drill that succeeds restored an export.

## Modules

| Module | What it is |
| --- | --- |
| `FnsObjects` | Pure parts of the store: derived indexes, selection by scope, page arithmetic, normalisation of batches and coverage |
| `SqliteStore` | The store, one action per SQL statement or immediate transaction, any number of connections |
| `StoreAnswers` | The answers reads give, as functions of one database content |
| `AtomicStore` | Abstract store: every page and export takes effect at one instant |
| `SqliteStoreAtomicity` | Refinement mapping from `SqliteStore` to `AtomicStore` |
| `SqliteStore_proofs` | Theorems about `SqliteStore`, and that it implements `AtomicStore` |
| `WriteOnceStore` | Abstract blob store: a write-once map that keeps what it vouched for |
| `BlobStore` | The blob directory, one action per file operation, with deaths and power loss |
| `BlobStore_proofs` | Theorems about `BlobStore`, and that it implements `WriteOnceStore` |
| `Relay` | Publications, restores and exports over one database and one `BlobStore` |
| `Relay_proofs` | Theorems about `Relay`, and that it uses its blobs as `BlobStore` specifies |
| `Capabilities` | Issuing, verifying and revoking bearer capabilities, and the admission that follows |
| `Capabilities_proofs` | Theorems about `Capabilities` |
| `Pagination` | A client that lists a scope over HTTP with expiring cursors; pages are those of `StoreAnswers` |
| `Discovery` | The adapter's three lookups, over a store that changes; objects and scopes are those of `FnsObjects` |
| `Discovery_proofs` | Theorems about `Discovery` and `Pagination` |
| `OpenMigrate` | Opening, creating and closing a database file |
| `OpenMigrate_proofs` | Theorems about `OpenMigrate` |
| `RelayProcess` | One relay process: assembly, requests, drain, exit |
| `RelayProcess_proofs` | Theorems about `RelayProcess` |
| `ArchivePipeline` | Archive, off-provider copy and restore drill |
| `ArchivePipeline_proofs` | Theorems about `ArchivePipeline` |
| `MCSqliteStore`, `MCBlobStore`, `MCRelay`, `MCCapabilities`, `MCPagination`, `MCDiscovery`, `MCRelayProcess` | Instances for TLC; `OpenMigrate` and `ArchivePipeline` are run as they are |

How they fit: `SqliteStore` implements `AtomicStore`, so a page or an export is
one instant, which is how `Pagination` and `Relay` use the database. `Relay`
instantiates `BlobStore`. `RelayProcess` takes a publication as the one step
`Relay` shows it to be for others, and `Capabilities` looks into the moment
before it, where `Relay` only knows whether a capability is valid.

Definitions whose comment begins with "Variant" are faulty versions of the
definition that follows them. No specification uses them: they serve to check
that each property notices the fault.

### SqliteStore and the code

A connection `c` runs one call at a time: `call[c]` is the request, `pc[c]` the
next statement, `seen[c]` what earlier statements returned, `view[c]` the
snapshot of an open read transaction, `reply[c]` the last answer. `db` is the
committed content of the file. `ImportSnapshot` and `AppendEntries` are the two
`BEGIN IMMEDIATE` transactions and take effect in one step, with every refusal
before the commit leaving `db` alone. `setCoverage` is two steps, `ReadRevision`
and `UpsertCoverage`, as in the code. Reads go through `ReadMetadata`,
`ReadObjects` (once per chunk for release lookups) and one coverage step:
`ReadScopeCoverage`, `ExportCoverage` or `VerifyCoverage`. Whether these
statements see a snapshot or the latest commit is decided by `InTransaction`,
which holds of pages and exports only. `AccessError` is a statement that fails
(busy, I/O) and closes the transaction. `history` records what each revision was
committed with, for the properties.

Taken as given is what SQLite promises the code: an immediate transaction is
atomic and exclusive, a deferred read transaction sees one snapshot in WAL mode,
and a commit with `synchronous = FULL` survives. JSON, ObjectIds and texts are
values compared for equality; only the order of ids matters and is kept.

### BlobStore and the code

`dir` is the directory as processes see it, `durable` the part of it a power loss
cannot take. `putIfAbsent` is `ReadExisting`, `WriteTemporary`, `Link`, then
`SyncDirectory`, or on EEXIST `Reread` before it. The first path in
`ReadExisting` returns without a sync, as lines 102-109 of the code do.
`restoreBlobs` is the same steps over a batch that stops at the first error.
`exportBlobs` reads one blob per step. `FileError` is any operation that throws,
`Die` the death of processes, `PowerLoss` keeps any directory between `durable`
and `dir`. Listing a directory is one step; the order of a batch or export is
left open, which includes the sorted order of the code. Temporary files are not
modelled: their names never match a blob's, and each put makes its own.
`stored` is a history of what was acknowledged after a sync.

### Relay and the code

`request[q]` is a publication between two awaits: `Publish` runs up to the await
of `verifyBearer`, `Admit` from the policy's answer into `putIfAbsent`,
`PublishImmutable` is the append, `Respond` the answer, which may be lost.
`ThreadIsFree` says that `putIfAbsent`, which never yields between its file
operations, keeps the server's thread. With the default policy all awaits
resolve at once; with an asynchronous `evaluate` publications do interleave, and
the model allows it always. `BeginRestore`/`RestoreSnapshot` and
`BeginExport`/`FinishExport` are admin processes. `StopServer`, `RestoreDies`,
`PowerLoss` and `BlobError` are the failures. `Revoke` is a revocation or an
expiry. The candidate database is the map of visible candidates: that an append,
an import and an export are single steps on it is what the `SqliteStore`
modules show. Two operating rules of the documents are assumed: a restore runs
only while the server is down (`apps/public-relay/README.md:66-68`), and one at
a time.

`abandoned` is a history variable: the ids for which a put was cut off between
link and directory sync. See the second finding.

### Capabilities and the code

An admin command reads the clock and then runs its one statement: `Issue` and
`Revoke` are the first half, `Insert` and `Update` the statement, after whatever
wait for the database lock. `VerifyBearer` is the lookup and its comparisons,
`Admit` and `Reject` the return of the policy, any time later. Time passes in
ticks, several to a second; `nowSeconds` floors them as `#nowSeconds` does.
`verifyBearer` reads the row and then the clock in one synchronous call, which is
one step at the moment of the row: a second that ends in between can only turn an
acceptance into a 401. A token is an id and a secret, ids may collide (`Insert` then fails), and the HMAC
is represented by the secret.

### Pagination and the code

A scope stands for a route and its query. `Parse` is a discovery route up to its
await, `Refuse` its 400, `AnswerPage` and `TooLarge` what `paginateEnvelope` and
`writeJson` make of the page the store returns. The client is the one the
protocol implies: it follows cursors, repeats a request whose answer was lost
(`LoseAnswer`), asks for less after a 413, starts over when its cursor is
refused, and may send a cursor with another query. Around it, `Append`,
`Declare`, `Restore` and `Rotate` are the writers and the restart with a new
secret, and `Tick` the clock. `listing` is a history of what the scope held
since the listing began. Signatures are the secret they are made with. The
specification and its parts are called `ListingSpec`, `ListingInit` and so on, so
that `Discovery_proofs` can extend `Pagination` and `Discovery` together.

### Discovery and the code

`Discover` is the call, `Answer` an answer of either first lookup, in either
order, `NormalizeBindings` the check of the bindings after both have arrived,
`AnswerReleases` the second lookup, `Merge` the rest of `discoverFromStore`. An
answer may be no envelope, and a lookup may throw. The store is
`memory-store.js` (`put`, `setCompleteness`) or one whose content is replaced
(`Replace`). The resolver itself is another package; `result` is what it gets.

### OpenMigrate and the code

`process[p]` is a constructor call at its next statement. `Construct` opens the
file, which a writer creates; `ReadVersion` is the pragma outside any
transaction, `BeginImmediate`, `Migrate` and `Commit` the migration, with
`draft` what the transaction has written; `CheckSchema` is the check of an
existing file. The journal mode, which the constructor sets before it reads the
version, is not part of `file`. Each statement may fail, and a process may be killed
(`Crash`), in which case SQLite forgets the draft.

### RelayProcess and the code

`pc` is how far the assembly has come; `store` says which databases are open,
`server` and `socket` what Node's HTTP server knows, `handler[c]` the request on
a connection between two awaits, `shutdown` the variables of
`installShutdownHandler`. A store may fail a request at any time, open or closed
(`Unavailable`, the 503 of a `StoreAccessError`), so the status of an answer does
not tell whether a database was closed: the history `answer` notes it. Assembly is one synchronous call, split where another
process could create a file. `Signal`, `DeadlinePasses`, `FinalDeadlinePasses`
and `ServerCloses` are its four callbacks, `finish` what they share.
`AcceptFails` is an error event of a server that goes on listening. Node's part
is external: closing a server closes idle connections and calls back when none
is left; a process without sockets, timers and server ends with its exit code.

### ArchivePipeline and the code

Three scripts, each a sequence of commands that may stop anywhere
(`ArchiveStops`, `CopyStops`, `Fail`, `DrillDies`) and leave behind what it
wrote. `StartArchive`, `Stage` and three `Move`s are `archive.sh`;
`SelectManifest`, `Upload`, `WriteReceipt`, `CopyReceipt` are
`off-provider-copy.sh`; `SelectReceipt` or `SelectArchive`, `Download`, `Succeed`
are `restore-drill.sh`, on the host `host`. A content is its stamp and whether
it is the export's or damaged; `Upload` may damage and `Rot` damages, any file of
the verified directory or of the remote; `rotten` is a history of what rotted.
Receipts do not rot; damage to a checksum or a manifest is taken to reach the
checksum in it; and a rotten manifest still has the archive's name in it, as one
without it is refused wherever it is read. systemd's
timeouts are the bounds on a job's age, and one instance of a job runs at a time.

## Runs

| Run | Instance | Shows |
| --- | --- | --- |
| `store_writers` | two writers, one reader that pages and exports, two revisions | pages and exports are one revision, never a false corruption report; revisions name contents; `SqliteStore` implements `AtomicStore` |
| `store_single_writer` | one writer, one reader that discovers and verifies, two revisions, edge cases of batches and declarations | with one writer `complete: true` is exact, although discovery is not atomic |
| `store_torn_find` | as `store_single_writer`, two labels | violated: a discovery answer of no revision, or a corruption report about an intact file |
| `blobs` | two processes, two ids, two contents | durable, write-once, refinement of `WriteOnceStore` |
| `relay` | two publications at once, two ids, two contents, two archives | the Relay's promises under conflicting publications, retries, restores that stop half way, exports and failures |
| `relay_unsynced` | one publication, one id | violated: a visible candidate whose blob is gone |
| `capabilities` | two admin processes, two publications, one token id, two secrets | admissions were authorized in time; one revocation wins, and is final |
| `pagination` | one client, four objects in two scopes, pages of one and two, cursors of one second | listings are sound, miss nothing, are exact when complete, and end |
| `discovery` | one discovery over four ids that may change their meaning, with objects put under the commune's own id | nothing is missed, contradictions are refused, incompleteness is reported |
| `open` | two processes, two configurations, one death | files are whole, the first opener names them, openers get in |
| `process` | two connections, two candidates, two placements of the databases | requests keep their databases, answers are true, nothing is served after an error of the server, clean exits are drained, drains and shutdowns end |
| `archive` | three moments, drills on either host or none, one damage | manifests are complete, receipts of exports, the latest of the newest; drills restore exports |

Type invariants are checked by a run in `SqliteStore`, `BlobStore` and
`Capabilities`, where they say something of the code, and are part of a proved
invariant in every module.

### Bounds, and why they are enough

* `MaxRevision` bounds commits: two, so that a read can meet the commit it
  started from, one in its middle and none after; three revisions (0, 1, 2) let
  a call skip one. In `Pagination` it bounds appends and replacements: a commit
  between each two of three pages. Writers only refuse what is wrong once the
  bound is reached.
* Objects: a binding with two conflicting representations, its release, a commune
  update. Conflicts, moves between scopes and pages with a successor all occur;
  in `MCPagination` one object is larger than an answer may be.
* `ChunkSize = 1` with two binding ids makes a release lookup of two statements;
  the code's chunk is 900 ids.
* Blob and Relay models need no bound on steps: their state is finite. Two ids
  let a batch stop in the middle; two contents let ids conflict; two publications
  are enough for a race, since a put only ever meets one other entry.
* `MaxTime` stops the clock. `Capabilities`: two seconds of two ticks, with
  expiries at both. `Pagination`: three ticks and a lifetime of one second of two
  ticks, so that cursors expire and are replaced. `ArchivePipeline`: three
  moments, so that a job can overlap one other and be followed by a third; with
  drills, `MaxDrillingTime` leaves two moments, enough for a copy before and a
  copy during a drill. `MaxArchiveTime`, `MaxCopyTime` and `MaxDrillTime` are the
  limits of the jobs themselves, one moment.
* `MaxSecrets = 2`: one rotation. `MaxFaults = 1`: one damaged upload or rotten
  file, at any artifact and time, on the host or on the remote. Damaged artifacts
  all differ, so that a second damage cannot make the first one agree with
  anything. It is also why a drill of this model never needs the receipt's
  checksum (`restore-drill.sh:91-93`): archive, checksum and manifest that agree are
  the export. The comparison guards against replaced archives, which do not occur
  here.
* `MaxCrashes = 1` in `OpenMigrate`: one death at any statement; statements that
  fail are not bounded.
* One token id and two secrets: collisions of ids, wrong secrets and reuse after
  a failed insert. Two connections: one that is served while another is cut.
* Failures are otherwise unlimited in number.
* Symmetry is used on writers, requests and admin processes, and in no instance
  with a liveness property.
* `MCRelay.cfg` has a `VIEW` without `stored`, the history of `BlobStore`: no action
  reads it and no property of that run mentions it; `MCBlobs.cfg` checks it.
* The jobs of `archive` may come to rest at the end of time, so deadlock is not
  checked there; it is in every other run.

### Fairness

The safety properties need none. Liveness is stated in three places.

* `Pagination!FairSpec`: the client goes on with its own listing (weak), and of
  the answers to a request that it repeats not all are lost (strong fairness of
  `Serve`). Nothing is assumed of writers and clock. `ListingsEnd` needs the
  server to make progress in the cursor, not the network.
* `OpenMigrate!FairSpec`: a process that does not have the file open tries again,
  its statements do not all fail, and a write lock that is free again and again
  is obtained: SQLite's busy handler waits for it, five seconds by default. The
  others owe nothing and may fail or be killed in the middle.
* `RelayProcess!TimerSpec`: the two timers fire. That is all `DrainEnds` needs: the
  exit code is settled even if Node never calls back. `ShutdownEnds` assumes in
  addition, in its own statement, that callbacks run (`CallbacksRun`): the
  server's, the event loop's end, and the steps of a request the process itself
  takes. Clients owe nothing: the deadline cuts them.

## Findings

1. **A discovery call can mix two revisions** (`store_torn_find`). The three
   `find*` methods read metadata, objects and coverage in separate statements
   (`src/sqlite-store.js:765` and its siblings); an import by the one writing
   process in between gives a label of one revision with the objects of the
   next, where `STORE-INTERFACE-V0-FREEZE.md:17` promises call-time snapshot
   semantics. Or the coverage row is ahead of the metadata read before, and
   `src/sqlite-store.js:377` reports `E_STORE_INTEGRITY` of an intact file, which
   `SQLITE-STORE.md:59` defines as damage. A mixed answer is never marked complete
   when there is one writer (`CompleteFindsAreExact`); with two writers not even
   that holds. Pages and exports are immune: proved.
2. **A retried publication may not be durable** (`relay_unsynced`).
   `filesystem-blob-store.js:102-109` acknowledges a blob that it finds without
   syncing the directory. When the put that linked it was cut off before its
   sync, a retry publishes the candidate and a power loss takes the blob.
   `RELAY-V1-RFC.md:76` and `relay-local/README.md:8-12` promise the opposite.
   This is the only way: `VisibleCandidatesHaveDurableBlobs` holds for every id
   outside `abandoned`.

Observations made while modelling, without a run of their own:

* Of two processes that open a new file for writing, the second reads version 0,
  waits for the first one's migration and then throws `E_STORE_INTEGRITY`
  (`src/sqlite-store.js:183`) about a file in perfect order; opening it again
  works. `OpenMigrate` has this step; `FirstOpenerNamesTheSource` and
  `OpenersGetIn` hold in spite of it.
* `check-slos.sh:41` takes the age of the newest receipt, which is as young as the
  copy job and not as the archive it copied. When archiving has been failing, a
  fresh receipt may name an old archive.
* Two processes that declare coverage, against the rule of one writer: a
  `setCoverage` that read its revision before the other's commit replaces a newer
  declaration by an outdated one (`src/sqlite-store.js:647`). The newer one is lost,
  and pages and exports say incomplete, never falsely complete.
* The constructor switches a file to WAL (`src/sqlite-store.js:737`) before it reads
  its version: a file of a newer version, which it then refuses, may have been
  written to.
* `off-provider-copy.sh:36-39` compares the uploaded checksum and manifest with the
  local files only. One that rots after the archive was selected, or a manifest
  that rotted before, is copied, agrees with itself and gets a receipt;
  `ReceiptsNameExports` names this exception. A later drill fails at the mismatch
  (`restore-drill.sh:94-100`), which is then the first to notice.
* A publication whose answer exceeds the response limit is committed and then
  answered with 413 (`server.js:23`). `AnswersTellTheTruth` names this exception.
* After an error event of a server that is still listening (`start.js:104`),
  no request that needs a database is served until the process is asked to stop
  (`NothingIsServedAfterAnError`), and that stop exits with 0.
* `finish` sets the exit code and never ends the process: when the server does
  not call back after the cut, the databases are closed but the process stays.
* The archive scripts sync nothing; a power loss may leave a manifest of no bytes
  that counts as the latest.

## Proofs

`tlapm` checks every step of the eight `_proofs` modules. The assumptions are the
named `ASSUME`s of the modules: what the inputs are (`BatchesAreEntries`,
`DeclarationsAreScoped` and the like), that ids are finitely many integers so
that they are ordered, that 0, which stands for the start of a listing, is none
of them, that a second has ticks, and that `Absent` and `None` are no value of the
kind they stand in for. The sets of connections, objects, scopes, processes,
requests, tokens, sources and ids are arbitrary, and so are the bounds.

Each module proves one inductive invariant, a conjunction of named parts, with
one lemma per action, and draws its theorems from it. The invariants were checked
by TLC on the instances of the runs before they were proved.

**SqliteStore.** `TypeOK` needs that a call is only ever at a statement it has
(`CallsAreAtTheirStatements`); together they are `TypeInv`. For the other
theorems the inductive invariant `SnapshotInv` adds

* `VersionsAreFaithful`: the current content is the one `history` has for the
  current revision, and coverage rows that claim completeness for a revision were
  declared for it;
* `TransactionsFollowSnapshots`: what a page or export has seen so far is its
  snapshot's, and the snapshot is a content the file had;
* `AnswersAreGood`: the last answer agrees with the history.

The type invariant alone says nothing of what an unfinished call has seen, so
none of the safety properties is inductive by itself. A commit extends `history`
without changing its past; the operator `Continues` names this, and one lemma
per part shows that a statement about past revisions survives it. From
`SnapshotInv` follow `NoFalseAlarmInTransactions`, `ExportsAreConsistent`,
`PagesAreSlices` and, with `RevisionStep`, `RevisionsNameContents`.

For pages the invariant must know what `LIMIT limit + 1` returns (`PageRows`), and
the lemmas on `FirstIds` say what its extra row tells: the first `n` ids of a set
are an initial part of it with at most `n` members, all of it unless some id has
exactly `n` before it (`FirstIdsComeFirst`, `FirstIdsCount`, `WitnessRowIsCut`).
Least and greatest ids come from the well-foundedness of the naturals, as
induction with a predicate is out of reach.

`PagesAndExportsAreAtomic` is the refinement. A reader takes effect at its first
statement inside the transaction, where it takes its snapshot
(`ReadMetadataIsAtomic`); the statements after it are stutters
(`SnapshotsAreOfTransactions` says that only pages and exports hold one), and its
answer is that of the snapshot (`PageIsOfItsSnapshot`, `ExportIsAtomic`). A write
takes effect at its commit (`WriterIsAtomic`).

One more theorem has the hypothesis `OneWriter`, that at most one connection
writes, which is the deployment rule of `DEPLOYMENT.md:5-10` and the setting of
`store_single_writer`; finding 1 says what happens without it. `FindInv` then
follows a find through its statements: what it has read is its scope at the
metadata's revision for as long as that is the current one
(`FindsFollowTheRevision`), every stored declaration is for the current revision
(`RowsAreCurrent`) and so is one being written (`DeclarationsAreInTime`). A commit
in the middle moves the revision, and a find that has seen the earlier one can no
longer say complete: `CompleteFindsAreOfOneRevision`.

**BlobStore.** `BlobInv` is `TypeOK`, `StoredBlobsAreDurable` and two facts about
puts: they are at an id of their batch, and whoever is about to sync sees its own
content under the name. The second is what makes an fsync vouch for the right
content after an EEXIST. It is preserved because a link never replaces an entry
and a power loss ends every put. `DirectoryIsWriteOnce` then maps `Link` to
`Write`, `SyncDirectory` to `Promise`, `PowerLoss` to `Forget` of the ids that
disappeared, and everything else to a stutter.

**Capabilities.** `CapInv` adds to `TypeOK`, `AdmissionsWereAuthorized` and
`OneRevocationWins` what a request holds on to while the policy is awaited
(`RequestsWereVerified`): without it nothing says that the scopes an admission
uses are those of a row. The lemma `RowsContinue` says that the one thing that
happens to an issued row is its first revocation; all the rest of an
interleaving follows from it. `FlooredBelow` is the arithmetic of the expiry: a
clock whose floor is below the expiry is below it.

**OpenMigrate.** `OpenInv` adds what a constructor call has learnt from the file
(`AttemptsKnowTheFile`) and what a transaction knows because nobody else writes
(`TransactionsHoldTheFile`): its draft is the file, and then the first schema of
a file without one. `FirstOpenerWins` follows, as a step that would rename a
source would have to be such a commit. Liveness (`OpenersGetIn`) stays with TLC.

**Relay.** `RelayInv` is about which blobs the disk has for good (`Settled`): an
entry that a power loss could take is about to be synced or belongs to a put
that was cut off (`UnsyncedEntriesAreWatched`), since at most one put is under way
(`OnePutAtATime`: the server's thread, and a restore only when it is down). A put
that returned has settled all of its batch (`BatchesProgress`), and whatever is
visible, answered or being exported is settled (`PromisesAreSettled`). This is why
an id found without a sync is safe outside `abandoned`: the one entry another put
could have left unsynced would still have its put. `VisibleCandidatesAreDurable`,
`AnsweredPublicationsStay`, `AnsweredPublicationsNeverFork` and
`ExportsFindTheirBlobs` follow. `RelayUsesTheStoreAsSpecified` shows that every
step of the Relay is a step of `BlobStore` or leaves it alone, so that the
theorems of `BlobStore_proofs` hold of the Relay's directory
(`RelayBlobsAreWriteOnce`).

**Discovery.** `DiscoveryInv` says of each answer, as long as objects were only
added since the call (`AnswersAreSound`), that it lies within the store, belongs
to its scope and has all of the scope that was there at the start: `Selected`
grows with the store (`SelectedGrows`), so the order of the answers does not
matter. The attempt to prove `DiscoveryMissesNothing` in its first form failed,
and the model showed why: a binding document that is put under the commune's own
id during the discovery may be found by that id only, among the commune's
documents, and its releases are then never looked up. The property now leaves out
that one id, unless it was there at the start, and `MCDiscovery` puts such an
object.

**Pagination.** `ListingInv` relates three things: while a client lists, the scope
lies between what was in it always and what was in it ever, and the two are equal
if the database has a declaration that no operator made meanwhile
(`HistoryIsCurrent`, as every commit discards the declarations); up to the mark of
its cursor the client has all that was there always (`ListingsAreSound`); and a
request asks from that mark (`ListingShape`). `CursorMarksPage` and `PageExtends`
say what a page adds: it gives an initial part of what follows the mark, its last
id is the next mark, and without a further page it gives all. The proof found a
case the model had left open, an id equal to the 0 that stands for the start: it
would never be listed; no ObjectId is before the first, hence
`IdsComeAfterTheStart`. `CursorsLive` is the arithmetic of two clocks rounded
down, for every lifetime and every length of a second. That a page is one moment
of the database, which this module takes for granted, is
`PagesAndExportsAreAtomic`, and `ListedDatabaseIsAtomic` shows that the database it
lists changes only as `AtomicStore` lets one.

**ArchivePipeline.** `ArchiveInv` says where the files under a stamp come from
(`FilesHaveOrigins`), that the archive in the making has the latest stamp of all
and gets its files in order (`ArchiverProgress`), that manifests are completed in
the order of their stamps (`ManifestsInOrder`), which is why the latest by time is
the newest, and that a copy in progress is of a verified archive that is not
older than any with a receipt (`CopierProgress`). An archive that agrees with its
checksum is the export (`DamageShows`), so the checksum a copy was selected with is
the export's even if both files rot afterwards. The four properties follow for
any number of moments, faults and hosts and any limits of the jobs.

**RelayProcess.** `ProcessInv` has the one fact a shutdown hangs on,
`OpenUntilFinished`: a running process that has neither finished its drain nor
met an error of the server has both databases open, and one that met an error has
both closed; and `NoneLeft`: who was asked
to stop accepts nobody, and who cut its connections or has finished has none.
Together they give `NoClientMeetsAClosedDatabase` and `ClientsAreToldTheTruth`,
whichever of the callback and the two deadlines comes first. The second half of
`OpenUntilFinished` gives `ErrorsEndTheService`, as every way a request can go on
needs an open database (`FailedServe`). `CodesAreEarned` says
why a process ends as it does, from which `ZeroMeansDrained`, an action property,
follows.

### Only model-checked

The four liveness properties, `ListingsEnd`, `OpenersGetIn`, `DrainEnds` and
`ShutdownEnds`: liveness under fairness and ENABLED are out of the prover's reach.
The two runs that expect a violation are TLC's by nature. Induction over data and
RECURSIVE operators are out of reach as well and occur in no module.

## Plan

To model: power loss in the archive scripts, in the way of `BlobStore`; the check
of the objectives against the ages it stands for; `compareText` against the order
it stands for, on bounded texts; the validation of requests.

To prove: that a `Relay` over `SqliteStore`, instead of the one-step map of
candidates, makes the same promises.

## Not modelled

Text and JSON (escaping, canonical form, digests, signatures), HTTP routing and
headers, configuration and secrets, logging; the online backup, which is
better-sqlite3's; `check-slos.sh` and `alert.sh`, which only report; the shell
scripts that set up hosts, build images and run smoke tests, whose state lives
in docker and tailscale. Damage to database and blob files by others is not
modelled, so checks of stored data that only damage could fail never fire.

## Running

    tlc -workers 2 -config MCRelay.cfg MCRelay.tla
    tlapm BlobStore_proofs.tla

`PROJECT.json` has the module and configuration file of each run.
