------------------------------- MODULE Relay -------------------------------
(***************************************************************************)
(* LocalReferenceRelay and the admin CLI over one candidate database and   *)
(* one blob directory (relay-v1/packages/relay-local, apps/public-relay).  *)
(*                                                                         *)
(* A publication is verified, admitted, written to the blob directory and  *)
(* only then appended to the candidate database; each of these is awaited, *)
(* so publications interleave between them, but putIfAbsent itself runs    *)
(* without yielding the server's only thread.  An export runs in a process *)
(* of its own while the server serves: it takes a snapshot of the          *)
(* candidates and then reads their blobs one by one.  A restore replaces   *)
(* the candidates while the server is down.  The server and the CLI may    *)
(* die, any file operation may fail, and the machine may lose power.       *)
(*                                                                         *)
(* The candidate database appears as what SqliteStore shows it to be: an   *)
(* append, an import and an export each take effect at one instant, and a  *)
(* commit (synchronous = FULL) survives a power loss.                      *)
(***************************************************************************)
EXTENDS FiniteSets

CONSTANTS
    Requests,       \* publications the server handles at the same time
    Importer,       \* the CLI process that restores an archive
    Exporter,       \* the CLI process that exports one
    Ids,            \* ObjectIds
    Reps,           \* canonical representations of candidate objects
    Absent,         \* no blob, no candidate
    ContextOf,      \* [Reps -> the context a payload names, or Absent]
    Archives,       \* archives an operator may restore, by their blobs
    Capabilities,   \* bearer capabilities that were issued
    Scopes          \* [Capabilities -> the scopes each was issued with]

ASSUME ProcessesAreDistinct ==
    Importer \notin Requests /\ Exporter \notin Requests /\ Importer # Exporter

ASSUME AbsentIsNothing == Absent \notin Ids \cup Reps \cup [Ids -> Reps \cup {Absent}]

ASSUME ArchivesAreBlobs == Archives \subseteq [Ids -> Reps \cup {Absent}]

Procs == Requests \cup {Importer, Exporter}

VARIABLES
    dir, durable, call, stored,  \* the blob directory, see BlobStore
    candidates,     \* [Ids -> representation of the visible candidate, or Absent]
    up,             \* whether the server runs
    valid,          \* capabilities neither revoked nor expired
    request,        \* [Requests -> the publication being handled]
    archive,        \* what the CLI restores, or Absent
    exported,       \* the snapshot an export has taken, or Absent
    published,      \* history: publications answered with success
    abandoned       \* history: ids whose put ended between link and fsync

Store == INSTANCE BlobStore

blobVars == <<dir, durable, call, stored>>
relayVars == <<candidates, up, valid, request, archive, exported, published, abandoned>>
vars == <<blobVars, relayVars>>

Publications ==
    [pc : {"admit", "put", "respond"},
     id : Ids, rep : Reps, capability : Capabilities]
NoRequest == [pc |-> "idle"]

Init ==
    /\ Store!Init
    /\ candidates = Store!NoBlobs
    /\ up = FALSE
    /\ valid = Capabilities
    /\ request = [q \in Requests |-> NoRequest]
    /\ archive = Absent
    /\ exported = Absent
    /\ published = {}
    /\ abandoned = {}

-----------------------------------------------------------------------------
(***************************************************************************)
(* Publication.                                                            *)
(***************************************************************************)

\* The server's thread is free: no putIfAbsent is under way on it.
ThreadIsFree == \A q \in Requests : call[q].pc \in {"idle", "done"}

Go(q, from, to) ==
    /\ ThreadIsFree
    /\ request[q].pc = from
    /\ request' = [request EXCEPT ![q].pc = to]

\* The request is answered, with success or with an error.
Answer(q) == request' = [request EXCEPT ![q] = NoRequest]

\* isCandidateScopeGranted: every publication, this object, or its context.
Granted(capability, id, rep) ==
    \E scope \in Scopes[capability] :
        \/ scope.kind = "all"
        \/ scope.kind = "object" /\ scope.of = id
        \/ scope.kind = "context" /\ ContextOf[rep] # Absent /\ scope.of = ContextOf[rep]

\* verifyBearer: the capability is refused when it is revoked or expired.
Verified(capability) == capability \in valid

\* publish up to its first await; nothing changes when verifyBearer throws.
Publish(q, id, rep, capability) ==
    /\ up
    /\ ThreadIsFree
    /\ request[q].pc = "idle"
    /\ Verified(capability)
    /\ request' = [request EXCEPT ![q] =
                      [pc |-> "admit", id |-> id, rep |-> rep, capability |-> capability]]
    /\ UNCHANGED <<blobVars, candidates, up, valid, archive, exported, published, abandoned>>

\* admit has returned: the scopes granted the candidate and evaluate, which may
\* take its time, did not reject it.  putIfAbsent takes the thread and keeps it
\* until it returns.
Admit(q) ==
    /\ request[q].pc = "admit"
    /\ Granted(request[q].capability, request[q].id, request[q].rep)
    /\ Go(q, "admit", "put")
    /\ Store!PutIfAbsent(q, request[q].id, request[q].rep)
    /\ UNCHANGED <<candidates, up, valid, archive, exported, published, abandoned>>

\* admit has thrown.
Reject(q) ==
    /\ request[q].pc = "admit"
    /\ ThreadIsFree
    /\ Answer(q)
    /\ UNCHANGED <<blobVars, candidates, up, valid, archive, exported, published, abandoned>>

\* Variant: the outcome of the put is not looked at.
PublishImmutableAnyway(q) ==
    /\ request[q].pc = "put"
    /\ Store!Take(q)
    /\ candidates[request[q].id] \in {Absent, request[q].rep}
    /\ candidates' = [candidates EXCEPT ![request[q].id] = request[q].rep]
    /\ Go(q, "put", "respond")
    /\ UNCHANGED <<up, valid, archive, exported, published, abandoned>>

\* Variant: the row is replaced when the id is stored with another content.
PublishReplacing(q) ==
    /\ request[q].pc = "put"
    /\ call[q].result = "ok"
    /\ Store!Take(q)
    /\ candidates' = [candidates EXCEPT ![request[q].id] = request[q].rep]
    /\ Go(q, "put", "respond")
    /\ UNCHANGED <<up, valid, archive, exported, published, abandoned>>

\* publishImmutable: append the candidate, or refuse one that differs from the
\* stored one; the database may also be locked (access error).
PublishImmutable(q) ==
    /\ request[q].pc = "put"
    /\ call[q].result = "ok"
    /\ Store!Take(q)
    /\ \/ /\ candidates[request[q].id] \in {Absent, request[q].rep}
          /\ candidates' = [candidates EXCEPT ![request[q].id] = request[q].rep]
          /\ Go(q, "put", "respond")
       \/ /\ ThreadIsFree
          /\ Answer(q)
          /\ UNCHANGED candidates
    /\ UNCHANGED <<up, valid, archive, exported, published, abandoned>>

\* putIfAbsent threw: the publication ends without touching the candidates.
PutRefused(q) ==
    /\ request[q].pc = "put"
    /\ call[q].result # "ok"
    /\ ThreadIsFree
    /\ Store!Take(q)
    /\ Answer(q)
    /\ UNCHANGED <<candidates, up, valid, archive, exported, published, abandoned>>

\* The client gets 200 or 201, or the answer is lost on the way.
Respond(q) ==
    /\ request[q].pc = "respond"
    /\ ThreadIsFree
    /\ Answer(q)
    /\ \/ published' = published \cup {[id |-> request[q].id, rep |-> request[q].rep, current |-> TRUE]}
       \/ UNCHANGED published
    /\ UNCHANGED <<blobVars, candidates, up, valid, archive, exported, abandoned>>

\* revoke in another process, or the expiry of a capability.
Revoke(capability) ==
    /\ capability \in valid
    /\ valid' = valid \ {capability}
    /\ UNCHANGED <<blobVars, candidates, up, request, archive, exported, published, abandoned>>

-----------------------------------------------------------------------------
(***************************************************************************)
(* Restore and export.                                                     *)
(***************************************************************************)

\* restoreArchive in replace mode: the blobs first.  The operator has stopped
\* the server.  A verified archive holds one blob per candidate.
BeginRestore(blobs) ==
    /\ ~up
    /\ archive = Absent
    /\ archive' = blobs
    /\ Store!RestoreBlobs(Importer, blobs)
    /\ UNCHANGED <<candidates, up, valid, request, exported, published, abandoned>>

\* Variant: the blobs that are not in the archive are removed.
RestoreSnapshotAndCollect ==
    /\ archive # Absent
    /\ call[Importer].result = "ok"
    /\ Store!Finish(Importer, "none")
    /\ archive' = Absent
    /\ candidates' = archive
    /\ dir' = [id \in Ids |-> IF archive[id] = Absent THEN Absent ELSE dir[id]]
    /\ durable' = dir'
    /\ published' = {[a EXCEPT !.current = FALSE] : a \in published}
    /\ UNCHANGED <<stored, up, valid, request, exported, abandoned>>

\* ... then, in one transaction, the candidates; no blob is ever removed.
RestoreSnapshot ==
    /\ archive # Absent
    /\ Store!Take(Importer)
    /\ archive' = Absent
    /\ \/ /\ call[Importer].result = "ok"
          /\ candidates' = archive
          /\ published' = {[a EXCEPT !.current = FALSE] : a \in published}
       \/ UNCHANGED <<candidates, published>>
    /\ UNCHANGED <<up, valid, request, exported, abandoned>>

\* Variant: all blobs of the directory, whichever candidates the snapshot has.
BeginExportOfDirectory ==
    /\ exported = Absent
    /\ exported' = candidates
    /\ Store!ExportBlobs(Exporter, Store!Held(dir))
    /\ UNCHANGED <<candidates, up, valid, request, archive, published, abandoned>>

\* exportArchive: a snapshot of the candidates, then exportBlobs of their ids.
BeginExport ==
    /\ exported = Absent
    /\ exported' = candidates
    /\ Store!ExportBlobs(Exporter, Store!Held(candidates))
    /\ UNCHANGED <<candidates, up, valid, request, archive, published, abandoned>>

\* normalizeBlobs: one blob per candidate, with the candidate's content.
BlobsMatch(blobs, snapshot) ==
    /\ Store!Held(blobs) = Store!Held(snapshot)
    /\ Store!Within(blobs, snapshot)

\* ... and createRelayArchive of both; the archive is outside the system.
FinishExport ==
    /\ exported # Absent
    /\ Store!Take(Exporter)
    /\ exported' = Absent
    /\ UNCHANGED <<candidates, up, valid, request, archive, published, abandoned>>

-----------------------------------------------------------------------------
(***************************************************************************)
(* Steps of the blob store, and failures.                                  *)
(***************************************************************************)

BlobStep(p) ==
    /\ Store!PutStep(p) \/ Store!ReadBlob(p)
    /\ UNCHANGED relayVars

\* An entry that the process has linked, or found linked, and not yet synced.
Unsynced(p) == {id \in {call[p].at} : call[p].pc = "sync" /\ durable[id] = Absent}

\* A file operation fails; an entry that is already linked stays.
BlobError(p) ==
    /\ Store!FileError(p)
    /\ abandoned' = abandoned \cup Unsynced(p)
    /\ UNCHANGED <<candidates, up, valid, request, archive, exported, published>>

StartServer ==
    /\ ~up
    /\ archive = Absent
    /\ up' = TRUE
    /\ UNCHANGED <<blobVars, candidates, valid, request, archive, exported, published, abandoned>>

\* The server dies, or is stopped; its requests are forgotten.
StopServer ==
    /\ up
    /\ up' = FALSE
    /\ request' = [q \in Requests |-> NoRequest]
    /\ Store!Die(Requests)
    /\ abandoned' = abandoned \cup UNION {Unsynced(q) : q \in Requests}
    /\ UNCHANGED <<candidates, valid, archive, exported, published>>

\* The CLI is killed in the middle of a restore.
RestoreDies ==
    /\ archive # Absent
    /\ archive' = Absent
    /\ Store!Die({Importer})
    /\ abandoned' = abandoned \cup Unsynced(Importer)
    /\ UNCHANGED <<candidates, up, valid, request, exported, published>>

PowerLoss ==
    /\ Store!PowerLoss
    /\ up' = FALSE
    /\ request' = [q \in Requests |-> NoRequest]
    /\ archive' = Absent
    /\ exported' = Absent
    /\ UNCHANGED <<candidates, valid, published, abandoned>>

-----------------------------------------------------------------------------
Publication(q) ==
    \/ \E id \in Ids, rep \in Reps, capability \in Capabilities : Publish(q, id, rep, capability)
    \/ Admit(q)
    \/ Reject(q)
    \/ PublishImmutable(q)
    \/ PutRefused(q)
    \/ Respond(q)

Next ==
    \/ \E q \in Requests : Publication(q)
    \/ \E capability \in Capabilities : Revoke(capability)
    \/ \E blobs \in Archives : BeginRestore(blobs)
    \/ RestoreSnapshot
    \/ BeginExport
    \/ FinishExport
    \/ \E p \in Procs : BlobStep(p) \/ BlobError(p)
    \/ StartServer
    \/ StopServer
    \/ RestoreDies
    \/ PowerLoss

Spec == Init /\ [][Next]_vars

-----------------------------------------------------------------------------
(***************************************************************************)
(* Properties.                                                             *)
(***************************************************************************)

\* The shape of the state; publications are handled while the server runs and
\* archives are restored while it does not.
TypeOK ==
    /\ Store!TypeOK
    /\ candidates \in Store!Blobs
    /\ up \in BOOLEAN
    /\ valid \subseteq Capabilities
    /\ request \in [Requests -> Publications \cup {NoRequest}]
    /\ archive \in Store!Blobs \cup {Absent}
    /\ exported \in Store!Blobs \cup {Absent}
    /\ published \subseteq [id : Ids, rep : Reps, current : BOOLEAN]
    /\ abandoned \subseteq Ids
    /\ ~up => \A q \in Requests : request[q] = NoRequest /\ call[q].pc = "idle"
    /\ archive # Absent => ~up

\* A candidate is visible only when its blob, with the same content, is on the
\* disk: through retries, conflicting publications, restores that stop half
\* way, dead processes and power losses (RELAY-V1-RFC.md:76).  The ids
\* whose put was cut off between link and fsync are the exception.
VisibleCandidatesHaveDurableBlobs ==
    \A id \in Store!Held(candidates) \ abandoned : durable[id] = candidates[id]

\* No candidate is visible without its blob, whatever happened before:
\* relay-local/README.md:8-10.
VisibleCandidatesHaveBlobs == Store!Within(candidates, dir)

\* A publication that was answered with success stays visible, with the same
\* content, until an operator restores an archive.
PublicationsStayVisible ==
    \A a \in published : a.current => candidates[a.id] = a.rep

\* Two successful publications of one ObjectId have the same content, even
\* when a restore has removed the candidate in between: the blob remembers.
PublicationsNeverFork ==
    \A a, b \in published : a.id = b.id /\ a.id \notin abandoned => a.rep = b.rep

\* An export taken while the server publishes, or while a restore replaces the
\* candidates, finds every blob of its snapshot, and createRelayArchive never
\* refuses what it found (local-reference-relay.js:62-66, archive.js:16-27).
ExportsAreComplete ==
    /\ exported # Absent
    /\ call[Exporter].pc = "done" /\ call[Exporter].result # "access"
    /\ Store!Held(exported) \cap abandoned = {}
    => call[Exporter].result = "ok" /\ BlobsMatch(call[Exporter].blobs, exported)
=============================================================================
