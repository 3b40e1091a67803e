----------------------------- MODULE BlobStore -----------------------------
(***************************************************************************)
(* FileSystemBlobStore of relay-v1/packages/relay-local: one directory     *)
(* that holds one immutable file per ObjectId, written by several          *)
(* processes (the server, the admin CLI) and read by exports.              *)
(*                                                                         *)
(* A blob is written to a private temporary file, the file is fsynced and  *)
(* then LINKED under its final name, and the directory is fsynced so that  *)
(* the new entry itself survives a power loss.  The model therefore keeps  *)
(* two pictures of the directory: the entries every process sees, and the  *)
(* entries that are on the disk.  Temporary names never match the name of  *)
(* a blob, so they are not part of either.  The order in which a batch or  *)
(* an export visits the ids is left open.                                  *)
(***************************************************************************)
EXTENDS FiniteSets

CONSTANTS
    Procs,      \* callers of the store, each in one call at a time
    Ids,        \* ObjectIds
    Reps,       \* canonical representations (stableJson) of candidate objects
    Absent      \* the value of an id that has no entry

ASSUME AbsentIsNoRepresentation == Absent \notin Reps

VARIABLES
    dir,        \* directory entries as every process sees them
    durable,    \* directory entries a power loss cannot take away
    call,       \* [Procs -> the call a process is in]
    stored      \* history: what putIfAbsent acknowledged after an fsync

blobVars == <<dir, durable, call, stored>>

Blobs == [Ids -> Reps \cup {Absent}]
NoBlobs == [i \in Ids |-> Absent]
Held(b) == {i \in Ids : b[i] # Absent}

\* Every entry of small is an entry of large.
Within(small, large) == \A i \in Held(small) : large[i] = small[i]

PutSteps == {"read", "write", "link", "reread", "sync"}

Calls ==
    [pc : {"idle", "export", "done"} \cup PutSteps,
     at : Ids \cup {Absent},    \* the id whose blob is being put
     blobs : Blobs,             \* blobs still to put, or blobs exported so far
     todo : SUBSET Ids,         \* ids an export has still to read
     result : {"none", "ok", "conflict", "missing", "access"}]

NoCall == [pc |-> "idle", at |-> Absent, blobs |-> NoBlobs, todo |-> {}, result |-> "none"]

Finished(result) == [NoCall EXCEPT !.pc = "done", !.result = result]

Init ==
    /\ dir = NoBlobs
    /\ durable = NoBlobs
    /\ call = [p \in Procs |-> NoCall]
    /\ stored = {}

Rep(p) == call[p].blobs[call[p].at]

\* p ends its call with an answer or an error.
Finish(p, result) == call' = [call EXCEPT ![p] = Finished(result)]

Step(p, from, to) ==
    /\ call[p].pc = from
    /\ call' = [call EXCEPT ![p].pc = to]

\* The put of the current blob is acknowledged; a batch goes on with the next.
Acknowledge(p) ==
    LET rest == [call[p].blobs EXCEPT ![call[p].at] = Absent]
    IN  IF Held(rest) = {} THEN Finish(p, "ok")
        ELSE \E next \in Held(rest) :
                call' = [call EXCEPT ![p].pc = "read", ![p].at = next, ![p].blobs = rest]

-----------------------------------------------------------------------------
(***************************************************************************)
(* Writing.                                                                *)
(***************************************************************************)

\* restoreBlobs of a batch of blobs, one putIfAbsent after the other.
RestoreBlobs(p, blobs) ==
    /\ call[p].pc = "idle"
    /\ IF Held(blobs) = {} THEN Finish(p, "ok")
       ELSE \E first \in Held(blobs) :
                call' = [call EXCEPT ![p].pc = "read", ![p].at = first, ![p].blobs = blobs]
    /\ UNCHANGED <<dir, durable, stored>>

\* putIfAbsent is a batch of one.
PutIfAbsent(p, id, rep) == RestoreBlobs(p, [NoBlobs EXCEPT ![id] = rep])

\* #read of the final name: the same representation is acknowledged on the
\* spot, without an fsync of the directory; another one is an integrity error.
ReadExisting(p) ==
    /\ call[p].pc = "read"
    /\ \/ /\ dir[call[p].at] = Absent
          /\ Step(p, "read", "write")
       \/ /\ dir[call[p].at] = Rep(p)
          /\ Acknowledge(p)
       \/ /\ dir[call[p].at] \notin {Absent, Rep(p)}
          /\ Finish(p, "conflict")
    /\ UNCHANGED <<dir, durable, stored>>

\* writeDurableFile: the content is on the disk, under a private name.
WriteTemporary(p) ==
    /\ Step(p, "write", "link")
    /\ UNCHANGED <<dir, durable, stored>>

\* Variant: the temporary file is renamed over the final name.
RenameOver(p) ==
    /\ Step(p, "link", "sync")
    /\ dir' = [dir EXCEPT ![call[p].at] = Rep(p)]
    /\ UNCHANGED <<durable, stored>>

\* linkSync: the entry appears, unless another process was faster (EEXIST).
Link(p) ==
    /\ call[p].pc = "link"
    /\ \/ /\ dir[call[p].at] = Absent
          /\ dir' = [dir EXCEPT ![call[p].at] = Rep(p)]
          /\ Step(p, "link", "sync")
       \/ /\ dir[call[p].at] # Absent
          /\ Step(p, "link", "reread")
          /\ UNCHANGED dir
    /\ UNCHANGED <<durable, stored>>

\* Variant: after EEXIST the file that is there is taken for the right one.
RereadUnchecked(p) ==
    /\ Step(p, "reread", "sync")
    /\ UNCHANGED <<dir, durable, stored>>

\* After EEXIST: the other process must have linked the same representation.
Reread(p) ==
    /\ call[p].pc = "reread"
    /\ IF dir[call[p].at] = Rep(p) THEN Step(p, "reread", "sync") ELSE Finish(p, "conflict")
    /\ UNCHANGED <<dir, durable, stored>>

\* Variant: only the file is synced, as on a platform without directory handles.
SyncNothing(p) ==
    /\ call[p].pc = "sync"
    /\ stored' = stored \cup {<<call[p].at, Rep(p)>>}
    /\ Acknowledge(p)
    /\ UNCHANGED <<dir, durable>>

\* syncDirectory: every entry of the directory is on the disk.
SyncDirectory(p) ==
    /\ call[p].pc = "sync"
    /\ durable' = dir
    /\ stored' = stored \cup {<<call[p].at, Rep(p)>>}
    /\ Acknowledge(p)
    /\ UNCHANGED dir

-----------------------------------------------------------------------------
(***************************************************************************)
(* Reading.                                                                *)
(***************************************************************************)

\* exportBlobs of given ids; with none given, of the ids the directory lists.
ExportBlobs(p, ids) ==
    /\ call[p].pc = "idle"
    /\ IF ids = {} THEN Finish(p, "ok")
       ELSE call' = [call EXCEPT ![p].pc = "export", ![p].todo = ids]
    /\ UNCHANGED <<dir, durable, stored>>

\* One #read of the loop of exportBlobs.
ReadBlob(p) ==
    /\ call[p].pc = "export"
    /\ \E id \in call[p].todo :
          LET left == call[p].todo \ {id}
          IN  IF dir[id] = Absent THEN Finish(p, "missing")
              ELSE call' = [call EXCEPT ![p].blobs = [@ EXCEPT ![id] = dir[id]],
                                        ![p].todo = left,
                                        ![p].pc = IF left = {} THEN "done" ELSE "export",
                                        ![p].result = IF left = {} THEN "ok" ELSE "none"]
    /\ UNCHANGED <<dir, durable, stored>>

\* The caller takes the answer.
Take(p) ==
    /\ call[p].pc = "done"
    /\ call' = [call EXCEPT ![p] = NoCall]
    /\ UNCHANGED <<dir, durable, stored>>

-----------------------------------------------------------------------------
(***************************************************************************)
(* Failures.                                                               *)
(***************************************************************************)

\* Any file operation of the call may fail; a file already linked stays.
FileError(p) ==
    /\ call[p].pc \in PutSteps \cup {"export"}
    /\ Finish(p, "access")
    /\ UNCHANGED <<dir, durable, stored>>

\* Processes die; their directory entries stay in the cache of the system.
Die(dead) ==
    /\ call' = [p \in Procs |-> IF p \in dead THEN NoCall ELSE call[p]]
    /\ UNCHANGED <<dir, durable, stored>>

\* The machine loses power: an entry that was not synced survives or does not.
PowerLoss ==
    /\ dir' \in {b \in Blobs : Within(durable, b) /\ Within(b, dir)}
    /\ durable' = dir'
    /\ call' = [p \in Procs |-> NoCall]
    /\ UNCHANGED stored

-----------------------------------------------------------------------------
PutStep(p) ==
    ReadExisting(p) \/ WriteTemporary(p) \/ Link(p) \/ Reread(p) \/ SyncDirectory(p)

Next ==
    \/ \E p \in Procs :
        \/ \E id \in Ids, rep \in Reps : PutIfAbsent(p, id, rep)
        \/ \E blobs \in Blobs : RestoreBlobs(p, blobs)
        \/ \E ids \in SUBSET Ids : ExportBlobs(p, ids)
        \/ PutStep(p)
        \/ ReadBlob(p)
        \/ Take(p)
        \/ FileError(p)
    \/ \E dead \in (SUBSET Procs) \ {{}} : Die(dead)
    \/ PowerLoss

Spec == Init /\ [][Next]_blobVars

-----------------------------------------------------------------------------
(***************************************************************************)
(* Properties.                                                             *)
(***************************************************************************)

\* The shape of the state; what is on the disk is what the processes see of it.
TypeOK ==
    /\ dir \in Blobs
    /\ durable \in Blobs
    /\ Within(durable, dir)
    /\ call \in [Procs -> Calls]
    /\ stored \subseteq Ids \X Reps

\* A representation that putIfAbsent acknowledged after its directory fsync is
\* on the disk for good: no later put, conflicting batch, failed call, dead
\* process or power loss takes it away or replaces it, whichever of two racing
\* processes linked it (filesystem-blob-store.js:116-130).
StoredBlobsAreDurable ==
    \A b \in stored : durable[b[1]] = b[2]

\* Refinement mapping: the directory entries are the content, and the store
\* vouches for what it acknowledged after an fsync.
Abstract == INSTANCE WriteOnceStore WITH
    content <- dir,
    promised <- stored

\* The directory implements a write-once map: an id never changes its
\* representation while it has one, two racing writers never both win, and a
\* failure forgets only entries whose put never returned from its fsync.
ImplementsWriteOnceStore == Abstract!Spec
=============================================================================
