---------------------------- MODULE Relay_proofs ----------------------------
(***************************************************************************)
(* Theorems about Relay, for every set of requests, ObjectIds, contents,   *)
(* archives and capabilities: visible candidates have durable blobs,       *)
(* answered publications stay and never fork, exports are complete, and    *)
(* the Relay uses its blob directory only as BlobStore specifies.          *)
(***************************************************************************)
EXTENDS Relay, TLAPS

\* The blob store again, with its theorems.
Blob == INSTANCE BlobStore_proofs

-----------------------------------------------------------------------------
(* The inductive invariant. *)

Writers == Requests \cup {Importer}

\* A call on the blob store is under way exactly for a request that puts its
\* blob, a restore and an export; only exports read.
CallsFollowTheirOwners ==
    /\ \A q \in Requests : call[q].pc # "idle" <=> request[q].pc = "put"
    /\ call[Importer].pc # "idle" <=> archive # Absent
    /\ call[Exporter].pc # "idle" <=> exported # Absent
    /\ \A p \in Writers : call[p].pc # "export"
    /\ call[Exporter].pc \in {"idle", "export", "done"}

\* The server's one thread and the stopped server leave the directory to one
\* put at a time.
OnePutAtATime ==
    \A p, o \in Procs : call[p].pc \in Store!PutSteps /\ call[o].pc \in Store!PutSteps => p = o

\* An entry that a power loss could take is about to be synced, or its put was
\* cut off.
UnsyncedEntriesAreWatched ==
    \A id \in Ids : dir[id] # durable[id] =>
        \/ id \in abandoned
        \/ \E p \in Procs : call[p].pc = "sync" /\ call[p].at = id

\* The blob rep, if any, of id is on the disk for good.
Settled(id, rep) == rep = Absent \/ id \in abandoned \/ durable[id] = rep

AllSettled(blobs) == \A id \in Ids : Settled(id, blobs[id])

\* The blobs a writer was asked to put.
Batch(p) == IF p = Importer THEN archive
            ELSE [Store!NoBlobs EXCEPT ![request[p].id] = request[p].rep]

\* What a writer has not still to put is settled.
BatchesProgress ==
    \A p \in Writers :
        /\ call[p].pc \in Store!PutSteps =>
              \A id \in Ids : call[p].blobs[id] = Batch(p)[id] \/ Settled(id, Batch(p)[id])
        /\ call[p].pc = "done" /\ call[p].result = "ok" => AllSettled(Batch(p))

\* Whatever is visible, being exported or was answered is settled.
PromisesAreSettled ==
    /\ AllSettled(candidates)
    /\ exported # Absent => AllSettled(exported)
    /\ \A a \in published : Settled(a.id, a.rep)

\* A request that is about to be answered is for a visible candidate.
AnswersAreVisible ==
    \A q \in Requests : request[q].pc = "respond" => candidates[request[q].id] = request[q].rep

\* What an export has read and has still to read are its snapshot.
ExportsProgress ==
    /\ call[Exporter].pc = "export" \/ call[Exporter].result = "ok" =>
        \A id \in Ids :
            /\ exported[id] = Absent => call[Exporter].blobs[id] = Absent /\ id \notin call[Exporter].todo
            /\ exported[id] # Absent => \/ id \in call[Exporter].todo \cup abandoned
                                        \/ call[Exporter].blobs[id] = exported[id]
    /\ call[Exporter].result = "ok" => call[Exporter].todo = {}
    /\ call[Exporter].result = "missing" => Store!Held(exported) \cap abandoned # {}
    /\ call[Exporter].pc = "done" => call[Exporter].result \in {"ok", "missing", "access"}
    /\ call[Exporter].pc # "done" => call[Exporter].result = "none"
    /\ call[Exporter].pc = "idle" => call[Exporter].blobs = Store!NoBlobs

RelayInv ==
    /\ TypeOK
    /\ Blob!BlobInv
    /\ CallsFollowTheirOwners
    /\ OnePutAtATime
    /\ UnsyncedEntriesAreWatched
    /\ BatchesProgress
    /\ PromisesAreSettled
    /\ AnswersAreVisible
    /\ PublicationsStayVisible
    /\ ExportsProgress
-----------------------------------------------------------------------------
(* The Relay uses its blob store as specified. *)

LEMMA AbsentIsNoRep == Absent \notin Reps /\ Absent \notin Store!Blobs
BY AbsentIsNothing DEF Store!Blobs

\* One store under two names.
LEMMA SameCalls ==
    /\ Store!Blobs = Blob!Blobs /\ Store!NoBlobs = Blob!NoBlobs
    /\ Store!Calls = Blob!Calls /\ Store!NoCall = Blob!NoCall
    /\ Store!TypeOK <=> Blob!TypeOK
    /\ \A b : Store!Held(b) = Blob!Held(b)
    /\ \A p, result : Store!Finish(p, result) <=> Blob!Finish(p, result)
BY DEF Store!Blobs, Blob!Blobs, Store!NoBlobs, Blob!NoBlobs, Store!Calls, Blob!Calls, Store!PutSteps,
   Blob!PutSteps, Store!NoCall, Blob!NoCall, Store!TypeOK, Blob!TypeOK, Store!Within, Blob!Within,
   Store!Held, Blob!Held, Store!Finish, Blob!Finish, Store!Finished, Blob!Finished

LEMMA SamePuts ==
    ASSUME NEW p
    PROVE  Store!PutStep(p) <=> Blob!PutStep(p)
<1> USE DEF Store!Rep, Blob!Rep, Store!Step, Blob!Step, Store!Finish, Blob!Finish, Store!Finished, Blob!Finished,
        Store!NoCall, Blob!NoCall, Store!NoBlobs, Blob!NoBlobs, Store!Held, Blob!Held,
        Store!Acknowledge, Blob!Acknowledge
<1>1. Store!ReadExisting(p) <=> Blob!ReadExisting(p)
  BY DEF Store!ReadExisting, Blob!ReadExisting
<1>2. Store!WriteTemporary(p) <=> Blob!WriteTemporary(p)
  BY DEF Store!WriteTemporary, Blob!WriteTemporary
<1>3. Store!Link(p) <=> Blob!Link(p)
  BY DEF Store!Link, Blob!Link
<1>4. Store!Reread(p) <=> Blob!Reread(p)
  BY DEF Store!Reread, Blob!Reread
<1>5. Store!SyncDirectory(p) <=> Blob!SyncDirectory(p)
  BY DEF Store!SyncDirectory, Blob!SyncDirectory
<1>6. QED
  BY <1>1, <1>2, <1>3, <1>4, <1>5 DEF Store!PutStep, Blob!PutStep

LEMMA SameActions ==
    ASSUME NEW p
    PROVE  /\ \A blobs : Store!RestoreBlobs(p, blobs) <=> Blob!RestoreBlobs(p, blobs)
           /\ \A id, rep : Store!PutIfAbsent(p, id, rep) <=> Blob!PutIfAbsent(p, id, rep)
           /\ \A ids : Store!ExportBlobs(p, ids) <=> Blob!ExportBlobs(p, ids)
           /\ Store!ReadBlob(p) <=> Blob!ReadBlob(p)
           /\ Store!Take(p) <=> Blob!Take(p)
           /\ Store!FileError(p) <=> Blob!FileError(p)
           /\ \A dead : Store!Die(dead) <=> Blob!Die(dead)
           /\ Store!PowerLoss <=> Blob!PowerLoss
<1> USE DEF Store!Finish, Blob!Finish, Store!Finished, Blob!Finished, Store!NoCall, Blob!NoCall,
        Store!NoBlobs, Blob!NoBlobs, Store!Held, Blob!Held
<1>1. \A blobs : Store!RestoreBlobs(p, blobs) <=> Blob!RestoreBlobs(p, blobs)
  BY DEF Store!RestoreBlobs, Blob!RestoreBlobs
<1>2. \A id, rep : Store!PutIfAbsent(p, id, rep) <=> Blob!PutIfAbsent(p, id, rep)
  BY <1>1 DEF Store!PutIfAbsent, Blob!PutIfAbsent
<1>3. \A ids : Store!ExportBlobs(p, ids) <=> Blob!ExportBlobs(p, ids)
  BY DEF Store!ExportBlobs, Blob!ExportBlobs
<1>4. Store!ReadBlob(p) <=> Blob!ReadBlob(p)
  BY DEF Store!ReadBlob, Blob!ReadBlob
<1>5. (Store!Take(p) <=> Blob!Take(p)) /\ (Store!FileError(p) <=> Blob!FileError(p))
  BY DEF Store!Take, Blob!Take, Store!FileError, Blob!FileError, Store!PutSteps, Blob!PutSteps
<1>6. \A dead : Store!Die(dead) <=> Blob!Die(dead)
  BY DEF Store!Die, Blob!Die
<1>7. Store!PowerLoss <=> Blob!PowerLoss
  BY DEF Store!PowerLoss, Blob!PowerLoss, Store!Blobs, Blob!Blobs, Store!Within, Blob!Within
<1>8. QED
  BY <1>1, <1>2, <1>3, <1>4, <1>5, <1>6, <1>7

\* Every step of the Relay is a step of its blob store, or leaves it alone.
LEMMA StoreStep ==
    ASSUME TypeOK, [Next]_vars
    PROVE  [Blob!Next]_(Blob!blobVars)
<1>1. call \in [Procs -> Store!Calls]
  BY DEF TypeOK, Store!TypeOK
<1>2. ASSUME NEW q \in Requests, Publication(q)
      PROVE  [Blob!Next]_(Blob!blobVars)
  <2>1. q \in Procs
    BY DEF Procs
  <2>2. CASE UNCHANGED blobVars
    BY <2>2 DEF blobVars, Blob!blobVars
  <2>3. CASE Admit(q)
    <3>1. request[q] \in Publications /\ Blob!PutIfAbsent(q, request[q].id, request[q].rep)
      BY <2>3, SameActions DEF Admit, TypeOK, NoRequest
    <3>2. QED
      BY <2>1, <3>1 DEF Blob!Next, Publications
  <2>4. CASE PublishImmutable(q) \/ PutRefused(q)
    <3>1. Blob!Take(q)
      BY <2>4, SameActions DEF PublishImmutable, PutRefused
    <3>2. QED
      BY <2>1, <3>1 DEF Blob!Next
  <2>5. QED
    BY <1>2, <2>2, <2>3, <2>4 DEF Publication, Publish, Reject, Respond
<1>3. ASSUME NEW blobs \in Archives, BeginRestore(blobs)
      PROVE  [Blob!Next]_(Blob!blobVars)
  <2>1. Blob!RestoreBlobs(Importer, blobs) /\ blobs \in Blob!Blobs
    BY <1>3, SameActions, SameCalls, ArchivesAreBlobs DEF BeginRestore, Store!Blobs
  <2>2. QED
    BY <2>1 DEF Blob!Next, Procs
<1>4. CASE RestoreSnapshot
  <2>1. Blob!Take(Importer)
    BY <1>4, SameActions DEF RestoreSnapshot
  <2>2. QED
    BY <2>1 DEF Blob!Next, Procs
<1>5. CASE BeginExport
  <2>1. Blob!ExportBlobs(Exporter, Store!Held(candidates)) /\ Store!Held(candidates) \in SUBSET Ids
    BY <1>5, SameActions DEF BeginExport, Store!Held
  <2>2. QED
    BY <2>1 DEF Blob!Next, Procs
<1>6. CASE FinishExport
  <2>1. Blob!Take(Exporter)
    BY <1>6, SameActions DEF FinishExport
  <2>2. QED
    BY <2>1 DEF Blob!Next, Procs
<1>7. ASSUME NEW p \in Procs, BlobStep(p) \/ BlobError(p)
      PROVE  [Blob!Next]_(Blob!blobVars)
  <2>1. Blob!PutStep(p) \/ Blob!ReadBlob(p) \/ Blob!FileError(p)
    BY <1>7, SameActions, SamePuts DEF BlobStep, BlobError
  <2>2. QED
    BY <2>1 DEF Blob!Next
<1>8. ASSUME NEW dead \in SUBSET Procs, Store!Die(dead)
      PROVE  [Blob!Next]_(Blob!blobVars)
  <2>1. CASE dead = {}
    <3>1. UNCHANGED blobVars
      BY <1>1, <1>8, <2>1 DEF Store!Die, blobVars
    <3>2. QED
      BY <3>1 DEF blobVars, Blob!blobVars
  <2>2. CASE dead # {}
    <3>1. Blob!Die(dead)
      BY <1>8, SameActions
    <3>2. QED
      BY <2>2, <3>1 DEF Blob!Next
  <2>3. QED
    BY <2>1, <2>2
<1>9. CASE PowerLoss
  <2>1. Blob!PowerLoss
    BY <1>9, SameActions DEF PowerLoss
  <2>2. QED
    BY <2>1 DEF Blob!Next
<1>10. CASE UNCHANGED blobVars
  BY <1>10 DEF blobVars, Blob!blobVars
<1>11. QED
  <2>1. StopServer => Store!Die(Requests) /\ Requests \in SUBSET Procs
    BY DEF StopServer, Procs
  <2>2. RestoreDies => Store!Die({Importer}) /\ {Importer} \in SUBSET Procs
    BY DEF RestoreDies, Procs
  <2>3. StartServer \/ (\E capability \in Capabilities : Revoke(capability)) \/ UNCHANGED vars => UNCHANGED blobVars
    BY DEF StartServer, Revoke, vars
  <2>4. QED
    BY <1>2, <1>3, <1>4, <1>5, <1>6, <1>7, <1>8, <1>9, <1>10, <2>1, <2>2, <2>3 DEF Next

-----------------------------------------------------------------------------
(* What an action does to the calls, and what no action undoes. *)

\* p alone changes its call.
OnlyCallOf(p) == \A o \in Procs \ {p} : call'[o] = call[o]

LEMMA TakeEffect ==
    ASSUME TypeOK, NEW p \in Procs, Store!Take(p)
    PROVE  /\ call[p].pc = "done" /\ OnlyCallOf(p) /\ UNCHANGED <<dir, durable>>
           /\ call'[p].pc = "idle" /\ call'[p].result = "none" /\ call'[p].blobs = Store!NoBlobs
BY DEF TypeOK, Store!TypeOK, Store!Take, Store!NoCall, OnlyCallOf

LEMMA FailEffect ==
    ASSUME TypeOK, NEW p \in Procs, Store!FileError(p)
    PROVE  /\ call[p].pc \in Store!PutSteps \cup {"export"}
           /\ OnlyCallOf(p) /\ UNCHANGED <<dir, durable>>
           /\ call'[p].pc = "done" /\ call'[p].result = "access"
BY DEF TypeOK, Store!TypeOK, Store!FileError, Store!Finish, Store!Finished, Store!NoCall, OnlyCallOf

LEMMA PutEffect ==
    ASSUME TypeOK, NEW p \in Procs, NEW blobs \in Store!Blobs, Store!RestoreBlobs(p, blobs)
    PROVE  /\ call[p].pc = "idle" /\ OnlyCallOf(p) /\ UNCHANGED <<dir, durable>>
           /\ \/ Store!Held(blobs) = {} /\ call'[p].pc = "done" /\ call'[p].result = "ok"
              \/ Store!Held(blobs) # {} /\ call'[p].pc = "read" /\ call'[p].blobs = blobs
<1>1. call \in [Procs -> Store!Calls] /\ call[p] \in Store!Calls
  BY DEF TypeOK, Store!TypeOK
<1>2. CASE Store!Held(blobs) = {}
  BY <1>1, <1>2 DEF Store!RestoreBlobs, Store!Finish, Store!Finished, Store!NoCall, OnlyCallOf
<1>3. CASE Store!Held(blobs) # {}
  <2>1. PICK first \in Store!Held(blobs) :
          call' = [call EXCEPT ![p].pc = "read", ![p].at = first, ![p].blobs = blobs]
    BY <1>3 DEF Store!RestoreBlobs
  <2>2. call'[p].pc = "read" /\ call'[p].blobs = blobs /\ OnlyCallOf(p)
    BY <1>1, <2>1 DEF Store!Calls, OnlyCallOf
  <2>3. QED
    BY <1>3, <2>2 DEF Store!RestoreBlobs
<1>4. QED
  BY <1>2, <1>3

LEMMA AdmitEffect ==
    ASSUME TypeOK, NEW q \in Requests, Admit(q)
    PROVE  /\ up /\ ThreadIsFree
           /\ request[q] \in Publications /\ request[q].pc = "admit"
           /\ request' = [request EXCEPT ![q].pc = "put"]
           /\ call[q].pc = "idle" /\ OnlyCallOf(q) /\ UNCHANGED <<dir, durable>>
           /\ call'[q].pc = "read"
           /\ call'[q].blobs = [Store!NoBlobs EXCEPT ![request[q].id] = request[q].rep]
<1>1. up /\ request[q] \in Publications /\ request[q].pc = "admit"
  BY DEF Admit, TypeOK, NoRequest
<1> DEFINE blobs == [Store!NoBlobs EXCEPT ![request[q].id] = request[q].rep]
<1>2. blobs \in Store!Blobs /\ Store!Held(blobs) # {}
  BY <1>1, AbsentIsNoRep DEF Publications, Store!Blobs, Store!NoBlobs, Store!Held
<1>3. Store!RestoreBlobs(q, blobs) /\ q \in Procs
  BY DEF Admit, Store!PutIfAbsent, Procs
<1> HIDE DEF blobs
<1>4. /\ call[q].pc = "idle" /\ OnlyCallOf(q) /\ UNCHANGED <<dir, durable>>
      /\ call'[q].pc = "read" /\ call'[q].blobs = blobs
  BY <1>2, <1>3, PutEffect
<1>5. QED
  BY <1>1, <1>4 DEF Admit, Go, blobs

LEMMA ExportEffect ==
    ASSUME TypeOK, NEW p \in Procs, NEW ids \in SUBSET Ids, Store!ExportBlobs(p, ids)
    PROVE  /\ call[p].pc = "idle" /\ OnlyCallOf(p) /\ UNCHANGED <<dir, durable>>
           /\ \/ ids = {} /\ call'[p].pc = "done" /\ call'[p].result = "ok"
                 /\ call'[p].blobs = Store!NoBlobs /\ call'[p].todo = {}
              \/ ids # {} /\ call'[p].pc = "export" /\ call'[p].todo = ids
                 /\ call'[p].blobs = call[p].blobs /\ call'[p].result = call[p].result
<1>1. call \in [Procs -> Store!Calls] /\ call[p] \in Store!Calls
  BY DEF TypeOK, Store!TypeOK
<1>2. CASE ids = {}
  BY <1>1, <1>2 DEF Store!ExportBlobs, Store!Finish, Store!Finished, Store!NoCall, OnlyCallOf
<1>3. CASE ids # {}
  <2>1. call' = [call EXCEPT ![p].pc = "export", ![p].todo = ids]
    BY <1>3 DEF Store!ExportBlobs
  <2>2. /\ call'[p].pc = "export" /\ call'[p].todo = ids /\ OnlyCallOf(p)
        /\ call'[p].blobs = call[p].blobs /\ call'[p].result = call[p].result
    BY <1>1, <2>1 DEF Store!Calls, OnlyCallOf
  <2>3. QED
    BY <1>3, <2>2 DEF Store!ExportBlobs
<1>4. QED
  BY <1>2, <1>3

LEMMA ReadEffect ==
    ASSUME TypeOK, NEW p \in Procs, Store!ReadBlob(p)
    PROVE  /\ call[p].pc = "export" /\ OnlyCallOf(p) /\ UNCHANGED <<dir, durable>>
           /\ \E id \in call[p].todo :
                \/ dir[id] = Absent /\ call'[p].pc = "done" /\ call'[p].result = "missing"
                \/ /\ dir[id] # Absent
                   /\ call'[p].blobs = [call[p].blobs EXCEPT ![id] = dir[id]]
                   /\ call'[p].todo = call[p].todo \ {id}
                   /\ \/ call'[p].todo = {} /\ call'[p].pc = "done" /\ call'[p].result = "ok"
                      \/ call'[p].todo # {} /\ call'[p].pc = "export" /\ call'[p].result = "none"
<1>1. call \in [Procs -> Store!Calls] /\ call[p] \in Store!Calls
  BY DEF TypeOK, Store!TypeOK
<1>2. PICK id \in call[p].todo :
        LET left == call[p].todo \ {id}
        IN  IF dir[id] = Absent THEN Store!Finish(p, "missing")
            ELSE call' = [call EXCEPT ![p].blobs = [@ EXCEPT ![id] = dir[id]],
                                      ![p].todo = left,
                                      ![p].pc = IF left = {} THEN "done" ELSE "export",
                                      ![p].result = IF left = {} THEN "ok" ELSE "none"]
  BY DEF Store!ReadBlob
<1>3. call[p].pc = "export" /\ UNCHANGED <<dir, durable>>
  BY DEF Store!ReadBlob
<1>4. CASE dir[id] = Absent
  BY <1>1, <1>2, <1>3, <1>4 DEF Store!Finish, Store!Finished, Store!NoCall, OnlyCallOf
<1>5. CASE dir[id] # Absent
  <2> DEFINE left == call[p].todo \ {id}
             blobs == [call[p].blobs EXCEPT ![id] = dir[id]]
             c == [call[p] EXCEPT !.blobs = blobs, !.todo = left,
                                  !.pc = IF left = {} THEN "done" ELSE "export",
                                  !.result = IF left = {} THEN "ok" ELSE "none"]
  <2>1. call' = [call EXCEPT ![p] = c]
    BY <1>1, <1>2, <1>5
  <2>2. /\ c.blobs = blobs /\ c.todo = left
        /\ c.pc = IF left = {} THEN "done" ELSE "export"
        /\ c.result = IF left = {} THEN "ok" ELSE "none"
    <3> HIDE DEF blobs, left
    <3> QED BY <1>1 DEF Store!Calls
  <2>3. call'[p] = c /\ OnlyCallOf(p)
    <3> HIDE DEF c
    <3> QED BY <1>1, <2>1 DEF OnlyCallOf
  <2> HIDE DEF c
  <2>4. QED
    BY <1>3, <1>5, <2>2, <2>3
<1>6. QED
  BY <1>4, <1>5

\* A blob that is settled stays so.
LEMMA SettledStays ==
    ASSUME TypeOK, [Next]_vars, NEW id \in Ids, NEW rep, Settled(id, rep)
    PROVE  rep = Absent \/ id \in abandoned' \/ durable'[id] = rep
<1>1. abandoned \subseteq abandoned'
  BY DEF Next, vars, relayVars, Publication, Publish, Admit, Reject, PublishImmutable, PutRefused, Respond,
     Revoke, BeginRestore, RestoreSnapshot, BeginExport, FinishExport, BlobStep, BlobError, StartServer,
     StopServer, RestoreDies, PowerLoss
<1>2. durable[id] # Absent => durable'[id] = durable[id]
  BY AbsentIsNoRep, StoreStep, SameCalls, Blob!DurableGrows DEF TypeOK
<1>3. QED
  BY <1>1, <1>2 DEF Settled

-----------------------------------------------------------------------------
(* The invariant, conjunct by conjunct. *)

LEMMA TypeStep ==
    ASSUME TypeOK, Blob!BlobInv, [Next]_vars
    PROVE  TypeOK' /\ Blob!BlobInv'
<1>1. Blob!BlobInv'
  BY StoreStep, AbsentIsNoRep, Blob!BlobStepInv
<1>2. Store!TypeOK'
  BY <1>1 DEF Blob!BlobInv, Blob!TypeOK, Store!TypeOK, Store!Blobs, Blob!Blobs, Store!Within, Blob!Within,
     Store!Held, Blob!Held, Store!Calls, Blob!Calls, Store!PutSteps, Blob!PutSteps
<1> DEFINE Shape ==
        /\ candidates \in Store!Blobs
        /\ up \in BOOLEAN
        /\ valid \subseteq Capabilities
        /\ request \in [Requests -> Publications \cup {NoRequest}]
        /\ archive \in Store!Blobs \cup {Absent}
        /\ exported \in Store!Blobs \cup {Absent}
        /\ published \subseteq [id : Ids, rep : Reps, current : BOOLEAN]
        /\ abandoned \subseteq Ids
           Resting ==
        /\ ~up => \A q \in Requests : request[q] = NoRequest /\ call[q].pc = "idle"
        /\ archive # Absent => ~up
<1> SUFFICES Shape' /\ Resting'
  BY <1>1, <1>2 DEF TypeOK
<1>3. Shape /\ Resting /\ Store!TypeOK
  BY DEF TypeOK
<1>4. ASSUME NEW p \in Procs, call[p] \in Store!Calls
      PROVE  Unsynced(p) \subseteq Ids
  BY <1>4, <1>3, AbsentIsNoRep DEF Unsynced, Blob!BlobInv, Blob!PutsAreOfBlobs, Blob!PutSteps
<1>5. \A p \in Procs : Unsynced(p) \subseteq Ids
  BY <1>3, <1>4 DEF Store!TypeOK
<1>6. ASSUME NEW q \in Requests, NEW id \in Ids, NEW rep \in Reps, NEW capability \in Capabilities,
             Publish(q, id, rep, capability)
      PROVE  Shape' /\ Resting'
  <2>1. [pc |-> "admit", id |-> id, rep |-> rep, capability |-> capability] \in Publications
    BY DEF Publications
  <2>2. Shape'
    BY <1>3, <1>6, <2>1 DEF Publish, blobVars
  <2>3. Resting'
    BY <1>3, <1>6 DEF Publish, blobVars
  <2>4. QED
    BY <2>2, <2>3
<1>7. ASSUME NEW q \in Requests, NEW from, NEW to \in {"put", "respond"}, Go(q, from, to), from # "idle"
      PROVE  request' \in [Requests -> Publications \cup {NoRequest}]
  <2>1. request[q] \in Publications
    BY <1>3, <1>7 DEF Go, NoRequest
  <2>2. [request[q] EXCEPT !.pc = to] \in Publications
    BY <2>1 DEF Publications
  <2>3. request' = [request EXCEPT ![q] = [request[q] EXCEPT !.pc = to]]
    BY <1>7 DEF Go
  <2>4. QED
    BY <1>3, <2>2, <2>3
<1>8. ASSUME NEW q \in Requests, Answer(q)
      PROVE  /\ request' \in [Requests -> Publications \cup {NoRequest}]
             /\ request'[q] = NoRequest
             /\ \A r \in Requests \ {q} : request'[r] = request[r]
  BY <1>3, <1>8 DEF Answer
<1>9. ASSUME NEW q \in Requests, request[q].pc # "idle"
      PROVE  up /\ request[q] \in Publications
  BY <1>3, <1>9 DEF NoRequest
<1>10. ASSUME NEW q \in Requests, Admit(q)
       PROVE  Shape' /\ Resting'
  <2>1. request' \in [Requests -> Publications \cup {NoRequest}]
    BY <1>7, <1>10 DEF Admit
  <2>2. QED
    BY <1>3, <1>9, <1>10, <2>1 DEF Admit
<1>11. ASSUME NEW q \in Requests, Reject(q) \/ PutRefused(q) \/ Respond(q)
       PROVE  Shape' /\ Resting'
  <2>1. Answer(q) /\ up /\ UNCHANGED <<candidates, up, valid, archive, exported, abandoned>>
    BY <1>9, <1>11 DEF Reject, PutRefused, Respond
  <2>2. published' \subseteq [id : Ids, rep : Reps, current : BOOLEAN]
    <3>1. request[q].id \in Ids /\ request[q].rep \in Reps
      BY <1>9, <1>11 DEF Reject, PutRefused, Respond, Publications
    <3>2. published' = published \/
          published' = published \cup {[id |-> request[q].id, rep |-> request[q].rep, current |-> TRUE]}
      BY <1>11 DEF Reject, PutRefused, Respond
    <3>3. [id |-> request[q].id, rep |-> request[q].rep, current |-> TRUE] \in [id : Ids, rep : Reps, current : BOOLEAN]
      BY <3>1
    <3>4. published \subseteq [id : Ids, rep : Reps, current : BOOLEAN]
      BY <1>3
    <3> HIDE DEF Shape, Resting
    <3>5. QED
      BY <3>2, <3>3, <3>4
  <2>3. QED
    BY <1>3, <1>8, <2>1, <2>2
<1>12. ASSUME NEW q \in Requests, PublishImmutable(q)
       PROVE  Shape' /\ Resting'
  <2>1. up /\ request[q] \in Publications /\ UNCHANGED <<up, valid, archive, exported, published, abandoned>>
    BY <1>9, <1>12 DEF PublishImmutable
  <2>2. request' \in [Requests -> Publications \cup {NoRequest}]
    BY <1>7, <1>8, <1>12 DEF PublishImmutable
  <2>3. candidates' \in Store!Blobs
    BY <1>3, <1>12, <2>1 DEF PublishImmutable, Publications, Store!Blobs
  <2>4. QED
    BY <1>3, <2>1, <2>2, <2>3
<1>13. ASSUME NEW capability \in Capabilities, Revoke(capability)
       PROVE  Shape' /\ Resting'
  BY <1>3, <1>13 DEF Revoke, blobVars
<1>14. ASSUME NEW blobs \in Archives, BeginRestore(blobs)
       PROVE  Shape' /\ Resting'
  <2>1. Importer \in Procs /\ blobs \in Store!Blobs
    BY ArchivesAreBlobs DEF Procs, Store!Blobs
  <2>2. \A q \in Requests : call'[q] = call[q]
    BY <1>14, <2>1, PutEffect, ProcessesAreDistinct DEF BeginRestore, OnlyCallOf, Procs
  <2>3. QED
    BY <1>3, <1>14, <2>1, <2>2 DEF BeginRestore
<1>15. CASE RestoreSnapshot
  <2>1. \A q \in Requests : call'[q] = call[q]
    BY <1>15, TakeEffect, ProcessesAreDistinct DEF RestoreSnapshot, OnlyCallOf, Procs
  <2>2. archive \in Store!Blobs
    BY <1>3, <1>15 DEF RestoreSnapshot
  <2>3. \A a \in published : [a EXCEPT !.current = FALSE] \in [id : Ids, rep : Reps, current : BOOLEAN]
    BY <1>3
  <2>4. QED
    BY <1>3, <1>15, <2>1, <2>2, <2>3 DEF RestoreSnapshot
<1>16. CASE BeginExport \/ FinishExport
  <2>1. \A q \in Requests : call'[q] = call[q]
    <3>1. Store!Held(candidates) \in SUBSET Ids
      BY DEF Store!Held
    <3>2. QED
      BY <1>16, <3>1, TakeEffect, ExportEffect, ProcessesAreDistinct
         DEF BeginExport, FinishExport, OnlyCallOf, Procs
  <2>2. QED
    BY <1>3, <1>16, <2>1 DEF BeginExport, FinishExport
<1>17. ASSUME NEW p \in Procs, BlobStep(p) \/ BlobError(p)
       PROVE  Shape' /\ Resting'
  <2>1. OnlyCallOf(p) /\ call[p].pc # "idle"
    <3>1. CASE Store!PutStep(p)
      BY <3>1, SamePuts, Blob!PutProgress, AbsentIsNoRep DEF OnlyCallOf, Blob!PutSteps
    <3>2. CASE Store!ReadBlob(p)
      BY <3>2, ReadEffect
    <3>3. CASE Store!FileError(p)
      BY <3>3, FailEffect DEF Store!PutSteps
    <3>4. QED
      BY <1>17, <3>1, <3>2, <3>3 DEF BlobStep, BlobError
  <2>2. /\ UNCHANGED <<candidates, up, valid, request, archive, exported, published>>
        /\ abandoned' \subseteq Ids
    BY <1>3, <1>5, <1>17 DEF BlobStep, BlobError, relayVars
  <2>3. QED
    BY <1>3, <2>1, <2>2 DEF OnlyCallOf, Procs
<1>18. CASE StartServer
  BY <1>3, <1>18 DEF StartServer, blobVars
<1>19. CASE StopServer
  <2>1. \A q \in Requests : call'[q].pc = "idle"
    BY <1>19 DEF StopServer, Store!Die, Store!NoCall, Procs
  <2>2. abandoned' \subseteq Ids
    BY <1>3, <1>5, <1>19 DEF StopServer, Procs
  <2>3. QED
    BY <1>3, <1>19, <2>1, <2>2 DEF StopServer
<1>20. CASE RestoreDies
  <2>1. \A q \in Requests : call'[q] = call[q]
    BY <1>20, ProcessesAreDistinct DEF RestoreDies, Store!Die, Procs
  <2>2. abandoned' \subseteq Ids
    BY <1>3, <1>5, <1>20 DEF RestoreDies, Procs
  <2>3. QED
    BY <1>3, <1>20, <2>1, <2>2 DEF RestoreDies
<1>21. CASE PowerLoss
  <2>1. \A q \in Requests : call'[q].pc = "idle"
    BY <1>21 DEF PowerLoss, Store!PowerLoss, Store!NoCall, Procs
  <2>2. QED
    BY <1>3, <1>21, <2>1 DEF PowerLoss
<1>22. CASE UNCHANGED vars
  BY <1>3, <1>22 DEF vars, blobVars, relayVars
<1>23. QED
  BY <1>6, <1>10, <1>11, <1>12, <1>13, <1>14, <1>15, <1>16, <1>17, <1>18, <1>19, <1>20, <1>21, <1>22
     DEF Next, Publication

\* Who has a call, and that one of them at most puts.
LEMMA ControlStep ==
    ASSUME RelayInv, [Next]_vars
    PROVE  CallsFollowTheirOwners' /\ OnePutAtATime'
<1> USE DEF CallsFollowTheirOwners, OnePutAtATime
<1>1. /\ TypeOK /\ CallsFollowTheirOwners /\ OnePutAtATime
      /\ request \in [Requests -> Publications \cup {NoRequest}]
      /\ \A q \in Requests : ~up => request[q] = NoRequest /\ call[q].pc = "idle"
      /\ archive # Absent => ~up
  BY DEF RelayInv, TypeOK
<1>2. /\ \A q \in Requests : q \in Procs /\ q \in Writers /\ q # Importer /\ q # Exporter
      /\ Importer \in Procs /\ Importer \in Writers /\ Exporter \in Procs /\ Importer # Exporter
      /\ \A p \in Procs : p \in Requests \/ p = Importer \/ p = Exporter
      /\ \A p \in Writers : p \in Requests \/ p = Importer
  BY ProcessesAreDistinct DEF Procs, Writers
<1>3. ASSUME NEW q \in Requests, Answer(q)
      PROVE  request'[q].pc = "idle" /\ \A r \in Requests \ {q} : request'[r] = request[r]
  BY <1>1, <1>3 DEF Answer, NoRequest
<1>4. ASSUME UNCHANGED <<call, archive, exported>>,
             \A q \in Requests : request'[q].pc = "put" <=> request[q].pc = "put"
      PROVE  CallsFollowTheirOwners' /\ OnePutAtATime'
  BY <1>1, <1>4
<1>5. ASSUME NEW q \in Requests, NEW id \in Ids, NEW rep \in Reps, NEW capability \in Capabilities,
             Publish(q, id, rep, capability)
      PROVE  CallsFollowTheirOwners' /\ OnePutAtATime'
  BY <1>1, <1>4, <1>5 DEF Publish, blobVars
<1>6. ASSUME NEW q \in Requests, Reject(q) \/ Respond(q)
      PROVE  CallsFollowTheirOwners' /\ OnePutAtATime'
  <2>1. UNCHANGED <<call, archive, exported>> /\ Answer(q) /\ request[q].pc # "put"
    BY <1>6 DEF Reject, Respond, blobVars
  <2>2. QED
    BY <1>3, <1>4, <2>1
<1>7. ASSUME NEW q \in Requests, Admit(q)
      PROVE  CallsFollowTheirOwners' /\ OnePutAtATime'
  <2>1. /\ up /\ OnlyCallOf(q) /\ call[q].pc = "idle" /\ call'[q].pc = "read"
        /\ ThreadIsFree /\ request' = [request EXCEPT ![q].pc = "put"] /\ request[q] \in Publications
        /\ UNCHANGED <<archive, exported>>
    BY <1>1, <1>7, AdmitEffect DEF Admit
  <2>2. request'[q].pc = "put" /\ \A r \in Requests \ {q} : request'[r] = request[r]
    BY <1>1, <2>1 DEF Publications
  <2>3. CallsFollowTheirOwners'
    BY <1>1, <1>2, <2>1, <2>2 DEF OnlyCallOf
  <2>4. \A p \in Procs : call[p].pc \notin Store!PutSteps
    BY <1>1, <1>2, <2>1 DEF ThreadIsFree, Store!PutSteps
  <2>5. OnePutAtATime'
    BY <2>1, <2>4 DEF OnlyCallOf
  <2>6. QED
    BY <2>3, <2>5
<1>8. ASSUME NEW q \in Requests, PublishImmutable(q) \/ PutRefused(q)
      PROVE  CallsFollowTheirOwners' /\ OnePutAtATime'
  <2>1. /\ OnlyCallOf(q) /\ call'[q].pc = "idle" /\ request[q].pc = "put"
        /\ UNCHANGED <<archive, exported>>
    BY <1>1, <1>2, <1>8, TakeEffect DEF PublishImmutable, PutRefused
  <2>2. request'[q].pc # "put" /\ \A r \in Requests \ {q} : request'[r] = request[r]
    <3>1. CASE Answer(q)
      BY <1>3, <3>1
    <3>2. CASE Go(q, "put", "respond")
      <4>1. request[q] \in Publications
        BY <1>1, <2>1 DEF NoRequest
      <4>2. QED
        BY <1>1, <3>2, <4>1 DEF Go, Publications
    <3>3. QED
      BY <1>8, <3>1, <3>2 DEF PublishImmutable, PutRefused
  <2>3. CallsFollowTheirOwners'
    BY <1>1, <1>2, <2>1, <2>2 DEF OnlyCallOf
  <2>4. OnePutAtATime'
    BY <1>1, <2>1 DEF OnlyCallOf, Store!PutSteps
  <2>5. QED
    BY <2>3, <2>4
<1>9. ASSUME NEW blobs \in Archives, BeginRestore(blobs)
      PROVE  CallsFollowTheirOwners' /\ OnePutAtATime'
  <2>1. blobs \in Store!Blobs /\ blobs # Absent
    BY ArchivesAreBlobs, AbsentIsNoRep DEF Store!Blobs
  <2>2. /\ ~up /\ OnlyCallOf(Importer) /\ call'[Importer].pc \in {"read", "done"}
        /\ archive' = blobs /\ UNCHANGED <<request, exported>>
    BY <1>1, <1>2, <1>9, <2>1, PutEffect DEF BeginRestore
  <2>3. CallsFollowTheirOwners'
    BY <1>1, <1>2, <2>1, <2>2 DEF OnlyCallOf
  <2>4. \A p \in Procs \ {Importer} : call[p].pc \notin Store!PutSteps
    BY <1>1, <1>2, <2>2 DEF Store!PutSteps
  <2>5. OnePutAtATime'
    BY <2>2, <2>4 DEF OnlyCallOf
  <2>6. QED
    BY <2>3, <2>5
<1>10. CASE RestoreSnapshot
  <2>1. /\ OnlyCallOf(Importer) /\ call'[Importer].pc = "idle"
        /\ archive' = Absent /\ UNCHANGED <<request, exported>>
    BY <1>1, <1>2, <1>10, TakeEffect DEF RestoreSnapshot
  <2>2. QED
    BY <1>1, <1>2, <2>1 DEF OnlyCallOf, Store!PutSteps
<1>11. CASE BeginExport
  <2>1. Store!Held(candidates) \in SUBSET Ids
    BY DEF Store!Held
  <2>2. /\ OnlyCallOf(Exporter) /\ call'[Exporter].pc \in {"export", "done"}
        /\ exported' = candidates /\ UNCHANGED <<request, archive>>
    BY <1>1, <1>2, <1>11, <2>1, ExportEffect DEF BeginExport
  <2>3. candidates # Absent
    BY <1>1, AbsentIsNoRep DEF TypeOK
  <2>4. QED
    BY <1>1, <1>2, <2>2, <2>3 DEF OnlyCallOf, Store!PutSteps
<1>12. CASE FinishExport
  <2>1. /\ OnlyCallOf(Exporter) /\ call'[Exporter].pc = "idle"
        /\ exported' = Absent /\ UNCHANGED <<request, archive>>
    BY <1>1, <1>2, <1>12, TakeEffect DEF FinishExport
  <2>2. QED
    BY <1>1, <1>2, <2>1 DEF OnlyCallOf, Store!PutSteps
<1>13. ASSUME NEW p \in Procs, BlobStep(p) \/ BlobError(p)
       PROVE  CallsFollowTheirOwners' /\ OnePutAtATime'
  <2>1. UNCHANGED <<request, archive, exported>>
    BY <1>13 DEF BlobStep, BlobError, relayVars
  <2>2. CASE Store!PutStep(p)
    <3>1. /\ call[p].pc \in Store!PutSteps /\ OnlyCallOf(p)
          /\ call'[p].pc \in Store!PutSteps \cup {"done"}
      BY <2>2, SamePuts, Blob!PutProgress, AbsentIsNoRep
         DEF RelayInv, OnlyCallOf, Blob!PutSteps, Store!PutSteps
    <3>2. CallsFollowTheirOwners'
      BY <1>1, <1>2, <2>1, <3>1 DEF OnlyCallOf, Store!PutSteps
    <3>3. OnePutAtATime'
      BY <1>1, <3>1 DEF OnlyCallOf
    <3>4. QED
      BY <3>2, <3>3
  <2>3. CASE Store!ReadBlob(p)
    <3>1. call[p].pc = "export" /\ OnlyCallOf(p) /\ call'[p].pc \in {"export", "done"}
      BY <1>1, <2>3, ReadEffect
    <3>2. p = Exporter
      BY <1>1, <1>2, <3>1
    <3>3. QED
      BY <1>1, <1>2, <2>1, <3>1, <3>2 DEF OnlyCallOf, Store!PutSteps
  <2>4. CASE Store!FileError(p)
    <3>1. call[p].pc # "idle" /\ OnlyCallOf(p) /\ call'[p].pc = "done"
      BY <1>1, <2>4, FailEffect DEF Store!PutSteps
    <3>2. QED
      BY <1>1, <1>2, <2>1, <3>1 DEF OnlyCallOf, Store!PutSteps
  <2>5. QED
    BY <1>13, <2>2, <2>3, <2>4 DEF BlobStep, BlobError
<1>14. CASE StartServer
  BY <1>1, <1>4, <1>14 DEF StartServer, blobVars
<1>15. CASE StopServer
  <2>1. /\ \A q \in Requests : call'[q].pc = "idle" /\ request'[q].pc = "idle"
        /\ call'[Importer] = call[Importer] /\ call'[Exporter] = call[Exporter]
        /\ UNCHANGED <<archive, exported>>
    BY <1>2, <1>15 DEF StopServer, Store!Die, Store!NoCall, NoRequest
  <2>2. QED
    BY <1>1, <1>2, <2>1 DEF Store!PutSteps
<1>16. CASE RestoreDies
  <2>1. /\ \A q \in Requests : call'[q] = call[q]
        /\ call'[Importer].pc = "idle" /\ call'[Exporter] = call[Exporter]
        /\ archive' = Absent /\ UNCHANGED <<request, exported>>
    BY <1>2, <1>16 DEF RestoreDies, Store!Die, Store!NoCall
  <2>2. QED
    BY <1>1, <1>2, <2>1 DEF Store!PutSteps
<1>17. CASE PowerLoss
  <2>1. /\ \A p \in Procs : call'[p].pc = "idle"
        /\ \A q \in Requests : request'[q].pc = "idle"
        /\ archive' = Absent /\ exported' = Absent
    BY <1>17 DEF PowerLoss, Store!PowerLoss, Store!NoCall, NoRequest
  <2>2. QED
    BY <1>2, <2>1 DEF Store!PutSteps
<1>18. ASSUME NEW capability \in Capabilities, Revoke(capability)
       PROVE  CallsFollowTheirOwners' /\ OnePutAtATime'
  BY <1>1, <1>4, <1>18 DEF Revoke, blobVars
<1>19. CASE UNCHANGED vars
  BY <1>1, <1>4, <1>19 DEF vars, blobVars, relayVars
<1>20. QED
  BY <1>5, <1>6, <1>7, <1>8, <1>9, <1>10, <1>11, <1>12, <1>13, <1>14, <1>15, <1>16, <1>17, <1>18, <1>19
     DEF Next, Publication

\* Who leaves an entry unsynced is about to sync it, or leaves its id abandoned.
LEMMA DiskStep ==
    ASSUME RelayInv, [Next]_vars
    PROVE  UnsyncedEntriesAreWatched'
<1> USE DEF UnsyncedEntriesAreWatched
<1>1. TypeOK /\ UnsyncedEntriesAreWatched /\ Requests \subseteq Procs /\ Importer \in Procs /\ Exporter \in Procs
  BY DEF RelayInv, Procs
<1>2. \A id \in Ids : durable[id] # Absent => dir[id] = durable[id]
  BY <1>1 DEF TypeOK, Store!TypeOK, Store!Within, Store!Held
<1>3. ASSUME UNCHANGED <<dir, durable>>, abandoned \subseteq abandoned',
             \A p \in Procs : call[p].pc = "sync" =>
                call'[p] = call[p] \/ Unsynced(p) \subseteq abandoned'
      PROVE  UnsyncedEntriesAreWatched'
  <2>1. ASSUME NEW id \in Ids, dir[id] # durable[id], id \notin abandoned'
        PROVE  \E p \in Procs : call'[p].pc = "sync" /\ call'[p].at = id
    <3>1. PICK p \in Procs : call[p].pc = "sync" /\ call[p].at = id
      BY <1>1, <1>3, <2>1
    <3>2. id \in Unsynced(p)
      BY <1>2, <2>1, <3>1 DEF Unsynced
    <3>3. QED
      BY <1>3, <2>1, <3>1, <3>2
  <2>2. QED
    BY <1>3, <2>1
<1>4. ASSUME NEW p \in Procs, OnlyCallOf(p), call[p].pc # "sync",
             UNCHANGED <<dir, durable, abandoned>>
      PROVE  UnsyncedEntriesAreWatched'
  BY <1>3, <1>4 DEF OnlyCallOf
<1>5. ASSUME NEW q \in Requests, Publication(q)
      PROVE  UnsyncedEntriesAreWatched'
  <2>1. CASE Admit(q)
    BY <1>1, <1>4, <2>1, AdmitEffect DEF Admit
  <2>2. CASE PublishImmutable(q) \/ PutRefused(q)
    BY <1>1, <1>4, <2>2, TakeEffect DEF PublishImmutable, PutRefused
  <2>3. CASE UNCHANGED <<blobVars, abandoned>>
    BY <1>3, <2>3 DEF blobVars
  <2>4. QED
    BY <1>5, <2>1, <2>2, <2>3 DEF Publication, Publish, Reject, Respond
<1>6. ASSUME NEW blobs \in Archives, BeginRestore(blobs)
      PROVE  UnsyncedEntriesAreWatched'
  <2>1. blobs \in Store!Blobs
    BY ArchivesAreBlobs DEF Store!Blobs
  <2>2. QED
    BY <1>1, <1>4, <1>6, <2>1, PutEffect DEF BeginRestore
<1>7. CASE RestoreSnapshot
  BY <1>1, <1>4, <1>7, TakeEffect DEF RestoreSnapshot
<1>8. CASE BeginExport
  <2>1. Store!Held(candidates) \in SUBSET Ids
    BY DEF Store!Held
  <2>2. QED
    BY <1>1, <1>4, <1>8, <2>1, ExportEffect DEF BeginExport
<1>9. CASE FinishExport
  BY <1>1, <1>4, <1>9, TakeEffect DEF FinishExport
<1>10. ASSUME NEW p \in Procs, BlobStep(p)
       PROVE  UnsyncedEntriesAreWatched'
  <2>1. abandoned' = abandoned
    BY <1>10 DEF BlobStep, relayVars
  <2>2. CASE Store!ReadBlob(p)
    BY <1>1, <1>4, <2>1, <2>2, ReadEffect
  <2>3. CASE Store!PutStep(p)
    <3>1. /\ \A o \in Procs \ {p} : call'[o] = call[o]
          /\ \A i \in Ids : dir'[i] # durable'[i] =>
                \/ call'[p].pc = "sync" /\ call'[p].at = i
                \/ dir[i] # durable[i] /\ ~(call[p].pc = "sync" /\ call[p].at = i)
      BY <2>3, SamePuts, Blob!PutProgress, AbsentIsNoRep DEF RelayInv
    <3>2. QED
      BY <1>1, <2>1, <3>1
  <2>4. QED
    BY <1>10, <2>2, <2>3 DEF BlobStep
<1>11. ASSUME NEW p \in Procs, BlobError(p)
       PROVE  UnsyncedEntriesAreWatched'
  <2>1. OnlyCallOf(p) /\ UNCHANGED <<dir, durable>> /\ abandoned' = abandoned \cup Unsynced(p)
    BY <1>1, <1>11, FailEffect DEF BlobError
  <2>2. QED
    BY <1>3, <2>1 DEF OnlyCallOf
<1>12. CASE StopServer
  <2>1. /\ UNCHANGED <<dir, durable>> /\ abandoned' = abandoned \cup UNION {Unsynced(q) : q \in Requests}
        /\ \A p \in Procs \ Requests : call'[p] = call[p]
    BY <1>12 DEF StopServer, Store!Die
  <2>2. \A q \in Requests : Unsynced(q) \subseteq abandoned'
    BY <2>1
  <2>3. QED
    BY <1>3, <2>1, <2>2
<1>13. CASE RestoreDies
  <2>1. /\ UNCHANGED <<dir, durable>> /\ abandoned' = abandoned \cup Unsynced(Importer)
        /\ \A p \in Procs \ {Importer} : call'[p] = call[p]
    BY <1>13 DEF RestoreDies, Store!Die
  <2>2. QED
    BY <1>3, <2>1
<1>14. CASE PowerLoss
  BY <1>14 DEF PowerLoss, Store!PowerLoss
<1>15. CASE UNCHANGED <<blobVars, abandoned>>
  BY <1>3, <1>15 DEF blobVars
<1>16. QED
  <2>1. StartServer \/ (\E capability \in Capabilities : Revoke(capability)) \/ UNCHANGED vars
          => UNCHANGED <<blobVars, abandoned>>
    BY DEF StartServer, Revoke, vars, relayVars
  <2>2. QED
    BY <1>5, <1>6, <1>7, <1>8, <1>9, <1>10, <1>11, <1>12, <1>13, <1>14, <1>15, <2>1 DEF Next

\* A put that has come past a blob, and a put that has succeeded, leaves it settled.
LEMMA BatchStep ==
    ASSUME RelayInv, [Next]_vars
    PROVE  BatchesProgress'
<1>1. /\ TypeOK /\ BatchesProgress /\ CallsFollowTheirOwners /\ OnePutAtATime'
      /\ CallsFollowTheirOwners' /\ UnsyncedEntriesAreWatched'
      /\ request \in [Requests -> Publications \cup {NoRequest}]
  BY ControlStep, DiskStep DEF RelayInv, TypeOK
<1>2. /\ Writers \subseteq Procs /\ Exporter \in Procs /\ Exporter \notin Writers
      /\ Requests \subseteq Writers /\ Importer \in Writers /\ Importer \notin Requests
      /\ \A p \in Writers : p \in Requests \/ p = Importer
  BY ProcessesAreDistinct DEF Procs, Writers
<1> DEFINE Progress(p) ==
        /\ call'[p].pc \in Store!PutSteps =>
              \A id \in Ids : call'[p].blobs[id] = Batch(p)'[id] \/ Settled(id, Batch(p)[id])'
        /\ call'[p].pc = "done" /\ call'[p].result = "ok" => \A id \in Ids : Settled(id, Batch(p)[id])'
<1> SUFFICES ASSUME NEW p \in Writers
             PROVE  Progress(p)
  BY DEF BatchesProgress, AllSettled
<1>3. ASSUME call'[p] = call[p], Batch(p)' = Batch(p) \/ call[p].pc = "idle"
      PROVE  Progress(p)
  <2>1. CASE call[p].pc = "idle"
    BY <1>3, <2>1 DEF Store!PutSteps
  <2>2. CASE Batch(p)' = Batch(p)
    <3>1. \A id \in Ids : Settled(id, Batch(p)[id]) => Settled(id, Batch(p)[id])'
      BY <1>1, <2>2, SettledStays DEF Settled
    <3>2. QED
      BY <1>1, <1>3, <2>2, <3>1 DEF BatchesProgress, AllSettled
  <2>3. QED
    BY <1>3, <2>1, <2>2
<1>4. ASSUME call'[p].pc \in {"idle", "done"}, call'[p].pc = "done" => call'[p].result # "ok"
      PROVE  Progress(p)
  BY <1>4 DEF Store!PutSteps
<1> HIDE DEF Progress
<1>5. ASSUME call[p].pc # "idle",
             p \in Requests => request'[p] = request[p],
             p = Importer => archive' = archive
      PROVE  Batch(p)' = Batch(p)
  BY <1>2, <1>5 DEF Batch
<1>6. ASSUME p \in Requests => \/ request'[p] = request[p]
                               \/ request[p].pc # "put",
             p = Importer => archive' = archive,
             call'[p] = call[p]
      PROVE  Progress(p)
  <2>1. CASE call[p].pc = "idle"
    BY <1>3, <1>6, <2>1
  <2>2. CASE call[p].pc # "idle"
    <3>1. p \in Requests => request'[p] = request[p]
      BY <1>1, <1>6, <2>2 DEF CallsFollowTheirOwners
    <3>2. QED
      BY <1>3, <1>5, <1>6, <2>2, <3>1
  <2>3. QED
    BY <2>1, <2>2
<1>7. ASSUME NEW q \in Requests, Publication(q)
      PROVE  Progress(p)
  <2>1. archive' = archive /\ \A r \in Requests \ {q} : request'[r] = request[r]
    BY <1>1, <1>7 DEF Publication, Publish, Admit, Reject, PublishImmutable, PutRefused, Respond, Go, Answer
  <2>2. CASE Admit(q)
    <3>1. /\ OnlyCallOf(q) /\ call'[q].pc = "read"
          /\ call'[q].blobs = [Store!NoBlobs EXCEPT ![request[q].id] = request[q].rep]
          /\ request' = [request EXCEPT ![q].pc = "put"] /\ request[q] \in Publications
      BY <1>1, <2>2, AdmitEffect
    <3>2. CASE p = q
      <4>1. request'[q].id = request[q].id /\ request'[q].rep = request[q].rep
        BY <1>1, <3>1 DEF Publications
      <4>2. Batch(q)' = call'[q].blobs
        BY <1>2, <3>1, <4>1 DEF Batch, Store!NoBlobs
      <4>3. QED
        BY <3>1, <3>2, <4>2 DEF Progress, Store!PutSteps
    <3>3. CASE p # q
      BY <1>2, <1>6, <2>1, <3>1, <3>3 DEF OnlyCallOf
    <3>4. QED
      BY <3>2, <3>3
  <2>3. CASE PublishImmutable(q) \/ PutRefused(q)
    <3>1. OnlyCallOf(q) /\ call'[q].pc = "idle"
      BY <1>1, <1>2, <2>3, TakeEffect DEF PublishImmutable, PutRefused
    <3>2. QED
      BY <1>2, <1>4, <1>6, <2>1, <3>1 DEF OnlyCallOf
  <2>4. CASE UNCHANGED blobVars /\ request[q].pc # "put"
    BY <1>6, <2>1, <2>4 DEF blobVars
  <2>5. QED
    BY <1>7, <2>2, <2>3, <2>4 DEF Publication, Publish, Reject, Respond
<1>8. ASSUME NEW blobs \in Archives, BeginRestore(blobs)
      PROVE  Progress(p)
  <2>1. blobs \in Store!Blobs
    BY ArchivesAreBlobs DEF Store!Blobs
  <2>2. /\ OnlyCallOf(Importer) /\ archive' = blobs /\ request' = request
        /\ \/ Store!Held(blobs) = {} /\ call'[Importer].pc = "done"
           \/ call'[Importer].pc = "read" /\ call'[Importer].blobs = blobs
    BY <1>1, <1>2, <1>8, <2>1, PutEffect DEF BeginRestore
  <2>3. CASE p = Importer
    <3>1. Batch(p)' = blobs
      BY <2>2, <2>3 DEF Batch
    <3>2. Store!Held(blobs) = {} => \A id \in Ids : Settled(id, Batch(p)[id])'
      BY <3>1 DEF Settled, Store!Held
    <3>3. QED
      BY <2>2, <2>3, <3>1, <3>2 DEF Progress, Store!PutSteps
  <2>4. CASE p # Importer
    BY <1>2, <1>6, <2>2, <2>4 DEF OnlyCallOf
  <2>5. QED
    BY <2>3, <2>4
<1>9. CASE RestoreSnapshot
  <2>1. OnlyCallOf(Importer) /\ call'[Importer].pc = "idle" /\ request' = request
    BY <1>1, <1>2, <1>9, TakeEffect DEF RestoreSnapshot
  <2>2. QED
    BY <1>2, <1>4, <1>6, <2>1 DEF OnlyCallOf
<1>10. CASE BeginExport \/ FinishExport
  <2>1. Store!Held(candidates) \in SUBSET Ids
    BY DEF Store!Held
  <2>2. OnlyCallOf(Exporter) /\ UNCHANGED <<request, archive>>
    BY <1>1, <1>2, <1>10, <2>1, ExportEffect, TakeEffect DEF BeginExport, FinishExport
  <2>3. QED
    BY <1>2, <1>6, <2>2 DEF OnlyCallOf
<1>11. ASSUME NEW o \in Procs, BlobStep(o) \/ BlobError(o)
       PROVE  Progress(p)
  <2>1. UNCHANGED <<request, archive>>
    BY <1>11 DEF BlobStep, BlobError, relayVars
  <2>2. OnlyCallOf(o)
    BY <1>1, <1>11, ReadEffect, FailEffect, SamePuts, Blob!PutProgress, AbsentIsNoRep
       DEF BlobStep, BlobError, OnlyCallOf, RelayInv
  <2>3. CASE o # p
    BY <1>2, <1>6, <2>1, <2>2, <2>3 DEF OnlyCallOf
  <2>4. CASE o = p /\ Store!ReadBlob(p)
    BY <1>1, <1>2, <2>4, ReadEffect DEF CallsFollowTheirOwners
  <2>5. CASE o = p /\ Store!FileError(p)
    BY <1>1, <1>2, <1>4, <2>5, FailEffect
  <2>6. CASE o = p /\ Store!PutStep(p)
    <3>1. /\ call[p].pc \in Store!PutSteps /\ OnlyCallOf(p)
          /\ call'[p].pc \in Store!PutSteps \cup {"done"}
          /\ call'[p].pc = "done" => call'[p].blobs = Store!NoBlobs
          /\ call'[p].pc \in Store!PutSteps \/ call'[p].result = "ok" =>
                \A i \in Ids : \/ call'[p].blobs[i] = call[p].blobs[i]
                               \/ dir'[i] = call[p].blobs[i] /\ call'[p].pc # "sync"
      BY <1>2, <2>2, <2>6, SamePuts, SameCalls, Blob!PutProgress, AbsentIsNoRep
         DEF RelayInv, Store!PutSteps, Blob!PutSteps
    <3>2. Batch(p)' = Batch(p)
      BY <1>5, <2>1, <3>1 DEF Store!PutSteps
    <3>3. ASSUME NEW id \in Ids, call'[p].pc \in Store!PutSteps \/ call'[p].result = "ok"
          PROVE  call'[p].blobs[id] = Batch(p)'[id] \/ Settled(id, Batch(p)[id])'
      <4>1. CASE Settled(id, Batch(p)[id])
        BY <1>1, <3>2, <4>1, SettledStays DEF Settled
      <4>2. CASE call[p].blobs[id] = Batch(p)[id] /\ call'[p].blobs[id] = call[p].blobs[id]
        BY <3>2, <4>2
      <4>3. CASE call[p].blobs[id] = Batch(p)[id] /\ dir'[id] = call[p].blobs[id] /\ call'[p].pc # "sync"
        <5>1. ASSUME NEW w \in Procs, call'[w].pc = "sync"
              PROVE  FALSE
          <6>1. w # p /\ call'[w] = call[w]
            BY <2>6, <3>1, <4>3, <5>1 DEF OnlyCallOf
          <6>2. call[w].pc \in Store!PutSteps
            BY <5>1, <6>1 DEF Store!PutSteps
          <6>3. QED
            BY <1>2, <3>1, <6>1, <6>2 DEF RelayInv, OnePutAtATime
        <5>2. dir'[id] = durable'[id] \/ id \in abandoned'
          BY <1>1, <5>1 DEF UnsyncedEntriesAreWatched
        <5>3. QED
          BY <3>2, <4>3, <5>2 DEF Settled
      <4>4. QED
        BY <1>1, <3>1, <3>3, <4>1, <4>2, <4>3 DEF BatchesProgress
    <3>4. call'[p].pc = "done" /\ call'[p].result = "ok" => \A id \in Ids : Settled(id, Batch(p)[id])'
      BY <3>1, <3>3 DEF Store!NoBlobs, Settled
    <3>5. QED
      BY <3>3, <3>4 DEF Progress
  <2>7. QED
    BY <1>11, <2>3, <2>4, <2>5, <2>6 DEF BlobStep, BlobError
<1>12. CASE StopServer
  <2>1. /\ \A q \in Requests : call'[q].pc = "idle"
        /\ call'[Importer] = call[Importer] /\ archive' = archive
    BY <1>2, <1>12 DEF StopServer, Store!Die, Store!NoCall
  <2>2. QED
    BY <1>2, <1>4, <1>6, <2>1
<1>13. CASE RestoreDies
  <2>1. /\ \A q \in Requests : call'[q] = call[q]
        /\ call'[Importer].pc = "idle" /\ request' = request
    BY <1>2, <1>13 DEF RestoreDies, Store!Die, Store!NoCall
  <2>2. QED
    BY <1>2, <1>4, <1>6, <2>1
<1>14. CASE PowerLoss
  <2>1. call'[p].pc = "idle"
    BY <1>2, <1>14 DEF PowerLoss, Store!PowerLoss, Store!NoCall
  <2>2. QED
    BY <1>4, <2>1
<1>15. CASE UNCHANGED <<blobVars, request, archive>>
  BY <1>6, <1>15 DEF blobVars
<1>16. QED
  <2>1. StartServer \/ (\E capability \in Capabilities : Revoke(capability)) \/ UNCHANGED vars
          => UNCHANGED <<blobVars, request, archive>>
    BY DEF StartServer, Revoke, vars, relayVars
  <2>2. QED
    BY <1>7, <1>8, <1>9, <1>10, <1>11, <1>12, <1>13, <1>14, <1>15, <2>1 DEF Next

\* A candidate becomes visible when its blob is settled, and everything that is
\* exported or answered was a visible candidate.
LEMMA PromiseStep ==
    ASSUME RelayInv, [Next]_vars
    PROVE  PromisesAreSettled' /\ AnswersAreVisible' /\ PublicationsStayVisible'
<1>1. /\ TypeOK /\ BatchesProgress /\ PromisesAreSettled /\ AnswersAreVisible /\ PublicationsStayVisible
      /\ request \in [Requests -> Publications \cup {NoRequest}]
      /\ candidates \in Store!Blobs /\ archive \in Store!Blobs \cup {Absent}
      /\ published \subseteq [id : Ids, rep : Reps, current : BOOLEAN]
      /\ \A q \in Requests : ~up => request[q] = NoRequest
      /\ archive # Absent => ~up
  BY DEF RelayInv, TypeOK
<1>2. /\ Requests \subseteq Procs /\ Requests \subseteq Writers /\ Importer \in Writers
      /\ Importer \in Procs /\ Exporter \in Procs /\ Importer \notin Requests
  BY ProcessesAreDistinct DEF Procs, Writers
<1>3. ASSUME NEW blobs, AllSettled(blobs)
      PROVE  \A id \in Ids : blobs[id] = Absent \/ id \in abandoned' \/ durable'[id] = blobs[id]
  BY <1>1, <1>3, SettledStays DEF AllSettled
<1>4. \A a \in published : a.rep = Absent \/ a.id \in abandoned' \/ durable'[a.id] = a.rep
  BY <1>1, SettledStays DEF PromisesAreSettled
<1>5. ASSUME UNCHANGED candidates, exported' \in {exported, Absent},
             \A a \in published' : a \in published \/ Settled(a.id, a.rep)'
      PROVE  PromisesAreSettled'
  <2>1. AllSettled(candidates)'
    BY <1>1, <1>3, <1>5 DEF PromisesAreSettled, AllSettled, Settled
  <2>2. exported' # Absent => AllSettled(exported)'
    BY <1>1, <1>3, <1>5 DEF PromisesAreSettled, AllSettled, Settled
  <2>3. \A a \in published' : Settled(a.id, a.rep)'
    BY <1>4, <1>5 DEF Settled
  <2>4. QED
    BY <2>1, <2>2, <2>3 DEF PromisesAreSettled
<1>6. ASSUME UNCHANGED <<candidates, exported, published>>
      PROVE  PromisesAreSettled' /\ PublicationsStayVisible'
  BY <1>1, <1>5, <1>6 DEF PublicationsStayVisible
<1>7. ASSUME UNCHANGED candidates,
             \A q \in Requests : request'[q] = request[q] \/ request'[q].pc # "respond"
      PROVE  AnswersAreVisible'
  BY <1>1, <1>7 DEF AnswersAreVisible
<1>8. ASSUME NEW q \in Requests, Answer(q)
      PROVE  /\ request'[q].pc = "idle"
             /\ \A r \in Requests \ {q} : request'[r] = request[r]
  BY <1>1, <1>8 DEF Answer, NoRequest
<1>9. ASSUME NEW q \in Requests, NEW id \in Ids, NEW rep \in Reps, NEW capability \in Capabilities,
             Publish(q, id, rep, capability)
      PROVE  PromisesAreSettled' /\ AnswersAreVisible' /\ PublicationsStayVisible'
  BY <1>1, <1>6, <1>7, <1>9 DEF Publish
<1>10. ASSUME NEW q \in Requests, Admit(q)
       PROVE  PromisesAreSettled' /\ AnswersAreVisible' /\ PublicationsStayVisible'
  <2>1. request' = [request EXCEPT ![q].pc = "put"] /\ request[q] \in Publications
        /\ UNCHANGED <<candidates, exported, published>>
    BY <1>1, <1>10, AdmitEffect DEF Admit
  <2>2. request'[q].pc = "put" /\ \A r \in Requests \ {q} : request'[r] = request[r]
    BY <1>1, <2>1 DEF Publications
  <2>3. QED
    BY <1>6, <1>7, <2>1, <2>2
<1>11. ASSUME NEW q \in Requests, Reject(q) \/ PutRefused(q)
       PROVE  PromisesAreSettled' /\ AnswersAreVisible' /\ PublicationsStayVisible'
  BY <1>6, <1>7, <1>8, <1>11 DEF Reject, PutRefused
<1>12. ASSUME NEW q \in Requests, PublishImmutable(q)
       PROVE  PromisesAreSettled' /\ AnswersAreVisible' /\ PublicationsStayVisible'
  <2>1. CASE Answer(q) /\ UNCHANGED candidates
    BY <1>6, <1>7, <1>8, <1>12, <2>1 DEF PublishImmutable
  <2>2. CASE /\ candidates[request[q].id] \in {Absent, request[q].rep}
             /\ candidates' = [candidates EXCEPT ![request[q].id] = request[q].rep]
             /\ Go(q, "put", "respond")
    <3> DEFINE id == request[q].id
               rep == request[q].rep
    <3>1. /\ request[q] \in Publications /\ request[q].pc = "put"
          /\ request' = [request EXCEPT ![q].pc = "respond"]
          /\ UNCHANGED <<exported, published>>
          /\ call[q].pc = "done" /\ call[q].result = "ok"
      BY <1>1, <1>2, <1>12, <2>2, TakeEffect DEF PublishImmutable, Go, NoRequest
    <3>2. id \in Ids /\ rep \in Reps /\ rep # Absent
      BY <3>1, AbsentIsNoRep DEF Publications
    <3>3. /\ request'[q].id = id /\ request'[q].rep = rep
          /\ \A r \in Requests \ {q} : request'[r] = request[r]
      BY <1>1, <3>1 DEF Publications
    <3>4. Settled(id, rep)
      <4>1. AllSettled(Batch(q))
        BY <1>1, <1>2, <3>1 DEF BatchesProgress
      <4>2. Batch(q)[id] = rep
        BY <1>2, <3>2 DEF Batch, Store!NoBlobs
      <4>3. QED
        BY <3>2, <4>1, <4>2 DEF AllSettled
    <3> HIDE DEF id, rep
    <3>5. candidates'[id] = rep /\ \A i \in Ids \ {id} : candidates'[i] = candidates[i]
      BY <1>1, <2>2, <3>2 DEF Store!Blobs, id, rep
    <3>6. \A i \in Ids : candidates[i] # Absent => candidates'[i] = candidates[i]
      BY <2>2, <3>5 DEF id, rep
    <3>7. PromisesAreSettled'
      <4>1. \A i \in Ids : candidates[i] = Absent \/ i \in abandoned' \/ durable'[i] = candidates[i]
        BY <1>1, <1>3 DEF PromisesAreSettled
      <4>2. rep = Absent \/ id \in abandoned' \/ durable'[id] = rep
        BY <1>1, <3>2, <3>4, SettledStays
      <4>3. AllSettled(candidates)'
        BY <3>5, <4>1, <4>2 DEF AllSettled, Settled
      <4>4. exported' # Absent => AllSettled(exported)'
        BY <1>1, <1>3, <3>1 DEF PromisesAreSettled, AllSettled, Settled
      <4>5. QED
        BY <1>4, <3>1, <4>3, <4>4 DEF PromisesAreSettled, Settled
    <3>8. AnswersAreVisible'
      <4>1. ASSUME NEW r \in Requests \ {q}, request[r].pc = "respond"
            PROVE  candidates'[request[r].id] = request[r].rep
        <5>1. request[r] \in Publications
          BY <1>1, <4>1 DEF NoRequest
        <5>2. candidates[request[r].id] = request[r].rep
          BY <1>1, <4>1 DEF AnswersAreVisible
        <5>3. QED
          BY <3>6, <5>1, <5>2, AbsentIsNoRep DEF Publications
      <4>2. QED
        BY <3>3, <3>5, <4>1 DEF AnswersAreVisible
    <3>9. PublicationsStayVisible'
      BY <1>1, <3>1, <3>6, AbsentIsNoRep DEF PublicationsStayVisible
    <3>10. QED
      BY <3>7, <3>8, <3>9
  <2>3. QED
    BY <1>12, <2>1, <2>2 DEF PublishImmutable
<1>13. ASSUME NEW q \in Requests, Respond(q)
       PROVE  PromisesAreSettled' /\ AnswersAreVisible' /\ PublicationsStayVisible'
  <2> DEFINE a == [id |-> request[q].id, rep |-> request[q].rep, current |-> TRUE]
  <2>1. /\ request[q] \in Publications /\ candidates[request[q].id] = request[q].rep
        /\ Answer(q) /\ UNCHANGED <<candidates, exported>>
        /\ published' = published \/ published' = published \cup {a}
    BY <1>1, <1>13 DEF Respond, AnswersAreVisible, NoRequest
  <2>2. a.id \in Ids /\ a.rep = candidates[a.id]
    BY <2>1 DEF Publications
  <2>3. a.rep = Absent \/ a.id \in abandoned' \/ durable'[a.id] = a.rep
    BY <1>1, <1>3, <2>1, <2>2 DEF PromisesAreSettled
  <2> HIDE DEF a
  <2>4. PromisesAreSettled'
    <3>1. \A b \in published' : b \in published \/ Settled(b.id, b.rep)'
      BY <2>1, <2>3 DEF Settled
    <3>2. QED
      BY <1>5, <2>1, <3>1
  <2>5. PublicationsStayVisible'
    BY <1>1, <2>1, <2>2 DEF PublicationsStayVisible
  <2>6. QED
    BY <1>7, <1>8, <2>1, <2>4, <2>5
<1>14. CASE RestoreSnapshot
  <2>1. /\ archive \in Store!Blobs /\ \A q \in Requests : request'[q] = NoRequest
        /\ call[Importer].pc = "done" /\ UNCHANGED <<exported, abandoned>>
    BY <1>1, <1>2, <1>14, TakeEffect DEF RestoreSnapshot
  <2>2. AnswersAreVisible'
    BY <2>1 DEF AnswersAreVisible, NoRequest
  <2>3. CASE UNCHANGED <<candidates, published>>
    BY <1>6, <2>1, <2>2, <2>3
  <2>4. CASE /\ call[Importer].result = "ok" /\ candidates' = archive
             /\ published' = {[a EXCEPT !.current = FALSE] : a \in published}
    <3>1. AllSettled(archive)
      BY <1>1, <1>2, <2>1, <2>4 DEF BatchesProgress, Batch
    <3>2. AllSettled(candidates)'
      BY <1>3, <2>4, <3>1 DEF AllSettled, Settled
    <3>3. exported' # Absent => AllSettled(exported)'
      BY <1>1, <1>3, <2>1 DEF PromisesAreSettled, AllSettled, Settled
    <3>4. \A b \in published' : ~b.current /\ \E a \in published : b.id = a.id /\ b.rep = a.rep
      BY <1>1, <2>4
    <3>5. \A b \in published' : Settled(b.id, b.rep)'
      BY <1>4, <3>4 DEF Settled
    <3>6. PublicationsStayVisible'
      BY <3>4 DEF PublicationsStayVisible
    <3>7. QED
      BY <2>2, <3>2, <3>3, <3>5, <3>6 DEF PromisesAreSettled
  <2>5. QED
    BY <1>14, <2>3, <2>4 DEF RestoreSnapshot
<1>15. CASE BeginExport
  <2>1. UNCHANGED <<candidates, published, request>> /\ exported' = candidates
    BY <1>15 DEF BeginExport
  <2>2. AllSettled(candidates)' /\ AllSettled(exported)'
    BY <1>1, <1>3, <2>1 DEF PromisesAreSettled, AllSettled, Settled
  <2>3. \A a \in published' : Settled(a.id, a.rep)'
    BY <1>4, <2>1 DEF Settled
  <2>4. QED
    BY <1>1, <1>7, <2>1, <2>2, <2>3 DEF PromisesAreSettled, PublicationsStayVisible
<1>16. CASE FinishExport
  BY <1>1, <1>5, <1>7, <1>16 DEF FinishExport, PublicationsStayVisible
<1>17. CASE StopServer \/ PowerLoss
  <2>1. \A q \in Requests : request'[q].pc # "respond"
    BY <1>17 DEF StopServer, PowerLoss, NoRequest
  <2>2. QED
    BY <1>1, <1>5, <1>7, <1>17, <2>1 DEF StopServer, PowerLoss, PublicationsStayVisible
<1>18. CASE UNCHANGED <<candidates, request, exported, published>>
  BY <1>6, <1>7, <1>18
<1>19. QED
  <2>1. \/ \E capability \in Capabilities : Revoke(capability)
        \/ \E blobs \in Archives : BeginRestore(blobs)
        \/ \E p \in Procs : BlobStep(p) \/ BlobError(p)
        \/ StartServer \/ RestoreDies \/ UNCHANGED vars
        => UNCHANGED <<candidates, request, exported, published>>
    BY DEF Revoke, BeginRestore, BlobStep, BlobError, StartServer, RestoreDies, vars, relayVars
  <2>2. QED
    BY <1>9, <1>10, <1>11, <1>12, <1>13, <1>14, <1>15, <1>16, <1>17, <1>18, <2>1 DEF Next, Publication

\* An export reads, of every id that is not abandoned, the blob of its snapshot.
LEMMA ExportStep ==
    ASSUME RelayInv, [Next]_vars
    PROVE  ExportsProgress'
<1>1. /\ TypeOK /\ ExportsProgress /\ PromisesAreSettled /\ CallsFollowTheirOwners
      /\ call \in [Procs -> Store!Calls] /\ candidates \in Store!Blobs
      /\ \A id \in Ids : durable[id] # Absent => dir[id] = durable[id]
  BY DEF RelayInv, TypeOK, Store!TypeOK, Store!Within, Store!Held
<1>2. /\ Exporter \in Procs /\ Requests \subseteq Procs /\ Importer \in Procs
      /\ Exporter \notin Requests /\ Importer # Exporter
  BY ProcessesAreDistinct DEF Procs
<1>3. abandoned \subseteq abandoned'
  BY DEF Next, vars, relayVars, Publication, Publish, Admit, Reject, PublishImmutable, PutRefused, Respond,
     Revoke, BeginRestore, RestoreSnapshot, BeginExport, FinishExport, BlobStep, BlobError, StartServer,
     StopServer, RestoreDies, PowerLoss
<1>4. ASSUME call'[Exporter] = call[Exporter], exported' = exported
      PROVE  ExportsProgress'
  <2>1. Store!Held(exported) \cap abandoned # {} => Store!Held(exported') \cap abandoned' # {}
    BY <1>3, <1>4
  <2>2. QED
    BY <1>1, <1>3, <1>4, <2>1 DEF ExportsProgress, Store!Held
<1>5. ASSUME call'[Exporter].pc = "idle", call'[Exporter].result = "none",
             call'[Exporter].blobs = Store!NoBlobs
      PROVE  ExportsProgress'
  BY <1>5 DEF ExportsProgress, Store!NoBlobs
<1>6. ASSUME NEW p \in Procs \ {Exporter}, OnlyCallOf(p), exported' = exported
      PROVE  ExportsProgress'
  BY <1>2, <1>4, <1>6 DEF OnlyCallOf
<1>7. ASSUME NEW q \in Requests, Publication(q)
      PROVE  ExportsProgress'
  <2>1. exported' = exported /\ q \in Procs \ {Exporter}
    BY <1>2, <1>7 DEF Publication, Publish, Admit, Reject, PublishImmutable, PutRefused, Respond
  <2>2. CASE UNCHANGED blobVars
    BY <1>4, <2>1, <2>2 DEF blobVars
  <2>3. CASE Admit(q)
    BY <1>1, <1>6, <2>1, <2>3, AdmitEffect
  <2>4. CASE PublishImmutable(q) \/ PutRefused(q)
    BY <1>1, <1>6, <2>1, <2>4, TakeEffect DEF PublishImmutable, PutRefused
  <2>5. QED
    BY <1>7, <2>2, <2>3, <2>4 DEF Publication, Publish, Reject, Respond
<1>8. ASSUME NEW blobs \in Archives, BeginRestore(blobs)
      PROVE  ExportsProgress'
  <2>1. blobs \in Store!Blobs
    BY ArchivesAreBlobs DEF Store!Blobs
  <2>2. QED
    BY <1>1, <1>2, <1>6, <1>8, <2>1, PutEffect DEF BeginRestore
<1>9. CASE RestoreSnapshot
  BY <1>1, <1>2, <1>6, <1>9, TakeEffect DEF RestoreSnapshot
<1>10. CASE BeginExport
  <2> DEFINE ids == Store!Held(candidates)
  <2>1. ids \in SUBSET Ids /\ exported' = candidates /\ Store!ExportBlobs(Exporter, ids)
    BY <1>10 DEF BeginExport, Store!Held
  <2>2. \A id \in Ids : id \in ids <=> exported'[id] # Absent
    BY <2>1 DEF Store!Held
  <2>3. /\ call[Exporter].pc = "idle" /\ call[Exporter].result = "none"
        /\ call[Exporter].blobs = Store!NoBlobs
    BY <1>1, <1>2, <2>1, ExportEffect DEF ExportsProgress
  <2> HIDE DEF ids
  <2>4. QED
    BY <1>1, <1>2, <2>1, <2>2, <2>3, ExportEffect DEF ExportsProgress, Store!NoBlobs
<1>11. CASE FinishExport
  BY <1>1, <1>2, <1>5, <1>11, TakeEffect DEF FinishExport
<1>12. ASSUME NEW p \in Procs, BlobStep(p) \/ BlobError(p)
       PROVE  ExportsProgress'
  <2>1. exported' = exported
    BY <1>12 DEF BlobStep, BlobError, relayVars
  <2>2. CASE p # Exporter
    <3>1. OnlyCallOf(p)
      BY <1>1, <1>12, ReadEffect, FailEffect, SamePuts, Blob!PutProgress, AbsentIsNoRep
         DEF BlobStep, BlobError, OnlyCallOf, RelayInv
    <3>2. QED
      BY <1>6, <2>1, <2>2, <3>1
  <2>3. CASE p = Exporter /\ Store!PutStep(p)
    <3>1. call[p].pc \in Store!PutSteps
      BY <2>3, SamePuts, Blob!PutProgress, AbsentIsNoRep DEF RelayInv, Store!PutSteps, Blob!PutSteps
    <3>2. QED
      BY <1>1, <2>3, <3>1 DEF CallsFollowTheirOwners, Store!PutSteps
  <2>4. CASE p = Exporter /\ Store!FileError(p)
    BY <1>1, <2>4, FailEffect DEF ExportsProgress
  <2>5. CASE p = Exporter /\ Store!ReadBlob(p)
    <3>1. /\ call[p].pc = "export" /\ UNCHANGED <<dir, durable>>
      BY <1>1, <2>5, ReadEffect
    <3>2. PICK id \in call[p].todo :
            \/ dir[id] = Absent /\ call'[p].pc = "done" /\ call'[p].result = "missing"
            \/ /\ dir[id] # Absent
               /\ call'[p].blobs = [call[p].blobs EXCEPT ![id] = dir[id]]
               /\ call'[p].todo = call[p].todo \ {id}
               /\ \/ call'[p].todo = {} /\ call'[p].pc = "done" /\ call'[p].result = "ok"
                  \/ call'[p].todo # {} /\ call'[p].pc = "export" /\ call'[p].result = "none"
      BY <1>1, <2>5, ReadEffect
    <3>3. /\ id \in Ids /\ call[p].blobs \in Store!Blobs
      BY <1>1, <3>2 DEF Store!Calls
    <3>4. exported # Absent
      BY <1>1, <2>5, <3>1 DEF CallsFollowTheirOwners
    <3>5. exported[id] # Absent
      BY <1>1, <2>5, <3>1, <3>2, <3>3 DEF ExportsProgress
    <3>6. id \in abandoned \/ dir[id] = exported[id]
      BY <1>1, <3>3, <3>4, <3>5 DEF PromisesAreSettled, AllSettled, Settled
    <3>7. CASE dir[id] = Absent
      <4>1. id \in Store!Held(exported') \cap abandoned'
        BY <1>3, <2>1, <3>3, <3>5, <3>6, <3>7 DEF Store!Held
      <4>2. QED
        BY <2>5, <3>2, <3>7, <4>1 DEF ExportsProgress
    <3>8. CASE dir[id] # Absent
      <4>1. \A i \in Ids \ {id} : /\ call'[p].blobs[i] = call[p].blobs[i]
                                  /\ i \in call'[p].todo <=> i \in call[p].todo
        BY <3>2, <3>3, <3>8 DEF Store!Blobs
      <4>2. call'[p].blobs[id] = dir[id]
        BY <3>2, <3>3, <3>8 DEF Store!Blobs
      <4>3. ASSUME NEW i \in Ids
            PROVE  /\ exported'[i] = Absent => call'[p].blobs[i] = Absent /\ i \notin call'[p].todo
                   /\ exported'[i] # Absent => \/ i \in call'[p].todo \cup abandoned'
                                               \/ call'[p].blobs[i] = exported'[i]
        <5>1. CASE i = id
          BY <1>3, <2>1, <3>5, <3>6, <4>2, <5>1
        <5>2. CASE i # id
          BY <1>1, <1>3, <2>1, <2>5, <3>1, <4>1, <5>2 DEF ExportsProgress
        <5>3. QED
          BY <5>1, <5>2
      <4>4. QED
        BY <2>5, <3>2, <3>8, <4>3 DEF ExportsProgress
    <3>9. QED
      BY <3>7, <3>8
  <2>6. QED
    BY <1>12, <2>2, <2>3, <2>4, <2>5 DEF BlobStep, BlobError
<1>13. CASE StopServer
  BY <1>2, <1>4, <1>13 DEF StopServer, Store!Die
<1>14. CASE RestoreDies
  BY <1>2, <1>4, <1>14 DEF RestoreDies, Store!Die
<1>15. CASE PowerLoss
  <2>1. /\ call'[Exporter].pc = "idle" /\ call'[Exporter].result = "none"
        /\ call'[Exporter].blobs = Store!NoBlobs
    BY <1>2, <1>15 DEF PowerLoss, Store!PowerLoss, Store!NoCall
  <2>2. QED
    BY <1>5, <2>1
<1>16. CASE UNCHANGED <<blobVars, exported>>
  BY <1>4, <1>16 DEF blobVars
<1>17. QED
  <2>1. StartServer \/ (\E capability \in Capabilities : Revoke(capability)) \/ UNCHANGED vars
          => UNCHANGED <<blobVars, exported>>
    BY DEF StartServer, Revoke, vars, relayVars
  <2>2. QED
    BY <1>7, <1>8, <1>9, <1>10, <1>11, <1>12, <1>13, <1>14, <1>15, <1>16, <2>1 DEF Next

-----------------------------------------------------------------------------
(* The theorems. *)

LEMMA StoreInit == Store!Init => Blob!Init
BY DEF Store!Init, Blob!Init, Store!NoBlobs, Blob!NoBlobs, Store!NoCall, Blob!NoCall

LEMMA RelayInit == Init => RelayInv
<1> SUFFICES ASSUME Init PROVE RelayInv
  OBVIOUS
<1>1. Blob!BlobInv
  BY StoreInit, AbsentIsNoRep, Blob!BlobInit DEF Init
<1>2. Store!NoBlobs \in Store!Blobs /\ \A id \in Ids : Store!NoBlobs[id] = Absent
  BY DEF Store!NoBlobs, Store!Blobs
<1>3. Store!TypeOK
  BY <1>1, SameCalls DEF Blob!BlobInv
<1>4. TypeOK
  BY <1>2, <1>3 DEF Init, TypeOK, Store!Init, Store!NoCall, Procs, NoRequest
<1>5. \A p \in Procs : call[p] = Store!NoCall
  BY DEF Init, Store!Init
<1>6. CallsFollowTheirOwners /\ OnePutAtATime
  BY <1>5 DEF Init, Store!NoCall, NoRequest, CallsFollowTheirOwners, OnePutAtATime, Procs, Writers, Store!PutSteps
<1>7. UnsyncedEntriesAreWatched /\ BatchesProgress /\ ExportsProgress
  BY <1>5 DEF Init, Store!Init, Store!NoCall, Store!PutSteps, UnsyncedEntriesAreWatched, BatchesProgress,
     ExportsProgress, Procs, Writers
<1>8. PromisesAreSettled /\ AnswersAreVisible /\ PublicationsStayVisible
  BY <1>2 DEF Init, NoRequest, PromisesAreSettled, AllSettled, Settled, AnswersAreVisible, PublicationsStayVisible
<1>9. QED
  BY <1>1, <1>4, <1>6, <1>7, <1>8 DEF RelayInv

LEMMA RelayStep == RelayInv /\ [Next]_vars => RelayInv'
<1> SUFFICES ASSUME RelayInv, [Next]_vars PROVE RelayInv'
  OBVIOUS
<1>1. TypeOK' /\ Blob!BlobInv'
  BY TypeStep DEF RelayInv
<1>2. QED
  BY <1>1, ControlStep, DiskStep, BatchStep, PromiseStep, ExportStep DEF RelayInv

\* The invariant of the relay holds, for every set of requests, archives and
\* capabilities.
THEOREM RelayInvariant == Spec => []RelayInv
<1>1. QED BY RelayInit, RelayStep, PTL DEF Spec

\* The state of the Relay keeps its shape; no request is handled while the
\* server is down, and no archive restored while it is up.
THEOREM RelayTypeCorrect == Spec => []TypeOK
<1>1. RelayInv => TypeOK
  BY DEF RelayInv
<1>2. QED BY <1>1, RelayInvariant, PTL

\* A visible candidate's blob is on the disk, with the candidate's content,
\* whatever was retried, restored, killed or cut off from power; unless a put of
\* that id was cut off between link and fsync.
THEOREM VisibleCandidatesAreDurable == Spec => []VisibleCandidatesHaveDurableBlobs
<1>1. RelayInv => VisibleCandidatesHaveDurableBlobs
  BY DEF RelayInv, PromisesAreSettled, AllSettled, Settled, VisibleCandidatesHaveDurableBlobs, Store!Held
<1>2. QED BY <1>1, RelayInvariant, PTL

\* A publication that was answered with success stays visible until a restore.
THEOREM AnsweredPublicationsStay == Spec => []PublicationsStayVisible
<1>1. RelayInv => PublicationsStayVisible
  BY DEF RelayInv
<1>2. QED BY <1>1, RelayInvariant, PTL

\* No two answered publications of one ObjectId differ, across restores that
\* have removed the candidate in between.
THEOREM AnsweredPublicationsNeverFork == Spec => []PublicationsNeverFork
<1>1. RelayInv => PublicationsNeverFork
  BY AbsentIsNoRep DEF RelayInv, TypeOK, PromisesAreSettled, Settled, PublicationsNeverFork
<1>2. QED BY <1>1, RelayInvariant, PTL

\* An export, taken while the server publishes or a restore runs, finds the
\* blob of every candidate of its snapshot, with the candidate's content.
THEOREM ExportsFindTheirBlobs == Spec => []ExportsAreComplete
<1> SUFFICES RelayInv => ExportsAreComplete
  BY RelayInvariant, PTL
<1> SUFFICES ASSUME RelayInv, exported # Absent, call[Exporter].pc = "done",
                    call[Exporter].result # "access", Store!Held(exported) \cap abandoned = {}
             PROVE  call[Exporter].result = "ok" /\ BlobsMatch(call[Exporter].blobs, exported)
  BY DEF ExportsAreComplete
<1>1. call[Exporter].result = "ok"
  BY DEF RelayInv, ExportsProgress
<1>2. \A id \in Ids : call[Exporter].blobs[id] = exported[id]
  BY <1>1 DEF RelayInv, ExportsProgress, Store!Held
<1>3. QED
  BY <1>1, <1>2 DEF BlobsMatch, Store!Held, Store!Within

\* The Relay, its command line tool and their failures do to the blob directory
\* only what BlobStore specifies of its callers ...
THEOREM RelayUsesTheStoreAsSpecified == Spec => Blob!Spec
<1>1. Init => Blob!Init
  BY StoreInit DEF Init
<1>2. RelayInv /\ [Next]_vars => [Blob!Next]_(Blob!blobVars)
  BY StoreStep DEF RelayInv
<1>3. QED
  BY <1>1, <1>2, RelayInvariant, PTL DEF Spec, Blob!Spec

\* ... so that the directory is a write-once map of the Relay, too.
THEOREM RelayBlobsAreWriteOnce == Spec => Blob!ImplementsWriteOnceStore
<1>1. Blob!Spec => Blob!ImplementsWriteOnceStore
  BY AbsentIsNoRep, Blob!DirectoryIsWriteOnce
<1>2. QED
  BY <1>1, RelayUsesTheStoreAsSpecified

=============================================================================
