------------------------- MODULE BlobStore_proofs -------------------------
(***************************************************************************)
(* Theorems about BlobStore, for every set of processes, ObjectIds and     *)
(* representations: what was acknowledged after a directory fsync is never *)
(* lost, and the directory implements a write-once map.                    *)
(***************************************************************************)
EXTENDS BlobStore, TLAPS

-----------------------------------------------------------------------------
(* The inductive invariant. *)

\* Whoever is putting a blob is at an id of its batch.
PutsAreOfBlobs ==
    \A p \in Procs : call[p].pc \in PutSteps =>
        call[p].at \in Ids /\ call[p].blobs[call[p].at] \in Reps

\* Whoever is about to sync the directory sees its own representation in it.
SyncedIsOwn ==
    \A p \in Procs : call[p].pc = "sync" => dir[call[p].at] = Rep(p)

BlobInv == TypeOK /\ PutsAreOfBlobs /\ SyncedIsOwn /\ StoredBlobsAreDurable

-----------------------------------------------------------------------------
(* Helpers. *)

LEMMA NoCallTyped == NoCall \in Calls /\ \A r \in {"ok", "conflict", "missing", "access"} : Finished(r) \in Calls
BY DEF NoCall, Finished, Calls, NoBlobs, Blobs, PutSteps

\* An acknowledgement ends the call or moves on to another blob of the batch.
LEMMA AcknowledgeTyped ==
    ASSUME TypeOK, PutsAreOfBlobs, NEW p \in Procs, call[p].pc \in PutSteps, Acknowledge(p)
    PROVE  /\ call' \in [Procs -> Calls]
           /\ \A o \in Procs \ {p} : call'[o] = call[o]
           /\ call'[p].pc \in {"done", "read"}
           /\ call'[p].pc = "read" => call'[p].at \in Ids /\ call'[p].blobs[call'[p].at] \in Reps
<1> DEFINE rest == [call[p].blobs EXCEPT ![call[p].at] = Absent]
<1>1. call[p] \in Calls /\ rest \in Blobs
  BY DEF TypeOK, Calls, Blobs
<1>2. CASE Held(rest) = {}
  <2>1. Finish(p, "ok")
    BY <1>2 DEF Acknowledge
  <2>2. QED
    BY <2>1, NoCallTyped DEF Finish, TypeOK, Finished, NoCall
<1>3. CASE Held(rest) # {}
  <2>1. PICK next \in Held(rest) :
          call' = [call EXCEPT ![p].pc = "read", ![p].at = next, ![p].blobs = rest]
    BY <1>3 DEF Acknowledge
  <2>2. next \in Ids /\ rest[next] \in Reps
    BY <1>1 DEF Held, Blobs
  <2>3. QED
    BY <1>1, <2>1, <2>2 DEF TypeOK, Calls, PutSteps
<1>4. QED
  BY <1>2, <1>3

-----------------------------------------------------------------------------
(* Every step preserves the invariant. *)

LEMMA BlobInit == Init => BlobInv
<1> SUFFICES ASSUME Init PROVE BlobInv
  OBVIOUS
<1>1. NoBlobs \in Blobs /\ Within(NoBlobs, NoBlobs)
  BY DEF NoBlobs, Blobs, Within
<1>2. QED
  BY <1>1, NoCallTyped DEF Init, BlobInv, TypeOK, PutsAreOfBlobs, SyncedIsOwn, StoredBlobsAreDurable,
     NoCall, PutSteps

\* A step of p that leaves the directory alone and takes p to no sync.
LEMMA CallStep ==
    ASSUME BlobInv, NEW p \in Procs, UNCHANGED <<dir, durable, stored>>,
           call' \in [Procs -> Calls],
           \A o \in Procs \ {p} : call'[o] = call[o],
           call'[p].pc \in PutSteps => call'[p].at \in Ids /\ call'[p].blobs[call'[p].at] \in Reps,
           call'[p].pc = "sync" => dir[call'[p].at] = call'[p].blobs[call'[p].at]
    PROVE  BlobInv'
BY DEF BlobInv, TypeOK, PutsAreOfBlobs, SyncedIsOwn, StoredBlobsAreDurable, Rep, Within, Held

\* A call that ends, or that its caller takes the answer of.
LEMMA EndStep ==
    ASSUME BlobInv, NEW p \in Procs, UNCHANGED <<dir, durable, stored>>,
           \/ call' = [call EXCEPT ![p] = NoCall]
           \/ \E r \in {"ok", "conflict", "missing", "access"} : Finish(p, r)
    PROVE  BlobInv'
<1>1. PICK c \in Calls : c.pc \in {"idle", "done"} /\ call' = [call EXCEPT ![p] = c]
  BY NoCallTyped DEF Finish, Finished, NoCall
<1>2. call \in [Procs -> Calls]
  BY DEF BlobInv, TypeOK
<1>3. call' \in [Procs -> Calls] /\ call'[p] = c /\ \A o \in Procs \ {p} : call'[o] = call[o]
  BY <1>1, <1>2
<1>4. call'[p].pc \notin PutSteps /\ call'[p].pc # "sync"
  BY <1>1, <1>3 DEF PutSteps
<1>5. QED
  BY <1>3, <1>4, CallStep

\* Step(p, from, to) between two steps of a put, short of the sync.
LEMMA MoveStep ==
    ASSUME BlobInv, NEW p \in Procs, UNCHANGED <<dir, durable, stored>>,
           NEW from \in PutSteps, NEW to \in PutSteps, Step(p, from, to),
           to = "sync" => dir[call[p].at] = Rep(p)
    PROVE  BlobInv'
<1>1. call \in [Procs -> Calls] /\ call[p] \in Calls /\ call[p].pc = from
  BY DEF BlobInv, TypeOK, Step
<1>2. call' = [call EXCEPT ![p].pc = to]
  BY DEF Step
<1>3. /\ call' \in [Procs -> Calls]
      /\ \A o \in Procs \ {p} : call'[o] = call[o]
      /\ call'[p].pc = to /\ call'[p].at = call[p].at /\ call'[p].blobs = call[p].blobs
  BY <1>1, <1>2 DEF Calls
<1>4. call[p].at \in Ids /\ call[p].blobs[call[p].at] \in Reps
  BY <1>1 DEF BlobInv, PutsAreOfBlobs
<1>5. QED
  BY <1>3, <1>4, CallStep DEF Rep

LEMMA BlobStepInv ==
    ASSUME BlobInv, [Next]_blobVars
    PROVE  BlobInv'
<1>1. ASSUME NEW p \in Procs, NEW blobs \in Blobs, RestoreBlobs(p, blobs)
      PROVE  BlobInv'
  <2>1. CASE Held(blobs) = {}
    BY <1>1, <2>1, EndStep DEF RestoreBlobs
  <2>2. CASE Held(blobs) # {}
    <3>1. PICK first \in Held(blobs) :
            call' = [call EXCEPT ![p].pc = "read", ![p].at = first, ![p].blobs = blobs]
      BY <1>1, <2>2 DEF RestoreBlobs
    <3>2. first \in Ids /\ blobs[first] \in Reps
      BY DEF Held, Blobs
    <3>3. call \in [Procs -> Calls] /\ call[p] \in Calls
      BY DEF BlobInv, TypeOK
    <3>4. /\ call' \in [Procs -> Calls]
          /\ \A o \in Procs \ {p} : call'[o] = call[o]
          /\ call'[p].pc = "read" /\ call'[p].at = first /\ call'[p].blobs = blobs
      BY <3>1, <3>2, <3>3 DEF Calls, PutSteps
    <3>5. UNCHANGED <<dir, durable, stored>>
      BY <1>1 DEF RestoreBlobs
    <3>6. QED
      BY <3>2, <3>4, <3>5, CallStep
  <2>3. QED
    BY <2>1, <2>2
<1>2. ASSUME NEW p \in Procs, NEW id \in Ids, NEW rep \in Reps, PutIfAbsent(p, id, rep)
      PROVE  BlobInv'
  <2>1. [NoBlobs EXCEPT ![id] = rep] \in Blobs
    BY DEF NoBlobs, Blobs
  <2>2. QED
    BY <1>2, <2>1, <1>1 DEF PutIfAbsent
<1>3. ASSUME NEW p \in Procs, NEW ids \in SUBSET Ids, ExportBlobs(p, ids)
      PROVE  BlobInv'
  <2>1. UNCHANGED <<dir, durable, stored>>
    BY <1>3 DEF ExportBlobs
  <2>2. CASE ids = {}
    BY <1>3, <2>1, <2>2, EndStep DEF ExportBlobs
  <2>3. CASE ids # {}
    <3>1. call' = [call EXCEPT ![p].pc = "export", ![p].todo = ids]
      BY <1>3, <2>3 DEF ExportBlobs
    <3>2. call \in [Procs -> Calls] /\ call[p] \in Calls
      BY DEF BlobInv, TypeOK
    <3>3. /\ call' \in [Procs -> Calls]
          /\ \A o \in Procs \ {p} : call'[o] = call[o]
          /\ call'[p].pc = "export"
      BY <3>1, <3>2 DEF Calls
    <3>4. call'[p].pc \notin PutSteps /\ call'[p].pc # "sync"
      BY <3>3 DEF PutSteps
    <3>5. QED
      BY <2>1, <3>3, <3>4, CallStep
  <2>4. QED
    BY <2>2, <2>3
<1>4. ASSUME NEW p \in Procs, ReadExisting(p)
      PROVE  BlobInv'
  <2>1. UNCHANGED <<dir, durable, stored>> /\ call[p].pc \in PutSteps
    BY <1>4 DEF ReadExisting, PutSteps
  <2>2. CASE Step(p, "read", "write")
    BY <2>1, <2>2, MoveStep DEF PutSteps
  <2>3. CASE Acknowledge(p)
    <3>1. TypeOK /\ PutsAreOfBlobs
      BY DEF BlobInv
    <3>2. /\ call' \in [Procs -> Calls]
          /\ \A o \in Procs \ {p} : call'[o] = call[o]
          /\ call'[p].pc \in {"done", "read"}
          /\ call'[p].pc = "read" => call'[p].at \in Ids /\ call'[p].blobs[call'[p].at] \in Reps
      BY <2>1, <2>3, <3>1, AcknowledgeTyped
    <3>3. /\ call'[p].pc \in PutSteps => call'[p].at \in Ids /\ call'[p].blobs[call'[p].at] \in Reps
          /\ call'[p].pc # "sync"
      BY <3>2 DEF PutSteps
    <3>4. QED
      BY <2>1, <3>2, <3>3, CallStep
  <2>4. CASE Finish(p, "conflict")
    BY <2>1, <2>4, EndStep
  <2>5. QED
    BY <1>4, <2>2, <2>3, <2>4 DEF ReadExisting
<1>5. ASSUME NEW p \in Procs, WriteTemporary(p)
      PROVE  BlobInv'
  BY <1>5, MoveStep DEF WriteTemporary, PutSteps
<1>6. ASSUME NEW p \in Procs, Link(p)
      PROVE  BlobInv'
  <2>1. /\ call \in [Procs -> Calls] /\ call[p] \in Calls /\ dir \in Blobs /\ durable \in Blobs
        /\ call[p].at \in Ids /\ Rep(p) \in Reps
    BY <1>6 DEF BlobInv, TypeOK, PutsAreOfBlobs, PutSteps, Link, Rep
  <2>2. CASE dir[call[p].at] # Absent
    BY <1>6, <2>2, MoveStep DEF Link, PutSteps
  <2>3. CASE dir[call[p].at] = Absent
    <3>1. /\ dir' = [dir EXCEPT ![call[p].at] = Rep(p)]
          /\ call' = [call EXCEPT ![p].pc = "sync"]
          /\ UNCHANGED <<durable, stored>>
      BY <1>6, <2>3 DEF Link, Step
    <3>2. /\ call' \in [Procs -> Calls]
          /\ \A o \in Procs \ {p} : call'[o] = call[o]
          /\ call'[p].pc = "sync" /\ call'[p].at = call[p].at /\ call'[p].blobs = call[p].blobs
      BY <2>1, <3>1 DEF Calls, PutSteps
    <3>3. durable[call[p].at] = Absent
      BY <2>1, <2>3 DEF BlobInv, TypeOK, Within, Held
    <3>4. dir' \in Blobs /\ Within(durable, dir)'
      BY <2>1, <3>1, <3>3 DEF BlobInv, TypeOK, Within, Held, Blobs
    <3>5. TypeOK'
      BY <3>1, <3>2, <3>4 DEF BlobInv, TypeOK
    <3>6. PutsAreOfBlobs'
      BY <2>1, <3>2 DEF BlobInv, PutsAreOfBlobs, Rep
    <3>7. SyncedIsOwn'
      <4>1. ASSUME NEW o \in Procs, call'[o].pc = "sync"
            PROVE  dir'[call'[o].at] = call'[o].blobs[call'[o].at]
        <5>1. CASE o = p
          BY <2>1, <3>1, <3>2, <5>1 DEF Rep, Blobs
        <5>2. CASE o # p
          <6>1. dir[call[o].at] = call[o].blobs[call[o].at] /\ call'[o] = call[o]
            BY <3>2, <4>1, <5>2 DEF BlobInv, SyncedIsOwn, Rep
          <6>2. call[o].at \in Ids /\ call[o].blobs[call[o].at] \in Reps
            BY <3>2, <4>1, <5>2 DEF BlobInv, PutsAreOfBlobs, PutSteps
          <6>3. call[o].at # call[p].at
            BY <2>3, <6>1, <6>2, AbsentIsNoRepresentation
          <6>4. QED
            BY <2>1, <3>1, <6>1, <6>2, <6>3 DEF Blobs
        <5>3. QED
          BY <5>1, <5>2
      <4>2. QED
        BY <4>1 DEF SyncedIsOwn, Rep
    <3>8. StoredBlobsAreDurable'
      BY <3>1 DEF BlobInv, StoredBlobsAreDurable
    <3>9. QED
      BY <3>5, <3>6, <3>7, <3>8 DEF BlobInv
  <2>4. QED
    BY <2>2, <2>3
<1>7. ASSUME NEW p \in Procs, Reread(p)
      PROVE  BlobInv'
  <2>1. UNCHANGED <<dir, durable, stored>>
    BY <1>7 DEF Reread
  <2>2. CASE dir[call[p].at] = Rep(p)
    BY <1>7, <2>1, <2>2, MoveStep DEF Reread, PutSteps
  <2>3. CASE dir[call[p].at] # Rep(p)
    BY <1>7, <2>1, <2>3, EndStep DEF Reread
  <2>4. QED
    BY <2>2, <2>3
<1>8. ASSUME NEW p \in Procs, SyncDirectory(p)
      PROVE  BlobInv'
  <2>1. /\ call[p].pc = "sync" /\ Acknowledge(p) /\ dir' = dir /\ durable' = dir
        /\ stored' = stored \cup {<<call[p].at, Rep(p)>>}
    BY <1>8 DEF SyncDirectory
  <2>2. TypeOK /\ PutsAreOfBlobs /\ call[p].pc \in PutSteps
    BY <2>1 DEF BlobInv, PutSteps
  <2>3. /\ call' \in [Procs -> Calls]
        /\ \A o \in Procs \ {p} : call'[o] = call[o]
        /\ call'[p].pc \in {"done", "read"}
        /\ call'[p].pc = "read" => call'[p].at \in Ids /\ call'[p].blobs[call'[p].at] \in Reps
    BY <2>1, <2>2, AcknowledgeTyped
  <2>4. call[p].at \in Ids /\ Rep(p) \in Reps /\ dir[call[p].at] = Rep(p)
    BY <2>1, <2>2 DEF BlobInv, PutsAreOfBlobs, SyncedIsOwn, Rep
  <2>5. TypeOK'
    BY <2>1, <2>3, <2>4 DEF BlobInv, TypeOK, Within, Held
  <2>6. PutsAreOfBlobs' /\ SyncedIsOwn'
    BY <2>1, <2>3 DEF BlobInv, PutsAreOfBlobs, SyncedIsOwn, Rep, PutSteps
  <2>7. StoredBlobsAreDurable'
    <3>1. \A b \in stored : b \in Ids \X Reps /\ durable[b[1]] = b[2]
      BY DEF BlobInv, TypeOK, StoredBlobsAreDurable
    <3>2. \A b \in stored : dir[b[1]] = b[2]
      BY <3>1, AbsentIsNoRepresentation DEF BlobInv, TypeOK, Within, Held
    <3>3. QED
      BY <2>1, <2>4, <3>2 DEF StoredBlobsAreDurable
  <2>8. QED
    BY <2>5, <2>6, <2>7 DEF BlobInv
<1>9. ASSUME NEW p \in Procs, ReadBlob(p)
      PROVE  BlobInv'
  <2>1. UNCHANGED <<dir, durable, stored>> /\ call[p].pc = "export"
    BY <1>9 DEF ReadBlob
  <2>2. PICK id \in call[p].todo :
          LET left == call[p].todo \ {id}
          IN  IF dir[id] = Absent THEN Finish(p, "missing")
              ELSE call' = [call EXCEPT ![p].blobs = [@ EXCEPT ![id] = dir[id]],
                                        ![p].todo = left,
                                        ![p].pc = IF left = {} THEN "done" ELSE "export",
                                        ![p].result = IF left = {} THEN "ok" ELSE "none"]
    BY <1>9 DEF ReadBlob
  <2>3. CASE dir[id] = Absent
    BY <2>1, <2>2, <2>3, EndStep
  <2>4. CASE dir[id] # Absent
    <3>1. call \in [Procs -> Calls] /\ call[p] \in Calls /\ id \in Ids /\ dir[id] \in Reps
      BY <2>2, <2>4 DEF BlobInv, TypeOK, Calls, Blobs
    <3>2. [call[p].blobs EXCEPT ![id] = dir[id]] \in Blobs /\ call[p].todo \ {id} \in SUBSET Ids
      BY <3>1 DEF Calls, Blobs
    <3> DEFINE b == [call[p].blobs EXCEPT ![id] = dir[id]]
               left == call[p].todo \ {id}
               c == [call[p] EXCEPT !.blobs = b, !.todo = left,
                                    !.pc = IF left = {} THEN "done" ELSE "export",
                                    !.result = IF left = {} THEN "ok" ELSE "none"]
    <3>6. call' = [call EXCEPT ![p] = c]
      BY <2>2, <2>4, <3>1
    <3>7. c \in Calls /\ c.pc \in {"done", "export"}
      <4> HIDE DEF b, left
      <4>1. b \in Blobs /\ left \in SUBSET Ids
        BY <3>2 DEF b, left
      <4>2. QED
        BY <3>1, <4>1 DEF Calls
    <3>3. /\ call' \in [Procs -> Calls]
          /\ \A o \in Procs \ {p} : call'[o] = call[o]
          /\ call'[p].pc \in {"done", "export"}
      <4> HIDE DEF c
      <4>1. QED BY <3>1, <3>6, <3>7
    <3>4. call'[p].pc \notin PutSteps /\ call'[p].pc # "sync"
      BY <3>3 DEF PutSteps
    <3>5. QED
      BY <2>1, <3>3, <3>4, CallStep
  <2>5. QED
    BY <2>3, <2>4
<1>10. ASSUME NEW p \in Procs, Take(p)
       PROVE  BlobInv'
  BY <1>10, EndStep DEF Take
<1>11. ASSUME NEW p \in Procs, FileError(p)
       PROVE  BlobInv'
  BY <1>11, EndStep DEF FileError
<1>12. ASSUME NEW dead \in SUBSET Procs, Die(dead)
       PROVE  BlobInv'
  <2>1. call' = [p \in Procs |-> IF p \in dead THEN NoCall ELSE call[p]] /\ UNCHANGED <<dir, durable, stored>>
    BY <1>12 DEF Die
  <2>2. call' \in [Procs -> Calls]
    BY <2>1, NoCallTyped DEF BlobInv, TypeOK
  <2>3. \A p \in Procs : call'[p].pc \in PutSteps => call'[p] = call[p]
    BY <2>1 DEF NoCall, PutSteps
  <2>4. QED
    BY <2>1, <2>2, <2>3 DEF BlobInv, TypeOK, PutsAreOfBlobs, SyncedIsOwn, StoredBlobsAreDurable, Rep,
       Within, Held, PutSteps
<1>13. CASE PowerLoss
  <2>1. /\ dir' \in Blobs /\ Within(durable, dir') /\ Within(dir', dir) /\ durable' = dir'
        /\ call' = [p \in Procs |-> NoCall] /\ stored' = stored
    BY <1>13 DEF PowerLoss
  <2>2. call' \in [Procs -> Calls] /\ \A p \in Procs : call'[p].pc = "idle"
    BY <2>1, NoCallTyped DEF NoCall
  <2>3. TypeOK' /\ PutsAreOfBlobs' /\ SyncedIsOwn'
    BY <2>1, <2>2 DEF BlobInv, TypeOK, PutsAreOfBlobs, SyncedIsOwn, PutSteps, Within, Held
  <2>4. StoredBlobsAreDurable'
    <3>1. \A b \in stored : b[1] \in Ids /\ b[2] \in Reps /\ durable[b[1]] = b[2]
      BY DEF BlobInv, TypeOK, StoredBlobsAreDurable
    <3>2. \A b \in stored : dir'[b[1]] = b[2]
      BY <2>1, <3>1, AbsentIsNoRepresentation DEF Within, Held
    <3>3. QED
      BY <2>1, <3>2 DEF StoredBlobsAreDurable
  <2>5. QED
    BY <2>3, <2>4 DEF BlobInv
<1>14. CASE UNCHANGED blobVars
  BY <1>14 DEF blobVars, BlobInv, TypeOK, PutsAreOfBlobs, SyncedIsOwn, StoredBlobsAreDurable, Rep, Within, Held
<1>15. QED
  BY <1>1, <1>2, <1>3, <1>4, <1>5, <1>6, <1>7, <1>8, <1>9, <1>10, <1>11, <1>12, <1>13, <1>14
     DEF Next, PutStep

\* The invariant of the blob directory holds, for every set of callers and ids.
THEOREM BlobInvariant == Spec => []BlobInv
<1>1. QED BY BlobInit, BlobStepInv, PTL DEF Spec

-----------------------------------------------------------------------------
(* What one step of a call does, for the specifications that use the store. *)

\* What is on the disk stays there, whatever happens.
LEMMA DurableGrows ==
    ASSUME TypeOK, [Next]_blobVars, NEW i \in Ids, durable[i] # Absent
    PROVE  durable'[i] = durable[i]
<1>1. durable \in Blobs /\ Within(durable, dir) /\ i \in Held(durable)
  BY DEF TypeOK, Held
<1>2. ASSUME NEW p \in Procs, SyncDirectory(p)
      PROVE  durable'[i] = durable[i]
  BY <1>1, <1>2 DEF SyncDirectory, Within
<1>3. CASE PowerLoss
  BY <1>1, <1>3 DEF PowerLoss, Within
<1>4. CASE UNCHANGED durable
  BY <1>4
<1>5. QED
  BY <1>2, <1>3, <1>4 DEF Next, PutStep, blobVars, RestoreBlobs, PutIfAbsent, ExportBlobs, ReadExisting,
     WriteTemporary, Link, Reread, ReadBlob, Take, FileError, Die

LEMMA AcknowledgeProgress ==
    ASSUME TypeOK, NEW p \in Procs, Acknowledge(p)
    PROVE  /\ call'[p].pc \in {"done", "read"}
           /\ call'[p].pc = "done" => call'[p] = Finished("ok")
           /\ \A i \in Ids : i # call[p].at => call'[p].blobs[i] = call[p].blobs[i]
<1> DEFINE rest == [call[p].blobs EXCEPT ![call[p].at] = Absent]
<1>1. call \in [Procs -> Calls] /\ call[p] \in Calls /\ rest \in Blobs
  BY DEF TypeOK, Calls, Blobs
<1>2. \A i \in Ids : i # call[p].at => rest[i] = call[p].blobs[i]
  BY <1>1 DEF Calls, Blobs
<1>3. CASE Held(rest) = {}
  <2>1. call' = [call EXCEPT ![p] = Finished("ok")]
    BY <1>3 DEF Acknowledge, Finish
  <2>2. \A i \in Ids : rest[i] = NoBlobs[i]
    BY <1>3 DEF Held, NoBlobs
  <2>3. QED
    BY <1>1, <1>2, <2>1, <2>2 DEF Finished, NoCall
<1>4. CASE Held(rest) # {}
  <2>1. PICK next \in Held(rest) :
          call' = [call EXCEPT ![p].pc = "read", ![p].at = next, ![p].blobs = rest]
    BY <1>4 DEF Acknowledge
  <2>2. call'[p].pc = "read" /\ call'[p].blobs = rest
    BY <1>1, <2>1 DEF Calls
  <2>3. QED
    BY <1>2, <2>2
<1>5. QED
  BY <1>3, <1>4

\* A step of a put: an entry that differs from the disk is one its own process
\* is about to sync, or was there before and is not the one just synced; a blob
\* leaves the batch when the directory has it.
LEMMA PutProgress ==
    ASSUME BlobInv, NEW p \in Procs, PutStep(p)
    PROVE  /\ call[p].pc \in PutSteps
           /\ \A o \in Procs \ {p} : call'[o] = call[o]
           /\ call'[p].pc \in PutSteps \cup {"done"}
           /\ call'[p].pc = "done" => call'[p].blobs = NoBlobs /\ call'[p].result \in {"ok", "conflict"}
           /\ \A i \in Ids : dir'[i] # durable'[i] =>
                 \/ call'[p].pc = "sync" /\ call'[p].at = i
                 \/ dir[i] # durable[i] /\ ~(call[p].pc = "sync" /\ call[p].at = i)
           /\ call'[p].pc \in PutSteps \/ call'[p].result = "ok" =>
                 \A i \in Ids : \/ call'[p].blobs[i] = call[p].blobs[i]
                                \/ dir'[i] = call[p].blobs[i] /\ call'[p].pc # "sync"
<1>1. call \in [Procs -> Calls] /\ call[p] \in Calls /\ dir \in Blobs
  BY DEF BlobInv, TypeOK
<1>2. ASSUME Finish(p, "conflict")
      PROVE  /\ \A o \in Procs \ {p} : call'[o] = call[o]
             /\ call'[p].pc = "done" /\ call'[p].blobs = NoBlobs /\ call'[p].result = "conflict"
  BY <1>1, <1>2 DEF Finish, Finished, NoCall
<1>3. ASSUME NEW from \in PutSteps, NEW to \in PutSteps, Step(p, from, to)
      PROVE  /\ \A o \in Procs \ {p} : call'[o] = call[o]
             /\ call[p].pc = from /\ call'[p].pc = to
             /\ call'[p].blobs = call[p].blobs /\ call'[p].at = call[p].at
  BY <1>1, <1>3 DEF Step, Calls
<1>4. ASSUME Acknowledge(p), dir' = dir, call[p].pc \in PutSteps, dir[call[p].at] = Rep(p)
      PROVE  /\ \A o \in Procs \ {p} : call'[o] = call[o]
             /\ call'[p].pc \in {"done", "read"}
             /\ call'[p].pc = "done" => call'[p].blobs = NoBlobs /\ call'[p].result = "ok"
             /\ \A i \in Ids : \/ call'[p].blobs[i] = call[p].blobs[i]
                               \/ dir'[i] = call[p].blobs[i]
  <2>1. TypeOK /\ PutsAreOfBlobs
    BY DEF BlobInv
  <2>2. \A o \in Procs \ {p} : call'[o] = call[o]
    BY <1>4, <2>1, AcknowledgeTyped
  <2>3. QED
    BY <1>4, <2>1, <2>2, AcknowledgeProgress DEF Finished, NoCall, Rep
<1>5. CASE ReadExisting(p)
  <2>1. call[p].pc = "read" /\ UNCHANGED <<dir, durable>>
    BY <1>5 DEF ReadExisting
  <2>2. CASE Step(p, "read", "write")
    BY <1>3, <2>1, <2>2 DEF PutSteps
  <2>3. CASE Acknowledge(p) /\ dir[call[p].at] = Rep(p)
    BY <1>4, <2>1, <2>3 DEF PutSteps
  <2>4. CASE Finish(p, "conflict")
    BY <1>2, <2>1, <2>4 DEF PutSteps
  <2>5. QED
    BY <1>5, <2>2, <2>3, <2>4 DEF ReadExisting
<1>6. CASE WriteTemporary(p)
  BY <1>3, <1>6 DEF WriteTemporary, PutSteps
<1>7. CASE Link(p)
  <2>1. CASE dir[call[p].at] = Absent
    <3>1. /\ dir' = [dir EXCEPT ![call[p].at] = Rep(p)] /\ durable' = durable
          /\ Step(p, "link", "sync")
      BY <1>7, <2>1 DEF Link
    <3>2. \A i \in Ids : i # call[p].at => dir'[i] = dir[i]
      BY <1>1, <3>1 DEF Blobs
    <3>3. QED
      BY <1>3, <3>1, <3>2 DEF PutSteps
  <2>2. CASE dir[call[p].at] # Absent
    BY <1>3, <1>7, <2>2 DEF Link, PutSteps
  <2>3. QED
    BY <2>1, <2>2
<1>8. CASE Reread(p)
  <2>1. call[p].pc = "reread" /\ UNCHANGED <<dir, durable>>
    BY <1>8 DEF Reread
  <2>2. CASE Step(p, "reread", "sync")
    BY <1>3, <2>1, <2>2 DEF PutSteps
  <2>3. CASE Finish(p, "conflict")
    BY <1>2, <2>1, <2>3 DEF PutSteps
  <2>4. QED
    BY <1>8, <2>2, <2>3 DEF Reread
<1>9. CASE SyncDirectory(p)
  <2>1. call[p].pc = "sync" /\ Acknowledge(p) /\ dir' = dir /\ durable' = dir
    BY <1>9 DEF SyncDirectory
  <2>2. dir[call[p].at] = Rep(p)
    BY <2>1 DEF BlobInv, SyncedIsOwn
  <2>3. QED
    BY <1>4, <2>1, <2>2 DEF PutSteps
<1>10. QED
  BY <1>5, <1>6, <1>7, <1>8, <1>9 DEF PutStep

-----------------------------------------------------------------------------
(* What follows from it. *)

\* The state of the blob store keeps its shape.
THEOREM BlobTypeCorrect == Spec => []TypeOK
<1>1. BlobInv => TypeOK
  BY DEF BlobInv
<1>2. QED BY <1>1, BlobInvariant, PTL

\* A blob acknowledged after its directory fsync survives every later put,
\* failed call, dead process and power loss.
THEOREM StoredBlobsSurvive == Spec => []StoredBlobsAreDurable
<1>1. BlobInv => StoredBlobsAreDurable
  BY DEF BlobInv
<1>2. QED BY <1>1, BlobInvariant, PTL

LEMMA AbstractInit == Init => Abstract!Init
BY DEF Init, NoBlobs, Abstract!Init

LEMMA AbstractStep ==
    ASSUME BlobInv, [Next]_blobVars
    PROVE  [Abstract!Next]_(Abstract!vars)
<1>1. ASSUME NEW p \in Procs, Link(p)
      PROVE  [Abstract!Next]_(Abstract!vars)
  <2>1. call[p].at \in Ids /\ Rep(p) \in Reps
    BY <1>1 DEF BlobInv, PutsAreOfBlobs, PutSteps, Link, Rep
  <2>2. CASE dir[call[p].at] = Absent
    <3>1. Abstract!Write(call[p].at, Rep(p))
      BY <1>1, <2>2 DEF Link, Abstract!Write
    <3>2. QED
      BY <2>1, <3>1 DEF Abstract!Next
  <2>3. CASE dir[call[p].at] # Absent
    BY <1>1, <2>3 DEF Link, Abstract!vars
  <2>4. QED
    BY <2>2, <2>3
<1>2. ASSUME NEW p \in Procs, SyncDirectory(p)
      PROVE  [Abstract!Next]_(Abstract!vars)
  <2>1. call[p].at \in Ids /\ Rep(p) \in Reps /\ dir[call[p].at] = Rep(p)
    BY <1>2 DEF BlobInv, PutsAreOfBlobs, SyncedIsOwn, PutSteps, SyncDirectory, Rep
  <2>2. Abstract!Promise(call[p].at, Rep(p))
    BY <1>2, <2>1 DEF SyncDirectory, Abstract!Promise
  <2>3. QED
    BY <2>1, <2>2 DEF Abstract!Next
<1>3. CASE PowerLoss
  <2> DEFINE lost == {i \in Ids : dir'[i] # dir[i]}
  <2>1. /\ dir' \in Blobs /\ Within(durable, dir') /\ Within(dir', dir) /\ stored' = stored
    BY <1>3 DEF PowerLoss
  <2>2. dir' = [i \in Ids |-> IF i \in lost THEN Absent ELSE dir[i]]
    <3>1. \A i \in Ids : dir'[i] # dir[i] => dir'[i] = Absent
      BY <2>1 DEF Within, Held
    <3>2. QED
      BY <2>1, <3>1 DEF Blobs
  <2>3. ASSUME NEW i \in lost, NEW r \in Reps, <<i, r>> \in stored
        PROVE  FALSE
    <3>1. durable[i] = r
      BY <2>3 DEF BlobInv, StoredBlobsAreDurable
    <3>2. dir[i] = r /\ dir'[i] = r
      BY <2>1, <2>3, <3>1, AbsentIsNoRepresentation DEF BlobInv, TypeOK, Within, Held
    <3>3. QED
      BY <3>2
  <2>4. Abstract!Forget(lost)
    BY <2>1, <2>2, <2>3 DEF Abstract!Forget
  <2>5. QED
    BY <2>4 DEF Abstract!Next
<1>4. CASE UNCHANGED <<dir, stored>>
  BY <1>4 DEF Abstract!vars
<1>5. QED
  BY <1>1, <1>2, <1>3, <1>4 DEF Next, PutStep, blobVars, RestoreBlobs, PutIfAbsent, ExportBlobs, ReadExisting,
     WriteTemporary, Reread, ReadBlob, Take, FileError, Die

\* The directory, written by any number of processes that may die at any
\* moment, implements a write-once map that keeps what it vouched for.
THEOREM DirectoryIsWriteOnce == Spec => ImplementsWriteOnceStore
<1>1. QED
  BY BlobInvariant, AbstractInit, AbstractStep, PTL DEF Spec, ImplementsWriteOnceStore, Abstract!Spec
=============================================================================
