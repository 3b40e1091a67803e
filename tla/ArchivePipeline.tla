--------------------------- MODULE ArchivePipeline ---------------------------
(***************************************************************************)
(* The archive jobs of a relay host (ops/host-relay/bin): archive.sh puts  *)
(* verified exports into a directory, off-provider-copy.sh copies the      *)
(* latest one to a remote and writes a receipt, restore-drill.sh restores  *)
(* what a receipt names, on the host or on a recovery host.  Every job is  *)
(* a script that may stop at any command.                                  *)
(*                                                                         *)
(* systemd runs one instance of a job at a time, and archive.sh has a lock *)
(* of its own.  The content of an export is a value; SHA-256 and the       *)
(* archive digest are injective and are represented by the content.  The   *)
(* remote is external: an upload may arrive damaged.  Files rot, here and   *)
(* there; one that did keeps its name, and a manifest the archive name in   *)
(* it, if it can be read at all.                                            *)
(***************************************************************************)
EXTENDS Integers, Sequences, FiniteSetsExt

CONSTANTS
    Hosts,                  \* where drills may run: "primary", the relay's own, or "recovery"
    MaxDrillTime,           \* a drill takes less
    MaxArchiveTime,         \* systemd kills an archive job that takes more,
    MaxCopyTime,            \* and a copy job
    MaxTime, MaxDrillingTime, MaxFaults,    \* bounds of the model: the clock stops, and
                                            \* earlier where drills run; damages
    None

ASSUME HostsAreKnown == Hosts \subseteq {"primary", "recovery"}
ASSUME TimesAreNatural ==
    /\ {MaxDrillTime, MaxArchiveTime, MaxCopyTime, MaxTime, MaxDrillingTime, MaxFaults} \subseteq Nat
    /\ MaxDrillingTime <= MaxTime

VARIABLES
    clock,
    archiver,   \* archive.sh: pc, stamp, files moved, when it staged its manifest
    names,      \* stamps whose file names are taken in the staging or verified directory
    verified,   \* the verified directory: stamp -> artifact -> content, or None
    stagedAt,   \* modification time of a verified manifest, or None
    copier,     \* off-provider-copy.sh: pc, stamp, files sent, expected checksum, start
    remote,     \* the remote: stamp -> artifact -> content, or None
    receipts,   \* place -> time in the name -> receipt, or None
    host,       \* the host where drills run, or None
    drill,      \* restore-drill.sh: pc, stamp, checksum of the receipt, downloads, start
    evidence,   \* the latest evidence of a drill, or None
    faults, rotten      \* history: damages so far, <<place, stamp, artifact>> that rotted

archiving == <<archiver, names, verified, stagedAt>>
copying == <<copier, remote, receipts>>
drilling == <<host, drill, evidence>>
vars == <<clock, archiving, copying, drilling, faults, rotten>>

Times == 0 .. MaxTime
Artifacts == {"archive", "checksum", "manifest"}
Places == {"local", "remote"}
Idle == [pc |-> "idle"]
NoFiles == [a \in Artifacts |-> None]

(* Content: of the export with a stamp, or of a damaged artifact.           *)
Export(stamp) == [stamp |-> stamp, origin |-> "export"]
Damaged(stamp, artifact) == [stamp |-> stamp, origin |-> artifact]

ASSUME NoneIsNoValue ==
    /\ None \notin Times
    /\ \A s \in Times : None # Export(s) /\ \A a \in Artifacts : None # Damaged(s, a)

Init ==
    /\ clock = 0
    /\ archiver = Idle /\ names = {}
    /\ verified = [s \in Times |-> NoFiles] /\ stagedAt = [s \in Times |-> None]
    /\ copier = Idle /\ remote = [s \in Times |-> NoFiles]
    /\ receipts = [p \in Places |-> [t \in Times |-> None]]
    /\ host \in Hosts \cup {None} /\ drill = Idle /\ evidence = None
    /\ faults = 0 /\ rotten = {}

Tick ==
    /\ clock < (IF host = None THEN MaxTime ELSE MaxDrillingTime)
    /\ clock' = clock + 1
    /\ UNCHANGED <<archiving, copying, drilling, faults, rotten>>

-----------------------------------------------------------------------------
(* archive.sh                                                               *)

ArchiverOnly == UNCHANGED <<clock, copying, drilling, faults, rotten>>

(* Up to the export: the lock is free and the names of this moment are; the *)
(* stamp is also the time of the data.                                      *)
StartArchive ==
    /\ archiver = Idle /\ clock \notin names
    /\ archiver' = [pc |-> "verify", stamp |-> clock]
    /\ names' = names \cup {clock}
    /\ UNCHANGED <<verified, stagedAt>> /\ ArchiverOnly

(* verify and verify-archive agree; checksum and manifest are staged. *)
Stage ==
    /\ archiver.pc = "verify" /\ clock - archiver.stamp <= MaxArchiveTime
    /\ archiver' = [pc |-> "move", stamp |-> archiver.stamp, moved |-> 0, staged |-> clock]
    /\ UNCHANGED <<names, verified, stagedAt>> /\ ArchiverOnly

(* Variant: the manifest is moved before the archive it describes. *)
MoveOrderManifestFirst == <<"manifest", "archive", "checksum">>

MoveOrder == <<"archive", "checksum", "manifest">>

(* mv keeps the time of the last modification. *)
Move ==
    LET next == archiver.moved + 1
        stamp == archiver.stamp
    IN
    /\ archiver.pc = "move" /\ clock - stamp <= MaxArchiveTime
    /\ verified' = [verified EXCEPT ![stamp][MoveOrder[next]] = Export(stamp)]
    /\ stagedAt' = IF MoveOrder[next] = "manifest" THEN [stagedAt EXCEPT ![stamp] = archiver.staged]
                   ELSE stagedAt
    /\ archiver' = IF next = Len(MoveOrder) THEN Idle ELSE [archiver EXCEPT !.moved = next]
    /\ UNCHANGED names /\ ArchiverOnly

(* A command fails, or the job is killed; what it wrote stays. *)
ArchiveStops ==
    /\ archiver # Idle
    /\ archiver' = Idle
    /\ UNCHANGED <<names, verified, stagedAt>> /\ ArchiverOnly

-----------------------------------------------------------------------------
(* off-provider-copy.sh                                                     *)

CopierOnly == UNCHANGED <<clock, archiving, drilling, rotten>>

Manifests == {s \in Times : verified[s]["manifest"] # None}

(* Variant: the latest that was not copied yet, as long as there is one.    *)
latest_uncopied_manifest ==
    LET uncopied == {s \in Manifests : remote[s]["archive"] = None} IN
    Max(IF uncopied = {} THEN Manifests ELSE uncopied)

(* latest_verified_manifest; names break a tie. *)
latest_verified_manifest ==
    CHOOSE s \in Manifests : \A t \in Manifests :
        stagedAt[t] < stagedAt[s] \/ (stagedAt[t] = stagedAt[s] /\ t <= s)

(* The latest manifest, whose archive must match its checksum. *)
SelectManifest ==
    /\ copier = Idle /\ Manifests # {}
    /\ LET files == verified[latest_verified_manifest] IN
          /\ None \notin {files[a] : a \in Artifacts}
          /\ files["archive"] = files["checksum"]
          /\ copier' = [pc |-> "upload", stamp |-> latest_verified_manifest, sent |-> 0,
                        expected |-> files["checksum"], started |-> clock]
    /\ UNCHANGED <<remote, receipts, faults>> /\ CopierOnly

Artifact(n) == <<"archive", "checksum", "manifest">>[n]

(* rclone copyto --immutable: an artifact that is there must be the same.   *)
Upload ==
    LET stamp == copier.stamp
        artifact == Artifact(copier.sent + 1)
    IN
    /\ copier.pc = "upload"
    /\ \/ /\ remote[stamp][artifact] \in {None, verified[stamp][artifact]}
          /\ remote' = [remote EXCEPT ![stamp][artifact] = verified[stamp][artifact]]
          /\ UNCHANGED faults
       \/ /\ remote[stamp][artifact] = None /\ faults < MaxFaults
          /\ remote' = [remote EXCEPT ![stamp][artifact] = Damaged(stamp, artifact)]
          /\ faults' = faults + 1
    /\ copier' = IF copier.sent = 2 THEN [copier EXCEPT !.pc = "compare"] ELSE [copier EXCEPT !.sent = @ + 1]
    /\ UNCHANGED receipts /\ CopierOnly

(* Variant: nothing is read back. *)
ReadBackUnread == TRUE

(* What is read back is what was to be copied. *)
ReadBack ==
    LET files == remote[copier.stamp] IN
    /\ files["archive"] = copier.expected
    /\ \A a \in {"checksum", "manifest"} : files[a] = verified[copier.stamp][a]

WriteReceipt ==
    /\ copier.pc = "compare" /\ ReadBack
    /\ clock - copier.started <= MaxCopyTime
    /\ receipts' = [receipts EXCEPT !["local"][clock] =
                        [stamp |-> copier.stamp, sha256 |-> copier.expected]]
    /\ copier' = [pc |-> "receipt", at |-> clock]
    /\ UNCHANGED <<remote, faults>> /\ CopierOnly

CopyReceipt ==
    LET receipt == receipts["local"][copier.at] IN
    /\ copier.pc = "receipt"
    /\ receipts["remote"][copier.at] \in {None, receipt}
    /\ receipts' = [receipts EXCEPT !["remote"][copier.at] = receipt]
    /\ copier' = Idle
    /\ UNCHANGED <<remote, faults>> /\ CopierOnly

(* A comparison or a command fails, or the job is killed. *)
CopyStops ==
    /\ copier # Idle
    /\ copier' = Idle
    /\ UNCHANGED <<remote, receipts, faults>> /\ CopierOnly

(* A verified file, or one on the remote, is damaged. *)
Rot(stamp, artifact) ==
    /\ faults < MaxFaults /\ faults' = faults + 1
    /\ \/ /\ verified[stamp][artifact] # None
          /\ verified' = [verified EXCEPT ![stamp][artifact] = Damaged(stamp, artifact)]
          /\ rotten' = rotten \cup {<<"local", stamp, artifact>>}
          /\ UNCHANGED remote
       \/ /\ remote[stamp][artifact] # None
          /\ remote' = [remote EXCEPT ![stamp][artifact] = Damaged(stamp, artifact)]
          /\ rotten' = rotten \cup {<<"remote", stamp, artifact>>}
          /\ UNCHANGED verified
    /\ UNCHANGED <<clock, archiver, names, stagedAt, copier, receipts, drilling>>

-----------------------------------------------------------------------------
(* restore-drill.sh                                                         *)

DrillOnly == UNCHANGED <<clock, archiving, copying, faults, rotten>>

ReceiptTimes(place) == {t \in Times : receipts[place][t] # None}

Begin(stamp, sha256) ==
    /\ host # None /\ drill = Idle
    /\ drill' = [pc |-> "download", stamp |-> stamp, sha256 |-> sha256, got |-> NoFiles, started |-> clock]
    /\ UNCHANGED <<host, evidence>> /\ DrillOnly

(* The latest local receipt; a host without any asks the remote. *)
SelectReceipt ==
    LET place == IF host = "primary" /\ ReceiptTimes("local") # {} THEN "local" ELSE "remote" IN
    /\ ReceiptTimes(place) # {}
    /\ LET receipt == receipts[place][Max(ReceiptTimes(place))] IN
          Begin(receipt.stamp, receipt.sha256)

(* An operator names the archive; there is no receipt to compare with.      *)
SelectArchive(stamp) == remote[stamp]["archive"] # None /\ Begin(stamp, None)

Download ==
    LET missing == {n \in 1 .. 3 : drill.got[Artifact(n)] = None}
        artifact == Artifact(Min(missing))
    IN
    /\ drill.pc = "download"
    /\ missing # {} /\ remote[drill.stamp][artifact] # None
    /\ drill' = [drill EXCEPT !.got[artifact] = remote[drill.stamp][artifact]]
    /\ UNCHANGED <<host, evidence>> /\ DrillOnly

(* Variant: the archive is not hashed. *)
MatchesUnhashed(d) ==
    /\ d.sha256 # None => d.got["checksum"] = d.sha256
    /\ d.got["manifest"] = d.got["checksum"]

(* Checksum, receipt, archive and manifest name one content.                *)
Matches(d) ==
    /\ d.sha256 # None => d.got["checksum"] = d.sha256
    /\ d.got["archive"] = d.got["checksum"]
    /\ d.got["manifest"] = d.got["checksum"]

(* finish, the exit trap. *)
Finish(status) ==
    /\ evidence' = [status |-> status, stamp |-> drill.stamp, restored |-> drill.got["archive"]]
    /\ drill' = Idle
    /\ UNCHANGED host /\ DrillOnly

(* All matches, the archive is restored and served, in time. *)
Succeed ==
    /\ drill.pc = "download" /\ None \notin {drill.got[a] : a \in Artifacts}
    /\ Matches(drill)
    /\ clock - drill.started < MaxDrillTime
    /\ Finish("success")

Fail == drill # Idle /\ Finish("failed")

(* The host stops; no evidence is left. *)
DrillDies ==
    /\ drill # Idle
    /\ drill' = Idle
    /\ UNCHANGED <<host, evidence>> /\ DrillOnly

-----------------------------------------------------------------------------
Next ==
    \/ StartArchive \/ Stage \/ Move \/ ArchiveStops
    \/ SelectManifest \/ Upload \/ WriteReceipt \/ CopyReceipt \/ CopyStops
    \/ \E stamp \in Times, artifact \in Artifacts : Rot(stamp, artifact)
    \/ SelectReceipt \/ (\E stamp \in Times : SelectArchive(stamp))
    \/ Download \/ Succeed \/ Fail \/ DrillDies
    \/ Tick

Spec == Init /\ [][Next]_vars

-----------------------------------------------------------------------------
Contents(stamp) == {Export(stamp)} \cup {Damaged(stamp, a) : a \in Artifacts}

(* The shape of the state; every archive has a name of its own. *)
TypeOK ==
    /\ clock \in Times /\ names \subseteq Times
    /\ \A s \in Times \ names : verified[s] = NoFiles
    /\ archiver.pc \in {"idle", "verify", "move"}
    /\ copier.pc \in {"idle", "upload", "compare", "receipt"}
    /\ \A s \in Times : \A a \in Artifacts :
          {verified[s][a], remote[s][a]} \subseteq Contents(s) \cup {None}
    /\ \A s \in Times : stagedAt[s] # None <=> verified[s]["manifest"] # None
    /\ \A s \in Times : stagedAt[s] # None => s <= stagedAt[s] /\ stagedAt[s] <= clock

(* A manifest is the completion marker: its archive and checksum are there, *)
(* wherever a job was stopped, and all are as exported, but for what rotted *)
(* since.  (ops/host-relay/README.md:269; the last lines of archive.sh)     *)
ManifestsComplete ==
    \A s \in Manifests : \A a \in Artifacts :
        /\ verified[s][a] # None
        /\ verified[s][a] = Export(s) \/ <<"local", s, a>> \in rotten

(* Where there is a receipt, local or remote, the remote has all three      *)
(* artifacts.  The receipt has the checksum of the export, and the archive  *)
(* was read back as exported, whatever rotted on the host meanwhile: if it  *)
(* is not so now, it rotted there.  The other two were compared with the    *)
(* verified files alone, so that damage to those may have been copied.      *)
(* (off-provider-copy.sh)                                                   *)
ReceiptsNameExports ==
    \A p \in Places : \A t \in ReceiptTimes(p) :
        LET s == receipts[p][t].stamp IN
        /\ receipts[p][t].sha256 = Export(s)
        /\ \A a \in Artifacts : remote[s][a] # None
        /\ \A a \in Artifacts : remote[s][a] # Export(s) =>
              \/ <<"remote", s, a>> \in rotten
              \/ a # "archive" /\ <<"local", s, a>> \in rotten

(* A later receipt never names an earlier archive, so that the latest one,  *)
(* by time or by name, names the newest copy.  (latest_verified_manifest,   *)
(* latest_off_provider_receipt)                                             *)
LatestReceiptsNameNewestCopies ==
    \A p \in Places : \A t, u \in ReceiptTimes(p) :
        t <= u => receipts[p][t].stamp <= receipts[p][u].stamp

(* Evidence of success is about an archive that was restored exactly as it  *)
(* was exported, whatever happened to the copies.  (restore-drill.sh)       *)
DrillsRestoreExports ==
    evidence # None /\ evidence.status = "success" =>
        evidence.restored = Export(evidence.stamp)
=============================================================================
